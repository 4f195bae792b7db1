--------------------------- MODULE Authority_proofs ---------------------------
(***************************************************************************)
(* Proofs about Authority: whatever the owners, groups, write bits and ACLs *)
(* of a host are, the decision of authority.py is that of the kernel; so     *)
(* what the gate enables is protected, and what it refuses has a cause.      *)
(***************************************************************************)
EXTENDS AuthorityProperties, FiniteSetTheorems, WellFoundedInduction, TLAPS

-----------------------------------------------------------------------------
(* Induction over the natural numbers, for a property given as the set of    *)
(* the numbers that have it.                                                *)

(* A set of natural numbers has a least element.                            *)
LEMMA LeastNat ==
  ASSUME NEW T \in SUBSET Nat, T # {}
  PROVE  \E n \in T : \A m \in T : n <= m
<1> DEFINE R == {ss \in Nat \X Nat : ss[1] < ss[2]}
<1>1. IsWellFoundedOn(R, Nat)
  BY NatLessThanWellFounded DEF OpToRel
<1>2. ASSUME NEW m \in Nat, NEW n \in Nat, <<m, n>> \notin R
      PROVE  n <= m
  <2>1. <<m, n>> \in Nat \X Nat /\ <<m, n>>[1] = m /\ <<m, n>>[2] = n
    OBVIOUS
  <2>2. ~(m < n)
    BY <1>2, <2>1
  <2> QED BY <2>2
<1> HIDE DEF R
<1>3. \E n \in T : \A m \in T : ~(<<m, n>> \in R)
  BY <1>1, WFMin
<1> QED BY <1>2, <1>3

(* What holds of 0, and of n + 1 when of n, holds of every number.          *)
LEMMA NatSetInduction ==
  ASSUME NEW T, 0 \in T, \A n \in Nat : n \in T => n + 1 \in T
  PROVE  Nat \subseteq T
<1> SUFFICES ASSUME Nat \ T # {} PROVE FALSE
  OBVIOUS
<1>1. PICK n \in Nat \ T : \A m \in Nat \ T : n <= m
  BY LeastNat
<1>2. n # 0 /\ n - 1 \in Nat /\ n - 1 \in T
  BY <1>1
<1> QED BY <1>1, <1>2

(* The largest of a set of numbers up to n.                                 *)
LEMMA MaxOf ==
  ASSUME NEW n \in Nat, NEW s \in SUBSET (1 .. n), s # {}
  PROVE  Max(s) \in s /\ \A m \in s : Max(s) >= m
<1> DEFINE T == {k \in Nat : \A m \in s : m <= k}
<1>1. n \in T
  OBVIOUS
<1>2. PICK k \in T : \A m \in T : k <= m
  <2>1. T \in SUBSET Nat /\ T # {}
    BY <1>1
  <2> HIDE DEF T
  <2> QED BY <2>1, LeastNat
<1>3. k \in s
  <2> SUFFICES ASSUME k \notin s PROVE FALSE
    OBVIOUS
  <2>1. PICK m \in s : TRUE
    OBVIOUS
  <2>2. k - 1 \in Nat /\ \A j \in s : j <= k - 1
    BY <1>2
  <2> QED BY <1>2, <2>2
<1>4. \E x \in s : \A y \in s : x >= y
  BY <1>2, <1>3
<1> QED BY <1>4 DEF Max

-----------------------------------------------------------------------------
(* The walk over the entries, as a sequence of its states.                  *)

(* The fold takes the last entry off a set of positions.                    *)
Taken(es, s, g) == IF s = {} THEN Walk ELSE WalkEntry(g[s \ {Max(s)}], es[Max(s)])
IsFold(es, S, g) == g = [s \in SUBSET S |-> Taken(es, s, g)]
Folded(es, S) == CHOOSE g : IsFold(es, S, g)

LEMMA WalkIsFold ==
  \A es : FoldLeft(WalkEntry, Walk, es) = Folded(es, DOMAIN es)[DOMAIN es]
  BY DEF FoldLeft, MapThenFoldSet, Folded, IsFold, Taken

(* That function exists.                                                    *)
LEMMA FoldExists ==
  ASSUME NEW len \in Nat, NEW es
  PROVE  IsFold(es, 1 .. len, Folded(es, 1 .. len))
<1> DEFINE S == 1 .. len
           Upto(n, g) == \A s \in SUBSET S : s \subseteq 1 .. n => g[s] = Taken(es, s, g)
           N == {n \in Nat : \E g : Upto(n, g)}
<1>1. 0 \in N
  <2> DEFINE g == [s \in SUBSET S |-> Walk]
  <2>1. ASSUME NEW s \in SUBSET S, s \subseteq 1 .. 0
        PROVE  g[s] = Taken(es, s, g)
    BY <2>1 DEF Taken
  <2> QED BY <2>1
<1>2. ASSUME NEW n \in Nat, n \in N
      PROVE  n + 1 \in N
  <2>1. PICK g : Upto(n, g)
    BY <1>2
  <2> DEFINE h == [s \in SUBSET S |-> Taken(es, s, g)]
  <2>2. ASSUME NEW s \in SUBSET S, s \subseteq 1 .. n + 1
        PROVE  h[s] = Taken(es, s, h)
    <3>1. CASE s = {}
      BY <3>1 DEF Taken
    <3>2. CASE s # {}
      <4> DEFINE t == s \ {Max(s)}
      <4>1. Max(s) \in s /\ \A m \in s : Max(s) >= m
        BY <3>2, MaxOf
      <4>2. t \in SUBSET S /\ t \subseteq 1 .. n
        <5>1. ASSUME NEW m \in t PROVE m \in 1 .. n
          <6>1. m \in 1 .. n + 1 /\ Max(s) \in 1 .. n + 1 /\ Max(s) >= m /\ m # Max(s)
            BY <4>1, <2>2
          <6> QED BY <6>1
        <5> QED BY <5>1
      <4>3. h[t] = g[t]
        BY <4>2, <2>1
      <4> QED BY <4>3, <3>2 DEF Taken
    <3> QED BY <3>1, <3>2
  <2> HIDE DEF h
  <2> QED BY <2>2
<1> HIDE DEF N
<1>3. Nat \subseteq N
  BY <1>1, <1>2, NatSetInduction
<1>4. PICK g : Upto(len, g)
  BY <1>3 DEF N
<1>5. \A s \in SUBSET S : g[s] = Taken(es, s, g)
  BY <1>4
<1> DEFINE h == [s \in SUBSET S |-> g[s]]
<1>6. IsFold(es, S, h)
  <2>1. ASSUME NEW s \in SUBSET S
        PROVE  Taken(es, s, g) = Taken(es, s, h)
    BY DEF Taken
  <2> QED BY <2>1, <1>5 DEF IsFold
<1> QED BY <1>6 DEF Folded

(* So the walk has a state before the first entry and after each.           *)
IsWalk(es, w) ==
  /\ w[0] = Walk
  /\ \A i \in 1 .. Len(es) : w[i] = WalkEntry(w[i - 1], es[i])

LEMMA WalkStates ==
  ASSUME NEW es \in Seq(AclEntry)
  PROVE  \E w : IsWalk(es, w) /\ w[Len(es)] = FoldLeft(WalkEntry, Walk, es)
<1> DEFINE len == Len(es)
           g == Folded(es, 1 .. len)
           w == [i \in 0 .. len |-> g[1 .. i]]
<1>1. len \in Nat /\ DOMAIN es = 1 .. len
  OBVIOUS
<1>2. IsFold(es, 1 .. len, g)
  BY <1>1, FoldExists
<1>3. g[1 .. len] = FoldLeft(WalkEntry, Walk, es)
  BY <1>1, WalkIsFold
<1> HIDE DEF len, g
<1>4. ASSUME NEW i \in 0 .. len
      PROVE  w[i] = Taken(es, 1 .. i, g)
  <2>1. 1 .. i \in SUBSET (1 .. len)
    BY <1>1
  <2> QED BY <2>1, <1>2 DEF IsFold
<1>5. w[0] = Walk
  <2>1. 0 \in 0 .. len /\ 1 .. 0 = {}
    BY <1>1
  <2> QED BY <2>1, <1>4 DEF Taken
<1>6. ASSUME NEW i \in 1 .. len
      PROVE  w[i] = WalkEntry(w[i - 1], es[i])
  <2>1. 1 .. i \in SUBSET (1 .. len) /\ 1 .. i # {} /\ i \in 1 .. i /\ i \in Nat
    BY <1>1
  <2>2. Max(1 .. i) = i
    <3>1. Max(1 .. i) \in 1 .. i /\ \A m \in 1 .. i : Max(1 .. i) >= m
      BY <2>1, MaxOf
    <3> QED BY <2>1, <3>1
  <2>3. (1 .. i) \ {i} = 1 .. i - 1 /\ i - 1 \in 0 .. len /\ i \in 0 .. len
    BY <1>1
  <2>4. w[i] = WalkEntry(g[(1 .. i) \ {Max(1 .. i)}], es[Max(1 .. i)])
    BY <1>4, <2>1, <2>3 DEF Taken
  <2>5. w[i - 1] = g[1 .. i - 1]
    BY <2>3
  <2> HIDE DEF w
  <2> QED BY <2>2, <2>3, <2>4, <2>5
<1> HIDE DEF w
<1>7. w[len] = g[1 .. len]
  BY <1>1 DEF w
<1> QED BY <1>3, <1>5, <1>6, <1>7 DEF IsWalk, len

-----------------------------------------------------------------------------
(* What the walk accepts, and how far it has come.                          *)
NamedTags == {"user", "group"}
KnownTags == {"user_obj", "user", "group_obj", "group", "mask", "other"}

Reached(tag) ==
  CASE tag \in {"user_obj", "user"} -> "user"
    [] tag \in {"group_obj", "group"} -> "group"
    [] tag = "mask" -> "other"
    [] OTHER -> "end"

Names(e) == IF e.tag \in NamedTags THEN {<<e.tag, e.id>>} ELSE {}

Accepts(v, e) ==
  /\ e.tag \in KnownTags /\ (e.tag \in NamedTags <=> e.id # Undefined)
  /\ e.tag = "user_obj" => v.at = "user_obj"
  /\ e.tag = "user" => v.at = "user" /\ <<e.tag, e.id>> \notin v.named
  /\ e.tag = "group_obj" => v.at = "user"
  /\ e.tag = "group" => v.at = "group" /\ <<e.tag, e.id>> \notin v.named
  /\ e.tag = "mask" => v.at = "group"
  /\ e.tag = "other" => v.at = "other" \/ (v.at = "group" /\ v.named = {})

Marks == {"user_obj", "user", "group", "other", "end"}
States == [at : Marks, named : SUBSET (STRING \X (Ids \cup {Undefined})), mask : BOOLEAN, ok : BOOLEAN]

LEMMA EntryStep ==
  ASSUME NEW v \in States, NEW e \in AclEntry
  PROVE  LET u == WalkEntry(v, e)
         IN  /\ u \in States /\ (u.ok <=> v.ok /\ Accepts(v, e))
             /\ u.ok => /\ u.at = Reached(e.tag) /\ u.named = v.named \cup Names(e)
                        /\ u.mask = (v.mask \/ e.tag = "mask")
<1> DEFINE u == WalkEntry(v, e)
<1>1. /\ v.at \in Marks /\ v.named \subseteq STRING \X (Ids \cup {Undefined})
      /\ v.mask \in BOOLEAN /\ v.ok \in BOOLEAN /\ <<e.tag, e.id>> \in STRING \X (Ids \cup {Undefined})
  BY DEF States, AclEntry
<1>a. ASSUME NEW from, NEW to \in Marks
      PROVE  LET q == Singleton(v, e, from, to)
             IN  /\ q \in States /\ q.at = to /\ q.named = v.named /\ q.mask = v.mask
                 /\ q.ok <=> v.ok /\ v.at \in from /\ e.id = Undefined
  BY <1>1 DEF Singleton, States
<1>b. LET q == Named(v, e)
      IN  /\ q \in States /\ q.at = v.at /\ q.named = v.named \cup {<<e.tag, e.id>>} /\ q.mask = v.mask
          /\ q.ok <=> v.ok /\ v.at = e.tag /\ e.id # Undefined /\ <<e.tag, e.id>> \notin v.named
  BY <1>1 DEF Named, States
<1>2. /\ "user" \in Marks /\ "group" \in Marks /\ "other" \in Marks /\ "end" \in Marks
  BY DEF Marks
<1> DEFINE Fine == /\ u \in States /\ (u.ok <=> v.ok /\ Accepts(v, e))
                   /\ u.ok => /\ u.at = Reached(e.tag) /\ u.named = v.named \cup Names(e)
                              /\ u.mask = (v.mask \/ e.tag = "mask")
<1> SUFFICES Fine
  OBVIOUS
<1>3. CASE e.tag = "user_obj"
  <2>1. u = Singleton(v, e, {"user_obj"}, "user")
    BY <1>3 DEF WalkEntry
  <2>2. u \in States /\ (u.ok <=> v.ok /\ (v.at \in {"user_obj"} /\ e.id = Undefined))
    BY <2>1, <1>2, <1>a
  <2>3. (v.at \in {"user_obj"} /\ e.id = Undefined) <=> Accepts(v, e)
    BY <1>3 DEF Accepts, KnownTags, NamedTags
  <2>4. u.ok => u.at = Reached(e.tag)
    BY <1>3, <2>1, <2>2, <1>2, <1>a DEF Reached
  <2>5. u.named = v.named \cup Names(e) /\ u.mask = (v.mask \/ e.tag = "mask")
    BY <1>3, <2>1, <1>2, <1>a, <1>1 DEF Names, NamedTags
  <2> QED BY <2>2, <2>3, <2>4, <2>5
<1>4. CASE e.tag = "user"
  <2>1. u = Named(v, e)
    BY <1>4 DEF WalkEntry
  <2>2. u \in States /\ (u.ok <=> v.ok /\ (v.at = e.tag /\ e.id # Undefined /\ <<e.tag, e.id>> \notin v.named))
    BY <2>1, <1>b
  <2>3. (v.at = e.tag /\ e.id # Undefined /\ <<e.tag, e.id>> \notin v.named) <=> Accepts(v, e)
    BY <1>4 DEF Accepts, KnownTags, NamedTags
  <2>4. u.ok => u.at = Reached(e.tag)
    BY <1>4, <2>1, <2>2, <1>b DEF Reached
  <2>5. u.named = v.named \cup Names(e) /\ u.mask = (v.mask \/ e.tag = "mask")
    BY <1>4, <2>1, <1>b, <1>1 DEF Names, NamedTags
  <2> QED BY <2>2, <2>3, <2>4, <2>5
<1>5. CASE e.tag = "group_obj"
  <2>1. u = Singleton(v, e, {"user"}, "group")
    BY <1>5 DEF WalkEntry
  <2>2. u \in States /\ (u.ok <=> v.ok /\ (v.at \in {"user"} /\ e.id = Undefined))
    BY <2>1, <1>2, <1>a
  <2>3. (v.at \in {"user"} /\ e.id = Undefined) <=> Accepts(v, e)
    BY <1>5 DEF Accepts, KnownTags, NamedTags
  <2>4. u.ok => u.at = Reached(e.tag)
    BY <1>5, <2>1, <2>2, <1>2, <1>a DEF Reached
  <2>5. u.named = v.named \cup Names(e) /\ u.mask = (v.mask \/ e.tag = "mask")
    BY <1>5, <2>1, <1>2, <1>a, <1>1 DEF Names, NamedTags
  <2> QED BY <2>2, <2>3, <2>4, <2>5
<1>6. CASE e.tag = "group"
  <2>1. u = Named(v, e)
    BY <1>6 DEF WalkEntry
  <2>2. u \in States /\ (u.ok <=> v.ok /\ (v.at = e.tag /\ e.id # Undefined /\ <<e.tag, e.id>> \notin v.named))
    BY <2>1, <1>b
  <2>3. (v.at = e.tag /\ e.id # Undefined /\ <<e.tag, e.id>> \notin v.named) <=> Accepts(v, e)
    BY <1>6 DEF Accepts, KnownTags, NamedTags
  <2>4. u.ok => u.at = Reached(e.tag)
    BY <1>6, <2>1, <2>2, <1>b DEF Reached
  <2>5. u.named = v.named \cup Names(e) /\ u.mask = (v.mask \/ e.tag = "mask")
    BY <1>6, <2>1, <1>b, <1>1 DEF Names, NamedTags
  <2> QED BY <2>2, <2>3, <2>4, <2>5
<1>7. CASE e.tag = "mask"
  <2> DEFINE q == Singleton(v, e, {"group"}, "other")
             fits == v.at \in {"group"} /\ e.id = Undefined
  <2>1. u = [q EXCEPT !.mask = TRUE]
    BY <1>7 DEF WalkEntry
  <2>2. /\ q \in States /\ q.at = "other" /\ q.named = v.named
        /\ q.ok <=> v.ok /\ fits
    BY <1>2, <1>a
  <2>3. u \in States /\ u.at = "other" /\ u.named = v.named /\ u.mask = TRUE /\ u.ok = q.ok
    <3> HIDE DEF q, u
    <3> QED BY <2>1, <2>2 DEF States
  <2>4. fits <=> Accepts(v, e)
    BY <1>7 DEF Accepts, KnownTags, NamedTags
  <2>5. Reached(e.tag) = "other" /\ Names(e) = {} /\ (v.mask \/ e.tag = "mask") = TRUE
    BY <1>7 DEF Reached, Names, NamedTags
  <2> HIDE DEF q, u, fits
  <2> QED BY <2>2, <2>3, <2>4, <2>5
<1>8. CASE e.tag = "other"
  <2> DEFINE from == {"other"} \cup IF v.named = {} THEN {"group"} ELSE {}
  <2>1. u = Singleton(v, e, from, "end")
    BY <1>8 DEF WalkEntry
  <2>2. u \in States /\ (u.ok <=> v.ok /\ (v.at \in from /\ e.id = Undefined))
    BY <2>1, <1>2, <1>a
  <2>3. (v.at \in from /\ e.id = Undefined) <=> Accepts(v, e)
    BY <1>8 DEF Accepts, KnownTags, NamedTags
  <2>4. u.ok => u.at = Reached(e.tag)
    BY <1>8, <2>1, <2>2, <1>2, <1>a DEF Reached
  <2>5. u.named = v.named \cup Names(e) /\ u.mask = (v.mask \/ e.tag = "mask")
    BY <1>8, <2>1, <1>2, <1>a, <1>1 DEF Names, NamedTags
  <2> QED BY <2>2, <2>3, <2>4, <2>5
<1>9. CASE e.tag \notin KnownTags
  <2>1. u = [v EXCEPT !.ok = FALSE]
    BY <1>9 DEF WalkEntry, KnownTags
  <2>2. u \in States /\ u.ok = FALSE
    BY <2>1 DEF States
  <2>3. ~Accepts(v, e)
    BY <1>9 DEF Accepts
  <2> QED BY <2>2, <2>3
<1> HIDE DEF u, Fine
<1> QED BY <1>3, <1>4, <1>5, <1>6, <1>7, <1>8, <1>9 DEF KnownTags

(* The state after i entries.                                               *)
StateAt(es, v, i) ==
  /\ v.at = IF i = 0 THEN "user_obj" ELSE Reached(es[i].tag)
  /\ \A j \in 1 .. i : es[j].tag \in NamedTags => <<es[j].tag, es[j].id>> \in v.named
  /\ \A p \in v.named : \E j \in 1 .. i : es[j].tag \in NamedTags /\ p = <<es[j].tag, es[j].id>>
  /\ v.mask <=> \E j \in 1 .. i : es[j].tag = "mask"

LEMMA WalkSteps ==
  ASSUME NEW es \in Seq(AclEntry), NEW w, IsWalk(es, w), NEW i \in Nat, i <= Len(es)
  PROVE  w[i] \in States /\ (w[i].ok => StateAt(es, w[i], i))
<1> DEFINE T == {k \in Nat : k <= Len(es) => w[k] \in States /\ (w[k].ok => StateAt(es, w[k], k))}
<1>1. 0 \in T
  <2>1. w[0] = Walk
    BY DEF IsWalk
  <2>2. Walk \in States /\ StateAt(es, Walk, 0)
    <3>1. 1 .. 0 = {} /\ "user_obj" \in Marks
      BY DEF Marks
    <3>2. Walk \in States
      BY <3>1 DEF States, Walk
    <3> QED BY <3>1, <3>2 DEF Walk, StateAt
  <2> QED BY <2>1, <2>2
<1>2. ASSUME NEW k \in Nat, k \in T
      PROVE  k + 1 \in T
  <2> SUFFICES ASSUME k + 1 <= Len(es)
               PROVE  /\ w[k + 1] \in States
                      /\ w[k + 1].ok => StateAt(es, w[k + 1], k + 1)
    OBVIOUS
  <2>1. w[k] \in States /\ (w[k].ok => StateAt(es, w[k], k))
    BY <1>2
  <2> DEFINE e == es[k + 1]
             v == w[k]
             u == w[k + 1]
  <2>2. e \in AclEntry /\ u = WalkEntry(v, e)
    <3>1. k + 1 \in 1 .. Len(es) /\ (k + 1) - 1 = k
      OBVIOUS
    <3> QED BY <3>1 DEF IsWalk
  <2>3. /\ u \in States /\ (u.ok <=> v.ok /\ Accepts(v, e))
        /\ u.ok => /\ u.at = Reached(e.tag) /\ u.named = v.named \cup Names(e)
                   /\ u.mask = (v.mask \/ e.tag = "mask")
    <3> HIDE DEF e, v, u
    <3> QED BY <2>1, <2>2, EntryStep DEF v
  <2>4. ASSUME u.ok PROVE StateAt(es, u, k + 1)
    <3>1. StateAt(es, v, k) /\ v.mask \in BOOLEAN
      BY <2>1, <2>3, <2>4 DEF States
    <3>2. \A j \in 1 .. k + 1 : j \in 1 .. k \/ j = k + 1
      OBVIOUS
    <3>3. k + 1 \in 1 .. k + 1 /\ 1 .. k \subseteq 1 .. k + 1 /\ k + 1 # 0
      OBVIOUS
    <3>4. /\ u.at = Reached(e.tag) /\ u.named = v.named \cup Names(e)
          /\ u.mask = (v.mask \/ e.tag = "mask")
      BY <2>3, <2>4
    <3> HIDE DEF u, v
    <3>5. /\ \A j \in 1 .. k : es[j].tag \in NamedTags => <<es[j].tag, es[j].id>> \in v.named
          /\ \A p \in v.named : \E j \in 1 .. k : es[j].tag \in NamedTags /\ p = <<es[j].tag, es[j].id>>
          /\ v.mask <=> \E j \in 1 .. k : es[j].tag = "mask"
      BY <3>1 DEF StateAt
    <3>6. \A j \in 1 .. k + 1 : es[j].tag \in NamedTags => <<es[j].tag, es[j].id>> \in u.named
      BY <3>2, <3>4, <3>5 DEF Names
    <3>7. \A p \in u.named : \E j \in 1 .. k + 1 : es[j].tag \in NamedTags /\ p = <<es[j].tag, es[j].id>>
      BY <3>3, <3>4, <3>5 DEF Names
    <3>8. u.mask <=> \E j \in 1 .. k + 1 : es[j].tag = "mask"
      BY <3>2, <3>3, <3>4, <3>5
    <3> QED BY <3>3, <3>4, <3>6, <3>7, <3>8 DEF StateAt
  <2> QED BY <2>3, <2>4
<1> HIDE DEF T
<1>3. i \in T
  BY <1>1, <1>2, NatSetInduction
<1> QED BY <1>3 DEF T

-----------------------------------------------------------------------------
(* What the kernel demands of an ACL, entry by entry.                       *)
Ord(tag) == CHOOSE k \in DOMAIN Tags : Tags[k] = tag

LEMMA OrdOf ==
  /\ Ord("user_obj") = 1 /\ Ord("user") = 2 /\ Ord("group_obj") = 3
  /\ Ord("group") = 4 /\ Ord("mask") = 5 /\ Ord("other") = 6
  /\ \A t : t \in KnownTags <=> \E k \in DOMAIN Tags : Tags[k] = t
<1>1. DOMAIN Tags = 1 .. 6
  BY DEF Tags
<1>2. /\ Tags[1] = "user_obj" /\ Tags[2] = "user" /\ Tags[3] = "group_obj"
      /\ Tags[4] = "group" /\ Tags[5] = "mask" /\ Tags[6] = "other"
  BY DEF Tags
<1>3. \A k \in 1 .. 6 : k = 1 \/ k = 2 \/ k = 3 \/ k = 4 \/ k = 5 \/ k = 6
  OBVIOUS
<1>4. \A i \in 1 .. 6 : \A k \in DOMAIN Tags : Tags[k] = Tags[i] => k = i
  BY <1>1, <1>2, <1>3
<1>5. \A i \in 1 .. 6 : Ord(Tags[i]) = i
  BY <1>1, <1>4 DEF Ord
<1>6. \A t : t \in KnownTags <=> \E k \in DOMAIN Tags : Tags[k] = t
  BY <1>1, <1>2, <1>3 DEF KnownTags
<1>7. 1 \in 1 .. 6 /\ 2 \in 1 .. 6 /\ 3 \in 1 .. 6 /\ 4 \in 1 .. 6 /\ 5 \in 1 .. 6 /\ 6 \in 1 .. 6
  OBVIOUS
<1> QED BY <1>2, <1>5, <1>6, <1>7

(* The first n entries are known, in order, and told apart.                 *)
Ordered(es, n) ==
  /\ \A i \in 1 .. n : es[i].tag \in KnownTags /\ (es[i].tag \in NamedTags <=> es[i].id # Undefined)
  /\ \A i, j \in 1 .. n : i < j => Ord(es[i].tag) <= Ord(es[j].tag)
  /\ \A i, j \in 1 .. n : i # j /\ es[i].tag = es[j].tag => es[i].tag \in NamedTags /\ es[i].id # es[j].id

Has(es, n, tag) == \E i \in 1 .. n : es[i].tag = tag

Tidy(es) ==
  /\ Ordered(es, Len(es))
  /\ Has(es, Len(es), "user_obj") /\ Has(es, Len(es), "group_obj") /\ Has(es, Len(es), "other")
  /\ Has(es, Len(es), "user") \/ Has(es, Len(es), "group") => Has(es, Len(es), "mask")

LEMMA WellFormedIsTidy ==
  ASSUME NEW es \in Seq(AclEntry)
  PROVE  WellFormed(es) <=> Tidy(es)
<1> DEFINE Is(tag) == {i \in DOMAIN es : es[i].tag = tag}
           Order(i) == CHOOSE k \in DOMAIN Tags : Tags[k] = es[i].tag
           named == Is("user") \cup Is("group")
           W1 == \A i \in DOMAIN es : \E k \in DOMAIN Tags : Tags[k] = es[i].tag
           W2 == \A i, j \in DOMAIN es : i < j => Order(i) <= Order(j)
           W3(tag) == \E i \in Is(tag) : Is(tag) = {i}
           W4 == \A i, j \in Is("mask") : i = j
           W5 == \A i \in DOMAIN es : i \in named <=> es[i].id # Undefined
           W6 == \A i, j \in named : i # j => es[i] # [es[j] EXCEPT !.w = es[i].w]
           W7 == named # {} => Is("mask") # {}
<1>1. WellFormed(es) <=> /\ W1 /\ W2 /\ (\A tag \in {"user_obj", "group_obj", "other"} : W3(tag))
                         /\ W4 /\ W5 /\ W6 /\ W7
  BY DEF WellFormed
<1>2. DOMAIN es = 1 .. Len(es) /\ \A i \in 1 .. Len(es) : es[i] \in AclEntry
  OBVIOUS
<1> DEFINE D == 1 .. Len(es)
<1>3. W1 <=> \A i \in D : es[i].tag \in KnownTags
  BY <1>2, OrdOf
<1>4. W2 <=> \A i, j \in D : i < j => Ord(es[i].tag) <= Ord(es[j].tag)
  BY <1>2 DEF Ord
<1>5. W5 <=> \A i \in D : es[i].tag \in NamedTags <=> es[i].id # Undefined
  BY <1>2 DEF NamedTags
<1>6. ASSUME NEW i \in D, NEW j \in D
      PROVE  es[i] = [es[j] EXCEPT !.w = es[i].w] <=> es[i].tag = es[j].tag /\ es[i].id = es[j].id
  <2>1. es[i] \in AclEntry /\ es[j] \in AclEntry
    BY <1>2
  <2> QED BY <2>1 DEF AclEntry
<1>7. W6 <=> \A i, j \in D : i # j /\ es[i].tag \in NamedTags /\ es[j].tag \in NamedTags =>
                                ~(es[i].tag = es[j].tag /\ es[i].id = es[j].id)
  BY <1>2, <1>6 DEF NamedTags
<1>8. ASSUME NEW tag
      PROVE  W3(tag) <=> Has(es, Len(es), tag) /\ \A i, j \in D : es[i].tag = tag /\ es[j].tag = tag => i = j
  BY <1>2 DEF Has
<1>9. W4 <=> \A i, j \in D : es[i].tag = "mask" /\ es[j].tag = "mask" => i = j
  BY <1>2
<1>10. W7 <=> (Has(es, Len(es), "user") \/ Has(es, Len(es), "group") => Has(es, Len(es), "mask"))
  BY <1>2 DEF Has
<1> HIDE DEF W1, W2, W3, W4, W5, W6, W7
<1>11. ASSUME W1, W5
       PROVE  W6 /\ W4 /\ (\A tag \in {"user_obj", "group_obj", "other"} :
                             \A i, j \in D : es[i].tag = tag /\ es[j].tag = tag => i = j)
              <=> \A i, j \in D : i # j /\ es[i].tag = es[j].tag => es[i].tag \in NamedTags /\ es[i].id # es[j].id
  <2>1. ASSUME NEW i \in D PROVE es[i].tag \in KnownTags
    BY <1>3, <1>11
  <2> QED BY <2>1, <1>7, <1>9 DEF KnownTags, NamedTags
<1> QED BY <1>1, <1>3, <1>4, <1>5, <1>8, <1>10, <1>11 DEF Tidy, Ordered

(* What the walk has accepted is ordered, and not without what belongs       *)
(* before it.                                                               *)
Preceded(es, n) ==
  /\ n > 0 => Has(es, n, "user_obj")
  /\ n > 0 /\ Reached(es[n].tag) # "user" => Has(es, n, "group_obj")
  /\ n > 0 /\ Reached(es[n].tag) = "end" => Has(es, n, "other")

LEMMA ReachedOf ==
  ASSUME NEW t \in KnownTags
  PROVE  /\ Ord(t) \in 1 .. 6
         /\ Reached(t) \in {"user", "group", "other", "end"}
         /\ Reached(t) = "user" <=> Ord(t) <= 2
         /\ Reached(t) = "group" <=> Ord(t) \in {3, 4}
         /\ Reached(t) = "other" <=> t = "mask"
         /\ Reached(t) = "end" <=> t = "other"
         /\ Reached(t) # "user_obj"
  BY OrdOf DEF Reached, KnownTags

(* An entry that is accepted after others stands in order behind them.      *)
LEMMA AcceptedBehind ==
  ASSUME NEW es \in Seq(AclEntry), NEW k \in Nat \ {0}, k + 1 <= Len(es), NEW v,
         StateAt(es, v, k), Ordered(es, k), Accepts(v, es[k + 1]), NEW j \in 1 .. k
  PROVE  /\ Ord(es[j].tag) <= Ord(es[k + 1].tag)
         /\ es[j].tag = es[k + 1].tag => es[j].tag \in NamedTags /\ es[j].id # es[k + 1].id
<1> DEFINE e == es[k + 1]
<1>1. /\ k \in 1 .. k /\ es[j].tag \in KnownTags /\ es[k].tag \in KnownTags /\ e.tag \in KnownTags
      /\ j < k => Ord(es[j].tag) <= Ord(es[k].tag)
  BY DEF Ordered, Accepts
<1>2. /\ Ord(es[j].tag) \in 1 .. 6 /\ Ord(es[k].tag) \in 1 .. 6 /\ Ord(e.tag) \in 1 .. 6
  BY <1>1, ReachedOf
<1>3. Ord(es[j].tag) <= Ord(es[k].tag)
  <2>1. j = k \/ j < k
    OBVIOUS
  <2> QED BY <2>1, <1>1, <1>2
<1>4. v.at = Reached(es[k].tag)
  BY DEF StateAt
<1>5. Ord(es[k].tag) <= Ord(e.tag) /\ (e.tag \notin NamedTags => Ord(es[k].tag) < Ord(e.tag))
  <2>1. /\ v.at # "user_obj"
        /\ v.at = "user" => Ord(es[k].tag) <= 2
        /\ v.at = "group" => Ord(es[k].tag) \in {3, 4}
        /\ v.at = "other" => Ord(es[k].tag) = 5
    BY <1>1, <1>4, ReachedOf, OrdOf
  <2>2. CASE e.tag \in {"user", "group_obj"}
    BY <2>1, <2>2, <1>2, OrdOf DEF Accepts, NamedTags
  <2>3. CASE e.tag \in {"group", "mask", "other"}
    BY <2>1, <2>3, <1>2, OrdOf DEF Accepts, NamedTags
  <2>4. e.tag # "user_obj"
    BY <2>1 DEF Accepts
  <2> QED BY <2>2, <2>3, <2>4, <1>1 DEF KnownTags
<1>6. Ord(es[j].tag) <= Ord(e.tag)
  BY <1>2, <1>3, <1>5
<1>7. ASSUME es[j].tag = e.tag
      PROVE  es[j].tag \in NamedTags /\ es[j].id # e.id
  <2>1. e.tag \in NamedTags
    BY <1>2, <1>3, <1>5, <1>7
  <2>2. <<es[j].tag, es[j].id>> \in v.named
    BY <2>1, <1>7 DEF StateAt
  <2>3. <<e.tag, e.id>> \notin v.named
    BY <2>1 DEF Accepts, NamedTags
  <2> QED BY <2>1, <2>2, <2>3, <1>7
<1> QED BY <1>6, <1>7

LEMMA AcceptedIsOrdered ==
  ASSUME NEW es \in Seq(AclEntry), NEW w, IsWalk(es, w), NEW n \in Nat, n <= Len(es), w[n].ok
  PROVE  Ordered(es, n) /\ Preceded(es, n)
<1> DEFINE T == {k \in Nat : k <= Len(es) /\ w[k].ok => Ordered(es, k) /\ Preceded(es, k)}
<1>1. 0 \in T
  <2>1. 1 .. 0 = {} /\ ~(0 > 0)
    OBVIOUS
  <2> QED BY <2>1 DEF Ordered, Preceded
<1>2. ASSUME NEW k \in Nat, k \in T
      PROVE  k + 1 \in T
  <2> SUFFICES ASSUME k + 1 <= Len(es), w[k + 1].ok
               PROVE  Ordered(es, k + 1) /\ Preceded(es, k + 1)
    OBVIOUS
  <2> DEFINE e == es[k + 1]
             v == w[k]
  <2>1. k <= Len(es) /\ v \in States /\ (v.ok => StateAt(es, v, k))
    BY WalkSteps
  <2>2. e \in AclEntry /\ w[k + 1] = WalkEntry(v, e)
    <3>1. k + 1 \in 1 .. Len(es) /\ (k + 1) - 1 = k
      OBVIOUS
    <3> QED BY <3>1 DEF IsWalk
  <2>3. v.ok /\ Accepts(v, e)
    <3> HIDE DEF e, v
    <3> QED BY <2>1, <2>2, EntryStep
  <2>4. Ordered(es, k) /\ Preceded(es, k) /\ StateAt(es, v, k)
    BY <2>1, <2>3, <1>2
  <2>5. /\ e.tag \in KnownTags /\ (e.tag \in NamedTags <=> e.id # Undefined)
    BY <2>3 DEF Accepts
  <2>6. ASSUME NEW j \in 1 .. k
        PROVE  /\ Ord(es[j].tag) <= Ord(e.tag)
               /\ es[j].tag = e.tag => es[j].tag \in NamedTags /\ es[j].id # e.id
    <3>1. k \in Nat \ {0}
      OBVIOUS
    <3> QED BY <3>1, <2>3, <2>4, AcceptedBehind
  <2>7. /\ \A j \in 1 .. k + 1 : j \in 1 .. k \/ j = k + 1
        /\ \A i, j \in 1 .. k + 1 : i < j => i \in 1 .. k
        /\ k + 1 \in 1 .. k + 1 /\ 1 .. k \subseteq 1 .. k + 1 /\ k + 1 > 0
    OBVIOUS
  <2>8. Ordered(es, k + 1)
    <3>1. \A i \in 1 .. k + 1 : es[i].tag \in KnownTags /\ (es[i].tag \in NamedTags <=> es[i].id # Undefined)
      BY <2>4, <2>5, <2>7 DEF Ordered
    <3>2. ASSUME NEW i \in 1 .. k + 1, NEW j \in 1 .. k + 1, i < j
          PROVE  Ord(es[i].tag) <= Ord(es[j].tag)
      BY <2>4, <2>6, <2>7, <3>2 DEF Ordered
    <3>3. ASSUME NEW i \in 1 .. k + 1, NEW j \in 1 .. k + 1, i # j, es[i].tag = es[j].tag
          PROVE  es[i].tag \in NamedTags /\ es[i].id # es[j].id
      <4>1. CASE i \in 1 .. k /\ j \in 1 .. k
        BY <4>1, <2>4, <3>3 DEF Ordered
      <4>2. CASE i \in 1 .. k /\ j = k + 1
        BY <4>2, <2>6, <3>3
      <4>3. CASE j \in 1 .. k /\ i = k + 1
        BY <4>3, <2>6, <3>3
      <4> QED BY <4>1, <4>2, <4>3, <2>7, <3>3
    <3> QED BY <3>1, <3>2, <3>3 DEF Ordered
  <2>9. ASSUME NEW tag, Has(es, k, tag) PROVE Has(es, k + 1, tag)
    BY <2>7, <2>9 DEF Has
  <2>10. Has(es, k + 1, e.tag)
    BY <2>7 DEF Has
  <2>11. CASE k = 0
    <3>1. v.at = "user_obj" /\ e.tag = "user_obj"
      BY <2>3, <2>4, <2>11 DEF StateAt, Accepts, KnownTags
    <3>2. Reached(e.tag) = "user"
      BY <3>1 DEF Reached
    <3> QED BY <3>1, <3>2, <2>8, <2>10 DEF Preceded
  <2>12. CASE k > 0
    <3>1. v.at = Reached(es[k].tag) /\ Has(es, k, "user_obj")
      BY <2>4, <2>12 DEF StateAt, Preceded
    <3>2. ASSUME Reached(e.tag) # "user"
          PROVE  Has(es, k + 1, "group_obj")
      <4>1. CASE e.tag = "group_obj"
        BY <4>1, <2>10
      <4>2. CASE e.tag # "group_obj"
        <5>1. e.tag \in {"group", "mask", "other"}
          BY <4>2, <2>5, <3>2 DEF KnownTags, Reached
        <5>2. v.at \in {"group", "other"}
          BY <5>1, <2>3 DEF Accepts
        <5> QED BY <5>2, <3>1, <2>4, <2>9, <2>12 DEF Preceded
      <4> QED BY <4>1, <4>2
    <3>3. ASSUME Reached(e.tag) = "end"
          PROVE  Has(es, k + 1, "other")
      BY <3>3, <2>5, <2>10, ReachedOf
    <3> QED BY <3>1, <3>2, <3>3, <2>8, <2>9 DEF Preceded
  <2> QED BY <2>11, <2>12
<1> HIDE DEF T
<1>3. n \in T
  BY <1>1, <1>2, NatSetInduction
<1> QED BY <1>3 DEF T

(* What is tidy is accepted entry by entry.                                 *)
LEMMA TidyNext ==
  ASSUME NEW es \in Seq(AclEntry), Tidy(es), NEW k \in Nat, k + 1 <= Len(es),
         NEW v, StateAt(es, v, k)
  PROVE  Accepts(v, es[k + 1])
<1> DEFINE D == 1 .. Len(es)
           e == es[k + 1]
<1>1. k + 1 \in D /\ (k # 0 => k \in D) /\ \A j \in 1 .. k : j \in D /\ j < k + 1 /\ j # k + 1
  OBVIOUS
<1>2. /\ \A i \in D : es[i].tag \in KnownTags /\ (es[i].tag \in NamedTags <=> es[i].id # Undefined)
      /\ \A i, j \in D : i < j => Ord(es[i].tag) <= Ord(es[j].tag)
      /\ \A i, j \in D : i # j /\ es[i].tag = es[j].tag => es[i].tag \in NamedTags /\ es[i].id # es[j].id
  BY DEF Tidy, Ordered
<1>3. PICK u \in D : es[u].tag = "user_obj"
  BY DEF Tidy, Has
<1>4. PICK g \in D : es[g].tag = "group_obj"
  BY DEF Tidy, Has
<1>5. e.tag \in KnownTags /\ Ord(e.tag) \in 1 .. 6
  BY <1>1, <1>2, ReachedOf
<1>6. ASSUME k # 0
      PROVE  /\ es[k].tag \in KnownTags /\ Ord(es[k].tag) \in 1 .. 6 /\ v.at = Reached(es[k].tag)
             /\ Ord(es[k].tag) <= Ord(e.tag)
             /\ e.tag \notin NamedTags => es[k].tag # e.tag
  <2>1. k \in D /\ k < k + 1 /\ k # k + 1
    BY <1>1, <1>6
  <2>2. es[k].tag \in KnownTags /\ Ord(es[k].tag) \in 1 .. 6
    BY <2>1, <1>2, ReachedOf
  <2> QED BY <2>1, <2>2, <1>1, <1>2, <1>6 DEF StateAt
<1>7. ASSUME k = 0
      PROVE  v.at = "user_obj" /\ e.tag = "user_obj"
  <2>1. u = 1 \/ k + 1 < u
    BY <1>7
  <2>2. Ord(e.tag) <= 1
    BY <2>1, <1>1, <1>2, <1>3, <1>5, <1>7, OrdOf
  <2>3. e.tag = "user_obj"
    BY <2>2, <1>5, OrdOf DEF KnownTags
  <2> QED BY <2>3, <1>7 DEF StateAt
<1>8. ASSUME e.tag = "user_obj" PROVE k = 0
  <2>1. ASSUME k # 0 PROVE FALSE
    <3>1. Ord(es[k].tag) <= 1 /\ es[k].tag # "user_obj"
      BY <1>6, <1>8, <2>1, OrdOf DEF NamedTags
    <3> QED BY <3>1, <1>6, <2>1, OrdOf DEF KnownTags
  <2> QED BY <2>1
<1>9. ASSUME e.tag # "user_obj" PROVE k # 0
  BY <1>7, <1>9
<1>10. ASSUME e.tag \in NamedTags
       PROVE  <<e.tag, e.id>> \notin v.named
  <2>1. ASSUME <<e.tag, e.id>> \in v.named PROVE FALSE
    <3>1. PICK j \in 1 .. k : <<e.tag, e.id>> = <<es[j].tag, es[j].id>>
      BY <2>1 DEF StateAt
    <3> QED BY <3>1, <1>1, <1>2
  <2> QED BY <2>1
<1>11. ASSUME e.tag \in {"user", "group_obj"}
       PROVE  v.at = "user"
  <2>1. k # 0
    BY <1>9, <1>11
  <2>2. Ord(es[k].tag) <= 2
    <3>1. Ord(e.tag) \in {2, 3} /\ (e.tag = "group_obj" => es[k].tag # "group_obj")
      BY <2>1, <1>6, <1>11, OrdOf DEF NamedTags
    <3> QED BY <3>1, <2>1, <1>6, <1>11, OrdOf DEF KnownTags
  <2> QED BY <2>1, <2>2, <1>6, ReachedOf
<1>12. ASSUME e.tag \in {"group", "mask", "other"}
       PROVE  Ord(es[k].tag) >= 3
  <2>1. k # 0 /\ k \in D
    BY <1>1, <1>9, <1>12
  <2>2. g # k + 1 /\ (g <= k \/ k + 1 < g)
    BY <1>4, <1>12
  <2>3. ~(k + 1 < g)
    <3>1. Ord(e.tag) > 3 /\ Ord(es[g].tag) = 3
      BY <1>4, <1>12, OrdOf
    <3> QED BY <3>1, <1>1, <1>2, <1>4, <1>5
  <2>4. g = k \/ g < k
    BY <2>2, <2>3
  <2> QED BY <2>1, <2>4, <1>2, <1>4, <1>6, OrdOf
<1>13. ASSUME e.tag \in {"group", "mask"}
       PROVE  v.at = "group"
  <2>1. k # 0
    BY <1>9, <1>13
  <2>2. Ord(es[k].tag) \in {3, 4}
    <3>1. Ord(e.tag) \in {4, 5} /\ (e.tag = "mask" => es[k].tag # "mask")
      BY <2>1, <1>6, <1>13, OrdOf DEF NamedTags
    <3> QED BY <3>1, <2>1, <1>6, <1>12, <1>13, OrdOf DEF KnownTags
  <2> QED BY <2>1, <2>2, <1>6, ReachedOf
<1>14. ASSUME e.tag = "other"
       PROVE  v.at = "other" \/ (v.at = "group" /\ v.named = {})
  <2>1. k # 0 /\ Ord(es[k].tag) \in {3, 4, 5}
    <3>1. k # 0 /\ es[k].tag # "other" /\ Ord(es[k].tag) >= 3
      BY <1>6, <1>9, <1>12, <1>14 DEF NamedTags
    <3> QED BY <3>1, <1>6, OrdOf DEF KnownTags
  <2>2. CASE Ord(es[k].tag) = 5
    BY <2>1, <2>2, <1>6, OrdOf, ReachedOf DEF KnownTags
  <2>3. CASE Ord(es[k].tag) \in {3, 4}
    <3>1. v.at = "group"
      BY <2>1, <2>3, <1>6, ReachedOf
    <3>2. ASSUME v.named # {} PROVE FALSE
      <4>1. PICK j \in 1 .. k : es[j].tag \in NamedTags
        BY <3>2 DEF StateAt
      <4>2. PICK m \in D : es[m].tag = "mask"
        BY <4>1, <1>1 DEF Tidy, Has, NamedTags
      <4>3. ~(k + 1 < m) /\ m # k + 1
        BY <4>2, <1>1, <1>2, <1>14, OrdOf
      <4>4. m = k \/ m < k
        BY <4>3
      <4> QED BY <4>2, <4>4, <2>1, <2>3, <1>1, <1>2, OrdOf
    <3> QED BY <3>1, <3>2
  <2> QED BY <2>1, <2>2, <2>3
<1> QED
  <2>1. e.tag \in NamedTags <=> e.id # Undefined
    BY <1>1, <1>2
  <2> HIDE DEF e
  <2> QED BY <2>1, <1>5, <1>7, <1>8, <1>10, <1>11, <1>13, <1>14 DEF Accepts, NamedTags, e

LEMMA TidyIsAccepted ==
  ASSUME NEW es \in Seq(AclEntry), Tidy(es), NEW w, IsWalk(es, w), NEW n \in Nat, n <= Len(es)
  PROVE  w[n].ok
<1> DEFINE T == {k \in Nat : k <= Len(es) => w[k].ok}
<1>1. 0 \in T
  BY DEF IsWalk, Walk
<1>2. ASSUME NEW k \in Nat, k \in T
      PROVE  k + 1 \in T
  <2> SUFFICES ASSUME k + 1 <= Len(es)
               PROVE  w[k + 1].ok
    OBVIOUS
  <2> DEFINE e == es[k + 1]
             v == w[k]
  <2>1. v \in States /\ v.ok /\ StateAt(es, v, k)
    BY <1>2, WalkSteps
  <2>2. e \in AclEntry /\ w[k + 1] = WalkEntry(v, e)
    <3>1. k + 1 \in 1 .. Len(es) /\ (k + 1) - 1 = k
      OBVIOUS
    <3> QED BY <3>1 DEF IsWalk
  <2>3. Accepts(v, e)
    BY <2>1, TidyNext
  <2> HIDE DEF e, v
  <2> QED BY <2>1, <2>2, <2>3, EntryStep
<1> HIDE DEF T
<1>3. n \in T
  BY <1>1, <1>2, NatSetInduction
<1> QED BY <1>3 DEF T

(* For every sequence of entries: the walk of authority.py accepts the ACL   *)
(* exactly when the kernel would.                                           *)
THEOREM WalkIsTheKernels ==
  ASSUME NEW es \in Seq(AclEntry)
  PROVE  AclStructureIsValid(es) <=> WellFormed(es)
<1> DEFINE n == Len(es)
<1>1. PICK w : IsWalk(es, w) /\ w[Len(es)] = FoldLeft(WalkEntry, Walk, es)
  BY WalkStates
<1> DEFINE v == w[n]
<1>2. AclStructureIsValid(es) <=> v.ok /\ v.at = "end" /\ (v.named # {} => v.mask)
  BY <1>1 DEF AclStructureIsValid
<1>3. n \in Nat /\ n <= Len(es)
  OBVIOUS
<1>4. v.ok => StateAt(es, v, n) /\ Ordered(es, n) /\ Preceded(es, n)
  BY <1>1, <1>3, WalkSteps, AcceptedIsOrdered
<1>5. Tidy(es) => v.ok
  BY <1>1, <1>3, TidyIsAccepted
<1> HIDE DEF n, v
<1>6. ASSUME v.ok, v.at = "end", v.named # {} => v.mask
      PROVE  Tidy(es)
  <2>1. n # 0 /\ n > 0 /\ Reached(es[n].tag) = "end"
    BY <1>3, <1>4, <1>6 DEF StateAt
  <2>2. Has(es, n, "user_obj") /\ Has(es, n, "group_obj") /\ Has(es, n, "other")
    BY <1>4, <1>6, <2>1 DEF Preceded
  <2>3. Has(es, n, "user") \/ Has(es, n, "group") => Has(es, n, "mask")
    BY <1>4, <1>6 DEF StateAt, Has, NamedTags
  <2> QED BY <2>2, <2>3, <1>4, <1>6 DEF Tidy, n
<1>7. ASSUME Tidy(es), v.ok
      PROVE  v.at = "end" /\ (v.named # {} => v.mask)
  <2>1. PICK o \in 1 .. n : es[o].tag = "other"
    BY <1>7 DEF Tidy, Has, n
  <2>2. n \in 1 .. n /\ n # 0 /\ (o = n \/ o < n)
    BY <2>1, <1>3
  <2>3. es[n].tag \in KnownTags /\ Ord(es[n].tag) \in 1 .. 6
    BY <2>2, <1>7, ReachedOf DEF Tidy, Ordered, n
  <2>4. Ord(es[o].tag) <= Ord(es[n].tag)
    BY <2>1, <2>2, <2>3, <1>7 DEF Tidy, Ordered, n
  <2>5. es[n].tag = "other"
    BY <2>1, <2>3, <2>4, OrdOf DEF KnownTags
  <2>6. v.at = "end"
    BY <2>2, <2>5, <1>4, <1>7 DEF StateAt, Reached
  <2>7. v.named # {} => v.mask
    <3>1. ASSUME v.named # {} PROVE v.mask
      <4>1. PICK j \in 1 .. n : es[j].tag \in NamedTags
        BY <3>1, <1>4, <1>7 DEF StateAt
      <4>2. Has(es, n, "mask")
        BY <4>1, <1>7 DEF Tidy, Has, NamedTags, n
      <4> QED BY <4>2, <1>4, <1>7 DEF StateAt, Has
    <3> QED BY <3>1
  <2> QED BY <2>6, <2>7
<1> QED BY <1>2, <1>5, <1>6, <1>7, WellFormedIsTidy

-----------------------------------------------------------------------------
(* The class that decides.  The kernel's reading, with its parts named.     *)
Precedence(n, uid, groups, e) ==
  CASE e.tag = "user_obj" /\ uid = n.owner -> 1
    [] e.tag = "user" /\ e.id = uid -> 2
    [] e.tag = "group_obj" /\ n.group \in groups -> 3
    [] e.tag = "group" /\ e.id \in groups -> 3
    [] e.tag = "other" -> 4
    [] OTHER -> 5

Deciding(n, uid, groups) ==
  {e \in ToSet(Entries(n)) :
     \A f \in ToSet(Entries(n)) : Precedence(n, uid, groups, e) <= Precedence(n, uid, groups, f)}

LEMMA KernelReading ==
  ASSUME NEW n, NEW uid, NEW groups
  PROVE  KernelWrites(n, uid, groups) <=>
           \/ uid = Root
           \/ \E e \in Deciding(n, uid, groups) :
                e.w /\ (Precedence(n, uid, groups, e) \in {2, 3} =>
                          \A m \in ToSet(Entries(n)) : m.tag = "mask" => m.w)
  BY DEF KernelWrites, Deciding, Precedence

(* The entries of a tidy ACL, as a set.                                     *)
LEMMA TidySet ==
  ASSUME NEW es \in Seq(AclEntry), Tidy(es)
  PROVE  /\ ToSet(es) \subseteq AclEntry
         /\ \A e \in ToSet(es) : e.tag \in KnownTags /\ (e.tag \in NamedTags <=> e.id # Undefined)
         /\ \A e, f \in ToSet(es) : e.tag = f.tag /\ (e.tag \in NamedTags => e.id = f.id) => e = f
         /\ \E e \in ToSet(es) : e.tag = "user_obj"
         /\ \E e \in ToSet(es) : e.tag = "group_obj"
         /\ \E e \in ToSet(es) : e.tag = "other"
         /\ es # <<>>
<1>1. DOMAIN es = 1 .. Len(es) /\ \A i \in 1 .. Len(es) : es[i] \in AclEntry
  OBVIOUS
<1>2. ToSet(es) = {es[i] : i \in 1 .. Len(es)}
  BY <1>1 DEF ToSet
<1>3. Ordered(es, Len(es))
  BY DEF Tidy
<1>4. \A i, j \in 1 .. Len(es) : es[i].tag = es[j].tag /\ (es[i].tag \in NamedTags => es[i].id = es[j].id) => i = j
  BY <1>3 DEF Ordered
<1>5. \A e, f \in ToSet(es) : e.tag = f.tag /\ (e.tag \in NamedTags => e.id = f.id) => e = f
  BY <1>2, <1>4
<1>6. ASSUME NEW tag, Has(es, Len(es), tag)
      PROVE  \E e \in ToSet(es) : e.tag = tag
  BY <1>2, <1>6 DEF Has
<1>7. es # <<>>
  <2>1. Len(es) # 0
    BY DEF Tidy, Has
  <2> QED BY <2>1
<1>8. \A e \in ToSet(es) : e.tag \in KnownTags /\ (e.tag \in NamedTags <=> e.id # Undefined)
  BY <1>2, <1>3 DEF Ordered
<1>9. Has(es, Len(es), "user_obj") /\ Has(es, Len(es), "group_obj") /\ Has(es, Len(es), "other")
  BY DEF Tidy
<1> QED BY <1>1, <1>2, <1>5, <1>6, <1>7, <1>8, <1>9

(* authority.py, with its parts named.                                      *)
Grants(S) == \E e \in S : e.w
Masked(all) == \A e \in all : e.tag = "mask" => e.w
OfClass(n, groups, all) ==
  {e \in all : (e.tag = "group" /\ e.id \in groups) \/ (e.tag = "group_obj" /\ n.group \in groups)}
OfUser(uid, all) == {e \in all : e.tag = "user" /\ e.id = uid}
Single(tag, all) == {e \in all : e.tag = tag}

LEMMA AclReading ==
  ASSUME NEW n, n.acl.entries \in Seq(AclEntry), Tidy(n.acl.entries), NEW uid, NEW groups
  PROVE  LET all == ToSet(n.acl.entries)
         IN  AclMayWrite(n, uid, groups) <=>
               \/ uid = Root
               \/ uid = n.owner /\ Grants(Single("user_obj", all))
               \/ uid # n.owner /\ OfUser(uid, all) # {} /\ Grants(OfUser(uid, all)) /\ Masked(all)
               \/ /\ uid # n.owner /\ OfUser(uid, all) = {} /\ OfClass(n, groups, all) # {}
                  /\ Grants(OfClass(n, groups, all)) /\ Masked(all)
               \/ /\ uid # n.owner /\ OfUser(uid, all) = {} /\ OfClass(n, groups, all) = {}
                  /\ Grants(Single("other", all))
<1> DEFINE es == n.acl.entries
           all == ToSet(es)
<1>1. ParseAcl(n.acl) = es /\ es # <<>>
  BY WalkIsTheKernels, WellFormedIsTidy, TidySet DEF ParseAcl
<1>2. \A e \in all : e.tag \in KnownTags /\ (e.tag \in NamedTags <=> e.id # Undefined)
  BY TidySet
<1>3. ASSUME NEW tag, tag \notin NamedTags
      PROVE  Matching(es, tag, {Undefined}) = Single(tag, all)
  BY <1>2, <1>3 DEF Matching, Single
<1>4. Matching(es, "user", {uid}) = OfUser(uid, all)
  BY DEF Matching, OfUser
<1>5. Matching(es, "group", groups) \cup (IF n.group \in groups THEN Matching(es, "group_obj", {Undefined}) ELSE {})
        = OfClass(n, groups, all)
  <2>1. Matching(es, "group_obj", {Undefined}) = Single("group_obj", all)
    BY <1>3 DEF NamedTags
  <2>2. Matching(es, "group", groups) = {e \in all : e.tag = "group" /\ e.id \in groups}
    BY DEF Matching
  <2> QED BY <2>1, <2>2 DEF OfClass, Single
<1>6. (\A e \in Matching(es, "mask", {Undefined}) : e.w) <=> Masked(all)
  BY <1>3 DEF Masked, Single, NamedTags
<1>7. /\ Matching(es, "user_obj", {Undefined}) = Single("user_obj", all)
      /\ Matching(es, "other", {Undefined}) = Single("other", all)
  BY <1>3 DEF NamedTags
<1> HIDE DEF es, all
<1> DEFINE user == Matching(es, "user", {uid})
           class == Matching(es, "group", groups) \cup IF n.group \in groups THEN Matching(es, "group_obj", {Undefined}) ELSE {}
           masked == \A e \in Matching(es, "mask", {Undefined}) : e.w
<1>8. AclMayWrite(n, uid, groups) <=>
        \/ es = <<>> \/ uid = Root
        \/ IF uid = n.owner THEN Grants(Matching(es, "user_obj", {Undefined}))
           ELSE IF user # {} THEN Grants(user) /\ masked
           ELSE IF class # {} THEN Grants(class) /\ masked
           ELSE Grants(Matching(es, "other", {Undefined}))
  BY <1>1 DEF AclMayWrite, Grants
<1>9. user = OfUser(uid, all) /\ class = OfClass(n, groups, all) /\ (masked <=> Masked(all))
  BY <1>4, <1>5, <1>6
<1> HIDE DEF user, class, masked
<1>10. AclMayWrite(n, uid, groups) <=>
        \/ uid = Root
        \/ IF uid = n.owner THEN Grants(Single("user_obj", all))
           ELSE IF OfUser(uid, all) # {} THEN Grants(OfUser(uid, all)) /\ Masked(all)
           ELSE IF OfClass(n, groups, all) # {} THEN Grants(OfClass(n, groups, all)) /\ Masked(all)
           ELSE Grants(Single("other", all))
  BY <1>1, <1>7, <1>8, <1>9
<1> QED BY <1>10 DEF es, all

LEMMA PrecedenceOf ==
  ASSUME NEW n, NEW uid, NEW groups, NEW all, NEW e \in all, e.tag \in KnownTags
  PROVE  LET p == Precedence(n, uid, groups, e)
         IN  /\ p \in 1 .. 5
             /\ p = 1 <=> e.tag = "user_obj" /\ uid = n.owner
             /\ p = 2 <=> e \in OfUser(uid, all)
             /\ p = 3 <=> e \in OfClass(n, groups, all)
             /\ p = 4 <=> e \in Single("other", all)
  BY DEF Precedence, OfUser, OfClass, Single, KnownTags

(* Who decides is the first class that is not empty.                        *)
LEMMA DecidingOf ==
  ASSUME NEW n, NEW uid, NEW groups, NEW p \in 1 .. 5,
         \A e \in ToSet(Entries(n)) : e.tag \in KnownTags,
         \E e \in ToSet(Entries(n)) : Precedence(n, uid, groups, e) = p,
         \A e \in ToSet(Entries(n)) : Precedence(n, uid, groups, e) >= p
  PROVE  Deciding(n, uid, groups) = {e \in ToSet(Entries(n)) : Precedence(n, uid, groups, e) = p}
<1>1. \A e \in ToSet(Entries(n)) : Precedence(n, uid, groups, e) \in 1 .. 5
  BY PrecedenceOf
<1> QED BY <1>1 DEF Deciding

(* For an ACL in order, authority.py and the kernel agree.                  *)
LEMMA AclIsTheKernels ==
  ASSUME NEW n, n.acl.kind = "bytes", n.acl.entries \in Seq(AclEntry), Tidy(n.acl.entries),
         NEW uid, NEW groups
  PROVE  AclMayWrite(n, uid, groups) <=> KernelWrites(n, uid, groups)
<1> DEFINE all == ToSet(n.acl.entries)
           prec(e) == Precedence(n, uid, groups, e)
<1>1. Entries(n) = n.acl.entries
  BY DEF Entries
<1>2. /\ \A e \in all : e.tag \in KnownTags
      /\ \A e, f \in all : e.tag = f.tag /\ e.tag \notin NamedTags => e = f
      /\ \E e \in all : e.tag = "user_obj"
      /\ \E e \in all : e.tag = "other"
  BY TidySet
<1>3. \A e \in all : /\ prec(e) \in 1 .. 5
                     /\ prec(e) = 1 <=> e.tag = "user_obj" /\ uid = n.owner
                     /\ prec(e) = 2 <=> e \in OfUser(uid, all)
                     /\ prec(e) = 3 <=> e \in OfClass(n, groups, all)
                     /\ prec(e) = 4 <=> e \in Single("other", all)
  BY <1>2, PrecedenceOf
<1>4. \A p \in 1 .. 5 : (\E e \in all : prec(e) = p) /\ (\A e \in all : prec(e) >= p)
        => Deciding(n, uid, groups) = {e \in all : prec(e) = p}
  BY <1>1, <1>2, DecidingOf
<1>5. KernelWrites(n, uid, groups) <=>
        \/ uid = Root
        \/ \E e \in Deciding(n, uid, groups) : e.w /\ (prec(e) \in {2, 3} => Masked(all))
  BY <1>1, KernelReading DEF Masked
<1>6. OfUser(uid, all) \subseteq all /\ OfClass(n, groups, all) \subseteq all
  BY DEF OfUser, OfClass
<1>7. AclMayWrite(n, uid, groups) <=>
        \/ uid = Root
        \/ uid = n.owner /\ Grants(Single("user_obj", all))
        \/ uid # n.owner /\ OfUser(uid, all) # {} /\ Grants(OfUser(uid, all)) /\ Masked(all)
        \/ /\ uid # n.owner /\ OfUser(uid, all) = {} /\ OfClass(n, groups, all) # {}
           /\ Grants(OfClass(n, groups, all)) /\ Masked(all)
        \/ /\ uid # n.owner /\ OfUser(uid, all) = {} /\ OfClass(n, groups, all) = {}
           /\ Grants(Single("other", all))
  BY AclReading
<1> HIDE DEF all, prec
<1>8. CASE uid = Root
  BY <1>5, <1>7, <1>8
<1>9. CASE uid # Root /\ uid = n.owner
  <2>1. Deciding(n, uid, groups) = {e \in all : prec(e) = 1}
    <3>1. (\E e \in all : prec(e) = 1) /\ (\A e \in all : prec(e) >= 1) /\ 1 \in 1 .. 5
      BY <1>2, <1>3, <1>9
    <3> QED BY <3>1, <1>4
  <2>2. Deciding(n, uid, groups) = Single("user_obj", all) /\ \A e \in Deciding(n, uid, groups) : prec(e) = 1
    BY <2>1, <1>3, <1>9 DEF Single
  <2> QED BY <2>2, <1>5, <1>7, <1>9 DEF Grants
<1>10. CASE uid # Root /\ uid # n.owner /\ OfUser(uid, all) # {}
  <2>1. Deciding(n, uid, groups) = {e \in all : prec(e) = 2}
    <3>1. (\E e \in all : prec(e) = 2) /\ (\A e \in all : prec(e) >= 2) /\ 2 \in 1 .. 5
      BY <1>3, <1>6, <1>10
    <3> QED BY <3>1, <1>4
  <2>2. Deciding(n, uid, groups) = OfUser(uid, all) /\ \A e \in Deciding(n, uid, groups) : prec(e) = 2
    BY <2>1, <1>3, <1>6
  <2> QED BY <2>2, <1>5, <1>7, <1>10 DEF Grants
<1>11. CASE uid # Root /\ uid # n.owner /\ OfUser(uid, all) = {} /\ OfClass(n, groups, all) # {}
  <2>1. Deciding(n, uid, groups) = {e \in all : prec(e) = 3}
    <3>1. (\E e \in all : prec(e) = 3) /\ (\A e \in all : prec(e) >= 3) /\ 3 \in 1 .. 5
      BY <1>3, <1>6, <1>11
    <3> QED BY <3>1, <1>4
  <2>2. Deciding(n, uid, groups) = OfClass(n, groups, all) /\ \A e \in Deciding(n, uid, groups) : prec(e) = 3
    BY <2>1, <1>3, <1>6
  <2> QED BY <2>2, <1>5, <1>7, <1>11 DEF Grants
<1>12. CASE uid # Root /\ uid # n.owner /\ OfUser(uid, all) = {} /\ OfClass(n, groups, all) = {}
  <2>1. Deciding(n, uid, groups) = {e \in all : prec(e) = 4}
    <3>1. (\E e \in all : prec(e) = 4) /\ (\A e \in all : prec(e) >= 4) /\ 4 \in 1 .. 5
      BY <1>2, <1>3, <1>12 DEF Single
    <3> QED BY <3>1, <1>4
  <2>2. Deciding(n, uid, groups) = Single("other", all) /\ \A e \in Deciding(n, uid, groups) : prec(e) = 4
    BY <2>1, <1>3 DEF Single
  <2> QED BY <2>2, <1>5, <1>7, <1>12 DEF Grants
<1> QED BY <1>8, <1>9, <1>10, <1>11, <1>12

(* Without an ACL the three write bits are read as one.                     *)
LEMMA BitsAreTheKernels ==
  ASSUME NEW n \in FileNode, n.acl.kind = "absent", NEW uid, NEW groups
  PROVE  /\ WellFormed(Entries(n))
         /\ ModeMayWrite(n, uid, groups) <=> KernelWrites(n, uid, groups)
<1> DEFINE entry(tag, class) == [tag |-> tag, id |-> Undefined, w |-> class \in n.bits]
           u == entry("user_obj", "owner")
           g == entry("group_obj", "group")
           o == entry("other", "other")
           es == <<u, g, o>>
<1>1. Entries(n) = es
  BY DEF Entries
<1>2. DOMAIN es = {1, 2, 3} /\ es[1] = u /\ es[2] = g /\ es[3] = o /\ ToSet(es) = {u, g, o}
  BY DEF ToSet
<1>3. /\ u.tag = "user_obj" /\ g.tag = "group_obj" /\ o.tag = "other"
      /\ u.id = Undefined /\ g.id = Undefined /\ o.id = Undefined
      /\ u.w <=> "owner" \in n.bits
      /\ g.w <=> "group" \in n.bits
      /\ o.w <=> "other" \in n.bits
  OBVIOUS
<1> HIDE DEF u, g, o, es
<1>4. WellFormed(es)
  <2>1. Ord(es[1].tag) = 1 /\ Ord(es[2].tag) = 3 /\ Ord(es[3].tag) = 6
    BY <1>2, <1>3, OrdOf
  <2>2. \A i \in DOMAIN es : \E k \in DOMAIN Tags : Tags[k] = es[i].tag
    BY <1>2, <1>3, OrdOf DEF KnownTags
  <2>3. \A i, j \in DOMAIN es : i < j => Ord(es[i].tag) <= Ord(es[j].tag)
    BY <1>2, <2>1
  <2>4. \A tag \in {"user_obj", "group_obj", "other"} :
          \E i \in {k \in DOMAIN es : es[k].tag = tag} : {k \in DOMAIN es : es[k].tag = tag} = {i}
    <3>1. /\ {k \in DOMAIN es : es[k].tag = "user_obj"} = {1}
          /\ {k \in DOMAIN es : es[k].tag = "group_obj"} = {2}
          /\ {k \in DOMAIN es : es[k].tag = "other"} = {3}
      BY <1>2, <1>3
    <3> QED BY <3>1
  <2>5. \A i \in DOMAIN es : es[i].tag \notin {"user", "group", "mask"} /\ es[i].id = Undefined
    BY <1>2, <1>3
  <2> QED BY <2>2, <2>3, <2>4, <2>5 DEF WellFormed, Ord
<1>5. KernelWrites(n, uid, groups) <=> \/ uid = Root
                                     \/ \E e \in Deciding(n, uid, groups) : e.w
  <2>1. \A e \in ToSet(Entries(n)) : e.tag # "mask"
    BY <1>1, <1>2, <1>3
  <2> QED BY <2>1, KernelReading
<1>6. /\ Precedence(n, uid, groups, u) = IF uid = n.owner THEN 1 ELSE 5
      /\ Precedence(n, uid, groups, g) = IF n.group \in groups THEN 3 ELSE 5
      /\ Precedence(n, uid, groups, o) = 4
  BY <1>3 DEF Precedence
<1>7. Deciding(n, uid, groups) = IF uid = n.owner THEN {u} ELSE IF n.group \in groups THEN {g} ELSE {o}
  BY <1>1, <1>2, <1>3, <1>6 DEF Deciding
<1> QED BY <1>1, <1>3, <1>4, <1>5, <1>7 DEF ModeMayWrite

(* For every owner, group, mode, ACL, account and set of groups: authority.py *)
(* judges that the worker may not write exactly when it can read the ACL,     *)
(* the ACL is well formed, and the kernel refuses the write.                *)
THEOREM DecisionIsTheKernels ==
  ASSUME NEW n \in FileNode, NEW uid, NEW groups
  PROVE  WorkerWriteDenied(n, uid, groups) <=>
           n.acl.kind # "unreadable" /\ WellFormed(Entries(n)) /\ ~KernelWrites(n, uid, groups)
<1>1. n.acl.kind \in {"absent", "unreadable", "bytes"} /\ n.acl.entries \in Seq(AclEntry)
  BY DEF FileNode
<1>2. CASE n.acl.kind = "absent"
  BY <1>2, BitsAreTheKernels DEF WorkerWriteDenied, ReadAcl
<1>3. CASE n.acl.kind = "unreadable"
  BY <1>3 DEF WorkerWriteDenied, ReadAcl
<1>4. CASE n.acl.kind = "bytes"
  <2>1. Entries(n) = n.acl.entries
    BY <1>4 DEF Entries
  <2>2. WorkerWriteDenied(n, uid, groups) <=> ~AclMayWrite(n, uid, groups)
    BY <1>4 DEF WorkerWriteDenied, ReadAcl
  <2>3. CASE WellFormed(n.acl.entries)
    BY <1>1, <1>4, <2>1, <2>2, <2>3, WellFormedIsTidy, AclIsTheKernels
  <2>4. CASE ~WellFormed(n.acl.entries)
    <3>1. ParseAcl(n.acl) = <<>>
      BY <1>1, <2>4, WalkIsTheKernels DEF ParseAcl
    <3>2. AclMayWrite(n, uid, groups)
      BY <3>1 DEF AclMayWrite
    <3> QED BY <2>1, <2>2, <2>4, <3>2
  <2> QED BY <2>3, <2>4
<1> QED BY <1>1, <1>2, <1>3, <1>4

-----------------------------------------------------------------------------
(* What each judgement of the gate says of a host.                          *)
LEMMA StatType ==
  ASSUME NEW h \in Host, NEW q \in DOMAIN Above
  PROVE  Stat(h, q) \in FileNode
<1>1. h.node[q] \in FileNode
  BY DEF Host
<1>2. [h.node[q] EXCEPT !.kind = "missing"] \in FileNode
  BY <1>1 DEF FileNode, Kinds
<1> QED BY <1>1, <1>2 DEF Stat

LEMMA AboveOf ==
  /\ {"top", "dir", "store", "bin", "setpriv", "runuser"} = DOMAIN Above
  /\ Above["top"] = {} /\ Above["dir"] = {"top"} /\ Above["store"] = {"dir", "top"}
  /\ Above["bin"] = {} /\ Above["setpriv"] = {"bin"} /\ Above["runuser"] = {"bin"}
  BY DEF Above

(* What is found, is found in directories.                                  *)
LEMMA FoundBelow ==
  ASSUME NEW h \in Host, NEW q \in DOMAIN Above, Stat(h, q).kind # "missing"
  PROVE  \A p \in Above[q] : Stat(h, p).kind = "directory"
<1>1. \A p \in Above[q] : h.node[p].kind = "directory"
  <2>1. h.node[q] \in FileNode
    BY DEF Host
  <2>2. [h.node[q] EXCEPT !.kind = "missing"].kind = "missing"
    BY <2>1 DEF FileNode
  <2> QED BY <2>2 DEF Stat
<1>2. \A p \in Above[q] : Above[p] \subseteq Above[q]
  BY AboveOf
<1> QED BY <1>1, <1>2 DEF Stat

(* A directory is trusted when it is guarded.                               *)
Kept(h, q, owners) ==
  LET n == Stat(h, q)
  IN  /\ n.owner \in owners /\ n.acl.kind # "unreadable" /\ WellFormed(Entries(n))
      /\ ~KernelWrites(n, h.account["worker"], h.groups)

LEMMA GuardedIsKept ==
  ASSUME NEW h, NEW names, NEW owners
  PROVE  Guarded(h, names, owners) <=> \A q \in names : Kept(h, q, owners)
  BY DEF Guarded, Kept

LEMMA KeptIs ==
  ASSUME NEW h \in Host, NEW q \in DOMAIN Above, NEW owners
  PROVE  Kept(h, q, owners) <=> /\ Stat(h, q).owner \in owners
                                /\ WorkerWriteDenied(Stat(h, q), h.account["worker"], h.groups)
  BY StatType, DecisionIsTheKernels DEF Kept

(* Two directories up, or one: all are judged when what is below is found.  *)
LEMMA StoreAncestry ==
  ASSUME NEW h \in Host, Stat(h, "store").kind = "file", NEW service, NEW uid, NEW groups
  PROVE  /\ Stat(h, "dir").kind = "directory" /\ Stat(h, "top").kind = "directory"
         /\ AncestryTrusted(StoreParents(h), service, uid, groups) <=>
              /\ TrustedDirectory(Stat(h, "dir"), service, uid, groups)
              /\ TrustedDirectory(Stat(h, "top"), service, uid, groups)
<1>1. Stat(h, "dir").kind = "directory" /\ Stat(h, "top").kind = "directory"
  BY FoundBelow, AboveOf
<1>2. DOMAIN StoreParents(h) = 1 .. 2 /\ StoreParents(h)[1] = Stat(h, "dir")
      /\ StoreParents(h)[2] = Stat(h, "top")
  BY DEF StoreParents
<1>3. \A i \in 1 .. 2 : i = 1 \/ i = 2
  OBVIOUS
<1>4. \A i \in 1 .. 2 : \A j \in 1 .. i : StoreParents(h)[j].kind # "missing"
  BY <1>1, <1>2, <1>3
<1>5. 1 \in 1 .. 2 /\ 2 \in 1 .. 2
  OBVIOUS
<1> QED BY <1>1, <1>2, <1>3, <1>4, <1>5 DEF AncestryTrusted

LEMMA ToolAncestry ==
  ASSUME NEW h \in Host, NEW t \in Tools, Stat(h, t).kind = "file", NEW service, NEW uid, NEW groups
  PROVE  /\ Stat(h, "bin").kind = "directory"
         /\ AncestryTrusted(ToolParents(h), service, uid, groups) <=>
              TrustedDirectory(Stat(h, "bin"), service, uid, groups)
<1>1. Stat(h, "bin").kind = "directory"
  BY FoundBelow, AboveOf DEF Tools
<1>2. DOMAIN ToolParents(h) = 1 .. 1 /\ ToolParents(h)[1] = Stat(h, "bin")
  BY DEF ToolParents
<1>3. \A i \in 1 .. 1 : i = 1 /\ \A j \in 1 .. i : j = 1
  OBVIOUS
<1> QED BY <1>1, <1>2, <1>3 DEF AncestryTrusted

(* The accounts are there, and are different.                               *)
Apart(h) ==
  /\ NoAccount \notin {h.account[r] : r \in Roles}
  /\ \A r, s \in Roles : h.account[r] = h.account[s] => r = s

LEMMA ApartIs ==
  ASSUME NEW h \in Host
  PROVE  /\ Missing(Principals(h)) = {} /\ Distinct(Principals(h)) <=> Apart(h)
         /\ Apart(h) => GroupsOf(h) = h.groups
         /\ \A r \in Roles : Principals(h)[r] = h.account[r]
  BY DEF Missing, Principals, LookupUid, Distinct, Apart, GroupsOf, Roles

LEMMA DetectedIs ==
  ASSUME NEW h \in Host
  PROVE  DetectBackend(h) = "available" <=>
           /\ h.linux /\ h.peer /\ h.trusted /\ Apart(h)
           /\ Stat(h, "store").kind = "file" /\ Kept(h, "store", {h.account["service"]})
           /\ Stat(h, "dir").kind = "directory" /\ Stat(h, "top").kind = "directory"
           /\ \A q \in {"dir", "top"} : Kept(h, q, {Root, h.account["service"]})
<1> DEFINE p == Principals(h)
           contract == StoreContract(Stat(h, "store"), StoreParents(h), p["service"], p["worker"], GroupsOf(h))
<1>1. DetectBackend(h) = "available" <=>
        /\ h.linux /\ h.peer /\ Missing(p) = {} /\ Distinct(p) /\ h.trusted /\ contract
  BY DEF DetectBackend, PlatformSupports
<1>2. /\ "store" \in DOMAIN Above /\ "dir" \in DOMAIN Above /\ "top" \in DOMAIN Above
      /\ "service" \in Roles /\ "worker" \in Roles
  BY AboveOf DEF Roles
<1>3. ASSUME Apart(h)
      PROVE  contract <=>
               /\ Stat(h, "store").kind = "file" /\ Kept(h, "store", {h.account["service"]})
               /\ Stat(h, "dir").kind = "directory" /\ Stat(h, "top").kind = "directory"
               /\ \A q \in {"dir", "top"} : Kept(h, q, {Root, h.account["service"]})
  <2>1. p["service"] = h.account["service"] /\ p["worker"] = h.account["worker"] /\ GroupsOf(h) = h.groups
    BY <1>2, <1>3, ApartIs
  <2> HIDE DEF p
  <2>2. CASE Stat(h, "store").kind = "file"
    BY <2>1, <2>2, <1>2, StoreAncestry, KeptIs DEF StoreContract, TrustedDirectory, TrustedOwner
  <2> QED BY <2>2 DEF StoreContract
<1> HIDE DEF contract
<1>4. Missing(p) = {} /\ Distinct(p) <=> Apart(h)
  BY ApartIs
<1> QED BY <1>1, <1>3, <1>4

LEMMA LauncherIs ==
  ASSUME NEW h \in Host, NEW t \in Tools, Apart(h)
  PROVE  CanonicalSwitch(h, t, Principals(h), GroupsOf(h)) <=>
           /\ Stat(h, t).kind = "file" /\ Stat(h, t).exec /\ Stat(h, "bin").kind = "directory"
           /\ \A q \in {"bin", t} : Kept(h, q, {Root, h.account["service"]})
<1>1. /\ t \in DOMAIN Above /\ "bin" \in DOMAIN Above /\ "service" \in Roles /\ "worker" \in Roles
  BY AboveOf DEF Tools, Roles
<1>2. /\ Principals(h)["service"] = h.account["service"] /\ Principals(h)["worker"] = h.account["worker"]
      /\ GroupsOf(h) = h.groups
  BY <1>1, ApartIs
<1>3. CASE Stat(h, t).kind = "file"
  BY <1>1, <1>2, <1>3, ToolAncestry, KeptIs
     DEF CanonicalSwitch, TrustedLauncher, TrustedDirectory, TrustedOwner
<1> QED BY <1>3 DEF CanonicalSwitch, TrustedLauncher

LEMMA SwitchType ==
  ASSUME NEW h, DiscoverSwitch(h) # NoTool
  PROVE  DiscoverSwitch(h) \in Tools
  BY DEF DiscoverSwitch, Tools

(* A host is fit when every judgement of the gate says so.                  *)
LEMMA FitIs ==
  ASSUME NEW h \in Host, NEW cmd
  PROVE  Fit(h, cmd) <=>
           /\ cmd = "probe" => ServiceHostAvailable(h)
           /\ DetectBackend(h) = "available" /\ GroupsOf(h) # {}
           /\ DiscoverSwitch(h) # NoTool
           /\ CanonicalSwitch(h, DiscoverSwitch(h), Principals(h), GroupsOf(h))
           /\ OpenResult(h, h.account["worker"], ChildGroups(h, DiscoverSwitch(h))) = "EACCES"
<1> DEFINE t == DiscoverSwitch(h)
           both == {Root, h.account["service"]}
<1>1. Fit(h, cmd) <=>
        /\ h.linux /\ h.peer /\ h.trusted /\ h.groups # {} /\ Apart(h)
        /\ cmd = "probe" => ServiceHostAvailable(h)
        /\ t # NoTool /\ Stat(h, t).exec
        /\ Stat(h, "store").kind = "file"
        /\ \A q \in {"dir", "top", "bin"} : Stat(h, q).kind = "directory"
        /\ Kept(h, "store", {h.account["service"]})
        /\ \A q \in {"dir", "top", "bin", t} : Kept(h, q, both)
        /\ OpenResult(h, h.account["worker"], ChildGroups(h, t)) = "EACCES"
  BY GuardedIsKept DEF Fit, Apart, ServiceHostAvailable
<1>2. CASE Apart(h) /\ t # NoTool
  <2>1. t \in Tools /\ GroupsOf(h) = h.groups
    BY <1>2, SwitchType, ApartIs
  <2>2. Stat(h, t).kind = "file"
    BY <1>2 DEF DiscoverSwitch, Found
  <2> HIDE DEF t
  <2>3. CanonicalSwitch(h, t, Principals(h), GroupsOf(h)) <=>
          /\ Stat(h, t).kind = "file" /\ Stat(h, t).exec /\ Stat(h, "bin").kind = "directory"
          /\ \A q \in {"bin", t} : Kept(h, q, both)
    BY <1>2, <2>1, LauncherIs
  <2> QED BY <1>1, <1>2, <2>1, <2>2, <2>3, DetectedIs DEF t
<1>3. CASE ~(Apart(h) /\ t # NoTool)
  BY <1>1, <1>3, DetectedIs
<1> QED BY <1>2, <1>3

-----------------------------------------------------------------------------
(* The invariants.                                                          *)
Places == {"idle", "detect", "groups", "switch", "probe", "record", "refused", "enabled"}

HostInv ==
  /\ host \in Hosts /\ pc \in Places
  /\ pc # "idle" => command \in {"probe", "register"}
  /\ pc = "record" => command = "register"

LEMMA HostStep == HostInv /\ [Next]_vars => HostInv'
<1> SUFFICES ASSUME HostInv, [Next]_vars PROVE HostInv'
  OBVIOUS
<1> USE DEF HostInv, Places
<1>1. CASE ProbeCommand
  BY <1>1 DEF ProbeCommand, Command
<1>2. CASE RegisterCommand
  BY <1>2 DEF RegisterCommand, Command
<1>3. CASE Detect
  BY <1>3 DEF Detect, Refuse
<1>4. CASE ResolveGroups
  BY <1>4 DEF ResolveGroups, Refuse
<1>5. CASE ChooseSwitch
  BY <1>5 DEF ChooseSwitch, Refuse
<1>6. CASE SpawnFails
  BY <1>6 DEF SpawnFails, Refuse
<1>7. CASE Probe
  BY <1>7 DEF Probe, Refuse
<1>8. CASE RegisterJob
  BY <1>8 DEF RegisterJob, Refuse
<1>9. CASE Administer
  BY <1>9, HostsAssumption DEF Administer
<1>10. CASE UNCHANGED vars
  BY <1>10 DEF vars
<1> QED BY <1>1, <1>2, <1>3, <1>4, <1>5, <1>6, <1>7, <1>8, <1>9, <1>10 DEF Next, Gate

(* What the gate has read and judged, as long as the host stays as it was.  *)
JudgedInv ==
  fresh /\ pc \notin {"idle", "refused"} =>
    /\ command = "probe" => ServiceHostAvailable(host)
    /\ pc # "detect" => DetectBackend(host) = "available" /\ report = Principals(host)
    /\ pc \notin {"detect", "groups"} => GroupsOf(host) # {} /\ gids = GroupsOf(host)
    /\ pc \in {"probe", "record", "enabled"} =>
         /\ tool = DiscoverSwitch(host) /\ tool # NoTool
         /\ CanonicalSwitch(host, tool, report, gids)
    /\ pc \in {"record", "enabled"} =>
         AcceptsEvidence(ProbeScript(host, tool, report["worker"]), report["worker"])

(* What the gate has read, as long as nothing unfit happened.               *)
FitInv ==
  ~unfit =>
    /\ pc # "refused"
    /\ pc \notin {"idle", "enabled"} => Fit(host, command) /\ (command = "register" => job = NoJob)
    /\ pc \in {"groups", "switch", "probe"} => report = Principals(host)
    /\ pc \in {"switch", "probe"} => gids = GroupsOf(host)
    /\ pc = "probe" => tool = DiscoverSwitch(host)

(* Any host the commands run on is one.                                     *)
LEMMA HostOf == HostInv => host \in Host
  BY HostsAssumption DEF HostInv

LEMMA JudgedStep == HostInv /\ JudgedInv /\ [Next]_vars => JudgedInv'
<1> SUFFICES ASSUME HostInv, JudgedInv, [Next]_vars PROVE JudgedInv'
  OBVIOUS
<1>1. CASE ProbeCommand
  BY <1>1 DEF ProbeCommand, Command, JudgedInv
<1>2. CASE RegisterCommand
  BY <1>2 DEF RegisterCommand, Command, JudgedInv
<1>3. CASE Detect
  BY <1>3 DEF Detect, Refuse, JudgedInv
<1>4. CASE ResolveGroups
  BY <1>4 DEF ResolveGroups, Refuse, JudgedInv
<1>5. CASE ChooseSwitch
  BY <1>5 DEF ChooseSwitch, Refuse, JudgedInv
<1>6. CASE SpawnFails
  BY <1>6 DEF SpawnFails, Refuse, JudgedInv
<1>7. CASE Probe
  BY <1>7 DEF Probe, Refuse, JudgedInv
<1>8. CASE RegisterJob
  BY <1>8 DEF RegisterJob, Refuse, JudgedInv
<1>9. CASE Administer
  BY <1>9 DEF Administer, JudgedInv
<1>10. CASE UNCHANGED vars
  BY <1>10 DEF vars, JudgedInv
<1> QED BY <1>1, <1>2, <1>3, <1>4, <1>5, <1>6, <1>7, <1>8, <1>9, <1>10 DEF Next, Gate

(* The denial the probe was shown.                                          *)
LEMMA Evidence ==
  ASSUME NEW h, NEW t, NEW expected, AcceptsEvidence(ProbeScript(h, t, expected), expected)
  PROVE  /\ h.account["worker"] = expected
         /\ OpenResult(h, h.account["worker"], ChildGroups(h, t)) = "EACCES"
<1>1. CASE h.account["worker"] = expected
  BY <1>1 DEF AcceptsEvidence, ProbeScript
<1>2. CASE h.account["worker"] # expected
  BY <1>2 DEF AcceptsEvidence, ProbeScript
<1> QED BY <1>1, <1>2

(* Whatever the hosts are: what is enabled on a host that stayed as it was   *)
(* is a host whose worker the kernel keeps from the store, from the          *)
(* directories above it and from the program that will start workers.       *)
THEOREM EnabledProtects == Spec => []EnabledIsProtected
<1>1. Init => HostInv /\ JudgedInv
  BY DEF Init, HostInv, JudgedInv, Places
<1>2. HostInv /\ JudgedInv /\ [Next]_vars => (HostInv /\ JudgedInv)'
  BY HostStep, JudgedStep
<1>3. HostInv /\ JudgedInv => EnabledIsProtected
  <2> SUFFICES ASSUME HostInv, JudgedInv, pc = "enabled", fresh
               PROVE  Fit(host, command)
    BY DEF EnabledIsProtected
  <2>1. /\ command = "probe" => ServiceHostAvailable(host)
        /\ DetectBackend(host) = "available" /\ report = Principals(host)
        /\ GroupsOf(host) # {} /\ gids = GroupsOf(host)
        /\ tool = DiscoverSwitch(host) /\ tool # NoTool
        /\ CanonicalSwitch(host, tool, report, gids)
        /\ AcceptsEvidence(ProbeScript(host, tool, report["worker"]), report["worker"])
    BY DEF JudgedInv
  <2>2. OpenResult(host, host.account["worker"], ChildGroups(host, tool)) = "EACCES"
    BY <2>1, Evidence
  <2> QED BY <2>1, <2>2, HostOf, FitIs
<1> QED BY <1>1, <1>2, <1>3, PTL DEF Spec

-----------------------------------------------------------------------------
(* A change of the host that is neither unfit nor outdates what was read    *)
(* leaves the gate where it would be.                                       *)
LEMMA FitAdminister ==
  ASSUME HostInv, HostInv', FitInv, Administer
  PROVE  FitInv'
<1> SUFFICES ASSUME ~unfit' PROVE FitInv'
  BY DEF FitInv
<1>1. /\ ~unfit /\ Fit(host', command) /\ ~Outdated(host')
      /\ pc' = pc /\ command' = command /\ job' = job /\ report' = report /\ gids' = gids /\ tool' = tool
  BY DEF Administer
<1>2. host \in Host
  BY HostOf
<1>3. pc \in {"groups", "switch", "probe"} => Principals(host)' = report
  <2> SUFFICES ASSUME pc \in {"groups", "switch", "probe"} PROVE Principals(host') = report
    OBVIOUS
  <2>1. report = Principals(host)
    BY <1>1 DEF FitInv
  <2>2. report # NoReport
    BY <2>1, <1>2, NamesAssumption DEF Principals, LookupUid, Host
  <2> QED BY <2>2, <1>1 DEF Outdated
<1>4. pc \in {"switch", "probe"} => GroupsOf(host)' = gids
  <2> SUFFICES ASSUME pc \in {"switch", "probe"} PROVE GroupsOf(host') = gids
    OBVIOUS
  <2>1. gids = GroupsOf(host) /\ Fit(host, command)
    BY <1>1 DEF FitInv
  <2>2. gids # {}
    BY <2>1, <1>2, FitIs
  <2> QED BY <2>2, <1>1 DEF Outdated
<1>5. pc = "probe" => DiscoverSwitch(host)' = tool
  <2> SUFFICES ASSUME pc = "probe" PROVE DiscoverSwitch(host') = tool
    OBVIOUS
  <2>1. tool = DiscoverSwitch(host) /\ Fit(host, command)
    BY <1>1 DEF FitInv
  <2>2. tool # NoTool
    BY <2>1, <1>2, FitIs
  <2> QED BY <2>2, <1>1 DEF Outdated
<1> QED BY <1>1, <1>3, <1>4, <1>5 DEF FitInv

LEMMA FitStep == HostInv /\ FitInv /\ [Next]_vars => FitInv'
<1> SUFFICES ASSUME HostInv, FitInv, [Next]_vars PROVE FitInv'
  OBVIOUS
<1>h. host \in Host
  BY HostOf
<1>f. ASSUME ~unfit, pc \notin {"idle", "enabled"}
      PROVE  /\ command = "probe" => ServiceHostAvailable(host)
             /\ DetectBackend(host) = "available" /\ GroupsOf(host) # {}
             /\ DiscoverSwitch(host) # NoTool
             /\ CanonicalSwitch(host, DiscoverSwitch(host), Principals(host), GroupsOf(host))
             /\ OpenResult(host, host.account["worker"], ChildGroups(host, DiscoverSwitch(host))) = "EACCES"
             /\ command = "register" => job = NoJob
  BY <1>h, <1>f, FitIs DEF FitInv
<1>1. CASE ProbeCommand
  BY <1>1, <1>h, FitIs DEF ProbeCommand, Command, FitInv
<1>2. CASE RegisterCommand
  BY <1>2 DEF RegisterCommand, Command, FitInv
<1>3. CASE Detect
  BY <1>3, <1>f DEF Detect, Refuse, FitInv
<1>4. CASE ResolveGroups
  BY <1>4, <1>f DEF ResolveGroups, Refuse, FitInv
<1>5. CASE ChooseSwitch
  BY <1>5, <1>f DEF ChooseSwitch, Refuse, FitInv
<1>6. CASE SpawnFails
  BY <1>6 DEF SpawnFails, FitInv
<1>7. CASE Probe
  <2> SUFFICES ASSUME ~unfit PROVE FitInv'
    BY <1>7 DEF Probe, FitInv
  <2>1. /\ pc = "probe" /\ report = Principals(host) /\ tool = DiscoverSwitch(host)
        /\ OpenResult(host, host.account["worker"], ChildGroups(host, tool)) = "EACCES"
    BY <1>7, <1>f DEF Probe, FitInv
  <2>2. report["worker"] = host.account["worker"]
    BY <2>1 DEF Principals, LookupUid, Roles
  <2>3. AcceptsEvidence(ProbeScript(host, tool, report["worker"]), report["worker"])
    BY <2>1, <2>2 DEF AcceptsEvidence, ProbeScript
  <2> QED BY <1>7, <2>3 DEF Probe, FitInv
<1>8. CASE RegisterJob
  BY <1>8, <1>f DEF RegisterJob, Refuse, FitInv, HostInv
<1>9. CASE Administer
  BY <1>9, HostStep, FitAdminister
<1>10. CASE UNCHANGED vars
  BY <1>10 DEF vars, FitInv
<1> QED BY <1>1, <1>2, <1>3, <1>4, <1>5, <1>6, <1>7, <1>8, <1>9, <1>10 DEF Next, Gate

(* Whatever the hosts are, and however they change under the gate: a host    *)
(* that was fit all the while and stayed what was read of it is not refused, *)
(* unless a spawn fails or the worktree has a job.                          *)
THEOREM RefusalsHaveCause == Spec => []RefusedHasCause
<1>1. Init => HostInv /\ FitInv
  BY DEF Init, HostInv, FitInv, Places
<1>2. HostInv /\ FitInv /\ [Next]_vars => (HostInv /\ FitInv)'
  BY HostStep, FitStep
<1>3. FitInv => RefusedHasCause
  BY DEF FitInv, RefusedHasCause
<1> QED BY <1>1, <1>2, <1>3, PTL DEF Spec

(* Whatever changes under the gate, the probe passes only on the present     *)
(* denial of the account that was judged.                                   *)
THEOREM ProbesThePresent == Spec => ProbedNow
<1> DEFINE Denied ==
      /\ host.account["worker"] = report["worker"]
      /\ report["worker"] # Root
      /\ host.search =>
           /\ Stat(host, "store").kind = "file"
           /\ ~KernelWrites(Stat(host, "store"), report["worker"], ChildGroups(host, tool))
<1>1. Init => HostInv
  BY DEF Init, HostInv, Places
<1>2. HostInv /\ [Next]_vars => HostInv'
  BY HostStep
<1>3. HostInv /\ [Next]_vars => [pc = "probe" /\ pc' \in {"record", "enabled"} => Denied]_vars
  <2> SUFFICES ASSUME HostInv, Next, pc = "probe", pc' \in {"record", "enabled"} PROVE Denied
    OBVIOUS
  <2>1. Probe /\ AcceptsEvidence(ProbeScript(host, tool, report["worker"]), report["worker"])
    BY DEF Next, Gate, ProbeCommand, RegisterCommand, Command, Detect, ResolveGroups, ChooseSwitch,
       SpawnFails, Probe, RegisterJob, Administer, Refuse
  <2>2. /\ host.account["worker"] = report["worker"]
        /\ OpenResult(host, report["worker"], ChildGroups(host, tool)) = "EACCES"
    BY <2>1, Evidence
  <2>3. Stat(host, "store") \in FileNode
    BY HostOf, StatType, AboveOf
  <2>4. Stat(host, "store").kind \in {"missing", "directory", "file", "socket"}
    BY <2>3 DEF FileNode, Kinds
  <2>5. report["worker"] # Root
    BY <2>2, <2>4 DEF OpenResult, KernelWrites
  <2>6. host.search => /\ Stat(host, "store").kind = "file"
                       /\ ~KernelWrites(Stat(host, "store"), report["worker"], ChildGroups(host, tool))
    BY <2>2, <2>4 DEF OpenResult
  <2> QED BY <2>2, <2>5, <2>6
<1> QED BY <1>1, <1>2, <1>3, PTL DEF Spec, ProbedNow
=============================================================================
