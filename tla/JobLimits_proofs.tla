--------------------------- MODULE JobLimits_proofs ---------------------------
(***************************************************************************)
(* Proofs about JobLimits: for any limits, estimates, costs and number of    *)
(* actions, what a job is charged, and what it consumes of its grant.        *)
(* The charges are a fold over all actions; what a change of one action     *)
(* does to it is proved first, by induction over finite sets.               *)
(***************************************************************************)
EXTENDS LimitProperties, FiniteSetTheorems, WellFoundedInduction, TLAPS

-----------------------------------------------------------------------------
(* Induction over the natural numbers and over finite sets, for a property   *)
(* given as the set of what has it.                                         *)

(* A set of natural numbers has a least element.                            *)
LEMMA LeastNat ==
  ASSUME NEW T \in SUBSET Nat, T # {}
  PROVE  \E n \in T : \A m \in T : n <= m
<1> DEFINE R == {ss \in Nat \X Nat : ss[1] < ss[2]}
<1>1. IsWellFoundedOn(R, Nat)
  BY NatLessThanWellFounded DEF OpToRel
<1>2. ASSUME NEW m \in Nat, NEW n \in Nat, <<m, n>> \notin R
      PROVE  n <= m
  <2>1. <<m, n>> \in Nat \X Nat /\ <<m, n>>[1] = m /\ <<m, n>>[2] = n
    OBVIOUS
  <2>2. ~(m < n)
    BY <1>2, <2>1
  <2> QED BY <2>2
<1> HIDE DEF R
<1>3. \E n \in T : \A m \in T : ~(<<m, n>> \in R)
  BY <1>1, WFMin
<1> QED BY <1>2, <1>3

(* What holds of 0, and of n + 1 when of n, holds of every number.          *)
LEMMA NatSetInduction ==
  ASSUME NEW T, 0 \in T, \A n \in Nat : n \in T => n + 1 \in T
  PROVE  Nat \subseteq T
<1> SUFFICES ASSUME Nat \ T # {} PROVE FALSE
  OBVIOUS
<1>1. PICK n \in Nat \ T : \A m \in Nat \ T : n <= m
  BY LeastNat
<1>2. n # 0 /\ n - 1 \in Nat /\ n - 1 \in T
  BY <1>1
<1> QED BY <1>1, <1>2

(* The element that a fold over a function takes first from a set.          *)
Some(s) == CHOOSE x \in s : TRUE

(* What holds of the empty set, and of a set when it holds of the set        *)
(* without that element, holds of every subset of a finite set.             *)
LEMMA FiniteSetInduction ==
  ASSUME NEW S, IsFiniteSet(S), NEW T, {} \in T,
         \A s \in SUBSET S : s # {} /\ s \ {Some(s)} \in T => s \in T
  PROVE  SUBSET S \subseteq T
<1> DEFINE N == {n \in Nat : \A s \in SUBSET S : Cardinality(s) <= n => s \in T}
<1>1. ASSUME NEW s \in SUBSET S
      PROVE  IsFiniteSet(s) /\ Cardinality(s) \in Nat
  BY FS_Subset, FS_CardinalityType
<1>2. 0 \in N
  <2>1. ASSUME NEW s \in SUBSET S, Cardinality(s) <= 0
        PROVE  s \in T
    <3>1. Cardinality(s) = 0
      BY <1>1, <2>1
    <3>2. s = {}
      BY <3>1, <1>1, FS_EmptySet
    <3> QED BY <3>2
  <2> QED BY <2>1
<1>3. ASSUME NEW n \in Nat, n \in N
      PROVE  n + 1 \in N
  <2>1. ASSUME NEW s \in SUBSET S, Cardinality(s) <= n + 1, s # {}
        PROVE  s \in T
    <3>1. Some(s) \in s
      BY <2>1 DEF Some
    <3>2. Cardinality(s \ {Some(s)}) = Cardinality(s) - 1
      BY <3>1, <1>1, FS_RemoveElement
    <3>3. Cardinality(s \ {Some(s)}) <= n
      BY <3>2, <2>1, <1>1
    <3> QED BY <3>3, <1>3, <2>1
  <2> QED BY <2>1
<1> HIDE DEF N
<1>4. Nat \subseteq N
  BY <1>2, <1>3, NatSetInduction
<1>5. ASSUME NEW s \in SUBSET S
      PROVE  s \in T
  <2>1. Cardinality(s) \in N /\ Cardinality(s) <= Cardinality(s)
    BY <1>1, <1>4
  <2> QED BY <2>1 DEF N
<1> QED BY <1>5

-----------------------------------------------------------------------------
(* Sums.  The fold of module Folds is a function on the sets of arguments,   *)
(* recursive in the element it takes first.                                 *)
Part(f, s, g) == IF s = {} THEN 0 ELSE f[Some(s)] + g[s \ {Some(s)}]
IsPartial(f, S, g) == g = [s \in SUBSET S |-> Part(f, s, g)]
Partial(f, S) == CHOOSE g : IsPartial(f, S, g)

LEMMA SumIsPartial == \A f : Sum(f) = Partial(f, DOMAIN f)[DOMAIN f]
  BY DEF Sum, FoldFunction, FoldFunctionOnSet, MapThenFoldSet, Partial, IsPartial, Part, Some

(* That function exists.                                                    *)
LEMMA PartialSums ==
  ASSUME NEW S, IsFiniteSet(S), NEW f
  PROVE  IsPartial(f, S, Partial(f, S))
<1> DEFINE Upto(n, g) == \A s \in SUBSET S : Cardinality(s) <= n => g[s] = Part(f, s, g)
           N == {n \in Nat : \E g : Upto(n, g)}
<1>1. ASSUME NEW s \in SUBSET S
      PROVE  IsFiniteSet(s) /\ Cardinality(s) \in Nat
  BY FS_Subset, FS_CardinalityType
<1>2. 0 \in N
  <2> DEFINE g == [s \in SUBSET S |-> 0]
  <2>1. ASSUME NEW s \in SUBSET S, Cardinality(s) <= 0
        PROVE  g[s] = Part(f, s, g)
    <3>1. Cardinality(s) = 0
      BY <1>1, <2>1
    <3>2. s = {}
      BY <3>1, <1>1, FS_EmptySet
    <3> QED BY <3>2 DEF Part
  <2> QED BY <2>1
<1>3. ASSUME NEW n \in Nat, n \in N
      PROVE  n + 1 \in N
  <2>1. PICK g : Upto(n, g)
    BY <1>3
  <2> DEFINE h == [s \in SUBSET S |-> Part(f, s, g)]
  <2>2. ASSUME NEW s \in SUBSET S, Cardinality(s) <= n + 1
        PROVE  h[s] = Part(f, s, h)
    <3>1. CASE s = {}
      BY <3>1 DEF Part
    <3>2. CASE s # {}
      <4> DEFINE t == s \ {Some(s)}
      <4>1. Some(s) \in s /\ t \in SUBSET S
        BY <3>2 DEF Some
      <4>2. Cardinality(t) = Cardinality(s) - 1
        BY <4>1, <1>1, FS_RemoveElement
      <4>3. Cardinality(t) <= n
        BY <4>2, <2>2, <1>1
      <4>4. h[t] = g[t]
        BY <4>1, <4>3, <2>1
      <4> QED BY <4>4, <3>2 DEF Part
    <3> QED BY <3>1, <3>2
  <2> HIDE DEF h
  <2> QED BY <2>2
<1> HIDE DEF N
<1>4. Nat \subseteq N
  BY <1>2, <1>3, NatSetInduction
<1>5. PICK g : Upto(Cardinality(S), g)
  BY <1>1, <1>4 DEF N
<1>6. \A s \in SUBSET S : g[s] = Part(f, s, g)
  BY <1>5, <1>1, FS_Subset
<1> DEFINE h == [s \in SUBSET S |-> g[s]]
<1>7. IsPartial(f, S, h)
  <2>1. ASSUME NEW s \in SUBSET S
        PROVE  Part(f, s, g) = Part(f, s, h)
    BY DEF Part
  <2> QED BY <2>1, <1>6 DEF IsPartial
<1> QED BY <1>7 DEF Partial

(* Changing one summand changes the sum by the difference.                  *)
LEMMA SumAdds ==
  ASSUME NEW S, IsFiniteSet(S), NEW f \in [S -> Int], NEW g \in [S -> Int],
         NEW k \in S, \A i \in S \ {k} : g[i] = f[i]
  PROVE  Sum(f) \in Int /\ Sum(g) = Sum(f) + g[k] - f[k]
<1> DEFINE p == Partial(f, S)
           q == Partial(g, S)
           T == {s \in SUBSET S : /\ p[s] \in Int /\ q[s] \in Int
                                  /\ q[s] = IF k \in s THEN p[s] + g[k] - f[k] ELSE p[s]}
<1>1. IsPartial(f, S, p) /\ IsPartial(g, S, q)
  BY PartialSums
<1>2. Sum(f) = p[S] /\ Sum(g) = q[S]
  BY SumIsPartial
<1> HIDE DEF p, q
<1>3. ASSUME NEW s \in SUBSET S
      PROVE  p[s] = Part(f, s, p) /\ q[s] = Part(g, s, q)
  BY <1>1 DEF IsPartial
<1>4. {} \in T
  <2>1. p[{}] = 0 /\ q[{}] = 0
    BY <1>3 DEF Part
  <2> QED BY <2>1
<1>5. ASSUME NEW s \in SUBSET S, s # {}, s \ {Some(s)} \in T
      PROVE  s \in T
  <2>1. Some(s) \in s /\ Some(s) \in S
    BY <1>5 DEF Some
  <2>2. p[s] = f[Some(s)] + p[s \ {Some(s)}] /\ q[s] = g[Some(s)] + q[s \ {Some(s)}]
    BY <1>3, <1>5 DEF Part
  <2>3. CASE Some(s) = k
    <3>1. k \notin s \ {Some(s)} /\ k \in s
      BY <2>1, <2>3
    <3> QED BY <2>1, <2>2, <2>3, <3>1, <1>5
  <2>4. CASE Some(s) # k
    <3>1. g[Some(s)] = f[Some(s)] /\ (k \in s \ {Some(s)} <=> k \in s)
      BY <2>1, <2>4
    <3> QED BY <2>1, <2>2, <3>1, <1>5
  <2> QED BY <2>3, <2>4
<1> HIDE DEF T
<1>6. S \in T
  BY <1>4, <1>5, FiniteSetInduction
<1> QED BY <1>2, <1>6 DEF T

(* A sum of natural numbers is one.                                         *)
LEMMA SumNat ==
  ASSUME NEW S, IsFiniteSet(S), NEW f \in [S -> Nat]
  PROVE  Sum(f) \in Nat
<1> DEFINE p == Partial(f, S)
           T == {s \in SUBSET S : p[s] \in Nat}
<1>1. IsPartial(f, S, p)
  BY PartialSums
<1>2. Sum(f) = p[S]
  BY SumIsPartial
<1> HIDE DEF p
<1>3. ASSUME NEW s \in SUBSET S
      PROVE  p[s] = Part(f, s, p)
  BY <1>1 DEF IsPartial
<1>4. {} \in T
  <2>1. p[{}] = 0
    BY <1>3 DEF Part
  <2> QED BY <2>1
<1>5. ASSUME NEW s \in SUBSET S, s # {}, s \ {Some(s)} \in T
      PROVE  s \in T
  <2>1. Some(s) \in S
    BY <1>5 DEF Some
  <2> QED BY <2>1, <1>3, <1>5 DEF Part
<1> HIDE DEF T
<1>6. S \in T
  BY <1>4, <1>5, FiniteSetInduction
<1> QED BY <1>2, <1>6 DEF T

(* A finite set of estimates has a largest.                                 *)
LEMMA LargestOf ==
  ASSUME NEW S \in SUBSET Nat, IsFiniteSet(S), S # {}
  PROVE  \E m \in S : \A n \in S : n <= m
<1> DEFINE T == {s \in SUBSET S : s = {} \/ \E m \in s : \A n \in s : n <= m}
<1>1. {} \in T
  OBVIOUS
<1>2. ASSUME NEW s \in SUBSET S, s # {}, s \ {Some(s)} \in T
      PROVE  s \in T
  <2>1. Some(s) \in s /\ Some(s) \in Nat
    BY <1>2 DEF Some
  <2>2. CASE s \ {Some(s)} = {}
    BY <2>1, <2>2
  <2>3. CASE s \ {Some(s)} # {}
    <3>1. PICK m \in s \ {Some(s)} : \A n \in s \ {Some(s)} : n <= m
      BY <2>3, <1>2
    <3> QED BY <2>1, <3>1
  <2> QED BY <2>2, <2>3
<1> HIDE DEF T
<1>3. S \in T
  BY <1>1, <1>2, FiniteSetInduction
<1> QED BY <1>3 DEF T

-----------------------------------------------------------------------------
(* Types.  A process that stopped holds the payload without a version.       *)
Holdable == [revision : 0 .. MaxRevisions, budgets : Budgets \cup {LegacyBudgets},
             deadline : Deadlines \cup {None}, grant : Grants]
Places == {"off", "open", "admitted", "begun", "checked", "reserved", "running", "settled",
           "failed", "verified", "authorized", "consumed"}
Process == [at : Places, act : 0 .. MaxActions, tries : Nat, policy : Holdable]

LimitTypes ==
  /\ policy \in Holdable /\ actions \in [Ids -> Action] /\ count \in 0 .. MaxActions
  /\ proc \in [Reservers -> Process] /\ used \in Nat /\ resumed \in Nat

(* The places where a process has an action of its own.                     *)
Holding == {"begun", "checked", "reserved", "running", "settled"}

(* No two processes share an action, and one that is not reserved for yet is *)
(* an intent without an entry.                                              *)
OwnActions ==
  /\ \A k \in Ids : k > count => actions[k] = NoAction
  /\ \A r \in Reservers : At(r, "begun") \/ At(r, "checked") =>
       Own(r).state = "intent" /\ Own(r).entry = "none"
  /\ \A r \in Reservers : proc[r].at \in Holding => proc[r].act \in 1 .. count /\ Own(r).by = r

LimitInv == LimitTypes /\ OwnActions

LEMMA StoppedType == Stopped \in Process
<1>1. [revision |-> 0, budgets |-> LegacyBudgets, deadline |-> None, grant |-> {}] \in Holdable
  BY BoundsAssumption DEF Holdable, Grants
<1> QED BY <1>1, BoundsAssumption DEF Stopped, Process, Places

(* Where a step leaves a process.                                           *)
LEMMA Moves ==
  ASSUME proc \in [Reservers -> Process], NEW r \in Reservers
  PROVE  /\ \A place \in Places : Go(r, place) =>
              /\ proc' \in [Reservers -> Process]
              /\ proc'[r] = [proc[r] EXCEPT !.at = place]
         /\ Stop(r) => proc' \in [Reservers -> Process] /\ proc'[r] = Stopped
         /\ Back(r) => /\ proc' \in [Reservers -> Process]
                       /\ proc'[r] = [Stopped EXCEPT !.at = "open", !.policy = proc[r].policy]
         /\ \A place : Go(r, place) \/ Stop(r) \/ Back(r) =>
              \A q \in Reservers \ {r} : proc'[q] = proc[q]
<1>1. ASSUME NEW place \in Places
      PROVE  [proc[r] EXCEPT !.at = place] \in Process
  BY DEF Process
<1>2. Stopped \in Process /\ [Stopped EXCEPT !.at = "open", !.policy = proc[r].policy] \in Process
  BY StoppedType DEF Process, Places
<1>3. ASSUME NEW place \in Places, Go(r, place)
      PROVE  /\ proc' \in [Reservers -> Process]
             /\ proc'[r] = [proc[r] EXCEPT !.at = place]
  BY <1>1, <1>3 DEF Go
<1> QED BY <1>2, <1>3 DEF Go, Stop, Back

(* Where a step leaves an action.                                           *)
LEMMA Puts ==
  ASSUME actions \in [Ids -> Action], NEW r \in Reservers, proc[r].act \in Ids,
         NEW a \in Action, Put(r, a)
  PROVE  /\ actions' \in [Ids -> Action] /\ actions'[proc[r].act] = a
         /\ \A k \in Ids \ {proc[r].act} : actions'[k] = actions[k]
  BY DEF Put

(* What most steps do to an action: they begin it, or leave what it is       *)
(* charged alone.                                                           *)
Carried(a, b) ==
  \/ a = NoAction /\ b.entry = "none"
  \/ /\ b.by = a.by /\ b.estimate = a.estimate /\ b.observed = a.observed
     /\ b.entry = a.entry \/ (a.entry = "reserved" /\ b.entry = "retained")

Quiet == \A k \in Ids : Carried(actions[k], actions'[k])

(* And no process comes to hold a checked estimate.                         *)
Calm ==
  /\ Quiet
  /\ \A r \in Reservers :
       proc'[r].at = "checked" => At(r, "checked") /\ proc'[r].act = proc[r].act

(* What a step of one process must keep.                                    *)
LEMMA OwnStep ==
  ASSUME LimitInv, NEW r \in Reservers,
         policy' \in Holdable, used' \in Nat, resumed' \in Nat,
         proc' \in [Reservers -> Process], \A q \in Reservers \ {r} : proc'[q] = proc[q],
         actions' \in [Ids -> Action], count' \in count .. MaxActions,
         \A k \in Ids : k > count' => actions'[k] = NoAction,
         \A k \in 1 .. count : /\ actions'[k].by = actions[k].by
                               /\ actions[k].state = "intent" /\ actions[k].by # r =>
                                    actions'[k].state = "intent" /\ actions'[k].entry = actions[k].entry,
         proc'[r].at \in Holding =>
           proc'[r].act \in 1 .. count' /\ actions'[proc'[r].act].by = r,
         proc'[r].at \in {"begun", "checked"} =>
           /\ actions'[proc'[r].act].state = "intent" /\ actions'[proc'[r].act].entry = "none"
  PROVE  LimitInv'
<1>1. count \in Nat /\ count' \in Nat /\ count <= count' /\ count' <= MaxActions
  BY BoundsAssumption DEF LimitInv, LimitTypes
<1>2. LimitTypes'
  BY <1>1 DEF LimitInv, LimitTypes
<1>3. ASSUME NEW q \in Reservers \ {r}, proc[q].at \in Holding
      PROVE  /\ proc[q].act \in 1 .. count /\ proc[q].act \in 1 .. count' /\ actions'[proc[q].act].by = q
             /\ proc[q].at \in {"begun", "checked"} =>
                  /\ actions'[proc[q].act].state = "intent" /\ actions'[proc[q].act].entry = "none"
  BY <1>1, <1>3 DEF LimitInv, OwnActions, Own, At
<1>4. ASSUME NEW q \in Reservers, proc'[q].at \in Holding
      PROVE  /\ proc'[q].act \in 1 .. count' /\ actions'[proc'[q].act].by = q
             /\ proc'[q].at \in {"begun", "checked"} =>
                  /\ actions'[proc'[q].act].state = "intent" /\ actions'[proc'[q].act].entry = "none"
  <2>1. CASE q = r
    BY <1>4, <2>1
  <2>2. CASE q # r
    BY <1>3, <1>4, <2>2
  <2> QED BY <2>1, <2>2
<1>5. OwnActions'
  BY <1>4 DEF OwnActions, Own, At, Holding
<1> QED BY <1>2, <1>5 DEF LimitInv

(* A step that leaves the actions alone, after which the process that moved  *)
(* holds none.                                                              *)
LEMMA IdleStep ==
  ASSUME LimitInv, NEW r \in Reservers, UNCHANGED <<actions, count>>,
         policy' \in Holdable, used' \in Nat, resumed' \in Nat,
         proc' \in [Reservers -> Process], \A q \in Reservers \ {r} : proc'[q] = proc[q],
         proc'[r].at \notin Holding \/ proc'[r] = proc[r]
  PROVE  LimitInv' /\ Calm
<1>1. count \in count .. MaxActions
  BY BoundsAssumption DEF LimitInv, LimitTypes
<1>2. Calm
  BY DEF Calm, Quiet, Carried, At, Holding
<1>3. proc'[r].at \in Holding => proc'[r] = proc[r]
  OBVIOUS
<1>4. LimitInv'
  BY <1>1, <1>3, OwnStep DEF LimitInv, LimitTypes, OwnActions, Own, At, Holding
<1> QED BY <1>2, <1>4

(* A step that changes the action of one process, or its place.              *)
LEMMA OwnChange ==
  ASSUME LimitInv, NEW r \in Reservers, proc[r].at \in Holding,
         UNCHANGED <<policy, count, resumed>>, used' \in Nat,
         proc' \in [Reservers -> Process], \A q \in Reservers \ {r} : proc'[q] = proc[q],
         NEW a \in Action, a.by = r, Put(r, a),
         proc'[r].at \in Holding => proc'[r].act = proc[r].act,
         proc'[r].at \in {"begun", "checked"} => a.state = "intent" /\ a.entry = "none"
  PROVE  /\ LimitInv'
         /\ Carried(Own(r), a) => Quiet
<1>1. proc[r].act \in Ids /\ proc[r].act \in 1 .. count /\ Own(r).by = r /\ count \in count .. MaxActions
      /\ \A k \in 1 .. count : k \in Ids
  BY BoundsAssumption DEF LimitInv, LimitTypes, OwnActions, Ids
<1>2. /\ actions' \in [Ids -> Action] /\ actions'[proc[r].act] = a
      /\ \A k \in Ids \ {proc[r].act} : actions'[k] = actions[k]
  BY <1>1, Puts DEF LimitInv, LimitTypes
<1>3. \A k \in Ids : k > count => k # proc[r].act
  BY <1>1, BoundsAssumption DEF LimitInv, LimitTypes, Ids
<1>4. \A k \in Ids : k > count' => actions'[k] = NoAction
  BY <1>2, <1>3 DEF LimitInv, OwnActions
<1>5. \A k \in 1 .. count : /\ actions'[k].by = actions[k].by
                            /\ actions[k].state = "intent" /\ actions[k].by # r =>
                                 actions'[k].state = "intent" /\ actions'[k].entry = actions[k].entry
  BY <1>1, <1>2 DEF Own
<1>6. LimitInv'
  BY <1>1, <1>2, <1>4, <1>5, OwnStep DEF LimitInv, LimitTypes, Holding
<1>7. Carried(Own(r), a) => Quiet
  <2>1. \A k \in Ids : Carried(actions[k], actions[k])
    BY DEF Carried
  <2> QED BY <1>1, <1>2, <2>1 DEF Quiet, Own
<1> QED BY <1>6, <1>7

-----------------------------------------------------------------------------
(* The steps.  The initial state first.                                     *)
LEMMA LimitInit == Init => LimitInv
<1> SUFFICES ASSUME Init PROVE LimitInv
  OBVIOUS
<1>1. Stopped \in Process
  BY StoppedType
<1>2. NoAction \in Action
  BY DEF NoAction, Action, Reservers
<1>3. policy \in Holdable
  <2>1. Policies \subseteq Holdable
    BY DEF Policies, Holdable
  <2> QED BY <2>1 DEF Init
<1>4. LimitTypes
  <2>1. proc \in [Reservers -> Process] /\ actions \in [Ids -> Action]
    BY <1>1, <1>2 DEF Init
  <2>2. used \in Nat /\ count \in 0 .. MaxActions /\ resumed \in Nat
    BY BoundsAssumption DEF Init
  <2> QED BY <1>3, <2>1, <2>2 DEF LimitTypes
<1>5. \A r \in Reservers : proc[r].at = "off"
  BY DEF Init, Stopped
<1>6. OwnActions
  BY <1>5 DEF Init, OwnActions, At, Holding
<1> QED BY <1>4, <1>6 DEF LimitInv

(* Steps of the engine, the operator and the clock that leave the actions    *)
(* alone.                                                                   *)
LEMMA EngineIdles ==
  ASSUME LimitInv,
         \/ open_gate \/ RecoveryDispatch \/ begin_recovery \/ drive_supervised_recovery
         \/ consume_recovery_effect \/ record_grant_effect_consumption \/ resolve_incident
  PROVE  LimitInv' /\ Calm
<1>1. "engine" \in Reservers /\ proc \in [Reservers -> Process] /\ policy \in Holdable
      /\ used \in Nat /\ resumed \in Nat
  BY DEF Reservers, LimitInv, LimitTypes
<1> DEFINE e == "engine"
<1>2. CASE open_gate
  <2>1. [Stopped EXCEPT !.at = "open", !.policy = policy] \in Process
    BY <1>1, StoppedType DEF Process, Places
  <2>2. proc' \in [Reservers -> Process] /\ proc'[e].at = "open"
        /\ \A q \in Reservers \ {e} : proc'[q] = proc[q]
    BY <1>1, <1>2, <2>1 DEF open_gate, Stopped
  <2> QED BY <1>1, <1>2, <2>2, IdleStep DEF open_gate, ledger, history, Holding
<1>3. ASSUME \/ Go(e, "admitted") \/ Go(e, "authorized") \/ Go(e, "consumed")
             \/ Back(e) \/ UNCHANGED proc,
             UNCHANGED <<actions, count, policy>>, used' \in Nat, resumed' \in Nat
      PROVE  LimitInv' /\ Calm
  <2>1. /\ proc' \in [Reservers -> Process] /\ \A q \in Reservers \ {e} : proc'[q] = proc[q]
        /\ \/ proc'[e].at \in {"admitted", "authorized", "consumed", "open"}
           \/ proc'[e] = proc[e]
    <3>1. CASE Back(e)
      BY <1>1, <3>1, Moves DEF Stopped
    <3>2. CASE UNCHANGED proc
      BY <1>1, <3>2
    <3>3. ASSUME NEW place \in {"admitted", "authorized", "consumed"}, Go(e, place)
          PROVE  /\ proc' \in [Reservers -> Process] /\ proc'[e].at = place
                 /\ \A q \in Reservers \ {e} : proc'[q] = proc[q]
      <4>1. place \in Places
        BY DEF Places
      <4>2. proc'[e] = [proc[e] EXCEPT !.at = place]
        BY <1>1, <3>3, <4>1, Moves
      <4>3. proc'[e].at = place
        BY <1>1, <4>2 DEF Process
      <4> QED BY <1>1, <3>3, <4>1, <4>3, Moves
    <3> QED BY <1>3, <3>1, <3>2, <3>3
  <2> QED BY <1>1, <1>3, <2>1, IdleStep DEF Holding
<1>4. CASE RecoveryDispatch \/ drive_supervised_recovery
  BY <1>1, <1>3, <1>4
  DEF RecoveryDispatch, drive_supervised_recovery, gated_dispatch, Counts, history, ledger
<1>5. CASE begin_recovery \/ consume_recovery_effect
  BY <1>1, <1>3, <1>5 DEF begin_recovery, consume_recovery_effect, Counts, history
<1>6. CASE record_grant_effect_consumption \/ resolve_incident
  BY <1>1, <1>3, <1>6 DEF record_grant_effect_consumption, resolve_incident, Counts, history
<1> QED BY <1>2, <1>4, <1>5, <1>6

LEMMA OthersIdle ==
  ASSUME LimitInv, Operator \/ execution_elapsed_minutes \/ \E r \in Reservers : Crash(r)
  PROVE  LimitInv' /\ Calm
<1>1. "engine" \in Reservers /\ proc \in [Reservers -> Process] /\ policy \in Holdable
      /\ used \in Nat /\ resumed \in Nat
  BY DEF Reservers, LimitInv, LimitTypes
<1>2. ASSUME UNCHANGED <<actions, count, proc, used, resumed>>, policy' \in Holdable
      PROVE  LimitInv' /\ Calm
  BY <1>1, <1>2, IdleStep
<1>3. ASSUME NEW p \in Holdable, Revise(p)
      PROVE  LimitInv' /\ Calm
  <2>1. policy' \in Holdable
    BY <1>1, <1>3, BoundsAssumption DEF Revise, Holdable
  <2> QED BY <1>2, <1>3, <2>1 DEF Revise, Counts
<1>4. CASE operator_budget_increase
  <2>1. PICK b \in Budgets, limit \in Deadlines :
          Revise([policy EXCEPT !.budgets = b, !.deadline = limit])
    BY <1>4 DEF operator_budget_increase
  <2>2. [policy EXCEPT !.budgets = b, !.deadline = limit] \in Holdable
    BY <1>1 DEF Holdable
  <2> QED BY <1>3, <2>1, <2>2
<1>5. CASE operator_standing_grant_revision
  <2>1. PICK grant \in Grants : Revise([policy EXCEPT !.grant = grant])
    BY <1>5 DEF operator_standing_grant_revision
  <2>2. [policy EXCEPT !.grant = grant] \in Holdable
    BY <1>1 DEF Holdable
  <2> QED BY <1>3, <2>1, <2>2
<1>6. CASE reset_change \/ execution_elapsed_minutes
  BY <1>1, <1>2, <1>6 DEF reset_change, execution_elapsed_minutes, ledger, history
<1>7. ASSUME NEW r \in Reservers, Crash(r)
      PROVE  LimitInv' /\ Calm
  <2>1. proc' \in [Reservers -> Process] /\ proc'[r] = Stopped
        /\ \A q \in Reservers \ {r} : proc'[q] = proc[q]
    BY <1>1, <1>7, Moves DEF Crash
  <2>2. Stopped.at \notin Holding
    BY DEF Stopped, Holding
  <2> QED BY <1>1, <1>7, <2>1, <2>2, IdleStep DEF Crash, ledger, history
<1> QED BY <1>4, <1>5, <1>6, <1>7 DEF Operator

(* An action of a process at rest is left with another state only.           *)
LEMMA StateOnly ==
  ASSUME LimitInv, NEW r \in Reservers, proc[r].at \in Holding,
         NEW state \in {"closed", "uncertain", "dispatched"}
  PROVE  /\ Own(r) \in Action /\ Own(r).by = r
         /\ [Own(r) EXCEPT !.state = state] \in Action
         /\ [Own(r) EXCEPT !.state = state].by = r
         /\ Carried(Own(r), [Own(r) EXCEPT !.state = state])
<1>1. Own(r) \in Action /\ Own(r).by = r
  BY BoundsAssumption DEF LimitInv, LimitTypes, OwnActions, Own, Ids
<1> QED BY <1>1 DEF Action, Carried

(* A process closes its action, or leaves it uncertain, and holds none.      *)
LEMMA ClosesOwn ==
  ASSUME LimitInv, NEW r \in Reservers, proc[r].at \in Holding,
         NEW state \in {"closed", "uncertain"}, Put(r, [Own(r) EXCEPT !.state = state]),
         UNCHANGED <<policy, count, used, resumed>>,
         \/ Stop(r) \/ Back(r) \/ Go(r, "failed") \/ Go(r, "verified")
  PROVE  LimitInv' /\ Calm
<1>1. proc \in [Reservers -> Process] /\ used \in Nat
  BY DEF LimitInv, LimitTypes
<1>2. ASSUME NEW place \in {"failed", "verified"}, Go(r, place)
      PROVE  /\ proc' \in [Reservers -> Process] /\ proc'[r].at = place
             /\ \A q \in Reservers \ {r} : proc'[q] = proc[q]
  <2>1. place \in Places
    BY DEF Places
  <2>2. proc'[r] = [proc[r] EXCEPT !.at = place]
    BY <1>1, <1>2, <2>1, Moves
  <2>3. proc'[r].at = place
    BY <1>1, <2>2 DEF Process
  <2> QED BY <1>1, <1>2, <2>1, <2>3, Moves
<1>3. ASSUME Stop(r) \/ Back(r)
      PROVE  /\ proc' \in [Reservers -> Process] /\ proc'[r].at \in {"off", "open"}
             /\ \A q \in Reservers \ {r} : proc'[q] = proc[q]
  <2>1. Stopped.at = "off" /\ [Stopped EXCEPT !.at = "open", !.policy = proc[r].policy].at = "open"
    BY DEF Stopped
  <2> QED BY <1>1, <1>3, <2>1, Moves
<1>4. /\ proc' \in [Reservers -> Process] /\ proc'[r].at \in {"failed", "verified", "off", "open"}
      /\ \A q \in Reservers \ {r} : proc'[q] = proc[q]
  BY <1>2, <1>3
<1>5. proc'[r].at \notin Holding /\ proc'[r].at # "checked" /\ proc'[r].at # "begun"
  BY <1>4 DEF Holding
<1>6. LimitInv' /\ Quiet
  BY <1>1, <1>4, <1>5, StateOnly, OwnChange
<1>7. \A q \in Reservers : proc'[q].at = "checked" => At(q, "checked") /\ proc'[q].act = proc[q].act
  BY <1>4, <1>5 DEF At
<1> QED BY <1>6, <1>7 DEF Calm

LEMMA EndsOwn ==
  ASSUME LimitInv, StageEnds \/ RepairEnds \/ PromptEnds
  PROVE  LimitInv' /\ Calm
<1>1. "engine" \in Reservers /\ "service" \in Reservers
  BY DEF Reservers
<1>2. CASE StageEnds
  <2>1. proc["engine"].at \in Holding /\ UNCHANGED <<policy, count, used, resumed>>
    BY <1>2 DEF StageEnds, At, Holding, history
  <2>2. (Close("closed") \/ Close("uncertain")) /\ (Back("engine") \/ Go("engine", "failed"))
    BY <1>2 DEF StageEnds
  <2> QED BY <1>1, <2>1, <2>2, ClosesOwn DEF Close
<1>3. CASE RepairEnds
  <2>1. proc["engine"].at \in Holding /\ UNCHANGED <<policy, count, used, resumed>>
    BY <1>3 DEF RepairEnds, At, Holding, history, Counts
  <2>2. (Close("closed") \/ Close("uncertain")) /\ (Back("engine") \/ Go("engine", "verified"))
    BY <1>3 DEF RepairEnds
  <2> QED BY <1>1, <2>1, <2>2, ClosesOwn DEF Close
<1>4. CASE PromptEnds
  <2>1. proc["service"].at \in Holding /\ UNCHANGED <<policy, count, used, resumed>>
    BY <1>4 DEF PromptEnds, At, Holding, history, Counts
  <2>2. PICK state \in {"closed", "uncertain"} : Put("service", [Own("service") EXCEPT !.state = state])
    BY <1>4 DEF PromptEnds
  <2>3. Stop("service")
    BY <1>4 DEF PromptEnds
  <2> QED BY <1>1, <2>1, <2>2, <2>3, ClosesOwn
<1> QED BY <1>2, <1>3, <1>4

(* What is refused is not dispatched: the engine closes its intent, the      *)
(* service leaves it behind.                                                *)
LEMMA RefusedStep ==
  ASSUME LimitInv, NEW r \in Reservers, proc[r].at \in Holding, Refused(r),
         UNCHANGED <<policy, count, used, resumed>>
  PROVE  LimitInv' /\ Calm
<1>1. CASE r = "engine"
  <2>1. Back(r) /\ Put(r, [Own(r) EXCEPT !.state = "closed"])
    BY <1>1 DEF Refused
  <2> QED BY <2>1, ClosesOwn
<1>2. CASE r # "engine"
  <2>1. Stop(r) /\ UNCHANGED actions
    BY <1>2 DEF Refused
  <2>2. proc \in [Reservers -> Process] /\ policy \in Holdable /\ used \in Nat /\ resumed \in Nat
    BY DEF LimitInv, LimitTypes
  <2>3. proc' \in [Reservers -> Process] /\ proc'[r] = Stopped
        /\ \A q \in Reservers \ {r} : proc'[q] = proc[q]
    BY <2>1, <2>2, Moves
  <2>4. Stopped.at \notin Holding
    BY DEF Stopped, Holding
  <2> QED BY <2>1, <2>2, <2>3, <2>4, IdleStep
<1> QED BY <1>1, <1>2

(* Moving on with the action that is held, changed or not.                  *)
LEMMA GoesOn ==
  ASSUME LimitInv, NEW r \in Reservers, proc[r].at \in Holding,
         NEW place \in Holding, Go(r, place), UNCHANGED <<policy, count, used, resumed>>,
         NEW a \in Action, a.by = r, Put(r, a),
         place \in {"begun", "checked"} => a.state = "intent" /\ a.entry = "none"
  PROVE  /\ LimitInv'
         /\ proc'[r].at = place /\ proc'[r].act = proc[r].act
         /\ \A q \in Reservers \ {r} : proc'[q] = proc[q]
         /\ Carried(Own(r), a) => Quiet
<1>1. proc \in [Reservers -> Process] /\ used \in Nat /\ place \in Places
  BY DEF LimitInv, LimitTypes, Holding, Places
<1>2. proc'[r] = [proc[r] EXCEPT !.at = place]
  BY <1>1, Moves
<1>3. proc'[r].at = place /\ proc'[r].act = proc[r].act
  BY <1>1, <1>2 DEF Process
<1>4. proc' \in [Reservers -> Process] /\ \A q \in Reservers \ {r} : proc'[q] = proc[q]
  BY <1>1, Moves
<1>5. LimitInv' /\ (Carried(Own(r), a) => Quiet)
  BY <1>1, <1>3, <1>4, OwnChange
<1> QED BY <1>3, <1>4, <1>5

(* What a process has once its reservation passed the limits.                *)
Passed(r) ==
  /\ UNCHANGED <<actions, policy, ceiling>>
  /\ At(r, "begun") /\ proc'[r].at = "checked" /\ proc'[r].act = proc[r].act
  /\ \A q \in Reservers \ {r} : proc'[q] = proc[q]
  /\ ~policy_block_reason(proc[r].policy)
  /\ check_total(proc[r].policy.budgets, Own(r).estimate)

LEMMA OwnSame ==
  ASSUME LimitInv, NEW r \in Reservers, proc[r].at \in Holding
  PROVE  /\ Own(r) \in Action /\ Own(r).by = r /\ Carried(Own(r), Own(r))
         /\ UNCHANGED actions => Put(r, Own(r))
<1>1. Own(r) \in Action /\ Own(r).by = r
  BY BoundsAssumption DEF LimitInv, LimitTypes, OwnActions, Own, Ids
<1>2. actions = [actions EXCEPT ![proc[r].act] = actions[proc[r].act]]
  BY DEF LimitInv, LimitTypes
<1> QED BY <1>1, <1>2 DEF Carried, Put, Own

LEMMA ReserveStep ==
  ASSUME LimitInv, NEW r \in Reservers, reserve(r)
  PROVE  LimitInv' /\ (Calm \/ Passed(r))
<1>1. proc[r].at \in Holding /\ "checked" \in Holding
      /\ UNCHANGED <<policy, count, used, resumed, ceiling>>
  BY DEF reserve, At, Holding, Counts, history
<1>2. CASE Refused(r)
  BY <1>1, <1>2, RefusedStep
<1>3. CASE ~Refused(r)
  <2>1. /\ ~policy_block_reason(proc[r].policy) /\ Within(proc[r].policy.budgets, Own(r).estimate)
        /\ Go(r, "checked") /\ UNCHANGED actions
    BY <1>3 DEF reserve
  <2>2. Own(r).state = "intent" /\ Own(r).entry = "none" /\ At(r, "begun")
    BY DEF reserve, LimitInv, OwnActions
  <2>3. LimitInv' /\ proc'[r].at = "checked" /\ proc'[r].act = proc[r].act
        /\ \A q \in Reservers \ {r} : proc'[q] = proc[q]
    BY <1>1, <2>1, <2>2, OwnSame, GoesOn
  <2> QED BY <1>1, <2>1, <2>2, <2>3 DEF Passed, Within
<1> QED BY <1>2, <1>3

LEMMA InsertFailsStep ==
  ASSUME LimitInv, NEW r \in Reservers, InsertFails(r)
  PROVE  LimitInv' /\ Calm
<1>1. proc[r].at \in Holding /\ UNCHANGED <<policy, count, used, resumed>>
  BY DEF InsertFails, At, Holding, Counts, history
<1>2. CASE Refused(r)
  BY <1>1, <1>2, RefusedStep
<1>3. CASE ~Refused(r)
  <2>1. proc' = [proc EXCEPT ![r].at = "begun", ![r].tries = @ + 1] /\ UNCHANGED actions
    BY <1>3 DEF InsertFails
  <2>2. proc[r] \in Process /\ proc \in [Reservers -> Process] /\ used \in Nat
    BY DEF LimitInv, LimitTypes
  <2>3. [proc[r] EXCEPT !.at = "begun", !.tries = proc[r].tries + 1] \in Process
    <3>1. proc[r].tries + 1 \in Nat /\ "begun" \in Places
      BY <2>2 DEF Process, Places
    <3> QED BY <2>2, <3>1 DEF Process
  <2>4. /\ proc' \in [Reservers -> Process] /\ proc'[r].at = "begun" /\ proc'[r].act = proc[r].act
        /\ \A q \in Reservers \ {r} : proc'[q] = proc[q]
    BY <2>1, <2>2, <2>3 DEF Process
  <2>5. Own(r).state = "intent" /\ Own(r).entry = "none"
    BY DEF InsertFails, LimitInv, OwnActions
  <2>6. LimitInv' /\ Quiet
    BY <1>1, <2>1, <2>2, <2>4, <2>5, OwnSame, OwnChange
  <2>7. \A q \in Reservers : proc'[q].at = "checked" => At(q, "checked") /\ proc'[q].act = proc[q].act
    BY <2>4 DEF At
  <2> QED BY <2>6, <2>7 DEF Calm
<1> QED BY <1>2, <1>3

LEMMA DispatchStep ==
  ASSUME LimitInv, NEW r \in Reservers, dispatch_action(r)
  PROVE  LimitInv' /\ Calm
<1>1. proc[r].at \in Holding /\ "running" \in Holding /\ UNCHANGED <<policy, count, used, resumed>>
      /\ Go(r, "running") /\ Put(r, [Own(r) EXCEPT !.state = "dispatched"])
  BY DEF dispatch_action, At, Holding, Counts, history
<1>2. LimitInv' /\ Quiet /\ proc'[r].at = "running" /\ \A q \in Reservers \ {r} : proc'[q] = proc[q]
  <2>1. /\ [Own(r) EXCEPT !.state = "dispatched"] \in Action
        /\ [Own(r) EXCEPT !.state = "dispatched"].by = r
        /\ Carried(Own(r), [Own(r) EXCEPT !.state = "dispatched"])
    BY <1>1, StateOnly
  <2> QED BY <1>1, <2>1, GoesOn
<1>3. \A q \in Reservers : proc'[q].at = "checked" => At(q, "checked") /\ proc'[q].act = proc[q].act
  BY <1>2 DEF At
<1> QED BY <1>2, <1>3 DEF Calm

(* The reservation: the estimate is charged.                                *)
Charged(r) ==
  /\ At(r, "checked") /\ proc'[r].at = "reserved"
  /\ \A q \in Reservers \ {r} : proc'[q] = proc[q]
  /\ Own(r).entry = "none" /\ Put(r, [Own(r) EXCEPT !.entry = "reserved"])

LEMMA InsertStep ==
  ASSUME LimitInv, NEW r \in Reservers, insert_reservation(r)
  PROVE  LimitInv' /\ Charged(r)
<1>1. proc[r].at \in Holding /\ "reserved" \in Holding /\ UNCHANGED <<policy, count, used, resumed>>
      /\ Go(r, "reserved") /\ Put(r, [Own(r) EXCEPT !.entry = "reserved"]) /\ At(r, "checked")
  BY DEF insert_reservation, At, Holding, Counts, history
<1>2. Own(r) \in Action /\ Own(r).by = r /\ Own(r).entry = "none"
  BY <1>1, OwnSame DEF LimitInv, OwnActions
<1>3. [Own(r) EXCEPT !.entry = "reserved"] \in Action /\ [Own(r) EXCEPT !.entry = "reserved"].by = r
  BY <1>2 DEF Action
<1>4. LimitInv' /\ proc'[r].at = "reserved" /\ \A q \in Reservers \ {r} : proc'[q] = proc[q]
  BY <1>1, <1>3, GoesOn
<1> QED BY <1>1, <1>2, <1>4 DEF Charged

(* The usage is observed, of a reservation that is open still.               *)
Observed(r) ==
  /\ At(r, "running") /\ proc'[r].at = "settled"
  /\ \A q \in Reservers \ {r} : proc'[q] = proc[q]
  /\ Own(r).entry = "reserved"
  /\ \E cost \in Costs : Put(r, [Own(r) EXCEPT !.entry = "reconciled", !.observed = cost])

LEMMA SettleStep ==
  ASSUME LimitInv, NEW r \in Reservers, Settle(r)
  PROVE  LimitInv' /\ (Calm \/ Observed(r))
<1>1. proc[r].at \in Holding /\ "settled" \in Holding /\ UNCHANGED <<policy, count, used, resumed>>
      /\ Go(r, "settled") /\ At(r, "running")
  BY DEF Settle, At, Holding, Counts, history
<1>2. Own(r) \in Action /\ Own(r).by = r /\ Carried(Own(r), Own(r))
  BY <1>1, OwnSame
<1>3. ASSUME NEW a \in Action, a.by = r, Put(r, a)
      PROVE  /\ LimitInv' /\ proc'[r].at = "settled"
             /\ \A q \in Reservers \ {r} : proc'[q] = proc[q]
             /\ Carried(Own(r), a) => Calm
  <2>1. /\ LimitInv' /\ proc'[r].at = "settled"
        /\ \A q \in Reservers \ {r} : proc'[q] = proc[q]
        /\ Carried(Own(r), a) => Quiet
    BY <1>1, <1>3, GoesOn
  <2>2. \A q \in Reservers : proc'[q].at = "checked" => At(q, "checked") /\ proc'[q].act = proc[q].act
    BY <2>1 DEF At
  <2> QED BY <2>1, <2>2 DEF Calm
<1>4. ASSUME Put(r, retain_reservation(Own(r)))
      PROVE  LimitInv' /\ Calm
  <2>1. retain_reservation(Own(r)) \in Action /\ retain_reservation(Own(r)).by = r
        /\ Carried(Own(r), retain_reservation(Own(r)))
    BY <1>2 DEF retain_reservation, Action, Carried
  <2> QED BY <1>3, <1>4, <2>1
<1>5. ASSUME NEW cost \in Costs, Put(r, reconcile_reservation(Own(r), cost))
      PROVE  LimitInv' /\ (Calm \/ Observed(r))
  <2>1. CASE Own(r).entry = "reserved"
    <3>1. reconcile_reservation(Own(r), cost) = [Own(r) EXCEPT !.entry = "reconciled", !.observed = cost]
      BY <2>1 DEF reconcile_reservation
    <3>2. /\ [Own(r) EXCEPT !.entry = "reconciled", !.observed = cost] \in Action
          /\ [Own(r) EXCEPT !.entry = "reconciled", !.observed = cost].by = r
      BY <1>2 DEF Action
    <3>3. LimitInv' /\ proc'[r].at = "settled" /\ \A q \in Reservers \ {r} : proc'[q] = proc[q]
      BY <1>3, <1>5, <3>1, <3>2
    <3> QED BY <1>1, <1>5, <2>1, <3>1, <3>3 DEF Observed
  <2>2. CASE Own(r).entry # "reserved"
    <3>1. reconcile_reservation(Own(r), cost) = Own(r)
      BY <2>2 DEF reconcile_reservation
    <3> QED BY <1>2, <1>3, <1>5, <3>1
  <2> QED BY <2>1, <2>2
<1> QED BY <1>4, <1>5 DEF Settle

(* A new action, without an entry.                                          *)
LEMMA BeginStep ==
  ASSUME LimitInv, NEW r \in Reservers, NEW p \in Holdable, Begin(r, p),
         proc[r].at \in {"off", "admitted"}
  PROVE  LimitInv' /\ Calm
<1>1. /\ count < MaxActions /\ count' = count + 1 /\ UNCHANGED <<policy, used, resumed>>
      /\ proc' = [proc EXCEPT ![r] = [at |-> "begun", act |-> count + 1, tries |-> 0, policy |-> p]]
  BY DEF Begin, Counts, history
<1>2. PICK estimate \in Estimates :
        actions' = [actions EXCEPT ![count + 1] =
                      [NoAction EXCEPT !.state = "intent", !.by = r, !.estimate = estimate]]
  BY DEF Begin
<1> DEFINE a == [NoAction EXCEPT !.state = "intent", !.by = r, !.estimate = estimate]
<1>3. a \in Action /\ a.by = r /\ a.state = "intent" /\ a.entry = "none"
  BY DEF NoAction, Action, Reservers
<1>4. /\ count + 1 \in Ids /\ count' \in count .. MaxActions /\ count \in Nat
      /\ \A k \in 1 .. count : k \in Ids /\ k # count + 1
      /\ \A k \in Ids : k > count + 1 => k > count /\ k # count + 1
  BY <1>1, BoundsAssumption DEF LimitInv, LimitTypes, Ids
<1> HIDE DEF a
<1>5. /\ actions' \in [Ids -> Action] /\ actions'[count + 1] = a
      /\ \A k \in Ids \ {count + 1} : actions'[k] = actions[k]
  BY <1>2, <1>3, <1>4 DEF LimitInv, LimitTypes, a
<1>6. /\ proc' \in [Reservers -> Process] /\ proc'[r].at = "begun" /\ proc'[r].act = count + 1
      /\ \A q \in Reservers \ {r} : proc'[q] = proc[q]
  <2>1. [at |-> "begun", act |-> count + 1, tries |-> 0, policy |-> p] \in Process
    BY <1>4, BoundsAssumption DEF Process, Places, Ids
  <2> QED BY <1>1, <2>1 DEF LimitInv, LimitTypes
<1>7. \A k \in Ids : k > count' => actions'[k] = NoAction
  BY <1>1, <1>4, <1>5 DEF LimitInv, OwnActions
<1>8. proc'[r].act \in 1 .. count' /\ actions'[proc'[r].act] = a
  BY <1>1, <1>4, <1>5, <1>6
<1>9. LimitInv'
  <2>1. used \in Nat /\ resumed \in Nat /\ policy \in Holdable
    BY DEF LimitInv, LimitTypes
  <2>2. \A k \in 1 .. count : actions'[k] = actions[k]
    BY <1>4, <1>5
  <2> QED BY <1>1, <1>3, <1>4, <1>5, <1>6, <1>7, <1>8, <2>1, <2>2, OwnStep
<1>10. Quiet
  <2>1. actions[count + 1] = NoAction
    BY <1>4 DEF LimitInv, OwnActions
  <2> QED BY <1>3, <1>5, <2>1 DEF Quiet, Carried
<1>11. \A q \in Reservers : proc'[q].at = "checked" => At(q, "checked") /\ proc'[q].act = proc[q].act
  BY <1>6 DEF At
<1> QED BY <1>9, <1>10, <1>11 DEF Calm

LEMMA Begins ==
  ASSUME LimitInv, begin_action \/ prompt
  PROVE  LimitInv' /\ Calm
<1>1. /\ "engine" \in Reservers /\ "service" \in Reservers
      /\ policy \in Holdable /\ proc["engine"].policy \in Holdable
  BY DEF Reservers, LimitInv, LimitTypes, Process
<1> QED BY <1>1, BeginStep DEF begin_action, prompt, At

(* Reconciling what is pending leaves every charge and every intent alone.   *)
LEMMA PendingKept ==
  ASSUME LimitInv, NEW k \in Ids
  PROVE  /\ reconcile_pending \in [Ids -> Action]
         /\ Carried(actions[k], reconcile_pending[k])
         /\ reconcile_pending[k].by = actions[k].by
         /\ actions[k].state \in {"none", "intent"} => reconcile_pending[k] = actions[k]
<1>1. ASSUME NEW j \in Ids
      PROVE  reconcile_pending[j] \in Action /\ Carried(actions[j], reconcile_pending[j])
  <2>1. actions[j] \in Action
    BY DEF LimitInv, LimitTypes
  <2> QED BY <2>1 DEF reconcile_pending, retain_reservation, Action, Carried
<1>2. reconcile_pending \in [Ids -> Action]
  BY <1>1 DEF reconcile_pending
<1>3. actions[k] \in Action
  BY DEF LimitInv, LimitTypes
<1>4. reconcile_pending[k].by = actions[k].by
  BY <1>3 DEF reconcile_pending, retain_reservation, Action
<1> QED BY <1>1, <1>2, <1>4 DEF reconcile_pending

LEMMA RecoverStep ==
  ASSUME LimitInv, EngineRecover
  PROVE  LimitInv' /\ Calm
<1> DEFINE e == "engine"
<1>1. /\ e \in Reservers /\ proc \in [Reservers -> Process] /\ policy \in Holdable
      /\ used \in Nat /\ resumed \in Nat /\ UNCHANGED <<policy, count, used, resumed>>
      /\ count \in count .. MaxActions
  BY BoundsAssumption DEF Reservers, LimitInv, LimitTypes, EngineRecover, Counts, history
<1>2. /\ proc' \in [Reservers -> Process] /\ proc'[e].at \in {"open", "admitted"}
      /\ \A q \in Reservers \ {e} : proc'[q] = proc[q]
  <2>1. Go(e, "admitted") \/ Back(e) \/ UNCHANGED proc
    BY DEF EngineRecover, gated_dispatch
  <2>2. CASE Go(e, "admitted")
    <3>1. "admitted" \in Places
      BY DEF Places
    <3>2. proc'[e] = [proc[e] EXCEPT !.at = "admitted"]
      BY <1>1, <2>2, <3>1, Moves
    <3>3. proc'[e].at = "admitted"
      BY <1>1, <3>2 DEF Process
    <3> QED BY <1>1, <2>2, <3>1, <3>3, Moves
  <2>3. CASE Back(e)
    BY <1>1, <2>3, Moves DEF Stopped
  <2>4. CASE UNCHANGED proc
    BY <1>1, <2>4 DEF EngineRecover, At
  <2> QED BY <2>1, <2>2, <2>3, <2>4
<1>3. /\ actions' \in [Ids -> Action] /\ Quiet
      /\ \A k \in Ids : /\ actions'[k].by = actions[k].by
                        /\ actions[k].state \in {"none", "intent"} => actions'[k] = actions[k]
  <2>1. CASE UNCHANGED actions
    BY <2>1 DEF LimitInv, LimitTypes, Quiet, Carried
  <2>2. CASE actions' = reconcile_pending
    <3>1. \A k \in Ids : /\ Carried(actions[k], actions'[k]) /\ actions'[k].by = actions[k].by
                         /\ actions[k].state \in {"none", "intent"} => actions'[k] = actions[k]
      BY <2>2, PendingKept
    <3>2. reconcile_pending \in [Ids -> Action]
      <4>1. CASE Ids = {}
        BY <4>1 DEF reconcile_pending
      <4> QED BY <4>1, PendingKept
    <3> QED BY <2>2, <3>1, <3>2 DEF Quiet
  <2>3. ASSUME NEW k \in Pending, actions' = [reconcile_pending EXCEPT ![k].state = "closed"]
        PROVE  /\ actions' \in [Ids -> Action] /\ Quiet
               /\ \A j \in Ids : /\ actions'[j].by = actions[j].by
                                 /\ actions[j].state \in {"none", "intent"} => actions'[j] = actions[j]
    <3>1. k \in Ids /\ actions[k].state \notin {"none", "intent"} /\ actions[k] # NoAction
      BY <2>3 DEF Pending, NoAction
    <3>2. reconcile_pending \in [Ids -> Action] /\ reconcile_pending[k] \in Action
      BY <3>1, PendingKept
    <3>3. actions'[k] = [reconcile_pending[k] EXCEPT !.state = "closed"]
      BY <2>3, <3>1, <3>2
    <3>4. /\ actions'[k] \in Action /\ actions'[k].by = actions[k].by
          /\ Carried(actions[k], actions'[k])
      <4>1. Carried(actions[k], reconcile_pending[k]) /\ reconcile_pending[k].by = actions[k].by
        BY <3>1, PendingKept
      <4> QED BY <3>1, <3>2, <3>3, <4>1 DEF Action, Carried
    <3>5. \A j \in Ids \ {k} : actions'[j] = reconcile_pending[j]
      BY <2>3, <3>2
    <3>6. actions' \in [Ids -> Action]
      BY <2>3, <3>2, <3>3, <3>4
    <3>7. ASSUME NEW j \in Ids
          PROVE  /\ Carried(actions[j], actions'[j]) /\ actions'[j].by = actions[j].by
                 /\ actions[j].state \in {"none", "intent"} => actions'[j] = actions[j]
      <4>1. CASE j = k
        BY <3>1, <3>4, <4>1
      <4>2. CASE j # k
        BY <3>5, <4>2, PendingKept
      <4> QED BY <4>1, <4>2
    <3> QED BY <3>6, <3>7 DEF Quiet
  <2>4. \/ UNCHANGED actions \/ actions' = reconcile_pending
        \/ \E k \in Pending : actions' = [reconcile_pending EXCEPT ![k].state = "closed"]
    BY DEF EngineRecover
  <2> QED BY <2>1, <2>2, <2>3, <2>4
<1>4. \A k \in Ids : k > count' => actions'[k] = NoAction
  <2>1. NoAction.state = "none"
    BY DEF NoAction
  <2> QED BY <1>1, <1>3, <2>1 DEF LimitInv, OwnActions
<1>5. \A k \in 1 .. count : k \in Ids
  BY BoundsAssumption DEF LimitInv, LimitTypes, Ids
<1>6. LimitInv'
  <2>1. proc'[e].at \notin Holding /\ proc'[e].at \notin {"begun", "checked"}
    BY <1>2 DEF Holding
  <2> QED BY <1>1, <1>2, <1>3, <1>4, <1>5, <2>1, OwnStep
<1>7. \A q \in Reservers : proc'[q].at = "checked" => At(q, "checked") /\ proc'[q].act = proc[q].act
  BY <1>2 DEF At
<1> QED BY <1>3, <1>6, <1>7 DEF Calm

(* Every step, together.                                                    *)
LEMMA AnyStep ==
  ASSUME LimitInv, [Next]_vars
  PROVE  /\ LimitInv'
         /\ Calm \/ \E r \in Reservers : Passed(r) \/ Charged(r) \/ Observed(r)
<1>1. CASE UNCHANGED vars
  <2>1. "engine" \in Reservers
    BY DEF Reservers
  <2> QED BY <1>1, <2>1, IdleStep DEF vars, ledger, history, LimitInv, LimitTypes
<1>2. ASSUME NEW r \in Reservers, Reserver(r)
      PROVE  LimitInv' /\ (Calm \/ Passed(r) \/ Charged(r) \/ Observed(r))
  BY <1>2, ReserveStep, InsertStep, InsertFailsStep, DispatchStep, SettleStep, OthersIdle
  DEF Reserver
<1>3. CASE Engine
  BY <1>3, EngineIdles, EndsOwn, Begins, RecoverStep DEF Engine
<1>4. CASE prompt \/ PromptEnds \/ Operator \/ execution_elapsed_minutes
  BY <1>4, Begins, EndsOwn, OthersIdle
<1> QED BY <1>1, <1>2, <1>3, <1>4 DEF Next

-----------------------------------------------------------------------------
(* For any plan of limits: settled charges stay what they are, and no        *)
(* reservation is withdrawn.                                                *)
THEOREM SettledStays == Spec => ChargedOnce
<1> DEFINE Once == \A k \in Ids :
             /\ actions[k].entry \in {"reconciled", "retained"} =>
                  reservation_charge(actions'[k]) = reservation_charge(actions[k])
             /\ actions[k].entry # "none" => actions'[k].entry # "none"
<1>1. ASSUME LimitInv, Quiet
      PROVE  Once
  <2>1. NoAction.entry = "none"
    BY DEF NoAction
  <2> QED BY <1>1, <2>1 DEF Quiet, Carried, reservation_charge
<1>2. ASSUME LimitInv, NEW r \in Reservers, Charged(r) \/ Observed(r)
      PROVE  Once
  <2>1. proc[r].act \in Ids
    <3>1. proc[r].at \in Holding
      BY <1>2 DEF Charged, Observed, At, Holding
    <3> QED BY <1>2, <3>1, BoundsAssumption DEF LimitInv, LimitTypes, OwnActions, Ids
  <2>2. Own(r).entry \in {"none", "reserved"}
        /\ \E a : Put(r, a) /\ (Own(r).entry # "none" => a.entry # "none")
    <3>1. CASE Charged(r)
      BY <3>1 DEF Charged
    <3>2. CASE Observed(r)
      <4>1. Own(r) \in Action
        BY <1>2, <2>1 DEF Own, LimitInv, LimitTypes
      <4>2. \A cost : [Own(r) EXCEPT !.entry = "reconciled", !.observed = cost].entry = "reconciled"
        BY <4>1 DEF Action
      <4> QED BY <3>2, <4>2 DEF Observed
    <3> QED BY <1>2, <3>1, <3>2
  <2>3. PICK a : Put(r, a) /\ (Own(r).entry # "none" => a.entry # "none")
    BY <2>2
  <2>4. actions'[proc[r].act] = a /\ \A k \in Ids \ {proc[r].act} : actions'[k] = actions[k]
    BY <1>2, <2>1, <2>3 DEF Put, LimitInv, LimitTypes
  <2> QED BY <2>1, <2>2, <2>3, <2>4 DEF Own
<1>3. ASSUME LimitInv, [Next]_vars
      PROVE  LimitInv' /\ Once
  <2>1. LimitInv' /\ (Calm \/ \E r \in Reservers : Passed(r) \/ Charged(r) \/ Observed(r))
    BY <1>3, AnyStep
  <2>2. CASE Calm
    BY <1>1, <1>3, <2>1, <2>2 DEF Calm
  <2>3. ASSUME NEW r \in Reservers, Passed(r)
        PROVE  Once
    BY <2>3 DEF Passed
  <2> QED BY <1>2, <1>3, <2>1, <2>2, <2>3
<1>4. LimitInv /\ [Next]_vars => LimitInv' /\ [Once]_vars
  BY <1>3
<1> HIDE DEF Once
<1> QED BY LimitInit, <1>4, PTL DEF Spec, ChargedOnce, Once

-----------------------------------------------------------------------------
(* What the processes hold of the policy, and where the engine is with a     *)
(* repair.                                                                  *)

Reads(q) == proc'[q].policy \in {proc[q].policy, policy, Stopped.policy}

Turn == \A q \in Reservers :
          /\ Reads(q)
          /\ proc'[q].at \in {"authorized", "consumed"} => proc'[q].at = proc[q].at

LEMMA Turns ==
  ASSUME LimitInv, NEW r \in Reservers,
         \/ Stop(r) \/ Back(r) \/ UNCHANGED proc
         \/ \E place \in Places \ {"authorized", "consumed"} : Go(r, place)
  PROVE  Turn
<1>1. proc \in [Reservers -> Process]
  BY DEF LimitInv, LimitTypes
<1>2. CASE Stop(r)
  <2>1. proc'[r] = Stopped /\ \A q \in Reservers \ {r} : proc'[q] = proc[q]
    BY <1>1, <1>2, Moves
  <2>2. Stopped.at = "off"
    BY DEF Stopped
  <2> QED BY <2>1, <2>2 DEF Turn, Reads
<1>3. CASE Back(r)
  <2>1. /\ proc'[r] = [Stopped EXCEPT !.at = "open", !.policy = proc[r].policy]
        /\ \A q \in Reservers \ {r} : proc'[q] = proc[q]
    BY <1>1, <1>3, Moves
  <2>2. proc'[r].at = "open" /\ proc'[r].policy = proc[r].policy
    BY <2>1, StoppedType DEF Process
  <2> QED BY <2>1, <2>2 DEF Turn, Reads
<1>4. CASE UNCHANGED proc
  BY <1>4 DEF Turn, Reads
<1>5. ASSUME NEW place \in Places \ {"authorized", "consumed"}, Go(r, place)
      PROVE  Turn
  <2>1. proc'[r] = [proc[r] EXCEPT !.at = place] /\ \A q \in Reservers \ {r} : proc'[q] = proc[q]
    BY <1>1, <1>5, Moves
  <2>2. proc'[r].at = place /\ proc'[r].policy = proc[r].policy
    BY <1>1, <2>1 DEF Process
  <2> QED BY <1>5, <2>1, <2>2 DEF Turn, Reads
<1> QED BY <1>2, <1>3, <1>4, <1>5

(* A place that is not on the way to a resumption.                          *)
LEMMA OtherPlaces ==
  /\ Holding \cup {"admitted", "failed", "verified"} \subseteq Places \ {"authorized", "consumed"}
  BY DEF Holding, Places

LEMMA BeginTurns ==
  ASSUME LimitInv, NEW r \in Reservers, NEW p, Begin(r, p), p \in {proc[r].policy, policy}
  PROVE  Turn
<1> DEFINE begun == [at |-> "begun", act |-> count + 1, tries |-> 0, policy |-> p]
<1>1. proc' = [proc EXCEPT ![r] = begun]
  BY DEF Begin
<1>2. begun.at = "begun" /\ begun.policy = p
  OBVIOUS
<1> HIDE DEF begun
<1>3. proc'[r] = begun /\ \A q \in Reservers \ {r} : proc'[q] = proc[q]
  BY <1>1 DEF LimitInv, LimitTypes
<1> QED BY <1>2, <1>3 DEF Turn, Reads

LEMMA ReserverTurns ==
  ASSUME LimitInv, NEW r \in Reservers, Reserver(r)
  PROVE  Turn /\ UNCHANGED <<used, resumed>>
<1>1. UNCHANGED <<used, resumed>>
  BY DEF Reserver, reserve, insert_reservation, InsertFails, dispatch_action, Settle, Crash,
         ledger, Counts, history
<1>2. CASE InsertFails(r) /\ proc' = [proc EXCEPT ![r].at = "begun", ![r].tries = @ + 1]
  <2>1. /\ proc'[r].at = "begun" /\ proc'[r].policy = proc[r].policy
        /\ \A q \in Reservers \ {r} : proc'[q] = proc[q]
    BY <1>2 DEF LimitInv, LimitTypes, Process
  <2> QED BY <1>1, <2>1 DEF Turn, Reads
<1>3. \/ Stop(r) \/ Back(r)
      \/ Go(r, "checked") \/ Go(r, "reserved") \/ Go(r, "running") \/ Go(r, "settled")
      \/ InsertFails(r) /\ proc' = [proc EXCEPT ![r].at = "begun", ![r].tries = @ + 1]
  BY DEF Reserver, reserve, insert_reservation, InsertFails, dispatch_action, Settle, Crash, Refused
<1> QED BY <1>1, <1>2, <1>3, Turns, OtherPlaces DEF Holding

LEMMA EngineTurns ==
  ASSUME LimitInv, Engine
  PROVE  \/ Turn /\ UNCHANGED <<used, resumed>>
         \/ consume_recovery_effect \/ record_grant_effect_consumption \/ resolve_incident
<1> DEFINE e == "engine"
<1>1. e \in Reservers
  BY DEF Reservers
<1>2. CASE open_gate
  <2>1. proc' = [proc EXCEPT ![e] = [Stopped EXCEPT !.at = "open", !.policy = policy]]
        /\ UNCHANGED <<used, resumed>>
    BY <1>2 DEF open_gate, ledger, history
  <2>2. /\ [Stopped EXCEPT !.at = "open", !.policy = policy].at = "open"
        /\ [Stopped EXCEPT !.at = "open", !.policy = policy].policy = policy
    BY StoppedType DEF Process
  <2>3. /\ proc'[e] = [Stopped EXCEPT !.at = "open", !.policy = policy]
        /\ \A q \in Reservers \ {e} : proc'[q] = proc[q]
    BY <1>1, <2>1 DEF LimitInv, LimitTypes
  <2>4. proc'[e].at = "open" /\ proc'[e].policy = policy
    BY <2>2, <2>3
  <2> QED BY <2>1, <2>3, <2>4 DEF Turn, Reads
<1>3. CASE begin_action
  BY <1>1, <1>3, BeginTurns DEF begin_action, Begin, Counts, history
<1>4. CASE EngineRecover \/ RecoveryDispatch
  <2>1. (Go(e, "admitted") \/ Back(e) \/ UNCHANGED proc) /\ UNCHANGED <<used, resumed>>
    BY <1>4 DEF EngineRecover, RecoveryDispatch, gated_dispatch, Counts, history
  <2> QED BY <1>1, <2>1, Turns, OtherPlaces
<1>5. CASE StageEnds \/ RepairEnds \/ begin_recovery \/ drive_supervised_recovery
  <2>1. /\ Go(e, "failed") \/ Go(e, "verified") \/ Back(e) \/ UNCHANGED proc
        /\ UNCHANGED <<used, resumed>>
    BY <1>5 DEF StageEnds, RepairEnds, begin_recovery, drive_supervised_recovery, Counts, history, ledger
  <2> QED BY <1>1, <2>1, Turns, OtherPlaces
<1> QED BY <1>2, <1>3, <1>4, <1>5 DEF Engine

LEMMA OthersTurn ==
  ASSUME LimitInv, prompt \/ PromptEnds \/ Operator \/ execution_elapsed_minutes \/ UNCHANGED vars
  PROVE  Turn /\ UNCHANGED <<used, resumed>>
<1>1. "service" \in Reservers
  BY DEF Reservers
<1>2. CASE prompt
  BY <1>1, <1>2, BeginTurns DEF prompt, Begin, Counts, history
<1>3. CASE PromptEnds
  BY <1>1, <1>3, Turns DEF PromptEnds, Counts, history
<1>4. CASE Operator \/ execution_elapsed_minutes \/ UNCHANGED vars
  <2>1. UNCHANGED <<proc, used, resumed>>
    BY <1>4 DEF Operator, operator_budget_increase, operator_standing_grant_revision, Revise,
                reset_change, execution_elapsed_minutes, vars, ledger, Counts, history
  <2> QED BY <1>1, <2>1, Turns
<1> QED BY <1>2, <1>3, <1>4

LEMMA PolicySteps ==
  ASSUME [Next]_vars
  PROVE  \/ UNCHANGED <<policy, ceiling, granted>>
         \/ operator_budget_increase \/ operator_standing_grant_revision
<1>1. ASSUME NEW r \in Reservers, Reserver(r)
      PROVE  UNCHANGED <<policy, ceiling, granted>>
  BY <1>1 DEF Reserver, reserve, insert_reservation, InsertFails, dispatch_action, Settle, Crash,
              ledger, history
<1>2. CASE Engine
  BY <1>2 DEF Engine, open_gate, EngineRecover, RecoveryDispatch, begin_action, Begin, StageEnds,
              begin_recovery, drive_supervised_recovery, RepairEnds, consume_recovery_effect,
              record_grant_effect_consumption, resolve_incident, ledger, history
<1>3. CASE prompt \/ PromptEnds \/ reset_change \/ execution_elapsed_minutes \/ UNCHANGED vars
  BY <1>3 DEF prompt, Begin, PromptEnds, reset_change, execution_elapsed_minutes, vars, ledger, history
<1> QED BY <1>1, <1>2, <1>3 DEF Next, Operator

(* The limits of a policy that was ever in force are within the highest.     *)
WithinCeiling(p) ==
  Null(ceiling) \/ (p.budgets.versioned =>
                      ~Null(p.budgets.total) /\ p.budgets.total \in Nat /\ p.budgets.total <= ceiling)
WithinGranted(p) ==
  \A max \in p.grant : IsLimit(max) /\ (Null(granted) \/ (~Null(max) /\ max <= granted))

Bounded ==
  /\ IsLimit(ceiling) /\ WithinCeiling(policy)
  /\ IsLimit(granted) /\ WithinGranted(policy)
  /\ \A r \in Reservers : WithinCeiling(proc[r].policy) /\ WithinGranted(proc[r].policy)

LEMMA LargerLimit ==
  ASSUME NEW a, NEW b, IsLimit(a), IsLimit(b)
  PROVE  /\ IsLimit(Larger(a, b))
         /\ ~Null(Larger(a, b)) =>
              /\ ~Null(a) /\ ~Null(b) /\ a \in Nat /\ b \in Nat
              /\ a <= Larger(a, b) /\ b <= Larger(a, b)
  BY DEF IsLimit, Null, Larger

LEMMA GrantOf ==
  ASSUME NEW p, p.grant \in Grants
  PROVE  \/ p.grant = {} /\ GrantedBy(p) = 0
         \/ p.grant = {GrantedBy(p)}
<1>1. CASE p.grant = {}
  BY <1>1 DEF GrantedBy
<1>2. ASSUME NEW max \in Bounds, p.grant = {max}
      PROVE  p.grant = {GrantedBy(p)}
  <2>1. GrantedBy(p) \in p.grant
    BY <1>2 DEF GrantedBy
  <2> QED BY <1>2, <2>1
<1> QED BY <1>1, <1>2 DEF Grants

(* The policy of a process that stopped limits and grants nothing.           *)
LEMMA StoppedBounds == WithinCeiling(Stopped.policy) /\ WithinGranted(Stopped.policy)
<1>1. Stopped.policy.grant = {} /\ Stopped.policy.budgets.versioned = FALSE
  BY DEF Stopped, LegacyBudgets
<1> QED BY <1>1 DEF WithinCeiling, WithinGranted

LEMMA BoundedInit == Init => Bounded
<1> SUFFICES ASSUME Init PROVE Bounded
  OBVIOUS
<1>1. /\ policy \in Policies /\ validate_standing_grants(policy.grant)
      /\ policy.budgets.versioned => ~policy_block_reason(policy)
      /\ ceiling = policy.budgets.total /\ granted = GrantedBy(policy)
  BY DEF Init
<1>2. IsLimit(ceiling) /\ WithinCeiling(policy)
  <2>1. CASE policy.budgets.versioned
    BY <1>1, <2>1 DEF policy_block_reason, validate_budgets, WithinCeiling, IsLimit
  <2>2. CASE ~policy.budgets.versioned
    <3>1. policy.budgets = LegacyBudgets
      BY <1>1, <2>2 DEF Policies, Budgets
    <3> QED BY <1>1, <3>1 DEF LegacyBudgets, IsLimit, Null, WithinCeiling
  <2> QED BY <2>1, <2>2
<1>3. IsLimit(granted) /\ WithinGranted(policy)
  <2>1. policy.grant \in Grants
    BY <1>1 DEF Policies
  <2> QED BY <1>1, <2>1, GrantOf DEF validate_standing_grants, WithinGranted, IsLimit, Null
<1>4. \A r \in Reservers : proc[r].policy = Stopped.policy
  BY DEF Init
<1> QED BY <1>2, <1>3, <1>4, StoppedBounds DEF Bounded

(* The limits only rise in what was ever in force.                          *)
LEMMA Rises ==
  ASSUME Bounded, NEW p, ceiling' = Larger(ceiling, p.budgets.total), IsLimit(p.budgets.total),
         granted' = Larger(granted, GrantedBy(p)), p.grant \in Grants, validate_standing_grants(p.grant)
  PROVE  /\ IsLimit(ceiling') /\ IsLimit(granted')
         /\ ~Null(ceiling') => ~Null(ceiling) /\ ceiling <= ceiling' /\ ceiling \in Nat /\ ceiling' \in Nat
         /\ ~Null(ceiling') => ~Null(p.budgets.total) /\ p.budgets.total \in Nat
                               /\ p.budgets.total <= ceiling'
         /\ ~Null(granted') => ~Null(granted) /\ granted <= granted' /\ granted \in Nat /\ granted' \in Nat
         /\ \A max \in p.grant : IsLimit(max) /\ (~Null(granted') => ~Null(max) /\ max <= granted')
<1>1. IsLimit(GrantedBy(p))
  BY GrantOf DEF validate_standing_grants, IsLimit
<1>2. IsLimit(ceiling) /\ IsLimit(granted)
  BY DEF Bounded
<1>3. IsLimit(ceiling') /\ IsLimit(granted')
  BY <1>1, <1>2, LargerLimit
<1>4. /\ ~Null(ceiling') => ~Null(ceiling) /\ ceiling <= ceiling' /\ ceiling \in Nat /\ ceiling' \in Nat
      /\ ~Null(ceiling') => ~Null(p.budgets.total) /\ p.budgets.total \in Nat
                            /\ p.budgets.total <= ceiling'
  BY <1>2, <1>3, LargerLimit DEF IsLimit
<1>5. ~Null(granted') => /\ ~Null(granted) /\ granted <= granted' /\ granted \in Nat /\ granted' \in Nat
                         /\ ~Null(GrantedBy(p)) /\ GrantedBy(p) <= granted'
  BY <1>1, <1>2, <1>3, LargerLimit DEF IsLimit
<1>6. \A max \in p.grant : max = GrantedBy(p)
  BY GrantOf
<1> QED BY <1>1, <1>3, <1>4, <1>5, <1>6

LEMMA AllRead ==
  ASSUME LimitInv, [Next]_vars
  PROVE  \A q \in Reservers : Reads(q)
<1>1. "engine" \in Reservers /\ proc \in [Reservers -> Process]
  BY DEF Reservers, LimitInv, LimitTypes
<1>2. ASSUME NEW place \in {"authorized", "consumed"}, Go("engine", place)
      PROVE  \A q \in Reservers : Reads(q)
  <2>1. place \in Places
    BY DEF Places
  <2>2. /\ proc'["engine"] = [proc["engine"] EXCEPT !.at = place]
        /\ \A q \in Reservers \ {"engine"} : proc'[q] = proc[q]
    BY <1>1, <1>2, <2>1, Moves
  <2>3. proc'["engine"].policy = proc["engine"].policy
    BY <1>1, <2>2 DEF Process
  <2> QED BY <2>2, <2>3 DEF Reads
<1>3. ASSUME Back("engine")
      PROVE  \A q \in Reservers : Reads(q)
  BY <1>1, <1>3, Turns DEF Turn
<1>4. CASE consume_recovery_effect \/ record_grant_effect_consumption \/ resolve_incident
  <2>1. Go("engine", "authorized") \/ Go("engine", "consumed") \/ Back("engine")
    BY <1>4 DEF consume_recovery_effect, record_grant_effect_consumption, resolve_incident
  <2> QED BY <1>2, <1>3, <2>1
<1>5. CASE Engine
  BY <1>4, <1>5, EngineTurns DEF Turn
<1>6. CASE (\E r \in Reservers : Reserver(r)) \/ prompt \/ PromptEnds \/ Operator
           \/ execution_elapsed_minutes \/ UNCHANGED vars
  BY <1>6, ReserverTurns, OthersTurn DEF Turn
<1> QED BY <1>5, <1>6 DEF Next

LEMMA BoundedRevise ==
  ASSUME LimitInv, Bounded, NEW p, Revise(p), IsLimit(p.budgets.total), p.grant \in Grants,
         validate_standing_grants(p.grant), p \in Holdable
  PROVE  Bounded'
<1>1. /\ policy' = [p EXCEPT !.revision = policy.revision + 1] /\ UNCHANGED proc
      /\ ceiling' = Larger(ceiling, p.budgets.total) /\ granted' = Larger(granted, GrantedBy(p))
  BY DEF Revise
<1>2. policy'.budgets = p.budgets /\ policy'.grant = p.grant
  BY <1>1 DEF Holdable
<1>3. /\ IsLimit(ceiling') /\ IsLimit(granted')
      /\ ~Null(ceiling') => ~Null(ceiling) /\ ceiling <= ceiling' /\ ceiling \in Nat /\ ceiling' \in Nat
      /\ ~Null(ceiling') => ~Null(p.budgets.total) /\ p.budgets.total \in Nat
                            /\ p.budgets.total <= ceiling'
      /\ ~Null(granted') => ~Null(granted) /\ granted <= granted' /\ granted \in Nat /\ granted' \in Nat
      /\ \A max \in p.grant : IsLimit(max) /\ (~Null(granted') => ~Null(max) /\ max <= granted')
  BY <1>1, Rises
<1>4. WithinCeiling(policy)' /\ WithinGranted(policy)'
  BY <1>2, <1>3 DEF WithinCeiling, WithinGranted
<1>5. ASSUME NEW r \in Reservers
      PROVE  WithinCeiling(proc[r].policy)'
  <2>1. WithinCeiling(proc[r].policy)
    BY DEF Bounded
  <2> QED BY <1>1, <1>3, <2>1 DEF WithinCeiling
<1>6. ASSUME NEW r \in Reservers
      PROVE  WithinGranted(proc[r].policy)'
  <2>1. WithinGranted(proc[r].policy)
    BY DEF Bounded
  <2>2. ASSUME NEW max \in proc[r].policy.grant
        PROVE  IsLimit(max) /\ (Null(granted') \/ (~Null(max) /\ max <= granted'))
    <3>1. IsLimit(max) /\ (Null(granted) \/ (~Null(max) /\ max <= granted))
      BY <2>1, <2>2 DEF WithinGranted
    <3>2. ~Null(max) => max \in Nat
      BY <3>1 DEF IsLimit
    <3> QED BY <1>3, <3>1, <3>2
  <2> QED BY <1>1, <2>2 DEF WithinGranted
<1> QED BY <1>3, <1>4, <1>5, <1>6 DEF Bounded

LEMMA BoundedStep ==
  ASSUME LimitInv, Bounded, [Next]_vars
  PROVE  Bounded'
<1>1. CASE UNCHANGED <<policy, ceiling, granted>>
  <2>1. \A p : /\ WithinCeiling(p) => WithinCeiling(p)'
               /\ WithinGranted(p) => WithinGranted(p)'
    BY <1>1 DEF WithinCeiling, WithinGranted
  <2>2. ASSUME NEW r \in Reservers
        PROVE  WithinCeiling(proc[r].policy)' /\ WithinGranted(proc[r].policy)'
    <3>1. proc'[r].policy \in {proc[r].policy, policy, Stopped.policy}
      BY AllRead DEF Reads
    <3>2. WithinCeiling(proc'[r].policy) /\ WithinGranted(proc'[r].policy)
      BY <3>1, StoppedBounds DEF Bounded
    <3> QED BY <1>1, <3>2 DEF WithinCeiling, WithinGranted
  <2>3. WithinCeiling(policy)' /\ WithinGranted(policy)'
    BY <1>1 DEF Bounded, WithinCeiling, WithinGranted
  <2> QED BY <1>1, <2>2, <2>3 DEF Bounded
<1>2. policy \in Holdable
  BY DEF LimitInv, LimitTypes
<1>3. CASE operator_budget_increase
  <2>1. PICK b \in Budgets, limit \in Deadlines :
          validate_budgets(b) /\ Revise([policy EXCEPT !.budgets = b, !.deadline = limit])
    BY <1>3 DEF operator_budget_increase
  <2> DEFINE p == [policy EXCEPT !.budgets = b, !.deadline = limit]
  <2>2. p \in Holdable /\ p.budgets = b /\ p.grant = policy.grant
    BY <1>2 DEF Holdable
  <2>3. IsLimit(p.budgets.total)
    BY <2>1, <2>2 DEF validate_budgets
  <2>4. p.grant \in Grants /\ validate_standing_grants(p.grant)
    BY <1>2, <2>2 DEF Holdable, Bounded, WithinGranted, validate_standing_grants
  <2> QED BY <2>1, <2>2, <2>3, <2>4, BoundedRevise
<1>4. CASE operator_standing_grant_revision
  <2>1. PICK grant \in Grants :
          validate_standing_grants(grant) /\ Revise([policy EXCEPT !.grant = grant])
    BY <1>4 DEF operator_standing_grant_revision
  <2> DEFINE p == [policy EXCEPT !.grant = grant]
  <2>2. p \in Holdable /\ p.budgets = policy.budgets /\ p.grant = grant
    BY <1>2 DEF Holdable
  <2>3. IsLimit(policy.budgets.total)
    BY <1>4 DEF operator_standing_grant_revision, policy_block_reason, validate_budgets
  <2> QED BY <2>1, <2>2, <2>3, BoundedRevise
<1> QED BY <1>1, <1>3, <1>4, PolicySteps

(* No step lowers the highest limit or the highest bound.                   *)
LEMMA HighestRise ==
  ASSUME LimitInv, Bounded, [Next]_vars
  PROVE  /\ IsLimit(ceiling') /\ IsLimit(granted')
         /\ ~Null(ceiling') => ~Null(ceiling) /\ ceiling \in Nat /\ ceiling' \in Nat /\ ceiling <= ceiling'
         /\ ~Null(granted') => ~Null(granted) /\ granted \in Nat /\ granted' \in Nat /\ granted <= granted'
<1>1. policy \in Holdable /\ IsLimit(ceiling) /\ IsLimit(granted)
  BY DEF LimitInv, LimitTypes, Bounded
<1>2. CASE UNCHANGED <<policy, ceiling, granted>>
  BY <1>1, <1>2 DEF IsLimit, Null
<1>3. CASE operator_budget_increase
  <2>1. PICK b \in Budgets, limit \in Deadlines :
          validate_budgets(b) /\ Revise([policy EXCEPT !.budgets = b, !.deadline = limit])
    BY <1>3 DEF operator_budget_increase
  <2> DEFINE p == [policy EXCEPT !.budgets = b, !.deadline = limit]
  <2>2. p.budgets = b /\ p.grant = policy.grant /\ p.grant \in Grants
    BY <1>1 DEF Holdable
  <2>3. IsLimit(p.budgets.total) /\ validate_standing_grants(p.grant)
    BY <2>1, <2>2 DEF validate_budgets, Bounded, WithinGranted, validate_standing_grants
  <2> QED BY <2>1, <2>2, <2>3, Rises DEF Revise
<1>4. CASE operator_standing_grant_revision
  <2>1. PICK grant \in Grants :
          validate_standing_grants(grant) /\ Revise([policy EXCEPT !.grant = grant])
    BY <1>4 DEF operator_standing_grant_revision
  <2> DEFINE p == [policy EXCEPT !.grant = grant]
  <2>2. p.budgets = policy.budgets /\ p.grant = grant
    BY <1>1 DEF Holdable
  <2>3. IsLimit(p.budgets.total)
    BY <1>4, <2>2 DEF operator_standing_grant_revision, policy_block_reason, validate_budgets
  <2> QED BY <2>1, <2>2, <2>3, Rises DEF Revise
<1> QED BY <1>2, <1>3, <1>4, PolicySteps

-----------------------------------------------------------------------------
(* The grant.  Between the decision and its record less is used than was     *)
(* granted; between the record and the resumption more is used than was     *)
(* resumed on.                                                              *)
GrantInv ==
  /\ Null(granted) \/ used <= granted
  /\ At("engine", "authorized") => Null(granted) \/ used < granted
  /\ resumed <= used
  /\ At("engine", "consumed") => resumed < used

LEMMA GrantInit == Init => GrantInv
<1> SUFFICES ASSUME Init PROVE GrantInv
  OBVIOUS
<1>1. ~At("engine", "authorized") /\ ~At("engine", "consumed") /\ resumed = 0 /\ used \in Nat
  BY BoundsAssumption DEF Init, At, Reservers, Stopped
<1>2. Null(granted) \/ used <= granted
  <2>1. policy.grant \in Grants /\ granted = GrantedBy(policy)
        /\ (evaluate_standing_grant(policy, used - 1) \/ used = 0)
    BY DEF Init, Policies
  <2>2. IsLimit(granted)
    BY BoundedInit DEF Bounded
  <2>3. CASE used = 0
    BY <2>2, <2>3 DEF IsLimit
  <2>4. CASE evaluate_standing_grant(policy, used - 1)
    <3>1. Null(granted) \/ used - 1 < granted
      BY <2>1, <2>4, GrantOf DEF evaluate_standing_grant
    <3> QED BY <1>1, <2>2, <3>1 DEF IsLimit
  <2> QED BY <2>1, <2>3, <2>4
<1> QED BY <1>1, <1>2 DEF GrantInv

LEMMA GrantStep ==
  ASSUME LimitInv, Bounded, GrantInv, [Next]_vars
  PROVE  GrantInv'
<1> DEFINE e == "engine"
<1>1. /\ e \in Reservers /\ used \in Nat /\ resumed \in Nat /\ IsLimit(granted)
      /\ proc \in [Reservers -> Process]
  BY DEF Reservers, LimitInv, LimitTypes, Bounded
<1>2. /\ IsLimit(granted')
      /\ ~Null(granted') => ~Null(granted) /\ granted \in Nat /\ granted' \in Nat /\ granted <= granted'
  BY HighestRise
<1>3. ASSUME Turn, UNCHANGED <<used, resumed>>
      PROVE  GrantInv'
  <2>1. /\ proc'[e].at = "authorized" => At(e, "authorized")
        /\ proc'[e].at = "consumed" => At(e, "consumed")
    BY <1>1, <1>3 DEF Turn, At
  <2> QED BY <1>1, <1>2, <1>3, <2>1 DEF GrantInv, At, Null
<1>4. ASSUME NEW place \in {"authorized", "consumed"}, Go(e, place)
      PROVE  proc'[e].at = place
  <2>1. place \in Places
    BY DEF Places
  <2>2. proc'[e] = [proc[e] EXCEPT !.at = place]
    BY <1>1, <1>4, <2>1, Moves
  <2> QED BY <1>1, <2>2 DEF Process
<1>5. CASE consume_recovery_effect
  <2>1. UNCHANGED <<used, resumed, granted>>
    BY <1>5 DEF consume_recovery_effect, Counts, history
  <2>2. CASE Back(e)
    BY <1>1, <1>3, <2>1, <2>2, Turns
  <2>3. CASE Go(e, "authorized") /\ evaluate_standing_grant(proc[e].policy, used)
    <3>1. Null(granted) \/ used < granted
      <4>1. PICK max \in proc[e].policy.grant : Null(max) \/ used < max
        BY <2>3 DEF evaluate_standing_grant
      <4>2. IsLimit(max) /\ (Null(granted) \/ (~Null(max) /\ max <= granted))
        BY <1>1 DEF Bounded, WithinGranted
      <4> QED BY <1>1, <4>1, <4>2 DEF IsLimit
    <3>2. proc'[e].at = "authorized"
      BY <1>4, <2>3
    <3> QED BY <2>1, <3>1, <3>2 DEF GrantInv, At, Null
  <2> QED BY <1>5, <2>2, <2>3 DEF consume_recovery_effect
<1>6. CASE record_grant_effect_consumption
  <2>1. used' = used + 1 /\ UNCHANGED <<resumed, granted>> /\ At(e, "authorized") /\ Go(e, "consumed")
    BY <1>6 DEF record_grant_effect_consumption, history
  <2>2. proc'[e].at = "consumed"
    BY <1>4, <2>1
  <2> QED BY <1>1, <2>1, <2>2 DEF GrantInv, At, Null, IsLimit
<1>7. CASE resolve_incident
  <2>1. resumed' = resumed + 1 /\ UNCHANGED <<used, granted>> /\ At(e, "consumed") /\ Back(e)
    BY <1>7 DEF resolve_incident, Counts
  <2>2. proc'[e] = [Stopped EXCEPT !.at = "open", !.policy = proc[e].policy]
    BY <1>1, <2>1, Moves
  <2>3. proc'[e].at = "open"
    BY <2>2, StoppedType DEF Process
  <2> QED BY <1>1, <2>1, <2>3 DEF GrantInv, At, Null
<1>8. CASE Engine
  BY <1>3, <1>5, <1>6, <1>7, <1>8, EngineTurns
<1>9. CASE (\E r \in Reservers : Reserver(r)) \/ prompt \/ PromptEnds \/ Operator
           \/ execution_elapsed_minutes \/ UNCHANGED vars
  BY <1>3, <1>9, ReserverTurns, OthersTurn
<1> QED BY <1>8, <1>9 DEF Next

(* For any grants and any number of repairs: every resumption was paid for,  *)
(* and no more than the most that was ever granted.                         *)
THEOREM ResumptionsPaid == Spec => []GrantBounded
<1> DEFINE Inv == LimitInv /\ Bounded /\ GrantInv
<1>1. Init => Inv
  BY LimitInit, BoundedInit, GrantInit
<1>2. Inv /\ [Next]_vars => Inv'
  BY AnyStep, BoundedStep, GrantStep
<1>3. Inv => GrantBounded
  BY DEF GrantInv, GrantBounded
<1> HIDE DEF Inv
<1> QED BY <1>1, <1>2, <1>3, PTL DEF Spec

-----------------------------------------------------------------------------
(* The charges.                                                             *)
Excess(a) ==
  IF a.entry = "reconciled" /\ a.observed > a.estimate THEN a.observed - a.estimate ELSE 0

ChargeOf(acts) == Sum([k \in Ids |-> reservation_charge(acts[k])])
ExcessOf(acts) == Sum([k \in Ids |-> Excess(acts[k])])

LEMMA AmountTypes == Estimates \cup {0} \subseteq Nat /\ Costs \cup {0} \subseteq Nat
  BY AmountsAssumption

LEMMA ChargeType ==
  ASSUME NEW a \in Action
  PROVE  reservation_charge(a) \in Nat /\ Excess(a) \in Nat
<1>1. a.estimate \in Nat /\ a.observed \in Nat
  <2>1. a.estimate \in Estimates \cup {0} /\ a.observed \in Costs \cup {0}
    BY DEF Action
  <2> QED BY <2>1, AmountTypes
<1> QED BY <1>1 DEF reservation_charge, Excess

LEMMA IdsFinite == IsFiniteSet(Ids)
  BY FS_Interval, BoundsAssumption DEF Ids

LEMMA SumTypes ==
  ASSUME NEW acts \in [Ids -> Action]
  PROVE  ChargeOf(acts) \in Nat /\ ExcessOf(acts) \in Nat
<1>1. /\ [k \in Ids |-> reservation_charge(acts[k])] \in [Ids -> Nat]
      /\ [k \in Ids |-> Excess(acts[k])] \in [Ids -> Nat]
  BY ChargeType
<1> QED BY <1>1, IdsFinite, SumNat DEF ChargeOf, ExcessOf

(* Another action at one place.                                             *)
LEMMA OneCharge ==
  ASSUME NEW acts \in [Ids -> Action], NEW new \in [Ids -> Action], NEW k \in Ids,
         \A i \in Ids \ {k} : new[i] = acts[i]
  PROVE  /\ ChargeOf(new) = ChargeOf(acts) + reservation_charge(new[k]) - reservation_charge(acts[k])
         /\ ExcessOf(new) = ExcessOf(acts) + Excess(new[k]) - Excess(acts[k])
<1> DEFINE c == [i \in Ids |-> reservation_charge(acts[i])]
           d == [i \in Ids |-> reservation_charge(new[i])]
           x == [i \in Ids |-> Excess(acts[i])]
           y == [i \in Ids |-> Excess(new[i])]
<1>1. c \in [Ids -> Int] /\ d \in [Ids -> Int] /\ x \in [Ids -> Int] /\ y \in [Ids -> Int]
  BY ChargeType
<1>2. \A i \in Ids \ {k} : d[i] = c[i] /\ y[i] = x[i]
  OBVIOUS
<1>3. /\ c[k] = reservation_charge(acts[k]) /\ d[k] = reservation_charge(new[k])
      /\ x[k] = Excess(acts[k]) /\ y[k] = Excess(new[k])
  OBVIOUS
<1>4. /\ ChargeOf(acts) = Sum(c) /\ ChargeOf(new) = Sum(d)
      /\ ExcessOf(acts) = Sum(x) /\ ExcessOf(new) = Sum(y)
  BY DEF ChargeOf, ExcessOf
<1> HIDE DEF c, d, x, y
<1>5. Sum(d) = Sum(c) + d[k] - c[k]
  BY <1>1, <1>2, IdsFinite, SumAdds
<1>6. Sum(y) = Sum(x) + y[k] - x[k]
  BY <1>1, <1>2, IdsFinite, SumAdds
<1> QED BY <1>3, <1>4, <1>5, <1>6

LEMMA QuietSums ==
  ASSUME LimitInv, LimitInv', Quiet
  PROVE  ChargeOf(actions') = ChargeOf(actions) /\ ExcessOf(actions') = ExcessOf(actions)
<1>1. ASSUME NEW k \in Ids
      PROVE  /\ reservation_charge(actions'[k]) = reservation_charge(actions[k])
             /\ Excess(actions'[k]) = Excess(actions[k])
  <2>1. Carried(actions[k], actions'[k]) /\ NoAction.entry = "none"
    BY DEF Quiet, NoAction
  <2> QED BY <2>1 DEF Carried, reservation_charge, Excess
<1>2. /\ [k \in Ids |-> reservation_charge(actions'[k])] = [k \in Ids |-> reservation_charge(actions[k])]
      /\ [k \in Ids |-> Excess(actions'[k])] = [k \in Ids |-> Excess(actions[k])]
  BY <1>1
<1> QED BY <1>2 DEF ChargeOf, ExcessOf

(* The estimates have a largest.                                            *)
LEMMA MaxEstimateType ==
  ASSUME IsFiniteSet(Estimates), Estimates # {}
  PROVE  MaxEstimate \in Nat /\ \A e \in Estimates \cup {0} : e \in Nat /\ e <= MaxEstimate
<1>1. \E m \in Estimates : \A e \in Estimates : e <= m
  BY LargestOf, AmountsAssumption
<1>2. MaxEstimate \in Estimates /\ \A e \in Estimates : e <= MaxEstimate
  BY <1>1 DEF MaxEstimate
<1> QED BY <1>2, AmountsAssumption

(* What was checked but is not reserved yet.                                *)
Waiting(r) == IF At(r, "checked") THEN Own(r).estimate ELSE 0

(* The charges, with what is about to be charged, are one estimate at most   *)
(* beyond the highest limit: of two that were checked, the one checked last  *)
(* was within it.                                                           *)
SpentInv ==
  Null(ceiling) \/ consumption_for_job + Waiting("engine") + Waiting("service")
                     <= ceiling + MaxEstimate + Overruns

LEMMA WaitingType ==
  ASSUME LimitInv, IsFiniteSet(Estimates), Estimates # {}, NEW r \in Reservers
  PROVE  Waiting(r) \in Nat /\ Waiting(r) <= MaxEstimate
<1>1. CASE At(r, "checked")
  <2>1. Own(r) \in Action
    BY <1>1, OwnSame DEF At, Holding
  <2>2. Own(r).estimate \in Estimates \cup {0}
    BY <2>1 DEF Action
  <2> QED BY <1>1, <2>2, MaxEstimateType DEF Waiting
<1>2. CASE ~At(r, "checked")
  BY <1>2, MaxEstimateType DEF Waiting
<1> QED BY <1>1, <1>2

(* A process that stands still keeps what it waits for.                     *)
LEMMA OtherWaits ==
  ASSUME LimitInv, NEW r \in Reservers, NEW q \in Reservers \ {r},
         proc[r].at \in Holding, proc'[q] = proc[q], NEW a, Put(r, a)
  PROVE  Waiting(q)' = Waiting(q)
<1>1. proc[r].act \in Ids /\ Own(r).by = r /\ actions \in [Ids -> Action]
  BY BoundsAssumption DEF LimitInv, LimitTypes, OwnActions, Ids
<1>2. CASE At(q, "checked")
  <2>1. Own(q).by = q /\ proc[q].act \in Ids
    BY <1>2, BoundsAssumption DEF LimitInv, LimitTypes, OwnActions, Ids, At, Holding
  <2>2. proc[q].act # proc[r].act
    BY <1>1, <2>1 DEF Own
  <2>3. actions'[proc[q].act] = actions[proc[q].act]
    BY <1>1, <2>1, <2>2 DEF Put
  <2> QED BY <2>3 DEF Waiting, Own, At
<1>3. CASE ~At(q, "checked")
  BY <1>3 DEF Waiting, At
<1> QED BY <1>2, <1>3

LEMMA SpentInit ==
  ASSUME Init, IsFiniteSet(Estimates), Estimates # {}
  PROVE  SpentInv
<1>1. LimitInv /\ IsLimit(ceiling)
  BY LimitInit, BoundedInit DEF Bounded
<1>2. consumption_for_job = 0 /\ Overruns \in Nat
  <2>1. ChargeOf(actions) = 0
    <3> DEFINE none == [k \in Ids |-> 0]
    <3>1. [k \in Ids |-> reservation_charge(actions[k])] = none
      BY DEF Init, NoAction, reservation_charge
    <3>2. Sum(none) = 0
      <4> DEFINE p == Partial(none, Ids)
                 T == {s \in SUBSET Ids : p[s] = 0}
      <4>1. IsPartial(none, Ids, p) /\ Sum(none) = p[Ids]
        BY IdsFinite, PartialSums, SumIsPartial
      <4> HIDE DEF p
      <4>2. \A s \in SUBSET Ids : p[s] = Part(none, s, p)
        BY <4>1 DEF IsPartial
      <4>3. {} \in T
        <5>1. p[{}] = 0
          BY <4>2 DEF Part
        <5> QED BY <5>1
      <4>4. ASSUME NEW s \in SUBSET Ids, s # {}, s \ {Some(s)} \in T
            PROVE  s \in T
        <5>1. Some(s) \in Ids
          BY <4>4 DEF Some
        <5>2. p[s] = none[Some(s)] + p[s \ {Some(s)}]
          BY <4>2, <4>4 DEF Part
        <5> QED BY <5>1, <5>2, <4>4
      <4> HIDE DEF T
      <4>5. Ids \in T
        BY <4>3, <4>4, IdsFinite, FiniteSetInduction
      <4> QED BY <4>1, <4>5 DEF T
    <3> HIDE DEF none
    <3> QED BY <3>1, <3>2 DEF ChargeOf
  <2>2. consumption_for_job = ChargeOf(actions) /\ Overruns = ExcessOf(actions)
    BY DEF consumption_for_job, ChargeOf, Overruns, ExcessOf, Excess
  <2> QED BY <1>1, <2>1, <2>2, SumTypes DEF LimitInv, LimitTypes
<1>3. Waiting("engine") = 0 /\ Waiting("service") = 0
  BY DEF Init, Waiting, At, Reservers, Stopped
<1> QED BY <1>1, <1>2, <1>3, MaxEstimateType DEF SpentInv, IsLimit

LEMMA SpentStep ==
  ASSUME LimitInv, Bounded, SpentInv, [Next]_vars, IsFiniteSet(Estimates), Estimates # {}
  PROVE  SpentInv'
<1> DEFINE C == ChargeOf(actions)
           X == ExcessOf(actions)
           D == ChargeOf(actions')
           Y == ExcessOf(actions')
<1>1. /\ consumption_for_job = C /\ Overruns = X
      /\ consumption_for_job' = D /\ Overruns' = Y
  BY DEF consumption_for_job, ChargeOf, Overruns, ExcessOf, Excess
<1>2. LimitInv' /\ (Calm \/ \E r \in Reservers : Passed(r) \/ Charged(r) \/ Observed(r))
  BY AnyStep
<1>3. /\ actions \in [Ids -> Action] /\ actions' \in [Ids -> Action]
      /\ C \in Nat /\ X \in Nat /\ D \in Nat /\ Y \in Nat
  BY <1>2, SumTypes DEF LimitInv, LimitTypes
<1>4. MaxEstimate \in Nat /\ \A r \in Reservers : Waiting(r) \in Nat /\ Waiting(r) <= MaxEstimate
  BY WaitingType, MaxEstimateType
<1>5. \A r \in Reservers : Waiting(r)' \in Nat /\ Waiting(r)' <= MaxEstimate
  <2>1. ASSUME NEW r \in Reservers, At(r, "checked")'
        PROVE  Waiting(r)' \in Nat /\ Waiting(r)' <= MaxEstimate
    <3>1. proc'[r].act \in Ids
      BY <1>2, <2>1, BoundsAssumption DEF LimitInv, LimitTypes, OwnActions, Ids, At, Holding
    <3>2. actions'[proc'[r].act].estimate \in Estimates \cup {0}
      BY <1>3, <3>1 DEF Action
    <3> QED BY <2>1, <3>2, MaxEstimateType DEF Waiting, Own
  <2>2. ASSUME NEW r \in Reservers, ~At(r, "checked")'
        PROVE  Waiting(r)' \in Nat /\ Waiting(r)' <= MaxEstimate
    BY <1>4, <2>2 DEF Waiting
  <2> QED BY <2>1, <2>2
<1>6. ~Null(ceiling') => ~Null(ceiling) /\ ceiling \in Nat /\ ceiling' \in Nat /\ ceiling <= ceiling'
  BY HighestRise
<1> HIDE DEF C, X, D, Y
<1>7. CASE Calm
  <2>1. D = C /\ Y = X
    BY <1>2, <1>7, QuietSums DEF Calm, C, X, D, Y
  <2>2. ASSUME NEW r \in Reservers
        PROVE  Waiting(r)' <= Waiting(r)
    <3>1. CASE proc'[r].at = "checked"
      <4>1. At(r, "checked") /\ proc'[r].act = proc[r].act
        BY <1>7, <3>1 DEF Calm
      <4>2. proc[r].act \in Ids /\ Own(r).state = "intent"
        BY <4>1, BoundsAssumption DEF LimitInv, LimitTypes, OwnActions, Ids, At, Holding
      <4>3. actions'[proc[r].act].estimate = Own(r).estimate
        BY <1>7, <4>2 DEF Calm, Quiet, Carried, Own, NoAction
      <4> QED BY <1>4, <3>1, <4>1, <4>3 DEF Waiting, At, Own
    <3>2. CASE proc'[r].at # "checked"
      BY <1>4, <3>2 DEF Waiting, At
    <3> QED BY <3>1, <3>2
  <2> QED BY <1>1, <1>3, <1>4, <1>5, <1>6, <2>1, <2>2 DEF SpentInv, Reservers, Null
<1>8. ASSUME NEW r \in Reservers, Passed(r)
      PROVE  SpentInv'
  <2>1. UNCHANGED <<actions, ceiling>> /\ D = C /\ Y = X
    BY <1>8 DEF Passed, C, D, X, Y
  <2>2. Null(ceiling) \/ C + Waiting(r)' <= ceiling
    <3>1. /\ proc'[r].at = "checked" /\ proc'[r].act = proc[r].act
          /\ validate_budgets(proc[r].policy.budgets)
          /\ check_total(proc[r].policy.budgets, Own(r).estimate)
      BY <1>8 DEF Passed, policy_block_reason
    <3>2. Waiting(r)' = Own(r).estimate
      BY <2>1, <3>1 DEF Waiting, At, Own
    <3>3. WithinCeiling(proc[r].policy)
      BY DEF Bounded
    <3>4. CASE ~Null(ceiling)
      <4>1. /\ ~Null(proc[r].policy.budgets.total) /\ proc[r].policy.budgets.total \in Nat
            /\ proc[r].policy.budgets.total <= ceiling
        BY <3>1, <3>3, <3>4 DEF WithinCeiling, validate_budgets
      <4>2. C + Own(r).estimate <= proc[r].policy.budgets.total
        BY <1>1, <3>1, <4>1 DEF check_total
      <4>3. ceiling \in Nat
        BY <3>4 DEF Bounded, IsLimit
      <4> QED BY <1>3, <1>5, <3>2, <4>1, <4>2, <4>3
    <3> QED BY <3>4
  <2> QED BY <1>1, <1>3, <1>4, <1>5, <1>6, <2>1, <2>2 DEF SpentInv, Reservers, Null
<1>9. ASSUME NEW r \in Reservers, Charged(r) \/ Observed(r)
      PROVE  SpentInv'
  <2>1. /\ proc[r].at \in Holding
        /\ \A q \in Reservers \ {r} : proc'[q] = proc[q]
        /\ \E a : Put(r, a)
    BY <1>9 DEF Charged, Observed, At, Holding
  <2>2. \A q \in Reservers \ {r} : Waiting(q)' = Waiting(q)
    BY <2>1, OtherWaits
  <2>3. proc[r].act \in Ids /\ Own(r) \in Action
    BY <2>1, BoundsAssumption DEF LimitInv, LimitTypes, OwnActions, Ids, Own
  <2>4. Waiting(r)' = 0
    <3>1. proc'[r].at \in {"reserved", "settled"}
      BY <1>9 DEF Charged, Observed
    <3> QED BY <3>1 DEF Waiting, At
  <2>5. ASSUME NEW a, Put(r, a)
        PROVE  /\ D = C + reservation_charge(a) - reservation_charge(Own(r))
               /\ Y = X + Excess(a) - Excess(Own(r))
    <3>1. actions'[proc[r].act] = a /\ \A k \in Ids \ {proc[r].act} : actions'[k] = actions[k]
      BY <1>3, <2>3, <2>5 DEF Put
    <3> QED BY <1>3, <2>3, <3>1, OneCharge DEF C, D, X, Y, Own
  <2>6. D + Waiting(r)' <= C + Waiting(r) + (Y - X)
    <3>1. Own(r).estimate \in Nat /\ Own(r).observed \in Nat
      <4>1. Own(r).estimate \in Estimates \cup {0} /\ Own(r).observed \in Costs \cup {0}
        BY <2>3 DEF Action
      <4> QED BY <4>1, AmountTypes
    <3>2. CASE Charged(r)
      <4> DEFINE a == [Own(r) EXCEPT !.entry = "reserved"]
      <4>1. a.entry = "reserved" /\ a.estimate = Own(r).estimate
        BY <2>3 DEF Action
      <4>2. reservation_charge(a) = Own(r).estimate /\ Excess(a) = 0
        BY <4>1 DEF reservation_charge, Excess
      <4>3. reservation_charge(Own(r)) = 0 /\ Excess(Own(r)) = 0
        BY <3>2 DEF Charged, reservation_charge, Excess
      <4>4. Put(r, a) /\ Waiting(r) = Own(r).estimate
        BY <3>2 DEF Charged, Waiting
      <4> HIDE DEF a
      <4>5. D = C + Own(r).estimate - 0 /\ Y = X + 0 - 0
        BY <2>5, <4>2, <4>3, <4>4
      <4> QED BY <1>3, <2>4, <3>1, <4>4, <4>5
    <3>3. CASE Observed(r)
      <4>1. PICK cost \in Costs : Put(r, [Own(r) EXCEPT !.entry = "reconciled", !.observed = cost])
        BY <3>3 DEF Observed
      <4> DEFINE a == [Own(r) EXCEPT !.entry = "reconciled", !.observed = cost]
      <4>2. a.entry = "reconciled" /\ a.estimate = Own(r).estimate /\ a.observed = cost /\ cost \in Nat
        BY <2>3, AmountsAssumption DEF Action
      <4>3. reservation_charge(a) = cost
            /\ Excess(a) = IF cost > Own(r).estimate THEN cost - Own(r).estimate ELSE 0
        BY <4>2 DEF reservation_charge, Excess
      <4>4. reservation_charge(Own(r)) = Own(r).estimate /\ Excess(Own(r)) = 0
        BY <3>3 DEF Observed, reservation_charge, Excess
      <4>5. Waiting(r) = 0
        BY <3>3 DEF Observed, Waiting, At
      <4> HIDE DEF a
      <4>6. /\ D = C + cost - Own(r).estimate
            /\ Y = X + (IF cost > Own(r).estimate THEN cost - Own(r).estimate ELSE 0) - 0
        BY <2>5, <4>1, <4>3, <4>4 DEF a
      <4> QED BY <1>3, <2>4, <3>1, <4>2, <4>5, <4>6
    <3> QED BY <1>9, <3>2, <3>3
  <2>7. \/ r = "engine" /\ Waiting("service")' = Waiting("service")
        \/ r = "service" /\ Waiting("engine")' = Waiting("engine")
    BY <2>2 DEF Reservers
  <2> QED BY <1>1, <1>3, <1>4, <1>5, <1>6, <2>4, <2>6, <2>7 DEF SpentInv, Reservers, Null
<1> QED BY <1>2, <1>7, <1>8, <1>9

(* For any limits and any finite set of estimates, whatever the order of the *)
(* checks and the reservations and whatever is never accounted for: the      *)
(* charges exceed the highest limit by one estimate and the overruns.        *)
THEOREM OvershootBounded ==
  ASSUME IsFiniteSet(Estimates), Estimates # {}
  PROVE  Spec => []BoundedOvershoot
<1> DEFINE Inv == LimitInv /\ Bounded /\ SpentInv
<1>1. Init => Inv
  BY LimitInit, BoundedInit, SpentInit
<1>2. Inv /\ [Next]_vars => Inv'
  BY AnyStep, BoundedStep, SpentStep
<1>3. Inv => BoundedOvershoot
  <2> SUFFICES ASSUME LimitInv, Bounded, SpentInv
               PROVE  BoundedOvershoot
    OBVIOUS
  <2>1. consumption_for_job \in Nat /\ Overruns \in Nat
    BY SumTypes DEF LimitInv, LimitTypes, consumption_for_job, ChargeOf, Overruns, ExcessOf, Excess
  <2>2. /\ Waiting("engine") \in Nat /\ Waiting("service") \in Nat /\ MaxEstimate \in Nat
        /\ Null(ceiling) \/ ceiling \in Nat
    BY WaitingType, MaxEstimateType DEF Reservers, Bounded, IsLimit
  <2> QED BY <2>1, <2>2 DEF SpentInv, BoundedOvershoot
<1> HIDE DEF Inv
<1> QED BY <1>1, <1>2, <1>3, PTL DEF Spec

===============================================================================
