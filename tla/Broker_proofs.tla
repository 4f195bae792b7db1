---------------------------- MODULE Broker_proofs ----------------------------
(***************************************************************************)
(* Proofs about Broker for any changes, gates, revisions and requests.      *)
(***************************************************************************)
EXTENDS BrokerProperties, TLAPS

Visiting == engine \in {"visit", "authority", "fresh", "begin", "create", "work"}
InRun == engine \notin {"off", "load"}

-----------------------------------------------------------------------------
(* Types, and what is archived.                                             *)

(* The engine only visits a change that has stages left, it knows which     *)
(* changes the repository has archived, and it drives what has a directory. *)
RunInv ==
  /\ Visiting => cur \in Changes \ archived /\ mem[cur].done < Stages
  /\ InRun => \A c \in archived : mem[c].done = Stages
  /\ engine = "work" => change_authored(cur)

TypeInv == TypeOK /\ RunInv

LEMMA NewRecordType == NewRecord \in Record
  BY StagesAssumption, CreateAssumption DEF NewRecord, Record

LEMMA NoneType == None \in [Changes -> Record]
  BY NewRecordType DEF None

(* A projection of well-typed records is well typed.                        *)
LEMMA ProjectedType ==
  ASSUME NEW s \in [Changes -> Record]
  PROVE  Projected(s) \in [Changes -> Record]
<1>1. ASSUME NEW c \in Changes
      PROVE  [s[c] EXCEPT !.accepted = s[c].accepted \/ Current(c, "acceptance") # {}] \in Record
  <2>1. s[c] \in Record /\ (s[c].accepted \/ Current(c, "acceptance") # {}) \in BOOLEAN
    BY <1>1 DEF Record
  <2> QED BY <2>1 DEF Record
<1> QED BY <1>1, NewRecordType DEF Projected

(* What is saved is well typed.                                             *)
LEMMA SavedType ==
  ASSUME TypeOK, NEW m \in [Changes -> Record], Save(m)
  PROVE  {json', mem'} \subseteq [Changes -> Record] /\ forgotten' \subseteq Changes
  BY DEF Save, TypeOK

LEMMA SavedProjectedType ==
  ASSUME TypeOK, NEW m \in [Changes -> Record], SaveProjected(m)
  PROVE  json' \in [Changes -> Record] /\ forgotten' \subseteq Changes
  BY ProjectedType DEF SaveProjected, TypeOK

(* Added receipts, and the newest kinds after them, are well typed.         *)
LEMMA ReceiptsType ==
  ASSUME TypeOK, NEW k \in Kinds, NEW S \in SUBSET Changes, NEW b \in {"operator", "service"},
         Receipts(k, S, b)
  PROVE  /\ receipts' \subseteq Receipt /\ receipts \subseteq receipts'
         /\ newest' \in [Changes -> Kinds \cup {"none"}] /\ revision' = revision
<1>1. [kind : {k}, change : S, by : {b}, rev : {revision}] \subseteq Receipt
  BY DEF TypeOK, Receipt
<1> QED BY <1>1 DEF Receipts, TypeOK

(* A recorded request leaves the copies of the state alone.                 *)
LEMMA RecordedType ==
  ASSUME TypeOK, NEW k \in Kinds, NEW S \in SUBSET Changes, NEW b \in {"operator", "service"},
         Recorded(k, S, b),
         cli' \in {"idle", "loaded", "asked", "answered"}
  PROVE  TypeOK'
  BY ReceiptsType DEF Recorded, file, repo, run, TypeOK

LEMMA TypeInit == Init => TypeInv
<1> SUFFICES ASSUME Init PROVE TypeInv
  OBVIOUS
<1>1. tree \in [Changes -> Directories]
  BY DEF Init, Directories
<1> QED
  BY <1>1, NoneType, StagesAssumption DEF Init, TypeInv, TypeOK, RunInv, Visiting, InRun, Kinds

(* Requests and their answers leave the engine and the repository alone.    *)
LEMMA RequestFrame == Operator \/ Service => UNCHANGED <<tree, archived, engine, mem, cur, visited, anchor, late>>
  BY DEF Operator, Service, Approve, Accept, ResetChange, Asked, RevisePolicy, IncreaseBudget,
         NextRevision, CommandLoads, CommandSaves, ReleaseDelegated, Recorded, WriterLoads,
         WriterSaves, KillService, writers, repo, run

LEMMA TypeRequests == TypeInv /\ (Operator \/ Service) => TypeInv'
<1> SUFFICES ASSUME TypeInv, Operator \/ Service PROVE TypeInv'
  OBVIOUS
<1> USE DEF TypeInv
<1>1. UNCHANGED <<tree, archived, engine, mem, cur, visited, anchor, late>>
  BY RequestFrame
<1>2. RunInv'
  BY <1>1 DEF RunInv, Visiting, InRun, change_authored
<1>3. ASSUME NEW S \in SUBSET Changes, NEW k \in Kinds, Asked(k, S)
      PROVE  TypeOK'
  BY <1>3, RecordedType DEF Asked, TypeOK
<1>4. ASSUME NEW c \in Changes, Accept(c) \/ ResetChange(c)
      PROVE  TypeOK'
  BY <1>3, <1>4 DEF Accept, ResetChange, Kinds
<1>5. CASE RevisePolicy \/ IncreaseBudget
  <2>1. newest' \in [Changes -> Kinds \cup {"none"}]
    BY <1>5 DEF RevisePolicy, IncreaseBudget, NextRevision
  <2> QED
    BY <1>1, <1>2, <1>5, <2>1, StagesAssumption
    DEF RevisePolicy, IncreaseBudget, NextRevision, TypeOK, writers, file
<1>6. CASE CommandLoads \/ CommandSaves \/ WriterLoads \/ WriterSaves \/ KillService
  <2>1. json' \in [Changes -> Record] /\ forgotten' \subseteq Changes
    BY <1>6, SavedProjectedType
    DEF CommandLoads, CommandSaves, WriterLoads, WriterSaves, KillService, TypeOK, file
  <2> QED
    BY <1>1, <1>2, <1>6, <2>1, NoneType
    DEF CommandLoads, CommandSaves, WriterLoads, WriterSaves, KillService, TypeOK, ledger
<1>7. ASSUME NEW c \in Changes, ReleaseDelegated(c)
      PROVE  TypeOK'
  BY <1>7, RecordedType DEF ReleaseDelegated, TypeOK, Kinds
<1> QED
  BY <1>2, <1>3, <1>4, <1>5, <1>6, <1>7 DEF Operator, Service, Approve, Kinds

LEMMA DoneType ==
  ASSUME NEW r \in Record
  PROVE  /\ [r EXCEPT !.failed = FALSE, !.done = Stages] \in Record
         /\ [r EXCEPT !.failed = FALSE, !.done = Stages].done = Stages
<1>1. [r EXCEPT !.failed = FALSE] \in Record
  BY DEF Record
<1>2. ASSUME NEW q \in Record
      PROVE  [q EXCEPT !.done = Stages] \in Record /\ [q EXCEPT !.done = Stages].done = Stages
  BY StagesAssumption DEF Record
<1>3. [r EXCEPT !.failed = FALSE, !.done = Stages] = [[r EXCEPT !.failed = FALSE] EXCEPT !.done = Stages]
  OBVIOUS
<1> QED BY <1>1, <1>2, <1>3

(* A run that reconciles knows what is archived.                            *)
LEMMA ReconciledType ==
  ASSUME TypeOK
  PROVE  /\ [c \in Changes |-> Reconciled(c)] \in [Changes -> Record]
         /\ \A c \in archived : Reconciled(c).done = Stages
<1>1. ASSUME NEW c \in Changes
      PROVE  Reconciled(c) \in Record /\ (c \in archived => Reconciled(c).done = Stages)
  <2>1. json[c] \in Record
    BY <1>1 DEF TypeOK
  <2>2. CASE c \in archived
    BY <2>1, <2>2, DoneType DEF Reconciled
  <2>3. CASE c \notin archived
    <3>1. (json[c].created \/ CreatedBefore(c)) \in BOOLEAN
      BY <2>1 DEF CreatedBefore, verify_change_created, Record
    <3> QED BY <2>1, <2>3, <3>1 DEF Reconciled, Record
  <2> QED BY <2>2, <2>3
<1> QED BY <1>1 DEF TypeOK

LEMMA TypeEngine == TypeInv /\ Engine => TypeInv'
<1> SUFFICES ASSUME TypeInv, Engine PROVE TypeInv'
  OBVIOUS
<1> USE DEF TypeInv, Outside, ledger, writers, file, repo, run, Go
<1>1. CASE StartRun
  BY <1>1 DEF StartRun, TypeOK, RunInv, Visiting, InRun, change_authored
<1>2. CASE LoadRun
  <2>1. {json', mem'} \subseteq [Changes -> Record] /\ forgotten' \subseteq Changes
    BY <1>2, ReconciledType, SavedType DEF LoadRun
  <2>2. \A c \in archived : mem'[c].done = Stages
    BY <1>2, ReconciledType DEF LoadRun, Save, TypeOK
  <2> QED BY <1>2, <2>1, <2>2 DEF LoadRun, TypeOK, RunInv, Visiting, InRun
<1>3. CASE EndRun
  BY <1>3, NoneType, StagesAssumption DEF EndRun, Exit, Close, TypeOK, RunInv, Visiting, InRun
<1>4. ASSUME NEW c \in Changes, Drive(c)
      PROVE  TypeInv'
  <2>1. c \notin archived /\ mem[c].done < Stages
    BY <1>4, StagesAssumption DEF Drive, Picked, Ready, RunInv, InRun
  <2> QED BY <1>4, <2>1 DEF Drive, Picked, TypeOK, RunInv, Visiting, InRun
<1>5. ASSUME NEW c \in Changes, CreateStage(c)
      PROVE  TypeInv'
  <2>1. c \notin archived /\ mem[c].done < Stages /\ mem[c] \in Record
    BY <1>5, StagesAssumption DEF CreateStage, Picked, Ready, RunInv, InRun, TypeOK
  <2>2. /\ [mem[c] EXCEPT !.attempts = mem[c].attempts + 1] \in Record
        /\ [mem[c] EXCEPT !.attempts = mem[c].attempts + 1].done = mem[c].done
    BY <1>5, <2>1, CreateAssumption DEF CreateStage, Record
  <2> DEFINE m == [mem EXCEPT ![c].attempts = @ + 1]
  <2>3. m \in [Changes -> Record] /\ \A d \in Changes : m[d].done = mem[d].done
    BY <2>2 DEF TypeOK
  <2>4. mem' = m
    BY <1>5 DEF CreateStage, Save
  <2> HIDE DEF m
  <2>5. {json', mem'} \subseteq [Changes -> Record] /\ forgotten' \subseteq Changes
    BY <1>5, <2>3, <2>4, SavedType DEF CreateStage, Save
  <2> QED BY <1>5, <2>1, <2>3, <2>4, <2>5 DEF CreateStage, Picked, TypeOK, RunInv, Visiting, InRun
<1>6. ASSUME NEW c \in Changes, CreateExhausted(c)
      PROVE  TypeInv'
  <2>1. mem[c] \in Record
    BY DEF TypeOK
  <2>2. /\ [mem[c] EXCEPT !.failed = TRUE] \in Record
        /\ [mem[c] EXCEPT !.failed = TRUE].done = mem[c].done
    BY <2>1 DEF Record
  <2> DEFINE m == [mem EXCEPT ![c].failed = TRUE]
  <2>3. m \in [Changes -> Record] /\ \A d \in Changes : m[d].done = mem[d].done
    BY <2>2 DEF TypeOK
  <2>4. mem' = m
    BY <1>6 DEF CreateExhausted, Save
  <2> HIDE DEF m
  <2>5. {json', mem'} \subseteq [Changes -> Record] /\ forgotten' \subseteq Changes
    BY <1>6, <2>3, <2>4, SavedType DEF CreateExhausted, Save
  <2> QED BY <1>6, <2>3, <2>4, <2>5 DEF CreateExhausted, Picked, TypeOK, RunInv, Visiting, InRun
<1>7. ASSUME Leave, Visiting, UNCHANGED <<tree, archived, late>>, Outside
      PROVE  TypeInv'
  <2>1. {json', mem'} \subseteq [Changes -> Record] /\ forgotten' \subseteq Changes /\ mem' = mem
    BY <1>7, SavedType DEF Leave, Save, TypeOK
  <2> QED BY <1>7, <2>1, StagesAssumption DEF Leave, Close, TypeOK, RunInv, Visiting, InRun
<1>8. CASE OpenGate \/ AuthorityGate \/ FreshnessGate
  BY <1>7, <1>8 DEF OpenGate, AuthorityGate, FreshnessGate, Pass, TypeOK, RunInv, Visiting, InRun
<1>9. CASE Begin
  BY <1>9 DEF Begin, Pass, TypeOK, RunInv, Visiting, InRun, change_authored
<1>10. CASE CreateWork
  <2>1. tree' \in [Changes -> Directories]
    BY <1>10 DEF CreateWork, TypeOK
  <2> QED BY <1>10, <2>1 DEF CreateWork, TypeOK, RunInv, Visiting, InRun
<1>11. CASE CreateResult
  <2>1. cur \in Changes \ archived /\ mem[cur] \in Record
    BY <1>11 DEF CreateResult, RunInv, Visiting, TypeOK
  <2>2. PICK r \in Record : Save([mem EXCEPT ![cur] = r]) /\ r.done = mem[cur].done
    <3>1. CASE verify_change_created(cur)
      <4>1. [mem[cur] EXCEPT !.created = TRUE] \in Record
        BY <2>1 DEF Record
      <4>2. [mem[cur] EXCEPT !.created = TRUE].done = mem[cur].done
        BY <2>1 DEF Record
      <4> QED BY <1>11, <3>1, <4>1, <4>2 DEF CreateResult
    <3>2. CASE ~verify_change_created(cur)
      <4>1. PICK f \in BOOLEAN : Save([mem EXCEPT ![cur].failed = f])
        BY <1>11, <3>2 DEF CreateResult
      <4>2. [mem[cur] EXCEPT !.failed = f] \in Record
        BY <2>1 DEF Record
      <4>3. [mem[cur] EXCEPT !.failed = f].done = mem[cur].done
        BY <2>1 DEF Record
      <4> QED BY <4>1, <4>2, <4>3
    <3> QED BY <3>1, <3>2
  <2> DEFINE m == [mem EXCEPT ![cur] = r]
  <2>3. m \in [Changes -> Record] /\ \A d \in Changes : m[d].done = mem[d].done
    BY <2>1, <2>2 DEF TypeOK
  <2>4. mem' = m /\ Save(m)
    BY <2>2 DEF Save
  <2> HIDE DEF m
  <2>5. {json', mem'} \subseteq [Changes -> Record] /\ forgotten' \subseteq Changes
    BY <2>3, <2>4, SavedType
  <2> QED BY <1>11, <2>3, <2>4, <2>5, StagesAssumption DEF CreateResult, Close, TypeOK, RunInv, Visiting, InRun
<1>12. CASE Finish
  <2>1. cur \in Changes \ archived /\ mem[cur] \in Record /\ mem[cur].done < Stages
    BY <1>12 DEF Finish, RunInv, Visiting, TypeOK
  <2>2. PICK n \in {0, 1} :
          /\ Save([mem EXCEPT ![cur].done = @ + n])
          /\ archived' = IF mem[cur].done + n = Stages THEN archived \cup {cur} ELSE archived
          /\ IF mem[cur].done + n = Stages THEN engine' = "pick" /\ Close
             ELSE engine' = "authority" /\ UNCHANGED <<cur, anchor>>
    BY <1>12 DEF Finish
  <2>3. [mem[cur] EXCEPT !.done = mem[cur].done + n] \in Record
    BY <2>1, StagesAssumption DEF Record
  <2>4. [mem[cur] EXCEPT !.done = mem[cur].done + n].done = mem[cur].done + n
    BY <2>1 DEF Record
  <2> DEFINE m == [mem EXCEPT ![cur].done = @ + n]
  <2>5. /\ m \in [Changes -> Record] /\ m[cur].done = mem[cur].done + n
        /\ \A d \in Changes \ {cur} : m[d] = mem[d]
    BY <2>1, <2>3, <2>4 DEF TypeOK
  <2>6. mem' = m /\ Save(m)
    BY <2>2 DEF Save
  <2> HIDE DEF m
  <2>7. {json', mem'} \subseteq [Changes -> Record] /\ forgotten' \subseteq Changes
    BY <2>5, <2>6, SavedType
  <2>8. \A c \in archived' : mem'[c].done = Stages
    BY <1>12, <2>1, <2>2, <2>5, <2>6 DEF Finish, RunInv, InRun, TypeOK
  <2>9. mem[cur].done + n # Stages => mem'[cur].done < Stages
    BY <2>1, <2>5, <2>6, StagesAssumption DEF Record
  <2> QED BY <1>12, <2>1, <2>2, <2>7, <2>8, <2>9, StagesAssumption
          DEF Finish, Close, TypeOK, RunInv, Visiting, InRun
<1>13. CASE KillEngine
  BY <1>13, NoneType, StagesAssumption DEF KillEngine, Exit, Close, TypeOK, RunInv, Visiting, InRun
<1> QED
  BY <1>1, <1>2, <1>3, <1>4, <1>5, <1>6, <1>8, <1>9, <1>10, <1>11, <1>12, <1>13 DEF Engine

LEMMA TypeStep == TypeInv /\ [Next]_vars => TypeInv'
<1>1. TypeInv /\ UNCHANGED vars => TypeInv'
  BY DEF TypeInv, TypeOK, RunInv, Visiting, InRun, change_authored, vars, ledger, file, repo,
         writers, run
<1> QED BY <1>1, TypeRequests, TypeEngine DEF Next

(* Every reachable state of the ledger, the state file and its copies is    *)
(* well typed.                                                              *)
THEOREM Types == Spec => []TypeInv
  BY TypeInit, TypeStep, PTL DEF Spec

(* The engine never dispatches a stage of an archived change, whatever      *)
(* resets and stale saves have made of its record (LoadRun, Ready).         *)
THEOREM DoneIsFinal == Spec => []ArchivedStaysDone
<1>1. TypeInv => ArchivedStaysDone
  BY DEF TypeInv, RunInv, Visiting, ArchivedStaysDone, Dispatching
<1> QED BY <1>1, Types, PTL

-----------------------------------------------------------------------------
(* Revisions of the policy.                                                 *)

(* An approval of the change being visited by the authority its gate names. *)
ReleasedFrom(rev) ==
  \E r \in Of(cur, "approval") : r.by = Releases(cur) /\ r.rev \in rev .. revision

(* Past the authority gate there is an approval no older than the anchor,   *)
(* and past the freshness gate the anchor is the revision of now or has     *)
(* just been superseded.                                                    *)
RevisionInv ==
  /\ anchor <= revision /\ late <= revision
  /\ engine = "begin" => late <= anchor
  /\ engine = "fresh" /\ Gate[cur] # "ungated" => ReleasedFrom(anchor)
  /\ DispatchReleased

LEMMA RevisionInit == Init => RevisionInv
  BY DEF Init, RevisionInv, DispatchReleased, Dispatching

(* Revisions and receipts only add to what has been recorded.               *)
LEMMA RevisionRequests == TypeInv /\ RevisionInv /\ (Operator \/ Service) => RevisionInv'
<1> SUFFICES ASSUME TypeInv, RevisionInv, Operator \/ Service PROVE RevisionInv'
  OBVIOUS
<1>1. UNCHANGED <<engine, cur, anchor, late>>
  BY RequestFrame
<1>2. revision' \in {revision, revision + 1} /\ receipts \subseteq receipts'
  BY DEF Operator, Service, Approve, Accept, ResetChange, Asked, RevisePolicy, IncreaseBudget,
         NextRevision, CommandLoads, CommandSaves, ReleaseDelegated, Recorded, Receipts,
         WriterLoads, WriterSaves, KillService, ledger
<1>3. revision \in Nat /\ anchor \in Nat /\ late \in Nat
  BY StagesAssumption DEF TypeInv, TypeOK
<1>4. Of(cur, "approval") \subseteq Of(cur, "approval")'
  BY <1>1, <1>2 DEF Of
<1>5. ReleasedFrom(anchor) => ReleasedFrom(anchor)'
  BY <1>1, <1>2, <1>3, <1>4 DEF ReleasedFrom, Releases, TypeInv, TypeOK, Receipt, Of
<1>6. DispatchReleased'
  BY <1>1, <1>4 DEF RevisionInv, DispatchReleased, Dispatching, Releases
<1> QED BY <1>1, <1>2, <1>3, <1>5, <1>6 DEF RevisionInv

LEMMA RevisionEngine == TypeInv /\ RevisionInv /\ Engine => RevisionInv'
<1> SUFFICES ASSUME TypeInv, RevisionInv, Engine PROVE RevisionInv'
  OBVIOUS
<1> USE DEF Outside, ledger, file, repo, run, Go, Close
<1>1. revision \in Nat /\ anchor \in Nat /\ late \in Nat
  BY StagesAssumption DEF TypeInv, TypeOK
<1>2. CASE StartRun \/ LoadRun \/ EndRun \/ OpenGate \/ KillEngine
  BY <1>1, <1>2 DEF StartRun, LoadRun, EndRun, OpenGate, Leave, KillEngine, Exit, RevisionInv,
                    DispatchReleased, Dispatching
<1>3. ASSUME NEW c \in Changes, Drive(c) \/ CreateStage(c) \/ CreateExhausted(c)
      PROVE  RevisionInv'
  BY <1>1, <1>3 DEF Drive, CreateStage, CreateExhausted, Picked, RevisionInv, DispatchReleased,
                    Dispatching
<1>4. CASE AuthorityGate
  <2>1. CASE Clear(cur) /\ Open(cur) /\ Pass("fresh")
    <3>1. Gate[cur] # "ungated" =>
            \E r \in Of(cur, "approval") : r.by = Releases(cur) /\ r.rev = revision
      BY <2>1 DEF Open, Current
    <3>2. Gate[cur] # "ungated" => ReleasedFrom(anchor)
      BY <1>1, <3>1 DEF ReleasedFrom, RevisionInv
    <3> QED BY <1>4, <2>1, <3>2 DEF AuthorityGate, Pass, RevisionInv, DispatchReleased,
                                    Dispatching, ReleasedFrom, Of, Releases
  <2>2. CASE Leave
    BY <1>1, <1>4, <2>2 DEF AuthorityGate, Leave, RevisionInv, DispatchReleased, Dispatching
  <2> QED BY <1>4, <2>1, <2>2 DEF AuthorityGate
<1>5. CASE FreshnessGate
  <2>1. CASE revision = anchor /\ Pass("begin")
    <3>1. Gate[cur] # "ungated" => \E r \in Of(cur, "approval") : r.rev = anchor /\ r.by = Releases(cur)
      BY <1>1, <1>5, <2>1 DEF FreshnessGate, RevisionInv, ReleasedFrom
    <3> QED BY <1>5, <2>1, <3>1 DEF FreshnessGate, Pass, RevisionInv, DispatchReleased,
                                    Dispatching, Of, Releases
  <2>2. CASE Leave
    BY <1>1, <1>5, <2>2 DEF FreshnessGate, Leave, RevisionInv, DispatchReleased, Dispatching
  <2> QED BY <1>5, <2>1, <2>2 DEF FreshnessGate
<1>6. CASE Begin
  <2>1. late' <= revision
    BY <1>1, <1>6 DEF Begin, RevisionInv
  <2> QED BY <1>6, <2>1 DEF Begin, Pass, RevisionInv, DispatchReleased, Dispatching, Of, Releases
<1>7. CASE CreateWork
  BY <1>7 DEF CreateWork, RevisionInv, DispatchReleased, Dispatching, Of, Releases
<1>8. CASE CreateResult
  BY <1>1, <1>8 DEF CreateResult, RevisionInv, DispatchReleased, Dispatching
<1>9. CASE Finish
  BY <1>1, <1>9 DEF Finish, RevisionInv, DispatchReleased, Dispatching
<1> QED BY <1>2, <1>3, <1>4, <1>5, <1>6, <1>7, <1>8, <1>9 DEF Engine

LEMMA RevisionStep == TypeInv /\ RevisionInv /\ [Next]_vars => RevisionInv'
<1>1. RevisionInv /\ UNCHANGED vars => RevisionInv'
  BY DEF RevisionInv, DispatchReleased, Dispatching, ReleasedFrom, Of, Releases, vars, ledger, run
<1> QED BY <1>1, RevisionRequests, RevisionEngine DEF Next

LEMMA RevisionAlways == Spec => []RevisionInv
  BY Types, RevisionInit, RevisionStep, PTL DEF Spec

(* Every dispatch of a gated change was released for the revision its gate  *)
(* was opened under by the authority the gate names.                        *)
THEOREM OnlyReleased == Spec => []DispatchReleased
<1>1. RevisionInv => DispatchReleased
  BY DEF RevisionInv
<1> QED BY <1>1, RevisionAlways, PTL

(* However often the policy is revised, each revision lets at most one      *)
(* dispatch through.                                                        *)
THEOREM OneLateEach == Spec => []RevisionStops
<1>1. RevisionInv => RevisionStops
  BY DEF RevisionInv, RevisionStops
<1> QED BY <1>1, RevisionAlways, PTL

-----------------------------------------------------------------------------
(* Acceptance.                                                              *)

Receipted(c) == Of(c, "acceptance") \cup Of(c, "reset") # {}
Excused(c) == Receipted(c) \/ c \in forgotten

(* A copy of the records, in the file or in some process, does not show an  *)
(* acceptance that nobody has given.                                        *)
Honest(s) == \A c \in Changes : s[c].accepted => Of(c, "acceptance") # {}

(* It shows the attempt that created a change.                              *)
Attempted(s) ==
  \A c \in Changes \cap Unauthored : change_authored(c) => s[c].attempts > 0 \/ Excused(c)

(* The file shows the attempts the engine knows of.                         *)
Told == \A c \in Changes : mem[c].attempts > 0 => json[c].attempts > 0 \/ Excused(c)

(* The engine holds a change for acceptance when it knows of an attempt that *)
(* created it, or is still to look at what the attempt brought.             *)
Held ==
  \A c \in (Changes \cap Unauthored) \ archived :
    verify_change_created(c) /\ mem[c].attempts > 0 /\ ~mem[c].failed =>
      Receipted(c) \/ mem[c].created \/ (engine = "create" /\ cur = c)

(* What is visited is created, or may be implemented as far as the engine    *)
(* can tell.                                                                *)
Visit ==
  /\ ~change_authored(cur) \/ engine = "create" => mem[cur].attempts > 0
  /\ cur \in Unauthored /\ verify_change_created(cur) /\ engine # "create" =>
       Receipted(cur) \/ mem[cur].attempts = 0

AcceptInv ==
  /\ Honest(json) /\ Attempted(json)
  /\ service = "loaded" => Honest(draft)
  /\ cli # "idle" => Honest(seen)
  /\ InRun => Honest(mem) /\ Attempted(mem) /\ Told /\ Held
  /\ Visiting => Visit

LEMMA AcceptInit == Init => AcceptInv
<1> SUFFICES ASSUME Init PROVE AcceptInv
  OBVIOUS
<1>1. \A c \in Changes : ~json[c].accepted
  BY DEF Init, None, NewRecord
<1>2. \A c \in Changes \cap Unauthored : ~change_authored(c)
  BY DEF Init, change_authored
<1> QED BY <1>1, <1>2 DEF Init, AcceptInv, Honest, Attempted, Visiting, InRun

(* Projecting an honest copy yields an honest one, and what it takes out of  *)
(* the file is excused.                                                     *)
LEMMA ProjectedAccept ==
  ASSUME NEW s \in [Changes -> Record], NEW c \in Changes
  PROVE  /\ Projected(s)[c].accepted => s[c].accepted \/ Of(c, "acceptance") # {}
         /\ Projected(s)[c].attempts > 0 \/ Resets(c) \/ ~(s[c].attempts > 0)
<1>1. s[c] \in Record
  OBVIOUS
<1>2. CASE Resets(c)
  BY <1>2 DEF Projected, NewRecord
<1>3. CASE ~Resets(c)
  <2> DEFINE a == s[c].accepted \/ Current(c, "acceptance") # {}
  <2>1. Projected(s)[c] = [s[c] EXCEPT !.accepted = a]
    BY <1>3 DEF Projected
  <2>2. a \in BOOLEAN /\ (a => s[c].accepted \/ Of(c, "acceptance") # {})
    BY <1>1 DEF Record, Current
  <2> HIDE DEF a
  <2>3. /\ [s[c] EXCEPT !.accepted = a].accepted = a
        /\ [s[c] EXCEPT !.accepted = a].attempts = s[c].attempts
    BY <1>1, <2>2 DEF Record
  <2> QED BY <2>1, <2>2, <2>3
<1> QED BY <1>2, <1>3

LEMMA ResetIsReceipted == \A c : Resets(c) => Receipted(c)
  BY DEF Resets, Current, Receipted

LEMMA SavedProjected ==
  ASSUME NEW s \in [Changes -> Record], Honest(s), TypeOK, SaveProjected(s)
  PROVE  /\ \A c \in Changes : json'[c].accepted => Of(c, "acceptance") # {}
         /\ \A c \in Changes : json[c].attempts > 0 =>
              json'[c].attempts > 0 \/ Receipted(c) \/ c \in forgotten'
         /\ forgotten \subseteq forgotten'
<1>1. json' = Projected(s) /\ forgotten \subseteq forgotten'
  BY DEF SaveProjected
<1>2. \A c \in Changes : json'[c].accepted => Of(c, "acceptance") # {}
  BY <1>1, ProjectedAccept DEF Honest
<1>3. ASSUME NEW c \in Changes, json[c].attempts > 0, ~Receipted(c)
      PROVE  json'[c].attempts > 0 \/ c \in forgotten'
  <2>1. s[c] \in Record /\ ~Resets(c)
    BY <1>3, ResetIsReceipted
  <2>2. CASE s[c].attempts = 0
    BY <1>3, <2>1, <2>2 DEF SaveProjected
  <2>3. CASE s[c].attempts > 0
    BY <1>1, <2>1, <2>3, ProjectedAccept
  <2> QED BY <2>1, <2>2, <2>3, CreateAssumption DEF Record
<1> QED BY <1>1, <1>2, <1>3

(* Requests add receipts, and take no attempt out of the file unexcused.     *)
LEMMA AcceptRequests == TypeInv /\ AcceptInv /\ (Operator \/ Service) => AcceptInv'
<1> SUFFICES ASSUME TypeInv, AcceptInv, Operator \/ Service PROVE AcceptInv'
  OBVIOUS
<1>1. UNCHANGED <<tree, archived, engine, mem, cur>>
  BY RequestFrame
<1>2. receipts \subseteq receipts'
  BY DEF Operator, Service, Approve, Accept, ResetChange, Asked, RevisePolicy, IncreaseBudget,
         NextRevision, CommandLoads, CommandSaves, ReleaseDelegated, Recorded, Receipts,
         WriterLoads, WriterSaves, KillService, ledger
<1>3. (WriterSaves \/ (CommandSaves /\ cli = "answered")) \/ UNCHANGED file
  BY DEF Operator, Service, Approve, Accept, ResetChange, Asked, RevisePolicy, IncreaseBudget,
         NextRevision, CommandLoads, CommandSaves, ReleaseDelegated, Recorded, WriterLoads,
         KillService, file
<1>4. /\ \A c : Of(c, "acceptance") # {} => Of(c, "acceptance")' # {}
      /\ \A c : Receipted(c) => Receipted(c)'
  BY <1>2 DEF Receipted, Of
<1>5. /\ forgotten \subseteq forgotten'
      /\ \A c \in Changes : json'[c].accepted => Of(c, "acceptance")' # {}
      /\ \A c \in Changes : json[c].attempts > 0 => json'[c].attempts > 0 \/ Excused(c)'
  <2>1. CASE WriterSaves \/ (CommandSaves /\ cli = "answered")
    <3>1. PICK s \in [Changes -> Record] : Honest(s) /\ SaveProjected(s)
      BY <2>1 DEF WriterSaves, CommandSaves, AcceptInv, TypeInv, TypeOK
    <3>2. /\ \A c \in Changes : json'[c].accepted => Of(c, "acceptance") # {}
          /\ \A c \in Changes : json[c].attempts > 0 =>
               json'[c].attempts > 0 \/ Receipted(c) \/ c \in forgotten'
          /\ forgotten \subseteq forgotten'
      BY <3>1, SavedProjected DEF TypeInv
    <3> QED BY <1>4, <3>2 DEF Excused
  <2>2. CASE UNCHANGED file
    BY <1>4, <2>2 DEF file, AcceptInv, Honest
  <2> QED BY <1>3, <2>1, <2>2
<1>6. \A c : Excused(c) => Excused(c)'
  BY <1>4, <1>5 DEF Excused
<1>7. Honest(json)' /\ Attempted(json)'
  BY <1>1, <1>5, <1>6 DEF AcceptInv, Honest, Attempted, change_authored
<1>8. (service = "loaded" => Honest(draft))'
  <2>1. service' = "loaded" => draft' = json \/ (service = "loaded" /\ draft' = draft)
    BY DEF Operator, Service, Approve, Accept, ResetChange, Asked, RevisePolicy,
         IncreaseBudget, NextRevision, CommandLoads, CommandSaves, ReleaseDelegated, Recorded,
         WriterLoads, WriterSaves, KillService, writers
  <2> QED BY <1>4, <2>1 DEF AcceptInv, Honest
<1>9. (cli # "idle" => Honest(seen))'
  <2>1. cli' # "idle" => seen' = json \/ (cli # "idle" /\ seen' = seen)
    BY DEF Operator, Service, Approve, Accept, ResetChange, Asked, RevisePolicy,
         IncreaseBudget, NextRevision, CommandLoads, CommandSaves, ReleaseDelegated, Recorded,
         WriterLoads, WriterSaves, KillService, writers
  <2> QED BY <1>4, <2>1 DEF AcceptInv, Honest
<1>10. (InRun => Honest(mem) /\ Attempted(mem))'
  BY <1>1, <1>4, <1>6 DEF AcceptInv, InRun, Honest, Attempted, change_authored
<1>11. (InRun => Told)'
  BY <1>1, <1>5, <1>6 DEF AcceptInv, InRun, Told
<1>12. (InRun => Held)'
  BY <1>1, <1>4 DEF AcceptInv, InRun, Held, verify_change_created
<1>13. (Visiting => Visit)'
  BY <1>1, <1>4 DEF AcceptInv, Visiting, Visit, change_authored, verify_change_created
<1> QED BY <1>7, <1>8, <1>9, <1>10, <1>11, <1>12, <1>13 DEF AcceptInv

(* What the engine saves, when it is honest and shows every attempt, leaves   *)
(* the file so, and forgets no attempt it does not show.                    *)
LEMMA SavedAccept ==
  ASSUME NEW m \in [Changes -> Record], Honest(m), Attempted(m), UNCHANGED <<tree, receipts>>,
         json' = m, forgotten' = {c \in forgotten : m[c].attempts = 0}
  PROVE  /\ Honest(json)' /\ Attempted(json)'
         /\ mem' = m => Honest(mem)' /\ Attempted(mem)' /\ Told'
<1>1. \A c : Of(c, "acceptance")' = Of(c, "acceptance") /\ Receipted(c)' = Receipted(c)
  BY DEF Of, Receipted
<1>2. Honest(json)' /\ (mem' = m => Honest(mem)')
  BY <1>1 DEF Honest
<1>3. \A c \in Changes : m[c].attempts > 0 \/ m[c].attempts = 0
  BY CreateAssumption DEF Record
<1>4. \A c \in Changes \cap Unauthored : change_authored(c)' => m[c].attempts > 0 \/ Excused(c)'
  BY <1>1, <1>3 DEF Attempted, change_authored, Excused
<1>5. Attempted(json)' /\ (mem' = m => Attempted(mem)')
  BY <1>4 DEF Attempted
<1>6. mem' = m => Told'
  BY DEF Told
<1> QED BY <1>2, <1>5, <1>6

(* Receipts are not the engine's to add.                                    *)
LEMMA EngineFrame == Engine => Outside
  BY DEF Engine, StartRun, LoadRun, EndRun, Drive, CreateStage, CreateExhausted, OpenGate,
         AuthorityGate, FreshnessGate, Begin, CreateWork, CreateResult, Finish, KillEngine

LEMMA OutsideAccept ==
  ASSUME Outside
  PROVE  /\ UNCHANGED <<receipts, service, draft, cli, seen>>
         /\ \A c : Of(c, "acceptance")' = Of(c, "acceptance") /\ Receipted(c)' = Receipted(c)
  BY DEF Outside, ledger, writers, Of, Receipted

(* The copies of the other processes stay as honest as they were.            *)
LEMMA CopiesAccept ==
  ASSUME AcceptInv, Outside
  PROVE  (service = "loaded" => Honest(draft))' /\ (cli # "idle" => Honest(seen))'
  BY OutsideAccept DEF AcceptInv, Honest

(* Reconciling a run.                                                       *)
LEMMA AcceptLoad == TypeInv /\ AcceptInv /\ LoadRun => AcceptInv'
<1> SUFFICES ASSUME TypeInv, AcceptInv, LoadRun PROVE AcceptInv'
  OBVIOUS
<1> DEFINE m == [c \in Changes |-> Reconciled(c)]
<1>1. m \in [Changes -> Record] /\ Save(m) /\ Outside /\ UNCHANGED <<tree, archived>> /\ engine' = "pick"
  BY ReconciledType DEF LoadRun, TypeInv, repo, Go
<1>2. ASSUME NEW c \in Changes
      PROVE  /\ m[c].accepted = json[c].accepted /\ m[c].attempts = json[c].attempts
             /\ c \notin archived => m[c].failed = json[c].failed /\ (CreatedBefore(c) => m[c].created)
  <2>1. json[c] \in Record /\ m[c] = Reconciled(c)
    BY DEF TypeInv, TypeOK
  <2>2. CASE c \in archived
    <3>1. m[c] = [json[c] EXCEPT !.failed = FALSE, !.done = Stages]
      BY <2>1, <2>2 DEF Reconciled
    <3> QED BY <2>1, <2>2, <3>1 DEF Record
  <2>3. CASE c \notin archived
    <3> DEFINE b == json[c].created \/ CreatedBefore(c)
    <3>1. m[c] = [json[c] EXCEPT !.created = b]
      BY <2>1, <2>3 DEF Reconciled
    <3>2. CreatedBefore(c) => b
      OBVIOUS
    <3> HIDE DEF b, m
    <3> QED BY <2>1, <2>3, <3>1, <3>2 DEF Record
  <2> QED BY <2>2, <2>3
<1> HIDE DEF m
<1>3. Honest(m)
  BY <1>2 DEF AcceptInv, Honest
<1>4. Attempted(m)
  BY <1>2 DEF AcceptInv, Attempted
<1>5. Honest(json)' /\ Attempted(json)' /\ Honest(mem)' /\ Attempted(mem)' /\ Told'
  BY <1>1, <1>3, <1>4, OutsideAccept, SavedAccept DEF Save
<1>6. ASSUME NEW c \in Changes, c \notin archived, verify_change_created(c), m[c].attempts > 0,
             ~m[c].failed
      PROVE  m[c].created
  BY <1>2, <1>6 DEF CreatedBefore
<1>7. Held'
  BY <1>1, <1>6 DEF Held, Save, verify_change_created
<1> QED BY <1>1, <1>5, <1>7, CopiesAccept DEF AcceptInv, InRun, Visiting

(* What is picked and has a directory is not waiting for acceptance.         *)
LEMMA AcceptPick ==
  ASSUME TypeInv, AcceptInv, NEW c \in Changes, Picked(c), c \in Unauthored, verify_change_created(c)
  PROVE  Receipted(c) \/ mem[c].attempts = 0
<1>1. mem[c] \in Record /\ c \notin archived
  BY StagesAssumption DEF TypeInv, TypeOK, RunInv, InRun, Picked, Ready
<1>2. Held /\ Honest(mem)
  BY DEF AcceptInv, InRun, Picked
<1>3. mem[c].attempts > 0 => Receipted(c) \/ mem[c].created
  BY <1>1, <1>2 DEF Held, Picked, Ready
<1>4. mem[c].created => Receipted(c)
  BY <1>2 DEF Honest, Picked, Ready, Receipted
<1> QED BY <1>1, <1>3, <1>4, CreateAssumption DEF Record

(* Picking a change: to be driven, created or given up.                      *)
LEMMA AcceptPicked ==
  ASSUME TypeInv, AcceptInv, NEW c \in Changes, Drive(c) \/ CreateStage(c) \/ CreateExhausted(c)
  PROVE  AcceptInv'
<1>1. Picked(c) /\ engine = "pick" /\ Outside /\ UNCHANGED <<tree, archived>>
  BY DEF Drive, CreateStage, CreateExhausted, Picked, repo
<1>2. Honest(mem) /\ Attempted(mem) /\ Told /\ Held /\ mem \in [Changes -> Record]
  BY <1>1 DEF AcceptInv, InRun, TypeInv, TypeOK
<1>3. CASE Drive(c)
  <2>1. UNCHANGED <<json, forgotten, mem>> /\ cur' = c /\ engine' = "visit" /\ change_authored(c)
    BY <1>3 DEF Drive, file, Go
  <2>2. Honest(json)' /\ Attempted(json)' /\ Honest(mem)' /\ Attempted(mem)' /\ Told'
    BY <1>1, <1>2, <2>1, OutsideAccept
    DEF AcceptInv, Honest, Attempted, Told, Excused, change_authored
  <2>3. Held'
    BY <1>1, <1>2, <2>1, OutsideAccept DEF Held, verify_change_created
  <2>4. Visit'
    BY <1>1, <2>1, OutsideAccept, AcceptPick DEF Visit, change_authored, verify_change_created
  <2> QED BY <1>1, <2>1, <2>2, <2>3, <2>4, CopiesAccept DEF AcceptInv
<1>4. CASE CreateStage(c)
  <2> DEFINE m == [mem EXCEPT ![c].attempts = @ + 1]
  <2>1. Save(m) /\ cur' = c /\ engine' = "visit" /\ tree[c] = "none" /\ mem[c].attempts < CreateMaxAttempts
    BY <1>4 DEF CreateStage, Go, change_authored
  <2>2. /\ [mem[c] EXCEPT !.attempts = mem[c].attempts + 1] \in Record
        /\ [mem[c] EXCEPT !.attempts = mem[c].attempts + 1].accepted = mem[c].accepted
        /\ [mem[c] EXCEPT !.attempts = mem[c].attempts + 1].attempts > 0
    BY <1>2, <2>1, CreateAssumption DEF Record
  <2>3. /\ m \in [Changes -> Record] /\ m[c].accepted = mem[c].accepted /\ m[c].attempts > 0
        /\ \A d \in Changes \ {c} : m[d] = mem[d]
    BY <1>2, <2>2
  <2> HIDE DEF m
  <2>4. Honest(m) /\ Attempted(m)
    BY <1>2, <2>3 DEF Honest, Attempted
  <2>5. Honest(json)' /\ Attempted(json)' /\ Honest(mem)' /\ Attempted(mem)' /\ Told'
    BY <1>1, <2>1, <2>3, <2>4, OutsideAccept, SavedAccept DEF Save
  <2>6. Held'
    BY <1>1, <1>2, <2>1, <2>3, OutsideAccept DEF Held, Save, verify_change_created
  <2>7. Visit'
    BY <1>1, <2>1, <2>3 DEF Visit, Save, verify_change_created
  <2> QED BY <1>1, <2>5, <2>6, <2>7, CopiesAccept DEF AcceptInv
<1>5. CASE CreateExhausted(c)
  <2> DEFINE m == [mem EXCEPT ![c].failed = TRUE]
  <2>1. Save(m) /\ engine' = "pick"
    BY <1>1, <1>5 DEF CreateExhausted
  <2>2. /\ [mem[c] EXCEPT !.failed = TRUE] \in Record
        /\ [mem[c] EXCEPT !.failed = TRUE].accepted = mem[c].accepted
        /\ [mem[c] EXCEPT !.failed = TRUE].attempts = mem[c].attempts
        /\ [mem[c] EXCEPT !.failed = TRUE].failed
    BY <1>2 DEF Record
  <2>3. /\ m \in [Changes -> Record]
        /\ m[c].accepted = mem[c].accepted /\ m[c].attempts = mem[c].attempts /\ m[c].failed
        /\ \A d \in Changes \ {c} : m[d] = mem[d]
    BY <1>2, <2>2
  <2> HIDE DEF m
  <2>4. Honest(m) /\ Attempted(m)
    BY <1>2, <2>3 DEF Honest, Attempted
  <2>5. Honest(json)' /\ Attempted(json)' /\ Honest(mem)' /\ Attempted(mem)' /\ Told'
    BY <1>1, <2>1, <2>3, <2>4, OutsideAccept, SavedAccept DEF Save
  <2>6. Held'
    BY <1>1, <1>2, <2>1, <2>3, OutsideAccept DEF Held, Save, verify_change_created
  <2> QED BY <1>1, <2>1, <2>5, <2>6, CopiesAccept DEF AcceptInv, Visiting
<1> QED BY <1>3, <1>4, <1>5

(* The engine saves its records as they are, and goes on.                    *)
LEMMA AcceptSame ==
  ASSUME TypeInv, AcceptInv, InRun, Outside, UNCHANGED tree,
         archived \subseteq archived', Save(mem) \/ UNCHANGED <<file, mem>>
  PROVE  /\ Honest(json)' /\ Attempted(json)'
         /\ Honest(mem)' /\ Attempted(mem)' /\ Told'
         /\ engine # "create" => Held'
<1>1. Honest(mem) /\ Attempted(mem) /\ Told /\ Held /\ mem \in [Changes -> Record] /\ mem' = mem
  BY DEF AcceptInv, TypeInv, TypeOK, Save
<1>2. engine # "create" => Held'
  BY <1>1, OutsideAccept DEF Held, verify_change_created
<1>3. CASE Save(mem)
  BY <1>1, <1>2, <1>3, OutsideAccept, SavedAccept DEF Save
<1>4. CASE UNCHANGED <<file, mem>>
  BY <1>1, <1>2, <1>4, OutsideAccept
  DEF file, AcceptInv, Honest, Attempted, Told, Excused, change_authored
<1> QED BY <1>3, <1>4

(* The gates of the change being visited, and the dispatch.                  *)
LEMMA AcceptGates ==
  ASSUME TypeInv, AcceptInv, OpenGate \/ AuthorityGate \/ FreshnessGate \/ Begin
  PROVE  AcceptInv'
<1>1. /\ engine \in {"visit", "authority", "fresh", "begin"} /\ Outside /\ UNCHANGED <<tree, archived>>
      /\ InRun /\ Visit
  BY DEF OpenGate, AuthorityGate, FreshnessGate, Begin, repo, InRun, Visiting, AcceptInv
<1>2. CASE Leave
  <2>1. Save(mem) /\ engine' = "pick"
    BY <1>2 DEF Leave, Go
  <2> QED BY <1>1, <2>1, AcceptSame, CopiesAccept DEF AcceptInv, Visiting
<1>3. CASE UNCHANGED <<file, mem, cur>> /\ (engine' = "create" => ~change_authored(cur))
  <2>1. Visit'
    BY <1>1, <1>3, OutsideAccept DEF Visit, change_authored, verify_change_created
  <2> QED BY <1>1, <1>3, <2>1, AcceptSame, CopiesAccept DEF AcceptInv
<1> QED
  BY <1>2, <1>3 DEF OpenGate, AuthorityGate, FreshnessGate, Begin, Pass, Go

(* The worker of a creation, and what it brought.                            *)
LEMMA AcceptCreateWork == TypeInv /\ AcceptInv /\ CreateWork => AcceptInv'
<1> SUFFICES ASSUME TypeInv, AcceptInv, CreateWork PROVE AcceptInv'
  OBVIOUS
<1>1. engine = "create" /\ Outside /\ UNCHANGED <<json, forgotten, archived, mem, engine, cur>>
  BY DEF CreateWork, file, run
<1>2. Honest(json) /\ Attempted(json) /\ Honest(mem) /\ Attempted(mem) /\ Told /\ Held /\ Visit
  BY <1>1 DEF AcceptInv, InRun, Visiting
<1>3. cur \in Changes /\ mem[cur].attempts > 0 /\ \A c \in Changes \ {cur} : tree'[c] = tree[c]
  BY <1>1, <1>2 DEF CreateWork, Visit, TypeInv, TypeOK, RunInv, Visiting
<1>4. Honest(json)' /\ Honest(mem)' /\ Told'
  BY <1>1, <1>2, OutsideAccept DEF Honest, Told, Excused
<1>5. Attempted(json)'
  BY <1>1, <1>2, <1>3, OutsideAccept DEF Attempted, Told, Excused, change_authored
<1>6. Attempted(mem)'
  BY <1>1, <1>2, <1>3, OutsideAccept DEF Attempted, Excused, change_authored
<1>7. Held'
  BY <1>1, <1>2, <1>3, OutsideAccept DEF Held, verify_change_created
<1>8. Visit'
  BY <1>1, <1>2, <1>3 DEF Visit
<1> QED BY <1>1, <1>4, <1>5, <1>6, <1>7, <1>8, CopiesAccept DEF AcceptInv

LEMMA AcceptCreateResult == TypeInv /\ AcceptInv /\ CreateResult => AcceptInv'
<1> SUFFICES ASSUME TypeInv, AcceptInv, CreateResult PROVE AcceptInv'
  OBVIOUS
<1>1. engine = "create" /\ engine' = "pick" /\ Outside /\ UNCHANGED <<tree, archived>>
  BY DEF CreateResult, repo, Go
<1>2. Honest(mem) /\ Attempted(mem) /\ Held /\ cur \in Changes /\ mem \in [Changes -> Record] /\ mem[cur] \in Record
  BY <1>1 DEF AcceptInv, InRun, TypeInv, TypeOK, RunInv, Visiting
<1>3. PICK r \in Record :
        /\ Save([mem EXCEPT ![cur] = r])
        /\ r.accepted = mem[cur].accepted /\ r.attempts = mem[cur].attempts
        /\ verify_change_created(cur) => r.created
  <2>1. CASE verify_change_created(cur)
    <3>1. /\ [mem[cur] EXCEPT !.created = TRUE] \in Record
          /\ [mem[cur] EXCEPT !.created = TRUE].accepted = mem[cur].accepted
          /\ [mem[cur] EXCEPT !.created = TRUE].attempts = mem[cur].attempts
          /\ [mem[cur] EXCEPT !.created = TRUE].created
      BY <1>2 DEF Record
    <3>2. Save([mem EXCEPT ![cur] = [mem[cur] EXCEPT !.created = TRUE]])
      BY <2>1 DEF CreateResult
    <3> QED BY <3>1, <3>2
  <2>2. CASE ~verify_change_created(cur)
    <3>1. PICK f \in BOOLEAN : Save([mem EXCEPT ![cur].failed = f])
      BY <2>2 DEF CreateResult
    <3>2. /\ [mem[cur] EXCEPT !.failed = f] \in Record
          /\ [mem[cur] EXCEPT !.failed = f].accepted = mem[cur].accepted
          /\ [mem[cur] EXCEPT !.failed = f].attempts = mem[cur].attempts
      BY <1>2 DEF Record
    <3> QED BY <2>2, <3>1, <3>2
  <2> QED BY <2>1, <2>2
<1> DEFINE m == [mem EXCEPT ![cur] = r]
<1>4. /\ m \in [Changes -> Record] /\ Save(m) /\ m[cur] = r
      /\ \A d \in Changes \ {cur} : m[d] = mem[d]
  BY <1>2, <1>3
<1> HIDE DEF m
<1>5. Honest(m) /\ Attempted(m)
  BY <1>2, <1>3, <1>4 DEF Honest, Attempted
<1>6. Honest(json)' /\ Attempted(json)' /\ Honest(mem)' /\ Attempted(mem)' /\ Told'
  BY <1>1, <1>4, <1>5, OutsideAccept, SavedAccept DEF Save
<1>7. Held'
  BY <1>1, <1>2, <1>3, <1>4, OutsideAccept DEF Held, Save, verify_change_created
<1> QED BY <1>1, <1>6, <1>7, CopiesAccept DEF AcceptInv, Visiting

(* A stage of a driven change.                                               *)
LEMMA AcceptFinish == TypeInv /\ AcceptInv /\ Finish => AcceptInv'
<1> SUFFICES ASSUME TypeInv, AcceptInv, Finish PROVE AcceptInv'
  OBVIOUS
<1>1. engine = "work" /\ Outside /\ UNCHANGED tree /\ archived \subseteq archived'
  BY DEF Finish
<1>2. /\ Honest(mem) /\ Attempted(mem) /\ Held /\ Visit
      /\ cur \in Changes /\ mem \in [Changes -> Record] /\ mem[cur] \in Record
  BY <1>1 DEF AcceptInv, InRun, TypeInv, TypeOK, RunInv, Visiting
<1>3. PICK n \in {0, 1} :
        /\ Save([mem EXCEPT ![cur].done = @ + n])
        /\ (engine' = "pick" \/ (engine' = "authority" /\ cur' = cur))
  BY DEF Finish, Go
<1> DEFINE m == [mem EXCEPT ![cur].done = @ + n]
<1>4. /\ m \in [Changes -> Record] /\ Save(m)
      /\ \A d \in Changes : /\ m[d].accepted = mem[d].accepted /\ m[d].attempts = mem[d].attempts
                            /\ m[d].failed = mem[d].failed /\ m[d].created = mem[d].created
  <2>1. mem[cur].done + n \in 0 .. Stages
    BY <1>1, <1>2, StagesAssumption DEF TypeInv, RunInv, Visiting, Record
  <2> DEFINE q == [mem[cur] EXCEPT !.done = mem[cur].done + n]
  <2>2. /\ q \in Record /\ q.accepted = mem[cur].accepted /\ q.attempts = mem[cur].attempts
        /\ q.failed = mem[cur].failed /\ q.created = mem[cur].created
    BY <1>2, <2>1 DEF Record
  <2>3. m = [mem EXCEPT ![cur] = q]
    BY <1>2
  <2> HIDE DEF q
  <2>4. m[cur] = q /\ \A d \in Changes \ {cur} : m[d] = mem[d]
    BY <1>2, <2>3
  <2>5. m \in [Changes -> Record]
    BY <1>2, <2>2, <2>3
  <2> QED BY <1>3, <2>2, <2>4, <2>5
<1> HIDE DEF m
<1>5. Honest(m) /\ Attempted(m)
  BY <1>2, <1>4 DEF Honest, Attempted
<1>6. Honest(json)' /\ Attempted(json)' /\ Honest(mem)' /\ Attempted(mem)' /\ Told'
  BY <1>1, <1>4, <1>5, OutsideAccept, SavedAccept DEF Save
<1>7. Held'
  BY <1>1, <1>2, <1>4, OutsideAccept DEF Held, Save, verify_change_created
<1>8. (Visiting => Visit)'
  BY <1>1, <1>2, <1>3, <1>4, OutsideAccept
  DEF Visiting, Visit, Save, change_authored, verify_change_created
<1> QED BY <1>1, <1>6, <1>7, <1>8, CopiesAccept DEF AcceptInv

(* Starting and ending a run, and losing one.                                *)
LEMMA AcceptEnds ==
  ASSUME TypeInv, AcceptInv, StartRun \/ EndRun \/ KillEngine
  PROVE  AcceptInv'
<1>1. Outside /\ UNCHANGED tree /\ engine' \in {"off", "load"}
  BY DEF StartRun, EndRun, KillEngine, Exit, Go, repo
<1>2. Honest(json)' /\ Attempted(json)'
  <2>1. CASE UNCHANGED file
    BY <1>1, <2>1, OutsideAccept DEF file, AcceptInv, Honest, Attempted, Excused, change_authored
  <2>2. CASE EndRun
    <3>1. /\ Honest(mem) /\ Attempted(mem) /\ mem \in [Changes -> Record]
          /\ json' = mem /\ forgotten' = {c \in forgotten : mem[c].attempts = 0}
      BY <2>2 DEF EndRun, AcceptInv, InRun, TypeInv, TypeOK
    <3> QED BY <1>1, <3>1, OutsideAccept, SavedAccept
  <2> QED BY <2>1, <2>2 DEF StartRun, KillEngine
<1> QED BY <1>1, <1>2, CopiesAccept DEF AcceptInv, InRun, Visiting

LEMMA AcceptStep == TypeInv /\ AcceptInv /\ [Next]_vars => AcceptInv'
<1>1. AcceptInv /\ UNCHANGED vars => AcceptInv'
  BY DEF AcceptInv, Honest, Attempted, Told, Held, Visit, Excused, Receipted, Of, InRun, Visiting,
         change_authored, verify_change_created, vars, ledger, file, repo, writers, run
<1> QED
  BY <1>1, AcceptRequests, AcceptLoad, AcceptPicked, AcceptGates, AcceptCreateWork,
     AcceptCreateResult, AcceptFinish, AcceptEnds DEF Next, Engine

LEMMA AcceptAlways == Spec => []AcceptInv
  BY Types, AcceptInit, AcceptStep, PTL DEF Spec

(* What a worker created and the evidence verifies is not implemented before *)
(* it was accepted or reset, wherever the engine is killed and whoever saves *)
(* a copy loaded since the attempt was counted; a save of an older copy,     *)
(* which takes the attempt out of the file, is the one exception.           *)
THEOREM NeverUnaccepted == Spec => []AcceptedFirst
<1>1. TypeInv /\ AcceptInv => AcceptedFirst
  <2> SUFFICES ASSUME TypeInv, AcceptInv, engine \in {"begin", "work"}, cur \in Unauthored,
                      verify_change_created(cur)
               PROVE  Receipted(cur) \/ cur \in forgotten
    BY DEF AcceptedFirst, Receipted
  <2>1. Visit /\ Attempted(mem) /\ cur \in Changes /\ change_authored(cur)
    BY DEF AcceptInv, InRun, Visiting, TypeInv, RunInv, change_authored, verify_change_created
  <2> QED BY <2>1 DEF Visit, Attempted, Excused
<1> QED BY <1>1, Types, AcceptAlways, PTL
=============================================================================
