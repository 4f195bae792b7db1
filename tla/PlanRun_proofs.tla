---------------------------- MODULE PlanRun_proofs ----------------------------
(***************************************************************************)
(* Proofs about PlanRun for any plan, any limits and any review answers, in  *)
(* five parts: lemmas on the handlers of a record; type correctness, the    *)
(* order of dispatch, the create budget and the gates; the contract         *)
(* PlanContract; the loop over one change; and the order in which PlanFile  *)
(* loads a plan.  What a step does to the saved record of a change is stated *)
(* once (Follows), and the invariants of the loop rest on that.             *)
(***************************************************************************)
EXTENDS PlanRunProperties, PlanFile, FiniteSetTheorems, WellFoundedInduction, TLAPS

-----------------------------------------------------------------------------
(* The handlers of ChangeRecord: types.                                     *)

(* A new record has the type of a record: rounds start within max_rounds.   *)
LEMMA NewRecordType == NewRecord \in Record
  BY MaxRoundsAssumption, CreateMaxAssumption
  DEF NewRecord, Record, Statuses, Phases, ArchiveStates, Commits, Reasons, Citations

(* The status changes of set_status keep the type.                          *)
LEMMA StatusTypes ==
  ASSUME NEW r \in Record, NEW why \in Reasons
  PROVE  /\ Failed(r, why) \in Record
         /\ Pending(r) \in Record
         /\ Running(r) \in Record
         /\ Done(r) \in Record
  BY DEF Failed, Pending, Running, Done, Record, Statuses, Phases, Reasons

(* Moving on to the next round keeps the round within max_rounds, and so    *)
(* does moving on to archive.                                               *)
LEMMA MoveTypes ==
  ASSUME NEW r \in Record
  PROVE  /\ \A phase \in Phases : At(r, phase) \in Record
         /\ Prompted(r) \in Record
         /\ ~(r.round >= MaxRounds) => NextRound(r) \in Record
         /\ ToArchive(r) \in Record
<1>1. ASSUME NEW q \in Record, NEW phase \in Phases
      PROVE  At(q, phase) \in Record
  BY DEF At, Record
<1>2. "implement" \in Phases /\ "archive" \in Phases
  BY DEF Phases
<1>3. Prompted(r) \in Record /\ Prompted(r).round = r.round
  BY DEF Prompted, Record
<1>4. ~(r.round >= MaxRounds) => NextRound(r) \in Record
  <2>1. ~(r.round >= MaxRounds) => r.round + 1 \in 1 .. MaxRounds
    BY MaxRoundsAssumption DEF Record
  <2>2. ~(r.round >= MaxRounds) => [Prompted(r) EXCEPT !.round = r.round + 1] \in Record
    BY <1>3, <2>1 DEF Record
  <2> QED BY <1>1, <1>2, <2>2 DEF NextRound
<1>5. ToArchive(r) \in Record
  <2>1. [r EXCEPT !.fixFrom = 0] \in Record
    BY MaxRoundsAssumption DEF Record
  <2> QED BY <1>1, <1>2, <2>1 DEF ToArchive
<1> QED BY <1>1, <1>3, <1>4, <1>5

(* The end of a round that did not pass keeps the type.                     *)
LEMMA IncompleteRoundType ==
  ASSUME NEW r \in Record
  PROVE  IncompleteRound(r) \in Record
<1>1. "max_rounds" \in Reasons /\ "none" \in Reasons
  BY DEF Reasons
<1> QED BY <1>1, MoveTypes, StatusTypes DEF IncompleteRound

(* apply_implement_result returns a record.                                 *)
LEMMA ImplementType ==
  ASSUME NEW r \in Record, NEW t \in Tree, NEW p \in ImplementPayloads
  PROVE  apply_implement_result(r, t, p) \in Record
<1>1. p.progress \in BOOLEAN
  BY DEF ImplementPayloads
<1>2. ImplementBlocked(r, t, p.progress) \in Record
  <2> DEFINE counted == IF p.progress THEN [r EXCEPT !.streak = 0] ELSE r
  <2>1. counted \in Record
    BY DEF Record
  <2>2. Failed(counted, "implement_blocked") \in Record /\ IncompleteRound(counted) \in Record
    BY <2>1, StatusTypes, IncompleteRoundType DEF Reasons
  <2> QED BY <2>2 DEF ImplementBlocked
<1>3. ImplementCompleted(r, t, p.progress) \in Record
  <2> DEFINE counted == [r EXCEPT !.streak = IF p.progress THEN 0 ELSE r.streak + 1]
  <2>1. counted \in Record
    BY DEF Record
  <2>2. At(counted, "review") \in Record
    BY <2>1, MoveTypes DEF Phases
  <2>3. /\ Failed(counted, "no_progress") \in Record
        /\ IncompleteRound(counted) \in Record
        /\ Pending(At(counted, "review")) \in Record
    BY <2>1, <2>2, StatusTypes, IncompleteRoundType DEF Reasons
  <2> QED BY <2>3 DEF ImplementCompleted
<1>4. Failed(r, "implement_invalid") \in Record
  BY StatusTypes DEF Reasons
<1> QED BY <1>2, <1>3, <1>4 DEF apply_implement_result

(* apply_review_result returns a record: what it adds to the history are    *)
(* citations of this round.                                                 *)
LEMMA ReviewType ==
  ASSUME NEW r \in Record, NEW p \in ReviewPayloads, NEW q \in Policies
  PROVE  apply_review_result(r, p, q) \in Record
<1> DEFINE recorded == ReviewRecorded(r, p)
<1>1. {<<r.round, f[1], f[2]>> : f \in p.findings} \subseteq Citations
  BY DEF ReviewPayloads, Citations, Record
<1>2. recorded \in Record
  BY <1>1 DEF ReviewRecorded, Record
<1> HIDE DEF recorded
<1>3. /\ Failed(r, "review_invalid") \in Record
      /\ Failed(recorded, "review_invalid") \in Record
  BY <1>2, StatusTypes DEF Reasons
<1>4. Pending(ToArchive(recorded)) \in Record
  BY <1>2, MoveTypes, StatusTypes DEF Reasons
<1>5. ReviewFailed(recorded, q) \in Record
  <2>1. Prompted(recorded) \in Record
    BY <1>2, MoveTypes
  <2> QED BY <1>2, <2>1, StatusTypes, IncompleteRoundType DEF ReviewFailed, Reasons
<1> QED BY <1>3, <1>4, <1>5 DEF apply_review_result, recorded

(* apply_archive_result returns a record.                                   *)
LEMMA ArchiveType ==
  ASSUME NEW r \in Record, NEW t \in Tree, NEW p \in ArchivePayloads,
         NEW checks_ok \in BOOLEAN, NEW clean_ok \in BOOLEAN
  PROVE  apply_archive_result(r, t, p, checks_ok, clean_ok) \in Record
<1>1. /\ ArchiveClaim(r, "passed", p) \in Record
      /\ ArchiveClaim(r, "failed", p) \in Record
  BY DEF ArchiveClaim, ArchivePayloads, Record, ArchiveStates
<1>2. ASSUME NEW q \in Record
      PROVE  ArchiveFailed(q) \in Record
  <2>1. [q EXCEPT !.archive.status = "failed"] \in Record
    BY DEF Record, ArchiveStates
  <2> QED BY <2>1, StatusTypes DEF ArchiveFailed, Reasons
<1>3. /\ Failed(ArchiveClaim(r, "failed", p), "archive_failed") \in Record
      /\ Done(ArchiveClaim(r, "passed", p)) \in Record
  BY <1>1, StatusTypes DEF Reasons
<1> QED BY <1>1, <1>2, <1>3 DEF apply_archive_result

(* The outcomes without a payload, and the choice of the implement model,   *)
(* keep the type.                                                           *)
LEMMA OutcomeTypes ==
  ASSUME NEW r \in Record
  PROVE  OutputInvalid(r) \in Record /\ Escalated(r) \in Record
<1>1. [r EXCEPT !.archive.status = "failed"] \in Record
  BY DEF Record, ArchiveStates
<1>2. OutputInvalid(r) \in Record
  BY <1>1, StatusTypes DEF OutputInvalid, Reasons
<1>3. Escalated(r) \in Record
  BY EscalateAssumption DEF Escalated, escalation_active_for_dispatch, Record
<1> QED BY <1>2, <1>3

(* reconcile returns a record.                                              *)
LEMMA ReconcileType ==
  ASSUME NEW r \in Record, NEW t \in Tree, NEW create_invoke
  PROVE  reconcile(r, t, create_invoke) \in Record
<1> DEFINE q == Recovered(r)
<1>1. q \in Record
  BY StatusTypes DEF Recovered, Reasons
<1>2. Pending(q) \in Record /\ Failed(q, "evidence") \in Record /\ Done(q) \in Record
  BY <1>1, StatusTypes DEF Reasons
<1>3. Done(record_archive_evidence(q, t)) \in Record
  <2>1. record_archive_evidence(q, t) \in Record
    BY <1>1 DEF record_archive_evidence, Record, ArchiveStates, Commits
  <2> QED BY <2>1, StatusTypes DEF Reasons
<1>4. AdoptCreated(q, t) \in Record
  <2>1. [q EXCEPT !.created = verify_change_created(t, TRUE)] \in Record
    BY <1>1 DEF verify_change_created, Record
  <2> QED BY <1>1, <2>1, StatusTypes DEF AdoptCreated, Reasons
<1>5. ReconcileUnfinished(q, t) \in Record
  BY <1>2, <1>3, <1>4 DEF ReconcileUnfinished
<1> QED BY <1>1, <1>2, <1>5 DEF reconcile

-----------------------------------------------------------------------------
(* Done is backed by the repository.                                        *)

(* verify_direct_archive_done reads the archive fields of the record only.  *)
LEMMA VerifyReadsArchive ==
  ASSUME NEW r, NEW q, NEW t, q.archive = r.archive
  PROVE  verify_direct_archive_done(r, t) <=> verify_direct_archive_done(q, t)
  BY DEF verify_direct_archive_done

(* A record that reconcile leaves as done is verified against what is on    *)
(* disk now, whatever it said before.                                       *)
LEMMA ReconciledDone ==
  ASSUME NEW r \in Record, NEW t \in Tree, NEW create_invoke,
         reconcile(r, t, create_invoke).status = "done"
  PROVE  verify_direct_archive_done(reconcile(r, t, create_invoke), t)
<1> DEFINE q == Recovered(r)
<1>1. q \in Record
  BY StatusTypes DEF Recovered, Reasons
<1>2. Pending(q).status # "done" /\ Failed(q, "evidence").status # "done"
  BY <1>1 DEF Pending, Failed, Record
<1>3. AdoptCreated(q, t).status = "done" => q.status = "done"
  BY <1>1 DEF AdoptCreated, Pending, Record
<1>4. EvidenceOnDisk(t) =>
        verify_direct_archive_done(Done(record_archive_evidence(q, t)), t)
  BY <1>1 DEF EvidenceOnDisk, ArchivedOnDisk, record_archive_evidence, Done, Record,
     verify_direct_archive_done, ReachableCommit
<1>5. verify_direct_archive_done(q, t) => verify_direct_archive_done(Done(q), t)
  <2>1. Done(q).archive = q.archive
    BY <1>1 DEF Done, Record
  <2> QED BY <2>1, VerifyReadsArchive
<1> QED BY <1>2, <1>3, <1>4, <1>5 DEF reconcile, ReconcileUnfinished

(* So is one that the archive handler marks done.                           *)
LEMMA ArchivedDone ==
  ASSUME NEW r \in Record, NEW t \in Tree, NEW p \in ArchivePayloads,
         NEW checks_ok \in BOOLEAN, NEW clean_ok \in BOOLEAN,
         apply_archive_result(r, t, p, checks_ok, clean_ok).status = "done"
  PROVE  verify_direct_archive_done(apply_archive_result(r, t, p, checks_ok, clean_ok), t)
<1> DEFINE claimed == ArchiveClaim(r, "passed", p)
<1>1. claimed \in Record /\ ArchiveClaim(r, "failed", p) \in Record
  BY DEF ArchiveClaim, ArchivePayloads, Record, ArchiveStates
<1>2. ASSUME NEW q \in Record
      PROVE  Failed(q, "archive_failed").status = "failed" /\ ArchiveFailed(q).status = "failed"
  BY DEF Failed, ArchiveFailed, Record
<1>3. Done(claimed).archive = claimed.archive
  BY <1>1 DEF Done, Record
<1>4. verify_direct_archive_done(claimed, t) => verify_direct_archive_done(Done(claimed), t)
  BY <1>3, VerifyReadsArchive
<1> QED BY <1>1, <1>2, <1>4 DEF apply_archive_result

(* No other handler marks a change done.                                    *)
LEMMA OthersNotDone ==
  ASSUME NEW r \in Record
  PROVE  /\ \A why : Failed(r, why).status = "failed"
         /\ Pending(r).status = "pending"
         /\ Running(r).status = "running" /\ Escalated(Running(r)).status = "running"
         /\ OutputInvalid(r).status = "failed"
  BY DEF Failed, Pending, Running, Escalated, OutputInvalid, Record

(* Implement results leave a change pending or failed.                      *)
LEMMA ImplementNotDone ==
  ASSUME NEW r \in Record, NEW t \in Tree, NEW p \in ImplementPayloads
  PROVE  apply_implement_result(r, t, p).status \in {"pending", "failed"}
<1>1. ASSUME NEW q \in Record
      PROVE  IncompleteRound(q).status \in {"pending", "failed"}
  <2>1. Prompted(q) \in Record /\ (~(q.round >= MaxRounds) => NextRound(q) \in Record)
    BY MoveTypes
  <2> QED BY <2>1 DEF IncompleteRound, Failed, Pending, Record
<1>2. ImplementBlocked(r, t, p.progress).status \in {"pending", "failed"}
  <2> DEFINE counted == IF p.progress THEN [r EXCEPT !.streak = 0] ELSE r
  <2>1. counted \in Record
    BY DEF Record
  <2>2. Failed(counted, "implement_blocked").status = "failed"
    BY <2>1, OthersNotDone
  <2> QED BY <1>1, <2>1, <2>2 DEF ImplementBlocked
<1>3. ImplementCompleted(r, t, p.progress).status \in {"pending", "failed"}
  <2> DEFINE counted == [r EXCEPT !.streak = IF p.progress THEN 0 ELSE r.streak + 1]
  <2>1. counted \in Record
    BY DEF Record
  <2>2. At(counted, "review") \in Record
    BY <2>1, MoveTypes DEF Phases
  <2>3. /\ Failed(counted, "no_progress").status = "failed"
        /\ Pending(At(counted, "review")).status = "pending"
    BY <2>1, <2>2, OthersNotDone
  <2> QED BY <1>1, <2>1, <2>3 DEF ImplementCompleted
<1>4. Failed(r, "implement_invalid").status = "failed"
  BY OthersNotDone
<1> QED BY <1>2, <1>3, <1>4 DEF apply_implement_result

(* Review results leave a change pending or failed.                         *)
LEMMA ReviewNotDone ==
  ASSUME NEW r \in Record, NEW p \in ReviewPayloads, NEW q \in Policies
  PROVE  apply_review_result(r, p, q).status \in {"pending", "failed"}
<1> DEFINE recorded == ReviewRecorded(r, p)
<1>1. {<<r.round, f[1], f[2]>> : f \in p.findings} \subseteq Citations
  BY DEF ReviewPayloads, Citations, Record
<1>2. recorded \in Record
  BY <1>1 DEF ReviewRecorded, Record
<1> HIDE DEF recorded
<1>3. ReviewFailed(recorded, q).status \in {"pending", "failed"}
  <2>1. /\ Prompted(recorded) \in Record
        /\ ~(recorded.round >= MaxRounds) => NextRound(recorded) \in Record
    BY <1>2, MoveTypes
  <2> QED BY <2>1 DEF ReviewFailed, IncompleteRound, Failed, Pending, Record
<1>4. /\ Failed(r, "review_invalid").status = "failed"
      /\ Failed(recorded, "review_invalid").status = "failed"
      /\ Pending(ToArchive(recorded)).status = "pending"
  <2>1. ToArchive(recorded) \in Record
    BY <1>2, MoveTypes
  <2> QED BY <1>2, <2>1 DEF Failed, Pending, Record
<1> QED BY <1>3, <1>4 DEF apply_review_result, recorded

-----------------------------------------------------------------------------
(* Type correctness.                                                        *)

(* Replacing one record of a plan state gives a plan state, and leaves the  *)
(* other records and the approvals alone.                                   *)
LEMMA WithFacts ==
  ASSUME NEW s \in State, NEW c \in Changes, NEW r \in Record
  PROVE  /\ With(s, c, r) \in State
         /\ With(s, c, r).rec[c] = r
         /\ \A d \in Changes \ {c} : With(s, c, r).rec[d] = s.rec[d]
         /\ With(s, c, r).approvals = s.approvals
<1>1. s.rec \in [Changes -> Record] /\ s.approvals \subseteq Changes
  BY DEF State
<1>2. [s.rec EXCEPT ![c] = r] \in [Changes -> Record]
  BY <1>1
<1> QED BY <1>1, <1>2 DEF With, State

(* An engine without a plan state in memory has the empty one.              *)
LEMMA EmptyStateType == EmptyState \in State
  BY NewRecordType DEF EmptyState, State

(* What changes in the repository evidence of one change keeps its type.    *)
LEMMA TreeFacts ==
  ASSUME tree \in [Changes -> Tree], NEW c \in Changes,
         NEW active \in ActiveDirs, NEW archived \in BOOLEAN,
         NEW commit \in BOOLEAN, NEW open \in BOOLEAN
  PROVE  /\ [tree EXCEPT ![c].active = active] \in [Changes -> Tree]
         /\ [tree EXCEPT ![c].open = open] \in [Changes -> Tree]
         /\ [tree EXCEPT ![c].commit = commit] \in [Changes -> Tree]
         /\ [tree EXCEPT ![c].active = active, ![c].open = open] \in [Changes -> Tree]
         /\ [tree EXCEPT ![c].active = active, ![c].archived = archived] \in [Changes -> Tree]
         /\ [tree EXCEPT ![c].active = active, ![c].archived = archived,
                         ![c].commit = commit] \in [Changes -> Tree]
  BY DEF Tree

(* The first ready change is a change that is not being worked on.          *)
LEMMA NextFacts ==
  ASSUME NEW c, Next1(c)
  PROVE  c \in Changes /\ c \in Ready
  BY DEF Next1, Ready

(* The plan starts with its variables of their types.                       *)
LEMMA TypeInit == Init => TypeOK
<1> SUFFICES ASSUME Init PROVE TypeOK
  OBVIOUS
<1>1. file \in State /\ mem \in State
  BY EmptyStateType, InitRecordsAssumption DEF Init, State
<1>2. tree \in [Changes -> Tree]
  <2>1. {[active |-> a, archived |-> FALSE, commit |-> FALSE, open |-> TRUE] : a \in InitActive}
          \subseteq Tree
    <3>1. ASSUME NEW a \in InitActive
          PROVE  [active |-> a, archived |-> FALSE, commit |-> FALSE, open |-> TRUE] \in Tree
      BY InitActiveAssumption DEF Tree
    <3> QED BY <3>1
  <2> QED BY <2>1 DEF Init
<1> QED
  BY <1>1, <1>2, SubsetAssumption, RetriesAssumption, BoundsAssumption, NoChangeAssumption
  DEF Init, TypeOK, Policies

(* A new run reconciles every record of the state file.                     *)
LEMMA TypeStartRun == TypeOK /\ StartRun => TypeOK'
<1> SUFFICES ASSUME TypeOK, StartRun PROVE TypeOK'
  OBVIOUS
<1>1. \A c \in Changes : reconcile(file.rec[c], tree[c], c \in invokes) \in Record
  <2> TAKE c \in Changes
  <2>1. file.rec[c] \in Record /\ tree[c] \in Tree
    BY DEF TypeOK, State
  <2> QED BY <2>1, ReconcileType
<1>2. Reconciled(file) \in State
  BY <1>1 DEF Reconciled, State, TypeOK
<1>3. policy' \in Policies /\ mode' \in {"drive", "create"} /\ visited' \subseteq Changes
  BY RunPoliciesAssumption, RunModesAssumption, RunOnlyAssumption DEF StartRun
<1>4. runs' \in 0 .. MaxRuns
  BY BoundsAssumption DEF StartRun, TypeOK
<1> QED
  BY <1>2, <1>3, <1>4 DEF StartRun, Save, TypeOK, repo, ghosts

(* The steps that end a run.                                                *)
LEMMA TypeLeave ==
  ASSUME TypeOK, Finish \/ StopEarly \/ RefuseDirty \/ Interrupt
  PROVE  TypeOK'
<1>1. file' \in State
  BY DEF Finish, StopEarly, RefuseDirty, Interrupt, TypeOK
<1>2. mem' \in State
  BY EmptyStateType DEF Finish, StopEarly, RefuseDirty, Interrupt, Exit
<1> QED
  BY <1>1, <1>2, RetriesAssumption
  DEF Finish, StopEarly, RefuseDirty, Interrupt, Exit, TypeOK, Policies, repo, bounds, ghosts

(* What is saved after a record changed is a plan state.                    *)
LEMMA SaveType ==
  ASSUME TypeOK, NEW c \in Changes, NEW r \in Record, Save(With(mem, c, r))
  PROVE  file' \in State /\ mem' \in State
  BY WithFacts DEF Save, TypeOK

(* The record of a change, and what is on disk about it.                    *)
LEMMA RecordOf ==
  ASSUME TypeOK, NEW c \in Changes
  PROVE  mem.rec[c] \in Record /\ file.rec[c] \in Record /\ tree[c] \in Tree
  BY DEF TypeOK, State

(* The change being worked on is a change of the plan.                      *)
LEMMA CurOf ==
  ASSUME TypeOK, Busy
  PROVE  cur \in Changes /\ mem.rec[cur] \in Record /\ tree[cur] \in Tree
<1>1. cur \in Changes
  BY DEF TypeOK, Busy
<1> QED BY <1>1, RecordOf

(* The steps at "pick" that go on to another pick or to the stage loop.     *)
LEMMA TypePicked ==
  ASSUME TypeOK, NEW c \in Changes,
         CreateUnconfigured(c) \/ CreateDebris(c) \/ SkipAuthored(c) \/ Drive(c)
  PROVE  TypeOK'
<1>1. CASE CreateUnconfigured(c)
  <2>1. Failed(mem.rec[c], "unconfigured") \in Record
    BY RecordOf, StatusTypes DEF Reasons
  <2>2. file' \in State /\ mem' \in State
    BY <1>1, <2>1, SaveType DEF CreateUnconfigured, FailPicked
  <2> QED BY <1>1, <2>2 DEF CreateUnconfigured, FailPicked, TypeOK, proc, bounds, ghosts
<1>2. CASE CreateDebris(c)
  <2>1. Failed(mem.rec[c], "debris") \in Record
    BY RecordOf, StatusTypes DEF Reasons
  <2>2. file' \in State /\ mem' \in State
    BY <1>2, <2>1, SaveType DEF CreateDebris, FailPicked
  <2> QED BY <1>2, <2>2 DEF CreateDebris, FailPicked, TypeOK, proc, bounds, ghosts
<1>3. CASE SkipAuthored(c)
  BY <1>3, RetriesAssumption
  DEF SkipAuthored, Picked, Visit, TypeOK, repo, bounds, ghosts
<1>4. CASE Drive(c)
  BY <1>4, NoChangeAssumption DEF Drive, Picked, GoTo, TypeOK, repo, bounds, ghosts
<1> QED BY <1>1, <1>2, <1>3, <1>4

(* A counted create attempt stays within create_max_attempts.               *)
LEMMA CountedType ==
  ASSUME NEW r \in Record, r.attempts + 1 <= CreateMaxAttempts
  PROVE  CountedAttempt(r) \in Record
  BY DEF CountedAttempt, Record

(* The steps that start, or fail to start, a create worker.                 *)
LEMMA TypeCreateStart ==
  ASSUME TypeOK, NEW c \in Changes,
         \/ CreateExhausted(c) \/ DispatchCreate(c)
         \/ CreateEnvError(c) \/ CreateSpawnError(c)
  PROVE  TypeOK'
<1>1. mem.rec[c] \in Record
  BY RecordOf
<1>2. tree' \in [Changes -> Tree]
  <2>1. tree' = [tree EXCEPT ![c].active = "none"]
    BY DEF CreateExhausted, DispatchCreate, CreateEnvError, CreateSpawnError, CreateStarts,
       CreatePrepared
  <2> QED BY <2>1, TreeFacts DEF TypeOK, ActiveDirs
<1>3. CASE CreateExhausted(c)
  <2>1. file' \in State /\ mem' \in State
    BY <1>1, <1>3, SaveType, StatusTypes DEF CreateExhausted, FailPicked, Reasons
  <2> QED BY <1>2, <1>3, <2>1 DEF CreateExhausted, FailPicked, TypeOK, proc, bounds, ghosts
<1>4. ASSUME CreateStarts(c)
      PROVE  CountedAttempt(mem.rec[c]) \in Record
  BY <1>1, <1>4, CountedType DEF CreateStarts
<1>5. CASE DispatchCreate(c)
  <2>1. file' \in State /\ mem' \in State
    BY <1>4, <1>5, SaveType, StatusTypes DEF DispatchCreate, Reasons
  <2>2. creates' \in [Changes -> Nat]
    BY <1>5 DEF DispatchCreate, TypeOK
  <2> QED
    BY <1>2, <1>5, <2>1, <2>2, NoChangeAssumption DEF DispatchCreate, GoTo, TypeOK, bounds
<1>6. CASE CreateEnvError(c)
  <2>1. file' \in State /\ mem' \in State
    BY <1>4, <1>6, SaveType, StatusTypes DEF CreateEnvError, Reasons
  <2> QED BY <1>2, <1>6, <2>1 DEF CreateEnvError, TypeOK, proc, bounds, ghosts
<1>7. CASE CreateSpawnError(c)
  <2>1. file' \in State
    BY <1>4, <1>7, WithFacts, StatusTypes DEF CreateSpawnError, TypeOK, Reasons
  <2>2. mem' \in State
    BY <1>7, EmptyStateType DEF CreateSpawnError, Exit
  <2> QED
    BY <1>2, <1>7, <2>1, <2>2, RetriesAssumption
    DEF CreateSpawnError, Exit, TypeOK, Policies, bounds, ghosts
<1> QED BY <1>3, <1>5, <1>6, <1>7

(* What a create worker leaves, and how its outcome is taken.               *)
LEMMA TypeCreate == TypeOK /\ (CreateWork \/ CreateResult) => TypeOK'
<1> SUFFICES ASSUME TypeOK, CreateWork \/ CreateResult PROVE TypeOK'
  OBVIOUS
<1>1. cur \in Changes /\ mem.rec[cur] \in Record
  BY CurOf DEF CreateWork, CreateResult, Busy
<1>2. CASE CreateWork
  <2>1. tree' \in [Changes -> Tree]
    <3>1. PICK a \in ActiveDirs :
            tree' = [tree EXCEPT ![cur].active = a, ![cur].open = TRUE]
      BY <1>2 DEF CreateWork
    <3> QED BY <1>1, <3>1, TreeFacts DEF TypeOK
  <2> QED BY <1>1, <1>2, <2>1 DEF CreateWork, TypeOK, proc, bounds
<1>3. CASE CreateResult
  <2> DEFINE r == mem.rec[cur]
             result == IF CreateVerified THEN Pending([r EXCEPT !.created = TRUE])
                       ELSE IF r.attempts < CreateMaxAttempts THEN Pending(r)
                       ELSE Failed(r, "create_failed")
  <2>1. [r EXCEPT !.created = TRUE] \in Record
    BY <1>1 DEF Record
  <2>2. result \in Record
    BY <1>1, <2>1, StatusTypes DEF Reasons
  <2>3. Save(With(mem, cur, result))
    BY <1>3 DEF CreateResult
  <2>4. file' \in State /\ mem' \in State
    BY <1>1, <2>2, <2>3, SaveType
  <2> QED BY <1>3, <2>4, NoChangeAssumption DEF CreateResult, GoTo, TypeOK, repo, bounds, ghosts
<1> QED BY <1>2, <1>3

(* The steps of the direct loop that need no worker.                        *)
LEMMA TypeStage ==
  TypeOK /\ (StageBudget \/ StageDone \/ Dispatch \/ WorkerSpawnError) => TypeOK'
<1> SUFFICES ASSUME TypeOK, StageBudget \/ StageDone \/ Dispatch \/ WorkerSpawnError
             PROVE  TypeOK'
  OBVIOUS
<1>1. cur \in Changes /\ mem.rec[cur] \in Record
  BY CurOf DEF StageBudget, StageDone, Dispatch, WorkerSpawnError, Busy
<1>2. Running(mem.rec[cur]) \in Record /\ Launched(mem.rec[cur]) \in Record
  <2>1. Running(mem.rec[cur]) \in Record
    BY <1>1, StatusTypes DEF Reasons
  <2> QED BY <2>1, OutcomeTypes DEF Launched
<1>3. CASE StageBudget
  <2>1. file' \in State /\ mem' \in State
    BY <1>1, <1>3, SaveType, StatusTypes DEF StageBudget, Reasons
  <2> QED
    BY <1>1, <1>3, <2>1, RetriesAssumption
    DEF StageBudget, Visit, TypeOK, repo, bounds, ghosts
<1>4. CASE StageDone
  <2> DEFINE result == IF verify_direct_archive_done(mem.rec[cur], tree[cur])
                       THEN Done(mem.rec[cur]) ELSE Failed(mem.rec[cur], "evidence")
  <2>1. result \in Record
    BY <1>1, StatusTypes DEF Reasons
  <2>2. Save(With(mem, cur, result))
    BY <1>4 DEF StageDone
  <2>3. file' \in State /\ mem' \in State
    BY <1>1, <2>1, <2>2, SaveType
  <2> QED
    BY <1>1, <1>4, <2>3, RetriesAssumption
    DEF StageDone, Visit, TypeOK, repo, bounds, ghosts
<1>5. CASE Dispatch
  <2>1. file' \in State /\ mem' \in State
    BY <1>1, <1>2, <1>5, WithFacts DEF Dispatch, TypeOK
  <2>2. reviewed' \subseteq Changes
    BY <1>5 DEF Dispatch, TypeOK
  <2> QED
    BY <1>1, <1>5, <2>1, <2>2, NoChangeAssumption DEF Dispatch, GoTo, TypeOK, repo, bounds
<1>6. CASE WorkerSpawnError
  <2>1. /\ Failed(Launched(mem.rec[cur]), "spawn") \in Record
        /\ Failed(mem.rec[cur], "spawn") \in Record
    BY <1>1, <1>2, StatusTypes DEF Reasons
  <2>2. /\ With(mem, cur, Failed(Launched(mem.rec[cur]), "spawn")) \in State
        /\ With(mem, cur, Failed(mem.rec[cur], "spawn")) \in State
    BY <1>1, <2>1, WithFacts DEF TypeOK
  <2>3. file' \in State
    BY <1>6, <2>2 DEF WorkerSpawnError
  <2>4. mem' \in State
    BY <1>6, EmptyStateType DEF WorkerSpawnError, Exit
  <2> QED
    BY <1>6, <2>3, <2>4, RetriesAssumption
    DEF WorkerSpawnError, Exit, TypeOK, Policies, repo, bounds, ghosts
<1> QED BY <1>3, <1>4, <1>5, <1>6

(* What implement and archive workers do to the repository.                 *)
LEMMA TypeWork ==
  TypeOK /\ (ImplementWork \/ ArchiveMove \/ ArchiveCommit \/ ArchiveRestore) => TypeOK'
<1> SUFFICES ASSUME TypeOK, ImplementWork \/ ArchiveMove \/ ArchiveCommit \/ ArchiveRestore
             PROVE  TypeOK'
  OBVIOUS
<1>1. cur \in Changes
  BY CurOf DEF ImplementWork, ArchiveMove, ArchiveCommit, ArchiveRestore, WorkerOn, Busy
<1>2. tree' \in [Changes -> Tree]
  <2>1. CASE ImplementWork
    <3>1. PICK o \in BOOLEAN : tree' = [tree EXCEPT ![cur].open = o]
      BY <2>1 DEF ImplementWork
    <3> QED BY <1>1, <3>1, TreeFacts DEF TypeOK, ActiveDirs
  <2>2. CASE ArchiveMove
    BY <1>1, <2>2, TreeFacts DEF ArchiveMove, TypeOK, ActiveDirs
  <2>3. CASE ArchiveCommit
    BY <1>1, <2>3, TreeFacts DEF ArchiveCommit, TypeOK, ActiveDirs
  <2>4. CASE ArchiveRestore
    BY <1>1, <2>4, TreeFacts DEF ArchiveRestore, TypeOK, ActiveDirs
  <2> QED BY <2>1, <2>2, <2>3, <2>4
<1>3. dirty' \subseteq Changes
  BY <1>1 DEF ImplementWork, ArchiveMove, ArchiveCommit, ArchiveRestore, TypeOK
<1> QED
  BY <1>2, <1>3
  DEF ImplementWork, ArchiveMove, ArchiveCommit, ArchiveRestore, TypeOK, proc, bounds, ghosts

(* Taking a result that is a record.                                        *)
LEMMA ApplyType ==
  ASSUME TypeOK, cur \in Changes, NEW r \in Record, Apply(r)
  PROVE  /\ file' \in State /\ mem' \in State
         /\ pc' \in {"pick", "stage"} /\ (pc' = "stage" <=> cur' # NoChange)
         /\ cur' \in {cur, NoChange} /\ visited' \subseteq Changes /\ tries' = 0
         /\ UNCHANGED <<policy, mode, repo, invokes, bounds>>
<1>1. file' \in State /\ mem' \in State
  BY SaveType DEF Apply
<1> QED BY <1>1, NoChangeAssumption DEF Apply, Visit, TypeOK

(* The three result handlers.                                               *)
LEMMA TypeResult ==
  TypeOK /\ (ImplementResult \/ ReviewResult \/ ArchiveResult) => TypeOK'
<1> SUFFICES ASSUME TypeOK, ImplementResult \/ ReviewResult \/ ArchiveResult
             PROVE  TypeOK'
  OBVIOUS
<1>1. cur \in Changes /\ mem.rec[cur] \in Record /\ tree[cur] \in Tree
  BY CurOf DEF ImplementResult, ReviewResult, ArchiveResult, WorkerOn, Busy
<1>2. \E r \in Record : Apply(r)
  <2>1. CASE ImplementResult
    <3>1. PICK p \in ImplementPayloads :
            Apply(apply_implement_result(mem.rec[cur], tree[cur], p))
      BY <2>1 DEF ImplementResult
    <3> QED BY <1>1, <3>1, ImplementType
  <2>2. CASE ReviewResult
    <3>1. PICK p \in Reviews : Apply(apply_review_result(mem.rec[cur], p, policy))
      BY <2>2 DEF ReviewResult
    <3>2. p \in ReviewPayloads /\ policy \in Policies
      BY ReviewsAssumption DEF TypeOK
    <3> QED BY <1>1, <3>1, <3>2, ReviewType
  <2>3. CASE ArchiveResult
    <3>1. PICK p \in ArchivePayloads, checks_ok \in BOOLEAN :
            Apply(apply_archive_result(mem.rec[cur], tree[cur], p, checks_ok, dirty = {}))
      BY <2>3 DEF ArchiveResult
    <3> QED BY <1>1, <3>1, ArchiveType
  <2> QED BY <2>1, <2>2, <2>3
<1>3. PICK r \in Record : Apply(r)
  BY <1>2
<1>4. /\ file' \in State /\ mem' \in State
      /\ pc' \in {"pick", "stage"} /\ (pc' = "stage" <=> cur' # NoChange)
      /\ cur' \in {cur, NoChange} /\ visited' \subseteq Changes /\ tries' = 0
      /\ UNCHANGED <<policy, mode, repo, invokes, bounds>>
  BY <1>1, <1>3, ApplyType
<1>5. /\ reviewed' \subseteq Changes
      /\ impls' \in [Changes -> Nat] /\ creates' \in [Changes -> Nat]
  BY <1>1 DEF ImplementResult, ReviewResult, ArchiveResult, ghosts, TypeOK
<1> QED
  BY <1>1, <1>4, <1>5, RetriesAssumption DEF TypeOK, repo, bounds

(* Outcomes without a payload.                                              *)
LEMMA TypeNoPayload == TypeOK /\ (InvalidOutput \/ WorkerTimeout) => TypeOK'
<1> SUFFICES ASSUME TypeOK, InvalidOutput \/ WorkerTimeout PROVE TypeOK'
  OBVIOUS
<1>1. cur \in Changes /\ mem.rec[cur] \in Record
  BY CurOf DEF InvalidOutput, WorkerTimeout, Busy
<1>2. OutputInvalid(mem.rec[cur]) \in Record /\ Failed(mem.rec[cur], "timeout") \in Record
  BY <1>1, OutcomeTypes, StatusTypes DEF Reasons
<1>3. file' \in State /\ mem' \in State
  BY <1>1, <1>2, SaveType DEF InvalidOutput, WorkerTimeout, TypeOK
<1> QED
  BY <1>1, <1>3, RetriesAssumption
  DEF InvalidOutput, WorkerTimeout, Visit, TypeOK, repo, bounds, ghosts

(* The operator's commands and edits.                                       *)
LEMMA TypeOperator == TypeOK /\ Operator => TypeOK'
<1> SUFFICES ASSUME TypeOK, Operator PROVE TypeOK'
  OBVIOUS
<1>1. CASE CommitEdits
  BY <1>1, BoundsAssumption DEF CommitEdits, Between, TypeOK, proc, ghosts
<1>2. ASSUME NEW c \in Changes, Approve(c)
      PROVE  TypeOK'
  <2>1. file' \in State
    BY <1>2 DEF Approve, TypeOK, State
  <2> QED BY <1>2, <2>1 DEF Approve, TypeOK, repo, proc, bounds, ghosts
<1>3. ASSUME NEW c \in Changes, Accept(c)
      PROVE  TypeOK'
  <2>1. [file.rec[c] EXCEPT !.accepted = TRUE] \in Record
    BY RecordOf DEF Record
  <2>2. file' \in State
    BY <1>3, <2>1, WithFacts DEF Accept, TypeOK
  <2> QED BY <1>3, <2>2 DEF Accept, TypeOK, repo, proc, bounds, ghosts
<1>4. ASSUME NEW c \in Changes, Reset(c)
      PROVE  TypeOK'
  <2>1. file' \in State
    BY <1>4, NewRecordType, WithFacts DEF Reset, TypeOK
  <2>2. edits' \in 0 .. MaxEdits
    BY <1>4, BoundsAssumption DEF Reset, Between, TypeOK
  <2>3. impls' \in [Changes -> Nat] /\ creates' \in [Changes -> Nat]
    BY <1>4 DEF Reset, TypeOK
  <2> QED BY <1>4, <2>1, <2>2, <2>3 DEF Reset, TypeOK, repo, proc
<1>5. ASSUME NEW c \in Changes, AuthorByHand(c) \/ DeleteChange(c) \/ RevertArchive(c)
      PROVE  TypeOK'
  <2>1. tree' \in [Changes -> Tree]
    <3>1. CASE AuthorByHand(c)
      BY <3>1, TreeFacts DEF AuthorByHand, TypeOK, ActiveDirs
    <3>2. CASE DeleteChange(c)
      BY <3>2, TreeFacts DEF DeleteChange, TypeOK, ActiveDirs
    <3>3. CASE RevertArchive(c)
      BY <3>3, TreeFacts, IgnoredAssumption DEF RevertArchive, TypeOK, ActiveDirs
    <3> QED BY <1>5, <3>1, <3>2, <3>3
  <2>2. edits' \in 0 .. MaxEdits
    BY <1>5, BoundsAssumption DEF AuthorByHand, DeleteChange, RevertArchive, Between, TypeOK
  <2> QED
    BY <1>5, <2>1, <2>2 DEF AuthorByHand, DeleteChange, RevertArchive, TypeOK, proc, ghosts
<1>6. ASSUME NEW c \in Changes, ConfigureCreate(c)
      PROVE  TypeOK'
  <2>1. edits' \in 0 .. MaxEdits
    BY <1>6, BoundsAssumption DEF ConfigureCreate, Between, TypeOK
  <2> QED BY <1>6, <2>1 DEF ConfigureCreate, TypeOK, repo, proc, ghosts
<1> QED BY <1>1, <1>2, <1>3, <1>4, <1>5, <1>6 DEF Operator

(* Every step keeps the types.                                              *)
LEMMA TypeNext == TypeOK /\ [Next]_vars => TypeOK'
<1> SUFFICES ASSUME TypeOK, [Next]_vars PROVE TypeOK'
  OBVIOUS
<1>1. CASE StartRun
  BY <1>1, TypeStartRun
<1>2. CASE Engine
  <2>1. CASE Pick
    BY <2>1, TypeLeave, TypePicked, TypeCreateStart DEF Pick
  <2>2. CASE CreateResult
    BY <2>2, TypeCreate
  <2>3. CASE StageBudget \/ StageDone \/ Dispatch \/ WorkerSpawnError
    BY <2>3, TypeStage
  <2>4. CASE ImplementResult \/ ReviewResult \/ ArchiveResult
    BY <2>4, TypeResult
  <2>5. CASE InvalidOutput \/ WorkerTimeout
    BY <2>5, TypeNoPayload
  <2> QED BY <1>2, <2>1, <2>2, <2>3, <2>4, <2>5 DEF Engine
<1>3. CASE Worker
  BY <1>3, TypeCreate, TypeWork DEF Worker
<1>4. CASE Interrupt
  BY <1>4, TypeLeave
<1>5. CASE Operator
  BY <1>5, TypeOperator
<1>6. CASE UNCHANGED vars
  BY <1>6 DEF TypeOK, vars, proc, repo, bounds, ghosts
<1> QED BY <1>1, <1>2, <1>3, <1>4, <1>5, <1>6 DEF Next

(* TypeOK is an invariant of every plan: in particular no sequence of       *)
(* results, crashes and resets takes a round over max_rounds or the create  *)
(* attempts over create_max_attempts.                                       *)
THEOREM TypeCorrect == Spec => []TypeOK
<1>1. Init => TypeOK
  BY TypeInit
<1>2. TypeOK /\ [Next]_vars => TypeOK'
  BY TypeNext
<1> QED BY <1>1, <1>2, PTL DEF Spec

-----------------------------------------------------------------------------
(* The order of dispatch.  DispatchOrder is not inductive: it needs that    *)
(* every change the run holds as done, and not only a dependency of the     *)
(* current one, is verified on disk, and that what a worker moves on disk   *)
(* belongs to a change that is not done.                                    *)

DoneVerified ==
  pc # "idle" =>
    \A c \in Changes :
      mem.rec[c].status = "done" => verify_direct_archive_done(mem.rec[c], tree[c])

CurUnderway == Busy => Underway(mem.rec[cur])

DepsDone == Busy => \A d \in Deps[cur] : d \in Enabled /\ mem.rec[d].status = "done"

OrderInv == DoneVerified /\ CurUnderway /\ DepsDone

(* A step that leaves no engine running has nothing to show.                *)
LEMMA OrderIdle ==
  ASSUME pc' = "idle"
  PROVE  OrderInv'
  BY DEF OrderInv, DoneVerified, CurUnderway, DepsDone, Busy

(* Nor has one that leaves the engine, its memory and the tree alone.       *)
LEMMA OrderStutter ==
  ASSUME OrderInv, UNCHANGED <<mem, tree, pc, cur>>
  PROVE  OrderInv'
  BY DEF OrderInv, DoneVerified, CurUnderway, DepsDone, Busy, Underway

(* Changing one record and the evidence of the same change keeps the others *)
(* verified.                                                                *)
LEMMA VerifiedStep ==
  ASSUME TypeOK, DoneVerified, pc # "idle",
         NEW c \in Changes, NEW r \in Record, mem' = With(mem, c, r),
         \A d \in Changes \ {c} : tree'[d] = tree[d],
         r.status = "done" => verify_direct_archive_done(r, tree'[c])
  PROVE  DoneVerified'
<1>1. mem'.rec[c] = r /\ \A d \in Changes \ {c} : mem'.rec[d] = mem.rec[d]
  BY WithFacts DEF TypeOK
<1>2. ASSUME NEW d \in Changes, mem'.rec[d].status = "done"
      PROVE  verify_direct_archive_done(mem'.rec[d], tree'[d])
  <2>1. CASE d = c
    BY <1>1, <1>2, <2>1
  <2>2. CASE d # c
    BY <1>1, <1>2, <2>2 DEF DoneVerified
  <2> QED BY <2>1, <2>2
<1> QED BY <1>2 DEF DoneVerified

(* A change that is ready, or only waits for approval, is pending and its   *)
(* dependencies are done.                                                   *)
LEMMA ReadyFacts ==
  ASSUME TypeOK, NEW c \in Changes, Picked(c)
  PROVE  /\ mem.rec[c].status = "pending"
         /\ \A d \in Deps[c] : d \in Enabled /\ mem.rec[d].status = "done"
<1>1. classify(mem, c) \in {"ready", "awaiting_approval"}
  BY DEF Picked, Next1, Ready
<1>2. mem.rec[c].status = "pending"
  <2>1. mem.rec[c].status \in Statuses
    BY RecordOf DEF Record
  <2> QED BY <1>1, <2>1 DEF classify, Statuses
<1> QED BY <1>1, <1>2 DEF classify, DepDone

(* A new run holds as done only what reconcile has verified.                *)
LEMMA OrderStartRun == TypeOK /\ StartRun => OrderInv'
<1> SUFFICES ASSUME TypeOK, StartRun PROVE OrderInv'
  OBVIOUS
<1>1. mem' = Reconciled(file) /\ tree' = tree /\ pc' = "pick"
  BY DEF StartRun, Save, repo
<1>2. ASSUME NEW c \in Changes
      PROVE  mem'.rec[c] = reconcile(file.rec[c], tree[c], c \in invokes)
  BY <1>1 DEF Reconciled, TypeOK, State
<1>3. ASSUME NEW c \in Changes, mem'.rec[c].status = "done"
      PROVE  verify_direct_archive_done(mem'.rec[c], tree'[c])
  <2>1. file.rec[c] \in Record /\ tree[c] \in Tree
    BY RecordOf
  <2> QED BY <1>1, <1>2, <1>3, <2>1, ReconciledDone
<1> QED BY <1>1, <1>3 DEF OrderInv, DoneVerified, CurUnderway, DepsDone, Busy

(* A picked change that fails before a worker starts.                       *)
LEMMA OrderFailPicked ==
  ASSUME TypeOK, OrderInv, NEW c \in Changes, NEW r \in Record, r.status = "failed",
         Picked(c), mem' = With(mem, c, r), pc' = pc, cur' = cur,
         \A d \in Changes \ {c} : tree'[d] = tree[d]
  PROVE  OrderInv'
<1>1. pc = "pick" /\ pc' = "pick"
  BY DEF Picked
<1>2. DoneVerified'
  BY <1>1, VerifiedStep DEF OrderInv
<1> QED BY <1>1, <1>2 DEF OrderInv, CurUnderway, DepsDone, Busy

(* Clearing a scaffold touches the picked change only.                      *)
LEMMA PreparedTree ==
  ASSUME TypeOK, NEW c \in Changes, CreatePrepared(c)
  PROVE  \A d \in Changes \ {c} : tree'[d] = tree[d]
  BY DEF CreatePrepared, TypeOK

(* Picking, whatever becomes of the picked change.                          *)
LEMMA OrderPick == TypeOK /\ OrderInv /\ Pick => OrderInv'
<1> SUFFICES ASSUME TypeOK, OrderInv, Pick PROVE OrderInv'
  OBVIOUS
<1>1. CASE Finish \/ StopEarly \/ RefuseDirty
  BY <1>1, OrderIdle DEF Finish, StopEarly, RefuseDirty, Exit
<1>2. ASSUME NEW c \in Changes, CreateUnconfigured(c) \/ CreateDebris(c)
      PROVE  OrderInv'
  <2>1. PICK why \in Reasons : FailPicked(c, why)
    BY <1>2 DEF CreateUnconfigured, CreateDebris, Reasons
  <2>2. Failed(mem.rec[c], why) \in Record /\ Failed(mem.rec[c], why).status = "failed"
    BY RecordOf, StatusTypes, OthersNotDone
  <2>3. Picked(c) /\ tree' = tree
    BY <1>2 DEF CreateUnconfigured, CreateDebris
  <2> QED BY <2>1, <2>2, <2>3, OrderFailPicked DEF FailPicked, Save, proc
<1>3. ASSUME NEW c \in Changes, CreateExhausted(c)
      PROVE  OrderInv'
  <2>1. /\ Failed(mem.rec[c], "create_exhausted") \in Record
        /\ Failed(mem.rec[c], "create_exhausted").status = "failed"
    BY RecordOf, StatusTypes, OthersNotDone DEF Reasons
  <2>2. Picked(c) /\ \A d \in Changes \ {c} : tree'[d] = tree[d]
    BY <1>3, PreparedTree DEF CreateExhausted, CreatePrepared
  <2> QED BY <1>3, <2>1, <2>2, OrderFailPicked DEF CreateExhausted, FailPicked, Save, proc
<1>4. ASSUME NEW c \in Changes, CreateEnvError(c)
      PROVE  OrderInv'
  <2>1. CountedAttempt(mem.rec[c]) \in Record
    BY <1>4, RecordOf, CountedType DEF CreateEnvError, CreateStarts
  <2>2. /\ Failed(CountedAttempt(mem.rec[c]), "spawn") \in Record
        /\ Failed(CountedAttempt(mem.rec[c]), "spawn").status = "failed"
    BY <2>1, StatusTypes, OthersNotDone DEF Reasons
  <2>3. Picked(c) /\ \A d \in Changes \ {c} : tree'[d] = tree[d]
    BY <1>4, PreparedTree DEF CreateEnvError, CreateStarts, CreatePrepared
  <2> QED BY <1>4, <2>2, <2>3, OrderFailPicked DEF CreateEnvError, Save, proc
<1>5. ASSUME NEW c \in Changes, CreateSpawnError(c)
      PROVE  OrderInv'
  BY <1>5, OrderIdle DEF CreateSpawnError, Exit
<1>6. ASSUME NEW c \in Changes, DispatchCreate(c)
      PROVE  OrderInv'
  <2> DEFINE r == Running(CountedAttempt(mem.rec[c]))
  <2>1. CountedAttempt(mem.rec[c]) \in Record
    BY <1>6, RecordOf, CountedType DEF DispatchCreate, CreateStarts
  <2>2. r \in Record /\ r.status = "running"
    BY <2>1, StatusTypes, OthersNotDone DEF Reasons
  <2>3. Picked(c) /\ \A d \in Changes \ {c} : tree'[d] = tree[d]
    BY <1>6, PreparedTree DEF DispatchCreate, CreateStarts, CreatePrepared
  <2>4. pc = "pick" /\ mem' = With(mem, c, r) /\ pc' = "create" /\ cur' = c
    BY <1>6, <2>3 DEF DispatchCreate, Picked, Save, GoTo
  <2>5. DoneVerified'
    BY <2>2, <2>3, <2>4, VerifiedStep DEF OrderInv
  <2>6. mem'.rec[c] = r /\ \A d \in Changes \ {c} : mem'.rec[d] = mem.rec[d]
    BY <2>2, <2>4, WithFacts DEF TypeOK
  <2>7. CurUnderway'
    BY <2>2, <2>4, <2>6 DEF CurUnderway, Underway
  <2>8. DepsDone'
    <3>1. \A d \in Deps[c] : d \in Changes \ {c} /\ d \in Enabled /\ mem.rec[d].status = "done"
      BY <2>3, ReadyFacts, DepsAssumption
    <3> QED BY <2>4, <2>6, <3>1 DEF DepsDone
  <2> QED BY <2>5, <2>7, <2>8 DEF OrderInv
<1>7. ASSUME NEW c \in Changes, SkipAuthored(c)
      PROVE  OrderInv'
  BY <1>7 DEF SkipAuthored, Picked, Visit, repo, OrderInv, DoneVerified, CurUnderway, DepsDone, Busy
<1>8. ASSUME NEW c \in Changes, Drive(c)
      PROVE  OrderInv'
  <2>1. Picked(c) /\ pc' = "stage" /\ cur' = c /\ mem' = mem /\ tree' = tree
    BY <1>8 DEF Drive, GoTo, repo
  <2>2. /\ mem.rec[c].status = "pending"
        /\ \A d \in Deps[c] : d \in Enabled /\ mem.rec[d].status = "done"
    BY <2>1, ReadyFacts
  <2> QED
    BY <2>1, <2>2
    DEF Picked, OrderInv, DoneVerified, CurUnderway, DepsDone, Busy, Underway
<1> QED BY <1>1, <1>2, <1>3, <1>4, <1>5, <1>6, <1>7, <1>8 DEF Pick

(* A worker only moves the evidence of a change that is not done.           *)
LEMMA OrderWork == TypeOK /\ OrderInv /\ Worker => OrderInv'
<1> SUFFICES ASSUME TypeOK, OrderInv, Worker PROVE OrderInv'
  OBVIOUS
<1>1. Busy /\ cur \in Changes /\ mem' = mem /\ pc' = pc /\ cur' = cur
  BY CurOf DEF Worker, CreateWork, ImplementWork, ArchiveMove, ArchiveCommit, ArchiveRestore,
     WorkerOn, Busy, proc
<1>2. \A d \in Changes \ {cur} : tree'[d] = tree[d]
  BY <1>1 DEF Worker, CreateWork, ImplementWork, ArchiveMove, ArchiveCommit, ArchiveRestore, TypeOK
<1>3. mem.rec[cur].status # "done"
  BY <1>1 DEF OrderInv, CurUnderway, Underway
<1>4. DoneVerified'
  BY <1>1, <1>2, <1>3 DEF OrderInv, DoneVerified
<1> QED BY <1>1, <1>4 DEF OrderInv, CurUnderway, DepsDone, Busy, Underway

(* A step that settles the change being worked on, or leaves it underway.   *)
LEMMA OrderSettle ==
  ASSUME TypeOK, OrderInv, Busy, NEW r \in Record, mem' = With(mem, cur, r), tree' = tree,
         \/ pc' = "pick" /\ cur' = NoChange
         \/ pc' \in {"stage", "worker"} /\ cur' = cur /\ r.status \in {"pending", "running"},
         r.status = "done" => verify_direct_archive_done(r, tree[cur])
  PROVE  OrderInv'
<1>1. cur \in Changes /\ pc # "idle" /\ pc' # "idle"
  BY CurOf DEF Busy
<1>2. DoneVerified'
  BY <1>1, VerifiedStep DEF OrderInv
<1>3. mem'.rec[cur] = r /\ \A d \in Changes \ {cur} : mem'.rec[d] = mem.rec[d]
  BY <1>1, WithFacts DEF TypeOK
<1>4. CASE pc' = "pick"
  BY <1>2, <1>4 DEF OrderInv, CurUnderway, DepsDone, Busy
<1>5. CASE pc' # "pick"
  <2>1. cur' = cur /\ r.status \in {"pending", "running"}
    BY <1>5
  <2>2. CurUnderway'
    BY <1>3, <2>1 DEF CurUnderway, Underway
  <2>3. mem.rec[cur].status # "done"
    BY DEF OrderInv, CurUnderway, Underway
  <2>4. \A d \in Deps[cur] : d \in Changes \ {cur} /\ d \in Enabled /\ mem.rec[d].status = "done"
    BY <1>1, <2>3, DepsAssumption DEF OrderInv, DepsDone
  <2> QED BY <1>2, <1>3, <2>1, <2>2, <2>4 DEF OrderInv, DepsDone
<1> QED BY <1>4, <1>5

(* Taking a result keeps the order when a done result is verified.          *)
LEMMA OrderApply ==
  ASSUME TypeOK, OrderInv, Busy, NEW r \in Record, Apply(r),
         r.status = "done" => verify_direct_archive_done(r, tree[cur])
  PROVE  OrderInv'
<1>1. mem' = With(mem, cur, r) /\ tree' = tree
  BY DEF Apply, Save, repo
<1>2. \/ pc' = "pick" /\ cur' = NoChange
      \/ pc' \in {"stage", "worker"} /\ cur' = cur /\ r.status \in {"pending", "running"}
  BY DEF Apply, Visit
<1> QED BY <1>1, <1>2, OrderSettle

(* The engine's steps on the change being worked on.                        *)
LEMMA OrderEngine ==
  ASSUME TypeOK, OrderInv, Engine
  PROVE  OrderInv'
<1>1. ASSUME Busy
      PROVE  cur \in Changes /\ mem.rec[cur] \in Record /\ tree[cur] \in Tree
  BY <1>1, CurOf
<1>2. CASE Pick
  BY <1>2, OrderPick
<1>3. CASE CreateResult
  <2> DEFINE r == mem.rec[cur]
             result == IF CreateVerified THEN Pending([r EXCEPT !.created = TRUE])
                       ELSE IF r.attempts < CreateMaxAttempts THEN Pending(r)
                       ELSE Failed(r, "create_failed")
  <2>1. Busy
    BY <1>3 DEF CreateResult, Busy
  <2>2. [r EXCEPT !.created = TRUE] \in Record
    BY <1>1, <2>1 DEF Record
  <2>3. result \in Record /\ result.status # "done"
    BY <1>1, <2>1, <2>2, StatusTypes, OthersNotDone DEF Reasons
  <2>4. mem' = With(mem, cur, result) /\ tree' = tree /\ pc' = "pick" /\ cur' = NoChange
    BY <1>3 DEF CreateResult, Save, GoTo, repo
  <2> QED BY <2>1, <2>3, <2>4, OrderSettle
<1>4. CASE StageBudget
  <2>1. Busy
    BY <1>4 DEF StageBudget, Busy
  <2>2. Pending(mem.rec[cur]) \in Record /\ Pending(mem.rec[cur]).status = "pending"
    BY <1>1, <2>1, StatusTypes, OthersNotDone DEF Reasons
  <2>3. /\ mem' = With(mem, cur, Pending(mem.rec[cur])) /\ tree' = tree
        /\ pc' = "pick" /\ cur' = NoChange
    BY <1>4 DEF StageBudget, Save, Visit, repo
  <2> QED BY <2>1, <2>2, <2>3, OrderSettle
<1>5. CASE StageDone
  <2> DEFINE result == IF verify_direct_archive_done(mem.rec[cur], tree[cur])
                       THEN Done(mem.rec[cur]) ELSE Failed(mem.rec[cur], "evidence")
  <2>1. Busy
    BY <1>5 DEF StageDone, Busy
  <2>2. result \in Record
    BY <1>1, <2>1, StatusTypes DEF Reasons
  <2>3. result.status = "done" => verify_direct_archive_done(result, tree[cur])
    <3>1. Failed(mem.rec[cur], "evidence").status = "failed"
      BY <1>1, <2>1, OthersNotDone
    <3>2. Done(mem.rec[cur]).archive = mem.rec[cur].archive
      BY <1>1, <2>1 DEF Done, Record
    <3> QED BY <3>1, <3>2, VerifyReadsArchive
  <2>4. mem' = With(mem, cur, result) /\ tree' = tree /\ pc' = "pick" /\ cur' = NoChange
    BY <1>5 DEF StageDone, Save, Visit, repo
  <2> QED BY <2>1, <2>2, <2>3, <2>4, OrderSettle
<1>6. CASE Dispatch
  <2>1. Busy
    BY <1>6 DEF Dispatch, Busy
  <2>2. Running(mem.rec[cur]) \in Record
    BY <1>1, <2>1, StatusTypes DEF Reasons
  <2>3. Launched(mem.rec[cur]) \in Record /\ Launched(mem.rec[cur]).status = "running"
    BY <1>1, <2>1, <2>2, OutcomeTypes, OthersNotDone DEF Launched
  <2>4. /\ mem' = With(mem, cur, Launched(mem.rec[cur])) /\ tree' = tree
        /\ pc' = "worker" /\ cur' = cur
    BY <1>6 DEF Dispatch, GoTo, repo
  <2> QED BY <2>1, <2>3, <2>4, OrderSettle
<1>7. CASE WorkerSpawnError
  BY <1>7, OrderIdle DEF WorkerSpawnError, Exit
<1>8. CASE ImplementResult
  <2>1. Busy
    BY <1>8 DEF ImplementResult, WorkerOn, Busy
  <2>2. PICK p \in ImplementPayloads :
          Apply(apply_implement_result(mem.rec[cur], tree[cur], p))
    BY <1>8 DEF ImplementResult
  <2> QED BY <1>1, <2>1, <2>2, ImplementType, ImplementNotDone, OrderApply
<1>9. CASE ReviewResult
  <2>1. Busy
    BY <1>9 DEF ReviewResult, WorkerOn, Busy
  <2>2. PICK p \in Reviews : Apply(apply_review_result(mem.rec[cur], p, policy))
    BY <1>9 DEF ReviewResult
  <2>3. p \in ReviewPayloads /\ policy \in Policies
    BY ReviewsAssumption DEF TypeOK
  <2> QED BY <1>1, <2>1, <2>2, <2>3, ReviewType, ReviewNotDone, OrderApply
<1>10. CASE ArchiveResult
  <2>1. Busy
    BY <1>10 DEF ArchiveResult, WorkerOn, Busy
  <2>2. PICK p \in ArchivePayloads, checks_ok \in BOOLEAN :
          Apply(apply_archive_result(mem.rec[cur], tree[cur], p, checks_ok, dirty = {}))
    BY <1>10 DEF ArchiveResult
  <2> QED BY <1>1, <2>1, <2>2, ArchiveType, ArchivedDone, OrderApply
<1>11. CASE InvalidOutput
  <2>1. CASE UNCHANGED <<mem, tree, pc, cur>>
    BY <2>1, OrderStutter
  <2>2. CASE Save(With(mem, cur, OutputInvalid(mem.rec[cur]))) /\ Visit(cur)
    <3>1. Busy
      BY <1>11 DEF InvalidOutput, Busy
    <3>2. /\ OutputInvalid(mem.rec[cur]) \in Record
          /\ OutputInvalid(mem.rec[cur]).status = "failed"
      BY <1>1, <3>1, OutcomeTypes, OthersNotDone
    <3> QED BY <1>11, <2>2, <3>1, <3>2, OrderSettle DEF InvalidOutput, Save, Visit, repo
  <2> QED BY <1>11, <2>1, <2>2 DEF InvalidOutput, repo
<1>12. CASE WorkerTimeout
  <2>1. Busy
    BY <1>12 DEF WorkerTimeout, Busy
  <2>2. "timeout" \in Reasons
    BY DEF Reasons
  <2>3. /\ Failed(mem.rec[cur], "timeout") \in Record
        /\ Failed(mem.rec[cur], "timeout").status = "failed"
    BY <1>1, <2>1, <2>2, StatusTypes, OthersNotDone
  <2> QED BY <1>12, <2>1, <2>3, OrderSettle DEF WorkerTimeout, Save, Visit, repo
<1> QED
  BY <1>2, <1>3, <1>4, <1>5, <1>6, <1>7, <1>8, <1>9, <1>10, <1>11, <1>12 DEF Engine

(* The operator's edits wait for the run to end; the gate commands touch    *)
(* neither the engine nor the tree.                                         *)
LEMMA OrderOperator == OrderInv /\ Operator => OrderInv'
<1> SUFFICES ASSUME OrderInv, Operator PROVE OrderInv'
  OBVIOUS
<1>1. \/ pc' = "idle"
      \/ UNCHANGED <<mem, tree, pc, cur>>
  BY DEF Operator, CommitEdits, Approve, Accept, Reset, AuthorByHand, DeleteChange,
     RevertArchive, ConfigureCreate, Between, proc, repo
<1> QED BY <1>1, OrderIdle, OrderStutter

(* OrderInv is preserved by every step.                                     *)
LEMMA OrderNext == TypeOK /\ OrderInv /\ [Next]_vars => OrderInv'
<1> SUFFICES ASSUME TypeOK, OrderInv, [Next]_vars PROVE OrderInv'
  OBVIOUS
<1>1. CASE StartRun
  BY <1>1, OrderStartRun
<1>2. CASE Engine
  BY <1>2, OrderEngine
<1>3. CASE Worker
  BY <1>3, OrderWork
<1>4. CASE Interrupt
  BY <1>4, OrderIdle DEF Interrupt, Exit
<1>5. CASE Operator
  BY <1>5, OrderOperator
<1>6. CASE UNCHANGED vars
  BY <1>6, OrderStutter DEF vars, proc, repo
<1> QED BY <1>1, <1>2, <1>3, <1>4, <1>5, <1>6 DEF Next

(* Whatever the plan, the limits, the review answers, the crashes and the   *)
(* operator's edits: a worker is only dispatched for a change whose         *)
(* dependencies are all enabled, done and verified on disk.                 *)
THEOREM DispatchInOrder == Spec => []DispatchOrder
<1>1. Init => TypeOK /\ OrderInv
  BY TypeInit DEF Init, OrderInv, DoneVerified, CurUnderway, DepsDone, Busy
<1>2. TypeOK /\ OrderInv /\ [Next]_vars => (TypeOK /\ OrderInv)'
  BY TypeNext, OrderNext
<1>3. TypeOK /\ OrderInv => DispatchOrder
  <2> SUFFICES ASSUME TypeOK, OrderInv, Busy, NEW d \in Deps[cur]
               PROVE  /\ d \in Enabled /\ mem.rec[d].status = "done"
                      /\ verify_direct_archive_done(mem.rec[d], tree[d])
    BY DEF DispatchOrder
  <2>1. cur \in Changes /\ d \in Changes /\ pc # "idle"
    BY CurOf, DepsAssumption DEF Busy
  <2> QED BY <2>1 DEF OrderInv, DepsDone, DoneVerified
<1> QED BY <1>1, <1>2, <1>3, PTL DEF Spec

(* No change is ever worked on over another one's uncommitted edits: the    *)
(* check before a pick is enough, whatever workers leave behind.            *)
THEOREM NoBleed == Spec => []DirtyIsMine
<1>1. Init => DirtyIsMine
  BY DEF Init, DirtyIsMine
<1>2. DirtyIsMine /\ [Next]_vars => DirtyIsMine'
  <2> SUFFICES ASSUME DirtyIsMine, [Next]_vars PROVE DirtyIsMine'
    OBVIOUS
  <2>1. CASE UNCHANGED <<dirty, pc, cur>>
    BY <2>1 DEF DirtyIsMine, Busy
  <2>2. CASE pc' \in {"idle", "pick"}
    BY <2>2 DEF DirtyIsMine, Busy
  <2>3. ASSUME NEW c \in Changes, Drive(c) \/ DispatchCreate(c)
        PROVE  DirtyIsMine'
    BY <2>3 DEF Drive, DispatchCreate, CreateStarts, CreatePrepared, Picked, GoTo, repo,
       DirtyIsMine
  <2>4. CASE Worker
    BY <2>4 DEF Worker, CreateWork, ImplementWork, ArchiveMove, ArchiveCommit, ArchiveRestore,
       WorkerOn, DirtyIsMine, Busy, proc
  <2>5. CASE Dispatch
    BY <2>5 DEF Dispatch, GoTo, DirtyIsMine, Busy, repo
  <2>6. ASSUME NEW r, pc = "worker", Apply(r)
        PROVE  DirtyIsMine'
    BY <2>6 DEF Apply, Visit, DirtyIsMine, Busy, repo
  <2>7. CASE ImplementResult \/ ReviewResult \/ ArchiveResult
    BY <2>6, <2>7 DEF ImplementResult, ReviewResult, ArchiveResult, WorkerOn
  <2>8. CASE Operator
    <3>1. pc' = "idle" \/ UNCHANGED <<dirty, pc, cur>>
      BY <2>8 DEF Operator, CommitEdits, Approve, Accept, Reset, AuthorByHand, DeleteChange,
         RevertArchive, ConfigureCreate, Between, proc, repo
    <3> QED BY <2>1, <2>2, <3>1
  <2>9. CASE StartRun \/ Interrupt
    BY <2>2, <2>9 DEF StartRun, Interrupt, Exit
  <2>10. CASE StageBudget \/ StageDone \/ WorkerTimeout \/ WorkerSpawnError \/ CreateResult
    BY <2>2, <2>10
    DEF StageBudget, StageDone, WorkerTimeout, WorkerSpawnError, CreateResult, Visit, GoTo, Exit
  <2>11. CASE InvalidOutput
    BY <2>1, <2>2, <2>11 DEF InvalidOutput, Visit, repo
  <2>12. CASE Pick
    <3>1. CASE Finish \/ StopEarly \/ RefuseDirty
      BY <2>2, <3>1 DEF Finish, StopEarly, RefuseDirty, Exit
    <3>2. ASSUME NEW c \in Changes,
                 \/ CreateUnconfigured(c) \/ CreateDebris(c) \/ CreateExhausted(c)
                 \/ CreateEnvError(c) \/ CreateSpawnError(c) \/ SkipAuthored(c)
          PROVE  pc' \in {"idle", "pick"}
      BY <3>2 DEF CreateUnconfigured, CreateDebris, CreateExhausted, CreateEnvError,
         CreateSpawnError, SkipAuthored, CreateStarts, CreatePrepared, Picked, FailPicked,
         Visit, Exit, proc
    <3> QED BY <2>2, <2>3, <2>12, <3>1, <3>2 DEF Pick
  <2>13. CASE UNCHANGED vars
    BY <2>1, <2>13 DEF vars, proc, repo
  <2> QED
    BY <2>4, <2>5, <2>7, <2>8, <2>9, <2>10, <2>11, <2>12, <2>13 DEF Next, Engine
<1> QED BY <1>1, <1>2, PTL DEF Spec

-----------------------------------------------------------------------------
(* What results, status changes and reconciliation leave alone: the create  *)
(* attempts, and what the acceptance gate reads.                            *)
Keeps(q, r) == q.attempts = r.attempts /\ q.created = r.created /\ q.accepted = r.accepted

LEMMA KeepsTrans ==
  ASSUME NEW p, NEW q, NEW r, Keeps(p, q), Keeps(q, r)
  PROVE  Keeps(p, r)
  BY DEF Keeps

(* The status changes and the moves within the loop.                        *)
LEMMA StatusKeeps ==
  ASSUME NEW r \in Record
  PROVE  /\ \A why : Keeps(Failed(r, why), r)
         /\ Keeps(Pending(r), r) /\ Keeps(Running(r), r) /\ Keeps(Done(r), r)
         /\ \A phase : Keeps(At(r, phase), r)
         /\ Keeps(Prompted(r), r) /\ Keeps(NextRound(r), r) /\ Keeps(ToArchive(r), r)
         /\ Keeps(Escalated(r), r)
<1>1. /\ \A why : Keeps(Failed(r, why), r)
      /\ Keeps(Pending(r), r) /\ Keeps(Running(r), r) /\ Keeps(Done(r), r)
      /\ \A phase : Keeps(At(r, phase), r)
  BY DEF Failed, Pending, Running, Done, At, Keeps, Record
<1>2. Keeps(Prompted(r), r) /\ Keeps(NextRound(r), r) /\ Keeps(ToArchive(r), r)
  BY DEF Prompted, NextRound, ToArchive, At, Keeps, Record
<1>3. Keeps(Escalated(r), r)
  BY DEF Escalated, Keeps, Record
<1> QED BY <1>1, <1>2, <1>3

(* A round that is not complete.                                            *)
LEMMA IncompleteKeeps ==
  ASSUME NEW r \in Record
  PROVE  Keeps(IncompleteRound(r), r)
<1>1. CASE r.round >= MaxRounds
  <2>1. Prompted(r) \in Record
    BY MoveTypes
  <2> QED BY <1>1, <2>1, StatusKeeps, KeepsTrans DEF IncompleteRound
<1>2. CASE ~(r.round >= MaxRounds)
  <2>1. NextRound(r) \in Record
    BY <1>2, MoveTypes
  <2> QED BY <1>2, <2>1, StatusKeeps, KeepsTrans DEF IncompleteRound
<1> QED BY <1>1, <1>2

(* The implement handler.                                                   *)
LEMMA ImplementKeeps ==
  ASSUME NEW r \in Record, NEW t \in Tree, NEW p \in ImplementPayloads
  PROVE  Keeps(apply_implement_result(r, t, p), r)
<1>1. Keeps(ImplementBlocked(r, t, p.progress), r)
  <2> DEFINE counted == IF p.progress THEN [r EXCEPT !.streak = 0] ELSE r
  <2>1. counted \in Record /\ Keeps(counted, r)
    BY DEF Record, Keeps
  <2> HIDE DEF counted
  <2>2. Keeps(IncompleteRound(counted), r) /\ Keeps(Failed(counted, "implement_blocked"), r)
    BY <2>1, IncompleteKeeps, StatusKeeps, KeepsTrans
  <2> QED BY <2>2 DEF ImplementBlocked, counted
<1>2. Keeps(ImplementCompleted(r, t, p.progress), r)
  <2> DEFINE counted == [r EXCEPT !.streak = IF p.progress THEN 0 ELSE r.streak + 1]
  <2>1. counted \in Record /\ Keeps(counted, r)
    BY DEF Record, Keeps
  <2> HIDE DEF counted
  <2>2. At(counted, "review") \in Record
    BY <2>1, MoveTypes DEF Phases
  <2>3. Keeps(At(counted, "review"), r)
    BY <2>1, StatusKeeps, KeepsTrans
  <2>4. /\ Keeps(IncompleteRound(counted), r) /\ Keeps(Failed(counted, "no_progress"), r)
        /\ Keeps(Pending(At(counted, "review")), r)
    BY <2>1, <2>2, <2>3, IncompleteKeeps, StatusKeeps, KeepsTrans
  <2> QED BY <2>4 DEF ImplementCompleted, counted
<1> QED BY <1>1, <1>2, StatusKeeps DEF apply_implement_result

(* The review handler.                                                      *)
LEMMA ReviewKeeps ==
  ASSUME NEW r \in Record, NEW p \in ReviewPayloads, NEW policy0 \in Policies
  PROVE  Keeps(apply_review_result(r, p, policy0), r)
<1> DEFINE recorded == ReviewRecorded(r, p)
<1>1. {<<r.round, f[1], f[2]>> : f \in p.findings} \subseteq Citations
  BY DEF ReviewPayloads, Citations, Record
<1>2. recorded \in Record /\ Keeps(recorded, r)
  BY <1>1 DEF ReviewRecorded, Record, Keeps
<1> HIDE DEF recorded
<1>3. /\ ToArchive(recorded) \in Record /\ Prompted(recorded) \in Record
      /\ Keeps(ToArchive(recorded), r) /\ Keeps(Prompted(recorded), r)
  BY <1>2, MoveTypes, StatusKeeps, KeepsTrans
<1>4. /\ Keeps(Failed(recorded, "review_invalid"), r)
      /\ Keeps(Failed(Prompted(recorded), "recurrence"), r)
      /\ Keeps(Pending(ToArchive(recorded)), r) /\ Keeps(IncompleteRound(recorded), r)
  BY <1>2, <1>3, StatusKeeps, IncompleteKeeps, KeepsTrans
<1>5. Keeps(Failed(r, "review_invalid"), r)
  BY StatusKeeps
<1> QED BY <1>4, <1>5 DEF apply_review_result, ReviewFailed, recorded

(* The archive handler.                                                     *)
LEMMA ArchiveKeeps ==
  ASSUME NEW r \in Record, NEW t \in Tree, NEW p \in ArchivePayloads,
         NEW checks_ok \in BOOLEAN, NEW clean_ok \in BOOLEAN
  PROVE  Keeps(apply_archive_result(r, t, p, checks_ok, clean_ok), r)
<1>1. ASSUME NEW status \in {"passed", "failed"}
      PROVE  ArchiveClaim(r, status, p) \in Record /\ Keeps(ArchiveClaim(r, status, p), r)
  BY DEF ArchiveClaim, ArchivePayloads, Record, ArchiveStates, Keeps
<1>2. ASSUME NEW q \in Record
      PROVE  Keeps(ArchiveFailed(q), q)
  <2>1. [q EXCEPT !.archive.status = "failed"] \in Record
    BY DEF Record, ArchiveStates
  <2>2. Keeps([q EXCEPT !.archive.status = "failed"], q)
    BY DEF Keeps, Record
  <2> QED BY <2>1, <2>2, StatusKeeps, KeepsTrans DEF ArchiveFailed
<1>3. /\ Keeps(Failed(ArchiveClaim(r, "failed", p), "archive_failed"), r)
      /\ Keeps(Done(ArchiveClaim(r, "passed", p)), r)
      /\ Keeps(ArchiveFailed(ArchiveClaim(r, "passed", p)), r)
      /\ Keeps(ArchiveFailed(r), r)
  BY <1>1, <1>2, StatusKeeps, KeepsTrans
<1> QED BY <1>3 DEF apply_archive_result

(* An output that never became valid.                                       *)
LEMMA InvalidKeeps ==
  ASSUME NEW r \in Record
  PROVE  Keeps(OutputInvalid(r), r)
<1>1. [r EXCEPT !.archive.status = "failed"] \in Record
  BY DEF Record, ArchiveStates
<1>2. Keeps([r EXCEPT !.archive.status = "failed"], r)
  BY DEF Keeps, Record
<1> QED BY <1>1, <1>2, StatusKeeps, KeepsTrans DEF OutputInvalid

(* Reconciliation keeps the create attempts; a change it leaves pending has *)
(* no archive on disk.                                                      *)
LEMMA ReconcileKeeps ==
  ASSUME NEW r \in Record, NEW t \in Tree, NEW create_invoke
  PROVE  /\ reconcile(r, t, create_invoke).attempts = r.attempts
         /\ reconcile(r, t, create_invoke).status = "pending" => ~ArchivedOnDisk(t)
<1> DEFINE q == Recovered(r)
<1>1. q \in Record /\ q.attempts = r.attempts
  BY StatusTypes, StatusKeeps DEF Recovered, Reasons, Keeps
<1> HIDE DEF q
<1>2. /\ Pending(q).attempts = q.attempts /\ Done(q).attempts = q.attempts
      /\ Failed(q, "evidence").attempts = q.attempts
      /\ Failed(q, "evidence").status = "failed" /\ Done(q).status = "done"
  BY <1>1 DEF Failed, Pending, Done, Record
<1>3. /\ Done(record_archive_evidence(q, t)).attempts = q.attempts
      /\ Done(record_archive_evidence(q, t)).status = "done"
  BY <1>1 DEF record_archive_evidence, Done, Record
<1>4. AdoptCreated(q, t).attempts = q.attempts
  BY <1>1 DEF AdoptCreated, Pending, Record
<1>5. /\ ReconcileUnfinished(q, t).attempts = q.attempts
      /\ ReconcileUnfinished(q, t).status = "pending" => ~ArchivedOnDisk(t)
  BY <1>2, <1>3, <1>4 DEF ReconcileUnfinished
<1> QED BY <1>1, <1>2, <1>5 DEF reconcile, Requeueable, q

-----------------------------------------------------------------------------
(* A step of the engine, seen from the state: it keeps both copies, or      *)
(* replaces one record, with at least as many create attempts.              *)

(* The engine's steps on the change it works on, but for the create stage   *)
(* and the dispatch.                                                        *)
Settles ==
  \/ CreateResult \/ StageBudget \/ StageDone \/ ImplementResult \/ ReviewResult
  \/ ArchiveResult \/ WorkerTimeout

(* They replace its record by one with the same attempts, creation and      *)
(* acceptance, except that a created change is recorded as such.            *)
LEMMA SettleFacts ==
  ASSUME TypeOK, Settles
  PROVE  /\ Busy /\ cur \in Changes /\ UNCHANGED tree
         /\ \E r \in Record :
              /\ mem' = With(mem, cur, r) /\ file' = mem'
              /\ r.attempts = mem.rec[cur].attempts
              /\ ~CreateResult => Keeps(r, mem.rec[cur])
              /\ \/ pc' = "pick" /\ cur' = NoChange
                    /\ (CreateResult \/ visited' = visited \cup {cur})
                 \/ pc' = "stage" /\ cur' = cur /\ r.status = "pending"
                    /\ visited' = visited /\ ~CreateResult
         /\ UNCHANGED mode
<1> DEFINE R == mem.rec[cur]
<1>1. Busy
  BY DEF Settles, CreateResult, StageBudget, StageDone, ImplementResult, ReviewResult,
     ArchiveResult, WorkerTimeout, WorkerOn, Busy
<1>2. cur \in Changes /\ R \in Record /\ tree[cur] \in Tree
  BY <1>1, CurOf
<1>3. ASSUME NEW r \in Record, Keeps(r, R), Apply(r), ~CreateResult
      PROVE  /\ UNCHANGED <<tree, mode>>
             /\ \E s \in Record :
                  /\ mem' = With(mem, cur, s) /\ file' = mem'
                  /\ s.attempts = R.attempts /\ Keeps(s, R)
                  /\ \/ pc' = "pick" /\ cur' = NoChange /\ visited' = visited \cup {cur}
                     \/ pc' = "stage" /\ cur' = cur /\ s.status = "pending" /\ visited' = visited
  BY <1>3 DEF Apply, Save, Visit, Keeps, repo
<1>4. ASSUME NEW r \in Record, Keeps(r, R), Save(With(mem, cur, r)), Visit(cur), UNCHANGED repo
      PROVE  /\ UNCHANGED <<tree, mode>>
             /\ \E s \in Record :
                  /\ mem' = With(mem, cur, s) /\ file' = mem'
                  /\ s.attempts = R.attempts /\ Keeps(s, R)
                  /\ pc' = "pick" /\ cur' = NoChange /\ visited' = visited \cup {cur}
  BY <1>4 DEF Save, Visit, Keeps, repo
<1>5. CASE CreateResult
  <2> DEFINE result == IF CreateVerified THEN Pending([R EXCEPT !.created = TRUE])
                       ELSE IF R.attempts < CreateMaxAttempts THEN Pending(R)
                       ELSE Failed(R, "create_failed")
  <2>1. [R EXCEPT !.created = TRUE] \in Record
    BY <1>2 DEF Record
  <2>2. result \in Record
    BY <1>2, <2>1, StatusTypes DEF Reasons
  <2>3. result.attempts = R.attempts
    BY <1>2, <2>1 DEF Pending, Failed, Record
  <2>4. /\ mem' = With(mem, cur, result) /\ file' = mem' /\ pc' = "pick" /\ cur' = NoChange
        /\ UNCHANGED <<tree, mode>>
    BY <1>5 DEF CreateResult, Save, GoTo, repo
  <2> HIDE DEF result
  <2> QED BY <1>1, <1>2, <1>5, <2>2, <2>3, <2>4
<1>6. ASSUME ~CreateResult
      PROVE  \/ \E r \in Record : Keeps(r, R) /\ Apply(r)
             \/ \E r \in Record : Keeps(r, R) /\ Save(With(mem, cur, r)) /\ Visit(cur) /\ UNCHANGED repo
  <2>1. CASE StageBudget
    <3>1. Pending(R) \in Record /\ Keeps(Pending(R), R)
      BY <1>2, StatusTypes, StatusKeeps DEF Reasons
    <3> QED BY <2>1, <3>1 DEF StageBudget
  <2>2. CASE StageDone
    <3>1. /\ Done(R) \in Record /\ Failed(R, "evidence") \in Record
          /\ Keeps(Done(R), R) /\ Keeps(Failed(R, "evidence"), R)
      BY <1>2, StatusTypes, StatusKeeps DEF Reasons
    <3> QED BY <2>2, <3>1 DEF StageDone
  <2>3. CASE ImplementResult
    <3>1. PICK p \in ImplementPayloads : Apply(apply_implement_result(R, tree[cur], p))
      BY <2>3 DEF ImplementResult
    <3>2. /\ apply_implement_result(R, tree[cur], p) \in Record
          /\ Keeps(apply_implement_result(R, tree[cur], p), R)
      BY <1>2, ImplementType, ImplementKeeps
    <3>4. \E r \in Record : Keeps(r, R) /\ Apply(r)
      BY <3>1, <3>2
    <3> QED BY <3>4
  <2>4. CASE ReviewResult
    <3>1. PICK p \in Reviews : Apply(apply_review_result(R, p, policy))
      BY <2>4 DEF ReviewResult
    <3>2. p \in ReviewPayloads /\ policy \in Policies
      BY ReviewsAssumption DEF TypeOK
    <3>3. /\ apply_review_result(R, p, policy) \in Record
          /\ Keeps(apply_review_result(R, p, policy), R)
      BY <1>2, <3>2, ReviewType, ReviewKeeps
    <3>4. \E r \in Record : Keeps(r, R) /\ Apply(r)
      BY <3>1, <3>3
    <3> QED BY <3>4
  <2>5. CASE ArchiveResult
    <3>1. PICK p \in ArchivePayloads, checks_ok \in BOOLEAN :
            Apply(apply_archive_result(R, tree[cur], p, checks_ok, dirty = {}))
      BY <2>5 DEF ArchiveResult
    <3>2. /\ apply_archive_result(R, tree[cur], p, checks_ok, dirty = {}) \in Record
          /\ Keeps(apply_archive_result(R, tree[cur], p, checks_ok, dirty = {}), R)
      BY <1>2, ArchiveType, ArchiveKeeps
    <3>4. \E r \in Record : Keeps(r, R) /\ Apply(r)
      BY <3>1, <3>2
    <3> QED BY <3>4
  <2>6. CASE WorkerTimeout
    <3>1. Failed(R, "timeout") \in Record /\ Keeps(Failed(R, "timeout"), R)
      BY <1>2, StatusTypes, StatusKeeps DEF Reasons
    <3> QED BY <2>6, <3>1 DEF WorkerTimeout
  <2> QED BY <1>6, <2>1, <2>2, <2>3, <2>4, <2>5, <2>6 DEF Settles
<1>7. CASE ~CreateResult
  <2>1. CASE \E r \in Record : Keeps(r, R) /\ Apply(r)
    BY <1>1, <1>2, <1>3, <1>7, <2>1
  <2>2. CASE \E r \in Record : Keeps(r, R) /\ Save(With(mem, cur, r)) /\ Visit(cur) /\ UNCHANGED repo
    BY <1>1, <1>2, <1>4, <1>7, <2>2
  <2> QED BY <1>6, <1>7, <2>1, <2>2
<1> QED BY <1>5, <1>7

-----------------------------------------------------------------------------
(* The create budget.  What was dispatched is counted in the file, and, as  *)
(* a save writes all of it, in the copy the engine will save.               *)
BudgetInv ==
  \A c \in Changes : /\ creates[c] <= file.rec[c].attempts
                     /\ pc # "idle" => creates[c] <= mem.rec[c].attempts

LEMMA BudgetInit == Init => BudgetInv
<1> SUFFICES ASSUME Init, NEW c \in Changes
             PROVE  creates[c] <= file.rec[c].attempts /\ pc = "idle"
  BY DEF BudgetInv
<1>1. file.rec[c] \in Record
  BY TypeInit, RecordOf
<1> QED BY <1>1 DEF Init, Record

(* A save of the engine's copy, with one record replaced or none.           *)
LEMMA BudgetSave ==
  ASSUME TypeOK, BudgetInv, pc # "idle", NEW c \in Changes, NEW r \in Record, NEW q \in Record,
         r.attempts >= mem.rec[c].attempts, q.attempts >= mem.rec[c].attempts,
         file' = With(mem, c, r), mem' = With(mem, c, q) \/ pc' = "idle",
         creates' = creates
  PROVE  BudgetInv'
<1> SUFFICES ASSUME NEW d \in Changes
             PROVE  /\ creates[d] <= file'.rec[d].attempts
                    /\ pc' # "idle" => creates[d] <= mem'.rec[d].attempts
  BY DEF BudgetInv
<1>1. /\ mem.rec[d] \in Record /\ mem.rec[c] \in Record /\ creates[d] \in Nat
      /\ creates[d] <= mem.rec[d].attempts
  BY RecordOf DEF TypeOK, BudgetInv
<1>2. \A x \in Record : x.attempts \in Nat
  BY CreateMaxAssumption DEF Record
<1>3. /\ With(mem, c, r).rec[d] = IF d = c THEN r ELSE mem.rec[d]
      /\ With(mem, c, q).rec[d] = IF d = c THEN q ELSE mem.rec[d]
  BY WithFacts DEF TypeOK
<1>4. creates[d] <= file'.rec[d].attempts
  BY <1>1, <1>2, <1>3
<1>5. pc' # "idle" => creates[d] <= mem'.rec[d].attempts
  BY <1>1, <1>2, <1>3
<1> QED BY <1>4, <1>5

(* Steps that save what the engine holds, or nothing.                       *)
LEMMA BudgetSame ==
  ASSUME BudgetInv, creates' = creates,
         file' = file \/ (file' = mem /\ pc # "idle"),
         pc' = "idle" \/ (mem' = mem /\ pc # "idle")
  PROVE  BudgetInv'
  BY DEF BudgetInv

LEMMA BudgetPick ==
  ASSUME TypeOK, BudgetInv, Pick
  PROVE  BudgetInv'
<1>1. pc = "pick"
  BY DEF Pick, Finish, StopEarly, RefuseDirty, CreateUnconfigured, CreateDebris, CreateExhausted,
     DispatchCreate, CreateEnvError, CreateSpawnError, SkipAuthored, Drive, CreateStarts,
     CreatePrepared, Picked
<1>2. CASE Finish \/ StopEarly \/ RefuseDirty
  BY <1>1, <1>2, BudgetSame DEF Finish, StopEarly, RefuseDirty, Exit, ghosts
<1>3. ASSUME NEW c \in Changes, SkipAuthored(c) \/ Drive(c)
      PROVE  BudgetInv'
  BY <1>1, <1>3, BudgetSame DEF SkipAuthored, Drive, ghosts
<1>4. ASSUME NEW c \in Changes, CreateUnconfigured(c) \/ CreateDebris(c) \/ CreateExhausted(c)
      PROVE  BudgetInv'
  <2>1. PICK why \in Reasons : FailPicked(c, why)
    BY <1>4 DEF CreateUnconfigured, CreateDebris, CreateExhausted, Reasons
  <2> DEFINE r == Failed(mem.rec[c], why)
  <2>2. r \in Record /\ r.attempts = mem.rec[c].attempts /\ mem.rec[c].attempts \in Nat
    BY RecordOf, StatusTypes, StatusKeeps, CreateMaxAssumption DEF Keeps, Record
  <2>3. file' = With(mem, c, r) /\ mem' = With(mem, c, r) /\ creates' = creates
    BY <2>1 DEF FailPicked, Save, ghosts
  <2> HIDE DEF r
  <2> QED BY <1>1, <2>2, <2>3, BudgetSave
<1>5. ASSUME NEW c \in Changes, CreateStarts(c)
      PROVE  /\ CountedAttempt(mem.rec[c]) \in Record
             /\ Failed(CountedAttempt(mem.rec[c]), "spawn") \in Record
             /\ Running(CountedAttempt(mem.rec[c])) \in Record
             /\ mem.rec[c].attempts \in Nat
             /\ Failed(CountedAttempt(mem.rec[c]), "spawn").attempts = mem.rec[c].attempts + 1
             /\ Running(CountedAttempt(mem.rec[c])).attempts = mem.rec[c].attempts + 1
  <2>1. mem.rec[c] \in Record /\ CountedAttempt(mem.rec[c]) \in Record
    BY <1>5, RecordOf, CountedType DEF CreateStarts
  <2>2. CountedAttempt(mem.rec[c]).attempts = mem.rec[c].attempts + 1
    BY <2>1 DEF CountedAttempt, Record
  <2>3. "spawn" \in Reasons
    BY DEF Reasons
  <2> QED BY <2>1, <2>2, <2>3, StatusTypes, StatusKeeps, CreateMaxAssumption DEF Keeps, Record
<1>6. ASSUME NEW c \in Changes, CreateEnvError(c) \/ CreateSpawnError(c)
      PROVE  BudgetInv'
  <2> DEFINE r == Failed(CountedAttempt(mem.rec[c]), "spawn")
  <2>1. /\ r \in Record /\ r.attempts = mem.rec[c].attempts + 1
        /\ mem.rec[c].attempts \in Nat
    BY <1>5, <1>6 DEF CreateEnvError, CreateSpawnError
  <2>2. /\ file' = With(mem, c, r) /\ creates' = creates
        /\ mem' = With(mem, c, r) \/ pc' = "idle"
    BY <1>6 DEF CreateEnvError, CreateSpawnError, Save, Exit, ghosts
  <2> HIDE DEF r
  <2> QED BY <1>1, <2>1, <2>2, BudgetSave
<1>7. ASSUME NEW c \in Changes, DispatchCreate(c)
      PROVE  BudgetInv'
  <2> DEFINE r == Running(CountedAttempt(mem.rec[c]))
  <2>1. r \in Record /\ r.attempts = mem.rec[c].attempts + 1
    BY <1>5, <1>7 DEF DispatchCreate
  <2>2. /\ file' = With(mem, c, r) /\ mem' = file'
        /\ creates' = [creates EXCEPT ![c] = creates[c] + 1]
    BY <1>7 DEF DispatchCreate, Save
  <2> HIDE DEF r
  <2> SUFFICES ASSUME NEW d \in Changes
               PROVE  creates'[d] <= file'.rec[d].attempts
    BY <2>2 DEF BudgetInv
  <2>3. /\ file'.rec[d] = IF d = c THEN r ELSE mem.rec[d]
        /\ creates[d] \in Nat /\ creates[d] <= mem.rec[d].attempts
        /\ mem.rec[d].attempts \in Nat
    BY <1>1, <2>1, <2>2, WithFacts, RecordOf, CreateMaxAssumption DEF TypeOK, BudgetInv, Record
  <2>4. creates'[d] = IF d = c THEN creates[d] + 1 ELSE creates[d]
    BY <2>2 DEF TypeOK
  <2> QED BY <2>1, <2>3, <2>4
<1> QED BY <1>2, <1>3, <1>4, <1>6, <1>7 DEF Pick

LEMMA BudgetEngine ==
  ASSUME TypeOK, BudgetInv, Engine
  PROVE  BudgetInv'
<1>1. CASE Pick
  BY <1>1, BudgetPick
<1>2. CASE Settles
  <2>1. PICK r \in Record : /\ mem' = With(mem, cur, r) /\ file' = mem'
                            /\ r.attempts = mem.rec[cur].attempts
    BY <1>2, SettleFacts
  <2>2. /\ cur \in Changes /\ pc # "idle" /\ creates' = creates
        /\ mem.rec[cur].attempts \in Nat
    BY <1>2, SettleFacts, CurOf, CreateMaxAssumption
    DEF Settles, CreateResult, StageBudget, StageDone, ImplementResult, ReviewResult,
        ArchiveResult, WorkerTimeout, ghosts, Busy, Record
  <2> QED BY <2>1, <2>2, BudgetSave
<1>3. ASSUME Dispatch \/ WorkerSpawnError \/ InvalidOutput
      PROVE  /\ Busy /\ cur \in Changes /\ mem.rec[cur] \in Record /\ pc # "idle"
             /\ mem.rec[cur].attempts \in Nat /\ creates' = creates
             /\ Running(mem.rec[cur]) \in Record /\ Launched(mem.rec[cur]) \in Record
             /\ Keeps(Running(mem.rec[cur]), mem.rec[cur])
             /\ Keeps(Launched(mem.rec[cur]), mem.rec[cur])
  <2>1. Busy
    BY <1>3 DEF Dispatch, WorkerSpawnError, InvalidOutput, Busy
  <2>2. cur \in Changes /\ mem.rec[cur] \in Record /\ mem.rec[cur].attempts \in Nat
    BY <2>1, CurOf, CreateMaxAssumption DEF Record
  <2>3. Running(mem.rec[cur]) \in Record /\ Keeps(Running(mem.rec[cur]), mem.rec[cur])
    BY <2>2, StatusTypes, StatusKeeps DEF Reasons
  <2>4. Launched(mem.rec[cur]) \in Record /\ Keeps(Launched(mem.rec[cur]), mem.rec[cur])
    BY <2>2, <2>3, OutcomeTypes, StatusKeeps, KeepsTrans DEF Launched
  <2>5. creates' = creates
    BY <1>3 DEF Dispatch, WorkerSpawnError, InvalidOutput, ghosts
  <2> QED BY <2>1, <2>2, <2>3, <2>4, <2>5 DEF Busy
<1>4. CASE Dispatch
  <2>1. file' = With(mem, cur, Running(mem.rec[cur])) /\ mem' = With(mem, cur, Launched(mem.rec[cur]))
    BY <1>4 DEF Dispatch
  <2>2. /\ Running(mem.rec[cur]).attempts >= mem.rec[cur].attempts
        /\ Launched(mem.rec[cur]).attempts >= mem.rec[cur].attempts
    BY <1>3, <1>4 DEF Keeps
  <2> QED BY <1>3, <1>4, <2>1, <2>2, BudgetSave
<1>5. CASE WorkerSpawnError
  <2>1. PICK r \in Record : file' = With(mem, cur, r) /\ Keeps(r, mem.rec[cur])
    <3>1. "spawn" \in Reasons
      BY DEF Reasons
    <3>2. /\ Failed(Launched(mem.rec[cur]), "spawn") \in Record
          /\ Failed(mem.rec[cur], "spawn") \in Record
          /\ Keeps(Failed(Launched(mem.rec[cur]), "spawn"), mem.rec[cur])
          /\ Keeps(Failed(mem.rec[cur], "spawn"), mem.rec[cur])
      BY <1>3, <1>5, <3>1, StatusTypes, StatusKeeps, KeepsTrans
    <3> QED BY <1>5, <3>2 DEF WorkerSpawnError
  <2>2. pc' = "idle" /\ r.attempts >= mem.rec[cur].attempts
    BY <1>3, <1>5, <2>1 DEF WorkerSpawnError, Exit, Keeps
  <2> QED BY <1>3, <1>5, <2>1, <2>2, BudgetSave
<1>6. CASE InvalidOutput
  <2>1. CASE UNCHANGED <<file, mem>>
    BY <1>3, <1>6, <2>1, BudgetSame
  <2>2. CASE Save(With(mem, cur, OutputInvalid(mem.rec[cur])))
    <3>1. /\ OutputInvalid(mem.rec[cur]) \in Record
          /\ OutputInvalid(mem.rec[cur]).attempts >= mem.rec[cur].attempts
      BY <1>3, <1>6, OutcomeTypes, InvalidKeeps DEF Keeps
    <3> QED BY <1>3, <1>6, <2>2, <3>1, BudgetSave DEF Save
  <2> QED BY <1>6, <2>1, <2>2 DEF InvalidOutput
<1> QED BY <1>1, <1>2, <1>4, <1>5, <1>6 DEF Engine, Settles

LEMMA BudgetStep == TypeOK /\ BudgetInv /\ [Next]_vars => BudgetInv'
<1> SUFFICES ASSUME TypeOK, BudgetInv, [Next]_vars PROVE BudgetInv'
  OBVIOUS
<1>1. CASE StartRun
  <2> SUFFICES ASSUME NEW c \in Changes
               PROVE  creates'[c] <= file'.rec[c].attempts /\ mem' = file'
    BY DEF BudgetInv
  <2>1. file' = Reconciled(file) /\ mem' = file' /\ creates' = creates
    BY <1>1 DEF StartRun, Save, ghosts
  <2>2. file'.rec[c] = reconcile(file.rec[c], tree[c], c \in invokes)
    BY <2>1 DEF Reconciled, TypeOK, State
  <2>3. file'.rec[c].attempts = file.rec[c].attempts
    BY <2>2, RecordOf, ReconcileKeeps
  <2> QED BY <2>1, <2>3 DEF BudgetInv
<1>2. CASE Engine
  BY <1>2, BudgetEngine
<1>3. CASE Worker
  BY <1>3 DEF Worker, CreateWork, ImplementWork, ArchiveMove, ArchiveCommit, ArchiveRestore,
     proc, ghosts, BudgetInv
<1>4. CASE Interrupt
  BY <1>4, BudgetSame DEF Interrupt, Exit, ghosts
<1>5. CASE Operator
  <2>1. ASSUME NEW c \in Changes, Approve(c)
        PROVE  BudgetInv'
    BY <2>1 DEF Approve, TypeOK, State, BudgetInv, proc, ghosts
  <2>2. ASSUME NEW c \in Changes, Accept(c)
        PROVE  BudgetInv'
    <3> DEFINE r == [file.rec[c] EXCEPT !.accepted = TRUE]
    <3>1. r \in Record /\ r.attempts = file.rec[c].attempts
      BY RecordOf DEF Record
    <3>2. file' = With(file, c, r) /\ UNCHANGED <<mem, pc, creates>>
      BY <2>2 DEF Accept, proc, ghosts
    <3> HIDE DEF r
    <3>3. \A d \in Changes : file'.rec[d].attempts = file.rec[d].attempts
      BY <3>1, <3>2, WithFacts DEF TypeOK
    <3> QED BY <3>2, <3>3 DEF BudgetInv
  <2>3. ASSUME NEW c \in Changes, Reset(c)
        PROVE  BudgetInv'
    <3>1. /\ file' = With(file, c, NewRecord) /\ creates' = [creates EXCEPT ![c] = 0]
          /\ pc' = "idle"
      BY <2>3 DEF Reset, Between, proc
    <3>2. \A d \in Changes : file'.rec[d] = IF d = c THEN NewRecord ELSE file.rec[d]
      BY <3>1, NewRecordType, WithFacts DEF TypeOK
    <3>3. \A d \in Changes : creates'[d] = IF d = c THEN 0 ELSE creates[d]
      BY <3>1 DEF TypeOK
    <3> QED BY <3>1, <3>2, <3>3 DEF BudgetInv, NewRecord
  <2>4. ASSUME NEW c \in Changes,
               AuthorByHand(c) \/ DeleteChange(c) \/ RevertArchive(c) \/ ConfigureCreate(c)
        PROVE  BudgetInv'
    BY <2>4 DEF AuthorByHand, DeleteChange, RevertArchive, ConfigureCreate, proc, ghosts, BudgetInv
  <2>5. CASE CommitEdits
    BY <2>5 DEF CommitEdits, proc, ghosts, BudgetInv
  <2> QED BY <1>5, <2>1, <2>2, <2>3, <2>4, <2>5 DEF Operator
<1>6. CASE UNCHANGED vars
  BY <1>6 DEF vars, proc, ghosts, BudgetInv
<1> QED BY <1>1, <1>2, <1>3, <1>4, <1>5, <1>6 DEF Next

(* For any plan and any limits: no record sees more create workers than     *)
(* create_max_attempts, across retries, crashes, restarts and gate commands *)
(* that save while the engine runs.                                         *)
THEOREM CreatesBounded == Spec => []CreateBudget
<1>1. Init => TypeOK /\ BudgetInv
  BY TypeInit, BudgetInit
<1>2. TypeOK /\ BudgetInv /\ [Next]_vars => (TypeOK /\ BudgetInv)'
  BY TypeNext, BudgetStep
<1>3. TypeOK /\ BudgetInv => CreateBudget
  <2> SUFFICES ASSUME TypeOK, BudgetInv, NEW c \in Changes
               PROVE  creates[c] <= CreateMaxAttempts
    BY DEF CreateBudget
  <2>1. /\ creates[c] \in Nat /\ creates[c] <= file.rec[c].attempts
        /\ file.rec[c].attempts \in 0 .. CreateMaxAttempts
    BY RecordOf DEF TypeOK, BudgetInv, Record
  <2> QED BY <2>1, CreateMaxAssumption
<1> QED BY <1>1, <1>2, <1>3, PTL DEF Spec

-----------------------------------------------------------------------------
(* The gates.                                                               *)

LEMMA GatesStep == TypeOK /\ GatesHeld /\ [Next]_vars => GatesHeld'
<1> SUFFICES ASSUME TypeOK, GatesHeld, [Next]_vars PROVE GatesHeld'
  OBVIOUS
<1>1. ASSUME pc' \notin {"stage", "worker"} \/ UNCHANGED <<mem, pc, cur>>
      PROVE  GatesHeld'
  BY <1>1 DEF GatesHeld
<1>2. ASSUME NEW r \in Record, pc \in {"stage", "worker"}, cur \in Changes,
             mem' = With(mem, cur, r), cur' = cur, Keeps(r, mem.rec[cur])
      PROVE  GatesHeld'
  <2>1. mem'.rec[cur] = r /\ mem'.approvals = mem.approvals
    BY <1>2, WithFacts DEF TypeOK
  <2> QED BY <1>2, <2>1 DEF GatesHeld, Keeps
<1>3. ASSUME NEW c \in Changes, Drive(c)
      PROVE  GatesHeld'
  <2>1. classify(mem, c) = "ready"
    BY <1>3 DEF Drive, Picked, Next1, Ready
  <2>2. mem.rec[c].status \in Statuses
    BY RecordOf DEF Record
  <2>3. /\ c \in PauseBefore => c \in mem.approvals
        /\ ReviewCreated /\ mem.rec[c].created => mem.rec[c].accepted
    BY <2>1, <2>2 DEF classify, Statuses
  <2>4. cur' = c /\ mem' = mem
    BY <1>3 DEF Drive, GoTo
  <2> QED BY <2>3, <2>4 DEF GatesHeld
<1>4. CASE Settles
  <2>1. CASE pc' = "stage"
    <3>1. PICK r \in Record : mem' = With(mem, cur, r) /\ Keeps(r, mem.rec[cur]) /\ cur' = cur
      BY <1>4, <2>1, SettleFacts
    <3>2. ~CreateResult /\ cur \in Changes
      BY <1>4, <2>1, SettleFacts
    <3>3. pc \in {"stage", "worker"}
      BY <1>4, <3>2 DEF Settles, StageBudget, StageDone, ImplementResult, ReviewResult,
         ArchiveResult, WorkerTimeout, WorkerOn
    <3> QED BY <1>2, <3>1, <3>2, <3>3
  <2>2. CASE pc' # "stage"
    BY <1>1, <1>4, <2>2, SettleFacts
  <2> QED BY <2>1, <2>2
<1>5. CASE Dispatch
  <2>1. cur \in Changes /\ mem.rec[cur] \in Record
    BY <1>5, CurOf DEF Dispatch, Busy
  <2>2. Running(mem.rec[cur]) \in Record /\ Keeps(Running(mem.rec[cur]), mem.rec[cur])
    BY <2>1, StatusTypes, StatusKeeps DEF Reasons
  <2>3. Launched(mem.rec[cur]) \in Record /\ Keeps(Launched(mem.rec[cur]), mem.rec[cur])
    BY <2>1, <2>2, OutcomeTypes, StatusKeeps, KeepsTrans DEF Launched
  <2>4. pc = "stage" /\ mem' = With(mem, cur, Launched(mem.rec[cur])) /\ cur' = cur
    BY <1>5 DEF Dispatch, GoTo
  <2> QED BY <1>2, <2>1, <2>3, <2>4
<1>6. CASE InvalidOutput \/ WorkerSpawnError
  BY <1>1, <1>6 DEF InvalidOutput, WorkerSpawnError, Visit, Exit
<1>7. CASE Pick
  <2>1. ASSUME NEW c \in Changes,
               \/ CreateUnconfigured(c) \/ CreateDebris(c) \/ CreateExhausted(c)
               \/ DispatchCreate(c) \/ CreateEnvError(c) \/ CreateSpawnError(c) \/ SkipAuthored(c)
        PROVE  pc' \notin {"stage", "worker"}
    BY <2>1 DEF CreateUnconfigured, CreateDebris, CreateExhausted, DispatchCreate, CreateEnvError,
       CreateSpawnError, SkipAuthored, CreateStarts, CreatePrepared, Picked, FailPicked, GoTo,
       Visit, Exit, proc
  <2>2. CASE Finish \/ StopEarly \/ RefuseDirty
    BY <1>1, <2>2 DEF Finish, StopEarly, RefuseDirty, Exit
  <2> QED BY <1>1, <1>3, <1>7, <2>1, <2>2 DEF Pick
<1>8. CASE StartRun \/ Interrupt
  BY <1>1, <1>8 DEF StartRun, Interrupt, Exit
<1>9. CASE Worker
  BY <1>1, <1>9 DEF Worker, CreateWork, ImplementWork, ArchiveMove, ArchiveCommit, ArchiveRestore,
     proc
<1>10. CASE Operator
  <2>1. UNCHANGED <<mem, pc, cur>>
    BY <1>10 DEF Operator, CommitEdits, Approve, Accept, Reset, AuthorByHand, DeleteChange,
       RevertArchive, ConfigureCreate, proc
  <2> QED BY <1>1, <2>1
<1>11. CASE UNCHANGED vars
  BY <1>1, <1>11 DEF vars, proc
<1> QED
  BY <1>4, <1>5, <1>6, <1>7, <1>8, <1>9, <1>10, <1>11 DEF Next, Engine, Settles

(* For any plan: a change with pause_before is driven only after the run    *)
(* has seen its approval, and a created one only after its acceptance.      *)
THEOREM GatesAreHeld == Spec => []GatesHeld
<1>1. Init => TypeOK /\ GatesHeld
  BY TypeInit DEF Init, GatesHeld
<1>2. TypeOK /\ GatesHeld /\ [Next]_vars => (TypeOK /\ GatesHeld)'
  BY TypeNext, GatesStep
<1> QED BY <1>1, <1>2, PTL DEF Spec

-----------------------------------------------------------------------------
(* The contract.  Clearing a scaffold must not turn an old archive          *)
(* directory into the archive of the change: a change that may still be     *)
(* picked has none, and a directory that stands beside one is valid.        *)
ArchiveInv ==
  /\ \A c \in Changes : tree[c].archived => tree[c].active \in {"none", "valid"}
  /\ pc = "create" => ~tree[cur].archived
  /\ pc # "idle" =>
       \A c \in Changes \ visited :
         c # cur /\ mem.rec[c].status = "pending" => ~ArchivedOnDisk(tree[c])

(* What is picked for creation has no archive directory.                    *)
LEMMA PreparedFacts ==
  ASSUME TypeOK, ArchiveInv, NEW c \in Changes, CreatePrepared(c)
  PROVE  /\ ~tree[c].archived /\ ~tree'[c].archived /\ tree'[c].active = "none"
         /\ \A d \in Changes \ {c} : tree'[d] = tree[d]
<1>1. pc = "pick" /\ c \notin visited /\ cur = NoChange /\ c # cur
  BY NoChangeAssumption DEF CreatePrepared, Picked, Next1, Ready, TypeOK
<1>2. mem.rec[c].status = "pending"
  BY ReadyFacts DEF CreatePrepared
<1>3. ~tree[c].archived
  BY <1>1, <1>2 DEF ArchiveInv, CreatePrepared, ArchivedOnDisk, scaffold_is_clearable
<1>4. tree'[c].archived = tree[c].archived /\ tree'[c].active = "none"
  BY RecordOf DEF CreatePrepared, TypeOK, Tree
<1> QED BY <1>3, <1>4, PreparedTree

(* A pick that replaces the record of the picked change, or none.           *)
LEMMA ArchivePicked ==
  ASSUME TypeOK, ArchiveInv, pc = "pick", NEW c \in Changes, c \notin visited,
         CreatePrepared(c) \/ UNCHANGED tree,
         \/ mem' = mem
         \/ \E r \in Record : mem' = With(mem, c, r) /\ (r.status # "pending" \/ cur' = c),
         \/ pc' = "pick" /\ cur' = NoChange
         \/ pc' = "stage" /\ cur' = c
         \/ pc' = "create" /\ cur' = c /\ CreatePrepared(c),
         visited \subseteq visited'
  PROVE  ArchiveInv'
<1>1. \A d \in Changes : /\ tree'[d].archived => tree[d].archived
                         /\ tree'[d].archived => tree'[d].active = tree[d].active
                         /\ ArchivedOnDisk(tree'[d]) => ArchivedOnDisk(tree[d])
  BY PreparedFacts DEF ArchivedOnDisk
<1>2. \A d \in Changes \ {c} : mem'.rec[d] = mem.rec[d]
  BY WithFacts DEF TypeOK
<1>3. cur = NoChange
  BY DEF TypeOK
<1>4. \A d \in Changes : d # cur
  BY <1>3, NoChangeAssumption
<1>5. c # cur' /\ mem'.rec[c].status = "pending" => mem.rec[c].status = "pending"
  BY WithFacts DEF TypeOK
<1>6. pc' = "create" => ~tree'[cur'].archived
  BY PreparedFacts
<1>7. \A d \in Changes : tree'[d].archived => tree'[d].active \in {"none", "valid"}
  BY <1>1 DEF ArchiveInv
<1>8. ASSUME NEW d \in Changes \ visited', d # cur', mem'.rec[d].status = "pending"
      PROVE  ~ArchivedOnDisk(tree'[d])
  <2>1. mem.rec[d].status = "pending" /\ d \notin visited /\ d # cur
    BY <1>2, <1>4, <1>5, <1>8
  <2> QED BY <1>1, <2>1 DEF ArchiveInv
<1> QED BY <1>6, <1>7, <1>8 DEF ArchiveInv

LEMMA ArchiveInit == Init => ArchiveInv
<1> SUFFICES ASSUME Init PROVE ArchiveInv
  OBVIOUS
<1>1. \A c \in Changes : tree[c].archived = FALSE
  <2> TAKE c \in Changes
  <2>1. PICK a \in InitActive :
          tree[c] = [active |-> a, archived |-> FALSE, commit |-> FALSE, open |-> TRUE]
    BY DEF Init
  <2> QED BY <2>1
<1> QED BY <1>1 DEF Init, ArchiveInv

LEMMA ArchivePick ==
  ASSUME TypeOK, ArchiveInv, Pick
  PROVE  ArchiveInv'
<1>1. CASE Finish \/ StopEarly \/ RefuseDirty
  BY <1>1 DEF Finish, StopEarly, RefuseDirty, Exit, repo, ArchiveInv
<1>2. ASSUME NEW c \in Changes, Picked(c)
      PROVE  pc = "pick" /\ c \notin visited
  BY <1>2 DEF Picked, Next1, Ready
<1>3. ASSUME NEW c \in Changes, CreateUnconfigured(c) \/ CreateDebris(c) \/ CreateExhausted(c)
      PROVE  ArchiveInv'
  <2>1. PICK why \in Reasons : FailPicked(c, why)
    BY <1>3 DEF CreateUnconfigured, CreateDebris, CreateExhausted, Reasons
  <2> DEFINE r == Failed(mem.rec[c], why)
  <2>2. r \in Record /\ r.status # "pending"
    BY RecordOf, StatusTypes, OthersNotDone
  <2>3. /\ mem' = With(mem, c, r) /\ pc' = "pick" /\ cur' = NoChange /\ visited' = visited
        /\ pc = "pick" /\ c \notin visited /\ (CreatePrepared(c) \/ UNCHANGED tree)
    BY <1>2, <1>3, <2>1 DEF FailPicked, Save, proc, CreateUnconfigured, CreateDebris,
       CreateExhausted, CreatePrepared, TypeOK
  <2> HIDE DEF r
  <2> QED BY <2>2, <2>3, ArchivePicked
<1>4. ASSUME NEW c \in Changes, CreateStarts(c)
      PROVE  /\ Failed(CountedAttempt(mem.rec[c]), "spawn") \in Record
             /\ Failed(CountedAttempt(mem.rec[c]), "spawn").status = "failed"
             /\ Running(CountedAttempt(mem.rec[c])) \in Record
  <2>1. CountedAttempt(mem.rec[c]) \in Record /\ "spawn" \in Reasons
    BY <1>4, RecordOf, CountedType DEF CreateStarts, Reasons
  <2> QED BY <2>1, StatusTypes, OthersNotDone
<1>5. ASSUME NEW c \in Changes, CreateEnvError(c)
      PROVE  ArchiveInv'
  <2> DEFINE r == Failed(CountedAttempt(mem.rec[c]), "spawn")
  <2>1. r \in Record /\ r.status # "pending"
    BY <1>4, <1>5 DEF CreateEnvError
  <2>2. /\ mem' = With(mem, c, r) /\ pc' = "pick" /\ cur' = NoChange /\ visited' = visited
        /\ pc = "pick" /\ c \notin visited /\ CreatePrepared(c)
    BY <1>2, <1>5 DEF CreateEnvError, CreateStarts, CreatePrepared, Save, proc, TypeOK
  <2> HIDE DEF r
  <2> QED BY <2>1, <2>2, ArchivePicked
<1>6. ASSUME NEW c \in Changes, CreateSpawnError(c)
      PROVE  ArchiveInv'
  <2>1. CreatePrepared(c) /\ pc' = "idle"
    BY <1>6 DEF CreateSpawnError, CreateStarts, Exit
  <2>2. \A d \in Changes : tree'[d].archived => tree'[d].active \in {"none", "valid"}
    BY <2>1, PreparedFacts DEF ArchiveInv
  <2> QED BY <2>1, <2>2 DEF ArchiveInv
<1>7. ASSUME NEW c \in Changes, DispatchCreate(c)
      PROVE  ArchiveInv'
  <2> DEFINE r == Running(CountedAttempt(mem.rec[c]))
  <2>1. r \in Record
    BY <1>4, <1>7 DEF DispatchCreate
  <2>2. /\ mem' = With(mem, c, r) /\ pc' = "create" /\ cur' = c /\ visited' = visited
        /\ pc = "pick" /\ c \notin visited /\ CreatePrepared(c)
    BY <1>2, <1>7 DEF DispatchCreate, CreateStarts, CreatePrepared, Save, GoTo
  <2> HIDE DEF r
  <2> QED BY <2>1, <2>2, ArchivePicked
<1>8. ASSUME NEW c \in Changes, SkipAuthored(c) \/ Drive(c)
      PROVE  ArchiveInv'
  <2>1. /\ mem' = mem /\ UNCHANGED tree /\ pc = "pick" /\ c \notin visited
        /\ visited \subseteq visited'
        /\ \/ pc' = "pick" /\ cur' = NoChange
           \/ pc' = "stage" /\ cur' = c
    BY <1>2, <1>8 DEF SkipAuthored, Drive, Visit, GoTo, repo
  <2> QED BY <2>1, ArchivePicked
<1> QED BY <1>1, <1>3, <1>5, <1>6, <1>7, <1>8 DEF Pick

LEMMA ArchiveWork ==
  ASSUME TypeOK, ArchiveInv, Worker
  PROVE  ArchiveInv'
<1>1. Busy /\ cur \in Changes /\ UNCHANGED <<mem, proc>>
  BY CurOf DEF Worker, CreateWork, ImplementWork, ArchiveMove, ArchiveCommit, ArchiveRestore,
     WorkerOn, Busy
<1>2. \A d \in Changes \ {cur} : tree'[d] = tree[d]
  BY <1>1 DEF Worker, CreateWork, ImplementWork, ArchiveMove, ArchiveCommit, ArchiveRestore, TypeOK
<1>3. tree[cur] \in Tree
  BY <1>1, RecordOf
<1>4. /\ tree'[cur].archived => tree'[cur].active \in {"none", "valid"}
      /\ pc = "create" => ~tree'[cur].archived
  <2>1. CASE CreateWork
    BY <1>1, <1>3, <2>1 DEF CreateWork, ArchiveInv, TypeOK, Tree
  <2>2. CASE ImplementWork
    BY <1>1, <1>3, <2>2 DEF ImplementWork, WorkerOn, ArchiveInv, TypeOK, Tree
  <2>3. CASE ArchiveMove \/ ArchiveCommit \/ ArchiveRestore
    BY <1>1, <1>3, <2>3
    DEF ArchiveMove, ArchiveCommit, ArchiveRestore, WorkerOn, ArchiveInv, TypeOK, Tree
  <2> QED BY <2>1, <2>2, <2>3 DEF Worker
<1> QED BY <1>1, <1>2, <1>4 DEF ArchiveInv, proc

LEMMA ArchiveStep == TypeOK /\ ArchiveInv /\ [Next]_vars => ArchiveInv'
<1> SUFFICES ASSUME TypeOK, ArchiveInv, [Next]_vars PROVE ArchiveInv'
  OBVIOUS
<1>1. CASE StartRun
  <2>1. /\ mem' = Reconciled(file) /\ tree' = tree /\ pc' = "pick"
    BY <1>1 DEF StartRun, Save, repo
  <2>2. ASSUME NEW c \in Changes, mem'.rec[c].status = "pending"
        PROVE  ~ArchivedOnDisk(tree[c])
    <3>1. mem'.rec[c] = reconcile(file.rec[c], tree[c], c \in invokes)
      BY <2>1 DEF Reconciled, TypeOK, State
    <3> QED BY <2>2, <3>1, RecordOf, ReconcileKeeps
  <2> QED BY <2>1, <2>2 DEF ArchiveInv
<1>2. CASE Pick
  BY <1>2, ArchivePick
<1>3. CASE Settles
  <2>1. PICK r \in Record : mem' = With(mem, cur, r)
    BY <1>3, SettleFacts
  <2>2. /\ cur \in Changes /\ pc # "idle" /\ UNCHANGED tree /\ visited \subseteq visited'
        /\ \/ pc' = "pick" /\ cur' = NoChange /\ (pc = "create" \/ cur \in visited')
           \/ pc' = "stage" /\ cur' = cur
    <3>1. CreateResult => pc = "create" /\ visited' = visited
      BY DEF CreateResult, GoTo
    <3>2. cur \in Changes /\ pc # "idle" /\ UNCHANGED tree
      BY <1>3, SettleFacts DEF Busy
    <3>3. \/ pc' = "pick" /\ cur' = NoChange /\ (CreateResult \/ visited' = visited \cup {cur})
          \/ pc' = "stage" /\ cur' = cur /\ visited' = visited
      BY <1>3, SettleFacts
    <3> QED BY <3>1, <3>2, <3>3
  <2>3. \A d \in Changes \ {cur} : mem'.rec[d] = mem.rec[d]
    BY <2>1, <2>2, WithFacts DEF TypeOK
  <2>4. pc = "create" => ~ArchivedOnDisk(tree[cur])
    BY DEF ArchiveInv, ArchivedOnDisk
  <2> QED BY <2>2, <2>3, <2>4 DEF ArchiveInv
<1>4. CASE Dispatch
  <2>1. /\ cur \in Changes /\ pc # "idle" /\ pc' = "worker" /\ UNCHANGED <<tree, cur, visited>>
        /\ mem' = With(mem, cur, Launched(mem.rec[cur]))
    BY <1>4, CurOf DEF Dispatch, GoTo, repo, Busy
  <2>2. \A d \in Changes \ {cur} : mem'.rec[d] = mem.rec[d]
    BY <2>1 DEF With, TypeOK, State
  <2> QED BY <2>1, <2>2 DEF ArchiveInv
<1>5. CASE WorkerSpawnError \/ Interrupt
  BY <1>5 DEF WorkerSpawnError, Interrupt, Exit, repo, ArchiveInv
<1>6. CASE InvalidOutput
  <2>1. CASE UNCHANGED <<mem, pc, cur, visited>>
    BY <1>6, <2>1 DEF InvalidOutput, repo, ArchiveInv
  <2>2. CASE Save(With(mem, cur, OutputInvalid(mem.rec[cur]))) /\ Visit(cur)
    <3>1. /\ pc = "worker" /\ pc' = "pick" /\ visited' = visited \cup {cur} /\ UNCHANGED tree
          /\ cur \in Changes
      BY <1>6, <2>2, CurOf DEF InvalidOutput, Visit, repo, Busy
    <3>2. \A d \in Changes \ {cur} : mem'.rec[d] = mem.rec[d]
      BY <2>2, <3>1 DEF Save, With, TypeOK, State
    <3> QED BY <3>1, <3>2 DEF ArchiveInv
  <2> QED BY <1>6, <2>1, <2>2 DEF InvalidOutput
<1>7. CASE Worker
  BY <1>7, ArchiveWork
<1>8. CASE Operator
  <2>1. CASE UNCHANGED <<mem, tree, proc>>
    BY <2>1 DEF ArchiveInv, proc
  <2>2. ASSUME NEW c \in Changes, AuthorByHand(c) \/ DeleteChange(c) \/ RevertArchive(c)
        PROVE  ArchiveInv'
    <3>1. pc' = "idle" /\ tree[c] \in Tree
      BY <2>2, RecordOf DEF AuthorByHand, DeleteChange, RevertArchive, Between, proc
    <3>2. \A d \in Changes \ {c} : tree'[d] = tree[d]
      BY <2>2 DEF AuthorByHand, DeleteChange, RevertArchive, TypeOK
    <3>3. tree'[c].active \in {"none", "valid"}
      BY <2>2, <3>1 DEF AuthorByHand, DeleteChange, RevertArchive, TypeOK, Tree
    <3> QED BY <3>1, <3>2, <3>3 DEF ArchiveInv
  <2>3. ASSUME NEW c \in Changes, Approve(c) \/ Accept(c) \/ Reset(c) \/ ConfigureCreate(c)
        PROVE  UNCHANGED <<mem, tree, proc>>
    BY <2>3 DEF Approve, Accept, Reset, ConfigureCreate, repo
  <2>4. CommitEdits => UNCHANGED <<mem, tree, proc>>
    BY DEF CommitEdits
  <2> QED BY <1>8, <2>1, <2>2, <2>3, <2>4 DEF Operator
<1>9. CASE UNCHANGED vars
  BY <1>9 DEF vars, proc, repo, ArchiveInv
<1> QED
  BY <1>1, <1>2, <1>3, <1>4, <1>5, <1>6, <1>7, <1>8, <1>9 DEF Next, Engine, Settles

-----------------------------------------------------------------------------
(* The refinement.  What the contract sees of a run.                        *)
Held == IF pc = "idle" THEN {} ELSE {c \in Changes : mem.rec[c].status = "done"}
OnDisk == {c \in Changes : ArchivedOnDisk(tree[c])}

Promised == [Contract!Next]_(Contract!vars)

(* The engine takes up a change, works on it, and lets go of it.            *)
LEMMA MapStutter ==
  ASSUME pc' = "idle" <=> pc = "idle", Held' = Held, OnDisk' = OnDisk, cur' = cur
  PROVE  Promised
<1>1. (pc' # "idle") = (pc # "idle")
  OBVIOUS
<1> QED BY <1>1 DEF Promised, Contract!vars, Held, OnDisk

LEMMA MapClose ==
  ASSUME pc # "idle", pc' = "idle", OnDisk' = OnDisk, cur' = NoChange
  PROVE  Promised
<1>1. Contract!Close
  BY DEF Contract!Close, OnDisk
<1> QED BY <1>1 DEF Promised, Contract!Next

LEMMA MapBegin ==
  ASSUME pc = "pick", pc' # "idle", cur = NoChange, NEW c \in Changes, cur' = c,
         c \notin Held, Deps[c] \subseteq Held \cap Enabled, Held' = Held, OnDisk' = OnDisk
  PROVE  Promised
<1>1. Contract!Begin(c)
  BY DEF Contract!Begin, Contract!Free, Held, OnDisk
<1> QED BY <1>1 DEF Promised, Contract!Next

LEMMA MapYield ==
  ASSUME pc # "idle", pc' # "idle", cur # NoChange, cur' = NoChange,
         OnDisk' = OnDisk, Held' = Held \/ (cur \in OnDisk /\ Held' = Held \cup {cur})
  PROVE  Promised
<1>1. Contract!Yield \/ Contract!Complete
  BY DEF Contract!Yield, Contract!Complete, Held, OnDisk
<1> QED BY <1>1 DEF Promised, Contract!Next

LEMMA MapWork ==
  ASSUME pc # "idle", cur # NoChange, UNCHANGED <<mem, pc, cur>>,
         OnDisk' \in {OnDisk, OnDisk \cup {cur}, OnDisk \ {cur}}
  PROVE  Promised
<1>1. Held' = Held
  BY DEF Held
<1>2. CASE OnDisk' = OnDisk
  BY <1>1, <1>2, MapStutter
<1>3. CASE OnDisk' \in {OnDisk \cup {cur}, OnDisk \ {cur}}
  <2>1. Contract!Work
    BY <1>1, <1>3 DEF Contract!Work, Held, OnDisk
  <2> QED BY <2>1 DEF Promised, Contract!Next
<1> QED BY <1>2, <1>3

LEMMA MapBetween ==
  ASSUME pc = "idle", pc' = "idle", cur' = cur
  PROVE  Promised
<1>1. Contract!Between
  BY DEF Contract!Between
<1> QED BY <1>1 DEF Promised, Contract!Next

LEMMA MapOpen ==
  ASSUME pc = "idle", pc' # "idle", Held' \subseteq OnDisk, OnDisk' = OnDisk, cur' = cur
  PROVE  Promised
<1>1. Contract!Open
  BY DEF Contract!Open, Held, OnDisk
<1> QED BY <1>1 DEF Promised, Contract!Next

(* Replacing the record of one change.                                      *)
LEMMA HeldWith ==
  ASSUME TypeOK, pc # "idle", pc' # "idle", NEW c \in Changes, NEW r \in Record,
         mem' = With(mem, c, r), mem.rec[c].status # "done"
  PROVE  Held' = IF r.status = "done" THEN Held \cup {c} ELSE Held
<1>1. \A d \in Changes : mem'.rec[d] = IF d = c THEN r ELSE mem.rec[d]
  BY WithFacts DEF TypeOK
<1>2. CASE r.status = "done"
  BY <1>1, <1>2 DEF Held
<1>3. CASE r.status # "done"
  BY <1>1, <1>3 DEF Held
<1> QED BY <1>2, <1>3

(* Clearing a scaffold, and leaving the tree alone, keep what is archived.  *)
LEMMA DiskPrepared ==
  ASSUME TypeOK, ArchiveInv, NEW c \in Changes, CreatePrepared(c) \/ UNCHANGED tree
  PROVE  OnDisk' = OnDisk
<1>1. \A d \in Changes : ArchivedOnDisk(tree'[d]) = ArchivedOnDisk(tree[d])
  BY PreparedFacts DEF ArchivedOnDisk
<1> QED BY <1>1 DEF OnDisk

LEMMA MapPick ==
  ASSUME TypeOK, OrderInv, ArchiveInv, Pick
  PROVE  Promised
<1>1. CASE Finish \/ StopEarly \/ RefuseDirty
  <2>1. pc = "pick" /\ pc' = "idle" /\ cur' = NoChange /\ UNCHANGED tree
    BY <1>1 DEF Finish, StopEarly, RefuseDirty, Exit, repo
  <2> QED BY <2>1, MapClose DEF OnDisk
<1>2. ASSUME NEW c \in Changes, Picked(c)
      PROVE  /\ pc = "pick" /\ cur = NoChange /\ mem.rec[c].status = "pending"
             /\ c \notin Held /\ Deps[c] \subseteq Held \cap Enabled
  <2>1. pc = "pick" /\ cur = NoChange
    BY <1>2 DEF Picked, TypeOK
  <2> QED BY <1>2, <2>1, ReadyFacts, DepsAssumption DEF Held
<1>3. ASSUME NEW c \in Changes, NEW r \in Record, Picked(c), mem' = With(mem, c, r),
             r.status # "done", pc' = "pick", cur' = cur, CreatePrepared(c) \/ UNCHANGED tree
      PROVE  Promised
  <2>1. Held' = Held
    BY <1>2, <1>3, HeldWith
  <2> QED BY <1>2, <1>3, <2>1, DiskPrepared, MapStutter
<1>4. ASSUME NEW c \in Changes, CreateUnconfigured(c) \/ CreateDebris(c) \/ CreateExhausted(c)
      PROVE  Promised
  <2>1. PICK why \in Reasons : FailPicked(c, why)
    BY <1>4 DEF CreateUnconfigured, CreateDebris, CreateExhausted, Reasons
  <2> DEFINE r == Failed(mem.rec[c], why)
  <2>2. r \in Record /\ r.status # "done"
    BY RecordOf, StatusTypes, OthersNotDone
  <2>3. /\ Picked(c) /\ mem' = With(mem, c, r) /\ pc' = pc /\ cur' = cur
        /\ (CreatePrepared(c) \/ UNCHANGED tree)
    BY <1>4, <2>1 DEF FailPicked, Save, proc, CreateUnconfigured, CreateDebris,
       CreateExhausted, CreatePrepared
  <2> HIDE DEF r
  <2> QED BY <1>2, <1>3, <2>2, <2>3
<1>5. ASSUME NEW c \in Changes, CreateStarts(c)
      PROVE  /\ Picked(c) /\ CreatePrepared(c)
             /\ Failed(CountedAttempt(mem.rec[c]), "spawn") \in Record
             /\ Failed(CountedAttempt(mem.rec[c]), "spawn").status # "done"
             /\ Running(CountedAttempt(mem.rec[c])) \in Record
             /\ Running(CountedAttempt(mem.rec[c])).status # "done"
  <2>1. CountedAttempt(mem.rec[c]) \in Record /\ "spawn" \in Reasons
    BY <1>5, RecordOf, CountedType DEF CreateStarts, Reasons
  <2> QED BY <1>5, <2>1, StatusTypes, OthersNotDone DEF CreateStarts, CreatePrepared
<1>6. ASSUME NEW c \in Changes, CreateEnvError(c)
      PROVE  Promised
  <2> DEFINE r == Failed(CountedAttempt(mem.rec[c]), "spawn")
  <2>1. Picked(c) /\ CreatePrepared(c) /\ r \in Record /\ r.status # "done"
    BY <1>5, <1>6 DEF CreateEnvError
  <2>2. mem' = With(mem, c, r) /\ pc' = pc /\ cur' = cur
    BY <1>6 DEF CreateEnvError, Save, proc
  <2> HIDE DEF r
  <2> QED BY <1>2, <1>3, <2>1, <2>2
<1>7. ASSUME NEW c \in Changes, CreateSpawnError(c)
      PROVE  Promised
  <2>1. Picked(c) /\ CreatePrepared(c) /\ pc' = "idle" /\ cur' = NoChange
    BY <1>5, <1>7 DEF CreateSpawnError, Exit
  <2> QED BY <1>2, <2>1, DiskPrepared, MapClose
<1>8. ASSUME NEW c \in Changes, DispatchCreate(c)
      PROVE  Promised
  <2> DEFINE r == Running(CountedAttempt(mem.rec[c]))
  <2>1. Picked(c) /\ CreatePrepared(c) /\ r \in Record /\ r.status # "done"
    BY <1>5, <1>8 DEF DispatchCreate
  <2>2. mem' = With(mem, c, r) /\ pc' = "create" /\ cur' = c
    BY <1>8 DEF DispatchCreate, Save, GoTo
  <2> HIDE DEF r
  <2>3. Held' = Held
    BY <1>2, <2>1, <2>2, HeldWith
  <2> QED BY <1>2, <2>1, <2>2, <2>3, DiskPrepared, MapBegin
<1>9. ASSUME NEW c \in Changes, SkipAuthored(c)
      PROVE  Promised
  <2>1. Picked(c) /\ pc' = "pick" /\ cur' = NoChange /\ UNCHANGED <<mem, tree>>
    BY <1>9 DEF SkipAuthored, Visit, repo
  <2>2. Held' = Held /\ OnDisk' = OnDisk
    BY <1>2, <2>1 DEF Held, OnDisk
  <2> QED BY <1>2, <2>1, <2>2, MapStutter
<1>10. ASSUME NEW c \in Changes, Drive(c)
       PROVE  Promised
  <2>1. Picked(c) /\ pc' = "stage" /\ cur' = c /\ UNCHANGED <<mem, tree>>
    BY <1>10 DEF Drive, GoTo, repo
  <2>2. Held' = Held /\ OnDisk' = OnDisk
    BY <1>2, <2>1 DEF Held, OnDisk
  <2> QED BY <1>2, <2>1, <2>2, MapBegin
<1> QED BY <1>1, <1>4, <1>6, <1>7, <1>8, <1>9, <1>10 DEF Pick

(* The steps on the change being worked on.                                 *)
LEMMA MapEngine ==
  ASSUME TypeOK, OrderInv, OrderInv', ArchiveInv, Engine
  PROVE  Promised
<1>1. ASSUME Busy
      PROVE  /\ cur \in Changes /\ cur # NoChange /\ mem.rec[cur] \in Record /\ pc # "idle"
             /\ mem.rec[cur].status # "done"
  BY <1>1, CurOf, NoChangeAssumption DEF Busy, OrderInv, CurUnderway, Underway
<1>2. ASSUME Busy, NEW r \in Record, mem' = With(mem, cur, r), UNCHANGED tree, pc' = "pick",
             cur' = NoChange
      PROVE  Promised
  <2>1. Held' = IF r.status = "done" THEN Held \cup {cur} ELSE Held
    BY <1>1, <1>2, HeldWith
  <2>2. mem'.rec[cur] = r
    BY <1>1, <1>2, WithFacts DEF TypeOK
  <2>3. r.status = "done" => ArchivedOnDisk(tree[cur])
    BY <1>1, <1>2, <2>2
    DEF OrderInv, DoneVerified, verify_direct_archive_done, ArchivedOnDisk
  <2>4. OnDisk' = OnDisk /\ (r.status = "done" => cur \in OnDisk)
    BY <1>1, <1>2, <2>3 DEF OnDisk
  <2> QED BY <1>1, <1>2, <2>1, <2>4, MapYield
<1>3. ASSUME Busy, NEW r \in Record, mem' = With(mem, cur, r), UNCHANGED tree, pc' # "idle",
             cur' = cur, r.status # "done"
      PROVE  Promised
  <2>1. Held' = Held /\ OnDisk' = OnDisk
    BY <1>1, <1>3, HeldWith DEF OnDisk
  <2> QED BY <1>1, <1>3, <2>1, MapStutter
<1>4. CASE Pick
  BY <1>4, MapPick
<1>5. CASE Settles
  <2>1. PICK r \in Record :
          /\ mem' = With(mem, cur, r)
          /\ \/ pc' = "pick" /\ cur' = NoChange
             \/ pc' = "stage" /\ cur' = cur /\ r.status = "pending"
    BY <1>5, SettleFacts
  <2>2. Busy /\ UNCHANGED tree
    BY <1>5, SettleFacts
  <2> QED BY <1>2, <1>3, <2>1, <2>2
<1>6. CASE Dispatch
  <2>1. Busy /\ pc' = "worker" /\ cur' = cur /\ UNCHANGED tree
    BY <1>6 DEF Dispatch, GoTo, repo, Busy
  <2> DEFINE r == Launched(mem.rec[cur])
  <2>2. r \in Record /\ r.status = "running"
    <3>1. Running(mem.rec[cur]) \in Record
      BY <1>1, <2>1, StatusTypes DEF Reasons
    <3> QED BY <1>1, <2>1, <3>1, OutcomeTypes, OthersNotDone DEF Launched
  <2>3. mem' = With(mem, cur, r)
    BY <1>6 DEF Dispatch
  <2> HIDE DEF r
  <2> QED BY <1>3, <2>1, <2>2, <2>3
<1>7. CASE WorkerSpawnError
  <2>1. pc # "idle" /\ pc' = "idle" /\ cur' = NoChange /\ UNCHANGED tree
    BY <1>7 DEF WorkerSpawnError, Exit, repo
  <2> QED BY <2>1, MapClose DEF OnDisk
<1>8. CASE InvalidOutput
  <2>1. Busy /\ UNCHANGED tree
    BY <1>8 DEF InvalidOutput, Busy, repo
  <2>2. CASE UNCHANGED <<mem, pc, cur>>
    BY <2>1, <2>2, MapStutter DEF Held, OnDisk
  <2>3. CASE Save(With(mem, cur, OutputInvalid(mem.rec[cur]))) /\ Visit(cur)
    <3>1. OutputInvalid(mem.rec[cur]) \in Record
      BY <1>1, <2>1, OutcomeTypes
    <3> QED BY <1>2, <2>1, <2>3, <3>1 DEF Save, Visit
  <2> QED BY <1>8, <2>2, <2>3 DEF InvalidOutput
<1> QED BY <1>4, <1>5, <1>6, <1>7, <1>8 DEF Engine, Settles

LEMMA MapWorker ==
  ASSUME TypeOK, ArchiveInv, Worker
  PROVE  Promised
<1>1. Busy /\ cur \in Changes /\ cur # NoChange /\ UNCHANGED <<mem, pc, cur>>
  BY CurOf, NoChangeAssumption
  DEF Worker, CreateWork, ImplementWork, ArchiveMove, ArchiveCommit, ArchiveRestore, WorkerOn,
      Busy, proc
<1>2. \A d \in Changes \ {cur} : tree'[d] = tree[d]
  BY <1>1 DEF Worker, CreateWork, ImplementWork, ArchiveMove, ArchiveCommit, ArchiveRestore, TypeOK
<1>3. OnDisk' \in {OnDisk, OnDisk \cup {cur}, OnDisk \ {cur}}
  <2>1. CASE ArchivedOnDisk(tree'[cur])
    <3>1. OnDisk' = OnDisk \cup {cur}
      BY <1>1, <1>2, <2>1 DEF OnDisk
    <3> QED BY <3>1
  <2>2. CASE ~ArchivedOnDisk(tree'[cur])
    <3>1. OnDisk' = OnDisk \ {cur}
      BY <1>1, <1>2, <2>2 DEF OnDisk
    <3> QED BY <3>1
  <2> QED BY <2>1, <2>2
<1> QED BY <1>1, <1>3, MapWork DEF Busy

LEMMA MapOperator ==
  ASSUME TypeOK, Operator
  PROVE  Promised
<1>1. CASE UNCHANGED <<mem, tree, pc, cur>>
  BY <1>1, MapStutter DEF Held, OnDisk
<1>2. CASE pc = "idle" /\ UNCHANGED <<pc, cur>>
  BY <1>2, MapBetween
<1>3. UNCHANGED <<mem, tree, pc, cur>> \/ (pc = "idle" /\ UNCHANGED <<pc, cur>>)
  BY DEF Operator, CommitEdits, Approve, Accept, Reset, AuthorByHand, DeleteChange, RevertArchive,
     ConfigureCreate, Between, proc, repo
<1> QED BY <1>1, <1>2, <1>3

(* For any plan, limits, answers, crashes and edits of the operator: the    *)
(* run works on one change at a time, only over dependencies that are       *)
(* archived, and holds as done only what is archived on disk.               *)
THEOREM RunImplementsContract == Spec => RefinesContract
<1> DEFINE Inv == TypeOK /\ OrderInv /\ ArchiveInv
<1>1. Init => Inv
  BY TypeInit, ArchiveInit DEF Init, OrderInv, DoneVerified, CurUnderway, DepsDone, Busy
<1>2. Inv /\ [Next]_vars => Inv'
  BY TypeNext, OrderNext, ArchiveStep
<1>3. Init => Contract!Init
  BY DEF Init, Contract!Init
<1>4. Inv /\ Inv' /\ [Next]_vars => Promised
  <2> SUFFICES ASSUME Inv, Inv', [Next]_vars PROVE Promised
    OBVIOUS
  <2>1. CASE StartRun
    <3>1. pc = "idle" /\ pc' = "pick" /\ cur' = cur /\ UNCHANGED tree
      BY <2>1 DEF StartRun, repo
    <3>2. Held' \subseteq OnDisk /\ OnDisk' = OnDisk
      BY <3>1 DEF Held, OnDisk, OrderInv, DoneVerified, verify_direct_archive_done, ArchivedOnDisk
    <3> QED BY <3>1, <3>2, MapOpen
  <2>2. CASE Interrupt
    <3>1. pc # "idle" /\ pc' = "idle" /\ cur' = NoChange /\ UNCHANGED tree
      BY <2>2 DEF Interrupt, Exit, repo
    <3> QED BY <3>1, MapClose DEF OnDisk
  <2>3. CASE UNCHANGED vars
    <3>1. UNCHANGED <<mem, tree, pc, cur>>
      BY <2>3 DEF vars, proc, repo
    <3> QED BY <3>1, MapStutter DEF Held, OnDisk
  <2> QED BY <2>1, <2>2, <2>3, MapEngine, MapWorker, MapOperator DEF Next
<1>5. RefinesContract <=> Contract!Init /\ [][Contract!Next]_(Contract!vars)
  BY DEF RefinesContract, Contract!Spec
<1> HIDE DEF Inv
<1> QED BY <1>1, <1>2, <1>3, <1>4, <1>5, PTL DEF Spec, Promised

-----------------------------------------------------------------------------
(* How a record may follow another.                                         *)

(* The place in the loop, and what the next prompt and verdict rest on.     *)
SameFields(p, q) ==
  /\ p.phase = q.phase /\ p.round = q.round /\ p.fixFrom = q.fixFrom
  /\ p.streak = q.streak /\ p.cites = q.cites

SameLoop(p, q) == SameFields(p, q) /\ p.status = q.status

Unstarted(r) == r.phase = "implement" /\ r.round = 1 /\ r.fixFrom = 0 /\ r.cites = {}

Rests(p, q) == SameFields(p, q) /\ (Underway(q) => Underway(p))

Advanced(p, q) == q.phase = "implement" /\ q.round = p.round + 1 /\ q.fixFrom = p.round

Implemented(p, q) ==
  /\ Underway(p) /\ p.phase = "implement" /\ q.cites = p.cites
  /\ \/ ~Underway(q) /\ q.phase = "implement"
     \/ Advanced(p, q)
     \/ q.phase = "review" /\ q.round = p.round

CriticalRecurs(r) == Recurring(r.cites, {"critical"})

Reviewed(p, q) ==
  /\ Underway(p) /\ p.phase = "review"
  /\ \/ ~Underway(q) /\ q.phase = "review"
     \/ Advanced(p, q) /\ ~CriticalRecurs(q)
     \/ q.phase = "archive" /\ q.round = p.round

(* The place in the loop is what the copies agree on, so it does not matter  *)
(* from which of them a result was computed.                                *)
LEMMA FromEither ==
  ASSUME NEW p, NEW s, NEW q, SameLoop(p, s)
  PROVE  /\ Rests(s, q) => Rests(p, q)
         /\ Implemented(s, q) => Implemented(p, q)
         /\ Reviewed(s, q) => Reviewed(p, q)
  BY DEF SameLoop, SameFields, Rests, Underway, Implemented, Reviewed, Advanced, CriticalRecurs

-----------------------------------------------------------------------------
(* What the handlers do to the place in the loop.                           *)

(* The status changes, and the choice of the model.                         *)
LEMMA StatusRests ==
  ASSUME NEW r \in Record
  PROVE  /\ \A why : Rests(r, Failed(r, why))
         /\ SameFields(r, Pending(r)) /\ SameFields(r, Running(r))
         /\ Underway(r) => Rests(r, Pending(r)) /\ Rests(r, Running(r))
         /\ SameLoop(r, Escalated(r)) /\ SameLoop(r, CountedAttempt(r))
         /\ Rests(r, OutputInvalid(r))
         /\ Done(r).phase = "done"
<1>1. /\ \A why : Rests(r, Failed(r, why))
      /\ SameFields(r, Pending(r)) /\ SameFields(r, Running(r))
      /\ Done(r).phase = "done"
  BY DEF Failed, Pending, Running, Done, Rests, SameFields, Underway, Record
<1>2. SameLoop(r, Escalated(r)) /\ SameLoop(r, CountedAttempt(r))
  BY DEF Escalated, CountedAttempt, SameLoop, SameFields, Record
<1>3. Rests(r, OutputInvalid(r))
  BY DEF OutputInvalid, Failed, Rests, SameFields, Underway, Record
<1> QED BY <1>1, <1>2, <1>3 DEF Rests

(* The end of a round that did not pass.                                    *)
LEMMA IncompleteMoves ==
  ASSUME NEW r \in Record
  PROVE  /\ IncompleteRound(r).cites = r.cites
         /\ \/ ~Underway(IncompleteRound(r)) /\ IncompleteRound(r).phase = r.phase
            \/ Advanced(r, IncompleteRound(r))
<1>1. CASE r.round >= MaxRounds
  BY <1>1 DEF IncompleteRound, Prompted, Failed, Underway, Record
<1>2. CASE ~(r.round >= MaxRounds)
  BY <1>2 DEF IncompleteRound, NextRound, Prompted, At, Pending, Advanced, Record
<1> QED BY <1>1, <1>2

(* The implement handler.                                                   *)
LEMMA ImplementMoves ==
  ASSUME NEW r \in Record, NEW t \in Tree, NEW p \in ImplementPayloads,
         Underway(r), r.phase = "implement"
  PROVE  Implemented(r, apply_implement_result(r, t, p))
<1>1. ASSUME NEW q \in Record, q.phase = "implement", q.round = r.round, q.cites = r.cites
      PROVE  /\ Implemented(r, IncompleteRound(q))
             /\ \A why : Implemented(r, Failed(q, why))
             /\ Implemented(r, Pending(At(q, "review")))
  <2>1. Implemented(r, IncompleteRound(q))
    BY <1>1, IncompleteMoves DEF Implemented, Advanced
  <2>2. \A why : Implemented(r, Failed(q, why))
    BY <1>1 DEF Failed, Implemented, Underway, Record
  <2>3. Implemented(r, Pending(At(q, "review")))
    BY <1>1 DEF Pending, At, Implemented, Record
  <2> QED BY <2>1, <2>2, <2>3
<1>2. Implemented(r, ImplementBlocked(r, t, p.progress))
  <2> DEFINE counted == IF p.progress THEN [r EXCEPT !.streak = 0] ELSE r
  <2>1. /\ counted \in Record /\ counted.phase = "implement"
        /\ counted.round = r.round /\ counted.cites = r.cites
    BY DEF Record
  <2>2. /\ Implemented(r, IncompleteRound(counted))
        /\ Implemented(r, Failed(counted, "implement_blocked"))
    BY <1>1, <2>1
  <2> QED BY <2>2 DEF ImplementBlocked
<1>3. Implemented(r, ImplementCompleted(r, t, p.progress))
  <2> DEFINE counted == [r EXCEPT !.streak = IF p.progress THEN 0 ELSE r.streak + 1]
  <2>1. /\ counted \in Record /\ counted.phase = "implement"
        /\ counted.round = r.round /\ counted.cites = r.cites
    BY DEF Record
  <2>2. /\ Implemented(r, IncompleteRound(counted))
        /\ Implemented(r, Failed(counted, "no_progress"))
        /\ Implemented(r, Pending(At(counted, "review")))
    BY <1>1, <2>1
  <2> QED BY <2>2 DEF ImplementCompleted
<1>4. Implemented(r, Failed(r, "implement_invalid"))
  BY <1>1
<1> QED BY <1>2, <1>3, <1>4 DEF apply_implement_result

(* A critical finding counts under every policy, so what does not recur for *)
(* the policy of the run does not recur critically.                         *)
LEMMA RecurringCritical ==
  ASSUME NEW cites, NEW policy_, Recurring(cites, {"critical"})
  PROVE  Recurring(cites, blocking_severities(policy_))
<1> DEFINE S == blocking_severities(policy_)
<1>1. "critical" \in S
  BY DEF blocking_severities, Severities
<1>2. PICK l \in Loci : Cardinality(LocusRounds(cites, {"critical"}, l)) >= RecurrenceLimit
  BY DEF Recurring
<1>3. /\ LocusRounds(cites, {"critical"}, l) \subseteq LocusRounds(cites, S, l)
      /\ LocusRounds(cites, S, l) \subseteq 1 .. MaxRounds
  BY <1>1 DEF LocusRounds
<1>4. IsFiniteSet(1 .. MaxRounds)
  BY MaxRoundsAssumption, FS_Interval
<1>5. IsFiniteSet(LocusRounds(cites, S, l))
  BY <1>3, <1>4, FS_Subset
<1>6. /\ IsFiniteSet(LocusRounds(cites, {"critical"}, l))
      /\ Cardinality(LocusRounds(cites, {"critical"}, l)) <= Cardinality(LocusRounds(cites, S, l))
  BY <1>3, <1>5, FS_Subset
<1>7. /\ Cardinality(LocusRounds(cites, S, l)) \in Nat
      /\ Cardinality(LocusRounds(cites, {"critical"}, l)) \in Nat
  BY <1>5, <1>6, FS_CardinalityType
<1>8. Cardinality(LocusRounds(cites, S, l)) >= RecurrenceLimit
  BY <1>2, <1>6, <1>7, RecurrenceAssumption
<1> QED BY <1>8 DEF Recurring

(* The review handler.                                                      *)
LEMMA ReviewMoves ==
  ASSUME NEW r \in Record, NEW p \in ReviewPayloads, NEW pol \in Policies,
         Underway(r), r.phase = "review"
  PROVE  /\ Reviewed(r, apply_review_result(r, p, pol))
         /\ apply_review_result(r, p, pol).phase = "archive" =>
              ReviewAnswered(p) /\ "critical" \notin p.counts
<1> DEFINE recorded == ReviewRecorded(r, p)
<1>1. {<<r.round, f[1], f[2]>> : f \in p.findings} \subseteq Citations
  BY DEF ReviewPayloads, Citations, Record
<1>2. recorded \in Record /\ recorded.phase = "review" /\ recorded.round = r.round
  BY <1>1 DEF ReviewRecorded, Record
<1> HIDE DEF recorded
<1>3. ASSUME NEW q \in Record, q.phase = "review", NEW why
      PROVE  Reviewed(r, Failed(q, why)) /\ Failed(q, why).phase = "review"
  BY <1>3 DEF Failed, Reviewed, Underway, Record
<1>4. /\ Reviewed(r, Pending(ToArchive(recorded)))
  BY <1>2 DEF ToArchive, At, Pending, Reviewed, Record
<1>5. Reviewed(r, ReviewFailed(recorded, pol)) /\ ReviewFailed(recorded, pol).phase # "archive"
  <2>1. CASE Recurring(recorded.cites, blocking_severities(pol))
    <3>1. Prompted(recorded) \in Record /\ Prompted(recorded).phase = "review"
      BY <1>2 DEF Prompted, Record
    <3> QED BY <1>3, <2>1, <3>1 DEF ReviewFailed
  <2>2. CASE ~Recurring(recorded.cites, blocking_severities(pol))
    <3>1. ReviewFailed(recorded, pol) = IncompleteRound(recorded)
      BY <2>2 DEF ReviewFailed
    <3>2. ~Recurring(recorded.cites, {"critical"})
      BY <2>2, RecurringCritical
    <3>3. IncompleteRound(recorded).cites = recorded.cites
      BY <1>2, IncompleteMoves
    <3>4. ~CriticalRecurs(IncompleteRound(recorded))
      BY <3>2, <3>3 DEF CriticalRecurs
    <3>5. \/ ~Underway(IncompleteRound(recorded)) /\ IncompleteRound(recorded).phase = "review"
          \/ Advanced(r, IncompleteRound(recorded))
      BY <1>2, IncompleteMoves DEF Advanced
    <3> QED BY <3>1, <3>4, <3>5 DEF Reviewed, Advanced
  <2> QED BY <2>1, <2>2
<1>6. ReviewPassed(p, pol) => "critical" \notin p.counts
  BY DEF ReviewPassed, blocking_severities, Severities
<1> QED BY <1>2, <1>3, <1>4, <1>5, <1>6 DEF apply_review_result, ReviewAnswered, recorded

(* The archive handler settles the change.                                  *)
LEMMA ArchiveMoves ==
  ASSUME NEW r \in Record, NEW t \in Tree, NEW p \in ArchivePayloads,
         NEW checks_ok \in BOOLEAN, NEW clean_ok \in BOOLEAN
  PROVE  \/ Rests(r, apply_archive_result(r, t, p, checks_ok, clean_ok))
         \/ apply_archive_result(r, t, p, checks_ok, clean_ok).phase = "done"
<1>1. ASSUME NEW q \in Record, SameFields(r, q)
      PROVE  /\ Rests(r, Failed(q, "archive_failed")) /\ Rests(r, ArchiveFailed(q))
             /\ Done(q).phase = "done"
  BY <1>1 DEF ArchiveFailed, Failed, Done, Rests, SameFields, Underway, Record
<1>2. \A s \in {"passed", "failed"} :
        ArchiveClaim(r, s, p) \in Record /\ SameFields(r, ArchiveClaim(r, s, p))
  BY DEF ArchiveClaim, ArchivePayloads, Record, ArchiveStates, SameFields
<1>3. SameFields(r, r)
  BY DEF SameFields
<1> QED BY <1>1, <1>2, <1>3 DEF apply_archive_result

(* What a new run makes of a record: done, where it was, or where it was     *)
(* and pending again because nothing is on disk.                            *)
LEMMA ReconcileMoves ==
  ASSUME NEW r \in Record, NEW t \in Tree, NEW i \in BOOLEAN
  PROVE  \/ reconcile(r, t, i).phase = "done" /\ reconcile(r, t, i).status = "done"
         \/ Rests(r, reconcile(r, t, i))
            /\ (Underway(r) => reconcile(r, t, i).status \in {"pending", "failed"})
         \/ SameFields(r, reconcile(r, t, i)) /\ Requeueable(r, t, i)
<1> DEFINE q == Recovered(r)
<1>1. /\ q \in Record /\ SameFields(r, q) /\ (Underway(q) => Underway(r))
      /\ q.status = "failed" => q = r
      /\ Underway(r) => q.status = "pending"
  BY DEF Recovered, Pending, SameFields, Underway, Record, Statuses, Reasons
<1> HIDE DEF q
<1>2. CASE Requeueable(q, t, i)
  <2>1. q.status = "failed" /\ q = r
    BY <1>1, <1>2 DEF Requeueable
  <2> QED BY <1>2, <2>1, StatusRests DEF reconcile, q
<1>3. ASSUME NEW s \in Record, s = q \/ s = record_archive_evidence(q, t)
      PROVE  Done(s).phase = "done" /\ Done(s).status = "done"
  BY <1>3 DEF Done, Record
<1>4. record_archive_evidence(q, t) \in Record
  BY <1>1 DEF record_archive_evidence, Record, ArchiveStates, Commits
<1>5. Failed(q, "evidence").status = "failed" /\ Rests(r, Failed(q, "evidence"))
  BY <1>1 DEF Failed, Rests, SameFields, Underway, Record
<1>6. Rests(r, q)
  BY <1>1 DEF Rests
<1>7. Rests(r, AdoptCreated(q, t)) /\ (q.status = "pending" => AdoptCreated(q, t).status = "pending")
  <2>1. CASE AdoptCreated(q, t) = q
    BY <1>6, <2>1
  <2>2. CASE AdoptCreated(q, t) # q
    BY <1>1, <2>2 DEF AdoptCreated, Pending, Rests, SameFields, Underway, Record
  <2> QED BY <2>1, <2>2
<1>8. CASE ~Requeueable(q, t, i) /\ q.status # "done"
  BY <1>1, <1>3, <1>4, <1>5, <1>7, <1>8 DEF reconcile, ReconcileUnfinished, q
<1>9. CASE ~Requeueable(q, t, i) /\ q.status = "done"
  BY <1>1, <1>5, <1>6, <1>9 DEF reconcile, q
<1> QED BY <1>2, <1>8, <1>9

-----------------------------------------------------------------------------
(* The two copies.  While an engine runs, the file and its memory agree on  *)
(* where every change is in the loop: gate commands write other fields, and *)
(* the choice of a model is not saved.                                      *)
CopiesAgree == pc # "idle" => \A c \in Changes : SameLoop(file.rec[c], mem.rec[c])

(* One record is replaced in what the engine holds, and saved.              *)
LEMMA SavedCopies ==
  ASSUME TypeOK, CopiesAgree, pc # "idle", NEW e \in Changes, NEW r \in Record,
         NEW m \in Record, SameLoop(r, m), file' = With(mem, e, r),
         mem' = With(mem, e, m) \/ pc' = "idle"
  PROVE  /\ CopiesAgree'
         /\ file'.rec[e] = r
         /\ \A c \in Changes \ {e} : Rests(file.rec[c], file'.rec[c])
<1>1. file'.rec[e] = r /\ \A c \in Changes \ {e} : file'.rec[c] = mem.rec[c]
  BY WithFacts DEF TypeOK
<1>2. \A c \in Changes \ {e} : Rests(file.rec[c], file'.rec[c])
  BY <1>1 DEF CopiesAgree, SameLoop, Rests, Underway, SameFields
<1>3. CASE pc' = "idle"
  BY <1>1, <1>2, <1>3 DEF CopiesAgree
<1>4. CASE mem' = With(mem, e, m)
  <2>1. mem'.rec[e] = m /\ \A c \in Changes \ {e} : mem'.rec[c] = mem.rec[c]
    BY <1>4, WithFacts DEF TypeOK
  <2>2. \A c \in Changes : SameLoop(file'.rec[c], mem'.rec[c])
    BY <1>1, <2>1 DEF SameLoop, SameFields
  <2> QED BY <1>1, <1>2, <2>2 DEF CopiesAgree
<1> QED BY <1>3, <1>4

LEMMA SameSelf == \A r : SameLoop(r, r) /\ SameFields(r, r) /\ Rests(r, r)
  BY DEF SameLoop, SameFields, Rests

-----------------------------------------------------------------------------
(* What any step does to the saved record of a change and to its history.   *)
Follows(c) ==
  LET p == file.rec[c]
      q == file'.rec[c]
  IN  \/ impls'[c] = impls[c] /\ Rests(p, q)
      \/ impls'[c] = impls[c] /\ q.phase = "done"
      \/ /\ impls'[c] = impls[c] /\ SameFields(p, q)
         /\ pc = "idle" /\ Requeueable(p, tree[c], c \in invokes)
      \/ pc = "worker" /\ cur = c /\ impls'[c] = impls[c] + 1 /\ Implemented(p, q)
      \/ /\ pc = "worker" /\ cur = c /\ impls'[c] = impls[c] /\ Reviewed(p, q)
         /\ q.phase = "archive" => c \in reviewed'
      \/ impls'[c] = 0 /\ Unstarted(q)

(* A step that saves one record, and leaves the change where it is or marks *)
(* it done.                                                                 *)
LEMMA FollowsSaved ==
  ASSUME TypeOK, CopiesAgree, pc # "idle", NEW e \in Changes, NEW r \in Record,
         NEW m \in Record, SameLoop(r, m), file' = With(mem, e, r),
         mem' = With(mem, e, m) \/ pc' = "idle",
         impls' = impls, Rests(mem.rec[e], r) \/ r.phase = "done"
  PROVE  CopiesAgree' /\ \A c \in Changes : Follows(c)
<1>1. /\ CopiesAgree' /\ file'.rec[e] = r
      /\ \A c \in Changes \ {e} : Rests(file.rec[c], file'.rec[c])
  BY SavedCopies
<1>2. Rests(mem.rec[e], r) => Rests(file.rec[e], r)
  BY FromEither DEF CopiesAgree
<1> QED BY <1>1, <1>2 DEF Follows

(* Nor does a step that leaves both copies alone, or loses the memory.      *)
LEMMA FollowsStays ==
  ASSUME CopiesAgree, impls' = impls,
         file' = file \/ (pc # "idle" /\ file' = mem),
         pc' = "idle" \/ (mem' = mem /\ file' = file /\ (pc' = pc \/ pc # "idle"))
  PROVE  CopiesAgree' /\ \A c \in Changes : Follows(c)
<1>1. CopiesAgree'
  BY DEF CopiesAgree
<1>2. \A c \in Changes : Rests(file.rec[c], file'.rec[c])
  BY SameSelf DEF CopiesAgree, SameLoop, Rests, Underway, SameFields
<1> QED BY <1>1, <1>2 DEF Follows

(* A new run.                                                               *)
LEMMA FollowsStart ==
  ASSUME TypeOK, StartRun
  PROVE  CopiesAgree' /\ \A c \in Changes : Follows(c)
<1>1. file' = Reconciled(file) /\ mem' = file' /\ impls' = impls /\ pc = "idle"
  BY DEF StartRun, Save, ghosts
<1>2. CopiesAgree'
  BY <1>1, SameSelf DEF CopiesAgree
<1>3. ASSUME NEW c \in Changes
      PROVE  Follows(c)
  <2>1. file'.rec[c] = reconcile(file.rec[c], tree[c], c \in invokes)
    BY <1>1 DEF Reconciled, TypeOK, State
  <2>2. /\ file.rec[c] \in Record /\ tree[c] \in Tree /\ (c \in invokes) \in BOOLEAN
    BY RecordOf
  <2>3. \/ file'.rec[c].phase = "done"
        \/ Rests(file.rec[c], file'.rec[c])
        \/ SameFields(file.rec[c], file'.rec[c]) /\ Requeueable(file.rec[c], tree[c], c \in invokes)
    BY <2>1, <2>2, ReconcileMoves
  <2> QED BY <1>1, <2>3 DEF Follows
<1> QED BY <1>2, <1>3

(* Picking.                                                                 *)
LEMMA FollowsPick ==
  ASSUME TypeOK, CopiesAgree, Pick
  PROVE  CopiesAgree' /\ \A c \in Changes : Follows(c)
<1>1. CASE Finish \/ StopEarly \/ RefuseDirty
  BY <1>1, FollowsStays DEF Finish, StopEarly, RefuseDirty, Exit, ghosts
<1>2. ASSUME NEW c \in Changes, CreateUnconfigured(c) \/ CreateDebris(c) \/ CreateExhausted(c)
      PROVE  CopiesAgree' /\ \A d \in Changes : Follows(d)
  <2>1. PICK why \in Reasons : FailPicked(c, why)
    BY <1>2 DEF CreateUnconfigured, CreateDebris, CreateExhausted, Reasons
  <2> DEFINE r == Failed(mem.rec[c], why)
  <2>2. r \in Record /\ Rests(mem.rec[c], r)
    BY RecordOf, StatusTypes, StatusRests
  <2>3. file' = With(mem, c, r) /\ mem' = With(mem, c, r) /\ impls' = impls /\ pc # "idle"
    BY <1>2, <2>1 DEF FailPicked, Save, ghosts, CreateUnconfigured, CreateDebris,
       CreateExhausted, CreatePrepared, Picked
  <2> HIDE DEF r
  <2> QED BY <2>2, <2>3, SameSelf, FollowsSaved
<1>3. ASSUME NEW c \in Changes, CreateStarts(c)
      PROVE  /\ CountedAttempt(mem.rec[c]) \in Record
             /\ Failed(CountedAttempt(mem.rec[c]), "spawn") \in Record
             /\ Rests(mem.rec[c], Failed(CountedAttempt(mem.rec[c]), "spawn"))
             /\ Running(CountedAttempt(mem.rec[c])) \in Record
             /\ Rests(mem.rec[c], Running(CountedAttempt(mem.rec[c])))
             /\ pc # "idle"
  <2>1. CountedAttempt(mem.rec[c]) \in Record /\ SameLoop(mem.rec[c], CountedAttempt(mem.rec[c]))
    BY <1>3, RecordOf, CountedType, StatusRests DEF CreateStarts
  <2>2. "spawn" \in Reasons /\ "none" \in Reasons
    BY DEF Reasons
  <2>3. mem.rec[c].status = "pending" /\ pc # "idle"
    BY <1>3, ReadyFacts DEF CreateStarts, CreatePrepared, Picked
  <2>4. Underway(CountedAttempt(mem.rec[c]))
    BY <2>1, <2>3 DEF SameLoop, Underway
  <2> QED BY <2>1, <2>2, <2>3, <2>4, StatusTypes, StatusRests, FromEither
<1>4. ASSUME NEW c \in Changes, CreateEnvError(c) \/ CreateSpawnError(c)
      PROVE  CopiesAgree' /\ \A d \in Changes : Follows(d)
  <2> DEFINE r == Failed(CountedAttempt(mem.rec[c]), "spawn")
  <2>1. CreateStarts(c)
    BY <1>4 DEF CreateEnvError, CreateSpawnError
  <2>2. r \in Record /\ Rests(mem.rec[c], r) /\ pc # "idle"
    BY <1>3, <2>1
  <2>3. file' = With(mem, c, r) /\ (mem' = With(mem, c, r) \/ pc' = "idle") /\ impls' = impls
    BY <1>4 DEF CreateEnvError, CreateSpawnError, Save, Exit, ghosts
  <2> HIDE DEF r
  <2> QED BY <2>2, <2>3, SameSelf, FollowsSaved
<1>5. ASSUME NEW c \in Changes, DispatchCreate(c)
      PROVE  CopiesAgree' /\ \A d \in Changes : Follows(d)
  <2> DEFINE r == Running(CountedAttempt(mem.rec[c]))
  <2>1. r \in Record /\ Rests(mem.rec[c], r) /\ pc # "idle"
    BY <1>3, <1>5 DEF DispatchCreate
  <2>2. file' = With(mem, c, r) /\ mem' = With(mem, c, r) /\ impls' = impls
    BY <1>5 DEF DispatchCreate, Save
  <2> HIDE DEF r
  <2> QED BY <2>1, <2>2, SameSelf, FollowsSaved
<1>6. ASSUME NEW c \in Changes, SkipAuthored(c) \/ Drive(c)
      PROVE  CopiesAgree' /\ \A d \in Changes : Follows(d)
  <2>1. file' = file /\ mem' = mem /\ impls' = impls /\ pc # "idle"
    BY <1>6 DEF SkipAuthored, Drive, Picked, ghosts
  <2> QED BY <2>1, FollowsStays
<1> QED BY <1>1, <1>2, <1>4, <1>5, <1>6 DEF Pick

(* The change being worked on has not settled.                              *)
LEMMA CurFacts ==
  ASSUME TypeOK, OrderInv, Busy
  PROVE  /\ cur \in Changes /\ mem.rec[cur] \in Record /\ tree[cur] \in Tree
         /\ Underway(mem.rec[cur]) /\ pc # "idle"
  BY CurOf DEF OrderInv, CurUnderway, Busy

(* The engine's steps on the change it works on.                            *)
LEMMA FollowsEngine ==
  ASSUME TypeOK, OrderInv, CopiesAgree,
         \/ CreateResult \/ StageBudget \/ StageDone \/ Dispatch
         \/ InvalidOutput \/ WorkerTimeout \/ WorkerSpawnError
  PROVE  CopiesAgree' /\ \A c \in Changes : Follows(c)
<1> DEFINE R == mem.rec[cur]
<1>1. Busy
  BY DEF CreateResult, StageBudget, StageDone, Dispatch, InvalidOutput, WorkerTimeout,
     WorkerSpawnError, Busy
<1>2. cur \in Changes /\ R \in Record /\ tree[cur] \in Tree /\ Underway(R) /\ pc # "idle"
  BY <1>1, CurFacts
<1>3. \A s \in {"none", "spawn", "timeout", "evidence", "create_failed"} : s \in Reasons
  BY DEF Reasons
<1>4. ASSUME NEW r \in Record, Rests(R, r) \/ r.phase = "done", impls' = impls,
             file' = With(mem, cur, r), mem' = With(mem, cur, r) \/ pc' = "idle"
      PROVE  CopiesAgree' /\ \A c \in Changes : Follows(c)
  BY <1>2, <1>4, SameSelf, FollowsSaved
<1>5. /\ Pending(R) \in Record /\ Rests(R, Pending(R))
      /\ \A why \in Reasons : Failed(R, why) \in Record /\ Rests(R, Failed(R, why))
  BY <1>2, <1>3, StatusTypes, StatusRests
<1>6. CASE CreateResult
  <2> DEFINE made == [R EXCEPT !.created = TRUE]
             result == IF CreateVerified THEN Pending(made)
                       ELSE IF R.attempts < CreateMaxAttempts THEN Pending(R)
                       ELSE Failed(R, "create_failed")
  <2>1. made \in Record /\ SameLoop(R, made)
    BY <1>2 DEF SameLoop, SameFields, Record
  <2>2. Pending(made) \in Record /\ Rests(R, Pending(made))
    <3>1. Underway(made)
      BY <1>2, <2>1 DEF SameLoop, Underway
    <3> QED BY <1>3, <2>1, <3>1, StatusTypes, StatusRests, FromEither
  <2>3. result \in Record /\ Rests(R, result)
    BY <1>3, <1>5, <2>2
  <2>4. file' = With(mem, cur, result) /\ mem' = With(mem, cur, result) /\ impls' = impls
    BY <1>6 DEF CreateResult, Save, ghosts
  <2> HIDE DEF result
  <2> QED BY <1>4, <2>3, <2>4
<1>7. CASE StageBudget
  BY <1>4, <1>5, <1>7 DEF StageBudget, Save, ghosts
<1>8. CASE StageDone
  <2>1. Done(R) \in Record /\ Done(R).phase = "done"
    BY <1>2, <1>3, StatusTypes, StatusRests
  <2> DEFINE result == IF verify_direct_archive_done(R, tree[cur]) THEN Done(R)
                       ELSE Failed(R, "evidence")
  <2>2. result \in Record /\ (Rests(R, result) \/ result.phase = "done")
    BY <1>3, <1>5, <2>1
  <2>3. file' = With(mem, cur, result) /\ mem' = With(mem, cur, result) /\ impls' = impls
    BY <1>8 DEF StageDone, Save, ghosts
  <2> HIDE DEF result
  <2> QED BY <1>4, <2>2, <2>3
<1>9. /\ Running(R) \in Record /\ Launched(R) \in Record /\ Rests(R, Running(R))
      /\ SameLoop(Running(R), Launched(R)) /\ Rests(R, Launched(R))
  <2>1. Running(R) \in Record /\ Rests(R, Running(R))
    BY <1>2, <1>3, StatusTypes, StatusRests
  <2>2. Launched(R) \in Record /\ SameLoop(Running(R), Launched(R))
    BY <2>1, OutcomeTypes, StatusRests, SameSelf DEF Launched
  <2> QED BY <2>1, <2>2 DEF SameLoop, SameFields, Rests, Underway
<1>10. CASE Dispatch
  <2>1. file' = With(mem, cur, Running(R)) /\ mem' = With(mem, cur, Launched(R)) /\ impls' = impls
    BY <1>10 DEF Dispatch
  <2> QED BY <1>2, <1>9, <2>1, FollowsSaved
<1>11. CASE InvalidOutput
  <2>1. OutputInvalid(R) \in Record /\ Rests(R, OutputInvalid(R))
    BY <1>2, OutcomeTypes, StatusRests
  <2>2. CASE UNCHANGED <<file, mem, pc>>
    BY <1>2, <1>11, <2>2, FollowsStays DEF InvalidOutput, ghosts
  <2>3. CASE Save(With(mem, cur, OutputInvalid(R)))
    BY <1>4, <1>11, <2>1, <2>3 DEF InvalidOutput, Save, ghosts
  <2> QED BY <1>11, <2>2, <2>3 DEF InvalidOutput
<1>12. CASE WorkerTimeout
  BY <1>3, <1>4, <1>5, <1>12 DEF WorkerTimeout, Save, ghosts
<1>13. CASE WorkerSpawnError
  <2>1. /\ Failed(Launched(R), "spawn") \in Record
        /\ Rests(R, Failed(Launched(R), "spawn"))
    <3>1. Failed(Launched(R), "spawn") \in Record /\ Rests(Launched(R), Failed(Launched(R), "spawn"))
      BY <1>3, <1>9, StatusTypes, StatusRests
    <3> QED BY <1>2, <1>9, <3>1 DEF Rests, SameFields, Underway
  <2>2. /\ file' = With(mem, cur, Failed(Launched(R), "spawn"))
           \/ file' = With(mem, cur, Failed(R, "spawn"))
        /\ pc' = "idle" /\ impls' = impls
    BY <1>13 DEF WorkerSpawnError, Exit, ghosts
  <2> QED BY <1>3, <1>4, <1>5, <2>1, <2>2
<1> QED BY <1>6, <1>7, <1>8, <1>10, <1>11, <1>12, <1>13

(* The three results.                                                       *)
LEMMA FollowsResult ==
  ASSUME TypeOK, OrderInv, CopiesAgree, ImplementResult \/ ReviewResult \/ ArchiveResult
  PROVE  CopiesAgree' /\ \A c \in Changes : Follows(c)
<1> DEFINE R == mem.rec[cur]
<1>1. Busy /\ pc = "worker"
  BY DEF ImplementResult, ReviewResult, ArchiveResult, WorkerOn, Busy
<1>2. cur \in Changes /\ R \in Record /\ tree[cur] \in Tree /\ Underway(R) /\ pc # "idle"
  BY <1>1, CurFacts
<1>3. SameLoop(file.rec[cur], R)
  BY <1>2 DEF CopiesAgree
<1>4. ASSUME NEW r \in Record, Apply(r)
      PROVE  /\ CopiesAgree' /\ file'.rec[cur] = r
             /\ \A c \in Changes \ {cur} : Rests(file.rec[c], file'.rec[c])
  <2>1. file' = With(mem, cur, r) /\ mem' = With(mem, cur, r)
    BY <1>4 DEF Apply, Save
  <2> QED BY <1>2, <2>1, SameSelf, SavedCopies
<1>5. CASE ImplementResult
  <2>1. PICK p \in ImplementPayloads : Apply(apply_implement_result(R, tree[cur], p))
    BY <1>5 DEF ImplementResult
  <2>2. R.phase = "implement"
    BY <1>5 DEF ImplementResult, WorkerOn
  <2> DEFINE r == apply_implement_result(R, tree[cur], p)
  <2>3. r \in Record /\ Implemented(R, r) /\ Apply(r)
    BY <1>2, <2>1, <2>2, ImplementType, ImplementMoves
  <2> HIDE DEF r
  <2>4. Implemented(file.rec[cur], r)
    BY <1>3, <2>3, FromEither
  <2>5. \A c \in Changes : impls'[c] = IF c = cur THEN impls[c] + 1 ELSE impls[c]
    BY <1>2, <1>5 DEF ImplementResult, TypeOK
  <2> QED BY <1>1, <1>4, <2>3, <2>4, <2>5 DEF Follows
<1>6. CASE ReviewResult
  <2>1. PICK p \in Reviews :
          /\ Apply(apply_review_result(R, p, policy))
          /\ reviewed' = IF ReviewAnswered(p) /\ "critical" \notin p.counts
                         THEN reviewed \cup {cur} ELSE reviewed \ {cur}
    BY <1>6 DEF ReviewResult
  <2>2. p \in ReviewPayloads /\ policy \in Policies /\ R.phase = "review"
    BY <1>6, ReviewsAssumption DEF TypeOK, ReviewResult, WorkerOn
  <2> DEFINE r == apply_review_result(R, p, policy)
  <2>3. r \in Record /\ Reviewed(R, r) /\ (r.phase = "archive" => cur \in reviewed') /\ Apply(r)
    BY <1>2, <2>1, <2>2, ReviewType, ReviewMoves
  <2> HIDE DEF r
  <2>4. Reviewed(file.rec[cur], r)
    BY <1>3, <2>3, FromEither
  <2>5. impls' = impls
    BY <1>6 DEF ReviewResult
  <2> QED BY <1>1, <1>4, <2>3, <2>4, <2>5 DEF Follows
<1>7. CASE ArchiveResult
  <2>1. PICK p \in ArchivePayloads, checks_ok \in BOOLEAN :
          Apply(apply_archive_result(R, tree[cur], p, checks_ok, dirty = {}))
    BY <1>7 DEF ArchiveResult
  <2> DEFINE r == apply_archive_result(R, tree[cur], p, checks_ok, dirty = {})
  <2>2. r \in Record /\ (Rests(R, r) \/ r.phase = "done") /\ Apply(r)
    BY <1>2, <2>1, ArchiveType, ArchiveMoves
  <2> HIDE DEF r
  <2>3. Rests(file.rec[cur], r) \/ r.phase = "done"
    BY <1>3, <2>2, FromEither
  <2>4. impls' = impls
    BY <1>7 DEF ArchiveResult, ghosts
  <2> QED BY <1>4, <2>2, <2>3, <2>4 DEF Follows
<1> QED BY <1>5, <1>6, <1>7

(* Gate commands, resets and the operator's edits.                          *)
LEMMA FollowsOperator ==
  ASSUME TypeOK, CopiesAgree, Operator
  PROVE  CopiesAgree' /\ \A c \in Changes : Follows(c)
<1>1. ASSUME UNCHANGED <<mem, pc, impls>>,
             \A d \in Changes : SameLoop(file.rec[d], file'.rec[d])
      PROVE  CopiesAgree' /\ \A d \in Changes : Follows(d)
  BY <1>1 DEF CopiesAgree, Follows, Rests, SameLoop, SameFields, Underway
<1>2. ASSUME UNCHANGED <<file, mem, pc, impls>>
      PROVE  CopiesAgree' /\ \A d \in Changes : Follows(d)
  BY <1>1, <1>2, SameSelf
<1>3. ASSUME NEW c \in Changes, Approve(c)
      PROVE  CopiesAgree' /\ \A d \in Changes : Follows(d)
  <2>1. file'.rec = file.rec /\ UNCHANGED <<mem, pc, impls>>
    BY <1>3 DEF Approve, TypeOK, State, proc, ghosts
  <2> QED BY <1>1, <2>1, SameSelf
<1>4. ASSUME NEW c \in Changes, Accept(c)
      PROVE  CopiesAgree' /\ \A d \in Changes : Follows(d)
  <2> DEFINE r == [file.rec[c] EXCEPT !.accepted = TRUE]
  <2>1. r \in Record /\ SameLoop(file.rec[c], r)
    BY RecordOf DEF Record, SameLoop, SameFields
  <2>2. file' = With(file, c, r) /\ UNCHANGED <<mem, pc, impls>>
    BY <1>4 DEF Accept, proc, ghosts
  <2> HIDE DEF r
  <2>3. \A d \in Changes : SameLoop(file.rec[d], file'.rec[d])
    BY <2>1, <2>2, WithFacts, SameSelf DEF TypeOK
  <2> QED BY <1>1, <2>2, <2>3
<1>5. ASSUME NEW c \in Changes, Reset(c)
      PROVE  CopiesAgree' /\ \A d \in Changes : Follows(d)
  <2>1. /\ file' = With(file, c, NewRecord) /\ impls' = [impls EXCEPT ![c] = 0]
        /\ pc' = "idle"
    BY <1>5 DEF Reset, Between, proc
  <2>2. \A d \in Changes : file'.rec[d] = IF d = c THEN NewRecord ELSE file.rec[d]
    BY <2>1, NewRecordType, WithFacts DEF TypeOK
  <2>3. \A d \in Changes : impls'[d] = IF d = c THEN 0 ELSE impls[d]
    BY <2>1 DEF TypeOK
  <2>4. Unstarted(NewRecord)
    BY DEF NewRecord, Unstarted
  <2> QED BY <2>1, <2>2, <2>3, <2>4, SameSelf DEF CopiesAgree, Follows
<1>6. ASSUME NEW c \in Changes,
             AuthorByHand(c) \/ DeleteChange(c) \/ RevertArchive(c) \/ ConfigureCreate(c)
      PROVE  CopiesAgree' /\ \A d \in Changes : Follows(d)
  BY <1>2, <1>6 DEF AuthorByHand, DeleteChange, RevertArchive, ConfigureCreate, proc, ghosts
<1>7. CASE CommitEdits
  BY <1>2, <1>7 DEF CommitEdits, proc, ghosts
<1> QED BY <1>3, <1>4, <1>5, <1>6, <1>7 DEF Operator

(* Every step.                                                              *)
LEMMA FollowsStep ==
  ASSUME TypeOK, OrderInv, CopiesAgree, [Next]_vars
  PROVE  CopiesAgree' /\ \A c \in Changes : Follows(c)
<1>1. CASE StartRun
  BY <1>1, FollowsStart
<1>2. CASE Engine
  BY <1>2, FollowsPick, FollowsEngine, FollowsResult DEF Engine
<1>3. CASE Worker
  <2>1. UNCHANGED <<file, mem, pc, impls>>
    BY <1>3 DEF Worker, CreateWork, ImplementWork, ArchiveMove, ArchiveCommit, ArchiveRestore,
       proc, ghosts
  <2> QED BY <2>1, FollowsStays
<1>4. CASE Interrupt
  BY <1>4, FollowsStays DEF Interrupt, Exit, ghosts
<1>5. CASE Operator
  BY <1>5, FollowsOperator
<1>6. CASE UNCHANGED vars
  BY <1>6, FollowsStays DEF vars, proc, ghosts
<1> QED BY <1>1, <1>2, <1>3, <1>4, <1>5, <1>6 DEF Next

LEMMA CopiesStep == TypeOK /\ OrderInv /\ CopiesAgree /\ [Next]_vars => CopiesAgree'
  BY FollowsStep

(* What all the theorems below build on.                                    *)
LEMMA LoopBase == Spec => [](TypeOK /\ OrderInv /\ CopiesAgree)
<1>1. Init => TypeOK /\ OrderInv /\ CopiesAgree
  BY TypeInit DEF Init, OrderInv, DoneVerified, CurUnderway, DepsDone, Busy, CopiesAgree
<1>2. TypeOK /\ OrderInv /\ CopiesAgree /\ [Next]_vars => (TypeOK /\ OrderInv /\ CopiesAgree)'
  BY TypeNext, OrderNext, CopiesStep
<1> QED BY <1>1, <1>2, PTL DEF Spec

(* Killed at any point of a stage, a change is taken up again where it was,  *)
(* or is settled: for every plan, limit, answer, edit and gate command.     *)
THEOREM ResumesInPlace == Spec => []ResumeSameRound
<1>1. TypeOK /\ OrderInv /\ CopiesAgree => ResumeSameRound
  <2> SUFFICES ASSUME TypeOK, OrderInv, CopiesAgree, pc \in {"stage", "worker"}
               PROVE  LET r == mem.rec[cur]
                          resumed == reconcile(file.rec[cur], tree[cur], cur \in invokes)
                      IN  \/ resumed.status \in {"done", "failed"}
                          \/ /\ resumed.status = "pending"
                             /\ resumed.phase = r.phase /\ resumed.round = r.round
                             /\ resumed.fixFrom = r.fixFrom /\ resumed.streak = r.streak
                             /\ resumed.cites = r.cites
    BY DEF ResumeSameRound
  <2>1. /\ cur \in Changes /\ Underway(mem.rec[cur]) /\ pc # "idle"
        /\ file.rec[cur] \in Record /\ tree[cur] \in Tree /\ (cur \in invokes) \in BOOLEAN
    BY CurFacts, RecordOf DEF Busy
  <2>2. SameLoop(file.rec[cur], mem.rec[cur]) /\ Underway(file.rec[cur])
    BY <2>1 DEF CopiesAgree, SameLoop, Underway
  <2>3. ~Requeueable(file.rec[cur], tree[cur], cur \in invokes)
    BY <2>2 DEF Underway, Requeueable
  <2> DEFINE resumed == reconcile(file.rec[cur], tree[cur], cur \in invokes)
  <2>4. \/ resumed.status = "done"
        \/ Rests(file.rec[cur], resumed) /\ resumed.status \in {"pending", "failed"}
    BY <2>1, <2>2, <2>3, ReconcileMoves
  <2> HIDE DEF resumed
  <2>5. \/ resumed.status \in {"done", "failed"}
        \/ resumed.status = "pending" /\ SameFields(mem.rec[cur], resumed)
    BY <2>2, <2>4 DEF Rests, SameLoop, SameFields
  <2> QED BY <2>5 DEF resumed, SameFields
<1> QED BY <1>1, LoopBase, PTL

-----------------------------------------------------------------------------
(* Recurrence.  What is counted for the limit is kept through every policy, *)
(* kill and retry, and an implement round begins only below it.             *)

(* The records earlier runs left are those of changes whose loop has not    *)
(* begun or has ended: what the history variables count from.               *)
LoopsNotBegun == \A r \in InitRecords : Unstarted(r) \/ r.phase = "done"

RecurrenceInv == \A c \in Changes : file.rec[c].phase = "implement" => ~CriticalRecurs(file.rec[c])

(* Without a citation nothing recurs.                                       *)
LEMMA UnstartedFresh == ASSUME NEW r, Unstarted(r) PROVE ~CriticalRecurs(r)
<1>1. \A l \in Loci : LocusRounds(r.cites, {"critical"}, l) = {}
  BY DEF Unstarted, LocusRounds
<1>2. Cardinality({}) = 0
  BY FS_EmptySet
<1> QED BY <1>1, <1>2, RecurrenceAssumption DEF CriticalRecurs, Recurring

(* The saved record of every change at the start.                           *)
LEMMA InitRecord ==
  ASSUME Init, LoopsNotBegun, NEW c \in Changes
  PROVE  (Unstarted(file.rec[c]) \/ file.rec[c].phase = "done") /\ impls[c] = 0
<1>1. file.rec[c] \in InitRecords
  BY DEF Init
<1> QED BY <1>1 DEF Init, LoopsNotBegun

LEMMA RecurrenceStep ==
  ASSUME TypeOK, OrderInv, CopiesAgree, RecurrenceInv, [Next]_vars
  PROVE  RecurrenceInv'
<1> SUFFICES ASSUME NEW c \in Changes, file'.rec[c].phase = "implement"
             PROVE  ~CriticalRecurs(file'.rec[c])
  BY DEF RecurrenceInv, CriticalRecurs
<1> DEFINE p == file.rec[c]
           q == file'.rec[c]
<1>1. Follows(c)
  BY FollowsStep
<1>2. p.phase = "implement" => ~CriticalRecurs(p)
  BY DEF RecurrenceInv
<1>3. \/ SameFields(p, q) \/ q.phase = "done" \/ Implemented(p, q) \/ Reviewed(p, q)
      \/ Unstarted(q)
  BY <1>1 DEF Follows, Rests
<1> HIDE DEF p, q
<1>4. q.phase = "implement"
  BY DEF q
<1>5. ~CriticalRecurs(q)
  BY <1>2, <1>3, <1>4, UnstartedFresh DEF SameFields, Implemented, Reviewed, CriticalRecurs
<1> QED BY <1>5 DEF q

(* A change is not implemented again once a critical finding has cited the   *)
(* same place finding_recurrence_limit times, whatever policies the runs     *)
(* had, whatever was killed, edited or deleted between them.                *)
THEOREM RecurrenceHolds == ASSUME LoopsNotBegun PROVE Spec => []CriticalRecurrenceStops
<1>1. Init => RecurrenceInv
  BY InitRecord, UnstartedFresh DEF RecurrenceInv
<1>2. TypeOK /\ OrderInv /\ CopiesAgree /\ RecurrenceInv /\ [Next]_vars => RecurrenceInv'
  BY RecurrenceStep
<1>3. RecurrenceInv => CriticalRecurrenceStops
  <2> SUFFICES ASSUME RecurrenceInv, NEW c \in Changes, NEW l \in Loci, RecurrenceLimit > 0,
                      file.rec[c].phase = "implement"
               PROVE  Cardinality(LocusRounds(file.rec[c].cites, {"critical"}, l)) < RecurrenceLimit
    BY DEF CriticalRecurrenceStops
  <2> DEFINE L == LocusRounds(file.rec[c].cites, {"critical"}, l)
  <2>1. L \subseteq 1 .. MaxRounds /\ IsFiniteSet(1 .. MaxRounds)
    BY MaxRoundsAssumption, FS_Interval DEF LocusRounds
  <2>2. Cardinality(L) \in Nat
    BY <2>1, FS_Subset, FS_CardinalityType
  <2>3. ~(Cardinality(L) >= RecurrenceLimit)
    BY DEF RecurrenceInv, CriticalRecurs, Recurring
  <2> QED BY <2>2, <2>3, RecurrenceAssumption
<1> QED BY <1>1, <1>2, <1>3, LoopBase, PTL DEF Spec

-----------------------------------------------------------------------------
(* Rounds and prompts.  A failed change whose directory is gone is requeued *)
(* with its phase and its round; so the counts rest on this: a change whose *)
(* loop has begun and not ended has its directory, or its archive.          *)

Opened(r, n) == (Unstarted(r) /\ n = 0) \/ r.phase = "done"
Present(t) == change_authored(t) \/ ArchivedOnDisk(t)

Counted(r, n) ==
  Underway(r) =>
    /\ r.phase = "implement" => n = r.round - 1 /\ r.fixFrom = r.round - 1
    /\ r.phase \in {"review", "archive"} => n = r.round

PlaceInv ==
  /\ pc = "create" => Opened(file.rec[cur], impls[cur])
  /\ pc \in {"stage", "worker"} => Present(tree[cur])
  /\ \A c \in Changes : /\ Opened(file.rec[c], impls[c]) \/ Present(tree[c])
                        /\ Counted(file.rec[c], impls[c])

(* Only an operator who deletes it takes the directory of a change whose     *)
(* loop has begun away.                                                     *)
LEMMA PresentStep ==
  ASSUME TypeOK, ArchiveInv, "delete" \notin OperatorOps, [Next]_vars,
         NEW c \in Changes, Present(tree[c]), ~(pc = "create" /\ cur = c)
  PROVE  Present(tree'[c])
<1>1. tree[c] \in Tree
  BY RecordOf
<1>2. CASE tree' = tree
  BY <1>2
<1>3. ASSUME NEW d \in Changes, CreatePrepared(d)
      PROVE  tree'[c] = tree[c]
  <2>1. /\ ~tree[d].archived /\ (tree[d].active = "none" \/ scaffold_is_clearable(tree[d]))
        /\ \A e \in Changes \ {d} : tree'[e] = tree[e]
    BY <1>3, PreparedFacts DEF CreatePrepared
  <2>2. ~Present(tree[d])
    BY <2>1 DEF Present, change_authored, ArchivedOnDisk, scaffold_is_clearable
  <2> QED BY <2>1, <2>2
<1>4. CASE Pick
  <2>1. ASSUME NEW d \in Changes,
               \/ CreateExhausted(d) \/ DispatchCreate(d) \/ CreateEnvError(d) \/ CreateSpawnError(d)
        PROVE  CreatePrepared(d)
    BY <2>1 DEF CreateExhausted, DispatchCreate, CreateEnvError, CreateSpawnError, CreateStarts
  <2>2. CASE Finish \/ StopEarly \/ RefuseDirty
    BY <1>2, <2>2 DEF Finish, StopEarly, RefuseDirty, repo
  <2>3. ASSUME NEW d \in Changes,
               CreateUnconfigured(d) \/ CreateDebris(d) \/ SkipAuthored(d) \/ Drive(d)
        PROVE  tree' = tree
    BY <2>3 DEF CreateUnconfigured, CreateDebris, SkipAuthored, Drive, repo
  <2> QED BY <1>2, <1>3, <1>4, <2>1, <2>2, <2>3 DEF Pick
<1>5. CASE Worker
  <2>1. cur \in Changes
    BY <1>5, CurOf DEF Worker, CreateWork, ImplementWork, ArchiveMove, ArchiveCommit, ArchiveRestore,
       WorkerOn, Busy
  <2>2. CASE cur # c
    BY <1>5, <2>1, <2>2 DEF Worker, CreateWork, ImplementWork, ArchiveMove, ArchiveCommit,
       ArchiveRestore, TypeOK
  <2>3. CASE cur = c
    <3>1. CASE ImplementWork
      BY <1>1, <2>3, <3>1 DEF ImplementWork, TypeOK, Tree, Present, change_authored, ArchivedOnDisk
    <3>2. CASE ArchiveMove \/ ArchiveCommit \/ ArchiveRestore
      BY <1>1, <2>3, <3>2
      DEF ArchiveMove, ArchiveCommit, ArchiveRestore, TypeOK, Tree, Present, change_authored,
          ArchivedOnDisk
    <3> QED BY <1>5, <2>3, <3>1, <3>2 DEF Worker, CreateWork
  <2> QED BY <2>2, <2>3
<1>6. CASE Operator
  <2>1. ASSUME NEW d \in Changes, AuthorByHand(d) \/ RevertArchive(d)
        PROVE  Present(tree'[c])
    BY <1>1, <2>1 DEF AuthorByHand, RevertArchive, TypeOK, Tree, Present, change_authored
  <2>2. ASSUME NEW d \in Changes, Approve(d) \/ Accept(d) \/ Reset(d) \/ ConfigureCreate(d)
        PROVE  tree' = tree
    BY <2>2 DEF Approve, Accept, Reset, ConfigureCreate, repo
  <2>3. ASSUME NEW d \in Changes, DeleteChange(d)
        PROVE  FALSE
    BY <2>3 DEF DeleteChange, Between
  <2>4. CommitEdits => tree' = tree
    BY DEF CommitEdits
  <2> QED BY <1>2, <1>6, <2>1, <2>2, <2>3, <2>4 DEF Operator
<1>7. CASE \/ StartRun \/ Interrupt \/ CreateResult \/ StageBudget \/ StageDone \/ Dispatch
           \/ ImplementResult \/ ReviewResult \/ ArchiveResult
           \/ InvalidOutput \/ WorkerTimeout \/ WorkerSpawnError \/ UNCHANGED vars
  BY <1>2, <1>7
  DEF StartRun, Interrupt, CreateResult, StageBudget, StageDone, Dispatch, ImplementResult,
      ReviewResult, ArchiveResult, Apply, InvalidOutput, WorkerTimeout, WorkerSpawnError, vars, repo
<1> QED BY <1>4, <1>5, <1>6, <1>7 DEF Next, Engine

(* How the engine comes to be in a stage.                                   *)
LEMMA Places ==
  ASSUME TypeOK, [Next]_vars, Busy'
  PROVE  \/ Busy /\ cur' = cur /\ (pc' = "create" <=> pc = "create")
         \/ \E c \in Changes : cur' = c /\ DispatchCreate(c) /\ pc' = "create"
         \/ \E c \in Changes : cur' = c /\ Drive(c) /\ pc' = "stage"
<1>1. CASE Pick
  <2>1. CASE Finish \/ StopEarly \/ RefuseDirty
    BY <2>1 DEF Finish, StopEarly, RefuseDirty, Exit, Busy
  <2>2. ASSUME NEW c \in Changes,
               \/ CreateUnconfigured(c) \/ CreateDebris(c) \/ CreateExhausted(c)
               \/ CreateEnvError(c) \/ CreateSpawnError(c) \/ SkipAuthored(c)
        PROVE  pc' \in {"idle", "pick"}
    BY <2>2 DEF CreateUnconfigured, CreateDebris, CreateExhausted, CreateEnvError,
       CreateSpawnError, SkipAuthored, CreateStarts, CreatePrepared, Picked, FailPicked,
       Visit, Exit, proc
  <2>3. ASSUME NEW c \in Changes, Drive(c) \/ DispatchCreate(c)
        PROVE  cur' = c /\ (Drive(c) => pc' = "stage") /\ (DispatchCreate(c) => pc' = "create")
    BY <2>3 DEF Drive, DispatchCreate, GoTo
  <2> QED BY <1>1, <2>1, <2>2, <2>3 DEF Pick, Busy
<1>2. CASE UNCHANGED <<pc, cur>>
  BY <1>2 DEF Busy
<1>3. CASE Dispatch
  BY <1>3 DEF Dispatch, GoTo, Busy
<1>4. CASE ImplementResult \/ ReviewResult \/ ArchiveResult
  <2>1. pc = "worker" /\ \E r : Apply(r)
    BY <1>4 DEF ImplementResult, ReviewResult, ArchiveResult, WorkerOn
  <2> QED BY <2>1 DEF Apply, Visit, Busy
<1>5. CASE \/ StartRun \/ Interrupt \/ CreateResult \/ StageBudget \/ StageDone
           \/ WorkerTimeout \/ WorkerSpawnError
  BY <1>5
  DEF StartRun, Interrupt, CreateResult, StageBudget, StageDone, WorkerTimeout, WorkerSpawnError,
      Exit, Visit, GoTo, Busy
<1>6. CASE InvalidOutput
  BY <1>2, <1>6 DEF InvalidOutput, Visit, Busy
<1>7. CASE Worker \/ Operator \/ UNCHANGED vars
  BY <1>2, <1>7
  DEF Worker, CreateWork, ImplementWork, ArchiveMove, ArchiveCommit, ArchiveRestore, Operator,
      CommitEdits, Approve, Accept, Reset, AuthorByHand, DeleteChange, RevertArchive,
      ConfigureCreate, vars, proc
<1> QED BY <1>1, <1>3, <1>4, <1>5, <1>6, <1>7 DEF Next, Engine

LEMMA OpenedCounted == ASSUME NEW r, NEW n, Opened(r, n) PROVE Counted(r, n)
  BY DEF Opened, Counted, Unstarted

(* What no worker has touched stays so until one has.                       *)
LEMMA OpenedStep ==
  ASSUME NEW c \in Changes, Follows(c), pc # "worker", Opened(file.rec[c], impls[c])
  PROVE  Opened(file'.rec[c], impls'[c])
<1> DEFINE p == file.rec[c]
           q == file'.rec[c]
           n == impls[c]
           m == impls'[c]
<1>1. \/ m = n /\ SameFields(p, q)
      \/ q.phase = "done"
      \/ m = 0 /\ Unstarted(q)
  BY DEF Follows, Rests
<1>2. Opened(p, n)
  OBVIOUS
<1> HIDE DEF p, q, n, m
<1>3. Opened(q, m)
  BY <1>1, <1>2 DEF Opened, Unstarted, SameFields
<1> QED BY <1>3 DEF q, m

(* The rounds are counted on.                                               *)
LEMMA CountedStep ==
  ASSUME TypeOK, NEW c \in Changes, Follows(c),
         Opened(file.rec[c], impls[c]) \/ Present(tree[c]), Counted(file.rec[c], impls[c])
  PROVE  /\ Counted(file'.rec[c], impls'[c])
         /\ \/ Opened(file.rec[c], impls[c]) /\ pc # "worker"
            \/ Opened(file'.rec[c], impls'[c])
            \/ Present(tree[c])
            \/ pc = "worker" /\ cur = c
<1> DEFINE p == file.rec[c]
           q == file'.rec[c]
           n == impls[c]
           m == impls'[c]
<1>1. n \in Nat /\ p.round \in Nat /\ p.fixFrom \in Nat
  <2>1. p \in Record /\ n \in Nat
    BY RecordOf DEF TypeOK
  <2> QED BY <2>1, MaxRoundsAssumption DEF Record
<1>2. Opened(p, n) \/ Present(tree[c])
  OBVIOUS
<1>3. Counted(p, n)
  OBVIOUS
<1>4. Requeueable(p, tree[c], c \in invokes) => ~Present(tree[c])
  BY DEF Requeueable, Present
<1>5. \/ m = n /\ Rests(p, q)
      \/ q.phase = "done"
      \/ m = n /\ SameFields(p, q) /\ Opened(p, n)
      \/ m = n + 1 /\ Implemented(p, q) /\ pc = "worker" /\ cur = c
      \/ m = n /\ Reviewed(p, q) /\ pc = "worker" /\ cur = c
      \/ m = 0 /\ Unstarted(q)
  BY <1>2, <1>4 DEF Follows
<1> HIDE DEF p, q, n, m
<1>6. SameFields(p, q) /\ m = n /\ Opened(p, n) => Opened(q, m)
  BY DEF SameFields, Opened, Unstarted
<1>7. Rests(p, q) /\ m = n => Counted(q, m)
  BY <1>3 DEF Rests, SameFields, Counted
<1>8. Implemented(p, q) /\ m = n + 1 => Counted(q, m)
  BY <1>1, <1>3 DEF Implemented, Advanced, Counted
<1>9. Reviewed(p, q) /\ m = n => Counted(q, m)
  BY <1>1, <1>3 DEF Reviewed, Advanced, Counted
<1>10. q.phase = "done" \/ (m = 0 /\ Unstarted(q)) => Opened(q, m)
  BY DEF Opened
<1>11. Counted(q, m)
  BY <1>5, <1>6, <1>7, <1>8, <1>9, <1>10, OpenedCounted
<1>12. \/ Opened(p, n) /\ pc # "worker"
       \/ Opened(q, m)
       \/ Present(tree[c])
       \/ pc = "worker" /\ cur = c
  BY <1>2, <1>5, <1>6, <1>10 DEF Rests
<1> QED BY <1>11, <1>12 DEF p, q, n, m

LEMMA PlaceStep ==
  ASSUME TypeOK, OrderInv, CopiesAgree, ArchiveInv, PlaceInv, "delete" \notin OperatorOps,
         [Next]_vars
  PROVE  PlaceInv'
<1>1. \A c \in Changes : Follows(c)
  BY FollowsStep
<1>2. ASSUME NEW c \in Changes
      PROVE  /\ Counted(file'.rec[c], impls'[c])
             /\ Opened(file'.rec[c], impls'[c]) \/ Present(tree'[c])
  <2>1. (Opened(file.rec[c], impls[c]) \/ Present(tree[c])) /\ Counted(file.rec[c], impls[c])
    BY DEF PlaceInv
  <2>2. pc # "worker" /\ Opened(file.rec[c], impls[c]) => Opened(file'.rec[c], impls'[c])
    BY <1>1, OpenedStep
  <2>3. /\ Counted(file'.rec[c], impls'[c])
        /\ \/ Opened(file.rec[c], impls[c]) /\ pc # "worker"
           \/ Opened(file'.rec[c], impls'[c])
           \/ Present(tree[c])
           \/ pc = "worker" /\ cur = c
    BY <1>1, <2>1, CountedStep
  <2>4. pc = "worker" /\ cur = c => Present(tree[c])
    BY DEF PlaceInv
  <2>5. pc = "create" /\ cur = c => Opened(file'.rec[c], impls'[c])
    BY <2>2 DEF PlaceInv
  <2> QED BY <2>2, <2>3, <2>4, <2>5, PresentStep
<1>3. ASSUME pc' = "create"
      PROVE  Opened(file'.rec[cur'], impls'[cur'])
  <2>1. Busy'
    BY <1>3 DEF Busy
  <2>2. \/ Busy /\ cur' = cur /\ pc = "create"
        \/ \E c \in Changes : cur' = c /\ DispatchCreate(c)
    BY <1>3, <2>1, Places
  <2>3. CASE Busy /\ cur' = cur /\ pc = "create"
    <3>1. cur \in Changes /\ Opened(file.rec[cur], impls[cur])
      BY <2>3, CurOf DEF PlaceInv
    <3> QED BY <1>1, <2>3, <3>1, OpenedStep
  <2>4. ASSUME NEW c \in Changes, cur' = c, DispatchCreate(c)
        PROVE  Opened(file'.rec[cur'], impls'[cur'])
    <3>1. CreatePrepared(c) /\ pc = "pick"
      BY <2>4 DEF DispatchCreate, CreateStarts, CreatePrepared, Picked
    <3>2. ~tree[c].archived /\ (tree[c].active = "none" \/ scaffold_is_clearable(tree[c]))
      BY <3>1, PreparedFacts DEF CreatePrepared
    <3>3. ~Present(tree[c])
      BY <3>2 DEF Present, change_authored, ArchivedOnDisk, scaffold_is_clearable
    <3>4. Opened(file.rec[c], impls[c])
      BY <3>3 DEF PlaceInv
    <3> QED BY <1>1, <2>4, <3>1, <3>4, OpenedStep
  <2> QED BY <2>2, <2>3, <2>4
<1>4. ASSUME pc' \in {"stage", "worker"}
      PROVE  Present(tree'[cur'])
  <2>1. Busy'
    BY <1>4 DEF Busy
  <2>2. \/ Busy /\ cur' = cur /\ pc # "create"
        \/ \E c \in Changes : cur' = c /\ Drive(c)
    BY <1>4, <2>1, Places
  <2>3. CASE Busy /\ cur' = cur /\ pc # "create"
    <3>1. cur \in Changes /\ Present(tree[cur])
      BY <2>3, CurOf DEF PlaceInv, Busy
    <3> QED BY <2>3, <3>1, PresentStep
  <2>4. ASSUME NEW c \in Changes, cur' = c, Drive(c)
        PROVE  Present(tree'[cur'])
    BY <2>4 DEF Drive, repo, Present
  <2> QED BY <2>2, <2>3, <2>4
<1> QED BY <1>2, <1>3, <1>4 DEF PlaceInv, Opened, Counted, Present, Unstarted, Underway,
             change_authored, ArchivedOnDisk

(* The place of every change in its loop.                                   *)
LEMMA PlaceBase ==
  ASSUME LoopsNotBegun, "delete" \notin OperatorOps
  PROVE  Spec => [](TypeOK /\ OrderInv /\ CopiesAgree /\ ArchiveInv /\ PlaceInv)
<1>1. Init => ArchiveInv /\ PlaceInv
  <2> SUFFICES ASSUME Init PROVE PlaceInv
    BY ArchiveInit
  <2>1. \A c \in Changes : Opened(file.rec[c], impls[c])
    BY InitRecord DEF Opened
  <2> QED BY <2>1, OpenedCounted DEF Init, PlaceInv
<1>2. TypeOK /\ OrderInv /\ CopiesAgree /\ ArchiveInv /\ PlaceInv /\ [Next]_vars
        => (ArchiveInv /\ PlaceInv)'
  BY ArchiveStep, PlaceStep
<1> QED BY <1>1, <1>2, LoopBase, PTL DEF Spec

(* One implement result is counted for each round, whatever was killed,      *)
(* retried or reset, as long as the operator does not delete the directory   *)
(* of a change whose loop has begun.                                        *)
THEOREM RoundsAreCounted ==
  ASSUME LoopsNotBegun, "delete" \notin OperatorOps
  PROVE  Spec => []OneImplementPerRound
<1>1. PlaceInv => OneImplementPerRound
  BY DEF PlaceInv, Counted, OneImplementPerRound
<1> QED BY <1>1, PlaceBase, PTL

(* An implement worker gets the prompt of the round before its own.         *)
THEOREM PromptsAreFresh ==
  ASSUME LoopsNotBegun, "delete" \notin OperatorOps
  PROVE  Spec => []FixPromptIsLatest
<1>1. PlaceInv => FixPromptIsLatest
  BY DEF PlaceInv, Counted, FixPromptIsLatest
<1> QED BY <1>1, PlaceBase, PTL

-----------------------------------------------------------------------------
(* Review before archive.                                                   *)
ReviewInv ==
  \A c \in Changes :
    Underway(file.rec[c]) /\ file.rec[c].phase = "archive" => c \in reviewed

(* A review is forgotten only by a new implement dispatch, another review,   *)
(* a worker that creates the content, or the operator who writes or deletes  *)
(* it.                                                                      *)
LEMMA ReviewForgotten ==
  ASSUME TypeOK, {"author", "delete"} \cap OperatorOps = {}, [Next]_vars,
         NEW c \in Changes, c \in reviewed, c \notin reviewed'
  PROVE  /\ cur = c
         /\ pc = "create" \/ (Busy /\ mem.rec[cur].phase \in {"implement", "review"})
<1>1. CASE CreateWork
  BY <1>1 DEF CreateWork
<1>2. CASE Dispatch
  BY <1>2 DEF Dispatch, Busy
<1>3. CASE ReviewResult
  BY <1>3 DEF ReviewResult, WorkerOn, Busy
<1>4. ASSUME NEW d \in Changes, AuthorByHand(d) \/ DeleteChange(d)
      PROVE  FALSE
  BY <1>4 DEF AuthorByHand, DeleteChange, Between
<1>5. ASSUME NEW d \in Changes,
             \/ Approve(d) \/ Accept(d) \/ Reset(d) \/ RevertArchive(d) \/ ConfigureCreate(d)
             \/ CreateUnconfigured(d) \/ CreateDebris(d) \/ CreateExhausted(d) \/ DispatchCreate(d)
             \/ CreateEnvError(d) \/ CreateSpawnError(d) \/ SkipAuthored(d) \/ Drive(d)
      PROVE  reviewed' = reviewed
  BY <1>5
  DEF Approve, Accept, Reset, RevertArchive, ConfigureCreate, CreateUnconfigured, CreateDebris,
      CreateExhausted, FailPicked, DispatchCreate, CreateEnvError, CreateSpawnError, SkipAuthored,
      Drive, ghosts
<1>6. CASE \/ StartRun \/ Finish \/ StopEarly \/ RefuseDirty \/ CreateResult \/ StageBudget
           \/ StageDone \/ ImplementResult \/ ArchiveResult \/ InvalidOutput \/ WorkerTimeout
           \/ WorkerSpawnError \/ ImplementWork \/ ArchiveMove \/ ArchiveCommit \/ ArchiveRestore
           \/ Interrupt \/ CommitEdits \/ UNCHANGED vars
  BY <1>6
  DEF StartRun, Finish, StopEarly, RefuseDirty, CreateResult, StageBudget, StageDone,
      ImplementResult, ArchiveResult, InvalidOutput, WorkerTimeout, WorkerSpawnError, ImplementWork,
      ArchiveMove, ArchiveCommit, ArchiveRestore, Interrupt, CommitEdits, vars, ghosts
<1> QED
  BY <1>1, <1>2, <1>3, <1>4, <1>5, <1>6 DEF Next, Engine, Pick, Worker, Operator

LEMMA ReviewStep ==
  ASSUME TypeOK, OrderInv, CopiesAgree, PlaceInv, ReviewInv,
         {"author", "delete"} \cap OperatorOps = {}, [Next]_vars
  PROVE  ReviewInv'
<1> SUFFICES ASSUME NEW c \in Changes, Underway(file'.rec[c]), file'.rec[c].phase = "archive"
             PROVE  c \in reviewed'
  BY DEF ReviewInv, Underway
<1> DEFINE p == file.rec[c]
           q == file'.rec[c]
           n == impls[c]
<1>1. Follows(c)
  BY FollowsStep
<1>2. Requeueable(p, tree[c], c \in invokes) => Opened(p, n)
  BY DEF Requeueable, PlaceInv, Present
<1>3. \/ Rests(p, q) \/ q.phase = "done" \/ Implemented(p, q) \/ Unstarted(q)
      \/ SameFields(p, q) /\ Opened(p, n)
      \/ q.phase = "archive" => c \in reviewed'
  BY <1>1, <1>2 DEF Follows
<1>4. Underway(q) /\ q.phase = "archive"
  OBVIOUS
<1>5. Underway(p) /\ p.phase = "archive" => c \in reviewed
  BY DEF ReviewInv
<1>6. pc = "create" /\ cur = c => Opened(p, n)
  BY DEF PlaceInv
<1>7. Busy /\ cur = c => mem.rec[cur].phase = p.phase
  BY DEF CopiesAgree, Busy, SameLoop, SameFields
<1> HIDE DEF p, q, n
<1>8. CASE Rests(p, q)
  <2>1. Underway(p) /\ p.phase = "archive" /\ c \in reviewed
    BY <1>4, <1>5, <1>8 DEF Rests, SameFields
  <2>2. ~Opened(p, n)
    BY <2>1 DEF Opened, Unstarted
  <2> QED BY <1>6, <1>7, <2>1, <2>2, ReviewForgotten
<1>9. ~(q.phase = "done" \/ Implemented(p, q) \/ Unstarted(q) \/ (SameFields(p, q) /\ Opened(p, n)))
  BY <1>4 DEF Implemented, Advanced, Unstarted, SameFields, Opened
<1> QED BY <1>3, <1>4, <1>8, <1>9

(* An archive worker runs only over content that a review found without a    *)
(* critical finding since the last implement worker, whichever policy the    *)
(* runs had and wherever they were killed; as long as nobody writes or       *)
(* deletes the content of a change by hand between two runs.                *)
THEOREM ReviewedFirst ==
  ASSUME LoopsNotBegun, {"author", "delete"} \cap OperatorOps = {}
  PROVE  Spec => []ArchiveOnlyReviewed
<1>1. "delete" \notin OperatorOps
  OBVIOUS
<1>2. Spec => [](TypeOK /\ OrderInv /\ CopiesAgree /\ ArchiveInv /\ PlaceInv)
  BY <1>1, PlaceBase
<1>3. Init => ReviewInv
  BY InitRecord DEF ReviewInv, Unstarted
<1>4. TypeOK /\ OrderInv /\ CopiesAgree /\ PlaceInv /\ ReviewInv /\ [Next]_vars => ReviewInv'
  BY ReviewStep
<1>5. TypeOK /\ OrderInv /\ CopiesAgree /\ ReviewInv => ArchiveOnlyReviewed
  <2> SUFFICES ASSUME TypeOK, OrderInv, CopiesAgree, ReviewInv, pc = "worker",
                      mem.rec[cur].phase = "archive"
               PROVE  cur \in reviewed
    BY DEF ArchiveOnlyReviewed
  <2>1. cur \in Changes /\ Underway(mem.rec[cur]) /\ pc # "idle"
    BY CurFacts DEF Busy
  <2>2. Underway(file.rec[cur]) /\ file.rec[cur].phase = "archive"
    BY <2>1 DEF CopiesAgree, SameLoop, SameFields, Underway
  <2> QED BY <2>1, <2>2 DEF ReviewInv
<1> QED BY <1>2, <1>3, <1>4, <1>5, PTL DEF Spec


-----------------------------------------------------------------------------
(* The order of a manifest: Kahn's algorithm, for manifests of any length.   *)

(* A set of natural numbers has a least element.                            *)
LEMMA LeastNat ==
  ASSUME NEW T \in SUBSET Nat, T # {}
  PROVE  \E n \in T : \A m \in T : n <= m
<1> DEFINE R == {ss \in Nat \X Nat : ss[1] < ss[2]}
<1>1. IsWellFoundedOn(R, Nat)
  BY NatLessThanWellFounded DEF OpToRel
<1>2. ASSUME NEW m \in Nat, NEW n \in Nat, <<m, n>> \notin R
      PROVE  n <= m
  <2>1. <<m, n>> \in Nat \X Nat /\ <<m, n>>[1] = m /\ <<m, n>>[2] = n
    OBVIOUS
  <2>2. ~(m < n)
    BY <1>2, <2>1
  <2> QED BY <2>2
<1> HIDE DEF R
<1>3. \E n \in T : \A m \in T : ~(<<m, n>> \in R)
  BY <1>1, WFMin
<1> QED BY <1>2, <1>3

(* What holds of 0, and of n + 1 when of n, holds of every number.          *)
LEMMA NatSetInduction ==
  ASSUME NEW T, 0 \in T, \A n \in Nat : n \in T => n + 1 \in T
  PROVE  Nat \subseteq T
<1> SUFFICES ASSUME Nat \ T # {} PROVE FALSE
  OBVIOUS
<1>1. PICK n \in Nat \ T : \A m \in Nat \ T : n <= m
  BY LeastNat
<1>2. n # 0 /\ n - 1 \in Nat /\ n - 1 \in T
  BY <1>1
<1> QED BY <1>1, <1>2

(* Among numbers up to n there is a smallest, a second smallest and so on.   *)
Ranked(S) ==
  \A k \in 1 .. Cardinality(S) : \E i \in S : Cardinality({j \in S : j < i}) = k - 1

LEMMA RankOf ==
  ASSUME NEW len \in Nat
  PROVE  \A S \in SUBSET (1 .. len) : IsFiniteSet(S) /\ Ranked(S)
<1> DEFINE N == {n \in Nat : \A S \in SUBSET (1 .. n) : Ranked(S)}
<1>1. \A n \in Nat : \A S \in SUBSET (1 .. n) : IsFiniteSet(S)
  <2> TAKE n \in Nat
  <2>1. IsFiniteSet(1 .. n)
    BY FS_Interval
  <2> QED BY <2>1, FS_Subset
<1>2. 0 \in N
  <2>1. ASSUME NEW S \in SUBSET (1 .. 0)
        PROVE  Ranked(S)
    <3>1. S = {}
      OBVIOUS
    <3> QED BY <3>1, FS_EmptySet DEF Ranked
  <2> QED BY <2>1
<1>3. ASSUME NEW n \in Nat, n \in N
      PROVE  n + 1 \in N
  <2>1. ASSUME NEW S \in SUBSET (1 .. n + 1), NEW k \in 1 .. Cardinality(S)
        PROVE  \E i \in S : Cardinality({j \in S : j < i}) = k - 1
    <3> DEFINE R == S \ {n + 1}
    <3>1. R \in SUBSET (1 .. n) /\ IsFiniteSet(S) /\ IsFiniteSet(R)
      <4>1. \A j \in R : j \in 1 .. n /\ j < n + 1
        OBVIOUS
      <4>2. n + 1 \in Nat
        OBVIOUS
      <4> QED BY <1>1, <4>1, <4>2
    <3>2. Cardinality(S) = IF n + 1 \in S THEN Cardinality(R) + 1 ELSE Cardinality(R)
      BY <3>1, FS_RemoveElement, FS_CardinalityType
    <3>3. CASE k <= Cardinality(R)
      <4>1. k \in 1 .. Cardinality(R)
        BY <3>1, <3>3, FS_CardinalityType
      <4>2. PICK i \in R : Cardinality({j \in R : j < i}) = k - 1
        BY <4>1, <3>1, <1>3 DEF Ranked
      <4>3. {j \in R : j < i} = {j \in S : j < i}
        BY <3>1
      <4> QED BY <4>2, <4>3
    <3>4. CASE ~(k <= Cardinality(R))
      <4>1. n + 1 \in S /\ k - 1 = Cardinality(R)
        BY <3>1, <3>2, <3>4, FS_CardinalityType
      <4>2. {j \in S : j < n + 1} = R
        <5>1. \A j \in S : j \in 1 .. n + 1
          OBVIOUS
        <5>2. \A j \in S : j < n + 1 <=> j # n + 1
          BY <5>1
        <5> QED BY <5>2
      <4> QED BY <4>1, <4>2
    <3> QED BY <3>3, <3>4
  <2> QED BY <2>1 DEF Ranked
<1> HIDE DEF N
<1>4. len \in N
  BY <1>2, <1>3, NatSetInduction
<1> QED BY <1>1, <1>4 DEF N

(* The positions in order are all of them, each once.                       *)
LEMMA InOrderIs ==
  ASSUME NEW len \in Nat, NEW S \in SUBSET (1 .. len)
  PROVE  /\ Cardinality(S) \in Nat
         /\ InOrder(S) \in [1 .. Cardinality(S) -> S]
         /\ \A k, l \in 1 .. Cardinality(S) : InOrder(S)[k] = InOrder(S)[l] => k = l
         /\ \A i \in S : \E k \in 1 .. Cardinality(S) : InOrder(S)[k] = i
<1> DEFINE K == 1 .. Cardinality(S)
           f == InOrder(S)
<1>1. IsFiniteSet(S) /\ Ranked(S) /\ Cardinality(S) \in Nat
  BY RankOf, FS_CardinalityType
<1>2. ASSUME NEW k \in K
      PROVE  f[k] \in S /\ Cardinality({j \in S : j < f[k]}) = k - 1
  <2>1. f[k] = CHOOSE i \in S : Cardinality({j \in S : j < i}) = k - 1
    BY DEF InOrder
  <2>2. \E i \in S : Cardinality({j \in S : j < i}) = k - 1
    BY <1>1 DEF Ranked
  <2> QED BY <2>1, <2>2
<1>3. f \in [K -> S]
  BY <1>2 DEF InOrder
<1> HIDE DEF f
<1>4. \A k, l \in K : f[k] = f[l] => k = l
  <2> SUFFICES ASSUME NEW k \in K, NEW l \in K, f[k] = f[l] PROVE k = l
    OBVIOUS
  <2>1. k - 1 = l - 1
    BY <1>2
  <2> QED BY <1>1, <2>1
<1>5. f \in Injection(K, S)
  BY <1>3, <1>4 DEF Injection, IsInjective
<1>6. IsFiniteSet(K) /\ Cardinality(K) = Cardinality(S)
  BY <1>1, FS_Interval
<1>7. f \in Surjection(K, S)
  BY <1>1, <1>5, <1>6, FS_Injection
<1>8. \A i \in S : \E k \in K : f[k] = i
  BY <1>7 DEF Surjection
<1> QED BY <1>1, <1>3, <1>4, <1>8 DEF f

(* Manifests, with any names.                                               *)
EntryType(Names) ==
  [id : Names, depends_on : Seq(Names), pause_before : BOOLEAN,
   human_only : {"absent", "true", "false", "other"}]
Manifest(Names) == Seq(EntryType(Names))

Once(q) == \A k, l \in DOMAIN q : q[k] = q[l] => k = l

(* Sequences without repetitions.                                           *)
LEMMA OnceAppend ==
  ASSUME NEW Names, NEW q \in Seq(Names), NEW x \in Names
  PROVE  /\ Append(q, x) \in Seq(Names)
         /\ ToSet(Append(q, x)) = ToSet(q) \cup {x}
         /\ Once(q) /\ x \notin ToSet(q) => Once(Append(q, x))
<1> DEFINE r == Append(q, x)
<1>1. /\ r \in Seq(Names) /\ DOMAIN q = 1 .. Len(q) /\ DOMAIN r = 1 .. Len(q) + 1
      /\ \A k \in 1 .. Len(q) : r[k] = q[k]
      /\ r[Len(q) + 1] = x /\ Len(q) \in Nat
  OBVIOUS
<1> HIDE DEF r
<1>2. ToSet(r) = ToSet(q) \cup {x}
  BY <1>1 DEF ToSet
<1>3. ASSUME Once(q), x \notin ToSet(q), NEW k \in DOMAIN r, NEW l \in DOMAIN r, r[k] = r[l]
      PROVE  k = l
  <2>1. \A m \in 1 .. Len(q) : r[m] # x
    BY <1>1, <1>3 DEF ToSet
  <2>2. CASE k \in 1 .. Len(q) /\ l \in 1 .. Len(q)
    BY <2>2, <1>1, <1>3 DEF Once
  <2>3. CASE k \notin 1 .. Len(q) \/ l \notin 1 .. Len(q)
    BY <2>1, <2>3, <1>1, <1>3
  <2> QED BY <2>2, <2>3
<1> QED BY <1>1, <1>2, <1>3 DEF r, Once

LEMMA OnceTail ==
  ASSUME NEW Names, NEW q \in Seq(Names), q # <<>>, Once(q)
  PROVE  /\ Head(q) \in Names /\ Tail(q) \in Seq(Names)
         /\ ToSet(q) = ToSet(Tail(q)) \cup {Head(q)} /\ Head(q) \notin ToSet(Tail(q))
         /\ Once(Tail(q))
<1> DEFINE t == Tail(q)
<1>1. /\ t \in Seq(Names) /\ Len(q) \in Nat \ {0}
      /\ DOMAIN q = 1 .. Len(q) /\ DOMAIN t = 1 .. Len(q) - 1
      /\ \A k \in 1 .. Len(q) - 1 : t[k] = q[k + 1]
      /\ Head(q) = q[1] /\ q[1] \in Names
  OBVIOUS
<1> HIDE DEF t
<1>2. ASSUME NEW k \in 1 .. Len(q), k # 1
      PROVE  k - 1 \in DOMAIN t /\ q[k] = t[k - 1]
  <2>1. k - 1 \in 1 .. Len(q) - 1 /\ k - 1 + 1 = k
    BY <1>1, <1>2
  <2> QED BY <1>1, <2>1
<1>3. ASSUME NEW k \in DOMAIN t
      PROVE  k + 1 \in DOMAIN q /\ t[k] = q[k + 1] /\ k + 1 # 1 /\ k \in Nat
  BY <1>1
<1>4. 1 \in DOMAIN q
  BY <1>1
<1>5. ToSet(q) = ToSet(t) \cup {q[1]}
  <2>1. ToSet(q) \subseteq ToSet(t) \cup {q[1]}
    BY <1>1, <1>2 DEF ToSet
  <2>2. ToSet(t) \subseteq ToSet(q)
    BY <1>3 DEF ToSet
  <2> QED BY <2>1, <2>2, <1>4 DEF ToSet
<1>6. q[1] \notin ToSet(t)
  BY <1>3, <1>4 DEF ToSet, Once
<1>7. ASSUME NEW k \in DOMAIN t, NEW l \in DOMAIN t, t[k] = t[l]
      PROVE  k = l
  <2>1. k + 1 = l + 1
    BY <1>3, <1>7 DEF Once
  <2> QED BY <2>1, <1>3
<1> QED BY <1>1, <1>5, <1>6, <1>7 DEF t, Once

LEMMA OnceConcat ==
  ASSUME NEW Names, NEW p \in Seq(Names), NEW q \in Seq(Names), Once(p), Once(q),
         ToSet(p) \cap ToSet(q) = {}
  PROVE  p \o q \in Seq(Names) /\ ToSet(p \o q) = ToSet(p) \cup ToSet(q) /\ Once(p \o q)
<1> DEFINE r == p \o q
<1>1. /\ r \in Seq(Names) /\ Len(p) \in Nat /\ Len(q) \in Nat
      /\ DOMAIN p = 1 .. Len(p) /\ DOMAIN q = 1 .. Len(q) /\ DOMAIN r = 1 .. Len(p) + Len(q)
      /\ \A k \in 1 .. Len(p) + Len(q) : r[k] = IF k <= Len(p) THEN p[k] ELSE q[k - Len(p)]
  OBVIOUS
<1> HIDE DEF r
<1>2. ASSUME NEW k \in DOMAIN r
      PROVE  \/ k \in DOMAIN p /\ r[k] = p[k] /\ p[k] \in ToSet(p)
             \/ k - Len(p) \in DOMAIN q /\ r[k] = q[k - Len(p)] /\ q[k - Len(p)] \in ToSet(q) /\ k \in Nat
  BY <1>1 DEF ToSet
<1>3. ASSUME NEW k \in DOMAIN p
      PROVE  k \in DOMAIN r /\ r[k] = p[k]
  BY <1>1
<1>4. ASSUME NEW k \in DOMAIN q
      PROVE  k + Len(p) \in DOMAIN r /\ r[k + Len(p)] = q[k]
  <2>1. k + Len(p) \in 1 .. Len(p) + Len(q) /\ ~(k + Len(p) <= Len(p)) /\ k + Len(p) - Len(p) = k
    BY <1>1
  <2> QED BY <1>1, <2>1
<1>5. ToSet(r) = ToSet(p) \cup ToSet(q)
  <2>1. ToSet(r) \subseteq ToSet(p) \cup ToSet(q)
    BY <1>2 DEF ToSet
  <2>2. ToSet(p) \subseteq ToSet(r)
    BY <1>3 DEF ToSet
  <2>3. ToSet(q) \subseteq ToSet(r)
    BY <1>4 DEF ToSet
  <2> QED BY <2>1, <2>2, <2>3
<1>6. ASSUME NEW k \in DOMAIN r, NEW l \in DOMAIN r, r[k] = r[l]
      PROVE  k = l
  <2>1. CASE k \in DOMAIN p /\ r[k] = p[k] /\ p[k] \in ToSet(p)
    BY <2>1, <1>2, <1>6 DEF Once
  <2>2. CASE k - Len(p) \in DOMAIN q /\ r[k] = q[k - Len(p)] /\ q[k - Len(p)] \in ToSet(q) /\ k \in Nat
    <3>1. l - Len(p) \in DOMAIN q /\ r[l] = q[l - Len(p)] /\ l \in Nat
      BY <2>2, <1>2, <1>6
    <3>2. k - Len(p) = l - Len(p)
      BY <3>1, <2>2, <1>6 DEF Once
    <3> QED BY <3>1, <3>2, <2>2, <1>1
  <2> QED BY <2>1, <2>2, <1>2
<1> QED BY <1>1, <1>5, <1>6 DEF r, Once

LEMMA IntervalIs ==
  ASSUME NEW n \in Nat
  PROVE  IsFiniteSet(1 .. n) /\ Cardinality(1 .. n) = n
BY FS_Interval

LEMMA EntryOf ==
  ASSUME NEW Names, NEW entries \in Manifest(Names), NEW i \in DOMAIN entries
  PROVE  entries[i].id \in Names /\ entries[i].depends_on \in Seq(Names)
<1>1. entries[i] \in EntryType(Names)
  BY DEF Manifest
<1> QED BY <1>1 DEF EntryType

(* What is queued at once.                                                  *)
LEMMA QueuedIs ==
  ASSUME NEW Names, NEW entries \in Manifest(Names), NEW S \in SUBSET DOMAIN entries,
         \A i, j \in DOMAIN entries : entries[i].id = entries[j].id => i = j
  PROVE  /\ Queued(entries, S) \in Seq(Names)
         /\ ToSet(Queued(entries, S)) = {entries[i].id : i \in S}
         /\ Once(Queued(entries, S))
<1> DEFINE f == InOrder(S)
           q == Queued(entries, S)
<1>1. Len(entries) \in Nat /\ DOMAIN entries = 1 .. Len(entries)
  BY DEF Manifest
<1>2. /\ Cardinality(S) \in Nat /\ f \in [1 .. Cardinality(S) -> S]
      /\ \A k, l \in 1 .. Cardinality(S) : f[k] = f[l] => k = l
      /\ \A i \in S : \E k \in 1 .. Cardinality(S) : f[k] = i
  BY <1>1, InOrderIs
<1>3. \A i \in DOMAIN entries : entries[i].id \in Names
  BY EntryOf
<1>4. q = [k \in 1 .. Cardinality(S) |-> entries[f[k]].id]
  BY <1>2 DEF Queued
<1> HIDE DEF f, q
<1>5. q \in Seq(Names)
  BY <1>2, <1>3, <1>4
<1>6. ToSet(q) = {entries[i].id : i \in S}
  BY <1>2, <1>4 DEF ToSet
<1>7. Once(q)
  <2> SUFFICES ASSUME NEW k \in DOMAIN q, NEW l \in DOMAIN q, q[k] = q[l] PROVE k = l
    BY DEF Once
  <2>1. k \in 1 .. Cardinality(S) /\ l \in 1 .. Cardinality(S) /\ f[k] \in S /\ f[l] \in S
    BY <1>2, <1>4
  <2>2. f[k] = f[l]
    BY <2>1, <1>4
  <2> QED BY <2>1, <2>2, <1>2
<1> QED BY <1>5, <1>6, <1>7 DEF q

(* The passes over the queue, one after the other.                          *)
Pass(entries, s) == IF s.queue = <<>> THEN s ELSE Pop(entries, s)
ArePasses(entries, len, g) ==
  g = [n \in 0 .. len |-> IF n = 0 THEN Waiting(entries) ELSE Pass(entries, g[n - 1])]

LEMMA PassesAre ==
  ASSUME NEW Names, NEW entries \in Manifest(Names)
  PROVE  /\ Passes(entries)[0] = Waiting(entries)
         /\ \A n \in 1 .. Len(entries) : Passes(entries)[n] = Pass(entries, Passes(entries)[n - 1])
<1> DEFINE N == {n \in Nat : \E g : ArePasses(entries, n, g)}
           len == Len(entries)
<1>1. len \in Nat
  BY DEF Manifest
<1>2. 0 \in N
  <2>1. ArePasses(entries, 0, [n \in 0 .. 0 |-> Waiting(entries)])
    BY DEF ArePasses
  <2> QED BY <2>1
<1>3. ASSUME NEW n \in Nat, n \in N
      PROVE  n + 1 \in N
  <2>1. PICK g : ArePasses(entries, n, g)
    BY <1>3
  <2> DEFINE h == [m \in 0 .. n + 1 |-> IF m = n + 1 THEN Pass(entries, g[n]) ELSE g[m]]
  <2>2. ASSUME NEW m \in 0 .. n + 1
        PROVE  h[m] = IF m = 0 THEN Waiting(entries) ELSE Pass(entries, h[m - 1])
    <3>1. CASE m = n + 1
      <4>1. n \in 0 .. n + 1 /\ n # n + 1 /\ m - 1 = n /\ m # 0
        BY <3>1
      <4>2. h[m - 1] = g[n]
        BY <4>1
      <4> QED BY <4>1, <4>2, <3>1
    <3>2. CASE m = 0
      <4>1. m \in 0 .. n /\ m # n + 1
        BY <3>2
      <4>2. h[m] = g[m] /\ g[m] = Waiting(entries)
        BY <4>1, <3>2, <2>1 DEF ArePasses
      <4> QED BY <4>2, <3>2
    <3>3. CASE m # 0 /\ m # n + 1
      <4>1. m \in 0 .. n /\ m - 1 \in 0 .. n + 1 /\ m - 1 # n + 1
        BY <3>3
      <4>2. h[m] = g[m] /\ h[m - 1] = g[m - 1] /\ g[m] = Pass(entries, g[m - 1])
        BY <4>1, <3>3, <2>1 DEF ArePasses
      <4> QED BY <4>2, <3>3
    <3> QED BY <3>1, <3>2, <3>3
  <2>3. h = [m \in 0 .. n + 1 |-> h[m]]
    OBVIOUS
  <2> HIDE DEF h
  <2>4. h = [m \in 0 .. n + 1 |-> IF m = 0 THEN Waiting(entries) ELSE Pass(entries, h[m - 1])]
    BY <2>2, <2>3
  <2> QED BY <2>4 DEF ArePasses
<1> HIDE DEF N
<1>4. len \in N
  BY <1>1, <1>2, <1>3, NatSetInduction
<1>5. \E g : ArePasses(entries, len, g)
  BY <1>4 DEF N
<1>6. Passes(entries) = CHOOSE g : ArePasses(entries, len, g)
  BY DEF Passes, ArePasses, Pass
<1>7. ArePasses(entries, len, Passes(entries))
  BY <1>5, <1>6
<1> DEFINE f == Passes(entries)
<1>8. \A n \in 0 .. len : f[n] = IF n = 0 THEN Waiting(entries) ELSE Pass(entries, f[n - 1])
  BY <1>7 DEF ArePasses
<1>9. 0 \in 0 .. len /\ \A n \in 1 .. len : n \in 0 .. len /\ n # 0
  BY <1>1
<1> HIDE DEF f
<1> QED BY <1>8, <1>9 DEF f

(* The dependencies of an entry that are not in the order yet.              *)
Open(e, done) == {k \in DOMAIN e.depends_on : e.depends_on[k] \notin done}

LEMMA OpenIs ==
  ASSUME NEW Names, NEW e \in EntryType(Names), NEW done
  PROVE  /\ Cardinality(Open(e, done)) \in Nat
         /\ Cardinality(Open(e, done)) = 0 <=> ToSet(e.depends_on) \subseteq done
         /\ \A id : Times(e, id) \in Nat
         /\ \A id : Times(e, id) > 0 <=> id \in ToSet(e.depends_on)
         /\ \A id : id \notin done =>
              Cardinality(Open(e, done \cup {id})) = Cardinality(Open(e, done)) - Times(e, id)
<1> DEFINE deps == e.depends_on
           D == DOMAIN deps
           Named(id) == {k \in D : deps[k] = id}
<1>1. deps \in Seq(Names)
  BY DEF EntryType
<1>2. IsFiniteSet(D)
  <2>1. Len(deps) \in Nat /\ D = 1 .. Len(deps)
    BY <1>1
  <2> QED BY <2>1, FS_Interval
<1>3. \A S \in SUBSET D : IsFiniteSet(S) /\ Cardinality(S) \in Nat /\ (Cardinality(S) = 0 <=> S = {})
  BY <1>2, FS_Subset, FS_CardinalityType, FS_EmptySet
<1>4. /\ Cardinality(Open(e, done)) \in Nat
      /\ Cardinality(Open(e, done)) = 0 <=> ToSet(deps) \subseteq done
  <2>1. Open(e, done) \in SUBSET D
    BY DEF Open
  <2>2. Open(e, done) = {} <=> ToSet(deps) \subseteq done
    BY DEF Open, ToSet
  <2> QED BY <2>1, <2>2, <1>3
<1>5. ASSUME NEW id
      PROVE  Times(e, id) = Cardinality(Named(id)) /\ Times(e, id) \in Nat
             /\ (Times(e, id) > 0 <=> id \in ToSet(deps))
  <2>1. Times(e, id) = Cardinality(Named(id)) /\ Named(id) \in SUBSET D
    BY DEF Times
  <2>2. Named(id) = {} <=> id \notin ToSet(deps)
    BY DEF ToSet
  <2>3. Times(e, id) \in Nat /\ (Times(e, id) = 0 <=> Named(id) = {})
    BY <2>1, <1>3
  <2> QED BY <2>1, <2>2, <2>3
<1>6. ASSUME NEW id, id \notin done
      PROVE  Cardinality(Open(e, done \cup {id})) = Cardinality(Open(e, done)) - Times(e, id)
  <2> DEFINE A == Open(e, done \cup {id})
             B == Named(id)
  <2>1. A \in SUBSET D /\ B \in SUBSET D /\ A \cap B = {} /\ A \cup B = Open(e, done)
    BY <1>6 DEF Open
  <2> HIDE DEF A, B
  <2>2. Cardinality(A \cup B) = Cardinality(A) + Cardinality(B) - Cardinality(A \cap B)
    BY <2>1, <1>3, FS_Union
  <2>3. Cardinality(A \cap B) = 0 /\ Cardinality(A) \in Nat /\ Cardinality(B) \in Nat
    BY <2>1, <1>3, FS_EmptySet
  <2>4. Times(e, id) = Cardinality(B)
    BY <1>5 DEF B
  <2>5. Cardinality(A) = Cardinality(Open(e, done)) - Cardinality(B)
    BY <2>1, <2>2, <2>3
  <2> QED BY <2>4, <2>5 DEF A
<1> QED BY <1>4, <1>5, <1>6

(* What every pass leaves: the order and the queue share nothing and repeat  *)
(* nothing, each entry counts its dependencies that are not in the order,    *)
(* those that count none are in one of the two, and what is in the order     *)
(* comes after its dependencies.                                            *)
Reached(s) == ToSet(s.order) \cup ToSet(s.queue)

Sorted(Names, entries, s) ==
  /\ s.order \in Seq(Names) /\ s.queue \in Seq(Names) /\ s.indeg \in [DOMAIN entries -> Nat]
  /\ Once(s.order) /\ Once(s.queue) /\ ToSet(s.order) \cap ToSet(s.queue) = {}
  /\ Reached(s) \subseteq Ids(entries)
  /\ \A i \in DOMAIN entries :
       /\ s.indeg[i] = Cardinality(Open(entries[i], ToSet(s.order)))
       /\ entries[i].id \in Reached(s) <=> s.indeg[i] = 0
  /\ \A k, l \in DOMAIN s.order : s.order[l] \in DepsOf(entries, s.order[k]) => l < k

Distinct(entries) == \A i, j \in DOMAIN entries : entries[i].id = entries[j].id => i = j

LEMMA DepsOfIs ==
  ASSUME NEW Names, NEW entries \in Manifest(Names), Distinct(entries), NEW i \in DOMAIN entries
  PROVE  DepsOf(entries, entries[i].id) = ToSet(entries[i].depends_on)
<1>1. {j \in DOMAIN entries : entries[j].id = entries[i].id} = {i}
  BY DEF Distinct
<1> QED BY <1>1 DEF DepsOf

LEMMA EntryTypeOf ==
  ASSUME NEW Names, NEW entries \in Manifest(Names), NEW i \in DOMAIN entries
  PROVE  entries[i] \in EntryType(Names)
  BY DEF Manifest

LEMMA WaitingSorted ==
  ASSUME NEW Names, NEW entries \in Manifest(Names), Distinct(entries)
  PROVE  Sorted(Names, entries, Waiting(entries))
<1> DEFINE s == Waiting(entries)
           S == {i \in DOMAIN entries : entries[i].depends_on = <<>>}
<1>1. /\ s.order = <<>> /\ s.queue = Queued(entries, S)
      /\ s.indeg = [i \in DOMAIN entries |-> Len(entries[i].depends_on)]
  BY DEF Waiting
<1>2. <<>> \in Seq(Names) /\ ToSet(<<>>) = {} /\ Once(<<>>)
  BY DEF ToSet, Once
<1>3. /\ s.queue \in Seq(Names) /\ Once(s.queue)
      /\ ToSet(s.queue) = {entries[i].id : i \in S}
  BY <1>1, QueuedIs DEF Distinct
<1>4. ASSUME NEW i \in DOMAIN entries
      PROVE  /\ s.indeg[i] = Cardinality(Open(entries[i], {})) /\ s.indeg[i] \in Nat
             /\ entries[i].id \in ToSet(s.queue) <=> s.indeg[i] = 0
  <2> DEFINE deps == entries[i].depends_on
  <2>1. deps \in Seq(Names)
    BY EntryOf
  <2>2. Len(deps) \in Nat /\ DOMAIN deps = 1 .. Len(deps) /\ (Len(deps) = 0 <=> deps = <<>>)
    BY <2>1
  <2>3. Open(entries[i], {}) = 1 .. Len(deps)
    BY <2>2 DEF Open
  <2>4. Cardinality(1 .. Len(deps)) = Len(deps)
    BY <2>2, FS_Interval
  <2>5. s.indeg[i] = Len(deps)
    BY <1>1
  <2>6. entries[i].id \in ToSet(s.queue) <=> i \in S
    BY <1>3 DEF Distinct
  <2> QED BY <2>2, <2>3, <2>4, <2>5, <2>6
<1>5. s.indeg \in [DOMAIN entries -> Nat]
  BY <1>1, <1>4
<1>6. ToSet(s.queue) \subseteq Ids(entries)
  BY <1>3 DEF Ids
<1> HIDE DEF s
<1>7. ToSet(s.order) = {} /\ Reached(s) = ToSet(s.queue)
  BY <1>1, <1>2 DEF Reached
<1>8. ASSUME NEW i \in DOMAIN entries
      PROVE  /\ s.indeg[i] = Cardinality(Open(entries[i], ToSet(s.order)))
             /\ entries[i].id \in Reached(s) <=> s.indeg[i] = 0
  BY <1>4, <1>7
<1>9. s.order \in Seq(Names) /\ Once(s.order) /\ DOMAIN s.order = {}
  BY <1>1, <1>2
<1> HIDE DEF S
<1>10. Sorted(Names, entries, s)
  <2>1. ToSet(s.order) \cap ToSet(s.queue) = {} /\ Reached(s) \subseteq Ids(entries)
    BY <1>6, <1>7
  <2>2. \A k, l \in DOMAIN s.order : s.order[l] \in DepsOf(entries, s.order[k]) => l < k
    BY <1>9
  <2>3. s.queue \in Seq(Names) /\ Once(s.queue)
    BY <1>3
  <2> QED BY <2>1, <2>2, <2>3, <1>5, <1>8, <1>9 DEF Sorted
<1> QED BY <1>10 DEF s

LEMMA PopSorted ==
  ASSUME NEW Names, NEW entries \in Manifest(Names), Distinct(entries),
         NEW s, Sorted(Names, entries, s), s.queue # <<>>
  PROVE  /\ Sorted(Names, entries, Pop(entries, s))
         /\ Len(Pop(entries, s).order) = Len(s.order) + 1
<1> DEFINE t == Pop(entries, s)
           D == DOMAIN entries
           id == Head(s.queue)
           done == ToSet(s.order)
           freed == {i \in D : Times(entries[i], id) > 0 /\ t.indeg[i] = 0}
<1>1. /\ t.order = Append(s.order, id)
      /\ t.indeg = [i \in D |-> s.indeg[i] - Times(entries[i], id)]
      /\ t.queue = Tail(s.queue) \o Queued(entries, freed)
  BY DEF Pop
<1> HIDE DEF t
<1>2. /\ id \in Names /\ Tail(s.queue) \in Seq(Names) /\ Once(Tail(s.queue))
      /\ ToSet(s.queue) = ToSet(Tail(s.queue)) \cup {id} /\ id \notin ToSet(Tail(s.queue))
  BY OnceTail DEF Sorted
<1>3. id \notin done
  BY <1>2 DEF Sorted
<1>4. t.order \in Seq(Names) /\ ToSet(t.order) = done \cup {id} /\ Once(t.order)
  BY <1>1, <1>2, <1>3, OnceAppend DEF Sorted
<1>5. ASSUME NEW i \in D
      PROVE  /\ t.indeg[i] = Cardinality(Open(entries[i], ToSet(t.order))) /\ t.indeg[i] \in Nat
             /\ i \in freed <=> s.indeg[i] # 0 /\ t.indeg[i] = 0
  <2>1. /\ Times(entries[i], id) \in Nat
        /\ Cardinality(Open(entries[i], done \cup {id})) = Cardinality(Open(entries[i], done)) - Times(entries[i], id)
        /\ Cardinality(Open(entries[i], done \cup {id})) \in Nat
    BY <1>3, OpenIs, EntryTypeOf
  <2>2. s.indeg[i] = Cardinality(Open(entries[i], done)) /\ s.indeg[i] \in Nat
    BY DEF Sorted
  <2>3. t.indeg[i] = s.indeg[i] - Times(entries[i], id)
    BY <1>1
  <2> QED BY <2>1, <2>2, <2>3, <1>4
<1>6. t.indeg \in [D -> Nat]
  BY <1>1, <1>5
<1>7. /\ Queued(entries, freed) \in Seq(Names) /\ Once(Queued(entries, freed))
      /\ ToSet(Queued(entries, freed)) = {entries[i].id : i \in freed}
  BY QueuedIs DEF Distinct
<1>8. {entries[i].id : i \in freed} \cap Reached(s) = {} /\ {entries[i].id : i \in freed} \subseteq Ids(entries)
  BY <1>5 DEF Sorted, Ids
<1> HIDE DEF freed
<1>9. /\ t.queue \in Seq(Names) /\ Once(t.queue)
      /\ ToSet(t.queue) = ToSet(Tail(s.queue)) \cup {entries[i].id : i \in freed}
  <2>1. ToSet(Tail(s.queue)) \cap ToSet(Queued(entries, freed)) = {}
    BY <1>2, <1>7, <1>8 DEF Reached
  <2> DEFINE p == Tail(s.queue)
             q == Queued(entries, freed)
  <2>2. p \in Seq(Names) /\ q \in Seq(Names) /\ Once(p) /\ Once(q) /\ ToSet(p) \cap ToSet(q) = {}
    BY <2>1, <1>2, <1>7
  <2> HIDE DEF p, q
  <2>3. p \o q \in Seq(Names) /\ ToSet(p \o q) = ToSet(p) \cup ToSet(q) /\ Once(p \o q)
    BY <2>2, OnceConcat
  <2> QED BY <2>3, <1>1, <1>7 DEF p, q
<1>10. ToSet(t.order) \cap ToSet(t.queue) = {}
  BY <1>2, <1>4, <1>8, <1>9 DEF Sorted, Reached
<1>11. Reached(t) = Reached(s) \cup {entries[i].id : i \in freed}
  BY <1>2, <1>4, <1>9 DEF Reached
<1>12. ASSUME NEW i \in D
       PROVE  entries[i].id \in Reached(t) <=> t.indeg[i] = 0
  <2>1. entries[i].id \in {entries[j].id : j \in freed} <=> i \in freed
    BY <1>5 DEF Distinct, freed
  <2>2. entries[i].id \in Reached(s) <=> s.indeg[i] = 0
    BY DEF Sorted
  <2>3. s.indeg[i] = 0 => t.indeg[i] = 0
    <3>1. Times(entries[i], id) \in Nat /\ t.indeg[i] = s.indeg[i] - Times(entries[i], id)
      BY <1>1, OpenIs, EntryTypeOf
    <3> QED BY <3>1, <1>5
  <2> QED BY <2>1, <2>2, <2>3, <1>5, <1>11
<1>13. ASSUME NEW x \in done \cup {id}
       PROVE  DepsOf(entries, x) \subseteq done
  <2>1. x \in Reached(s)
    BY <1>2 DEF Reached
  <2>2. PICK i \in D : entries[i].id = x
    BY <2>1 DEF Sorted, Ids
  <2>3. Cardinality(Open(entries[i], done)) = 0
    BY <2>1, <2>2 DEF Sorted
  <2> QED BY <2>2, <2>3, OpenIs, EntryTypeOf, DepsOfIs
<1>14. /\ DOMAIN s.order = 1 .. Len(s.order) /\ Len(s.order) \in Nat
       /\ DOMAIN t.order = 1 .. Len(s.order) + 1 /\ Len(t.order) = Len(s.order) + 1
       /\ \A k \in 1 .. Len(s.order) : t.order[k] = s.order[k]
       /\ t.order[Len(s.order) + 1] = id
  BY <1>1, <1>2 DEF Sorted
<1>15. ASSUME NEW k \in DOMAIN t.order, NEW l \in DOMAIN t.order, t.order[l] \in DepsOf(entries, t.order[k])
       PROVE  l < k
  <2>1. t.order[l] \in done
    <3>1. t.order[k] \in done \cup {id}
      BY <1>4 DEF ToSet
    <3> QED BY <3>1, <1>13, <1>15
  <2>2. l \in 1 .. Len(s.order)
    BY <2>1, <1>3, <1>14
  <2>3. CASE k = Len(s.order) + 1
    BY <2>2, <2>3, <1>14
  <2>4. CASE k \in 1 .. Len(s.order)
    BY <2>2, <2>4, <1>14, <1>15 DEF Sorted
  <2> QED BY <2>3, <2>4, <1>14
<1>16. Reached(t) \subseteq Ids(entries)
  BY <1>8, <1>11 DEF Sorted
<1> QED BY <1>4, <1>5, <1>6, <1>9, <1>10, <1>12, <1>14, <1>15, <1>16 DEF Sorted, t

(* A pass adds to the order, until the queue is empty.                      *)
LEMMA PassesSorted ==
  ASSUME NEW Names, NEW entries \in Manifest(Names), Distinct(entries)
  PROVE  LET s == Passes(entries)[Len(entries)]
         IN  Sorted(Names, entries, s) /\ (Len(s.order) = Len(entries) \/ s.queue = <<>>)
<1> DEFINE f == Passes(entries)
           len == Len(entries)
           Good(n) == Sorted(Names, entries, f[n]) /\ (Len(f[n].order) = n \/ f[n].queue = <<>>)
           N == {n \in Nat : n <= len => Good(n)}
<1>1. len \in Nat
  BY DEF Manifest
<1>2. 0 \in N
  <2>1. f[0] = Waiting(entries)
    BY PassesAre
  <2>2. Len(f[0].order) = 0
    BY <2>1 DEF Waiting
  <2> QED BY <2>1, <2>2, WaitingSorted
<1>3. ASSUME NEW n \in Nat, n \in N
      PROVE  n + 1 \in N
  <2> SUFFICES ASSUME n + 1 <= len PROVE Good(n + 1)
    OBVIOUS
  <2>1. n + 1 \in 1 .. len /\ n + 1 - 1 = n /\ Good(n)
    BY <1>1, <1>3
  <2>2. f[n + 1] = Pass(entries, f[n])
    BY <2>1, PassesAre
  <2> HIDE DEF f
  <2>3. CASE f[n].queue = <<>>
    BY <2>1, <2>2, <2>3 DEF Pass
  <2>4. CASE f[n].queue # <<>>
    BY <2>1, <2>2, <2>4, PopSorted DEF Pass
  <2> QED BY <2>3, <2>4
<1> HIDE DEF N
<1>4. len \in N
  BY <1>1, <1>2, <1>3, NatSetInduction
<1> QED BY <1>1, <1>4 DEF N

LEMMA NamedOnce ==
  ASSUME NEW Names, NEW entries \in Manifest(Names), ~EntryInvalid(entries)
  PROVE  Distinct(entries)
<1> SUFFICES ASSUME NEW i \in DOMAIN entries, NEW j \in DOMAIN entries,
                    entries[i].id = entries[j].id, i # j
             PROVE  FALSE
  BY DEF Distinct
<1>1. DOMAIN entries = 1 .. Len(entries) /\ Len(entries) \in Nat
  BY DEF Manifest
<1>2. i \in 1 .. j - 1 \/ j \in 1 .. i - 1
  BY <1>1
<1> QED BY <1>2 DEF EntryInvalid

(* For every manifest, of any length and with any names, in which names are  *)
(* distinct and dependencies known: load_plan refuses it for a cycle exactly *)
(* if it has one, and otherwise orders each change after all it depends on.  *)
THEOREM SortIsCorrect ==
  ASSUME NEW Names, NEW entries \in Manifest(Names)
  PROVE  SortCorrect(entries)
<1> SUFFICES ASSUME ~EntryInvalid(entries), ~DependencyUnknown(entries)
             PROVE  /\ CycleFound(entries) <=> Cyclic(entries)
                    /\ ~Cyclic(entries) => Topological(entries, topo_sort(entries))
  BY DEF SortCorrect
<1> DEFINE s == Passes(entries)[Len(entries)]
           done == ToSet(s.order)
<1>1. Len(entries) \in Nat /\ DOMAIN entries = 1 .. Len(entries)
  BY DEF Manifest
<1>2. Distinct(entries)
  BY NamedOnce
<1>3. /\ Sorted(Names, entries, s)
      /\ Len(s.order) = Len(entries) \/ s.queue = <<>>
  BY <1>2, PassesSorted
<1>4. topo_sort(entries) = s.order
  BY DEF topo_sort
<1> HIDE DEF s
<1>5. s.order \in Seq(Names) /\ Len(s.order) \in Nat /\ DOMAIN s.order = 1 .. Len(s.order)
  BY <1>3 DEF Sorted
<1>6. IsFiniteSet(Ids(entries)) /\ Cardinality(Ids(entries)) = Len(entries)
  <2> DEFINE f == [i \in 1 .. Len(entries) |-> entries[i].id]
  <2>1. f \in Bijection(1 .. Len(entries), Ids(entries))
    BY <1>1, <1>2 DEF Bijection, Injection, Surjection, IsInjective, Ids, Distinct
  <2>2. IsFiniteSet(1 .. Len(entries)) /\ Cardinality(1 .. Len(entries)) = Len(entries)
    BY <1>1, IntervalIs
  <2> QED BY <2>1, <2>2, FS_Bijection DEF ExistsBijection
<1>7. IsFiniteSet(done) /\ Cardinality(done) = Len(s.order)
  <2>1. s.order \in Bijection(1 .. Len(s.order), done)
    <3>1. s.order \in [1 .. Len(s.order) -> Names]
      BY <1>5
    <3>2. s.order \in [1 .. Len(s.order) -> done]
      BY <1>5, <3>1 DEF ToSet
    <3>3. \A x \in done : \E k \in 1 .. Len(s.order) : s.order[k] = x
      BY <1>5 DEF ToSet
    <3>4. \A k, l \in 1 .. Len(s.order) : s.order[k] = s.order[l] => k = l
      BY <1>3, <1>5 DEF Once, Sorted
    <3> QED BY <3>2, <3>3, <3>4 DEF Bijection, Injection, Surjection, IsInjective
  <2>2. IsFiniteSet(1 .. Len(s.order)) /\ Cardinality(1 .. Len(s.order)) = Len(s.order)
    BY <1>5, IntervalIs
  <2> QED BY <2>1, <2>2, FS_Bijection DEF ExistsBijection
<1>8. done \subseteq Ids(entries)
  BY <1>3 DEF Sorted, Reached
<1>9. Len(s.order) = Len(entries) => done = Ids(entries)
  BY <1>6, <1>7, <1>8, FS_Subset
<1>10. ASSUME Len(s.order) # Len(entries)
       PROVE  Cyclic(entries)
  <2> DEFINE S == Ids(entries) \ done
  <2>1. S # {}
    <3>1. done # Ids(entries)
      BY <1>6, <1>7, <1>10
    <3> QED BY <3>1, <1>8
  <2>2. ASSUME NEW x \in S
        PROVE  DepsOf(entries, x) \cap S # {}
    <3>1. PICK i \in DOMAIN entries : entries[i].id = x
      BY DEF Ids
    <3>2. x \notin Reached(s)
      BY <1>3, <1>10 DEF Reached, ToSet
    <3>3. Cardinality(Open(entries[i], done)) # 0
      BY <1>3, <3>1, <3>2 DEF Sorted
    <3>4. ~(ToSet(entries[i].depends_on) \subseteq done)
      BY <3>3, OpenIs, EntryTypeOf
    <3>5. ToSet(entries[i].depends_on) \subseteq Ids(entries)
      BY DEF DependencyUnknown
    <3>6. DepsOf(entries, x) = ToSet(entries[i].depends_on)
      BY <1>2, <3>1, DepsOfIs
    <3> QED BY <3>4, <3>5, <3>6
  <2> HIDE DEF S
  <2>3. S \in (SUBSET Ids(entries)) \ {{}}
    BY <2>1 DEF S
  <2> QED BY <2>2, <2>3 DEF Cyclic
<1>11. ASSUME Len(s.order) = Len(entries), Cyclic(entries)
       PROVE  FALSE
  <2>1. PICK S \in (SUBSET Ids(entries)) \ {{}} : \A x \in S : DepsOf(entries, x) \cap S # {}
    BY <1>11 DEF Cyclic
  <2> DEFINE T == {k \in 1 .. Len(s.order) : s.order[k] \in S}
  <2>2. \A x \in S : \E k \in T : s.order[k] = x
    BY <1>5, <1>9, <1>11 DEF ToSet
  <2>3. T \in SUBSET Nat /\ T # {}
    <3>1. PICK x \in S : TRUE
      BY <2>1
    <3>2. \E k \in T : s.order[k] = x
      BY <2>2
    <3> QED BY <3>2, <1>5
  <2>4. PICK k \in T : \A l \in T : k <= l
    BY <2>3, LeastNat
  <2>5. PICK x \in S : x \in DepsOf(entries, s.order[k])
    BY <2>1
  <2>6. PICK l \in T : s.order[l] = x
    BY <2>2
  <2>7. l < k
    BY <1>3, <1>5, <2>5, <2>6 DEF Sorted
  <2> QED BY <2>4, <2>7, <1>5
<1>12. Len(s.order) = Len(entries) => Topological(entries, s.order)
  BY <1>3, <1>9, <1>5, <1>1 DEF Topological, Sorted
<1> QED BY <1>4, <1>10, <1>11, <1>12 DEF CycleFound

(* So a plan that was loaded can be run from its first change to its last:   *)
(* every change is in its order, once, after all it depends on.             *)
THEOREM LoadedInOrder ==
  ASSUME NEW Names, NEW entries \in Manifest(Names), NEW plan, load_plan(plan, entries).why = "none"
  PROVE  /\ Distinct(entries) /\ ~Cyclic(entries)
         /\ Topological(entries, load_plan(plan, entries).order)
<1> DEFINE checks == Checks(plan, entries)
           failing == {i \in DOMAIN checks : checks[i][2]}
           c1 == <<"no changes", entries = <<>> >>
           c2 == <<"adapter", AdapterUnknown(plan)>>
           c3 == <<"limit", LimitNegative(plan)>>
           c4 == <<"delivery", DeliveryInvalid(plan)>>
           c5 == <<"entry", EntryInvalid(entries)>>
           c6 == <<"dependency", DependencyUnknown(entries)>>
           c7 == <<"cycle", CycleFound(entries)>>
           c8 == <<"invoke", InvokeMissing(plan)>>
<1>1. checks = <<c1, c2, c3, c4, c5, c6, c7, c8>>
  BY DEF Checks
<1>2. /\ c1[1] # "none" /\ c2[1] # "none" /\ c3[1] # "none" /\ c4[1] # "none"
      /\ c5[1] # "none" /\ c6[1] # "none" /\ c7[1] # "none" /\ c8[1] # "none"
  OBVIOUS
<1>3. /\ c5[2] <=> EntryInvalid(entries)
      /\ c6[2] <=> DependencyUnknown(entries)
      /\ c7[2] <=> CycleFound(entries)
  OBVIOUS
<1> HIDE DEF c1, c2, c3, c4, c5, c6, c7, c8
<1>4. /\ DOMAIN checks = 1 .. 8
      /\ checks[1] = c1 /\ checks[2] = c2 /\ checks[3] = c3 /\ checks[4] = c4
      /\ checks[5] = c5 /\ checks[6] = c6 /\ checks[7] = c7 /\ checks[8] = c8
  BY <1>1
<1> HIDE DEF checks
<1>5. failing = {}
  <2> SUFFICES ASSUME failing # {} PROVE FALSE
    OBVIOUS
  <2>1. failing \in SUBSET (1 .. 8)
    BY <1>4
  <2>2. \E i \in failing : \A j \in failing : i <= j
    <3>1. failing \in SUBSET Nat
      <4>1. 1 .. 8 \subseteq Nat
        OBVIOUS
      <4> QED BY <2>1, <4>1
    <3> HIDE DEF failing
    <3> QED BY <3>1, LeastNat
  <2>3. Min(failing) \in failing
    <3> HIDE DEF failing
    <3> QED BY <2>2 DEF Min
  <2>4. load_plan(plan, entries).why = checks[Min(failing)][1]
    BY DEF load_plan, checks
  <2>5. \A i \in 1 .. 8 : checks[i][1] # "none"
    <3>1. /\ checks[1][1] # "none" /\ checks[2][1] # "none" /\ checks[3][1] # "none" /\ checks[4][1] # "none"
          /\ checks[5][1] # "none" /\ checks[6][1] # "none" /\ checks[7][1] # "none" /\ checks[8][1] # "none"
      BY <1>4, <1>2
    <3>2. 1 .. 8 = {1, 2, 3, 4, 5, 6, 7, 8}
      OBVIOUS
    <3> QED BY <3>1, <3>2
  <2> QED BY <2>1, <2>3, <2>4, <2>5
<1>6. 5 \in DOMAIN checks /\ 6 \in DOMAIN checks /\ 7 \in DOMAIN checks
  BY <1>4
<1>7. ~checks[5][2] /\ ~checks[6][2] /\ ~checks[7][2]
  BY <1>5, <1>6
<1>8. ~EntryInvalid(entries) /\ ~DependencyUnknown(entries) /\ ~CycleFound(entries)
  BY <1>4, <1>7, <1>3
<1>9. load_plan(plan, entries).order = topo_sort(entries)
  BY <1>5 DEF load_plan, checks
<1> QED BY <1>8, <1>9, SortIsCorrect, NamedOnce DEF SortCorrect
=============================================================================
