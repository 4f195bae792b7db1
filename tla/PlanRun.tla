------------------------------- MODULE PlanRun -------------------------------
(***************************************************************************)
(* `opsx-plan run` over a whole plan: the scheduler picks one ready change  *)
(* at a time, creates it if it has not been authored, and drives it through *)
(* implement, review and archive workers.  The engine is one process that   *)
(* holds the plan state in memory and saves all of it to the state file; it *)
(* may be interrupted between any two of its steps and started again.       *)
(* Workers and the operator change the repository under it, and `approve`   *)
(* and `accept` write the state file while it runs.                         *)
(*                                                                          *)
(* This is an ordinary, unregistered run: the supervised branches of the    *)
(* same functions are dormant without a registered job.                     *)
(***************************************************************************)
EXTENDS ChangeRecord

CONSTANTS
  Changes,       \* change ids of the manifest
  NoChange,      \* not a change id
  Deps,          \* depends_on of every change
  Rank,          \* position of every change in the plan's order
  Enabled,       \* changes with enabled = true
  PauseBefore,   \* changes with pause_before = true
  ReviewCreated, \* manifest key review_created
  Reviews,       \* the review payloads the workers produce
  InvalidRetries, \* manifest key invalid_output_retries
  RunPolicies,   \* the severity policies runs are started with
  RunModes,      \* "drive", and "create" for --create-only
  RunOnly,       \* the sets of changes runs are restricted to (--only)
  InitRecords,   \* the records earlier runs may have left in the plan state
  InitActive,    \* how a change directory may look before the first run
  InitInvokes,   \* changes with a create_invoke before the first run
  OperatorOps,   \* the repository and manifest operations the operator uses
  MaxRuns,       \* bound: runs started
  MaxEdits       \* bound: operator operations between runs

ASSUME NoChangeAssumption == NoChange \notin Changes
ASSUME DepsAssumption == Deps \in [Changes -> SUBSET Changes]
ASSUME RankAssumption == Rank \in [Changes -> Nat]
ASSUME SubsetAssumption ==
  Enabled \subseteq Changes /\ PauseBefore \subseteq Changes /\ InitInvokes \subseteq Changes
ASSUME ReviewCreatedAssumption == ReviewCreated \in BOOLEAN
ASSUME ReviewsAssumption == Reviews \subseteq ReviewPayloads
ASSUME RetriesAssumption == InvalidRetries \in Nat
ASSUME RunPoliciesAssumption == RunPolicies \subseteq Policies
ASSUME RunModesAssumption == RunModes \subseteq {"drive", "create"}
ASSUME RunOnlyAssumption == RunOnly \subseteq SUBSET Changes
ASSUME InitRecordsAssumption == InitRecords \subseteq Record
ASSUME InitActiveAssumption == InitActive \subseteq ActiveDirs
ASSUME BoundsAssumption == MaxRuns \in Nat /\ MaxEdits \in Nat

VARIABLES
  file,     \* the plan state file
  mem,      \* the running engine's copy of it
  tree,     \* what the repository shows about every change
  dirty,    \* changes whose workers left uncommitted tracked edits
  invokes,  \* changes with a create_invoke in the manifest now
  pc,       \* where the engine is; "idle" when no engine runs
  cur,      \* the change it is working on
  visited,  \* changes this run does not pick, or not again
  tries,    \* invalid outputs of the current stage so far
  policy,   \* severity policy of this run
  mode,     \* mode of this run
  runs,     \* runs started (bounded by MaxRuns)
  edits     \* operator operations so far (bounded by MaxEdits)

(* History variables, read by properties only.                              *)
VARIABLES
  reviewed, \* changes reviewed without a critical finding since their last implement
  impls,    \* implement results applied since the record was made
  creates   \* create workers dispatched since the record was made

proc == <<pc, cur, visited, tries, policy, mode>>
repo == <<tree, dirty>>
bounds == <<runs, edits>>
ghosts == <<reviewed, impls, creates>>
vars == <<file, mem, repo, invokes, proc, bounds, ghosts>>

-----------------------------------------------------------------------------
(* The plan state.                                                          *)

State == [approvals : SUBSET Changes, rec : [Changes -> Record]]
EmptyState == [approvals |-> {}, rec |-> [c \in Changes |-> NewRecord]]

With(s, c, r) == [s EXCEPT !.rec = [s.rec EXCEPT ![c] = r]]

(* Mutant: a dependency that has come to an end is enough.                  *)
DepSettled(s, d) == d \in Enabled /\ s.rec[d].status \in {"done", "failed"}

DepDone(s, d) == d \in Enabled /\ s.rec[d].status = "done"

(* "blocked" and the computed "pending" are told apart in status output     *)
(* only; neither is ever scheduled.                                         *)
classify(s, c) ==
  IF c \notin Enabled THEN "skipped"
  ELSE IF s.rec[c].status # "pending" THEN s.rec[c].status
  ELSE IF \E d \in Deps[c] : ~DepDone(s, d) THEN "waiting"
  ELSE IF c \in PauseBefore /\ c \notin s.approvals THEN "awaiting_approval"
  ELSE IF ReviewCreated /\ s.rec[c].created /\ ~s.rec[c].accepted
       THEN "awaiting_acceptance"
       ELSE "ready"

(* Mutant: what --create-only may pick is picked by every run.              *)
ReadyUngated == {c \in Changes \ visited : classify(mem, c) \in {"ready", "awaiting_approval"}}

Ready ==
  {c \in Changes \ visited :
     \/ classify(mem, c) = "ready"
     \/ mode = "create" /\ classify(mem, c) = "awaiting_approval"}

(* The first ready change in the plan's order (PlanFile.topo_sort).          *)
Next1(c) == c \in Ready /\ \A d \in Ready : Rank[c] <= Rank[d]

-----------------------------------------------------------------------------
(* Saving and leaving.                                                      *)

Save(s) == mem' = s /\ file' = s

(* The process ends and its memory is gone.                                 *)
Exit ==
  /\ pc' = "idle" /\ cur' = NoChange /\ visited' = {} /\ tries' = 0
  /\ policy' = "strict" /\ mode' = "drive"
  /\ mem' = EmptyState

GoTo(where, c) ==
  /\ pc' = where /\ cur' = c
  /\ UNCHANGED <<visited, tries, policy, mode>>

(* Mutant: a run may pick the change again.                                 *)
VisitAgain(c) ==
  /\ pc' = "pick" /\ cur' = NoChange /\ tries' = 0
  /\ UNCHANGED <<visited, policy, mode>>

(* The change is finished with for this run.                                *)
Visit(c) ==
  /\ pc' = "pick" /\ cur' = NoChange /\ visited' = visited \cup {c} /\ tries' = 0
  /\ UNCHANGED <<policy, mode>>

Init ==
  /\ file \in [approvals : {{}}, rec : [Changes -> InitRecords]] /\ mem = EmptyState
  /\ tree \in [Changes -> {[active |-> a, archived |-> FALSE, commit |-> FALSE,
                            open |-> TRUE] : a \in InitActive}]
  /\ dirty = {} /\ invokes = InitInvokes
  /\ pc = "idle" /\ cur = NoChange /\ visited = {} /\ tries = 0
  /\ policy = "strict" /\ mode = "drive"
  /\ runs = 0 /\ edits = 0
  /\ reviewed = {} /\ impls = [c \in Changes |-> 0]
  /\ creates = [c \in Changes |-> 0]

-----------------------------------------------------------------------------
(* The run: load, reconcile, pick.                                          *)

Reconciled(s) ==
  [s EXCEPT !.rec = [c \in Changes |-> reconcile(s.rec[c], tree[c], c \in invokes)]]

StartRun ==
  /\ pc = "idle" /\ runs < MaxRuns
  /\ runs' = runs + 1
  /\ Save(Reconciled(file))
  /\ \E p \in RunPolicies, m \in RunModes : policy' = p /\ mode' = m
  /\ \E only \in RunOnly : visited' = Changes \ only
  /\ pc' = "pick" /\ UNCHANGED <<cur, tries>>
  /\ UNCHANGED <<repo, invokes, edits, ghosts>>

(* Nothing is ready: the state is saved once more and the run ends.         *)
Finish ==
  /\ pc = "pick" /\ Ready = {}
  /\ file' = mem /\ Exit
  /\ UNCHANGED <<repo, invokes, bounds, ghosts>>

(* --max-changes, the wall-clock budget or a failed preflight ends the run;  *)
(* the state is saved again only when the whole plan is done.               *)
PlanDone == \A c \in Enabled : mem.rec[c].status = "done"

StopEarly ==
  /\ pc = "pick" /\ Exit
  /\ file' = IF PlanDone THEN mem ELSE file
  /\ UNCHANGED <<repo, invokes, bounds, ghosts>>

RefuseDirty ==
  /\ pc = "pick" /\ Ready # {} /\ dirty # {}
  /\ Exit
  /\ UNCHANGED <<file, repo, invokes, bounds, ghosts>>

(* Mutant: the worktree is not looked at.                                   *)
PickedUnclean(c) == pc = "pick" /\ Next1(c)

Picked(c) == pc = "pick" /\ Next1(c) /\ dirty = {}

-----------------------------------------------------------------------------
(* The create stage.                                                        *)

FailPicked(c, why) ==
  /\ Save(With(mem, c, Failed(mem.rec[c], why)))
  /\ UNCHANGED <<proc, dirty, invokes, bounds, ghosts>>

CreateUnconfigured(c) ==
  /\ Picked(c) /\ ~change_authored(tree[c]) /\ c \notin invokes
  /\ FailPicked(c, "unconfigured")
  /\ UNCHANGED tree

CreateDebris(c) ==
  /\ Picked(c) /\ ~change_authored(tree[c]) /\ c \in invokes
  /\ tree[c].active # "none" /\ ~scaffold_is_clearable(tree[c])
  /\ FailPicked(c, "debris")
  /\ UNCHANGED tree

(* An absent directory, or a scaffold that is removed before anything else. *)
CreatePrepared(c) ==
  /\ Picked(c) /\ c \in invokes
  /\ tree[c].active = "none" \/ scaffold_is_clearable(tree[c])
  /\ tree' = [tree EXCEPT ![c].active = "none"]

CreateExhausted(c) ==
  /\ CreatePrepared(c)
  /\ mem.rec[c].attempts + 1 > CreateMaxAttempts
  /\ FailPicked(c, "create_exhausted")

(* Mutant: the attempts made so far are compared, not the one to come.      *)
CreateStartsOnceMore(c) == CreatePrepared(c) /\ mem.rec[c].attempts <= CreateMaxAttempts

CreateStarts(c) ==
  /\ CreatePrepared(c)
  /\ mem.rec[c].attempts + 1 <= CreateMaxAttempts

CountedAttempt(r) == [r EXCEPT !.attempts = r.attempts + 1]

DispatchCreate(c) ==
  /\ CreateStarts(c)
  /\ Save(With(mem, c, Running(CountedAttempt(mem.rec[c]))))
  /\ GoTo("create", c)
  /\ creates' = [creates EXCEPT ![c] = creates[c] + 1]
  /\ UNCHANGED <<dirty, invokes, bounds, reviewed, impls>>

(* The command names an unset variable: the change fails, the run goes on.  *)
CreateEnvError(c) ==
  /\ CreateStarts(c)
  /\ Save(With(mem, c, Failed(CountedAttempt(mem.rec[c]), "spawn")))
  /\ UNCHANGED <<proc, dirty, invokes, bounds, ghosts>>

(* The command could not be started: the run returns at once.               *)
CreateSpawnError(c) ==
  /\ CreateStarts(c)
  /\ file' = With(mem, c, Failed(CountedAttempt(mem.rec[c]), "spawn"))
  /\ Exit
  /\ UNCHANGED <<dirty, invokes, bounds, ghosts>>

(* The author worker writes the directory; it should not, but can, touch    *)
(* tracked files.                                                           *)
CreateWork ==
  /\ pc = "create" /\ tree[cur].active # "valid"
  /\ \E a \in ActiveDirs \ {"none", tree[cur].active} :
       tree' = [tree EXCEPT ![cur].active = a, ![cur].open = TRUE]
  /\ dirty' \in {dirty, dirty \cup {cur}}
  /\ reviewed' = reviewed \ {cur}
  /\ UNCHANGED <<file, mem, invokes, proc, bounds, impls, creates>>

CreateVerified == verify_change_created(tree[cur], dirty = {})

(* The worker exited or timed out; only the evidence counts.                *)
CreateResult ==
  /\ pc = "create"
  /\ LET r == mem.rec[cur]
         result == IF CreateVerified THEN Pending([r EXCEPT !.created = TRUE])
                   ELSE IF r.attempts < CreateMaxAttempts THEN Pending(r)
                   ELSE Failed(r, "create_failed")
     IN  Save(With(mem, cur, result))
  /\ GoTo("pick", NoChange)
  /\ UNCHANGED <<repo, invokes, bounds, ghosts>>

(* With --create-only an authored change is not driven.                     *)
SkipAuthored(c) ==
  /\ Picked(c) /\ change_authored(tree[c]) /\ mode = "create"
  /\ Visit(c)
  /\ UNCHANGED <<file, mem, repo, invokes, bounds, ghosts>>

-----------------------------------------------------------------------------
(* The direct loop.                                                         *)

Drive(c) ==
  /\ Picked(c) /\ change_authored(tree[c]) /\ mode = "drive"
  /\ GoTo("stage", c)
  /\ UNCHANGED <<file, mem, repo, invokes, bounds, ghosts>>

(* The deadline or the spend budget is reached before a dispatch.           *)
StageBudget ==
  /\ pc = "stage"
  /\ Save(With(mem, cur, Pending(mem.rec[cur])))
  /\ Visit(cur)
  /\ UNCHANGED <<repo, invokes, bounds, ghosts>>

StageDone ==
  /\ pc = "stage" /\ mem.rec[cur].phase = "done"
  /\ LET r == mem.rec[cur]
     IN  Save(With(mem, cur, IF verify_direct_archive_done(r, tree[cur])
                             THEN Done(r) ELSE Failed(r, "evidence")))
  /\ Visit(cur)
  /\ UNCHANGED <<repo, invokes, bounds, ghosts>>

(* The running status is saved before the worker starts; the implement      *)
(* model is chosen after that save.                                         *)
Launched(r) == IF r.phase = "implement" THEN Escalated(Running(r)) ELSE Running(r)

Dispatch ==
  /\ pc = "stage" /\ mem.rec[cur].phase # "done"
  /\ file' = With(mem, cur, Running(mem.rec[cur]))
  /\ mem' = With(mem, cur, Launched(mem.rec[cur]))
  /\ reviewed' = IF mem.rec[cur].phase = "implement" THEN reviewed \ {cur} ELSE reviewed
  /\ GoTo("worker", cur)
  /\ UNCHANGED <<repo, invokes, bounds, impls, creates>>

(* The worker could not be started, at once or for a retry: the run returns. *)
WorkerSpawnError ==
  /\ \/ /\ pc = "stage" /\ mem.rec[cur].phase # "done"
        /\ file' = With(mem, cur, Failed(Launched(mem.rec[cur]), "spawn"))
     \/ /\ pc = "worker" /\ tries < InvalidRetries
        /\ file' = With(mem, cur, Failed(mem.rec[cur], "spawn"))
  /\ Exit
  /\ UNCHANGED <<repo, invokes, bounds, ghosts>>

WorkerOn(phase) == pc = "worker" /\ mem.rec[cur].phase = phase

(* An implement worker edits tracked files and works on the task list; it   *)
(* does not commit.                                                         *)
ImplementWork ==
  /\ WorkerOn("implement")
  /\ \E o \in BOOLEAN : tree' = [tree EXCEPT ![cur].open = o]
  /\ dirty' \in {dirty, dirty \cup {cur}}
  /\ UNCHANGED <<file, mem, invokes, proc, bounds, ghosts>>

(* An archive worker moves the directory, then commits the move together    *)
(* with the implementation; when the commit fails it moves it back.         *)
ArchiveMove ==
  /\ WorkerOn("archive") /\ change_authored(tree[cur]) /\ ~tree[cur].archived
  /\ tree' = [tree EXCEPT ![cur].active = "none", ![cur].archived = TRUE]
  /\ dirty' \in {dirty, dirty \cup {cur}}
  /\ UNCHANGED <<file, mem, invokes, proc, bounds, ghosts>>

ArchiveCommit ==
  /\ WorkerOn("archive") /\ ArchivedOnDisk(tree[cur]) /\ ~tree[cur].commit
  /\ tree' = [tree EXCEPT ![cur].commit = TRUE]
  /\ dirty' \in {dirty, dirty \ {cur}}
  /\ UNCHANGED <<file, mem, invokes, proc, bounds, ghosts>>

ArchiveRestore ==
  /\ WorkerOn("archive") /\ ArchivedOnDisk(tree[cur]) /\ ~tree[cur].commit
  /\ tree' = [tree EXCEPT ![cur].active = "valid", ![cur].archived = FALSE]
  /\ UNCHANGED <<dirty, file, mem, invokes, proc, bounds, ghosts>>

(* Mutant: a result that continues the loop is saved with the next one.     *)
ApplyUnsaved(r) ==
  /\ mem' = With(mem, cur, r)
  /\ IF r.status = "pending"
     THEN pc' = "stage" /\ tries' = 0 /\ UNCHANGED <<file, cur, visited, policy, mode>>
     ELSE file' = With(mem, cur, r) /\ Visit(cur)
  /\ UNCHANGED <<repo, invokes, bounds>>

(* A result is applied and saved; the loop goes on with the change while    *)
(* the handler says "continue", which is when it left it pending.           *)
Apply(r) ==
  /\ Save(With(mem, cur, r))
  /\ IF r.status = "pending"
     THEN pc' = "stage" /\ tries' = 0 /\ UNCHANGED <<cur, visited, policy, mode>>
     ELSE Visit(cur)
  /\ UNCHANGED <<repo, invokes, bounds>>

ImplementResult ==
  /\ WorkerOn("implement")
  /\ \E p \in ImplementPayloads : Apply(apply_implement_result(mem.rec[cur], tree[cur], p))
  /\ impls' = [impls EXCEPT ![cur] = impls[cur] + 1]
  /\ UNCHANGED <<reviewed, creates>>

ReviewAnswered(p) == p.status = "reviewed" /\ p.verdict \in {"pass", "fail"}

ReviewResult ==
  /\ WorkerOn("review")
  /\ \E p \in Reviews :
       /\ Apply(apply_review_result(mem.rec[cur], p, policy))
       /\ reviewed' = IF ReviewAnswered(p) /\ "critical" \notin p.counts
                      THEN reviewed \cup {cur} ELSE reviewed \ {cur}
  /\ UNCHANGED <<impls, creates>>

ArchiveResult ==
  /\ WorkerOn("archive")
  /\ \E p \in ArchivePayloads, checks_ok \in BOOLEAN :
       Apply(apply_archive_result(mem.rec[cur], tree[cur], p, checks_ok, dirty = {}))
  /\ UNCHANGED ghosts

InvalidOutput ==
  /\ pc = "worker"
  /\ \/ /\ tries < InvalidRetries
        /\ tries' = tries + 1
        /\ UNCHANGED <<file, mem, pc, cur, visited, policy, mode>>
     \/ /\ Save(With(mem, cur, OutputInvalid(mem.rec[cur])))
        /\ Visit(cur)
  /\ UNCHANGED <<repo, invokes, bounds, ghosts>>

WorkerTimeout ==
  /\ pc = "worker"
  /\ Save(With(mem, cur, Failed(mem.rec[cur], "timeout")))
  /\ Visit(cur)
  /\ UNCHANGED <<repo, invokes, bounds, ghosts>>

(* SIGINT, or the host going down: the engine and its worker are gone.      *)
Interrupt ==
  /\ pc # "idle" /\ Exit
  /\ UNCHANGED <<file, repo, invokes, bounds, ghosts>>

-----------------------------------------------------------------------------
(* The operator.  Gate commands take no lock and may come at any time, here *)
(* where the gate exists (elsewhere nothing reads what they write); the     *)
(* others are used, or take effect, between runs.                           *)

Approve(c) ==
  /\ c \in PauseBefore \ file.approvals
  /\ file' = [file EXCEPT !.approvals = file.approvals \cup {c}]
  /\ UNCHANGED <<mem, repo, invokes, proc, bounds, ghosts>>

Accept(c) ==
  /\ ReviewCreated /\ verify_change_created(tree[c], TRUE) /\ ~file.rec[c].accepted
  /\ file' = With(file, c, [file.rec[c] EXCEPT !.accepted = TRUE])
  /\ UNCHANGED <<mem, repo, invokes, proc, bounds, ghosts>>

Between(op) == pc = "idle" /\ op \in OperatorOps /\ edits < MaxEdits /\ edits' = edits + 1

(* opsx-plan reset; --force for a done change.                              *)
Reset(c) ==
  /\ IF file.rec[c].status = "done" THEN Between("force") ELSE Between("reset")
  /\ file' = With(file, c, NewRecord)
  /\ impls' = [impls EXCEPT ![c] = 0] /\ creates' = [creates EXCEPT ![c] = 0]
  /\ UNCHANGED <<mem, repo, invokes, proc, runs, reviewed>>

CommitEdits ==
  /\ Between("commit") /\ dirty # {} /\ dirty' = {}
  /\ UNCHANGED <<file, mem, tree, invokes, proc, runs, ghosts>>

AuthorByHand(c) ==
  /\ Between("author") /\ ~change_authored(tree[c])
  /\ tree' = [tree EXCEPT ![c].active = "valid", ![c].open = TRUE]
  /\ reviewed' = reviewed \ {c}
  /\ UNCHANGED <<file, mem, dirty, invokes, proc, runs, impls, creates>>

DeleteChange(c) ==
  /\ Between("delete") /\ tree[c].active # "none"
  /\ tree' = [tree EXCEPT ![c].active = "none"]
  /\ reviewed' = reviewed \ {c}
  /\ UNCHANGED <<file, mem, dirty, invokes, proc, runs, impls, creates>>

(* git reset to the commit before the archive; an ignored archive directory *)
(* stays where it is.                                                       *)
RevertArchive(c) ==
  /\ Between("revert") /\ ArchivedOnDisk(tree[c]) /\ tree[c].commit
  /\ tree' = [tree EXCEPT ![c].active = "valid", ![c].archived = ArchiveIgnored,
                          ![c].commit = FALSE]
  /\ UNCHANGED <<file, mem, dirty, invokes, proc, runs, ghosts>>

ConfigureCreate(c) ==
  /\ Between("configure") /\ c \notin invokes
  /\ invokes' = invokes \cup {c}
  /\ UNCHANGED <<file, mem, repo, proc, runs, ghosts>>

-----------------------------------------------------------------------------
(* The specification.                                                       *)

Pick ==
  \/ Finish
  \/ StopEarly
  \/ RefuseDirty
  \/ \E c \in Changes :
       \/ CreateUnconfigured(c)
       \/ CreateDebris(c)
       \/ CreateExhausted(c)
       \/ DispatchCreate(c)
       \/ CreateEnvError(c)
       \/ CreateSpawnError(c)
       \/ SkipAuthored(c)
       \/ Drive(c)

(* The engine's own steps; a worker always ends, at the latest at its       *)
(* stage timeout, so the step that takes its outcome is one of them.        *)
Engine ==
  \/ Pick
  \/ CreateResult
  \/ StageBudget \/ StageDone \/ Dispatch
  \/ ImplementResult \/ ReviewResult \/ ArchiveResult
  \/ InvalidOutput \/ WorkerTimeout \/ WorkerSpawnError

Worker == CreateWork \/ ImplementWork \/ ArchiveMove \/ ArchiveCommit \/ ArchiveRestore

Operator ==
  \/ CommitEdits
  \/ \E c \in Changes :
       \/ Approve(c) \/ Accept(c) \/ Reset(c)
       \/ AuthorByHand(c) \/ DeleteChange(c) \/ RevertArchive(c) \/ ConfigureCreate(c)

Next == StartRun \/ Engine \/ Worker \/ Interrupt \/ Operator

Spec == Init /\ [][Next]_vars

FairSpec == Spec /\ WF_vars(Engine)

=============================================================================
