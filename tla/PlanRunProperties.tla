-------------------------- MODULE PlanRunProperties --------------------------
(***************************************************************************)
(* What should be true of every `opsx-plan run` of a plan.                  *)
(***************************************************************************)
EXTENDS PlanRun

(* Every variable keeps its type; in particular a round never exceeds       *)
(* max_rounds and create_attempts never exceeds create_max_attempts.        *)
TypeOK ==
  /\ file \in State /\ mem \in State
  /\ tree \in [Changes -> Tree] /\ dirty \subseteq Changes
  /\ invokes \subseteq Changes
  /\ pc \in {"idle", "pick", "create", "stage", "worker"}
  /\ cur \in Changes \cup {NoChange}
  /\ pc \in {"create", "stage", "worker"} <=> cur # NoChange
  /\ visited \subseteq Changes /\ tries \in 0 .. InvalidRetries
  /\ policy \in Policies /\ mode \in {"drive", "create"}
  /\ runs \in 0 .. MaxRuns /\ edits \in 0 .. MaxEdits
  /\ reviewed \subseteq Changes
  /\ impls \in [Changes -> Nat] /\ creates \in [Changes -> Nat]

Busy == pc \in {"create", "stage", "worker"}

(* The change is on its way: not failed, and not finished.                  *)
Underway(r) == r.status \in {"pending", "running"}

-----------------------------------------------------------------------------
(* Scheduling.                                                              *)

(* A worker only ever runs on top of finished dependencies: when a change   *)
(* is created or driven, everything it depends on is enabled, done, and     *)
(* still verifiable from the archive on disk, whatever crashed, was reset   *)
(* or was reverted before this run.                                         *)
DispatchOrder ==
  Busy => \A d \in Deps[cur] :
            /\ d \in Enabled
            /\ mem.rec[d].status = "done"
            /\ verify_direct_archive_done(mem.rec[d], tree[d])

(* No change is worked on over another one's uncommitted edits              *)
(* (require_clean_tracked): what a worker leaves behind when it fails or    *)
(* is killed never ends up in the next change's archive commit.             *)
DirtyIsMine == Busy => dirty \subseteq {cur}

(* The gates hold at the moment of dispatch: a pause_before change is only  *)
(* driven once the run has seen its approval, and a change this plan        *)
(* created and verified only once it has seen the acceptance.               *)
GatesHeld ==
  pc \in {"stage", "worker"} =>
    /\ cur \in PauseBefore => cur \in mem.approvals
    /\ ReviewCreated /\ mem.rec[cur].created => mem.rec[cur].accepted

(* A create worker is dispatched at most create_max_attempts times for one  *)
(* record, across retries, interruptions and restarts.                      *)
CreateBudget == \A c \in Changes : creates[c] <= CreateMaxAttempts

-----------------------------------------------------------------------------
(* The loop over one change.                                                *)

(* An archive worker only runs on content that was reviewed without a       *)
(* critical finding since the last implement worker touched it, whichever   *)
(* policy, crash or retry came between.                                     *)
ArchiveOnlyReviewed ==
  pc = "worker" /\ mem.rec[cur].phase = "archive" => cur \in reviewed

(* One implement result is counted per round: a crash, an invalid output or *)
(* an incomplete task list neither burns a round nor gives one away.        *)
OneImplementPerRound ==
  \A c \in Changes :
    LET r == file.rec[c]
    IN  /\ Underway(r) /\ r.phase = "implement" => impls[c] = r.round - 1
        /\ Underway(r) /\ r.phase \in {"review", "archive"} => impls[c] = r.round

(* An implement worker is given the fix prompt of the round before it,      *)
(* never an older one and never one of a review that has since passed.      *)
FixPromptIsLatest ==
  \A c \in Changes :
    LET r == file.rec[c]
    IN  Underway(r) /\ r.phase = "implement" => r.fixFrom = r.round - 1

(* A change is not implemented again once a critical finding has cited the  *)
(* same location in finding_recurrence_limit rounds, even when the runs     *)
(* between used different severity policies.                                *)
CriticalRecurrenceStops ==
  \A c \in Changes :
    LET r == file.rec[c]
    IN  RecurrenceLimit > 0 /\ Underway(r) /\ r.phase = "implement" =>
          \A l \in Loci : Cardinality(LocusRounds(r.cites, {"critical"}, l)) < RecurrenceLimit

(* Killing the engine at any point of a stage and starting it again goes on *)
(* with the same phase, round and fix prompt: the saved record, reconciled  *)
(* with the repository as the worker has left it so far, is either settled  *)
(* (done or failed) or exactly where the engine was.                        *)
ResumeSameRound ==
  pc \in {"stage", "worker"} =>
    LET r == mem.rec[cur]
        resumed == reconcile(file.rec[cur], tree[cur], cur \in invokes)
    IN  \/ resumed.status \in {"done", "failed"}
        \/ /\ resumed.status = "pending"
           /\ resumed.phase = r.phase /\ resumed.round = r.round
           /\ resumed.fixFrom = r.fixFrom /\ resumed.streak = r.streak
           /\ resumed.cites = r.cites

-----------------------------------------------------------------------------
(* Liveness and refinement.                                                 *)

(* Every run ends, without a deadline and without being interrupted: the    *)
(* rounds, the create attempts and the invalid-output retries all run out.  *)
RunEnds == (pc # "idle") ~> (pc = "idle")

(* The run implements the contract: one change at a time, in dependency     *)
(* order, done only with its archive on disk.                               *)
Contract == INSTANCE PlanContract WITH
  open <- pc # "idle",
  done <- IF pc = "idle" THEN {} ELSE {c \in Changes : mem.rec[c].status = "done"},
  archived <- {c \in Changes : ArchivedOnDisk(tree[c])},
  busy <- cur

RefinesContract == Contract!Spec

-----------------------------------------------------------------------------
(* What a specification says and the code does not do: violated by a run.   *)

(* The operator can release a gate while a run is in progress: an approval  *)
(* stays on file.                                                           *)
ApprovalSticks == [][file.approvals \subseteq file'.approvals]_vars
=============================================================================
