----------------------------- MODULE Autopilot -----------------------------
(***************************************************************************)
(* `opsx-plan autopilot` run as a service, the engine runs it starts, and   *)
(* the delivery of the finished plan as a branch and a pull request.        *)
(*                                                                          *)
(* The wrapper runs the engine, classifies what it left in the plan state   *)
(* and approves gates after a veto window, waits for acceptance, resets     *)
(* transient failures a bounded number of times, or stops for the           *)
(* operator.  One round of stages of a change is a step here (module        *)
(* PlanRun has it in full); what happens around the rounds, in the wrapper  *)
(* and at the two ends of an engine run, is modelled step by step.          *)
(***************************************************************************)
EXTENDS Naturals, FiniteSets, FiniteSetsExt

CONSTANTS
  Changes,     \* 1 .. n, in manifest order
  Gated,       \* changes with pause_before
  Create,      \* changes the engine creates, under review_created
  Sigs,        \* signatures of transient failures (last_result and reason)
  BaseRef,     \* git_delivery.base_ref of the plan, "none" when unset
  MaxResets,   \* max_auto_resets
  Passes,      \* NO_PROGRESS_PASSES
  MaxStarts, MaxKills, MaxOps  \* bounds of the model

ASSUME ChangesAssumption == Changes \subseteq Nat /\ IsFiniteSet(Changes)
ASSUME BoundsAssumption ==
  MaxResets \in Nat /\ Passes \in Nat /\ MaxStarts \in Nat /\ MaxKills \in Nat /\ MaxOps \in Nat
ASSUME NamesAssumption ==
  Sigs \cap {"pending", "running", "done", "human"} = {} /\ BaseRef \in {"none", "main"}

VARIABLES
  rec,       \* the status of each change in the plan state
  approvals, \* approved changes
  created,   \* records with created_by_orchestrator
  accepted,  \* records with accepted
  delivery,  \* git_delivery in the plan state
  counts,    \* autopilot-state.json: resets per change and signature
  paused,    \* autopilot-paused.json exists
  veto,      \* markers in .opsx-plan/veto
  authored,  \* changes with a directory
  dirty,     \* uncommitted tracked edits
  head,      \* the branch checked out
  branch,    \* the delivery branch exists
  landed,    \* the branch each archive commit was made on
  remote,    \* pushed archive commits of the delivery branch
  prs,       \* pull requests opened, by base
  en,        \* where the engine is
  mem,       \* git_delivery in the engine's memory
  visited,   \* changes this engine run has driven
  ap,        \* where the wrapper is
  queue,     \* changes the wrapper has still to handle
  known,     \* counts in the wrapper's memory
  streak, seen,  \* quick passes without progress, and the statuses they left
  due,       \* the veto window of the change being handled has passed
  inTime,    \* (history) changes vetoed within their window
  resets,    \* (history) automatic resets made
  starts, kills, ops

disk == <<rec, approvals, created, accepted, delivery>>
wrap == <<ap, queue, known, streak, seen, due>>
engine == <<en, mem, visited>>
work == <<authored, dirty, head, branch, landed, remote, prs>>
env == <<veto, inTime, starts, kills, ops>>
vars == <<disk, counts, paused, work, engine, wrap, env, resets>>

Plan == "plan"  \* the delivery branch
NoDelivery == [base |-> "none", name |-> "none", url |-> FALSE]
Status == {"pending", "running", "done", "human"} \cup Sigs
Failed(c) == rec[c] \in Sigs \cup {"human"}
First(S) == Min(S)

(* Mutant: an approval does not open the gate it was given for.             *)
GateUnanswered(c) ==
  IF rec[c] # "pending" THEN "none"
  ELSE IF c \in Gated THEN "approval"
  ELSE IF c \in created \ accepted THEN "acceptance"
  ELSE "none"

(* Computed status of a change: the gates stand between pending and ready.  *)
Gate(c) ==
  IF rec[c] # "pending" THEN "none"
  ELSE IF c \in Gated \ approvals THEN "approval"
  ELSE IF c \in created \ accepted THEN "acceptance"
  ELSE "none"

Ready(c) == rec[c] = "pending" /\ Gate(c) = "none"

Init ==
  /\ rec = [c \in Changes |-> "pending"]
  /\ approvals = {} /\ created = {} /\ accepted = {} /\ delivery = NoDelivery
  /\ counts = [x \in Changes \X Sigs |-> 0] /\ known = counts /\ resets = counts
  /\ paused = FALSE /\ veto = {} /\ authored = Changes \ Create
  /\ dirty = FALSE /\ head = "main" /\ branch = FALSE
  /\ landed = [c \in Changes |-> "none"] /\ remote = {} /\ prs = {}
  /\ en = "none" /\ mem = NoDelivery /\ visited = {}
  /\ ap = "down" /\ queue = {} /\ streak = 0 /\ seen = rec /\ due = FALSE
  /\ inTime = {} /\ starts = 0 /\ kills = 0 /\ ops = 0

-----------------------------------------------------------------------------
(* The wrapper starts, stops and parks.                                     *)

(* The process ends: the unit is down until systemd or the operator starts  *)
(* it again.  An escalation has been written and pushed before that.        *)
Exit == /\ ap' = "down" /\ queue' = {} /\ due' = FALSE
        /\ UNCHANGED <<known, streak, seen>>

(* A deterministic environment failure leaves a marker that keeps later     *)
(* starts from running anything until `autopilot resume`.                   *)
Pause == paused' = TRUE /\ Exit

(* Escalate to the operator and stop.                                       *)
Escalate == paused' = paused /\ Exit

(* Mutant: a restart begins to count resets anew.                           *)
LoadedNothing == [x \in Changes \X Sigs |-> 0]

(* The reset counts that autopilot-state.json holds.                        *)
Loaded == counts

(* A start of the unit: parked, refused for a dirty tree, or running with   *)
(* the reset counts read from its state file.                               *)
Start ==
  /\ ap = "down" /\ en = "none" /\ ~paused /\ starts < MaxStarts
  /\ starts' = starts + 1
  /\ IF dirty
     THEN Pause
     ELSE /\ ap' = "run" /\ known' = Loaded /\ streak' = 0 /\ seen' = rec
          /\ queue' = {} /\ due' = FALSE /\ UNCHANGED paused
  /\ UNCHANGED <<disk, counts, work, engine, veto, inTime, kills, ops, resets>>

(* Killing the unit takes the engine and its worker along; edits stay.      *)
Kill ==
  /\ ap # "down" /\ kills < MaxKills /\ kills' = kills + 1
  /\ en' = "none" /\ visited' = {} /\ Escalate
  /\ UNCHANGED <<disk, counts, work, mem, veto, inTime, starts, ops, resets>>

Resume ==
  /\ paused /\ ~dirty /\ ops < MaxOps /\ ops' = ops + 1
  /\ paused' = FALSE
  /\ UNCHANGED <<disk, counts, work, engine, wrap, veto, inTime, starts, kills, resets>>

-----------------------------------------------------------------------------
(* An engine run.                                                           *)

(* The engine ends with a status that leaves the classification to the      *)
(* plan state.                                                              *)
EngineDone == /\ en' = "none" /\ ap' = "classify" /\ visited' = {}
              /\ UNCHANGED <<paused, queue, known, streak, seen, due>>

(* The engine exits 2 and the reason it printed is one of those only the    *)
(* operator can mend, or may be transient: systemd then starts it again.    *)
EngineRefuses(deterministic) ==
  /\ en' = "none" /\ visited' = {}
  /\ IF deterministic THEN Pause ELSE Escalate

(* The lock is free; stale running records go back to pending; or another   *)
(* engine holds the lock.                                                   *)
EngineStart ==
  /\ ap = "run" /\ en = "none"
  /\ \/ /\ en' = "branch" /\ mem' = delivery
        /\ rec' = [c \in Changes |-> IF rec[c] = "running" THEN "pending" ELSE rec[c]]
        /\ UNCHANGED <<paused, wrap, visited>>
     \/ EngineRefuses(FALSE) /\ UNCHANGED <<rec, mem>>
  /\ UNCHANGED <<approvals, created, accepted, delivery, counts, work, env, resets>>

ResolvedBase == IF BaseRef # "none" THEN BaseRef ELSE head

(* Mutant: the engine works on whatever branch is checked out.              *)
OnAnyBranch == TRUE

(* The recorded delivery branch is the one checked out.                     *)
OnBranch == head = delivery.name

(* A recorded branch must be checked out; otherwise the branch is created   *)
(* from a clean tree, or found, and checked out.                            *)
EnsureBranch ==
  /\ en = "branch"
  /\ \/ /\ delivery.name # "none" /\ OnBranch
        /\ en' = "pick" /\ UNCHANGED <<paused, wrap, visited, mem, head, branch>>
     \/ /\ delivery.name # "none" /\ ~OnBranch
        /\ EngineRefuses(FALSE) /\ UNCHANGED <<mem, head, branch>>
     \/ /\ delivery.name = "none" /\ dirty
        /\ EngineRefuses(TRUE) /\ UNCHANGED <<mem, head, branch>>
     \/ /\ delivery.name = "none" /\ ~dirty
        /\ mem' = [mem EXCEPT !.base = ResolvedBase, !.name = Plan]
        /\ head' = Plan /\ branch' = TRUE /\ en' = "record"
        /\ UNCHANGED <<paused, wrap, visited>>
  /\ UNCHANGED <<disk, counts, authored, dirty, landed, remote, prs, env, resets>>

(* The branch is saved; then gh and a remote are looked for.                *)
RecordBranch ==
  /\ en = "record" /\ delivery' = mem
  /\ \/ en' = "pick" /\ UNCHANGED <<paused, wrap, visited>>
     \/ EngineRefuses(FALSE)
  /\ UNCHANGED <<rec, approvals, created, accepted, counts, work, mem, env, resets>>

ReadyNow == {c \in Changes \ visited : Ready(c)}

(* The next ready change; over a dirty tree the engine refuses.             *)
Picked(c) == en = "pick" /\ ReadyNow # {} /\ c = First(ReadyNow) /\ ~dirty
PickedDirty == en = "pick" /\ ReadyNow # {} /\ dirty

DirtyRefused ==
  /\ PickedDirty /\ EngineRefuses(TRUE)
  /\ UNCHANGED <<disk, counts, work, mem, env, resets>>

(* A change without a directory is created first, and then has to be        *)
(* accepted; its author may fail.                                           *)
CreateChange(c) ==
  /\ Picked(c) /\ c \notin authored
  /\ \/ /\ authored' = authored \cup {c} /\ created' = created \cup {c}
        /\ UNCHANGED rec
     \/ /\ \E s \in Sigs \cup {"human"} : rec' = [rec EXCEPT ![c] = s]
        /\ UNCHANGED <<authored, created>>
  /\ UNCHANGED <<approvals, accepted, delivery, counts, paused, dirty, head, branch, landed,
                 remote, prs, engine, wrap, env, resets>>

Drive(c) ==
  /\ Picked(c) /\ c \in authored
  /\ en' = "stage" /\ visited' = visited \cup {c}
  /\ rec' = [rec EXCEPT ![c] = "running"] /\ dirty' = TRUE
  /\ UNCHANGED <<approvals, created, accepted, delivery, counts, paused, authored, head, branch,
                 landed, remote, prs, mem, wrap, env, resets>>

(* The change is archived with a commit on the branch that is checked out;  *)
(* or it fails, for a reason of some kind, leaving its edits or not.        *)
Driven(c) ==
  /\ en = "stage" /\ rec[c] = "running" /\ en' = "pick"
  /\ \/ /\ rec' = [rec EXCEPT ![c] = "done"] /\ dirty' = FALSE
        /\ landed' = [landed EXCEPT ![c] = head]
     \/ /\ \E s \in Sigs \cup {"human"} : rec' = [rec EXCEPT ![c] = s]
        /\ dirty' \in BOOLEAN /\ UNCHANGED landed
  /\ UNCHANGED <<approvals, created, accepted, delivery, counts, paused, authored, head, branch,
                 remote, prs, mem, visited, wrap, env, resets>>

(* The worker cannot be started at all: the change fails and the run exits. *)
SpawnFails(c) ==
  /\ en = "stage" /\ rec[c] = "running"
  /\ rec' = [rec EXCEPT ![c] = "human"] /\ dirty' = FALSE /\ EngineRefuses(FALSE)
  /\ UNCHANGED <<approvals, created, accepted, delivery, counts, authored, head, branch, landed,
                 remote, prs, mem, env, resets>>

(* The engine alone dies, with whatever its worker had edited.              *)
EngineKilled ==
  /\ en # "none" /\ kills < MaxKills /\ kills' = kills + 1
  /\ EngineDone
  /\ UNCHANGED <<disk, counts, work, mem, veto, inTime, starts, ops, resets>>

AllDone == \A c \in Changes : rec[c] = "done"

(* With nothing left to pick a finished plan that has no pull request yet   *)
(* is pushed; a failure to push is reported and the run ends.               *)
DoDeliver == AllDone /\ ~mem.url

NothingReady ==
  /\ en = "pick" /\ ReadyNow = {}
  /\ \/ /\ DoDeliver /\ en' = "request"
        /\ remote' = {c \in Changes : landed[c] = mem.name}
        /\ UNCHANGED <<paused, wrap, visited>>
     \/ EngineDone /\ UNCHANGED remote
  /\ UNCHANGED <<disk, counts, authored, dirty, head, branch, landed, prs, mem, env, resets>>

(* gh opens the pull request unless there is one, or base and head are the  *)
(* same branch; it may fail, and its answer may come too late.              *)
RequestPull ==
  /\ en = "request" /\ en' = "save"
  /\ \/ /\ prs = {} /\ mem.base # mem.name
        /\ prs' = {mem.base}
        /\ \E answered \in BOOLEAN : mem' = [mem EXCEPT !.url = answered]
     \/ UNCHANGED <<prs, mem>>
  /\ UNCHANGED <<disk, counts, paused, authored, dirty, head, branch, landed, remote, visited,
                 wrap, env, resets>>

SaveDelivery ==
  /\ en = "save" /\ delivery' = mem /\ EngineDone
  /\ UNCHANGED <<rec, approvals, created, accepted, counts, work, mem, env, resets>>

-----------------------------------------------------------------------------
(* What the wrapper makes of an engine run.                                 *)

Go(where, Q) == /\ ap' = where /\ queue' = Q /\ due' = FALSE
                /\ UNCHANGED <<paused, known, streak, seen>>

Awaiting(g) == {c \in Changes : Gate(c) = g}
FailedChanges == {c \in Changes : Failed(c)}

(* Three quick passes that leave the same statuses are no progress; a pass  *)
(* that took its time starts the count again.                               *)
NewStreak(quick) == IF quick /\ seen = rec THEN streak + 1 ELSE 1

(* A run that drove nothing is taken to be quick.                           *)
Idled(n) ==
  IF n >= Passes THEN Escalate
  ELSE /\ ap' = "run" /\ streak' = n /\ seen' = rec
       /\ UNCHANGED <<paused, queue, known, due>>

Classify ==
  /\ ap = "classify"
  /\ \/ AllDone /\ Escalate
     \/ Awaiting("approval") # {} /\ Go("approval", Awaiting("approval"))
     \/ /\ Awaiting("approval") = {} /\ Awaiting("acceptance") # {}
        /\ Go("acceptance", Awaiting("acceptance"))
     \/ /\ Awaiting("approval") \cup Awaiting("acceptance") = {} /\ FailedChanges # {}
        /\ Go("failure", FailedChanges)
     \/ /\ Awaiting("approval") \cup Awaiting("acceptance") \cup FailedChanges = {}
        /\ ~AllDone /\ \E quick \in {TRUE} \cup {seen = rec} : Idled(NewStreak(quick))
  /\ UNCHANGED <<disk, counts, work, engine, env, resets>>

(* With the list dealt with, the engine is run again.                       *)
Next1 == IF queue = {First(queue)} THEN Go("run", {}) ELSE Go(ap, queue \ {First(queue)})

ToApprove == ap' = "approve" /\ UNCHANGED <<paused, queue, known, streak, seen, due>>

(* Mutant: the clock is looked at before the veto marker.                   *)
LookLate(c) ==
  \/ due /\ ToApprove
  \/ ~due /\ c \in veto /\ Escalate
  \/ ~due /\ c \in approvals \ veto /\ Next1

(* One look during the veto window: the veto marker, then an approval by    *)
(* the operator, then the clock.                                            *)
Look(c) ==
  \/ c \in veto /\ Escalate
  \/ c \in approvals \ veto /\ Next1
  \/ c \notin approvals \cup veto /\ due /\ ToApprove

AwaitVeto ==
  /\ ap = "approval" /\ Look(First(queue))
  /\ UNCHANGED <<disk, counts, work, engine, env, resets>>

(* `opsx-plan approve`, which may fail.                                     *)
Approve ==
  /\ ap = "approve"
  /\ \/ /\ approvals' = approvals \cup {First(queue)}
        /\ IF queue = {First(queue)} THEN Go("run", {})
           ELSE Go("approval", queue \ {First(queue)})
     \/ Escalate /\ UNCHANGED approvals
  /\ UNCHANGED <<rec, created, accepted, delivery, counts, work, engine, env, resets>>

(* Acceptance is the operator's alone: the wrapper waits for it.            *)
AwaitAcceptance ==
  /\ ap = "acceptance" /\ First(queue) \in accepted /\ Next1
  /\ UNCHANGED <<disk, counts, work, engine, env, resets>>

(* A transient failure may be reset if its signature's count and the time   *)
(* since its last reset allow it.                                           *)
MayReset(c) == rec[c] \in Sigs /\ known[<<c, rec[c]>>] < MaxResets

Spaced(c) == IF known[<<c, rec[c]>>] = 0 THEN {TRUE} ELSE BOOLEAN

(* The reset is a command of its own; it may find the lock held.            *)
HandleFailure ==
  /\ ap = "failure"
  /\ LET c == First(queue)
     IN  \/ ~MayReset(c) /\ Escalate /\ UNCHANGED <<rec, created, accepted, resets>>
         \/ /\ MayReset(c) /\ FALSE \in Spaced(c)
            /\ Escalate /\ UNCHANGED <<rec, created, accepted, resets>>
         \/ /\ MayReset(c) /\ TRUE \in Spaced(c)
            /\ rec' = [rec EXCEPT ![c] = "pending"]
            /\ created' = created \ {c} /\ accepted' = accepted \ {c}
            /\ resets' = [resets EXCEPT ![<<c, rec[c]>>] = @ + 1]
            /\ known' = [known EXCEPT ![<<c, rec[c]>>] = @ + 1]
            /\ ap' = "count" /\ UNCHANGED <<paused, queue, streak, seen, due>>
         \/ /\ MayReset(c) /\ TRUE \in Spaced(c)
            /\ Escalate /\ UNCHANGED <<rec, created, accepted, resets>>
  /\ UNCHANGED <<approvals, delivery, counts, work, engine, env>>

(* The count of resets is saved after the reset.                            *)
SaveCount ==
  /\ ap = "count" /\ counts' = known
  /\ IF queue = {First(queue)} THEN Go("run", {})
     ELSE Go("failure", queue \ {First(queue)})
  /\ UNCHANGED <<disk, work, engine, env, resets>>

-----------------------------------------------------------------------------
(* Time and the operator.                                                   *)

WindowPasses ==
  /\ ap = "approval" /\ ~due /\ due' = TRUE
  /\ UNCHANGED <<disk, counts, paused, work, engine, ap, queue, known, streak, seen, env, resets>>

Veto(c) ==
  /\ ops < MaxOps /\ ops' = ops + 1 /\ c \in Gated \ veto /\ veto' = veto \cup {c}
  /\ inTime' = IF ap \in {"approval", "approve"} /\ due /\ c = First(queue) THEN inTime ELSE inTime \cup {c}
  /\ UNCHANGED <<disk, counts, paused, work, engine, wrap, starts, kills, resets>>

OperatorApproves(c) ==
  /\ ops < MaxOps /\ ops' = ops + 1 /\ en = "none"
  /\ c \in Gated \ approvals /\ approvals' = approvals \cup {c}
  /\ UNCHANGED <<rec, created, accepted, delivery, counts, paused, work, engine, wrap, veto,
                 inTime, starts, kills, resets>>

OperatorAccepts(c) ==
  /\ en = "none" /\ Gate(c) = "acceptance" /\ accepted' = accepted \cup {c}
  /\ UNCHANGED <<rec, approvals, created, delivery, counts, paused, work, engine, wrap, env,
                 resets>>

OperatorResets(c) ==
  /\ ops < MaxOps /\ ops' = ops + 1 /\ en = "none" /\ Failed(c)
  /\ rec' = [rec EXCEPT ![c] = "pending"]
  /\ created' = created \ {c} /\ accepted' = accepted \ {c}
  /\ UNCHANGED <<approvals, delivery, counts, paused, work, engine, wrap, veto, inTime, starts,
                 kills, resets>>

(* Leftovers are stashed, and branches switched, between engine runs.       *)
Tidy ==
  /\ ops < MaxOps /\ ops' = ops + 1 /\ en = "none" /\ dirty /\ dirty' = FALSE
  /\ UNCHANGED <<disk, counts, paused, authored, head, branch, landed, remote, prs, engine, wrap,
                 veto, inTime, starts, kills, resets>>

Checkout ==
  /\ ops < MaxOps /\ ops' = ops + 1 /\ en = "none" /\ ~dirty /\ branch
  /\ head' = IF head = Plan THEN "main" ELSE Plan
  /\ UNCHANGED <<disk, counts, paused, authored, dirty, branch, landed, remote, prs, engine, wrap,
                 veto, inTime, starts, kills, resets>>

-----------------------------------------------------------------------------
EngineStep ==
  \/ EngineStart \/ EnsureBranch \/ RecordBranch \/ DirtyRefused
  \/ \E c \in Changes : CreateChange(c) \/ Drive(c) \/ Driven(c) \/ SpawnFails(c)
  \/ NothingReady \/ RequestPull \/ SaveDelivery

WrapperStep ==
  \/ Classify \/ AwaitVeto \/ Approve \/ AwaitAcceptance \/ HandleFailure \/ SaveCount

Operator ==
  \/ Start \/ Resume \/ Tidy \/ Checkout
  \/ \E c \in Changes :
       Veto(c) \/ OperatorApproves(c) \/ OperatorAccepts(c) \/ OperatorResets(c)

Next == EngineStep \/ WrapperStep \/ WindowPasses \/ Operator \/ Kill \/ EngineKilled

(* The wrapper and its engine run on, and clocks do.                        *)
Fairness == WF_vars(EngineStep) /\ WF_vars(WrapperStep) /\ WF_vars(WindowPasses)

Spec == Init /\ [][Next]_vars /\ Fairness
=============================================================================
