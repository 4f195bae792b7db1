---------------------------- MODULE SupervisedJob ----------------------------
(***************************************************************************)
(* A registered job under its operator commands, its run engines and the    *)
(* watchdog.                                                                *)
(*                                                                          *)
(* `supervise start` and `supervise resume` activate the job, record this   *)
(* process as its execution fence and drive the run engine; `opsx-plan run` *)
(* drives it without a fence; `supervise pause`, `drain` and `cancel` write *)
(* the ledger beside a running engine; the watchdog looks for a dead engine *)
(* and drives the job again.  Every ledger transaction is a step: the state *)
(* a command has read may be stale when it writes.                          *)
(*                                                                          *)
(* An engine works inside the flock of the worktree.  It observes a stop    *)
(* request when it is about to dispatch, and nowhere else.                  *)
(***************************************************************************)
EXTENDS Integers, FiniteSets

CONSTANTS
  Drivers,       \* processes that start, resume or run
  Watchdog,      \* the process of `supervise watchdog`
  Nobody,        \* no process
  Gone,          \* any process that has ended and left its identity behind
  DriveModes,    \* how start, resume and redrive call cmd_run: "bare", "full"
  MaxAttempts,   \* policy key max_incident_attempts
  Changes,       \* ready changes an engine finds at most
  MaxKills       \* bound: engines killed

ASSUME ProcessAssumption ==
  /\ Watchdog \notin Drivers
  /\ {Nobody, Gone} \cap (Drivers \cup {Watchdog}) = {} /\ Nobody # Gone
ASSUME ModesAssumption == DriveModes \subseteq {"bare", "full"}
ASSUME BoundsAssumption == MaxAttempts \in Nat /\ Changes \in Nat /\ MaxKills \in Nat

VARIABLES
  job,      \* jobs.state
  hold,     \* a stop wait is open
  fence,    \* the acquired identity that no later row of its own cleared
  last,     \* the fencing row recorded last
  attempts, \* restart attempts recorded by the watchdog
  flock,    \* who has the kernel's lock on .opsx-plan/execution.lock
  record,   \* whom the file beside it names as holding it
  action,   \* the journal action of each process; Gone: an intent left behind
  worker,   \* the process has a worker running
  pc,       \* where each process is
  mode,     \* how it came to cmd_run: with the plan alone, in full, or `run`
  gated,    \* a registration was open when it entered the run
  left,     \* ready changes it has not visited
  op, todo, \* the operator command under way, the actions it has yet to visit
  kills,    \* engines killed (bounded by MaxKills)
  late,     \* history: actions begun since the stop wait was opened
  over      \* history: the job was to be cancelled, or was completed, once

ledger == <<job, hold, fence, last, attempts>>
lock == <<flock, record>>
engines == <<pc, mode, gated, left>>
operator == <<op, todo>>
history == <<late, over>>
vars == <<ledger, lock, action, worker, engines, operator, kills, history>>

Processes == Drivers \cup {Watchdog}
JobStates == {"registered", "active", "paused", "completed", "cancelled"}
Terminal == {"completed", "cancelled"}

Row == [held : BOOLEAN, who : Processes \cup {Nobody, Gone}]
NoRow == [held |-> FALSE, who |-> Nobody]

Live(p) == p \in Processes /\ pc[p] # "dead"

(* An action is in flight until it ends or its outcome is questioned; if it  *)
(* was never dispatched, there is no worker identity to look for.           *)
InFlight == {k \in DOMAIN action : action[k] \in {"intent", "dispatched"}}
Uncertain == {k \in DOMAIN action : action[k] \in {"uncertain", "undispatched"}}
Unconfirmed == Uncertain \cup {k \in DOMAIN action : action[k] = "dispatched"}

(* Program counters inside the flock.                                       *)
Body == {"enter", "pick", "plain", "plainwork", "stage", "observe", "halt", "gates", "begin",
         "dispatch", "work", "verify", "unwait", "complete", "release"}
InBody(p) == pc[p] \in Body

Modes == {"bare", "full", "run"}

To(p, l) == pc' = [pc EXCEPT ![p] = l]
Put(k, s) == action' = [action EXCEPT ![k] = s]

(* record_stop_request: the receipt and the stop wait, in one transaction.   *)
OpenHold == hold' = TRUE /\ late' = IF hold THEN late ELSE 0
EndHolds == hold' = FALSE /\ late' = 0

(* The fence of a terminal job is not asked for: the run is an ordinary one. *)
Authorized(p) == job \in Terminal \/ fence = p

(* The file names another process that lives.                               *)
HeldByOther(p) == Live(record) /\ record # p

Init ==
  /\ job = "registered" /\ hold = FALSE
  /\ fence = Nobody /\ last = NoRow /\ attempts = 0
  /\ flock = Nobody /\ record = Nobody
  /\ action = [k \in Processes \cup {Gone} |-> "none"]
  /\ worker = [p \in Processes |-> FALSE]
  /\ pc = [p \in Processes |-> "idle"]
  /\ mode = [p \in Processes |-> "run"]
  /\ gated = [p \in Processes |-> FALSE]
  /\ left = [p \in Processes |-> 0]
  /\ op = "none" /\ todo = {} /\ kills = 0 /\ late = 0 /\ over = FALSE

-----------------------------------------------------------------------------
(* Activation: `supervise start`, `supervise resume`, and a plain `run`.     *)

Come(p, m, l) ==
  /\ p \in Drivers /\ pc[p] = "idle"
  /\ mode' = [mode EXCEPT ![p] = m]
  /\ To(p, l)
  /\ UNCHANGED <<ledger, lock, action, worker, gated, left, operator, kills, history>>

Start(p) == job = "registered" /\ \E m \in DriveModes : Come(p, m, "activate")

(* assert_resume_clear may refuse, and then nothing happens.                *)
Resume(p) == job = "paused" /\ \E m \in DriveModes : Come(p, m, "unhold")

Run(p) == Come(p, "run", "authorize")

EndStopWaits(p) ==
  /\ pc[p] = "unhold" /\ EndHolds /\ To(p, "activate")
  /\ UNCHANGED <<job, fence, last, attempts, lock, action, worker,
                 mode, gated, left, operator, kills, over>>

(* The transition is written whatever the job has become since it was read.  *)
Activate(p) ==
  /\ pc[p] = "activate" /\ job' = "active" /\ To(p, "fence")
  /\ UNCHANGED <<hold, fence, last, attempts, lock, action, worker,
                 mode, gated, left, operator, kills, history>>

RecordFence(p) ==
  /\ pc[p] = "fence"
  /\ fence' = p /\ last' = [held |-> TRUE, who |-> p]
  /\ To(p, "authorize")
  /\ UNCHANGED <<job, hold, attempts, lock, action, worker, mode,
                 gated, left, operator, kills, history>>

(* Who was activated by `supervise` clears its fence when it ends.          *)
Exit(p) == To(p, IF mode[p] = "run" \/ p = Watchdog THEN "idle" ELSE "unfence")

ReleaseFence(p) ==
  /\ pc[p] = "unfence"
  /\ fence' = IF fence = p THEN Nobody ELSE fence
  /\ last' = [held |-> FALSE, who |-> p]
  /\ To(p, "idle") /\ mode' = [mode EXCEPT ![p] = "run"]
  /\ UNCHANGED <<job, hold, attempts, lock, action, worker, gated,
                 left, operator, kills, history>>

-----------------------------------------------------------------------------
(* The run engine, up to its loop.  A gate of the plan may be unresolved.    *)

Authorize(p) ==
  /\ pc[p] = "authorize"
  /\ \/ Authorized(p) /\ To(p, "lock")
     \/ job \notin Terminal /\ Exit(p)
  /\ UNCHANGED <<ledger, lock, action, worker, mode, gated, left, operator, kills, history>>

(* Mutant: neither the flock nor the record beside it is looked at.         *)
AcquireUnlocked(p) ==
  /\ pc[p] = "lock" /\ flock' = p /\ record' = p /\ To(p, "enter")
  /\ UNCHANGED <<ledger, action, worker, mode, gated, left, operator, kills, history>>

AcquireLock(p) ==
  /\ pc[p] = "lock"
  /\ IF flock = Nobody /\ ~HeldByOther(p)
       THEN flock' = p /\ record' = p /\ To(p, "enter")
       ELSE Exit(p) /\ UNCHANGED lock
  /\ UNCHANGED <<ledger, action, worker, mode, gated, left, operator, kills, history>>

(* The fence is required again inside the lock.  A run that was given the   *)
(* plan alone stops at the first option it asks for.                        *)
Enter(p) ==
  /\ pc[p] = "enter"
  /\ IF Authorized(p) /\ mode[p] # "bare"
       THEN /\ \E n \in 0 .. Changes : left' = [left EXCEPT ![p] = n]
            /\ gated' = [gated EXCEPT ![p] = job \notin Terminal]
            /\ To(p, "pick")
       ELSE To(p, "release") /\ UNCHANGED <<left, gated>>
  /\ UNCHANGED <<ledger, lock, action, worker, mode, operator, kills, history>>

ReleaseLock(p) ==
  /\ pc[p] = "release"
  /\ flock' = Nobody /\ record' = Nobody
  /\ left' = [left EXCEPT ![p] = 0] /\ gated' = [gated EXCEPT ![p] = FALSE]
  /\ Exit(p)
  /\ UNCHANGED <<ledger, action, worker, mode, operator, kills, history>>

-----------------------------------------------------------------------------
(* The run engine, its loop.  Every change opens the gate of the job anew;   *)
(* of a terminal job there is none, and the change runs as an ordinary one.  *)

Turn(p, l) ==
  /\ To(p, l)
  /\ UNCHANGED <<ledger, lock, action, worker, mode, gated, left, operator, kills, history>>

(* Mutant: a visited change is picked again.                                *)
PickAgain(p) ==
  /\ pc[p] = "pick" /\ left[p] > 0
  /\ To(p, IF job \in Terminal THEN "plain" ELSE "stage")
  /\ UNCHANGED <<ledger, lock, action, worker, mode, gated, left, operator, kills, history>>

PickChange(p) ==
  /\ pc[p] = "pick" /\ left[p] > 0
  /\ left' = [left EXCEPT ![p] = @ - 1]
  /\ To(p, IF job \in Terminal THEN "plain" ELSE "stage")
  /\ UNCHANGED <<ledger, lock, action, worker, mode, gated, operator, kills, history>>

NoMoreChanges(p) ==
  pc[p] = "pick" /\ left[p] = 0 /\ Turn(p, IF gated[p] THEN "verify" ELSE "release")

(* A dirty tree, a worker that cannot be spawned, a limit of the run.        *)
StopEarly(p) == pc[p] = "pick" /\ Turn(p, "release")

PlainDispatch(p) ==
  /\ pc[p] = "plain"
  /\ worker' = [worker EXCEPT ![p] = TRUE] /\ To(p, "plainwork")
  /\ UNCHANGED <<ledger, lock, action, mode, gated, left, operator, kills, history>>

PlainResult(p) ==
  pc[p] = "plainwork" /\ ~worker[p] /\ \E l \in {"plain", "pick"} : Turn(p, l)

(* reconcile_pending: what anyone has dispatched becomes uncertain.         *)
Swept == [k \in DOMAIN action |-> IF action[k] = "dispatched" THEN "uncertain" ELSE action[k]]

(* Mutant: the worker of a pending action is not looked for.                *)
SupersedingUnseen ==
  \/ Unconfirmed = {} /\ action' = action
  \/ \E k \in Processes :
       Unconfirmed = {k} /\ action[k] # "undispatched" /\ Put(k, "none")

(* Nothing is pending, or one action whose worker can be seen to be gone and *)
(* that is superseded by this dispatch.                                     *)
Superseding ==
  \/ Unconfirmed = {} /\ action' = action
  \/ \E k \in Processes :
       /\ Unconfirmed = {k} /\ action[k] # "undispatched" /\ ~worker[k]
       /\ Put(k, "none")

(* Or the repository shows its stage complete, whatever became of the worker. *)
ShownComplete ==
  \E k \in DOMAIN action :
    /\ Unconfirmed = {k}
    /\ Put(k, IF k \in Processes /\ worker[k] THEN "completed" ELSE "none")

AdmitStage(p) ==
  /\ pc[p] = "stage"
  /\ \/ Superseding /\ To(p, "observe")
     \/ ShownComplete /\ \E l \in {"stage", "pick"} : To(p, l)
     \/ Unconfirmed # {} /\ action' = Swept /\ To(p, "pick")
  /\ UNCHANGED <<ledger, lock, worker, mode, gated, left, operator, kills, history>>

(* Mutant: the stop wait of a job that is paused already is not looked at.   *)
ObserveWhileActive(p) ==
  /\ pc[p] = "observe"
  /\ \/ job \notin Terminal /\ (~hold \/ job = "paused") /\ Turn(p, "gates")
     \/ (job \in Terminal \/ (hold /\ InFlight # {})) /\ Turn(p, "pick")
     \/ job = "active" /\ hold /\ InFlight = {} /\ Turn(p, "halt")

(* observe_stop_request                                                     *)
ObserveStop(p) ==
  /\ pc[p] = "observe"
  /\ \/ job \notin Terminal /\ ~hold /\ Turn(p, "gates")
     \/ (job \in Terminal \/ (hold /\ InFlight # {})) /\ Turn(p, "pick")
     \/ /\ job \notin Terminal /\ hold /\ InFlight = {}
        /\ Turn(p, IF job = "active" THEN "halt" ELSE "pick")

HaltJob(p) ==
  /\ pc[p] = "halt" /\ job' = "paused" /\ To(p, "pick")
  /\ UNCHANGED <<hold, fence, last, attempts, lock, action, worker,
                 mode, gated, left, operator, kills, history>>

(* The lock gate; the gates that follow, the broker's among them, may refuse. *)
EvaluateGates(p) ==
  /\ pc[p] = "gates"
  /\ \/ fence = p /\ ~HeldByOther(p) /\ Turn(p, "begin")
     \/ Turn(p, "pick")

BeginAction(p) ==
  /\ pc[p] = "begin"
  /\ Put(p, "intent") /\ late' = IF hold THEN late + 1 ELSE late
  /\ To(p, "dispatch")
  /\ UNCHANGED <<ledger, lock, worker, mode, gated, left, operator, kills, over>>

(* dispatch_action refuses an action that a stop request got hold of first;  *)
(* the reservation may be refused, and then the intent fails.               *)
DispatchAction(p) ==
  /\ pc[p] = "dispatch"
  /\ \/ /\ action[p] = "intent" /\ Put(p, "dispatched")
        /\ worker' = [worker EXCEPT ![p] = TRUE] /\ To(p, "work")
     \/ /\ action' = [action EXCEPT ![p] = IF @ = "intent" THEN "none" ELSE @]
        /\ UNCHANGED worker /\ To(p, "pick")
  /\ UNCHANGED <<ledger, lock, mode, gated, left, operator, kills, history>>

(* resolve_dispatch: an outcome that cannot be confirmed leaves the action    *)
(* uncertain, and so does a stop request that made it uncertain before.      *)
ResolveDispatch(p) ==
  /\ pc[p] = "work" /\ ~worker[p]
  /\ \E s \in IF action[p] = "dispatched" THEN {"none", "uncertain"} ELSE {action[p]} : Put(p, s)
  /\ \E l \in {"stage", "pick"} : To(p, l)
  /\ UNCHANGED <<ledger, lock, worker, mode, gated, left, operator, kills, history>>

(* The evidence may not verify; a job that is not active is not completed.   *)
VerifyCompletion(p) ==
  /\ pc[p] = "verify"
  /\ \/ job = "active" /\ Turn(p, "unwait")
     \/ Turn(p, "release")

EndAllWaits(p) ==
  /\ pc[p] = "unwait" /\ EndHolds /\ To(p, "complete")
  /\ UNCHANGED <<job, fence, last, attempts, lock, action, worker, mode,
                 gated, left, operator, kills, over>>

CompleteJob(p) ==
  /\ pc[p] = "complete" /\ job' = "completed" /\ over' = TRUE /\ To(p, "release")
  /\ UNCHANGED <<hold, fence, last, attempts, lock, action, worker,
                 mode, gated, left, operator, kills, late>>

-----------------------------------------------------------------------------
(* `supervise pause`, `drain` and `cancel`, one at a time and without a lock. *)

Listed == {<<k, action[k]>> : k \in InFlight}

Pause ==
  /\ op = "none" /\ job = "active"
  /\ op' = "interrupt" /\ todo' = Listed
  /\ UNCHANGED <<ledger, lock, action, worker, engines, kills, history>>

(* An action that changed since it was listed makes the command fail.        *)
InterruptOne ==
  /\ op = "interrupt"
  /\ \E t \in todo :
       IF action[t[1]] \in {"intent", "dispatched"}
         THEN /\ Put(t[1], IF action[t[1]] = "intent" THEN "undispatched" ELSE "uncertain")
              /\ todo' = todo \ {t} /\ UNCHANGED op
         ELSE op' = "none" /\ todo' = {} /\ UNCHANGED action
  /\ UNCHANGED <<ledger, lock, worker, engines, kills, history>>

Drain ==
  /\ op = "none" /\ job = "active" /\ op' = "drain"
  /\ UNCHANGED <<ledger, lock, action, worker, engines, todo, kills, history>>

RecordStop ==
  /\ OpenHold
  /\ \/ op = "interrupt" /\ todo = {} /\ op' = "pausing"
     \/ op = "drain" /\ op' = "look"
  /\ UNCHANGED <<job, fence, last, attempts, lock, action, worker, engines,
                 todo, kills, over>>

LookInFlight ==
  /\ op = "look" /\ op' = IF InFlight = {} THEN "pausing" ELSE "none"
  /\ UNCHANGED <<ledger, lock, action, worker, engines, todo, kills, history>>

PauseJob ==
  /\ op = "pausing" /\ job' = "paused" /\ op' = "none"
  /\ UNCHANGED <<hold, fence, last, attempts, lock, action, worker,
                 engines, todo, kills, history>>

Cancel ==
  /\ op = "none" /\ job \notin Terminal
  /\ over' = TRUE
  /\ op' = "dispose" /\ todo' = Listed
  /\ UNCHANGED <<job, hold, fence, last, attempts, lock, action, worker, engines,
                 kills, late>>

(* What was listed as an intent is failed even if it is dispatched by now.   *)
DisposeOne ==
  /\ op = "dispose"
  /\ \E t \in todo :
       IF action[t[1]] \in {"intent", "dispatched"}
         THEN /\ Put(t[1], IF t[2] = "intent" THEN "none" ELSE "uncertain")
              /\ todo' = todo \ {t} /\ UNCHANGED op
         ELSE op' = "none" /\ todo' = {} /\ UNCHANGED action
  /\ UNCHANGED <<ledger, lock, worker, engines, kills, history>>

CancelWaits ==
  /\ op = "dispose" /\ todo = {}
  /\ EndHolds /\ op' = "cancelling"
  /\ UNCHANGED <<job, fence, last, attempts, lock, action, worker, engines,
                 todo, kills, over>>

CancelJob ==
  /\ op = "cancelling" /\ job' = "cancelled" /\ op' = "none"
  /\ UNCHANGED <<hold, fence, last, attempts, lock, action, worker,
                 engines, todo, kills, history>>

-----------------------------------------------------------------------------
(* The watchdog's tick.                                                     *)

Watch(l) == To(Watchdog, l) /\ UNCHANGED <<action, worker, gated, left, operator, kills, history>>

(* Progress, the deadline and human waits only withhold an attempt.          *)
Quiesced == ~Live(last.who) /\ flock = Nobody

(* A job that ran before and whose owner is gone.                           *)
DeadOwner == last # NoRow /\ Quiesced

(* An uncertain action blocks, and so do the attempts recorded so far.  It   *)
(* may also be too early.                                                   *)
Tick ==
  /\ pc[Watchdog] = "idle"
  /\ job \notin Terminal /\ Uncertain = {} /\ attempts < MaxAttempts
  /\ DeadOwner
  /\ Watch("quiesced")
  /\ UNCHANGED <<ledger, lock, mode>>

(* A probe finds out whether the flock is free by taking it for a moment.    *)
VerifyQuiescence ==
  /\ pc[Watchdog] = "quiesced"
  /\ \/ flock = Nobody /\ flock' = Watchdog /\ Watch("probe")
     \/ flock # Nobody /\ flock' = flock /\ Watch("idle")
  /\ UNCHANGED <<ledger, record, mode>>

OwnerGone ==
  /\ pc[Watchdog] = "probe" /\ flock' = Nobody
  /\ Watch(IF Live(last.who) THEN "idle" ELSE "attempt")
  /\ UNCHANGED <<ledger, record, mode>>

(* The attempt is recorded and cmd_run called, in the watchdog's own process. *)
Redrive ==
  /\ pc[Watchdog] = "attempt" /\ attempts' = attempts + 1
  /\ \E m \in DriveModes : mode' = [mode EXCEPT ![Watchdog] = m]
  /\ Watch("authorize")
  /\ UNCHANGED <<job, hold, fence, last, lock>>

-----------------------------------------------------------------------------
(* Workers and crashes.                                                     *)

(* A worker ends by itself or at its time limit.                            *)
WorkerExits(p) ==
  /\ worker[p] /\ worker' = [worker EXCEPT ![p] = FALSE]
  /\ action' = [action EXCEPT ![p] = IF @ = "completed" THEN "none" ELSE @]
  /\ UNCHANGED <<ledger, lock, engines, operator, kills, history>>

(* The kernel frees the flock of a killed engine; its file, its fence and    *)
(* its worker stay.  An intent it had begun belongs to nobody now.          *)
Kill(p) ==
  /\ p \in Drivers /\ pc[p] \notin {"idle", "dead"} /\ kills < MaxKills
  /\ kills' = kills + 1 /\ To(p, "dead")
  /\ flock' = IF flock = p THEN Nobody ELSE flock
  /\ action' = IF action[p] = "intent"
                 THEN [action EXCEPT ![p] = "none", ![Gone] = "intent"] ELSE action
  /\ todo' = {IF t = <<p, "intent">> THEN <<Gone, "intent">> ELSE t : t \in todo}
  /\ left' = [left EXCEPT ![p] = 0] /\ gated' = [gated EXCEPT ![p] = FALSE]
  /\ UNCHANGED <<ledger, record, worker, mode, op, history>>

KillCommand ==
  /\ op # "none" /\ kills < MaxKills
  /\ kills' = kills + 1 /\ op' = "none" /\ todo' = {}
  /\ UNCHANGED <<ledger, lock, action, worker, engines, history>>

(* A new process: whoever was known by the old identity is gone.            *)
Ended(p, q) == IF q = p THEN Gone ELSE q
Reap(p) ==
  /\ pc[p] = "dead" /\ ~worker[p]
  /\ To(p, "idle") /\ mode' = [mode EXCEPT ![p] = "run"]
  /\ fence' = Ended(p, fence)
  /\ last' = [last EXCEPT !.who = Ended(p, @)]
  /\ record' = Ended(p, record)
  /\ UNCHANGED <<job, hold, attempts, flock, action, worker, gated,
                 left, operator, kills, history>>

-----------------------------------------------------------------------------

EngineStep(p) ==
  \/ EndStopWaits(p) \/ Activate(p) \/ RecordFence(p) \/ Authorize(p)
  \/ AcquireLock(p) \/ Enter(p) \/ PickChange(p) \/ NoMoreChanges(p) \/ StopEarly(p)
  \/ PlainDispatch(p) \/ PlainResult(p) \/ AdmitStage(p) \/ ObserveStop(p)
  \/ HaltJob(p) \/ EvaluateGates(p) \/ BeginAction(p)
  \/ DispatchAction(p) \/ ResolveDispatch(p) \/ VerifyCompletion(p)
  \/ EndAllWaits(p) \/ CompleteJob(p) \/ ReleaseLock(p) \/ ReleaseFence(p)

OperatorStep ==
  \/ Pause \/ InterruptOne \/ Drain \/ RecordStop \/ LookInFlight \/ PauseJob
  \/ Cancel \/ DisposeOne \/ CancelWaits \/ CancelJob

WatchdogStep == Tick \/ VerifyQuiescence \/ OwnerGone \/ Redrive

Next ==
  \/ \E p \in Drivers : Start(p) \/ Resume(p) \/ Run(p) \/ Kill(p) \/ Reap(p)
  \/ \E p \in Processes : EngineStep(p) \/ WorkerExits(p)
  \/ OperatorStep \/ KillCommand \/ WatchdogStep

(* An engine that can step does, and a worker ends.                         *)
Fairness ==
  \A p \in Processes : WF_vars(EngineStep(p)) /\ WF_vars(WorkerExits(p))

Spec == Init /\ [][Next]_vars /\ Fairness
=============================================================================
