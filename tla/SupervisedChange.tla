--------------------------- MODULE SupervisedChange ---------------------------
(***************************************************************************)
(* One change of a registered, supervised job.  The direct loop of          *)
(* opsx-plan.py runs it through implement, review, acceptance, fix, verify   *)
(* and archive; every worker is an action of the job's journal, which is    *)
(* begun, charged and recorded as dispatched before the worker is spawned,   *)
(* and closed after its result is saved.  Failures go to a recovery phase.  *)
(*                                                                          *)
(* The state file and the journal are two stores: each save and each        *)
(* journal transaction is a step, and the engine can be killed between any   *)
(* two of them, leaving its worker alive.                                   *)
(*                                                                          *)
(* What makes an implement or review result good or bad is the business of   *)
(* module ChangeRecord; here a handler only decides where the change goes.  *)
(***************************************************************************)
EXTENDS Integers, FiniteSets

CONSTANTS
  MaxRounds,      \* manifest key max_rounds
  MaxAttempts,    \* policy key max_incident_attempts
  BackoffMax,     \* budgets.BACKOFF_MAX_ATTEMPTS
  InvalidRetries, \* manifest key invalid_output_retries
  Slots,          \* bound: journal actions that matter at one time
  MaxRuns,        \* bound: runs started
  MaxEdits        \* bound: operator operations

ASSUME RoundsAssumption == MaxRounds \in Nat \ {0}
ASSUME AttemptsAssumption == MaxAttempts \in Nat /\ BackoffMax \in Nat \ {0}
ASSUME RetriesAssumption == InvalidRetries \in Nat
ASSUME BoundsAssumption == Slots \in Nat \ {0} /\ MaxRuns \in Nat /\ MaxEdits \in Nat

VARIABLES
  file,      \* the change's record in the state file
  mem,       \* the engine's copy of it
  journal,   \* the job's actions
  incident,  \* the incident the record's recovery context names
  failures,  \* failed dispatches of each stage (survives a reset)
  recoveries, \* recovery attempts of each class and stage (survives a reset)
  repair,    \* the verdict recorded last on a repair of this change
  tree,      \* what the repository shows
  pc,        \* where the engine is; "idle" when no engine runs
  act,       \* the action it is dispatching, 0 for none
  via,       \* on whose behalf: the loop, or a recovery
  tries,     \* repeated attempts of that dispatch so far
  answer,    \* what the handler answered the loop
  runs,      \* runs started (bounded by MaxRuns)
  edits,     \* operator operations (bounded by MaxEdits)
  vetted     \* history: what stands for the content to be archived

ledger == <<journal, incident, failures, recoveries, repair>>
proc == <<pc, act, via, tries, answer>>
bounds == <<runs, edits>>
vars == <<file, mem, ledger, tree, proc, bounds, vetted>>

-----------------------------------------------------------------------------
(* Stages, recoveries, records.                                             *)

Stages == {"implement", "review", "acceptance", "fix", "verify", "archive"}
stage_order == [implement |-> 1, review |-> 2, acceptance |-> 3, fix |-> 4,
                verify |-> 5, archive |-> 6]

Classes == {"transient_provider", "invalid_result", "recurring_findings",
            "process_interruption", "partial_archive"}

(* r["recovery"]: the class of the failure, the stage it happened in and,    *)
(* for an interruption, the journal action to reconcile (0: none known).     *)
Contexts == [class : Classes \cup {"none"}, origin : Stages, action : 0 .. Slots]
NoContext == [class |-> "none", origin |-> "implement", action |-> 0]

Record == [status : {"pending", "running", "done", "failed"},
           phase : Stages \cup {"recovery", "done"}, round : 1 .. MaxRounds,
           ctx : Contexts, escalated : BOOLEAN]

NewRecord == [status |-> "pending", phase |-> "implement", round |-> 1,
              ctx |-> NoContext, escalated |-> FALSE]

Status(r, s) == [r EXCEPT !.status = s]
To(r, phase) == [r EXCEPT !.status = "pending", !.phase = phase]
NextRound(r, phase) == [To(r, phase) EXCEPT !.round = r.round + 1]
Failed(r) == Status(r, "failed")
Cleared(r) == [r EXCEPT !.ctx = NoContext]

(* tree: unchecked automatable tasks; a verifiable archive; the artifacts    *)
(* are those of the acceptance revision recorded last.                       *)
Tree == [open : BOOLEAN, archived : BOOLEAN, fresh : BOOLEAN]

(* The revision acceptance is about to judge is that of the artifacts now.   *)
Judged(t) == [t EXCEPT !.fresh = TRUE]

reactivate_archived_change(t) == [t EXCEPT !.archived = FALSE]

(* A journal action with its reservation, its worker process, the identity   *)
(* bound to its dispatch row, whether automatable tasks were open when it    *)
(* was begun, and the decisive evidence recorded for it.                     *)
Action == [stage : Stages,
           state : {"none", "intent", "dispatched", "uncertain", "reconciled",
                    "completed", "failed"},
           reservation : {"none", "reserved", "reconciled", "retained"},
           worker : {"none", "live", "dead"}, bound : BOOLEAN, baseline : BOOLEAN,
           evidence : {"none", "completed", "failed"}]

NoAction == [stage |-> "implement", state |-> "none", reservation |-> "none",
             worker |-> "none", bound |-> FALSE, baseline |-> FALSE, evidence |-> "none"]

Terminal(a) == a.state \in {"completed", "failed"}
Unconfirmed(a) == a.state \in {"dispatched", "uncertain"}

(* A slot that no later step can look at: its action is closed, or was never *)
(* dispatched, its worker is gone and no recovery context names it.          *)
Referenced(k) == k \in {file.ctx.action, mem.ctx.action}
Reusable(k) == ~Unconfirmed(journal[k]) /\ journal[k].worker # "live" /\ ~Referenced(k)
Kept == [k \in 1 .. Slots |-> IF Reusable(k) THEN NoAction ELSE journal[k]]

-----------------------------------------------------------------------------
(* Journal transactions.                                                    *)

Put(k, a) == journal' = [journal EXCEPT ![k] = a]

Uncertain(a) == [a EXCEPT !.state = "uncertain"]
Retained(a) == IF a.reservation = "reserved" THEN [a EXCEPT !.reservation = "retained"] ELSE a
Closed(a, how) == [a EXCEPT !.state = how]
WithEvidence(a, how) == [a EXCEPT !.evidence = IF @ = "none" THEN how ELSE @]

(* Mutant: a stale dispatched action is not made uncertain.                 *)
PendingOnly(j) == [k \in 1 .. Slots |-> IF j[k].state = "uncertain" THEN Retained(j[k]) ELSE j[k]]

(* Every dispatched action is made uncertain, and what it reserved is kept.  *)
reconcile_pending(j) ==
  [k \in 1 .. Slots |-> IF Unconfirmed(j[k]) THEN Retained(Uncertain(j[k])) ELSE j[k]]

PendingIn(j) == {k \in 1 .. Slots : j[k].state = "uncertain"}

-----------------------------------------------------------------------------
(* Where a stage's result takes the change.  An outcome names the record,    *)
(* the answer to the loop, the class of recovery the handler asks for (its   *)
(* record is then the one recovery starts from) and the repair verdict.      *)

Outcome(r, ans) == [rec |-> r, answer |-> ans, needs |-> "none", repair |-> repair]
Continue(r) == Outcome(r, "continue")
Stop(r) == Outcome(r, "stop")
Needs(r, class) == [Outcome(r, "continue") EXCEPT !.needs = class]

AnotherRound(r, phase) ==
  IF r.round >= MaxRounds THEN Stop(Failed(r)) ELSE Continue(NextRound(r, phase))

apply_implement_result(r) ==
  {Stop(Failed(r)), IF tree.open THEN AnotherRound(r, "implement") ELSE Continue(To(r, "review"))}

apply_review_result(r) ==
  {Stop(Failed(r)), Continue(To(r, "acceptance")), Needs(r, "recurring_findings"),
   AnotherRound(r, "implement")}

(* Mutant: the revision the verdict was given for is not compared.           *)
AcceptStale(r) == Continue(To([r EXCEPT !.escalated = FALSE], "archive"))

Accept(r) ==
  IF tree.fresh THEN Continue(To([r EXCEPT !.escalated = FALSE], "archive"))
                ELSE AnotherRound([r EXCEPT !.escalated = FALSE], "acceptance")

apply_acceptance_result(r) ==
  {Stop(Failed(r)), Stop([Status(r, "pending") EXCEPT !.escalated = TRUE]), Accept(r),
   AnotherRound([r EXCEPT !.escalated = FALSE], "fix")}

apply_fix_result(r) == {Stop(Failed(r)), Continue(To(r, "verify"))}

(* The verdict is recorded with the repair; a refused one fails the change.  *)
apply_verify_result(r) ==
  {[Continue(To(r, "acceptance")) EXCEPT !.repair = "consumable"],
   [Stop(Failed(r)) EXCEPT !.repair = "refused"]}

Archived(r) ==
  {Needs(r, "partial_archive")} \cup
  IF tree.archived THEN {Outcome([r EXCEPT !.status = "done", !.phase = "done"], "done")} ELSE {}

apply_archive_result(r) == {Stop(Failed(r))} \cup Archived(r)

OutcomesOf(r, stage) ==
  CASE stage = "implement" -> apply_implement_result(r)
    [] stage = "review" -> apply_review_result(r)
    [] stage = "acceptance" -> apply_acceptance_result(r)
    [] stage = "fix" -> apply_fix_result(r)
    [] stage = "verify" -> apply_verify_result(r)
    [] stage = "archive" -> apply_archive_result(r)

-----------------------------------------------------------------------------
(* Bounded recovery: begun while its signature has attempts left, escalated  *)
(* otherwise.                                                               *)

(* Mutant: the attempts are counted but not compared.                       *)
UnboundedRecovery(class, stage) == TRUE

CanRecover(class, stage) == recoveries[class, stage] < MaxAttempts

(* A counter compared with the limit only: it is not followed beyond it.     *)
Another(n) == IF n < MaxAttempts THEN n + 1 ELSE n

Begun(class, stage) ==
  /\ recoveries' = [recoveries EXCEPT ![<<class, stage>>] = Another(@)]
  /\ incident' = IF CanRecover(class, stage) THEN "recovering" ELSE incident

Rerouted(r, class, stage, k) ==
  IF CanRecover(class, stage)
  THEN [To(r, "recovery") EXCEPT !.ctx = [class |-> class, origin |-> stage, action |-> k]]
  ELSE Failed(r)

FailedDispatch(stage) == failures' = [failures EXCEPT ![stage] = Another(@)]

-----------------------------------------------------------------------------
(* Control.                                                                 *)

Save(r) == mem' = r /\ file' = r
Goto(where) == pc' = where /\ UNCHANGED <<act, via, tries, answer>>
ToLoop == pc' = "loop" /\ act' = 0 /\ via' = "stage" /\ tries' = 0 /\ answer' = "none"

(* The run is over; between runs mem is what the next one will load.         *)
Leave(r) ==
  /\ Save(r)
  /\ pc' = "idle" /\ act' = 0 /\ via' = "stage" /\ tries' = 0 /\ answer' = "none"

LoopOrLeave(r) == IF r.status = "failed" THEN Leave(r) ELSE Save(r) /\ ToLoop

(* The stage whose action is dispatched.                                    *)
Current ==
  IF via = "stage" THEN mem.phase ELSE IF via = "retry" THEN mem.ctx.origin ELSE via

Init ==
  /\ file = NewRecord /\ mem = NewRecord
  /\ journal = [k \in 1 .. Slots |-> NoAction]
  /\ incident = "none" /\ repair = "none"
  /\ failures = [s \in Stages |-> 0] /\ recoveries = [cs \in Classes \X Stages |-> 0]
  /\ tree \in [open : BOOLEAN, archived : {FALSE}, fresh : {FALSE}]
  /\ pc = "idle" /\ act = 0 /\ via = "stage" /\ tries = 0 /\ answer = "none"
  /\ runs = 0 /\ edits = 0 /\ vetted = "no"

(* Load, reconcile and save; a run drives the change when it is pending.     *)
Reconciled(r) ==
  IF tree.archived THEN [r EXCEPT !.status = "done", !.phase = "done"]
  ELSE IF r.status = "running" THEN Status(r, "pending")
  ELSE IF r.status = "done" THEN Failed(r)
  ELSE r

StartRun ==
  /\ pc = "idle" /\ runs < MaxRuns
  /\ Cardinality({k \in 1 .. Slots : Reusable(k)}) >= BackoffMax
  /\ runs' = runs + 1
  /\ LET r == Reconciled(file)
     IN  IF r.status = "pending" THEN Save(r) /\ ToLoop ELSE Leave(r)
  /\ journal' = Kept
  /\ UNCHANGED <<incident, failures, recoveries, repair, tree, edits, vetted>>

-----------------------------------------------------------------------------
(* The top of the loop.                                                     *)

AtLoop(phase) == pc = "loop" /\ mem.phase = phase

(* The deadline of the run passed, before anything else is looked at.        *)
Deadline ==
  /\ pc = "loop" /\ Leave(Status(mem, "pending"))
  /\ UNCHANGED <<ledger, tree, bounds, vetted>>

PhaseDone ==
  /\ AtLoop("done")
  /\ Leave(IF tree.archived THEN Status(mem, "done") ELSE Failed(mem))
  /\ UNCHANGED <<ledger, tree, bounds, vetted>>

(* prepare_acceptance_attempt refuses: the escalation is unresolved, or the  *)
(* created_check fails.                                                     *)
AcceptanceBlocked ==
  /\ AtLoop("acceptance")
  /\ IF mem.escalated THEN Leave(Status(mem, "pending")) ELSE Leave(Failed(mem))
  /\ UNCHANGED <<ledger, tree, bounds, vetted>>

(* The running status is saved, with the revision acceptance will judge.     *)
Launch ==
  /\ pc = "loop" /\ mem.phase \in Stages
  /\ mem.phase = "acceptance" => ~mem.escalated
  /\ Save(Status(mem, "running"))
  /\ tree' = IF mem.phase = "acceptance" THEN Judged(tree) ELSE tree
  /\ Goto("admit")
  /\ UNCHANGED <<ledger, bounds, vetted>>

-----------------------------------------------------------------------------
(* _recover_supervised_dispatch: what is pending in the journal is settled   *)
(* before anything new is dispatched.                                       *)

Swept == reconcile_pending(journal)
Pending == PendingIn(Swept)

(* Repository evidence for a pending action, as seen from stage s.           *)
Observed(a, s) ==
  CASE stage_order[a.stage] < stage_order[s] -> "complete"
    [] a.stage = s /\ s = "implement" ->
         IF ~a.baseline THEN "unknown" ELSE IF tree.open THEN "incomplete" ELSE "complete"
    [] a.stage = s /\ s = "archive" -> IF tree.archived THEN "complete" ELSE "incomplete"
    [] OTHER -> "unknown"

Later(a, s) == stage_order[a.stage] > stage_order[s]

(* How the action the engine asks about is settled.                         *)
CompletionShown(a, s) ==
  /\ ~Later(a, s)
  /\ Observed(a, s) = "complete"
  /\ a.evidence # "failed" /\ a.state # "failed"
  /\ a.state = "reconciled" => a.evidence = "completed"

(* Mutant: the process table is not consulted.                              *)
ReplayedUnfenced(a, s) == ~Later(a, s) /\ a.evidence = "none" /\ Observed(a, s) = "incomplete"

(* The work is shown incomplete and the worker is known to be gone.          *)
Replayed(a, s) ==
  /\ ~Later(a, s) /\ a.evidence = "none" /\ Observed(a, s) = "incomplete"
  /\ a.bound /\ a.worker # "live"

(* A delivered result closes the action, but the repository does not show it.*)
Mismatched(a, s) == ~Later(a, s) /\ a.evidence # "none" /\ ~CompletionShown(a, s)

Settled(a, s) == CompletionShown(a, s) \/ Replayed(a, s) \/ Mismatched(a, s)

(* A completed implement or archive of this stage also moves the record.     *)
Recovered(r, a, s) ==
  IF a.stage # s THEN r
  ELSE IF s = "implement" THEN To(r, "review")
  ELSE IF s = "archive" THEN [r EXCEPT !.status = "done", !.phase = "done"]
  ELSE r

AdmitClear ==
  /\ pc = "admit" /\ Pending = {}
  /\ journal' = Swept /\ Goto("gate")
  /\ UNCHANGED <<file, mem, incident, failures, recoveries, repair, tree, bounds, vetted>>

OnePending(k) == pc = "admit" /\ Pending = {k}

(* The recovered record is not saved before the loop saves its next state.   *)
AdmitRecovered(k) ==
  /\ OnePending(k) /\ CompletionShown(Swept[k], Current)
  /\ journal' = [Swept EXCEPT ![k] = Closed(@, "completed")]
  /\ mem' = Recovered(mem, Swept[k], Current)
  /\ ToLoop
  /\ UNCHANGED <<file, incident, failures, recoveries, repair, tree, bounds, vetted>>

AdmitReplay(k) ==
  /\ OnePending(k) /\ Replayed(Swept[k], Current)
  /\ journal' = [Swept EXCEPT ![k] = Closed(@, "failed")]
  /\ Goto("gate")
  /\ UNCHANGED <<file, mem, incident, failures, recoveries, repair, tree, bounds, vetted>>

AdmitMismatch(k) ==
  /\ OnePending(k) /\ Mismatched(Swept[k], Current)
  /\ journal' = [Swept EXCEPT ![k] = Closed(@, Swept[k].evidence)]
  /\ Leave(Failed(mem))
  /\ UNCHANGED <<incident, failures, recoveries, repair, tree, bounds, vetted>>

(* Several actions are pending, or the one that is cannot be settled: the    *)
(* change goes to recovery as interrupted, naming the action if it is        *)
(* identified.                                                              *)
Attributed ==
  LET own == {k \in Pending : Swept[k].stage = Current}
  IN  IF Cardinality(Pending) = 1 THEN CHOOSE k \in Pending : TRUE
      ELSE IF Cardinality(own) = 1 THEN CHOOSE k \in own : TRUE
      ELSE 0

AdmitUncertain ==
  /\ pc = "admit" /\ Pending # {}
  /\ \A k \in Pending : OnePending(k) => ~Settled(Swept[k], Current)
  /\ journal' = Swept
  /\ Begun("process_interruption", Current)
  /\ LoopOrLeave(Rerouted(mem, "process_interruption", Current, Attributed))
  /\ UNCHANGED <<failures, repair, tree, bounds, vetted>>

-----------------------------------------------------------------------------
(* gated_dispatch: the gates, then intent, reservation and dispatch record,  *)
(* each a transaction, then the spawn and the binding of its identity.       *)

(* A recovery that cannot go on: the incident escalates and the change       *)
(* fails, unless the engine is killed before that is saved.                  *)
Escalate(r) ==
  /\ incident' = "escalated"
  /\ Leave(Failed(r)) \/ Leave(file)

(* Authority, a stop request, the budget, the deadline or the lock refuse;   *)
(* they must when the last repair was refused or the stage failed too often. *)
GateClear == repair # "refused" /\ failures[Current] < MaxAttempts

GateRefuses ==
  /\ pc = "gate"
  /\ IF via = "stage"
     THEN Leave(Status(mem, "pending")) /\ UNCHANGED incident
     ELSE Escalate(mem)
  /\ UNCHANGED <<journal, failures, recoveries, repair, tree, bounds, vetted>>

BeginAction ==
  /\ pc = "gate" /\ GateClear
  /\ \E k \in 1 .. Slots :
       /\ Reusable(k) /\ \A j \in 1 .. k - 1 : ~Reusable(j)
       /\ journal' = [Kept EXCEPT ![k] =
                         [NoAction EXCEPT !.stage = Current, !.state = "intent",
                                          !.baseline = Current = "implement" /\ tree.open]]
       /\ act' = k
  /\ pc' = "intent"
  /\ UNCHANGED <<file, mem, incident, failures, recoveries, repair, tree, via, tries,
                 answer, bounds, vetted>>

AtAction(where) == pc = where

StepAction(where, a, next) ==
  /\ AtAction(where) /\ Put(act, a) /\ Goto(next)
  /\ UNCHANGED <<file, mem, incident, failures, recoveries, repair, tree, bounds>>

Mine == journal[act]

(* Mutant: the dispatch is recorded before anything is reserved.            *)
ReserveSkipped == StepAction("intent", Mine, "reserved") /\ UNCHANGED vetted

Reserve ==
  /\ StepAction("intent", [Mine EXCEPT !.reservation = "reserved"], "reserved")
  /\ UNCHANGED vetted

(* The reservation is refused: the intent fails and nothing is dispatched.   *)
ReserveRefused ==
  /\ pc = "intent" /\ Put(act, Closed(Mine, "failed"))
  /\ IF via = "stage"
     THEN Leave(Status(mem, "pending")) /\ UNCHANGED incident
     ELSE Escalate(mem)
  /\ UNCHANGED <<failures, recoveries, repair, tree, bounds, vetted>>

DispatchAction ==
  StepAction("reserved", [Mine EXCEPT !.state = "dispatched"], "recorded") /\ UNCHANGED vetted

(* What stands for the content: an implement or fix worker changes it.       *)
Unvetted(s) ==
  IF s = "implement" THEN "no"
  ELSE IF s # "fix" THEN vetted
  ELSE IF vetted = "no" THEN "no" ELSE "repairing"

Spawn ==
  /\ StepAction("recorded", [Mine EXCEPT !.worker = "live"], "spawned")
  /\ vetted' = Unvetted(Current)

Bind == StepAction("spawned", [Mine EXCEPT !.bound = TRUE], "wait") /\ UNCHANGED vetted

(* The command does not start, or its environment is incomplete: a decisive  *)
(* failure.  When only the binding fails the worker is terminated and the    *)
(* action stays uncertain.                                                  *)
SpawnFailed(a) == Retained(WithEvidence(Closed(a, "failed"), "failed"))
BindFailed(a) == Retained(Uncertain([a EXCEPT !.worker = "dead"]))

NotSpawned ==
  /\ \/ pc = "recorded" /\ Put(act, SpawnFailed(Mine))
     \/ pc = "spawned" /\ Put(act, BindFailed(Mine))
  /\ IF via = "stage"
     THEN FailedDispatch(Current) /\ Leave(Failed(mem)) /\ UNCHANGED incident
     ELSE Escalate(mem) /\ UNCHANGED failures
  /\ UNCHANGED <<recoveries, repair, tree, bounds, vetted>>

-----------------------------------------------------------------------------
(* The worker's outcome, for a dispatch of the loop.                         *)

Exited == pc = "wait" /\ Mine.worker = "dead"
TimedOut == pc = "wait" /\ Mine.worker = "live"

Vetted(o) ==
  IF o.rec.phase = "archive" /\ Current = "acceptance" /\ tree.fresh THEN "accepted" ELSE vetted

(* A valid result: the handler runs and the record is saved; the action is   *)
(* still open in the journal.                                               *)
ApplyResult ==
  /\ Exited /\ via = "stage"
  /\ \E o \in OutcomesOf(mem, Current) :
       /\ repair' = o.repair
       /\ vetted' = Vetted(o)
       /\ IF o.needs = "none"
          THEN Save(o.rec) /\ answer' = o.answer /\ UNCHANGED <<incident, recoveries>>
          ELSE /\ Begun(o.needs, Current)
               /\ Save(Rerouted(o.rec, o.needs, Current, 0))
               /\ answer' = IF CanRecover(o.needs, Current) THEN "continue" ELSE "stop"
  /\ pc' = "close"
  /\ UNCHANGED <<journal, failures, tree, act, via, tries, bounds>>

(* resolve_dispatch: the reservation is settled and the evidence recorded,   *)
(* then the action is closed.                                               *)
Usage(a) ==
  {IF a.reservation = "reserved" THEN [a EXCEPT !.reservation = how] ELSE a :
     how \in {"reconciled", "retained"}}

Verdict == IF answer = "stop" THEN "failed" ELSE "completed"

RecordEvidence ==
  /\ pc = "close" /\ \E a \in Usage(Mine) : Put(act, WithEvidence(a, Verdict))
  /\ Goto("proved")
  /\ UNCHANGED <<file, mem, incident, failures, recoveries, repair, tree, bounds, vetted>>

CloseAction ==
  /\ pc = "proved" /\ via = "stage" /\ Put(act, Closed(Mine, Verdict))
  /\ IF answer = "stop" THEN FailedDispatch(Mine.stage) ELSE UNCHANGED failures
  /\ IF answer = "continue" THEN ToLoop /\ UNCHANGED <<file, mem>> ELSE Leave(mem)
  /\ UNCHANGED <<incident, recoveries, repair, tree, bounds, vetted>>

(* No valid result: uncertain first, then judged failed; retried in place    *)
(* while retries are left, through the same admission.                       *)
InvalidOutput ==
  /\ Exited /\ via = "stage"
  /\ \E a \in Usage(Mine) : Put(act, Uncertain(a))
  /\ Goto("judge")
  /\ UNCHANGED <<file, mem, incident, failures, recoveries, repair, tree, bounds, vetted>>

JudgeFailed ==
  /\ pc = "judge"
  /\ Put(act, WithEvidence(Closed(Mine, "failed"), "failed"))
  /\ FailedDispatch(Current)
  /\ Begun("invalid_result", Current)
  /\ IF tries < InvalidRetries
     THEN pc' = "admit" /\ act' = 0 /\ tries' = tries + 1 /\ UNCHANGED <<file, mem, via, answer>>
     ELSE LoopOrLeave(Rerouted(mem, "invalid_result", Current, 0))
  /\ UNCHANGED <<repair, tree, bounds, vetted>>

(* The worker is terminated and its action left uncertain.                   *)
WorkerTimeout ==
  /\ TimedOut /\ via = "stage"
  /\ Put(act, Retained(Uncertain([Mine EXCEPT !.worker = "dead"])))
  /\ FailedDispatch(Current)
  /\ Goto("timedout")
  /\ UNCHANGED <<file, mem, incident, recoveries, repair, tree, bounds, vetted>>

RerouteTimeout ==
  /\ pc = "timedout"
  /\ Begun("transient_provider", Current)
  /\ LoopOrLeave(Rerouted(mem, "transient_provider", Current, 0))
  /\ UNCHANGED <<journal, failures, repair, tree, bounds, vetted>>

-----------------------------------------------------------------------------
(* drive_supervised_recovery.                                               *)

Driving(classes) ==
  /\ AtLoop("recovery") /\ mem.ctx.class \in classes
  /\ incident \notin {"escalated", "resolved"}

Route(ctx) ==
  IF ctx.class = "recurring_findings" THEN "review"
  ELSE IF ctx.class = "partial_archive" THEN "implement"
  ELSE ctx.origin

(* The incident is resolved, then the record saved; the engine may be killed *)
(* in between.                                                              *)
Resolve(r) ==
  /\ incident' = "resolved"
  /\ \/ Save(r) /\ ToLoop
     \/ Leave(file)

(* No context, or an incident that was settled before its record was saved.  *)
DriveSettled ==
  /\ AtLoop("recovery")
  /\ \/ /\ mem.ctx.class = "none"
        /\ Save([mem EXCEPT !.phase = "implement"]) /\ ToLoop
     \/ /\ mem.ctx.class # "none" /\ incident = "escalated"
        /\ Leave(Failed(mem))
     \/ /\ mem.ctx.class # "none" /\ incident = "resolved"
        /\ Save([Cleared(mem) EXCEPT !.phase = Route(mem.ctx)]) /\ ToLoop
  /\ UNCHANGED <<ledger, tree, bounds, vetted>>

Redispatch(for) == pc' = "gate" /\ via' = for /\ act' = 0 /\ tries' = 0 /\ answer' = "none"

DriveRetry ==
  /\ Driving({"transient_provider"}) /\ Redispatch("retry")
  /\ UNCHANGED <<file, mem, ledger, tree, bounds, vetted>>

DriveRepair ==
  /\ Driving({"invalid_result", "recurring_findings"}) /\ Redispatch("fix")
  /\ UNCHANGED <<file, mem, ledger, tree, bounds, vetted>>

(* The interrupted action named by the context, and no other, is settled     *)
(* from evidence; it is never replayed.                                      *)
Interrupted == Swept[mem.ctx.action]

DriveReconciled ==
  /\ Driving({"process_interruption"}) /\ mem.ctx.action # 0
  /\ CompletionShown(Interrupted, mem.ctx.origin)
  /\ journal' = [Swept EXCEPT ![mem.ctx.action] = Closed(@, "completed")]
  /\ LET r == Recovered(Cleared(mem), Interrupted, mem.ctx.origin)
     IN  Resolve(Status(IF r.phase = "recovery" THEN [r EXCEPT !.phase = mem.ctx.origin] ELSE r,
                        "pending"))
  /\ UNCHANGED <<failures, recoveries, repair, tree, bounds, vetted>>

DriveUnreconciled ==
  /\ Driving({"process_interruption"})
  /\ \/ mem.ctx.action = 0 /\ journal' = Swept
     \/ /\ mem.ctx.action # 0
        /\ ~CompletionShown(Interrupted, mem.ctx.origin)
        /\ journal' = IF Mismatched(Interrupted, mem.ctx.origin) /\ ~Terminal(Interrupted)
                      THEN [Swept EXCEPT ![mem.ctx.action] = Closed(@, @.evidence)]
                      ELSE Swept
  /\ Escalate(mem)
  /\ UNCHANGED <<failures, recoveries, repair, tree, bounds, vetted>>

(* The archived change is reactivated and starts another round.              *)
DriveFreshReview ==
  /\ Driving({"partial_archive"}) /\ mem.round < MaxRounds
  /\ tree' = reactivate_archived_change(tree)
  /\ Resolve(NextRound(Cleared(mem), "implement"))
  /\ UNCHANGED <<journal, failures, recoveries, repair, bounds, vetted>>

(* No round is left, or the archived directory cannot be moved back.         *)
DriveNoReview ==
  /\ Driving({"partial_archive"}) /\ Escalate(mem)
  /\ UNCHANGED <<journal, failures, recoveries, repair, tree, bounds, vetted>>

-----------------------------------------------------------------------------
(* _recovery_stage_dispatch: its worker's action is closed as soon as the    *)
(* worker exits, before its output is looked at.                             *)

RecoveryExited ==
  /\ Exited /\ via # "stage"
  /\ Put(act, WithEvidence(Retained(Mine), "completed"))
  /\ Goto("proved")
  /\ UNCHANGED <<file, mem, incident, failures, recoveries, repair, tree, bounds, vetted>>

RecoveryClosed ==
  /\ pc = "proved" /\ via # "stage" /\ Put(act, Closed(Mine, "completed"))
  /\ Goto("answered")
  /\ UNCHANGED <<file, mem, incident, failures, recoveries, repair, tree, bounds, vetted>>

(* A retry that times out again is repeated under the backoff bound.         *)
RecoveryTimeout ==
  /\ TimedOut /\ via # "stage"
  /\ Put(act, Retained(Uncertain([Mine EXCEPT !.worker = "dead"])))
  /\ IF via = "retry" /\ tries + 1 < BackoffMax
     THEN /\ recoveries' = [recoveries EXCEPT ![<<"transient_provider", Current>>] = Another(@)]
          /\ pc' = "gate" /\ act' = 0 /\ tries' = tries + 1
          /\ UNCHANGED <<file, mem, incident, via, answer>>
     ELSE Escalate(mem) /\ UNCHANGED recoveries
  /\ UNCHANGED <<failures, repair, tree, bounds, vetted>>

RecoveryInvalid ==
  /\ pc = "answered" /\ Escalate(mem)
  /\ UNCHANGED <<journal, failures, recoveries, repair, tree, bounds, vetted>>

RetryCleared ==
  /\ pc = "answered" /\ via = "retry" /\ incident' = "resolved"
  /\ Goto("resolved")
  /\ UNCHANGED <<file, mem, journal, failures, recoveries, repair, tree, bounds, vetted>>

RetryApplies ==
  /\ pc = "resolved" /\ via = "retry"
  /\ \E o \in OutcomesOf(Status(Cleared(mem), "pending"), Current) :
       /\ repair' = o.repair
       /\ vetted' = Vetted(o)
       /\ IF o.needs = "none"
          THEN /\ IF o.answer = "continue" THEN Save(o.rec) /\ ToLoop ELSE Leave(o.rec)
               /\ UNCHANGED <<incident, recoveries>>
          ELSE Begun(o.needs, Current) /\ LoopOrLeave(Rerouted(o.rec, o.needs, Current, 0))
  /\ UNCHANGED <<journal, failures, tree, bounds>>

FixAnswered ==
  /\ pc = "answered" /\ via = "fix" /\ Redispatch("verify")
  /\ UNCHANGED <<file, mem, ledger, tree, bounds, vetted>>

(* The verdict is recorded with the repair.  A verified repair is consumed   *)
(* when the standing grant covers it.                                        *)
RepairConsumed ==
  /\ pc = "answered" /\ via = "verify"
  /\ repair' = "consumable"
  /\ vetted' = IF vetted = "repairing" THEN "verified" ELSE vetted
  /\ Goto("consumed")
  /\ UNCHANGED <<file, mem, journal, incident, failures, recoveries, tree, bounds>>

RepairRefused ==
  /\ pc = "answered" /\ via = "verify"
  /\ repair' \in {"consumable", "refused"} /\ Escalate(mem)
  /\ UNCHANGED <<journal, failures, recoveries, tree, bounds, vetted>>

RepairResolved ==
  /\ pc = "consumed"
  /\ Resolve(To(Cleared(mem), Route(mem.ctx)))
  /\ UNCHANGED <<journal, failures, recoveries, repair, tree, bounds, vetted>>

-----------------------------------------------------------------------------
(* Kills, workers, the operator.                                            *)

(* SIGKILL: the worker, in a session of its own, goes on.                    *)
Kill ==
  /\ pc # "idle" /\ Leave(file)
  /\ UNCHANGED <<ledger, tree, bounds, vetted>>

(* Killed between reconcile_action and the transition that closes the action. *)
KilledInReplay(k) ==
  /\ Swept[k].state = "uncertain"
  /\ \/ OnePending(k) /\ Settled(Swept[k], Current)
     \/ /\ Driving({"process_interruption"}) /\ mem.ctx.action = k
        /\ Settled(Swept[k], mem.ctx.origin) /\ ~Replayed(Swept[k], mem.ctx.origin)
  /\ journal' = [Swept EXCEPT ![k] = Closed(@, "reconciled")]
  /\ Leave(file)
  /\ UNCHANGED <<incident, failures, recoveries, repair, tree, bounds, vetted>>

(* SIGINT while waiting: the worker is terminated, its action uncertain; the *)
(* reservation is kept by the next sweep.                                    *)
Interrupt ==
  /\ pc = "wait" /\ Put(act, Uncertain([Mine EXCEPT !.worker = "dead"]))
  /\ Leave(file)
  /\ UNCHANGED <<incident, failures, recoveries, repair, tree, bounds, vetted>>

WorkerEnds(k) ==
  /\ journal[k].worker = "live" /\ Put(k, [journal[k] EXCEPT !.worker = "dead"])
  /\ UNCHANGED <<file, mem, incident, failures, recoveries, repair, tree, proc, bounds, vetted>>

(* What a worker does to the repository, whoever is waiting for it.          *)
WorkerWrites(k) ==
  /\ journal[k].worker = "live"
  /\ CASE journal[k].stage = "implement" ->
            \E o \in BOOLEAN : tree' = [tree EXCEPT !.open = o, !.fresh = FALSE]
       [] journal[k].stage = "fix" -> tree' = [tree EXCEPT !.fresh = FALSE]
       [] journal[k].stage = "archive" -> tree' = [tree EXCEPT !.archived = TRUE]
       [] OTHER -> UNCHANGED tree
  /\ UNCHANGED <<file, mem, ledger, proc, bounds, vetted>>

(* record_evidence of the worker endpoint: decisive evidence closes an       *)
(* action that is already uncertain.                                         *)
WorkerReports(k) ==
  /\ journal[k].worker = "live" /\ Unconfirmed(journal[k]) /\ journal[k].evidence = "none"
  /\ \E how \in {"completed", "failed"} :
       Put(k, LET a == WithEvidence(journal[k], how)
              IN  IF a.state = "uncertain" THEN Closed(a, how) ELSE a)
  /\ UNCHANGED <<file, mem, incident, failures, recoveries, repair, tree, proc, bounds, vetted>>

Edit == edits < MaxEdits /\ edits' = edits + 1

(* The mediated reset: refused while a repair is not independently verified. *)
Reset ==
  /\ pc = "idle" /\ Edit /\ repair # "refused"
  /\ Save(NewRecord) /\ vetted' = "no"
  /\ UNCHANGED <<ledger, tree, proc, runs>>

ResolveEscalation ==
  /\ pc = "idle" /\ Edit /\ file.escalated
  /\ Save(To([file EXCEPT !.escalated = FALSE], "acceptance"))
  /\ UNCHANGED <<ledger, tree, proc, runs, vetted>>

EditArtifacts ==
  /\ Edit /\ tree.fresh /\ tree' = [tree EXCEPT !.fresh = FALSE]
  /\ UNCHANGED <<file, mem, ledger, proc, runs, vetted>>

-----------------------------------------------------------------------------
(* The specification.                                                       *)

Admit ==
  \/ AdmitClear \/ AdmitUncertain
  \/ \E k \in 1 .. Slots : AdmitRecovered(k) \/ AdmitReplay(k) \/ AdmitMismatch(k)

Boundary ==
  GateRefuses \/ BeginAction \/ Reserve \/ ReserveRefused \/ DispatchAction \/ Spawn \/ Bind
    \/ NotSpawned

StageOutcome ==
  ApplyResult \/ RecordEvidence \/ CloseAction \/ InvalidOutput \/ JudgeFailed
    \/ WorkerTimeout \/ RerouteTimeout

Drive ==
  DriveSettled \/ DriveRetry \/ DriveRepair \/ DriveReconciled \/ DriveUnreconciled
    \/ DriveFreshReview \/ DriveNoReview

RecoveryOutcome ==
  RecoveryExited \/ RecoveryClosed \/ RecoveryTimeout \/ RecoveryInvalid \/ RetryCleared
    \/ RetryApplies \/ FixAnswered \/ RepairConsumed \/ RepairRefused \/ RepairResolved

(* The engine's own steps: a worker ends, at the latest by its timeout.      *)
Engine ==
  Deadline \/ PhaseDone \/ AcceptanceBlocked \/ Launch \/ Admit \/ Boundary \/ StageOutcome
    \/ Drive \/ RecoveryOutcome

Environment ==
  \/ Kill \/ Interrupt
  \/ \E k \in 1 .. Slots : KilledInReplay(k) \/ WorkerEnds(k) \/ WorkerWrites(k) \/ WorkerReports(k)
  \/ Reset \/ ResolveEscalation \/ EditArtifacts

Next == StartRun \/ Engine \/ Environment

Spec == Init /\ [][Next]_vars

FairSpec == Spec /\ WF_vars(Engine)

=============================================================================
