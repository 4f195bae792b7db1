------------------------------ MODULE JobLimits ------------------------------
(***************************************************************************)
(* What a supervised job may spend: the protected policy with its budgets,  *)
(* deadline and standing grant, the reservations that charge each dispatch   *)
(* before it runs, and the recovery effects the grant lets a repair have.    *)
(*                                                                          *)
(* Two processes reserve against one ledger: the run engine for its workers  *)
(* and the supervision service for the primary session's prompts.  Each      *)
(* reads the consumption, decides, and inserts its reservation in a later    *)
(* transaction, under the policy it read when it started; the operator may   *)
(* revise the policy, and either process may be killed, in between.          *)
(*                                                                          *)
(* Money and reserved minutes are limited by the same two comparisons; one   *)
(* amount stands for both.                                                  *)
(***************************************************************************)
EXTENDS Integers, Functions

CONSTANTS
  None,         \* a null limit
  Estimates,    \* what the pricing catalog estimates for a dispatch
  Costs,        \* what a dispatch may turn out to cost
  Totals, PerActions, Attempts, Deadlines, Bounds, \* values an operator gives each limit
  BackoffMax,   \* budgets.BACKOFF_MAX_ATTEMPTS
  MaxUsed,      \* bound: effects consumed before
  MaxActions,   \* bound: journal actions
  MaxRevisions, \* bound: policy revisions
  MaxCrashes,   \* bound: kills of the engine or the service
  MaxElapsed    \* bound: minutes counted

ASSUME AmountsAssumption == Estimates \subseteq Nat /\ Costs \subseteq Nat
ASSUME BoundsAssumption ==
  /\ BackoffMax \in Nat \ {0} /\ MaxActions \in Nat /\ MaxUsed \in Nat
  /\ MaxRevisions \in Nat /\ MaxCrashes \in Nat /\ MaxElapsed \in Nat

VARIABLES
  policy,     \* ledger: the current policy row
  actions,    \* ledger: the job's actions, each with its reservation
  count,      \* number of actions begun
  elapsed,    \* minutes of the dispatch intervals so far
  failures,   \* ledger: failed dispatches of the stage
  recoveries, \* ledger: recovery attempts of the failure
  used,       \* ledger: resume effects recorded against the grant
  incident,   \* ledger: state of the failure's last incident
  proc,       \* where each reserver is and what it holds in memory
  task,       \* what the engine dispatches
  verdict,    \* the verifier's verdict it has in hand
  driven,     \* state file: the change is in recovery for the incident
  crashes,
  ceiling,    \* history: the highest total limit ever in force
  granted,    \* history: the highest bound ever granted to the resume effect
  resumed     \* history: changes resumed on a repair

ledger == <<policy, actions, count, elapsed, failures, recoveries, used, incident>>
history == <<ceiling, granted, resumed>>
vars == <<ledger, proc, task, verdict, driven, crashes, history>>

Reservers == {"engine", "service"}
Ids == 1 .. MaxActions

-----------------------------------------------------------------------------
(* The policy.                                                              *)

(* A payload without a version is kept as it is and limits nothing.          *)
Budgets == [versioned : {TRUE}, total : Totals, per_action : PerActions, attempts : Attempts]
LegacyBudgets == [versioned |-> FALSE, total |-> None, per_action |-> None, attempts |-> None]

(* The bound on the resume effect; none when the grant is absent, without a  *)
(* version or does not cover that effect.                                   *)
Grants == {{}} \cup {{max} : max \in Bounds}

Policies == [revision : 0 .. MaxRevisions, budgets : Budgets \cup {LegacyBudgets},
             deadline : Deadlines, grant : Grants]

Null(limit) == limit = None
IsLimit(limit) == Null(limit) \/ limit \in Nat

(* At least one limit, and none that is negative.                           *)
validate_budgets(b) ==
  /\ b.versioned
  /\ \A limit \in {b.total, b.per_action, b.attempts} : IsLimit(limit)
  /\ \E limit \in {b.total, b.per_action, b.attempts} : ~Null(limit)

validate_deadlines(limit) == IsLimit(limit)
validate_standing_grants(grant) == \A max \in grant : IsLimit(max)

policy_block_reason(p) == ~validate_budgets(p.budgets) \/ ~validate_deadlines(p.deadline)

(* The larger of two limits, of which None is no limit.                     *)
Larger(a, b) == IF Null(a) \/ Null(b) THEN None ELSE IF a >= b THEN a ELSE b
GrantedBy(p) == IF p.grant = {} THEN 0 ELSE CHOOSE max \in p.grant : TRUE

-----------------------------------------------------------------------------
(* Reservations.                                                            *)

Action == [state : {"none", "intent", "dispatched", "uncertain", "closed"},
           by : Reservers, entry : {"none", "reserved", "reconciled", "retained"},
           estimate : Estimates \cup {0}, observed : Costs \cup {0}]
NoAction == [state |-> "none", by |-> "engine", entry |-> "none", estimate |-> 0,
             observed |-> 0]

(* What is not known to have cost less stays charged at its estimate.       *)
reservation_charge(a) ==
  CASE a.entry = "reconciled" -> a.observed
    [] a.entry \in {"reserved", "retained"} -> a.estimate
    [] OTHER -> 0

Sum(f) == FoldFunction(+, 0, f)
consumption_for_job == Sum([k \in Ids |-> reservation_charge(actions[k])])

check_per_action(b, estimate) == Null(b.per_action) \/ estimate <= b.per_action

(* Mutant: what was spent is compared, not what will have been.             *)
CheckSpent(b, estimate) == Null(b.total) \/ consumption_for_job <= b.total

check_total(b, estimate) == Null(b.total) \/ consumption_for_job + estimate <= b.total

(* Mutant: the state of the reservation is not looked at.                   *)
RewriteObserved(a, cost) == [a EXCEPT !.entry = "reconciled", !.observed = cost]

(* Observed usage replaces the estimate once; of a retained reservation it   *)
(* changes nothing.                                                         *)
reconcile_reservation(a, cost) ==
  IF a.entry = "reserved" THEN [a EXCEPT !.entry = "reconciled", !.observed = cost] ELSE a

retain_reservation(a) == IF a.entry = "reserved" THEN [a EXCEPT !.entry = "retained"] ELSE a

(* A dispatch's interval is open until its reservation is settled or, having *)
(* none that is, its action is closed.                                      *)
Open(a) == /\ a.state \in {"dispatched", "uncertain"}
           /\ a.entry \notin {"reconciled", "retained"}
dispatch_intervals == Sum([k \in Ids |-> IF Open(actions[k]) THEN 1 ELSE 0])

check_execution_deadline(p) == Null(p.deadline) \/ elapsed < p.deadline

(* Of every action left dispatched the outcome is unknown: it becomes        *)
(* uncertain and stays charged.                                             *)
reconcile_pending ==
  [k \in Ids |-> IF actions[k].state \in {"dispatched", "uncertain"}
                 THEN retain_reservation([actions[k] EXCEPT !.state = "uncertain"])
                 ELSE actions[k]]
Pending == {k \in Ids : actions[k].state \in {"dispatched", "uncertain"}}

-----------------------------------------------------------------------------
(* What a repair needs to be resumed on.                                    *)

Verdicts == [passed : BOOLEAN, session : {"other", "fixer", "unknown"}, confirmed : BOOLEAN]
NoVerdict == [passed |-> FALSE, session |-> "unknown", confirmed |-> FALSE]

check_verifier_independence(v) == v.session = "other"
repair_consumable(v) == check_verifier_independence(v) /\ v.passed /\ v.confirmed

(* Mutant: the bound is passed before it stops anything.                    *)
GrantBeyond(p, consumed) == \E max \in p.grant : Null(max) \/ consumed <= max

evaluate_standing_grant(p, consumed) ==
  \E max \in p.grant : Null(max) \/ consumed < max

-----------------------------------------------------------------------------
(* A process that is not running holds nothing; one between two dispatches   *)
(* holds the policy it read.                                                *)
Stopped == [at |-> "off", act |-> 0, tries |-> 0,
            policy |-> [revision |-> 0, budgets |-> LegacyBudgets, deadline |-> None, grant |-> {}]]
Stop(r) == proc' = [proc EXCEPT ![r] = Stopped]
Back(r) == proc' = [proc EXCEPT ![r] = [Stopped EXCEPT !.at = "open", !.policy = proc[r].policy]]

Init ==
  /\ policy \in {p \in Policies : /\ p.revision = 0 /\ validate_standing_grants(p.grant)
                                  /\ p.budgets.versioned => ~policy_block_reason(p)}
  /\ actions = [k \in Ids |-> NoAction] /\ count = 0
  /\ elapsed = 0 /\ failures = 0 /\ recoveries = 0 /\ incident = "none"
  /\ proc = [r \in Reservers |-> Stopped]
  /\ task = "stage" /\ verdict = NoVerdict /\ driven = FALSE /\ crashes = 0
  (* Earlier repairs of the job may have used some of the grant.            *)
  /\ used \in {n \in 0 .. MaxUsed : evaluate_standing_grant(policy, n - 1) \/ n = 0}
  /\ ceiling = policy.budgets.total /\ granted = GrantedBy(policy) /\ resumed = 0

At(r, place) == proc[r].at = place
Go(r, place) == proc' = [proc EXCEPT ![r].at = place]
Own(r) == actions[proc[r].act]
Put(r, a) == actions' = [actions EXCEPT ![proc[r].act] = a]

Counts == <<elapsed, failures, recoveries, used>>
Work == <<task, verdict, driven>>

(* The engine reads the policy when it opens the gate of its run.           *)
open_gate ==
  /\ At("engine", "off")
  /\ proc' = [proc EXCEPT !["engine"] = [Stopped EXCEPT !.at = "open", !.policy = policy]]
  /\ UNCHANGED <<ledger, Work, crashes, history>>

-----------------------------------------------------------------------------
(* The engine's way to a dispatch.                                          *)

(* An incident that has ended refuses every transition.                     *)
transition_incident(to) == incident' = IF incident = "recovering" THEN to ELSE incident

(* An incident that ends takes the change out of recovery; escalated, it     *)
(* fails the change.                                                        *)
Escalate == /\ transition_incident("escalated")
            /\ driven' = FALSE /\ task' = "stage" /\ verdict' = NoVerdict

(* A dispatch that was refused ends a repair.                               *)
Blocked == IF task = "stage" THEN UNCHANGED <<incident, Work>> ELSE Escalate

(* The material of the gate is what the job's policy still is.               *)
assert_material_freshness(p) == p.revision = policy.revision

Admitted(p) ==
  /\ assert_material_freshness(p) /\ ~policy_block_reason(p)
  /\ check_execution_deadline(p)
  /\ task = "stage" => Null(p.budgets.attempts) \/ failures < p.budgets.attempts

gated_dispatch ==
  IF Admitted(proc["engine"].policy)
  THEN Go("engine", "admitted") /\ UNCHANGED <<incident, Work>>
  ELSE Back("engine") /\ Blocked

(* Before a stage is dispatched nothing may be pending.  The one action that  *)
(* is, if it is a worker's, is closed on evidence: that it was completed, or   *)
(* that it may be superseded by this dispatch.                              *)
EngineRecover ==
  /\ At("engine", "open") /\ task = "stage" /\ ~driven
  /\ \/ Pending = {} /\ gated_dispatch /\ UNCHANGED actions
     \/ \E k \in Pending :
          /\ Pending = {k} /\ actions[k].by = "engine"
          /\ actions' = [reconcile_pending EXCEPT ![k].state = "closed"]
          /\ gated_dispatch \/ UNCHANGED <<proc, incident, Work>>
     \/ Pending # {} /\ actions' = reconcile_pending /\ UNCHANGED <<proc, incident, Work>>
  /\ UNCHANGED <<policy, count, Counts, crashes, history>>

(* Fixers and verifiers are dispatched whatever is pending.                 *)
RecoveryDispatch ==
  /\ At("engine", "open") /\ task # "stage" /\ gated_dispatch
  /\ UNCHANGED <<policy, actions, count, Counts, crashes, history>>

(* An earlier prompt that is not closed, an intent included, refuses another.*)
in_flight_prompt == \E k \in Ids : actions[k].by = "service" /\ actions[k].state \notin {"none", "closed"}

Begin(r, p) ==
  /\ count < MaxActions /\ count' = count + 1
  /\ \E estimate \in Estimates :
       actions' = [actions EXCEPT ![count + 1] =
                     [NoAction EXCEPT !.state = "intent", !.by = r, !.estimate = estimate]]
  /\ proc' = [proc EXCEPT ![r] = [at |-> "begun", act |-> count + 1, tries |-> 0, policy |-> p]]
  /\ UNCHANGED <<policy, Counts, incident, Work, crashes, history>>

begin_action == At("engine", "admitted") /\ Begin("engine", proc["engine"].policy)

(* The service reads the policy when it opens the primary session, and       *)
(* prompts it once.                                                         *)
prompt == At("service", "off") /\ ~in_flight_prompt /\ Begin("service", policy)

-----------------------------------------------------------------------------
(* The reservation and the dispatch, of either process.                     *)

(* The engine fails the intent it will not dispatch and goes on; the service *)
(* gives up its start and leaves the intent behind.                         *)
Refused(r) ==
  IF r = "engine"
  THEN Back(r) /\ Put(r, [Own(r) EXCEPT !.state = "closed"]) /\ Blocked
  ELSE Stop(r) /\ UNCHANGED <<actions, incident, Work>>

Within(b, estimate) == check_per_action(b, estimate) /\ check_total(b, estimate)

reserve(r) ==
  /\ At(r, "begun")
  /\ IF ~policy_block_reason(proc[r].policy) /\ Within(proc[r].policy.budgets, Own(r).estimate)
     THEN Go(r, "checked") /\ UNCHANGED <<actions, incident, Work>>
     ELSE Refused(r)
  /\ UNCHANGED <<policy, count, Counts, crashes, history>>

insert_reservation(r) ==
  /\ At(r, "checked")
  /\ Put(r, [Own(r) EXCEPT !.entry = "reserved"]) /\ Go(r, "reserved")
  /\ UNCHANGED <<policy, count, Counts, incident, Work, crashes, history>>

(* The ledger is busy.  The engine tries again, reading the consumption      *)
(* again, a bounded number of times.                                        *)
InsertFails(r) ==
  /\ At(r, "checked")
  /\ IF r = "engine" /\ proc[r].tries + 1 < BackoffMax
     THEN /\ proc' = [proc EXCEPT ![r].at = "begun", ![r].tries = @ + 1]
          /\ UNCHANGED <<actions, incident, Work>>
     ELSE Refused(r)
  /\ UNCHANGED <<policy, count, Counts, crashes, history>>

dispatch_action(r) ==
  /\ At(r, "reserved")
  /\ Put(r, [Own(r) EXCEPT !.state = "dispatched"]) /\ Go(r, "running")
  /\ UNCHANGED <<policy, count, Counts, incident, Work, crashes, history>>

(* The usage that was observed is billed; unknown or interrupted, the        *)
(* estimate stays.  A repair's usage is never looked at.                    *)
Settle(r) ==
  /\ At(r, "running")
  /\ \/ /\ r = "engine" => task = "stage"
        /\ \E cost \in Costs : Put(r, reconcile_reservation(Own(r), cost))
     \/ Put(r, retain_reservation(Own(r)))
  /\ Go(r, "settled")
  /\ UNCHANGED <<policy, count, Counts, incident, Work, crashes, history>>

(* A prompt is closed as the server reported it, or stays uncertain.        *)
PromptEnds ==
  /\ At("service", "settled")
  /\ \E state \in {"closed", "uncertain"} : Put("service", [Own("service") EXCEPT !.state = state])
  /\ Stop("service")
  /\ UNCHANGED <<policy, count, Counts, incident, Work, crashes, history>>

-----------------------------------------------------------------------------
(* The engine's worker ends.                                                *)

Close(state) == Put("engine", [Own("engine") EXCEPT !.state = state])

StageEnds ==
  /\ At("engine", "settled") /\ task = "stage"
  /\ \/ Close("closed") /\ Back("engine") /\ UNCHANGED failures
     \/ Close("uncertain") /\ Back("engine") /\ UNCHANGED failures
     \/ Close("closed") /\ Go("engine", "failed") /\ failures' = failures + 1
  /\ UNCHANGED <<policy, count, elapsed, recoveries, used, incident, Work, crashes, history>>

(* The failure opens an incident, or finds the one that is not over.  A      *)
(* class without a repair, and a remedy its class does not permit, go to the  *)
(* operator; so does a failure that has recurred too often.                 *)
begin_recovery ==
  /\ At("engine", "failed") /\ Back("engine")
  /\ \/ incident' = "escalated" /\ UNCHANGED <<recoveries, driven>>
     \/ IF Null(proc["engine"].policy.budgets.attempts)
             \/ recoveries < proc["engine"].policy.budgets.attempts
        THEN recoveries' = recoveries + 1 /\ incident' = "recovering" /\ driven' = TRUE
        ELSE incident' = "escalated" /\ UNCHANGED <<recoveries, driven>>
  /\ UNCHANGED <<policy, actions, count, elapsed, failures, used, task, verdict, crashes, history>>

-----------------------------------------------------------------------------
(* The repair of a change in recovery.                                      *)

drive_supervised_recovery ==
  /\ At("engine", "open") /\ driven /\ task = "stage"
  /\ IF incident = "recovering"
     THEN task' = "fixer" /\ UNCHANGED driven
     ELSE driven' = FALSE /\ UNCHANGED task
  /\ UNCHANGED <<ledger, proc, verdict, crashes, history>>

(* The fixer's report is a claim; the verifier's verdict decides.           *)
RepairEnds ==
  /\ At("engine", "settled") /\ task # "stage"
  /\ \/ /\ Close("closed") /\ UNCHANGED <<incident, driven>>
        /\ \/ task = "fixer" /\ task' = "verifier" /\ Back("engine") /\ UNCHANGED verdict
           \/ task = "verifier" /\ verdict' \in Verdicts /\ Go("engine", "verified") /\ UNCHANGED task
     \/ /\ Close("closed") \/ Close("uncertain")
        /\ Back("engine") /\ Escalate
  /\ UNCHANGED <<policy, count, Counts, crashes, history>>

consume_recovery_effect ==
  /\ At("engine", "verified")
  /\ IF repair_consumable(verdict) /\ evaluate_standing_grant(proc["engine"].policy, used)
     THEN Go("engine", "authorized") /\ UNCHANGED <<incident, Work>>
     ELSE Back("engine") /\ Escalate
  /\ UNCHANGED <<policy, actions, count, Counts, crashes, history>>

record_grant_effect_consumption ==
  /\ At("engine", "authorized") /\ Go("engine", "consumed")
  /\ used' = used + 1
  /\ UNCHANGED <<policy, actions, count, elapsed, failures, recoveries, incident, Work, crashes, history>>

(* Only then is the incident resolved and the change resumed.               *)
resolve_incident ==
  /\ At("engine", "consumed") /\ Back("engine")
  /\ transition_incident("resolved") /\ driven' = FALSE /\ task' = "stage" /\ verdict' = NoVerdict
  /\ resumed' = resumed + 1
  /\ UNCHANGED <<policy, actions, count, Counts, crashes, ceiling, granted>>

-----------------------------------------------------------------------------
(* The operator, the clock, and kills.                                      *)

(* The next revision, whatever it limits, of a payload that is valid; what   *)
(* was charged or consumed before is not touched.  One that repeats the       *)
(* policy differs from another in its number only, and is left out.         *)
Revise(p) ==
  /\ policy.revision < MaxRevisions /\ p # policy
  /\ policy' = [p EXCEPT !.revision = policy.revision + 1]
  /\ ceiling' = Larger(ceiling, p.budgets.total) /\ granted' = Larger(granted, GrantedBy(p))
  /\ UNCHANGED <<actions, count, Counts, incident, proc, Work, crashes, resumed>>

operator_budget_increase ==
  \E b \in Budgets, limit \in Deadlines :
    /\ validate_budgets(b) /\ validate_deadlines(limit)
    /\ Revise([policy EXCEPT !.budgets = b, !.deadline = limit])

(* A revision without a grant takes it away.  It writes the whole policy, so  *)
(* it cannot be made while the rest is not valid.                           *)
operator_standing_grant_revision ==
  /\ ~policy_block_reason(policy)
  /\ \E grant \in Grants : /\ validate_standing_grants(grant)
                           /\ Revise([policy EXCEPT !.grant = grant])

(* The change is reset in the state file; the ledger keeps its counts.       *)
reset_change ==
  /\ driven /\ At("engine", "off")
  /\ driven' = FALSE
  /\ UNCHANGED <<ledger, proc, task, verdict, crashes, history>>

execution_elapsed_minutes ==
  /\ elapsed < MaxElapsed /\ dispatch_intervals > 0
  /\ elapsed' = IF elapsed + dispatch_intervals < MaxElapsed THEN elapsed + dispatch_intervals
                                                            ELSE MaxElapsed
  /\ UNCHANGED <<policy, actions, count, failures, recoveries, used, incident, proc, Work, crashes, history>>

Crash(r) ==
  /\ crashes < MaxCrashes /\ crashes' = crashes + 1
  /\ ~At(r, "off") /\ Stop(r)
  /\ IF r = "engine" THEN task' = "stage" /\ verdict' = NoVerdict ELSE UNCHANGED <<task, verdict>>
  /\ UNCHANGED <<ledger, driven, history>>

Reserver(r) == \/ reserve(r) \/ insert_reservation(r) \/ InsertFails(r)
               \/ dispatch_action(r) \/ Settle(r) \/ Crash(r)

Engine == \/ open_gate \/ EngineRecover \/ RecoveryDispatch \/ begin_action
          \/ StageEnds \/ begin_recovery \/ drive_supervised_recovery \/ RepairEnds
          \/ consume_recovery_effect \/ record_grant_effect_consumption \/ resolve_incident

Operator == operator_budget_increase \/ operator_standing_grant_revision \/ reset_change

Next == (\E r \in Reservers : Reserver(r)) \/ Engine \/ prompt \/ PromptEnds \/ Operator
          \/ execution_elapsed_minutes

Spec == Init /\ [][Next]_vars
==============================================================================
