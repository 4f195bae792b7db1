# A specification of `opsx-plan`

`opsx-plan` drives an OpenSpec change plan to completion: for every change of a
plan manifest it runs an author worker if the change has not been written yet,
then a loop of implement, review and archive workers, each a fresh process of an
external agent, and keeps what it knows in `.opsx-plan/<plan>.state.json`. A
registered, supervised job adds an append-only action ledger, fenced resumption,
bounded recovery, budgets, an acceptance stage and a repair stage around the
same loop; delivery, an autopilot, a detached job runner, a broker and a watchdog
surround it.

This directory holds TLA+ modules for that program, the TLC runs that check them
on small instances, and theorems checked by TLAPS.

    tlc -config plan_order.cfg MCPlanRun                  # PlanRun: also change_loop, lost_approval
    tlc -config supervised_crash.cfg SupervisedProperties # also supervised_recovery
    tlc -config job_control.cfg JobProperties             # also job_watchdog
    tlc -config broker.cfg MCBroker
    tlc -config primary_session.cfg SessionProperties
    tlc -config autopilot.cfg AutopilotProperties
    tlc -config authority.cfg MCAuthority
    tlc -config job_limits.cfg LimitProperties
    tlapm PlanRun_proofs.tla                              # and every other *_proofs.tla

## 1. Inventory

Paths are below `src/`. "Hard" says why a test seldom reaches the interesting
behaviour; "correct" is what has to hold.

| Component | Code | State | Operations | Hard | Correct |
|---|---|---|---|---|---|
| Plan engine | `orchestrator/opsx-plan.py` 5110-5920 | state document in memory; visited set | load, reconcile, classify, gates, create stage, direct loop, budgets, save | killed between any two steps; re-entered after retries, policy changes and resets; the disk moves between runs | dependency order, no worker over foreign edits, gates hold, every run ends |
| Result handlers | `opsx-plan.py` 1569-1945 | one change record | apply implement / review / archive result | rounds, prompt, streak and recurrence are derived from one another | one implement per round, latest prompt, ceilings, archive only what was reviewed |
| State document | `lib/orchestrator/state.py` | `.state.json` | load, save (temp + rename), reset | the run and the gate commands both write all of it | a decision once recorded is not lost |
| Manifest, scheduler | `opsx-plan.py` 5110-5170 (and its manifest validation) | none | validate, order, blocked/ready | done status that rests on reverted evidence | only over verified dependencies |
| Archive verification | `opsx-plan.py` 1000-1290, `lib/orchestrator/groundtruth.py` | none | evidence checks, fast checks | the worker was killed inside its own commit sequence | done only with the evidence |
| Gate commands | `lib/orchestrator/cmd_gates.py` | state document | approve, accept, reset, status | no lock against a run | decisions survive; reset means redo |
| Supervised stages | `opsx-plan.py` 1945-2553, 2866-3960, 4238-4860 | record plus recovery context and acceptance projection | acceptance, fix, verify, recovery driver, supervised dispatch | the process dies between a save and the ledger transaction that closes the action | no repeat of an action that may still run; archive only accepted content; recovery is bounded |
| Action ledger | `lib/supervisor/ledger.py`, `journal_dispatch.py` | SQLite journal: actions, reservations, incidents, attempts, evidence | begin, dispatch, uncertain, reconcile, complete, fail; reserve, reconcile, retain | every transition is its own transaction | terminal states are final, every live worker is charged |
| Execution lock | `lib/supervisor/lock.py` | flock, owner record | acquire, release, take over | owner dies, PID reuse, orphan workers | one controller per execution |
| Dispatch, processes | `opsx-plan.py` 1400-1568, `lib/supervisor/worker_exec.py` | child process, process group | spawn, wait, timeout, terminate, validate | a worker outlives the engine | a result is applied at most once |
| Budgets | `lib/supervisor/budgets.py`, `recovery.py` | policy, reservations, grants | charge, refuse, settle, consume | two reservers read before they insert; usage that never comes | spending stays within the limit but for one estimate and overruns |
| Execution authority | `lib/supervisor/authority.py` | none (it reads the host) | detect, judge, probe, register | the host changes under the gate; ACL corner cases | an enabled host keeps its worker from the store |
| Recovery | `lib/supervisor/recovery.py`, `opsx-plan.py` 2968-3695 | incidents, attempt counters | begin, retry, repair, escalate, resolve | each driver step has its own crash window | bounded, and closed by resolution or escalation |
| Autopilot | `lib/orchestrator/cmd_autopilot.py` | loop counters, veto and approval files | sweep, judge, reset, run | bounded resets saved after the reset | bound respected over restarts |
| Delivery | `lib/orchestrator/delivery.py` | branch, push and PR records | publish, deliver, reconcile | remote success, local crash | no second pull request |
| Job lifecycle | `lib/supervisor/lifecycle.py`, `lib/orchestrator/cmd_supervise.py`, `supervision.py` | job record | register, start, stop, resume | start and stop race with the exit | one runner per job |
| Broker | `lib/supervisor/broker.py`, `broker_client.py` | receipts | request, release, revise, regenerate | three writers of the state document; a revision between two gates | what is dispatched was released for the revision it runs under |
| Primary session | `lib/supervisor/session_bridge.py`, `lib/orchestrator/supervision.py` | linkage, prompt actions | adopt, launch, prompt, poll, resolve | lost acknowledgement; the server outlives the service; the engine works on the same journal | one prompt at a time, settled only by its own reply |
| Watchdog | `lib/supervisor/watchdog.py`, `lib/orchestrator/supervision_service.py` | restart attempts | observe, probe, re-drive | the owner dies or is replaced between look and restart | one engine, bounded restarts |
| Telemetry, cost, models, reports, logs | `lib/orchestrator/telemetry.py` and others, `lib/metrics`, `lib/pricing`, `lib/models` | append-only files or none | record, render | - | not modelled: no control state |

Interaction: the engine calls the handlers and the verification in its own
process; it starts workers as child processes and learns of them only through
exit, output file and timeout; workers and the engine share the git worktree;
the gate commands and the engine share the state document through the file
system; a supervised run shares the ledger (SQLite transactions) with the
supervisor commands; the lock is a file.

`PROJECT.json` lists every component with its status and every hazard at the line
where it bites.

## 2. Modules

| Module | Models | Kind |
|---|---|---|
| `ChangeRecord` | the record of one change, the evidence on disk, and the handlers of `opsx-plan.py` as functions of both | operators |
| `PlanFile` | the manifest: what `load_plan` refuses and the order it gives the changes | operators |
| `PlanRun` | one plan under repeated `opsx-plan run`: engine, workers, gate commands, operator, crashes | state machine |
| `PlanContract` | what a run promises: one change at a time, dependency order, done only with the archive | abstract machine |
| `PlanRunProperties` | the properties of `PlanRun`, and the refinement mapping to `PlanContract` | properties |
| `MCPlanRun` | plans, manifests, review payloads and earlier histories for TLC | instances |
| `SupervisedChange` | one change of a registered job: loop, journal, budget reservation, recovery, workers that outlive the engine | state machine |
| `SupervisedProperties` | its properties | properties |
| `SupervisedJob` | the job around it: activation, fence, worktree lock, stop requests, completion, watchdog | state machine |
| `WorktreeLock` | what flock and fencing record together promise | abstract machine |
| `JobProperties` | the properties of `SupervisedJob`, and the mapping to `WorktreeLock` | properties |
| `Broker` | receipts, gates, policy revisions, and the three writers of the state document of a registered job | state machine |
| `BrokerProperties`, `MCBroker` | its properties; two changes and their gates | properties, instance |
| `PrimarySession` | the service's model session: adoption, launch, linkage, and the journalled prompt to a server that may lose everything | state machine |
| `SessionProperties` | its properties | properties |
| `JobLimits` | policy, reservations, deadline, attempts, standing grant, with two reservers | state machine |
| `LimitProperties` | its properties | properties |
| `Autopilot` | the unattended wrapper around engine runs, and delivery as a branch and a pull request | state machine |
| `AutopilotProperties` | its properties | properties |
| `AccessControl` | POSIX ACL and mode decision, ancestry, store and launcher judgements | operators |
| `Authority` | the gate every enablement of supervision passes, step by step, on a host that may change | state machine |
| `AuthorityProperties`, `MCAuthority` | its properties; hosts and ACLs | properties, instances |
| `PlanRun_proofs` | lemmas on the handlers of `ChangeRecord`; typing, order, gates and budget of `PlanRun`; its contract; its loop: rounds, prompts, recurrence, review before archive, resumption; the order of a manifest | proofs |
| `SupervisedChange_proofs`, `SupervisedJob_proofs`, `JobLimits_proofs`, `Broker_proofs`, `PrimarySession_proofs`, `Autopilot_proofs`, `Authority_proofs` | the theorems about these | proofs |

How they fit together. `PlanRun` is the engine without supervision. `SupervisedChange` is the loop of one
change when it is supervised; `SupervisedJob` sees the same engine from outside, with one dispatch
of a change as its smallest piece of work and every operator command as a process of its own. `Broker`, `JobLimits` and
`PrimarySession` each take one of the things a dispatch asks on its way (receipts; budget; the session) together with
the other processes that write it. `Autopilot` takes an engine run as a whole. What one
module abstracts another one details: the admission that `SupervisedJob` has as one step is the
replay of `SupervisedChange`; the budget gate that may refuse at any time there is computed in `JobLimits`.

### How `PlanRun` corresponds to the code

State. `file` is the document on disk and `mem` the one the engine holds;
every `save_state` is `Save` (both become the same), and a step in between is a
crash point. `tree` and `dirty` are what git and the file system show: the state
of the change's active directory, the dated archive directory, the
`archive(<id>):` commit, unchecked automatable tasks, uncommitted tracked edits
by author. `pc` is where the one engine process is: `idle`, choosing (`pick`),
waiting for an author worker (`create`), at the top of the direct loop (`stage`),
waiting for a stage worker (`worker`). `visited` is the set the outer loop skips.
`reviewed`, `impls` and `creates` are history variables: no action reads them, only properties
do. Every change starts with a record of `InitRecords`: a new one, or what an earlier use of the
plan has left.

Actions. Each engine action is a piece of the code between two points where the
process can be interrupted or another actor can act: `StartRun` is load +
reconcile + save; `Finish`, `StopEarly`, `RefuseDirty`, `Create...`, `SkipAuthored`
and `Drive` are the exits of one turn of the outer loop; `StageBudget`,
`StageDone` and `Dispatch` those of one turn of the direct loop;
`ImplementResult`, `ReviewResult`, `ArchiveResult`, `InvalidOutput`,
`WorkerTimeout` and `WorkerSpawnError` take the outcome of a worker. A handler
with everything it calls is one operator of `ChangeRecord`
(`apply_review_result` and so on), with the name it has in the code.
Worker actions change the tree while the engine waits, in any order a worker can
leave behind when killed; `Interrupt` stops engine and worker anywhere.

Data. A fix prompt is represented by the round that wrote it, a finding by its
severity and normalised location, a review by verdict, severities counted and
findings, an archive claim by what its path and commit point at. Prompt text,
telemetry and messages are left out: no property is about them.

Bounds, all CONSTANTS or cfg values: `MaxRuns` runs, `MaxEdits` operator
operations between runs; everything else (`MaxRounds`, `NoProgressLimit`,
`RecurrenceLimit`, `EscalateAfter`, `CreateMaxAttempts`, `InvalidRetries`) is a
manifest key of the program itself.

The manifest. `PlanFile` is `load_plan` up to the order of the changes. `MCPlanRun` loads a
manifest with it and runs `PlanRun` in that order, and two assumptions of `MCPlanRun`, which TLC
evaluates with every run of it, compare it with a definition: on 9261 manifests of three entries
(`SortCorrectAssumption`) a cycle is found exactly if there is one, and what is loaded is a
topological order, which section 4 proves of all; `LoadPlanAssumption` fixes which of two problems is reported. That
"manifest order breaks ties" (`planref.py` 232) is so only among changes freed by the same pop
of the queue, hence it is not in the definition.

### How `SupervisedChange` corresponds to the code

A registered job keeps two stores: the state file (`file`, and `mem` while an
engine runs) and the SQLite journal. `journal[k]` is an action with the columns
that decide anything: its state, its reservation, whether the identity of its worker was
bound, the decisive evidence recorded for it, and whether automatable tasks were
open when it was begun (`pending_automatable_tasks` of its detail). The worker
process itself is the field `worker`. `incident` is the state of the incident
the record's recovery context names; `failures` and `recoveries` are the
durable attempt counters, keyed as in the ledger by what failed; `repair` is the
verdict recorded last. A reset clears the record and none of these.

Every `save_state` and every ledger transaction is one action, named after the
function that performs it, and `Kill` is enabled between any two:

| Code | Actions |
|---|---|
| top of `_run_direct_change_loop_inner` | `Deadline`, `PhaseDone`, `AcceptanceBlocked`, `Launch` |
| `_recover_supervised_dispatch`, `replay_uncertain` | `AdmitClear`, `AdmitRecovered`, `AdmitReplay`, `AdmitMismatch`, `AdmitUncertain`, `KilledInReplay` |
| `gated_dispatch`: gates, begin, reserve, dispatch record, spawn, bind | `GateRefuses`, `BeginAction`, `Reserve`, `ReserveRefused`, `DispatchAction`, `Spawn`, `Bind`, `NotSpawned` |
| result of a stage, `resolve_dispatch` | `ApplyResult`, `RecordEvidence`, `CloseAction` |
| invalid output, timeout | `InvalidOutput`, `JudgeFailed`, `WorkerTimeout`, `RerouteTimeout` |
| `drive_supervised_recovery` | `DriveSettled`, `DriveRetry`, `DriveRepair`, `DriveReconciled`, `DriveUnreconciled`, `DriveFreshReview`, `DriveNoReview` |
| `_recovery_stage_dispatch` and its callers | `RecoveryExited`, `RecoveryClosed`, `RecoveryTimeout`, `RecoveryInvalid`, `RetryCleared`, `RetryApplies`, `FixAnswered`, `RepairConsumed`, `RepairRefused`, `RepairResolved` |
| supervised worker endpoints, operator commands | `WorkerReports`, `Reset`, `ResolveEscalation` |

`reconcile_pending` is repeated by every admission and is folded into the step that
settles its result; run again it changes nothing, so a kill after it alone leads to the same
continuations. Handlers are outcomes (`OutcomesOf`): where the change goes, what the
loop is told, the class of recovery asked for, the verdict on a repair. What makes a result
good is `ChangeRecord`'s business; here a handler may choose any outcome
its guards on round, tree and revision allow.

A gate (authority, stop request, budget, deadline, lock) may refuse at any dispatch, and has
to when the last repair was refused or the stage failed too often. `vetted` is a
history variable: what stands for the content that would be archived.

Bounds: `Slots` journal actions matter at one time. A slot is used again once
nothing can look at it any more: closed or never dispatched, its
worker gone, named by no recovery context (`Kept`, `BeginAction`). `MaxRuns` and
`MaxEdits` bound runs and operator operations. Attempt counters are
followed to the limit they are compared with and not beyond (`Another`). The
other constants are keys of the manifest and of the policy.

### How `SupervisedJob` corresponds to the code

A process is a command line: a driver (`supervise start` / `resume`, or `run`) or the
watchdog; `pc` is where each is. `job`, `hold`, `fence`, `last` and `attempts` are columns
of the ledger; `flock` and `record` the kernel's lock and the file beside it; `action` the journal
action of each process. Every ledger transaction is a step; between two of them any other
process may act, so what a command has read may be stale when it writes.

| Code | Actions |
|---|---|
| `lifecycle.start`, `resume`, `cmd_supervise._activate_and_drive` | `Start`, `Resume`, `EndStopWaits`, `Activate`, `RecordFence`, `ReleaseFence` |
| `cmd_run`, `lock.acquire` / `release`, `_execution_boundary_reason` | `Run`, `Authorize`, `AcquireLock`, `Enter`, `PickChange`, `NoMoreChanges`, `StopEarly`, `ReleaseLock` |
| stage of a registered job | `AdmitStage`, `ObserveStop`, `HaltJob`, `EvaluateGates`, `BeginAction`, `DispatchAction`, `ResolveDispatch`, `VerifyCompletion`, `EndAllWaits`, `CompleteJob` |
| stage of a job that is over, as in an ordinary run | `PlainDispatch`, `PlainResult` |
| `pause`, `drain`, `cancel` | `Pause`, `InterruptOne`, `Drain`, `RecordStop`, `LookInFlight`, `PauseJob`, `Cancel`, `DisposeOne`, `CancelWaits`, `CancelJob` |
| `watchdog.py` | `Tick`, `VerifyQuiescence`, `OwnerGone`, `Redrive` |
| the system | `WorkerExits`, `Kill`, `KillCommand`, `Reap` |

`DriveModes` is how `start` and `resume` reach the engine: `"full"` as the tests call it, `"bare"`
with the plan alone (section 6). `Gone` is the identity of a process that is no more. `late` and `over` are history.

### How `Broker` corresponds to the code

`receipts` are rows, each with the policy revision it is bound to; `material_hash` is that revision, as
the other fields it covers are fixed at registration. `json` is the state document; `draft`, `seen`
and `mem` are the copies that the service's projection writer, a mediated gate command and
the engine hold between their load and their save. A request to the service is one step (it serves one
at a time) followed by `WriterLoads` and `WriterSaves`; a gate command is `CommandLoads`,
the request, `CommandSaves`. A run is `LoadRun` (load, `Reconciled`, save) and then turns of the outer loop: `Drive` takes a
change that has its directory, `CreateStage` counts and saves an attempt for one that has none, `CreateExhausted` and `EndRun` are the
other exits. Either goes through `OpenGate`, `AuthorityGate`, `FreshnessGate` and `Begin`,
as `evaluate_gates` orders them, and each reads the ledger anew; `Leave` is a gate's refusal, which puts the change into `visited`.
`CreateWork` is the author, `CreateResult` what the engine makes of the evidence, `Finish` a stage of a driven change.
`tree` is the directory of a change: none (or one without the required artifacts), one that does not verify, or one that does.
`late` counts dispatches under a superseded revision. `forgotten` is a history variable too: the changes whose create attempt a
projected copy has taken out of the file, until the engine saves a record that has one.

### How `PrimarySession` corresponds to the code

`servers`, `sessions` and the `request` of each prompt are the outside world: a session server is a
process of its own, at one port per job; it may die, lose a session, reply, or receive a
prompt whose acknowledgement was lost, at any time (the actions of these are external). `linked` and `process` are rows of
the ledger, and so are the other fields of `prompts`. `service` is where the service process is:
`Open` (`open_primary_session`: adopt, else launch, create, link), `Prompting`
(`JournaledSessionBridge.prompt`: begin, contract, reserve, dispatch, send) and `Resolving`
(poll with backoff, settle the reservation, close). `MarkPending` and `RetainPending` are `reconcile_pending` of the
run engine, which knows nothing of sessions and works on the same journal.

### How `JobLimits` corresponds to the code

Operators have the names of the functions of `budgets.py`, `recovery.py` and `ledger.py` they stand for.
`proc[r]` is where a reserver is and the policy it has in memory; `reserve` reads the consumption and decides,
`insert_reservation` is the later transaction. One amount stands for money and reserved
minutes, which the same two comparisons limit. The estimate is charged per
reservation, so a replay charges anew. The service reads the policy once, when it begins a prompt. Initially some of
the grant may be used. The engine's recovery path ends in `consume_recovery_effect`,
`record_grant_effect_consumption`, `resolve_incident`: three transactions in this order. A revision that only raises the number
is left out.

### How `Autopilot` corresponds to the code

`ap` is where `Autopilot.run` is, `en` where the engine run is that it has started (or `none`), `queue` the
changes of the class being handled. On disk: `rec`, `approvals`, `accepted`, `delivery` (the state document),
`counts` (`autopilot-state.json`), `paused`, `veto`. The repository is `authored`, `dirty`, `head`, `branch`, `landed`,
`remote`, `prs`. All rounds of a change are `Drive` then `Driven`, which leaves it done, failed with
some signature or for the operator. Delivery is `EnsureBranch` and `RecordBranch` at the start of a run, and
`NothingReady` (push), `RequestPull` and `SaveDelivery` at its end; a pull request may be opened and its answer lost.
`AwaitVeto` looks for the marker, `WindowPasses` is the clock, `Approve` what follows the last look;
`HandleFailure` resets and `SaveCount` saves the count.

### How `AccessControl` and `Authority` correspond to the code

A host (`Host`) is a record: accounts, groups, the platform's facts, and a node (`FileNode`) for each file the gate looks at.
`Hosts` are those the commands may find, and `Change` says what an administrator may make of each.
`AccessControl` is the decision of `authority.py`: the validation walk over the entries, the ACL and the mode
decision, the judgement of directories, store and launcher. `Authority` is `supervise probe` and `supervise register`:
`Detect`, `ResolveGroups`, `ChooseSwitch`, `Probe` (or `SpawnFails`) and `RegisterJob`, each reading the
host as it is then. What was read earlier is not read again, so a change that makes it `Outdated` is a cause to
refuse even on a host that is fit before and after. `KernelWrites` is the kernel's own decision (the first class an account falls into counts), stated independently of the code; the
properties compare the two. Only "w" is kept of permissions; paths are canonical, and whether
a directory can be searched is one flag.

## 3. Runs

| Run | Question | Bounds, and why they are enough |
|---|---|---|
| `plan_order` | Do workers only run over finished, verified dependencies, open gates and a tree free of others' edits; does the create budget hold over restarts; does every run end; does the run implement `PlanContract`? | two changes, the second gated, depending on the first, perhaps still to be created; one round, three review answers; two runs, the second perhaps of one change alone, and one operator operation between them (commit, author, delete, revert): done, reverted, run again; two create attempts, so that the limit is reached within a run and across a crash |
| `change_loop` | Do round, prompt, streak, recurrence, escalation and review state stay consistent through every kind of result and a crash; is only reviewed content archived? | one change, authored, to be created, or left by an earlier use (`TakenBack`: its archive commit was taken back); three rounds, two loci, recurrence at 2, escalation at 1, two severity policies: each ceiling is crossed and each can be missed by one; a second run for a crash, a reset or a policy change |
| `supervised_crash` | With kills between any two transactions, orphaned workers that write and report, resets and edits: is every worker charged, is what is pending settled before the loop dispatches, is nothing replayed over a worker that may run, is only vetted content archived? | two rounds, one attempt per failure, one invalid-output retry, three slots: an orphan, the action that replaces it and a third; two runs, so that one resumes what the other left, and one operator operation |
| `supervised_recovery` | Does a run end that retries, repairs and reconciles? | one run, one round, two attempts and two backoff attempts, so that a failure recurs before the bound is reached; five slots for the retries of one recovery |
| `job_control` | At most one engine (the refinement of `WorktreeLock`), at most one dispatch after a stop was acknowledged, no second worker of the journal? | two drivers and the watchdog: two that race for the lock and a third that looks; one ready change; one kill, which leaves an orphan, a stale lock record and an open intent behind; no restart attempt, as the next run has them |
| `job_watchdog` | Does a recorded stop request make a running engine leave the worktree, also when the watchdog has driven it again? | one driver, two changes, one restart, one kill, both ways of driving |
| `broker` | Is what is dispatched released for the revision it runs under, accepted before it is implemented, and never an archived change, with three writers of the state document? | a human-only gate on a change the run has to create and a delegated gate on a present one: the two authorities and the two kinds of change; one revision, so that each gate can fall before or after it; four different receipts, for both approvals under both revisions, or both approvals, the acceptance and a reset; one create attempt, so that the limit and a crash in the attempt are reached; any number of requests that repeat a receipt, and of kills. Instances with five receipts, and with two attempts, were checked once, without an error |
| `primary_session` | One prompt at a time, an outcome that is its own, identity before the request, the right server; does every start end? | two starts with a prompt each, two servers and sessions, one recovery by the engine, two polls: a lost acknowledgement, a crash, the second start over what the first left, and an engine that marks in between |
| `job_limits` | What may be charged at most, are charges settled once, is every repair paid from the grant? | a dispatch estimated at 2 and observed at 3 or never, limits of 2 and 6 (exhausted by one dispatch, by two and a half), three actions, two reservers, one revision, one kill |
| `autopilot` | Are automatic resets bounded, vetoes respected, pull requests whole; does the unit stop or wait for acceptance? | two changes, one gated and one created; one failure signature and one reset, so that the bound is reached; two quick passes; two starts, a kill anywhere, two operator operations |
| `authority` | Is what is enabled protected; has every refusal a cause; does the probe judge the present? | 4693 hosts: provisioned as asked, one deviation away in any respect, or with one of 280 ACLs, well formed or not, on the store, its directory, the launcher or the launcher's directory; two commands, one change by an administrator under the gate |
| `lost_approval` | documented: a gate can be released during a run | violated: section 6 |

Changes are independent but for `depends_on`, the shared worktree and the order of picking, so two changes of which one depends on
the other show every pair of roles; the loop over one change does not look at the others, so one change suffices
there. The supervised loop has one change, since the hazards of its journal are between that change's own
actions; the actions of others block it as pending ones of its own do (section 6).

`CHECK_DEADLOCK FALSE` where a bound on runs, edits, starts or prompts leaves nothing to do at the
end. `job_control`, `job_watchdog` and `broker` have no such end and are checked for deadlock. Within a run no dispatch of the two
supervised runs ever lacks a slot, so the bound on slots ends no run early.

Every property of a passing run has a mutant in `PROJECT.json`: a changed
definition, placed directly before the one it replaces, under which TLC finds the
property violated.

### Fairness

| Module | Assumed | Why |
|---|---|---|
| `PlanRun`, `SupervisedChange` | `WF_vars(Engine)` | the engine is a sequential process. The steps that take a worker's outcome are among them because it waits with the stage timeout, so a worker that never ends still gives `WorkerTimeout` (`RecoveryTimeout`) |
| `SupervisedJob` | WF of each process's `EngineStep` and of `WorkerExits` | the same, with the timeout that ends a worker folded into its exit |
| `PrimarySession` | `WF_vars(ServiceStep)` | its calls have timeouts and its polling a bounded schedule; servers owe nothing |
| `Autopilot` | WF of `EngineStep`, `WrapperStep` and `WindowPasses` | both are sequential, and the veto window is a deadline on the clock |

Workers, operators, crashes, administrators, session servers and the start of another run are
not obliged to happen. `UnitSettles` takes a run that drove nothing to be quick: the no-progress guard of the
code only counts passes under five seconds.

## 4. What is proved

For every value of the constants, in particular every plan, limit, number of runs, processes, kills, prompts and revisions:

| Module | Theorem | Statement |
|---|---|---|
| `PlanRun_proofs` | `TypeCorrect` | `Spec => []TypeOK`. Besides typing: a round never exceeds `max_rounds`, `create_attempts` never exceeds `create_max_attempts`, and a change is current exactly while the engine is in a stage |
| | `DispatchInOrder` | `Spec => []DispatchOrder`. While a worker of a change runs, each of its dependencies is enabled, `done`, and verifiable from the archive on disk |
| | `NoBleed` | `Spec => []DirtyIsMine`. Uncommitted edits during a stage are the current change's own |
| | `GatesAreHeld`, `CreatesBounded` | `Spec => []GatesHeld`, `Spec => []CreateBudget` |
| | `RunImplementsContract` | `Spec => RefinesContract`, the abstract machine `PlanContract` under the mapping of `PlanRunProperties` |
| | `ResumesInPlace` | `Spec => []ResumeSameRound`. Killed anywhere in a stage, a change is taken up in the same round and phase, or is settled |
| | `RecurrenceHolds` | `Spec => []CriticalRecurrenceStops`, over records as described below |
| | `RoundsAreCounted`, `PromptsAreFresh` | `Spec => []OneImplementPerRound`, `Spec => []FixPromptIsLatest`, when the operator deletes no change |
| | `ReviewedFirst` | `Spec => []ArchiveOnlyReviewed`, when the operator neither writes nor deletes the content of a change |
| | `SortIsCorrect` | `SortCorrect(entries)` for manifests of any length: `topo_sort` finds a cycle exactly if there is one, and otherwise a topological order |
| | `LoadedInOrder` | what `load_plan` accepts has distinct ids and no cycle, and is ordered |
| `SupervisedChange_proofs` | `TypeCorrect` | `Spec => []TypeOK`, by a stronger invariant that says on which action the engine works at each place |
| | `EveryActionAccounted`, `OneOutcomeOpen`, `OnlyTheDeadAreReplaced` | `Spec => []Accounted`, `Spec => []NothingElseUnconfirmed`, `Spec => SupersededIsDead` |
| | `ArchivesAreVetted` | `Spec => []ArchiveVetted`. An archive worker runs only over content that was accepted, or repaired and verified since |
| `SupervisedJob_proofs` | `LockImplemented` | `Spec => OneEngine`, the abstract machine `WorktreeLock` |
| | `AtMostOneLate`, `WorkersAlone` | `Spec => []StopHolds`, `Spec => []OneWorker` |
| `JobLimits_proofs` | `SettledStays`, `ResumptionsPaid` | `Spec => ChargedOnce`, `Spec => []GrantBounded` |
| | `OvershootBounded` | `Spec => []BoundedOvershoot`, for any finite non-empty set of estimates |
| `Broker_proofs` | `OnlyReleased`, `OneLateEach`, `NeverUnaccepted`, `DoneIsFinal` | the four invariants of the run `broker`; `NeverUnaccepted` with the exception that `AcceptedFirst` names (section 6) |
| `Authority_proofs` | `WalkIsTheKernels` | `AclStructureIsValid(es) <=> WellFormed(es)` for every sequence of entries |
| | `DecisionIsTheKernels` | `WorkerWriteDenied`, for every file, account and groups: the ACL can be read, is well formed, and `~KernelWrites` |
| | `EnabledProtects`, `RefusalsHaveCause`, `ProbesThePresent` | `Spec => []EnabledIsProtected`, `Spec => []RefusedHasCause`, `Spec => ProbedNow` |
| `PrimarySession_proofs` | `TypeCorrect`, `OneAtATime`, `OwnOutcome`, `SentIsJournalled`, `RightServer` | the type invariant and the four invariants of the run `primary_session` |
| `Autopilot_proofs` | `PullIsWhole`, `VetoIsKept`, `ResetsAreBounded` | `Spec => []DeliveredWhole`, `Spec => VetoHolds`, `Spec => []ResetsBounded` |

Assumptions are the named ones of the modules (limits are naturals, `MaxRounds` and `NoProgressLimit` positive as
the manifest validation demands, dependencies are changes, payloads and policies have their types, processes are not `Nobody`, hosts are of type `Host` and a change of one gives another). TLC
evaluates them in every run. Some theorems name a further one:

- `LoopsNotBegun` (`RecurrenceHolds` and the three after it): the records that an earlier use of the plan left are those of
  changes whose loop has not begun or has ended. The history variables these properties compare with count from the
  beginning of the behaviour, so a record half way through a loop would have no past to be compared with. Every
  run satisfies it; loops half way through arise from these within the behaviour, by kills, resets and retries.
- No `delete` (and no `author` for `ReviewedFirst`) among `OperatorOps`: what a person does to the directory of a change by hand
  between two runs is not recorded anywhere, and the code does not claim to notice it (a
  failed change whose directory is gone is requeued with its phase and round, `opsx-plan.py` 5176-5181). The runs that check
  these properties leave the same operations out.
- `IsFiniteSet(Estimates)` and `Estimates # {}` (`OvershootBounded`): the bound names the largest estimate, which has to exist.

Arguments. None of these properties is inductive as it stands.

- `DispatchOrder` says nothing at `pick`, where the next change is chosen from `mem`. `OrderInv` adds that, as long as a run is
  open, every change the engine holds as `done` can be verified on disk. It is
  established by `StartRun`, because `reconcile` leaves `done` only what it has
  verified (`ReconciledDone`); it survives worker steps, because a worker only
  touches the tree of the current change, which is not `done`, while the
  evidence of the others is what verification reads (`VerifyReadsArchive`,
  `VerifiedStep`); results can only make the current change `done`, and only
  `apply_archive_result` after its own verification (`ArchivedDone`,
  `ImplementNotDone`, `ReviewNotDone`). The operator's edits happen between runs, when
  the invariant is vacuous. `NoBleed` follows from the clean-tree guard of
  `Picked` and the fact that only the current change's workers dirty the tree.
- `CreatesBounded`: `BudgetInv`, attempts that were made are counted in the file before the worker starts and, as a save writes
  everything, also in the copy the engine holds. The handlers keep the count (`Keeps`).
- `GatesAreHeld`: gates are read when a change is picked, and nothing that happens until its stage ends takes an approval or
  an acceptance away; here the handlers' keeping of `created` and `accepted` matters.
- `RunImplementsContract`: every step is mapped to a step of the contract or a stutter, in
  lemmas per group of actions. Clearing a rejected scaffold must not turn an older archive directory into the
  archive of the change; `ArchiveInv` says that a change that may still be picked has none, and that a directory beside one is
  empty or valid.
- `ResumesInPlace`: `CopiesAgree`, while a stage is open the document on disk and the one in memory agree on everything of the current
  change that the loop reads; `Follows` is the list of ways in which one step may move a record (rest, begin, next phase, settle, reset),
  proved once for all actions (`FollowsStep`) and used by everything below.
- `RecurrenceHolds`: `RecurrenceInv`, the same for a record that is not under way, since a failed one may be requeued into the phase it had.
- `RoundsAreCounted`, `PromptsAreFresh`: `PlaceInv`, a change whose loop has begun and not ended still has its directory or
  its archive, so that requeueing never finds it unauthored; and the count for the phase each record is in.
- `ReviewedFirst`: `ReviewInv`, a record in the archive phase is of a reviewed change, and what withdraws a review happens only in another phase.
- `SortIsCorrect`: `Sorted`, kept by every pass over the queue: order and queue share nothing and repeat nothing, an entry counts its
  dependencies that are not in the order yet, those that count none are in one of the two, and the order is closed under
  dependencies. When the queue runs empty early, the changes that are left wait for each other; when it does not, the first change of
  a circle in the order would depend on one before it. The passes are counted by the set-based induction described below.
- `EveryActionAccounted`, `OneOutcomeOpen`: `JournalInv`, the journal read together with the place of the engine: an action is open only
  if it is the engine's own, still running somewhere, or waiting to be adjudicated, and its reservation follows it.
- `OnlyTheDeadAreReplaced`: only the replay in `admit` closes an action without evidence, after it saw the bound worker gone.
- `ArchivesAreVetted`: `VetInv`, per place of the engine and phase of the record, what is known about the content: accepted, repaired,
  or repaired and verified. Each recovery is one disjunct.
- `SettledStays`: `OwnActions`, the two reservers never write each other's entries. `ResumptionsPaid`: `GrantInv`, a
  resumption is recorded against a charge that is already in the ledger.
- `OvershootBounded`: `SpentInv`. The charges are a sum over the actions, so the proof first shows what adding or changing one
  entry does to such a sum (`SumIsPartial`, `SumAdds`, `SumNat`): the library's induction theorems are out of the provers' reach, but induction
  over a set, from `WFMin` and the well-foundedness of `<`, is not (`NatSetInduction`, `FiniteSetInduction`). The
  invariant counts with the charges what was checked and not yet reserved: whoever checked last was within
  the limit by itself, so only the other's estimate can be beyond it.
- `WalkIsTheKernels`: the walk is a fold. `WalkStates` writes it as the sequence of states after each entry, by induction
  over the number of entries; `EntryStep` says what one entry does to a state. Entries are well formed when each
  tag is no earlier than the one before and the singletons and named entries are as counted (`WellFormedIsTidy`); both
  directions follow by induction along the walk, with what a state knows of the entries behind it.
- `DecisionIsTheKernels`: the code looks for the owner, a named user, the groups, the others, in this order, and the kernel's rule takes the
  first class that is not empty. They agree because a well-formed list has one entry per class but for groups, and
  a mask wherever there is a named entry.
- `EnabledProtects`: `FitIs`, a host is fit exactly when every judgement of the gate is favourable, and `JudgedInv`, on an unchanged host those
  passed so far are. `RefusalsHaveCause`: `FitInv`, while nothing is unfit what was read is what is there. `ProbesThePresent` needs only
  that the host stays a `Host`: the probe's own step proves what it says.
- `LockImplemented`: the kernel's lock is held by exactly the process that is inside (`LockInv`), so the owner changes only as
  `WorktreeLock` allows; the fencing record, which is written and read in other steps, does not enter.
- `AtMostOneLate`: `StopInv`, whoever is past the stop boundary passed it before the stop wait was opened, so none was
  counted yet, and being alone in the lock makes it one.
- `WorkersAlone`: `WorkInv`, a worker belongs to an engine that waits for it or has died, its action is pending or shown
  complete, and past the admission of a dispatch nobody else's action is pending.
- `OnlyReleased`, `OneLateEach`: `RevisionInv`, past each gate there is a receipt no older than the anchor, and past the last gate the
  anchor is the revision of now or has just been superseded. `DoneIsFinal`: `RunInv`, a run that has reconciled knows what is archived.
- `NeverUnaccepted`: `AcceptInv`. No copy of the state document, in the file or in a process, shows an acceptance that nobody gave
  (`Honest`). The file shows every attempt the engine knows of, and the engine every attempt that brought a directory, unless the change
  is receipted or forgotten (`Told`, `Attempted`). What the engine knows an attempt of and can verify it holds for acceptance, save the change
  whose author it is waiting for (`Held`); so what is driven without a receipt shows no attempt, and is forgotten. Saves of
  projected copies keep this because they record what they take out (`SavedProjected`), the engine's saves because it takes nothing out (`SavedAccept`).
- `PrimarySession`: `SessionInv` has one clause per place of the service about the prompt it has issued, one about every prompt in the
  journal (`Sound`), and `Succession`: a prompt follows another in its session only once that is closed.
- `Autopilot`: `DeliveryInv`, while an engine works, the branch it remembers is checked out, and what is done has landed there;
  `CountInv`, the file counts every reset but the one being saved and those lost with a kill; `VetoInv`.

Each strengthening was checked by TLC on the run's instance before it was proved.

Only model-checked: liveness (`RunEnds` of both modules, `StopReached`, `StartEnds`, `UnitSettles`), which is beyond these provers under
fairness; and which of two problems of a manifest is reported (`LoadPlanAssumption`). That the instance TLC runs is the one
`load_plan` gives is a matter of its configuration.

## 5. Not modelled

Supervised branches of the engine are dormant in `PlanRun` (an ordinary run takes none of them);
`SupervisedChange` takes them, for one change. It leaves out amounts and prices (`JobLimits` has them), the create stage, and the
delta repair of `recovery.py`, which the loop never asks for.

- `SupervisedJob`: acknowledgements and steering receipts, the thresholds by which the watchdog classifies silence (a tick
  sees a dead owner or not), reconnection of sessions, the event log.
- `Broker`: the binding of endpoints and principals, the read models, wake tracking and steering receipts that have no caller. Of the create
  stage: a missing `create_invoke`, `--create-only`, directories an operator authors by hand or leaves half written (`PlanRun` has these),
  an author that survives a kill of its engine, and a create whose outcome is recovered from the journal.
  Registered changes of a plan with `review_created` off need no acceptance, and none is asked for.
- The clean-tree check: `require_clean_tracked` (`planref.py` 72, used at `opsx-plan.py` 5477) is taken at its default, true. With
  it off, `DirtyIsMine` does not hold.
- The one cold redispatch when a reused worker session is not found (`opsx-plan.py` 4657-4684): a second worker under the same
  action, after the first has exited before any model call. One `Dispatch` stands for both.
- `PrimarySession`: `serve`'s own loop and endpoint host, wire formats, role capabilities and model pins.
- `JobLimits`: the catalog of prices; per-action limits are never exceeded by the one estimate of the run.
- `Autopilot`: notifications, `--once`, installation of the unit, the spend pause of `_classify` (the wrapper
  passes no budget flag), remotes other than one, `--no-branch` and `--no-pr`.
- `Authority`: path resolution and symbolic links, the scrubbed environment and the nonce of the evidence.

Not modelled at all: the conclusion of one change without a plan (`run-one`, whose loop is `PlanRun`'s), compiler and archiving of
plans, model resolution, prompt building, output parsing beyond valid/invalid, the static allowlist of
`worker_exec.py`, telemetry and usage, reports, notifications, installers and the user interfaces: pure functions
or I/O without control state the properties could tell apart. The engine's
interruption is one action for SIGINT and for a kill in `PlanRun`; that a worker survives a kill of its engine is in `SupervisedChange` and
`SupervisedJob`, where the code reckons with it.

Hazards of the code that no property is about, because what can happen is a consequence the code accepts or a defect: they are in section 6.

## 6. Where the code and its documentation differ

Shown by a run: `lost_approval`. A run saves the whole document from memory, so an `approve`
during the run is erased by its next save (`state.py` 171).

The following follow from the modelled code, or were met while it was read. Line numbers without a file are of
`orchestrator/opsx-plan.py`, and a `<capability>/spec.md` is below `openspec/specs`.

Ordinary runs

- Killed after the archive commit and before the fast checks, a change is adopted as done by the next run's `reconcile` (5190)
  without them; `orchestrator/README.md` 293-299 and `docs/opsx-plan-operator-workflow.md` 482-485 say that done means they passed.
- After `reset --force`, `reconcile` finds the archive of the change on disk and marks it done again; nothing is re-run, although
  `cmd_gates.py` 468 and `docs/opsx-plan-operator-workflow.md` 732-734 say so.
- The clean-tree check (5477) refuses the interrupted change itself when its worker left tracked edits;
  `docs/opsx-plan-operator-workflow.md` 1383 and `orchestrator/README.md` 349 promise resumption by the same command.
- `_escalation_active_for_dispatch` (2727) counts rounds, and an incomplete implement round advances the round too;
  `implementer-model-escalation/spec.md` speaks of failed reviews.
- 5176-5181: a failed change without a directory is requeued keeping its phase. In phase archive, with a create invoke, content that is created
  anew would be archived without a review; a directory put there by hand likewise. `change_loop` therefore has no deletions and no reverts.
  The comment also omits the condition `create_attempts == 0`.
- `orchestrator/README.md` 143-152: a directory that became valid outside the create path is not held for acceptance, because the decision
  only looks at `change_authored`.
- `plan-driven-opencode-execution/spec.md` 117-124 wants the archive commit to be the change's own; 1110-1164 only ask
  that the claimed commit be reachable.
- A worker runs in its own session (1523): a kill of the engine alone leaves it running beside the next run. `approve`, `accept` and a run
  write the same temporary file before the rename (`state.py` 171).

Supervised loop

- `_recovery_stage_dispatch` (3092-3152) reserves and spawns without the admission that ordinary dispatches pass (4535), against its own
  docstring and `journal_dispatch.py` 1247; killed during a transient retry, the next run retries beside the first retry's worker. The two
  uncertain actions that remain "require individual reconciliation", which no command offers.
- A pending action of a *later* stage is never settled (3812-3820): a kill between the save of a result that sends the change back and
  the close of its action, or a review that timed out and whose retry routes back, fails the change; a reset does not help.
- A pending action of one change blocks every other (3776-3786), also when its own change is already done.
- An action completed from evidence is completed without a look at its worker: the next stage may run beside it. `SupersededIsDead` therefore
  speaks of replays only, not of the dispatches of a recovery, and `OneWorker` excepts what has been seen complete.
- A kill between the reservation and the dispatch record leaves an intent whose reservation stays charged: the sweep only looks
  at dispatched and uncertain actions.
- Each in-place retry of invalid output spends a recovery attempt, also when it succeeds. A transient retry that is driven again after a
  crash repeats its dispatches without a new attempt. A repair driven again after a crash between the grant's record and the resumption
  consumes the grant again. Failed fixer and verifier dispatches count towards no bound.
- A refused repair verdict closes the repair gate for every later dispatch and for the reset.
- Nothing compares the accepted revision again before archive; a repair of an archive-stage failure returns to archive on the
  verifier's word, which is why `ArchiveVetted` allows `verified`.

Job, stop requests, watchdog

- `_drive_supervised_run` passes a namespace with repository and plan alone; `_cmd_run_body_inner` reads `args.dry_run` (5398), so `start` and
  `resume` fail at the first change (mode `"bare"`); `docs/opsx-supervision-runbook.md` 106 shows them driving.
- The watchdog drives without a fence (`cmd_supervise.py` 588, against 364-366 and 578). `watchdog.report` says that it does not take the
  lock (656-659), and takes it for a moment.
- `set_job_state` (`ledger.py` 1114) does not look at the state it replaces: a `start` or `resume` that loses the race with `cancel`
  revives a cancelled job (`lifecycle.py` 426). A second `resume`, or one killed halfway (`lifecycle.py` 320), takes the first one's fence and clears it.
- One dispatch may begin after a drain was acknowledged (`StopHolds` says one). After a cancel, a running engine finds no registration for the next change and
  drives the rest of the plan without gates.
- An intent left by a killed engine keeps `observe_stop_request` draining for ever. `cancel` may close an action as failed that was dispatched since it was listed.

Broker

- `project_broker_state` only ever sets `accepted`; a stale acceptance is not withdrawn and `accept --all` then lists nothing
  (`supervision.py` 952, `cmd_gates.py` 119; `core/plan-supervision.md` 1131).
- The newest reset receipt is applied again by each later regeneration (`supervision.py` 950), so progress since is
  lost from the document; a mediated reset also clears `created_by_orchestrator`, after which no acceptance is asked for. The engine's and a command's
  later saves write stale copies over either. `ArchivedStaysDone` holds nevertheless, by ground truth.
- Acceptance does not: the copy that a gate command (`cmd_gates.py` 187) or the projection writer loaded before a create attempt, saved after the
  author has written, takes `create_attempts` and `created_by_orchestrator` out of the file. When the engine has been killed or has ended since,
  the next run's `reconcile` (5236-5241) asks for `create_attempts > 0` and does not restore the flag,
  `classify` (5155) says ready, and the change is implemented unaccepted. `AcceptedFirst` excepts exactly the changes this
  happened to (`forgotten`); without the exception TLC finds the behaviour in the run `broker`. A copy loaded after the attempt was saved does no harm,
  because `reconcile` concludes from the attempt.
- Outside `Broker`: an author that outlives its engine and writes between `reconcile` and the picking is not held either (the flag is set by
  `reconcile` and at 5587 only), nor is a directory with the artifacts that did not verify when `reconcile` looked; in the model such a directory
  stays as it is, so that `AcceptedFirst` speaks of verified ones only.
- `revise_policy`, `pause`, `drain` and `cancel` do not regenerate the projection (`broker.py` 24-26 says so). Only the newest stop
  request is acknowledged (`core/plan-supervision.md` 1255). The human wait of `journal_dispatch.py` 462 is never recorded, because the run refuses
  earlier. `request_action` lists delegated releases under an authority their receipts do not have. Wake tracking, steering receipts and the
  service's reset have no callers.

Primary session

- `resolve(pending)` overwrites the action's detail and with it the session's id (`session_bridge.py` 1638-1644), after which `in_flight_prompt` (1258)
  matches every session; the error it raises is no broker error and ends `serve` in a traceback (`core/plan-supervision.md` 1653).
- A prompt left open by one start is resolved by no later one, so adopting the live session fails at every restart (`durable-plan-supervision/spec.md` 1804-1807).
- The engine's `reconcile_pending` marks the service's prompt uncertain and retains its reservation (`core/plan-supervision.md` 1667), and a
  transition that races with it ends the start; the engine in turn refuses any dispatch while a briefing is open. A failed probe counts as
  "gone" (`supervision.py` 1773): only the fixed port prevents a second server.

Limits

- `budgets.py` 30-35 bounds the overshoot by one in-flight action's headroom; usage above the estimate adds to it, hence `Overruns`. Usage of
  fixer and verifier is never observed and stays charged at the estimate; so does an intent left by a kill. The time an engine is dead counts
  as execution time until its action is retained. The service's prompt checks neither deadline nor freshness, and leaves a refused intent open.
  `supervised_recovery_policy` returns the gate's snapshot, not the current policy.

Autopilot and delivery

- A crash between the branch's checkout and the save, with no `base_ref`, makes the next run record the delivery branch as its own base
  (`delivery.py` 124), and no pull request can be opened; `plan-git-delivery/spec.md` 115, 139 fix the base at creation.
- A failed delivery does not make `run` fail (its return code is that of the status), so the autopilot takes the plan for complete.
  A pull request that was created while the answer was lost makes every later delivery fail and its URL is never recorded.
- The reset precedes the saved count (`cmd_autopilot.py` 793): each crash between them gives one more (`ResetsBounded`). The bound is per signature, and a reason that varies
  in its first 80 characters has a new one. Systemd's restart after a worker was killed meets a dirty tree and pauses for
  good. The acceptance wait has no deadline and comes before failures of other changes. A veto between the last look and the approval is not seen.

Authority

- The comment at `authority.py` 133-137 says that any extended ACL on a mutable parent is refused; it is evaluated, and one that denies is accepted.
- `supervise register` records the accounts of its own detection (`cmd_supervise.py` 312), the gate judges those of a second one. `setpriv`
  clears the supplementary groups, so the probe does not see what they grant or deny; the judgement does.
- `serve` resolves the operator as whoever runs it and does not pass the gate; the session server's launcher is judged without the worker's account.

## 7. Plan

Done, in this order: `ChangeRecord`, `PlanRun`, `PlanContract`, `SupervisedChange`; then `SupervisedJob` over
`WorktreeLock`, `Broker`, `PrimarySession`, `Autopilot`, `Authority`, `JobLimits` and `PlanFile`, with the theorems of section 4.

What would add most next:

1. Two changes of one plan over one journal: who may settle the other's pending action.
2. The service's serve loop with the watchdog, the session and the broker in one process.
