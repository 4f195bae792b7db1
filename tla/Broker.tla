------------------------------- MODULE Broker -------------------------------
(***************************************************************************)
(* The supervision broker: receipts bound to a policy revision, the gates   *)
(* they open, and the plan state file that is regenerated from them.        *)
(*                                                                          *)
(* Receipts are rows of the ledger, only ever added.  The service serves    *)
(* one request at a time and rewrites the state file after it; the command  *)
(* line loads that file before it asks the service and saves what it had    *)
(* loaded afterwards; the run engine keeps the file's content in memory and *)
(* saves it after every stage.  A revision of the policy may come at any    *)
(* time.                                                                    *)
(*                                                                          *)
(* A change that has no directory is created by a worker before it is       *)
(* driven, and what a worker created is driven once it is accepted.  Each   *)
(* change can be created: a missing create_invoke, an operator who authors   *)
(* by hand, and --create-only are in PlanRun.  A killed engine takes its    *)
(* worker with it, and a driven change fails no stage for good.  How        *)
(* requests are acknowledged and told to workers is left out.               *)
(***************************************************************************)
EXTENDS Naturals, FiniteSets

CONSTANTS
  Changes,
  Gate,          \* of each change: "ungated", "human-only" or "delegated"
  Unauthored,    \* changes with no directory when the plan is registered
  NoChange,      \* no change
  Handled,       \* bound: changes the operator accepts or resets
  Stages,        \* dispatches that take a change to its archive
  CreateMaxAttempts, \* manifest key create_max_attempts
  MaxReceipts,   \* bound: different receipts
  MaxRevision    \* bound: policy revisions

Authorities == {"ungated", "human-only", "delegated"}
ASSUME GateAssumption == Gate \in [Changes -> Authorities] /\ NoChange \notin Changes
ASSUME StagesAssumption == Stages \in Nat \ {0} /\ MaxRevision \in Nat
ASSUME CreateAssumption == CreateMaxAttempts \in Nat

VARIABLES
  revision,   \* number of revisions of the job's policy since registration
  receipts,   \* ledger: what has been receipted, under which revision
  newest,     \* kind of the newest of a change's resets and acceptances of this revision
  json,       \* the change records of the plan state file
  forgotten,  \* history: changes whose create attempts a stale save took out of the file
  tree,       \* ground truth: the directory of each change before its archive
  archived,   \* ground truth: changes archived in the repository
  service,    \* what the service is doing
  draft,      \* state the projection writer has loaded
  cli,        \* where a gate command of the operator is
  seen,       \* state that command loaded when it began
  engine,     \* where the run engine is
  mem,        \* the engine's copy of the change records
  cur,        \* the change it is visiting
  visited,    \* changes left pending, which the run does not come back to
  anchor,     \* the revision that was current when the change's gate was opened
  late        \* history: dispatches begun under a superseded revision

ledger == <<revision, receipts, newest>>
writers == <<service, draft, cli, seen>>
run == <<engine, mem, cur, visited, anchor, late>>
file == <<json, forgotten>>
repo == <<tree, archived>>
vars == <<ledger, file, repo, writers, run>>

Kinds == {"approval", "acceptance", "reset"}
Receipt == [kind : Kinds, change : Changes, by : {"operator", "service"}, rev : Nat]
Record ==
  [attempts : 0 .. CreateMaxAttempts, created : BOOLEAN, accepted : BOOLEAN, failed : BOOLEAN,
   done : 0 .. Stages]

(* new_change_record                                                        *)
NewRecord ==
  [attempts |-> 0, created |-> FALSE, accepted |-> FALSE, failed |-> FALSE, done |-> 0]
None == [c \in Changes |-> NewRecord]

(* "broken": the required artifacts are there, but do not verify.           *)
Directories == {"none", "broken", "valid"}
change_authored(c) == tree[c] # "none"
verify_change_created(c) == tree[c] = "valid"

Init ==
  /\ revision = 0 /\ receipts = {} /\ newest = [c \in Changes |-> "none"]
  /\ json = None /\ forgotten = {}
  /\ tree = [c \in Changes |-> IF c \in Unauthored THEN "none" ELSE "valid"]
  /\ archived = {}
  /\ service = "idle" /\ draft = None /\ cli = "idle" /\ seen = None
  /\ engine = "off" /\ mem = None /\ cur = NoChange /\ visited = {} /\ anchor = 0 /\ late = 0

-----------------------------------------------------------------------------
(* Receipts and gates.                                                       *)

(* The material hash covers the gate fields, the snapshot and the policy     *)
(* revision; the first two do not change while the job is registered.  A     *)
(* receipt is current if it was recorded under the revision of now.         *)
Of(c, k) == {r \in receipts : r.change = c /\ r.kind = k}
(* Mutant: the hash leaves the policy revision out.                         *)
CurrentAnyRevision(c, k) == Of(c, k)

Current(c, k) == {r \in Of(c, k) : r.rev = revision}

Releases(c) == IF Gate[c] = "human-only" THEN "operator" ELSE "service"

(* resolve_gate                                                             *)
Open(c) == Gate[c] = "ungated" \/ \E r \in Current(c, "approval") : r.by = Releases(c)

(* revalidate_receipts: a kind is stale if it has receipts and the newest    *)
(* is not current.                                                          *)
Stale(c, k) == Of(c, k) # {} /\ Current(c, k) = {}
Clear(c) == ~Stale(c, "approval") /\ ~Stale(c, "acceptance")

(* project_broker_state.  Acceptance is only ever set; a reset of the        *)
(* current revision applies each time, until an acceptance follows it.      *)
Resets(c) == Current(c, "reset") # {} /\ (Current(c, "acceptance") # {} => newest[c] = "reset")

Projected(s) ==
  [c \in Changes |->
    IF Resets(c) THEN NewRecord
    ELSE [s[c] EXCEPT !.accepted = @ \/ Current(c, "acceptance") # {}]]

(* record_receipt and record_receipts: one transaction for the batch.       *)
Receipts(k, S, b) ==
  /\ receipts' = receipts \cup [kind : {k}, change : S, by : {b}, rev : {revision}]
  /\ newest' = [c \in Changes |-> IF c \in S /\ k # "approval" THEN k ELSE newest[c]]
  /\ Cardinality(receipts') <= MaxReceipts
  /\ UNCHANGED revision

-----------------------------------------------------------------------------
(* Requests.  The service answers one at a time: it records, then calls the  *)
(* projection writer, which loads the state file, projects and saves it.    *)

Recorded(k, S, b) ==
  /\ service = "idle" /\ service' = "recorded"
  /\ Receipts(k, S, b)
  /\ UNCHANGED <<file, repo, draft, seen, run>>

(* The operator asks through a gate command or with the service's own tool.  *)
Asked(k, S) ==
  /\ cli \in {"idle", "loaded"}
  /\ Recorded(k, S, "operator")
  /\ cli' = IF cli = "loaded" THEN "asked" ELSE cli

(* A command selects what awaits it; the endpoint takes any human-only gate. *)
AwaitsApproval(c) == Gate[c] = "human-only" /\ (cli = "loaded" => ~Open(c))
Approve(S) ==
  /\ S # {} /\ \A c \in S : AwaitsApproval(c)
  /\ Asked("approval", S)

(* A command verifies what it accepts; the endpoint takes any change.       *)
Acceptable(c) == verify_change_created(c) /\ c \notin archived
Accept(c) ==
  /\ c \in Handled /\ (cli = "loaded" => Acceptable(c))
  /\ Asked("acceptance", {c})

ResetChange(c) == c \in Handled /\ Asked("reset", {c})

(* A worker's request, for the service to release a delegated gate.         *)
ReleaseDelegated(c) ==
  /\ Gate[c] = "delegated"
  /\ Recorded("approval", {c}, "service") /\ UNCHANGED cli

(* A copy loaded before is projected and replaces the file.                 *)
SaveProjected(s) ==
  /\ json' = Projected(s)
  /\ forgotten' = forgotten \cup
       {c \in Changes : json[c].attempts > 0 /\ s[c].attempts = 0 /\ ~Resets(c)}

WriterLoads ==
  /\ service = "recorded" /\ service' = "loaded" /\ draft' = json
  /\ UNCHANGED <<ledger, file, repo, cli, seen, run>>

WriterSaves ==
  /\ service = "loaded" /\ service' = "idle"
  /\ SaveProjected(draft) /\ draft' = None
  /\ cli' = IF cli = "asked" THEN "answered" ELSE cli
  /\ UNCHANGED <<ledger, repo, seen, run>>

(* A revision leaves the projection as it is.  revise_policy is a request to *)
(* the service; a budget or a standing grant is revised without one.        *)
NextRevision ==
  /\ revision < MaxRevision /\ revision' = revision + 1
  /\ newest' = [c \in Changes |-> "none"]
  /\ UNCHANGED <<receipts, file, repo, writers, run>>

RevisePolicy == service = "idle" /\ NextRevision
IncreaseBudget == NextRevision

(* `opsx-plan approve`, `accept` and `reset` load the state file first, and  *)
(* when the service has answered they project what they had loaded; when     *)
(* nothing awaits them they end.                                            *)
CommandLoads ==
  /\ cli = "idle" /\ cli' = "loaded" /\ seen' = json
  /\ UNCHANGED <<ledger, file, repo, service, draft, run>>

CommandSaves ==
  /\ cli \in {"loaded", "answered"} /\ cli' = "idle"
  /\ IF cli = "answered" THEN SaveProjected(seen) ELSE UNCHANGED file
  /\ seen' = None
  /\ UNCHANGED <<ledger, repo, service, draft, run>>

(* The service stops: the request under way gets no answer.                 *)
KillService ==
  /\ service # "idle" /\ service' = "idle" /\ draft' = None
  /\ cli' = (IF cli = "asked" THEN "idle" ELSE cli)
  /\ seen' = (IF cli = "asked" THEN None ELSE seen)
  /\ UNCHANGED <<ledger, file, repo, run>>

-----------------------------------------------------------------------------
(* The run engine of the registered job.                                     *)

Outside == UNCHANGED <<ledger, writers>>
Go(l) == engine' = l

(* save_state, with the records m in memory.                                *)
Save(m) ==
  /\ mem' = m /\ json' = m
  /\ forgotten' = {c \in forgotten : m[c].attempts = 0}

(* The change's gate is closed.                                             *)
Close == cur' = NoChange /\ anchor' = 0
Exit == Go("off") /\ mem' = None /\ visited' = {} /\ Close

(* _assert_run_gates_resolvable: no relied-upon receipt is stale and every   *)
(* gate of the plan is open, or the run is refused.                         *)
StartRun ==
  /\ engine = "off" /\ \A c \in Changes : Clear(c) /\ Open(c)
  /\ Go("load")
  /\ Outside /\ UNCHANGED <<file, repo, mem, cur, visited, anchor, late>>

(* An attempt was made, and the evidence is there.                           *)
CreatedBefore(c) == json[c].attempts > 0 /\ ~json[c].failed /\ verify_change_created(c)

(* Mutant: what an interrupted run created is not held for acceptance.       *)
ReconciledUnheld(c) ==
  IF c \in archived THEN [json[c] EXCEPT !.failed = FALSE, !.done = Stages] ELSE json[c]

(* Mutant: the archive of the repository is not looked at.                   *)
ReconciledUnarchived(c) == [json[c] EXCEPT !.created = @ \/ CreatedBefore(c)]

(* reconcile: an archived change is done, and one that was created in a run  *)
(* that did not live to see it is held for acceptance.                      *)
Reconciled(c) ==
  IF c \in archived THEN [json[c] EXCEPT !.failed = FALSE, !.done = Stages]
  ELSE [json[c] EXCEPT !.created = @ \/ CreatedBefore(c)]

(* load_state, reconcile with the repository, save_state.                   *)
LoadRun ==
  /\ engine = "load" /\ Go("pick")
  /\ Save([c \in Changes |-> Reconciled(c)])
  /\ Outside /\ UNCHANGED <<repo, cur, visited, anchor, late>>

(* classify with the broker's gate resolver.                                *)
Ready(c) ==
  /\ ~mem[c].failed /\ mem[c].done < Stages
  /\ Open(c) /\ (mem[c].created => mem[c].accepted)

Picked(c) == engine = "pick" /\ c \notin visited /\ Ready(c)

Drive(c) ==
  /\ Picked(c) /\ change_authored(c)
  /\ cur' = c /\ Go("visit")
  /\ Outside /\ UNCHANGED <<file, repo, mem, visited, anchor, late>>

(* The attempt is counted and saved before the worker is dispatched.        *)
CreateStage(c) ==
  /\ Picked(c) /\ ~change_authored(c) /\ mem[c].attempts < CreateMaxAttempts
  /\ cur' = c /\ Go("visit")
  /\ Save([mem EXCEPT ![c].attempts = @ + 1])
  /\ Outside /\ UNCHANGED <<repo, visited, anchor, late>>

CreateExhausted(c) ==
  /\ Picked(c) /\ ~change_authored(c) /\ mem[c].attempts = CreateMaxAttempts
  /\ Save([mem EXCEPT ![c].failed = TRUE])
  /\ Outside /\ UNCHANGED <<repo, engine, cur, visited, anchor, late>>

(* Nothing is ready: the records are saved once more.                       *)
EndRun ==
  /\ engine = "pick" /\ \A c \in Changes \ visited : ~Ready(c)
  /\ json' = mem /\ forgotten' = {c \in forgotten : mem[c].attempts = 0}
  /\ Exit
  /\ Outside /\ UNCHANGED <<repo, late>>

(* The change is left pending: its reason is saved and the run goes on.     *)
Leave == Save(mem) /\ visited' = visited \cup {cur} /\ Go("pick") /\ Close
Pass(l) == Go(l) /\ UNCHANGED <<file, mem, cur, visited, anchor>>

(* open_supervised_gate, for the change; assert_resume_clear, unless it is   *)
(* to be created.                                                           *)
OpenGate ==
  /\ engine = "visit"
  /\ IF change_authored(cur) => Clear(cur)
     THEN Go("authority") /\ anchor' = revision /\ UNCHANGED <<file, mem, cur, visited>>
     ELSE Leave
  /\ Outside /\ UNCHANGED <<repo, late>>

(* assert_authority_gate.  A human-only gate that is merely closed would be  *)
(* recorded as a human wait here, but StartRun has refused the run before.  *)
AuthorityGate ==
  /\ engine = "authority"
  /\ IF Clear(cur) /\ Open(cur) THEN Pass("fresh") ELSE Leave
  /\ Outside /\ UNCHANGED <<repo, late>>

(* Mutant: the revision the gate was opened under is not compared.          *)
FreshnessGateUnchecked ==
  /\ engine = "fresh" /\ Pass("begin")
  /\ Outside /\ UNCHANGED <<repo, late>>

(* assert_material_freshness                                                *)
FreshnessGate ==
  /\ engine = "fresh"
  /\ IF revision = anchor THEN Pass("begin") ELSE Leave
  /\ Outside /\ UNCHANGED <<repo, late>>

Begin ==
  /\ engine = "begin" /\ Pass(IF change_authored(cur) THEN "work" ELSE "create")
  /\ late' = IF revision = anchor THEN late ELSE late + 1
  /\ Outside /\ UNCHANGED repo

(* The author writes the change's directory.                                *)
CreateWork ==
  /\ engine = "create" /\ ~change_authored(cur)
  /\ \E d \in Directories \ {"none"} : tree' = [tree EXCEPT ![cur] = d]
  /\ Outside /\ UNCHANGED <<file, archived, run>>

(* Only the evidence counts; a command that cannot be started fails the      *)
(* change at once.                                                          *)
CreateResult ==
  /\ engine = "create"
  /\ IF verify_change_created(cur) THEN Save([mem EXCEPT ![cur].created = TRUE])
     ELSE \E f \in {TRUE, mem[cur].attempts = CreateMaxAttempts} :
            Save([mem EXCEPT ![cur].failed = f])
  /\ Go("pick") /\ Close
  /\ Outside /\ UNCHANGED <<repo, visited, late>>

(* A stage succeeds or does not; the last one archives the change.          *)
Finish ==
  /\ engine = "work"
  /\ \E n \in {0, 1} :
       LET over == mem[cur].done + n = Stages
       IN  /\ Save([mem EXCEPT ![cur].done = @ + n])
           /\ archived' = IF over THEN archived \cup {cur} ELSE archived
           /\ IF over THEN Go("pick") /\ Close ELSE Go("authority") /\ UNCHANGED <<cur, anchor>>
  /\ Outside /\ UNCHANGED <<tree, visited, late>>

KillEngine ==
  /\ engine # "off" /\ Exit
  /\ Outside /\ UNCHANGED <<file, repo, late>>

-----------------------------------------------------------------------------
Operator ==
  \/ \E S \in SUBSET Changes : Approve(S)
  \/ \E c \in Changes : Accept(c) \/ ResetChange(c)
  \/ RevisePolicy \/ IncreaseBudget \/ CommandLoads \/ CommandSaves

Service ==
  \/ \E c \in Changes : ReleaseDelegated(c)
  \/ WriterLoads \/ WriterSaves \/ KillService

Engine ==
  \/ StartRun \/ LoadRun \/ EndRun
  \/ \E c \in Changes : Drive(c) \/ CreateStage(c) \/ CreateExhausted(c)
  \/ OpenGate \/ AuthorityGate \/ FreshnessGate \/ Begin
  \/ CreateWork \/ CreateResult \/ Finish \/ KillEngine

Next == Operator \/ Service \/ Engine

Spec == Init /\ [][Next]_vars
=============================================================================
