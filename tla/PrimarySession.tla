--------------------------- MODULE PrimarySession ---------------------------
(***************************************************************************)
(* The service-managed primary session of a supervised job: adopt the       *)
(* recorded session or launch a replacement server, then brief it with one  *)
(* prompt whose identity, reservation and dispatch are in the ledger before *)
(* the request leaves, and whose outcome is only ever polled.               *)
(*                                                                          *)
(* The service may crash between any two transactions and is started again  *)
(* while the session server, a process of its own, keeps running; an        *)
(* acknowledgement may be lost and the prompt arrive later or never; the    *)
(* run engine, which shares the ledger, marks every dispatched action of    *)
(* the job uncertain whenever it recovers a dispatch.                       *)
(***************************************************************************)
EXTENDS Integers, FiniteSets

CONSTANTS
  MaxStarts,      \* bound: starts of the service, each of which prompts at most once
  MaxRecoveries,  \* bound: recoveries by the run engine
  MaxPolls        \* budgets.BACKOFF_MAX_ATTEMPTS

ASSUME BoundsAssumption ==
  MaxStarts \in Nat /\ MaxRecoveries \in Nat /\ MaxPolls \in Nat \ {0}

VARIABLES
  gateway,    \* whether a model gateway is configured
  servers,    \* session servers of the job that are alive
  launched,   \* number of servers launched so far
  sessions,   \* sessions the server knows
  made,       \* number of sessions created so far
  linked,     \* ledger: sessions recorded as the primary session
  process,    \* ledger: the server process recorded with each of them
  prompts,    \* ledger: the supervisor_prompt actions, and what became of each at the server
  count,      \* number of prompts begun
  service,    \* where the service is
  target,     \* the session it is opening
  own,        \* the server it launched itself, if it did
  call,       \* what the service holds in memory of the prompt it has issued
  starts, recoveries,
  engine      \* where the run engine's recovery is

server == <<gateway, servers, launched, sessions, made>>
journal == <<linked, process>>
memory == <<target, own, call>>
bounds == <<starts, recoveries>>
vars == <<server, journal, prompts, count, service, memory, bounds, engine>>

Ids == 1 .. MaxStarts
Sessions == 1 .. MaxStarts
Servers == 1 .. MaxStarts
NoSession == 0
NoServer == 0

ActionStates == {"absent", "intent", "dispatched", "uncertain", "reconciled", "completed", "failed"}
Closed == {"completed", "failed"}
(* Where the request is: "cut" when its server died under it, "gone" when   *)
(* its session was deleted.                                                 *)
Requests == {"unsent", "transit", "lost", "running", "cut", "gone", "completed", "error"}
Reservations == {"none", "reserved", "retained", "reconciled"}
Prompt ==
  [session : Sessions \cup {NoSession},   \* session the dispatch record names
   detail : Sessions \cup {NoSession},    \* session_id of the action's detail, if it has one
   process : Servers \cup {NoServer},     \* server process the dispatch record names
   by : Servers \cup {NoServer},          \* server the request was sent to
   state : ActionStates, reservation : Reservations, request : Requests]
Nothing == [session |-> NoSession, detail |-> NoSession, process |-> NoServer,
            by |-> NoServer, state |-> "absent",
            reservation |-> "none", request |-> "unsent"]

Pending(found) == [status |-> "pending", marker |-> found]
Over(status, found) == [status |-> status, marker |-> found]
Result == [status : {"pending", "aborted", "error", "completed"}, marker : BOOLEAN]

(* Polls made, the last result, the state the action had when its outcome   *)
(* began to be applied, and whether the acknowledgement was lost            *)
Call == [polls : 0 .. MaxPolls, result : Result, read : ActionStates, lost : BOOLEAN]
NoCall == [polls |-> 0, result |-> Pending(FALSE), read |-> "absent", lost |-> FALSE]

Init ==
  /\ gateway \in BOOLEAN /\ servers = {} /\ launched = 0 /\ sessions = {} /\ made = 0
  /\ linked = {} /\ process = [s \in Sessions |-> NoServer]
  /\ prompts = [i \in Ids |-> Nothing] /\ count = 0
  /\ service = "down" /\ target = NoSession /\ own = NoServer /\ call = NoCall
  /\ starts = 0 /\ recoveries = 0 /\ engine = "idle"

-----------------------------------------------------------------------------
(* The session server, as the bridge uses it.                               *)

(* Requests a server was working on when it died                            *)
Cut(p) == [i \in Ids |->
  CASE p[i].request = "running" -> [p[i] EXCEPT !.request = "cut"]
    [] p[i].request = "transit" -> [p[i] EXCEPT !.request = "lost"]
    [] OTHER -> p[i]]

Survives == servers' = servers /\ prompts' = prompts
Dies(k) == servers' = servers \ {k} /\ prompts' = Cut(prompts)

ServerDies(k) ==
  /\ Dies(k)
  /\ UNCHANGED <<gateway, launched, sessions, made, journal, count, service, memory, bounds, engine>>

(* All servers of the job have one address: the one that is up answers      *)
Up == servers # {}
Answering == CHOOSE k \in servers : TRUE

(* A prompt whose acknowledgement was lost arrives after all, or never      *)
Arrives(i) ==
  /\ prompts[i].request = "transit" /\ Up /\ prompts[i].session \in sessions
  /\ \E there \in {"running", "lost"} : prompts' = [prompts EXCEPT ![i].request = there]
  /\ UNCHANGED <<server, journal, count, service, memory, bounds, engine>>

Replies(i) ==
  /\ prompts[i].request = "running"
  /\ \E how \in {"completed", "error"} : prompts' = [prompts EXCEPT ![i].request = how]
  /\ UNCHANGED <<server, journal, count, service, memory, bounds, engine>>

(* The session is deleted, with whatever it was running                     *)
Deleted(s) ==
  /\ Up /\ s \in sessions /\ sessions' = sessions \ {s}
  /\ prompts' = [i \in Ids |->
       IF prompts[i].session = s /\ prompts[i].request \in {"running", "transit"}
       THEN [prompts[i] EXCEPT !.request = "gone"] ELSE prompts[i]]
  /\ UNCHANGED <<gateway, servers, launched, made, journal, count, service, memory, bounds, engine>>

-----------------------------------------------------------------------------
(* open_primary_session                                                     *)

At(pc) == service = pc
Goto(pc) == service' = pc

(* primary_session_linkage: the newest linkage action, in whatever state    *)
Linkage == CHOOSE s \in linked : \A t \in linked : t <= s

Start ==
  /\ At("down") /\ starts < MaxStarts /\ starts' = starts + 1
  /\ Goto(IF linked = {} THEN "launch" ELSE "probe")
  /\ UNCHANGED <<server, journal, prompts, count, memory, recoveries, engine>>

(* Nothing of a service that has ended is left in memory.                   *)
Forget == target' = NoSession /\ own' = NoServer /\ call' = NoCall

(* PrimarySessionRuntime.close, or terminate() of a server not yet in use:  *)
(* a server of one's own is asked to end and may take its time, an adopted  *)
(* one is left alone.                                                       *)
Close ==
  /\ Goto("down") /\ Forget
  /\ Survives \/ (own \in servers /\ Dies(own))

(* The recorded session answers at the recorded address and is adopted      *)
Adopt ==
  /\ At("probe") /\ Up /\ Linkage \in sessions
  /\ target' = Linkage /\ Goto("begin")
  /\ UNCHANGED <<server, journal, prompts, count, own, call, bounds, engine>>

(* ... or it is unknown there, or the probe failed, if only for a moment    *)
Unreachable ==
  /\ At("probe") /\ Goto("launch")
  /\ UNCHANGED <<server, journal, prompts, count, memory, bounds, engine>>

(* Mutant: a replacement may take the address of a living server            *)
PortShared == launched < MaxStarts

(* job_loopback_port: every server of the job binds the same port           *)
PortFree == servers = {}

Launch ==
  /\ At("launch") /\ PortFree
  /\ launched' = launched + 1 /\ servers' = servers \cup {launched'} /\ own' = launched'
  /\ Goto("create")
  /\ sessions' \in {sessions, {}}        \* stored by the server it replaces, or not
  /\ UNCHANGED <<gateway, made, journal, prompts, count, target, call, bounds, engine>>

(* No mechanism, no address before the timeout, an unsupported version      *)
LaunchFails ==
  /\ At("launch") /\ Goto("down") /\ Forget
  /\ UNCHANGED <<server, journal, prompts, count, bounds, engine>>

CreateSession ==
  /\ At("create") /\ Up
  /\ made' = made + 1 /\ sessions' = sessions \cup {made'} /\ target' = made'
  /\ Goto("link")
  /\ UNCHANGED <<gateway, servers, launched, journal, prompts, count, own, call, bounds, engine>>

CreateFails ==
  /\ At("create") /\ Close
  /\ UNCHANGED <<gateway, launched, sessions, made, journal, count, bounds, engine>>

Recorded == linked' = linked \cup {target} /\ process' = [process EXCEPT ![target] = own]

(* Mutant: the linkage is recorded once the session has been briefed        *)
LinkWhenServing ==
  /\ \/ At("link") /\ Goto("begin") /\ UNCHANGED journal
     \/ At("serving") /\ target \notin linked /\ Recorded /\ Goto("serving")
  /\ UNCHANGED <<server, prompts, count, memory, bounds, engine>>

(* record_primary_session_linkage                                           *)
Link ==
  /\ At("link") /\ Recorded /\ Goto("begin")
  /\ UNCHANGED <<server, prompts, count, memory, bounds, engine>>

-----------------------------------------------------------------------------
(* JournaledSessionBridge.prompt                                            *)

(* Mutant: an uncertain prompt no longer holds the session                  *)
InFlightCertain == {"intent", "dispatched", "reconciled"}

InFlightStates == {"intent", "dispatched", "uncertain", "reconciled"}

(* An action whose detail names no session holds every session of the job   *)
in_flight_prompt(s) ==
  \E i \in Ids : prompts[i].state \in InFlightStates /\ prompts[i].detail \in {NoSession, s}

cur == count

Set(field) == prompts' = [prompts EXCEPT ![cur] = field]

PromptInFlight ==
  /\ At("begin") /\ in_flight_prompt(target) /\ Close
  /\ UNCHANGED <<gateway, launched, sessions, made, journal, count, bounds, engine>>

BeginPrompt ==
  /\ At("begin") /\ ~in_flight_prompt(target)
  /\ count' = count + 1
  /\ prompts' = [prompts EXCEPT ![count'] =
       [session |-> target, detail |-> target, process |-> NoServer,
        by |-> NoServer, state |-> "intent", reservation |-> "none", request |-> "unsent"]]
  /\ Goto("contract")
  /\ UNCHANGED <<server, journal, memory, bounds, engine>>

(* The server process the service holds to be the session's: the one it     *)
(* launched, or the one the linkage of the adopted session names            *)
Bound == IF own # NoServer THEN own ELSE process[target]

(* evaluate_transport: through the gateway, or to the launched server alone *)
Enforced == gateway \/ Bound \in servers

(* enforce_prompt_contract: session contract, then transport gate           *)
ContractHolds ==
  /\ At("contract") /\ Enforced /\ Goto("reserve")
  /\ UNCHANGED <<server, journal, prompts, count, memory, bounds, engine>>

(* The gate is closed, or the policy's model pin is malformed               *)
ContractRefused ==
  /\ At("contract") /\ Set([prompts[cur] EXCEPT !.state = "failed"]) /\ Goto("refused")
  /\ UNCHANGED <<server, journal, count, memory, bounds, engine>>

Reserve ==
  /\ At("reserve") /\ Set([prompts[cur] EXCEPT !.reservation = "reserved"]) /\ Goto("dispatch")
  /\ UNCHANGED <<server, journal, count, memory, bounds, engine>>

(* The budget is exhausted; the intent is left as it is                     *)
ReserveRefused ==
  /\ At("reserve") /\ Goto("refused")
  /\ UNCHANGED <<server, journal, prompts, count, memory, bounds, engine>>

(* An error leaves open_primary_session through runtime.close               *)
Refused ==
  /\ At("refused") /\ Close
  /\ UNCHANGED <<gateway, launched, sessions, made, journal, count, bounds, engine>>

Dispatch ==
  /\ At("dispatch") /\ Set([prompts[cur] EXCEPT !.state = "dispatched", !.process = Bound]) /\ Goto("send")
  /\ UNCHANGED <<server, journal, count, memory, bounds, engine>>

(* prompt_async                                                             *)
Reach(there) ==
  /\ Up /\ target \in sessions
  /\ Set([prompts[cur] EXCEPT !.request = there, !.by = Answering])

Sent ==
  /\ At("send") /\ Reach("running") /\ Goto("poll")
  /\ UNCHANGED <<server, journal, count, memory, bounds, engine>>

AckLost ==
  /\ At("send") /\ Goto("unsure") /\ call' = [call EXCEPT !.lost = TRUE]
  /\ prompts' = prompts \/ Reach("running") \/ Reach("transit")
  /\ UNCHANGED <<server, journal, count, target, own, bounds, engine>>

(* ledger.mark_uncertain raises unless the action is an intent or dispatched *)
Markable == prompts[cur].state \in {"intent", "dispatched"}

MarkUncertain ==
  /\ At("unsure")
  /\ IF Markable
     THEN Set([prompts[cur] EXCEPT !.state = "uncertain"]) /\ Goto("poll")
     ELSE Goto("refused") /\ prompts' = prompts
  /\ UNCHANGED <<server, journal, count, memory, bounds, engine>>

-----------------------------------------------------------------------------
(* poll_until_terminal over SessionBridge.result                            *)

(* Mutant: a marker that is not there yet selects the newest other turn     *)
ObservedBorrowed ==
  LET mine == prompts[cur].request
      older == {i \in Ids : i < cur /\ prompts[i].session = target
                             /\ prompts[i].request \in {"completed", "error"}}
  IN  IF target \notin sessions THEN Over("aborted", FALSE)
      ELSE IF mine \in {"completed", "error"} THEN Over(mine, TRUE)
      ELSE IF mine \in {"running", "cut"} THEN Pending(TRUE)
      ELSE IF older # {} THEN Over(prompts[CHOOSE i \in older : TRUE].request, TRUE)
      ELSE Pending(FALSE)

(* parse_result_schema: only a reply to the turn that carries the marker    *)
Observed ==
  LET mine == prompts[cur].request
  IN  IF target \notin sessions THEN Over("aborted", FALSE)
      ELSE IF mine \in {"completed", "error"} THEN Over(mine, TRUE)
      ELSE Pending(mine \in {"running", "cut"})

AttemptsLeft == call.polls + 1 < MaxPolls

(* Mutant: a lost prompt is observed until it is over                       *)
PolledUntilOver(r) ==
  /\ call' = [call EXCEPT !.result = r]
  /\ Goto(IF call.lost /\ r.status = "pending" THEN "poll" ELSE "resolve")

(* The outcome of the poll: to be applied, or only noted by recover_lost_ack *)
Polled(r) ==
  /\ call' = [call EXCEPT !.result = r]
  /\ Goto(IF call.lost /\ r.status = "pending" THEN "unobserved" ELSE "resolve")

PollAgain ==
  /\ At("poll") /\ Up /\ Observed.status = "pending" /\ AttemptsLeft
  /\ call' = [call EXCEPT !.polls = @ + 1]
  /\ UNCHANGED <<server, journal, prompts, count, service, target, own, bounds, engine>>

PollEnds ==
  /\ At("poll") /\ Up /\ (Observed.status # "pending" \/ ~AttemptsLeft)
  /\ Polled(Observed)
  /\ UNCHANGED <<server, journal, prompts, count, target, own, bounds, engine>>

(* A failed lookup is not retried: recover_lost_ack takes it as unobserved, *)
(* after an acknowledged prompt it ends the start.                          *)
PollFails ==
  /\ At("poll")
  /\ IF call.lost THEN Polled(Pending(FALSE)) ELSE Goto("refused") /\ UNCHANGED call
  /\ UNCHANGED <<server, journal, prompts, count, target, own, bounds, engine>>

(* The primary session has been briefed, or its prompt is left open         *)
Serve == Goto("serving") /\ call' = NoCall
Fail == Goto("refused") /\ UNCHANGED call

(* recover_lost_ack: retain_unknown_reservation unless the marker was found *)
Unobserved ==
  /\ At("unobserved") /\ Serve
  /\ IF call.result.marker \/ prompts[cur].reservation # "reserved" THEN prompts' = prompts
     ELSE Set([prompts[cur] EXCEPT !.reservation = "retained"])
  /\ UNCHANGED <<server, journal, count, target, own, bounds, engine>>

-----------------------------------------------------------------------------
(* JournaledSessionBridge.resolve                                           *)

Resolve ==
  /\ At("resolve")
  /\ IF prompts[cur].state \in Closed THEN Serve
     ELSE call' = [call EXCEPT !.read = prompts[cur].state] /\ Goto("settle")
  /\ UNCHANGED <<server, journal, prompts, count, target, own, bounds, engine>>

(* budgets.reconcile: an observation without usage retains the reservation  *)
Settlements ==
  IF call.result.status \in {"completed", "error"} THEN {"reconciled", "retained"} ELSE {"retained"}

(* reconcile_prompt_reservation                                             *)
Settle ==
  /\ At("settle") /\ Goto("close")
  /\ IF prompts[cur].reservation # "reserved" THEN prompts' = prompts
     ELSE \E r \in Settlements : Set([prompts[cur] EXCEPT !.reservation = r])
  /\ UNCHANGED <<server, journal, count, memory, bounds, engine>>

(* A pending observation marks the action uncertain, with a new detail      *)
StillPending ==
  /\ At("close") /\ call.result.status = "pending"
  /\ CASE call.read # "dispatched" -> prompts' = prompts /\ Serve
       [] call.read = "dispatched" /\ Markable ->
            Set([prompts[cur] EXCEPT !.state = "uncertain", !.detail = NoSession]) /\ Serve
       [] OTHER -> prompts' = prompts /\ Fail
  /\ UNCHANGED <<server, journal, count, target, own, bounds, engine>>

(* reconcile_action, for an action that was read as uncertain               *)
Reconcile ==
  /\ At("close") /\ call.result.status # "pending"
  /\ CASE call.read # "uncertain" -> prompts' = prompts /\ Goto("finish")
       [] call.read = "uncertain" /\ prompts[cur].state = "uncertain" ->
            Set([prompts[cur] EXCEPT !.state = "reconciled"]) /\ Goto("finish")
       [] OTHER -> prompts' = prompts /\ Goto("refused")
  /\ UNCHANGED <<server, journal, count, memory, bounds, engine>>

(* complete_action or fail_action: neither takes an uncertain action        *)
Finish ==
  /\ At("finish")
  /\ IF prompts[cur].state \in {"dispatched", "reconciled"}
     THEN /\ Set([prompts[cur] EXCEPT !.state =
                    IF call.result.status = "completed" THEN "completed" ELSE "failed"])
          /\ Serve
     ELSE prompts' = prompts /\ Fail
  /\ UNCHANGED <<server, journal, count, target, own, bounds, engine>>

-----------------------------------------------------------------------------
(* ServiceEndpointHost.close                                                *)
Shutdown ==
  /\ At("serving") /\ Close
  /\ UNCHANGED <<gateway, launched, sessions, made, journal, count, bounds, engine>>

(* The service is killed; its server lives on                               *)
Crash ==
  /\ ~At("down") /\ Goto("down") /\ Forget
  /\ UNCHANGED <<server, journal, prompts, count, bounds, engine>>

(* journal_dispatch.reconcile_pending: the run engine recovers a dispatch   *)
MarkPending ==
  /\ engine = "idle" /\ recoveries < MaxRecoveries /\ recoveries' = recoveries + 1
  /\ prompts' = [i \in Ids |->
       IF prompts[i].state = "dispatched" THEN [prompts[i] EXCEPT !.state = "uncertain"] ELSE prompts[i]]
  /\ engine' = "marked"
  /\ UNCHANGED <<server, journal, count, service, memory, starts>>

RetainPending ==
  /\ engine = "marked" /\ engine' = "idle"
  /\ prompts' = [i \in Ids |->
       IF prompts[i].state = "uncertain" /\ prompts[i].reservation = "reserved"
       THEN [prompts[i] EXCEPT !.reservation = "retained"] ELSE prompts[i]]
  /\ UNCHANGED <<server, journal, count, service, memory, bounds>>

-----------------------------------------------------------------------------
Open == Adopt \/ Unreachable \/ Launch \/ LaunchFails \/ CreateSession \/ CreateFails \/ Link
Prompting ==
  \/ PromptInFlight \/ BeginPrompt \/ ContractHolds \/ ContractRefused \/ Reserve
  \/ ReserveRefused \/ Refused \/ Dispatch \/ Sent \/ AckLost \/ MarkUncertain
Resolving ==
  PollAgain \/ PollEnds \/ PollFails \/ Unobserved \/ Resolve \/ Settle \/ StillPending \/ Reconcile \/ Finish
ServiceStep == Open \/ Prompting \/ Resolving

ServerStep ==
  (\E k \in servers : ServerDies(k)) \/ (\E i \in Ids : Arrives(i) \/ Replies(i)) \/ (\E s \in sessions : Deleted(s))

Next ==
  Start \/ ServiceStep \/ Shutdown \/ Crash \/ MarkPending \/ RetainPending \/ ServerStep

(* A service that runs keeps running: its calls are bounded by timeouts and *)
(* its polling by the backoff schedule.                                     *)
Spec == Init /\ [][Next]_vars /\ WF_vars(ServiceStep)
=============================================================================
