------------------------ MODULE PrimarySession_proofs ------------------------
(***************************************************************************)
(* Proofs about PrimarySession for any number of starts, recoveries and     *)
(* polls: types, one prompt at a time, and what the journal shows of it.    *)
(***************************************************************************)
EXTENDS SessionProperties, TLAPS

-----------------------------------------------------------------------------
(* Type correctness.  A start launches, creates and prompts at most once,   *)
(* which bounds the names of servers, sessions and prompts.                 *)

(* The session is open, and its prompt, after "begin", on its way.          *)
Opened ==
  {"begin", "contract", "reserve", "dispatch", "send", "unsure", "poll", "unobserved", "resolve",
   "settle", "close", "finish"}

Counted ==
  /\ count <= starts /\ made <= starts /\ launched <= starts
  /\ service \in {"probe", "launch"} => launched < starts
  /\ service \in {"probe", "launch", "create"} => made < starts
  /\ service \in {"probe", "launch", "create", "link", "begin"} => count < starts
  /\ service = "probe" => linked # {}
  /\ linked # {} => \E s \in linked : \A t \in linked : t <= s
  /\ service = "link" => target \in 1 .. made
  /\ service \in Opened => target \in 1 .. made
  /\ service \in Opened \ {"begin"} => count \in 1 .. starts

TypeInv == TypeOK /\ Counted

LEMMA CutType ==
  ASSUME NEW p \in [Ids -> Prompt]
  PROVE  Cut(p) \in [Ids -> Prompt]
  BY DEF Cut, Prompt, Requests

LEMMA LinkageFact ==
  ASSUME TypeInv, linked # {}
  PROVE  Linkage \in linked
  BY DEF TypeInv, Counted, Linkage

LEMMA NoCallType == NoCall \in Call
  BY BoundsAssumption DEF NoCall, Call, Pending, Result, ActionStates

LEMMA TypeInit == Init => TypeInv
<1> SUFFICES ASSUME Init PROVE TypeInv
  OBVIOUS
<1>1. Nothing \in Prompt
  BY DEF Nothing, Prompt, NoSession, NoServer, ActionStates, Reservations, Requests
<1> QED
  BY <1>1, NoCallType, BoundsAssumption
  DEF Init, TypeInv, TypeOK, Counted, Opened, Sessions, Servers, NoSession, NoServer

(* A server that ends, if its own, takes only what it was working on along. *)
LEMMA CloseType ==
  ASSUME TypeInv, Close
  PROVE  /\ servers' \subseteq servers /\ prompts' \in [Ids -> Prompt] /\ service' = "down"
         /\ target' = NoSession /\ own' = NoServer /\ call' = NoCall
  BY CutType DEF TypeInv, TypeOK, Close, Forget, Survives, Dies, Goto

(* What leaves the names alone, and moves to a place past the prompt.       *)
LEMMA TypeKept ==
  ASSUME TypeInv, UNCHANGED <<gateway, launched, made, linked, process, starts>>,
         servers' \subseteq servers, sessions' \subseteq sessions,
         prompts' \in [Ids -> Prompt], call' \in Call, count' = count,
         \/ UNCHANGED <<service, target>>
         \/ UNCHANGED target /\ service \in Opened \ {"begin"} /\ service' \in Opened \ {"begin"}
         \/ UNCHANGED target /\ service' \in {"refused", "serving"}
         \/ service' = "down" /\ target' = NoSession,
         own' \in {own, NoServer},
         recoveries' \in 0 .. MaxRecoveries, engine' \in {"idle", "marked"}
  PROVE  TypeInv'
  BY DEF TypeInv, TypeOK, Counted, Opened

LEMMA TypeStep == TypeInv /\ [Next]_vars => TypeInv'
<1> SUFFICES ASSUME TypeInv, [Next]_vars PROVE TypeInv'
  OBVIOUS
<1> USE DEF server, journal, memory, bounds
<1>1. prompts \in [Ids -> Prompt] /\ call \in Call /\ recoveries \in 0 .. MaxRecoveries
      /\ engine \in {"idle", "marked"} /\ count \in Nat /\ starts \in 0 .. MaxStarts
      /\ made \in Nat /\ launched \in Nat /\ MaxStarts \in Nat
  BY BoundsAssumption DEF TypeInv, TypeOK
<1>2. CASE Start
  BY <1>1, <1>2 DEF Start, At, Goto, TypeInv, TypeOK, Counted, Opened
<1>3. CASE Open
  <2>1. CASE Adopt
    <3>1. Linkage \in linked
      BY <2>1, LinkageFact DEF Adopt, At, TypeInv, Counted
    <3>2. Linkage \in Sessions
      BY <1>1, <3>1 DEF TypeInv, TypeOK, Counted, Sessions
    <3> QED BY <1>1, <2>1, <3>1, <3>2 DEF Adopt, At, Goto, TypeInv, TypeOK, Counted, Opened
  <2>2. CASE Unreachable
    BY <2>2 DEF Unreachable, At, Goto, TypeInv, TypeOK, Counted, Opened
  <2>3. CASE Launch
    BY <1>1, <2>3 DEF Launch, At, Goto, TypeInv, TypeOK, Counted, Opened, Servers
  <2>4. CASE LaunchFails
    BY <1>1, <2>4, NoCallType, TypeKept DEF LaunchFails, Goto, Forget
  <2>5. CASE CreateSession
    BY <1>1, <2>5 DEF CreateSession, At, Goto, TypeInv, TypeOK, Counted, Opened, Sessions
  <2>6. CASE CreateFails
    BY <1>1, <2>6, CloseType, NoCallType, TypeKept DEF CreateFails
  <2>7. CASE Link
    <3>1. target \in 1 .. made /\ target \in Sessions
      BY <1>1, <2>7 DEF Link, At, TypeInv, Counted, Sessions
    <3>2. linked' = linked \cup {target} /\ process' = [process EXCEPT ![target] = own]
      BY <2>7 DEF Link, Recorded
    <3>3. linked \subseteq 1 .. made
      BY DEF TypeInv, TypeOK
    <3>4. linked' \subseteq 1 .. made /\ process' \in [Sessions -> Servers \cup {NoServer}]
      BY <3>1, <3>2, <3>3 DEF TypeInv, TypeOK
    <3>5. \E s \in linked' : \A t \in linked' : t <= s
      <4>1. CASE linked = {}
        BY <1>1, <3>1, <3>2, <4>1
      <4>2. CASE linked # {}
        <5>1. PICK s \in linked : \A t \in linked : t <= s
          BY <4>2 DEF TypeInv, Counted
        <5>2. s \in Int /\ target \in Int /\ \A t \in linked : t \in Int
          BY <1>1, <3>1, <3>3, <5>1
        <5>3. CASE target <= s
          BY <3>2, <5>1, <5>2, <5>3
        <5>4. CASE s <= target
          <6>1. \A t \in linked' : t <= target
            BY <3>2, <5>1, <5>2, <5>4
          <6> QED BY <3>2, <6>1
        <5> QED BY <5>2, <5>3, <5>4
      <4> QED BY <4>1, <4>2
    <3> QED BY <1>1, <2>7, <3>1, <3>4, <3>5 DEF Link, At, Goto, TypeInv, TypeOK, Counted, Opened
  <2> QED BY <1>3, <2>1, <2>2, <2>3, <2>4, <2>5, <2>6, <2>7 DEF Open
<1>4. CASE Prompting
  <2>1. CASE PromptInFlight \/ Refused
    BY <1>1, <2>1, CloseType, NoCallType, TypeKept DEF PromptInFlight, Refused
  <2>2. CASE BeginPrompt
    <3>1. target \in Sessions /\ target \in 1 .. made /\ count < starts
      BY <1>1, <2>2 DEF BeginPrompt, At, TypeInv, TypeOK, Counted, Opened, Sessions
    <3>2. prompts' \in [Ids -> Prompt]
      BY <1>1, <2>2, <3>1 DEF BeginPrompt, Prompt, NoServer, ActionStates, Reservations, Requests
    <3> QED BY <1>1, <2>2, <3>1, <3>2 DEF BeginPrompt, At, Goto, TypeInv, TypeOK, Counted, Opened
  <2>3. CASE ContractHolds \/ ReserveRefused
    BY <1>1, <2>3, TypeKept DEF ContractHolds, ReserveRefused, At, Goto, Opened
  <2>4. CASE ContractRefused \/ Reserve
    <3>1. prompts' \in [Ids -> Prompt]
      BY <1>1, <2>4 DEF ContractRefused, Reserve, Set, Prompt, ActionStates, Reservations
    <3> QED BY <1>1, <2>4, <3>1, TypeKept DEF ContractRefused, Reserve, At, Goto, Opened
  <2>5. CASE Dispatch
    <3>1. target \in Sessions
      BY <1>1, <2>5 DEF Dispatch, At, TypeInv, Counted, Opened, Sessions
    <3>2. Bound \in Servers \cup {NoServer}
      BY <3>1 DEF Bound, TypeInv, TypeOK
    <3>3. prompts' \in [Ids -> Prompt]
      BY <1>1, <2>5, <3>2 DEF Dispatch, Set, Prompt, ActionStates
    <3> QED BY <1>1, <2>5, <3>3, TypeKept DEF Dispatch, At, Goto, Opened
  <2>6. ASSUME NEW r \in Requests, Reach(r)
        PROVE  prompts' \in [Ids -> Prompt]
    <3>1. Answering \in Servers
      BY <1>1, <2>6 DEF Reach, Up, Answering, TypeInv, TypeOK, Counted, Opened, Servers
    <3> QED BY <1>1, <2>6, <3>1 DEF Reach, Set, Prompt
  <2>7. CASE Sent
    BY <1>1, <2>6, <2>7, TypeKept DEF Sent, At, Goto, Opened, Requests
  <2>8. CASE AckLost
    <3>1. call' \in Call
      BY <1>1, <2>8 DEF AckLost, Call
    <3>2. prompts' \in [Ids -> Prompt]
      BY <1>1, <2>6, <2>8 DEF AckLost, Requests
    <3> QED BY <1>1, <2>8, <3>1, <3>2, TypeKept DEF AckLost, At, Goto, Opened
  <2>9. CASE MarkUncertain
    <3>1. prompts' \in [Ids -> Prompt]
      BY <1>1, <2>9 DEF MarkUncertain, Set, Prompt, ActionStates
    <3> QED BY <1>1, <2>9, <3>1, TypeKept DEF MarkUncertain, At, Goto, Opened
  <2> QED
    BY <1>4, <2>1, <2>2, <2>3, <2>4, <2>5, <2>7, <2>8, <2>9 DEF Prompting
<1>5. CASE Resolving
  <2>1. Observed \in Result /\ Pending(FALSE) \in Result
    BY DEF Observed, Pending, Over, Result
  <2>2. ASSUME NEW r \in Result
        PROVE  [call EXCEPT !.result = r] \in Call
    BY <1>1 DEF Call
  <2>3. CASE PollAgain
    <3>1. call' \in Call
      BY <1>1, <2>3, BoundsAssumption DEF PollAgain, AttemptsLeft, Call
    <3> QED BY <1>1, <2>3, <3>1, TypeKept DEF PollAgain
  <2>4. CASE PollEnds \/ PollFails
    <3>1. call' \in Call
      BY <1>1, <2>1, <2>2, <2>4 DEF PollEnds, PollFails, Polled
    <3> QED BY <1>1, <2>4, <3>1, TypeKept DEF PollEnds, PollFails, Polled, At, Goto, Opened
  <2>5. CASE Unobserved
    <3>1. prompts' \in [Ids -> Prompt]
      BY <1>1, <2>5 DEF Unobserved, Set, Prompt, Reservations
    <3> QED BY <1>1, <2>5, <3>1, NoCallType, TypeKept DEF Unobserved, Serve, Goto
  <2>6. CASE Resolve
    <3>1. call' \in Call
      <4>1. CASE prompts[cur].state \in Closed
        BY <2>6, <4>1, NoCallType DEF Resolve, Serve
      <4>2. CASE prompts[cur].state \notin Closed
        <5>1. count \in Ids
          BY <1>1, <2>6 DEF Resolve, At, TypeInv, Counted, Opened, Ids
        <5>2. prompts[cur].state \in ActionStates
          BY <1>1, <5>1 DEF cur, Prompt
        <5> QED BY <1>1, <2>6, <4>2, <5>2 DEF Resolve, Call
      <4> QED BY <4>1, <4>2
    <3> QED BY <1>1, <2>6, <3>1, TypeKept DEF Resolve, Serve, At, Goto, Opened
  <2>7. CASE Settle
    <3>1. prompts' \in [Ids -> Prompt]
      BY <1>1, <2>7 DEF Settle, Settlements, Set, Prompt, Reservations
    <3> QED BY <1>1, <2>7, <3>1, TypeKept DEF Settle, At, Goto, Opened
  <2>8. CASE StillPending
    <3>1. prompts' \in [Ids -> Prompt]
      <4>1. \/ prompts' = prompts
            \/ prompts' = [prompts EXCEPT ![cur] = [prompts[cur] EXCEPT !.state = "uncertain", !.detail = NoSession]]
        BY <2>8 DEF StillPending, Set
      <4>2. ASSUME NEW p \in Prompt
            PROVE  [p EXCEPT !.state = "uncertain", !.detail = NoSession] \in Prompt
        BY DEF Prompt, ActionStates
      <4> QED BY <1>1, <4>1, <4>2
    <3> QED BY <1>1, <2>8, <3>1, NoCallType, TypeKept DEF StillPending, Serve, Fail, Goto
  <2>9. CASE Reconcile
    <3>1. prompts' \in [Ids -> Prompt]
      BY <1>1, <2>9 DEF Reconcile, Set, Prompt, ActionStates
    <3> QED BY <1>1, <2>9, <3>1, TypeKept DEF Reconcile, At, Goto, Opened
  <2>10. CASE Finish
    <3>1. prompts' \in [Ids -> Prompt]
      BY <1>1, <2>10 DEF Finish, Set, Prompt, ActionStates
    <3> QED BY <1>1, <2>10, <3>1, NoCallType, TypeKept DEF Finish, Serve, Fail, Goto
  <2> QED
    BY <1>5, <2>3, <2>4, <2>5, <2>6, <2>7, <2>8, <2>9, <2>10 DEF Resolving
<1>6. CASE Shutdown
  BY <1>1, <1>6, CloseType, NoCallType, TypeKept DEF Shutdown
<1>7. CASE Crash
  BY <1>1, <1>7, NoCallType, TypeKept DEF Crash, Goto, Forget
<1>8. CASE MarkPending \/ RetainPending
  <2>1. prompts' \in [Ids -> Prompt]
    BY <1>1, <1>8 DEF MarkPending, RetainPending, Prompt, ActionStates, Reservations
  <2>2. recoveries' \in 0 .. MaxRecoveries
    BY <1>1, <1>8, BoundsAssumption DEF MarkPending, RetainPending
  <2> QED BY <1>1, <1>8, <2>1, <2>2, TypeKept DEF MarkPending, RetainPending
<1>9. CASE ServerStep
  <2>1. prompts' \in [Ids -> Prompt]
    <3>1. ASSUME NEW k \in servers, ServerDies(k) PROVE prompts' \in [Ids -> Prompt]
      BY <1>1, <3>1, CutType DEF ServerDies, Dies
    <3>2. ASSUME NEW i \in Ids, Arrives(i) \/ Replies(i) PROVE prompts' \in [Ids -> Prompt]
      BY <1>1, <3>2 DEF Arrives, Replies, Prompt, Requests
    <3>3. ASSUME NEW s \in sessions, Deleted(s) PROVE prompts' \in [Ids -> Prompt]
      BY <1>1, <3>3 DEF Deleted, Prompt, Requests
    <3> QED BY <1>9, <3>1, <3>2, <3>3 DEF ServerStep
  <2> QED BY <1>1, <1>9, <2>1, TypeKept DEF ServerStep, ServerDies, Dies, Arrives, Replies, Deleted
<1>10. CASE UNCHANGED vars
  BY <1>1, <1>10, TypeKept DEF vars
<1> QED BY <1>2, <1>3, <1>4, <1>5, <1>6, <1>7, <1>8, <1>9, <1>10 DEF Next, ServiceStep

(* Every reachable state is well typed, whatever the bounds.                *)
THEOREM TypeCorrect == Spec => []TypeOK
<1>1. TypeInv => TypeOK
  BY DEF TypeInv
<1> QED BY <1>1, TypeInit, TypeStep, PTL DEF Spec

-----------------------------------------------------------------------------
(* The journal and the server.                                              *)

(* What the ledger shows of a prompt, given what became of its request.     *)
Sound(p) ==
  /\ p.detail \in {NoSession, p.session}
  /\ p.request \in Live =>
       p.state \in InFlightStates \ {"intent"} /\ p.session \in sessions /\ servers # {}
  /\ p.request # "unsent" =>
       p.state \notin {"absent", "intent"} /\ p.reservation # "none" /\ p.session \in linked
  /\ p.state = "completed" => p.request = "completed"
  /\ p.by # NoServer => gateway \/ p.by = p.process

(* A prompt follows another one in its session only once that is closed.    *)
Succession ==
  \A i, j \in Ids : i < j /\ j <= count /\ prompts[i].session = prompts[j].session
                     => prompts[i].state \notin InFlightStates

Journal ==
  /\ \A i \in Ids : Sound(prompts[i]) /\ (i > count => prompts[i] = Nothing)
  /\ Succession

(* What the service relies on, place by place, of the prompt it has issued. *)
Dispatched == {"send", "unsure", "poll", "unobserved", "resolve", "settle", "close"}
Mine == prompts[count]
Memory ==
  /\ \A k, l \in servers : k = l
  /\ service \in Opened => target \in linked
  /\ service \in Opened \ {"begin"} => Mine.session = target
  /\ service \in {"contract", "reserve", "dispatch"} =>
       Mine.state = "intent" /\ Mine.request = "unsent" /\ Mine.by = NoServer
  /\ service = "dispatch" => Mine.reservation # "none"
  /\ service \in {"reserve", "dispatch", "send"} => gateway \/ servers \subseteq {Bound}
  /\ service \in Dispatched => Mine.state \in {"dispatched", "uncertain"} /\ Mine.reservation # "none"
  /\ service = "send" => Mine.request = "unsent" /\ Mine.process = Bound /\ Mine.by = NoServer
  /\ service \in {"settle", "close"} =>
       call.read \in {"dispatched", "uncertain"} /\ (call.read = "uncertain" => Mine.state = "uncertain")
  /\ service = "finish" => /\ Mine.state \in {"dispatched", "uncertain", "reconciled"}
                           /\ Mine.reservation # "none" /\ call.result.status # "pending"
  /\ service \in {"resolve", "settle", "close", "finish"} =>
       /\ call.result.status \in {"completed", "error"} => Mine.request = call.result.status
       /\ call.result.status = "aborted" => Mine.request \notin Live

SessionInv == TypeInv /\ Journal /\ Memory

LEMMA MineType ==
  ASSUME TypeInv, service \in Opened \ {"begin"}
  PROVE  count \in Ids /\ Mine \in Prompt /\ cur = count /\ target \in Sessions
  BY BoundsAssumption DEF TypeInv, TypeOK, Counted, Ids, Sessions, Mine, cur

LEMMA SessionInit == Init => Journal /\ Memory
  BY DEF Init, Journal, Memory, Sound, Succession, Nothing, Live, InFlightStates, NoSession, NoServer,
     Opened, Dispatched, Ids

(* Nothing happens to a prompt: the journal stays right.                    *)
LEMMA JournalKept ==
  ASSUME TypeInv, Journal, UNCHANGED <<gateway, prompts, count, servers>>,
         sessions \subseteq sessions', linked \subseteq linked'
  PROVE  Journal'
  BY DEF Journal, Sound, Succession

(* The service writes to its own prompt.                                    *)
LEMMA JournalSet ==
  ASSUME TypeInv, Journal, count \in Ids, NEW p \in Prompt, Sound(p), p.session = Mine.session,
         prompts' = [prompts EXCEPT ![cur] = p],
         UNCHANGED <<gateway, sessions, servers, linked, count>>
  PROVE  Journal' /\ Mine' = p
<1>1. prompts \in [Ids -> Prompt] /\ count \in Nat /\ cur = count
  BY DEF TypeInv, TypeOK, cur
<1>2. prompts'[count] = p /\ \A i \in Ids \ {count} : prompts'[i] = prompts[i]
  BY <1>1
<1>3. \A i \in Ids : Sound(prompts[i])' /\ (i > count => prompts'[i] = Nothing)
  BY <1>1, <1>2 DEF Journal, Sound, Ids
<1>4. Succession'
  BY <1>1, <1>2 DEF Journal, Succession, Mine, Ids
<1> QED BY <1>2, <1>3, <1>4 DEF Journal, Mine

(* What the server, its death or the run engine does to a prompt.           *)
Moved(p, q) ==
  /\ q.session = p.session /\ q.detail = p.detail /\ q.process = p.process /\ q.by = p.by
  /\ q.state = p.state \/ (p.state = "dispatched" /\ q.state = "uncertain")
  /\ q.reservation = p.reservation \/ q.reservation = "retained"
  /\ p.reservation = "none" => q.reservation = "none"
  /\ q.request = p.request \/ (p.request \in Live /\ q.request # "unsent")

LEMMA JournalMoved ==
  ASSUME TypeInv, Journal, \A i \in Ids : Moved(prompts[i], prompts'[i]),
         \A i \in Ids : prompts'[i].request \in Live => prompts[i].session \in sessions' /\ servers' # {},
         \A i \in Ids : prompts[i] = Nothing => prompts'[i] = Nothing,
         UNCHANGED <<gateway, linked, count>>
  PROVE  Journal'
<1>1. \A i \in Ids : prompts[i].state \notin InFlightStates => prompts'[i].state \notin InFlightStates
  BY DEF Moved, InFlightStates
<1>2. Succession'
  BY <1>1 DEF Journal, Succession, Moved
<1>3. ASSUME NEW i \in Ids PROVE Sound(prompts[i])'
  <2>1. Sound(prompts[i]) /\ Moved(prompts[i], prompts'[i])
    BY DEF Journal
  <2>2. prompts'[i].request \in Live => prompts[i].request \in Live
    BY <2>1 DEF Moved
  <2> QED BY <2>1, <2>2 DEF Sound, Moved, Live, InFlightStates
<1> QED BY <1>2, <1>3 DEF Journal

LEMMA MemoryMoved ==
  ASSUME TypeInv, Memory, \A i \in Ids : Moved(prompts[i], prompts'[i]), servers' \subseteq servers,
         UNCHANGED <<gateway, linked, process, count, service, target, own, call>>
  PROVE  Memory'
<1>1. (\A k, l \in servers' : k = l) /\ Bound' = Bound
  BY DEF Memory, Bound
<1>2. CASE service \notin Opened \ {"begin"}
  BY <1>1, <1>2 DEF Memory, Opened, Dispatched
<1>3. CASE service \in Opened \ {"begin"}
  <2>1. Moved(Mine, Mine')
    BY <1>3, MineType DEF Mine
  <2> QED BY <1>1, <1>3, <2>1 DEF Memory, Moved, Dispatched, Live
<1> QED BY <1>2, <1>3

(* A server that dies takes the only one there is.                          *)
LEMMA CutFacts ==
  ASSUME TypeInv, Journal, Memory, NEW k \in servers, Dies(k),
         UNCHANGED <<gateway, linked, count>>
  PROVE  /\ servers' = {} /\ \A i \in Ids : Moved(prompts[i], prompts'[i]) /\ prompts'[i].request \notin Live
         /\ Journal'
<1>1. servers' = {}
  BY DEF Dies, Memory
<1>2. \A i \in Ids : /\ Moved(prompts[i], prompts'[i]) /\ prompts'[i].request \notin Live
                     /\ prompts[i] = Nothing => prompts'[i] = Nothing
  <2> TAKE i \in Ids
  <2>1. prompts[i] \in Prompt
    BY DEF TypeInv, TypeOK
  <2>2. prompts'[i] = CASE prompts[i].request = "running" -> [prompts[i] EXCEPT !.request = "cut"]
                       [] prompts[i].request = "transit" -> [prompts[i] EXCEPT !.request = "lost"]
                       [] OTHER -> prompts[i]
    BY DEF Dies, Cut
  <2> QED BY <2>1, <2>2 DEF Moved, Live, Prompt, Nothing
<1> QED BY <1>1, <1>2, JournalMoved

LEMMA CloseFacts ==
  ASSUME SessionInv, Close, UNCHANGED <<gateway, sessions, linked, count>>
  PROVE  Journal' /\ Memory'
<1>1. CASE Survives
  BY <1>1, JournalKept DEF SessionInv, Close, Survives, Goto, Memory, Opened, Dispatched
<1>2. CASE own \in servers /\ Dies(own)
  BY <1>2, CutFacts DEF SessionInv, Close, Goto, Memory, Opened, Dispatched
<1> QED BY <1>1, <1>2 DEF Close

(* Opening the session.                                                     *)
LEMMA SessionOpen == SessionInv /\ Open => Journal' /\ Memory'
<1> SUFFICES ASSUME SessionInv, Open PROVE Journal' /\ Memory'
  OBVIOUS
<1> USE DEF server, journal, memory, bounds
<1>1. CASE Adopt
  <2>1. Linkage \in linked
    BY <1>1, LinkageFact DEF Adopt, At, SessionInv, TypeInv, Counted
  <2> QED BY <1>1, <2>1, JournalKept DEF Adopt, Goto, SessionInv, Memory, Opened, Dispatched
<1>2. CASE Unreachable
  BY <1>2, JournalKept DEF Unreachable, Goto, SessionInv, Memory, Opened, Dispatched
<1>3. CASE Launch
  <2>1. \A i \in Ids : prompts[i].request \notin Live
    BY <1>3 DEF Launch, PortFree, SessionInv, Journal, Sound
  <2>2. UNCHANGED <<prompts, count, gateway, linked>>
    BY <1>3 DEF Launch
  <2>3. Journal'
    BY <2>1, <2>2 DEF SessionInv, Journal, Sound, Succession
  <2>4. \A k, l \in servers' : k = l
    BY <1>3 DEF Launch, PortFree
  <2> QED BY <1>3, <2>3, <2>4 DEF Launch, Goto, Memory, Opened, Dispatched
<1>4. CASE LaunchFails
  BY <1>4, JournalKept DEF LaunchFails, Goto, SessionInv, Memory, Opened, Dispatched
<1>5. CASE CreateSession
  BY <1>5, JournalKept DEF CreateSession, Goto, SessionInv, Memory, Opened, Dispatched
<1>6. CASE CreateFails
  BY <1>6, CloseFacts DEF CreateFails
<1>7. CASE Link
  BY <1>7, JournalKept DEF Link, Recorded, Goto, SessionInv, Memory, Opened, Dispatched
<1> QED BY <1>1, <1>2, <1>3, <1>4, <1>5, <1>6, <1>7 DEF Open

(* A prompt is only begun when none is open in its session.                 *)
LEMMA SessionBegin == SessionInv /\ BeginPrompt => Journal' /\ Memory'
<1> SUFFICES ASSUME SessionInv, BeginPrompt PROVE Journal' /\ Memory'
  OBVIOUS
<1> USE DEF server, journal, memory, bounds
<1> DEFINE new == [session |-> target, detail |-> target, process |-> NoServer,
        by |-> NoServer, state |-> "intent", reservation |-> "none", request |-> "unsent"]
<1>1. service = "begin" /\ service' = "contract" /\ count' = count + 1
      /\ UNCHANGED <<gateway, sessions, servers, linked, target, own, process, call>>
  BY DEF BeginPrompt, At, Goto
<1>2. count \in Nat /\ count + 1 \in Ids /\ prompts \in [Ids -> Prompt]
  BY <1>1, BoundsAssumption DEF SessionInv, TypeInv, TypeOK, Counted, Ids
<1>3. prompts'[count + 1] = new /\ \A i \in Ids \ {count + 1} : prompts'[i] = prompts[i]
  BY <1>1, <1>2 DEF BeginPrompt
<1>4. \A i \in Ids : Sound(prompts[i])' /\ (i > count' => prompts'[i] = Nothing)
  <2> TAKE i \in Ids
  <2>1. CASE i = count + 1
    BY <1>1, <1>2, <1>3, <2>1 DEF Sound, Live
  <2>2. CASE i # count + 1
    BY <1>1, <1>2, <1>3, <2>2 DEF SessionInv, Journal, Sound, Ids
  <2> QED BY <2>1, <2>2
<1>5. Succession'
  <2> SUFFICES ASSUME NEW i \in Ids, NEW j \in Ids, i < j, j <= count + 1,
                      prompts'[i].session = prompts'[j].session
               PROVE  prompts'[i].state \notin InFlightStates
    BY <1>1 DEF Succession
  <2>1. i <= count /\ prompts'[i] = prompts[i]
    BY <1>2, <1>3 DEF Ids
  <2>2. CASE j <= count
    <3>1. prompts'[j] = prompts[j]
      BY <1>2, <1>3, <2>2 DEF Ids
    <3> QED BY <2>1, <2>2, <3>1 DEF SessionInv, Journal, Succession
  <2>3. CASE j = count + 1
    <3>1. prompts[i].session = target
      BY <1>3, <2>1, <2>3
    <3>2. prompts[i].detail \in {NoSession, target}
      BY <3>1 DEF SessionInv, Journal, Sound
    <3> QED BY <2>1, <3>2 DEF BeginPrompt, in_flight_prompt
  <2> QED BY <1>2, <2>2, <2>3 DEF Ids
<1>6. Mine' = new
  BY <1>1, <1>3 DEF Mine
<1>7. Memory'
  BY <1>1, <1>6 DEF SessionInv, Memory, Opened, Dispatched
<1> QED BY <1>4, <1>5, <1>7 DEF Journal

(* Identity, reservation and dispatch, then the request.                    *)
LEMMA SessionPrompting == SessionInv /\ Prompting => Journal' /\ Memory'
<1> SUFFICES ASSUME SessionInv, Prompting PROVE Journal' /\ Memory'
  OBVIOUS
<1> USE DEF server, journal, memory, bounds
<1>1. CASE PromptInFlight \/ Refused
  BY <1>1, CloseFacts DEF PromptInFlight, Refused
<1>2. CASE ContractHolds
  <2>1. gateway \/ servers \subseteq {Bound}
    BY <1>2 DEF ContractHolds, Enforced, SessionInv, Memory
  <2> QED
    BY <1>2, <2>1, JournalKept
    DEF ContractHolds, At, Goto, SessionInv, Memory, Mine, Bound, Opened, Dispatched
<1>3. CASE ReserveRefused
  BY <1>3, JournalKept DEF ReserveRefused, Goto, SessionInv, Memory, Opened, Dispatched
<1>4. ASSUME service \in {"contract", "reserve", "dispatch", "send", "unsure"}
      PROVE  /\ count \in Ids /\ Mine \in Prompt /\ Sound(Mine) /\ cur = count /\ prompts[cur] = Mine
             /\ TypeInv /\ Journal /\ target \in linked /\ Mine.session = target
  BY <1>4, MineType DEF SessionInv, Journal, Mine, Memory, Opened
<1>5. CASE ContractRefused
  <2>1. [Mine EXCEPT !.state = "failed"] \in Prompt
    BY <1>4, <1>5 DEF ContractRefused, At, Prompt, ActionStates
  <2>2. Sound([Mine EXCEPT !.state = "failed"])
    BY <1>4, <1>5, <2>1 DEF ContractRefused, At, SessionInv, Memory, Sound, Prompt, Live
  <2>3. Journal'
    BY <1>4, <1>5, <2>1, <2>2, JournalSet DEF ContractRefused, At, Set, Prompt
  <2> QED BY <1>5, <2>3 DEF ContractRefused, Goto, SessionInv, Memory, Opened, Dispatched
<1>6. CASE Reserve
  <2> DEFINE p == [Mine EXCEPT !.reservation = "reserved"]
  <2>1. service = "reserve" /\ service' = "dispatch" /\ prompts' = [prompts EXCEPT ![cur] = p]
        /\ UNCHANGED <<gateway, sessions, servers, linked, count, target, own, process, call>>
    BY <1>4, <1>6 DEF Reserve, At, Goto, Set
  <2>2. p \in Prompt /\ Sound(p) /\ p.session = Mine.session
    BY <1>4, <2>1 DEF SessionInv, Memory, Sound, Prompt, Live, Reservations
  <2>3. Journal' /\ Mine' = p
    BY <1>4, <2>1, <2>2, JournalSet
  <2> QED BY <1>4, <2>1, <2>3 DEF SessionInv, Memory, Bound, Opened, Dispatched, Prompt
<1>7. CASE Dispatch
  <2> DEFINE p == [Mine EXCEPT !.state = "dispatched", !.process = Bound]
  <2>1. service = "dispatch" /\ service' = "send" /\ prompts' = [prompts EXCEPT ![cur] = p]
        /\ UNCHANGED <<gateway, sessions, servers, linked, count, target, own, process, call>>
    BY <1>4, <1>7 DEF Dispatch, At, Goto, Set
  <2>2. Bound \in Servers \cup {NoServer}
    BY <2>1, MineType DEF Bound, Opened, SessionInv, TypeInv, TypeOK
  <2>3. p \in Prompt /\ Sound(p) /\ p.session = Mine.session
    BY <1>4, <2>1, <2>2 DEF SessionInv, Memory, Sound, Prompt, Live, ActionStates
  <2>4. Journal' /\ Mine' = p
    BY <1>4, <2>1, <2>3, JournalSet
  <2> QED BY <1>4, <2>1, <2>4 DEF SessionInv, Memory, Bound, Opened, Dispatched, Prompt
<1>8. ASSUME NEW r \in {"running", "transit"}, Reach(r), service = "send", service' \in {"poll", "unsure"},
             UNCHANGED <<gateway, sessions, servers, linked, count, target, own, process>>
      PROVE  Journal' /\ Memory'
  <2> DEFINE p == [Mine EXCEPT !.request = r, !.by = Answering]
  <2>1. prompts' = [prompts EXCEPT ![cur] = p] /\ servers # {} /\ target \in sessions /\ Answering \in servers
    BY <1>4, <1>8 DEF Reach, Set, Up, Answering
  <2>2. Answering \in Servers
    BY <2>1, BoundsAssumption DEF SessionInv, TypeInv, TypeOK, Counted, Servers
  <2>3. p \in Prompt /\ p.session = Mine.session
    BY <1>4, <1>8, <2>2 DEF Prompt, Requests
  <2>4. gateway \/ Answering = Bound
    BY <1>8, <2>1 DEF SessionInv, Memory
  <2>5. Sound(p)
    BY <1>4, <1>8, <2>1, <2>3, <2>4 DEF SessionInv, Memory, Sound, Prompt, Live, InFlightStates, Dispatched
  <2>6. Journal' /\ Mine' = p
    BY <1>4, <1>8, <2>1, <2>3, <2>5, JournalSet
  <2> QED BY <1>4, <1>8, <2>6 DEF SessionInv, Memory, Opened, Dispatched, Prompt
<1>9. CASE Sent
  BY <1>8, <1>9 DEF Sent, At, Goto
<1>10. CASE AckLost
  <2>1. CASE prompts' = prompts
    BY <1>4, <1>10, <2>1, JournalKept
    DEF AckLost, At, Goto, SessionInv, Memory, Mine, Opened, Dispatched
  <2> QED BY <1>8, <1>10, <2>1 DEF AckLost, At, Goto
<1>11. CASE MarkUncertain
  <2>1. CASE Markable
    <3> DEFINE p == [Mine EXCEPT !.state = "uncertain"]
    <3>1. service = "unsure" /\ service' = "poll" /\ prompts' = [prompts EXCEPT ![cur] = p]
          /\ UNCHANGED <<gateway, sessions, servers, linked, count, target, own, process, call>>
      BY <1>4, <1>11, <2>1 DEF MarkUncertain, At, Goto, Set
    <3>2. p \in Prompt /\ Sound(p) /\ p.session = Mine.session
      BY <1>4, <3>1 DEF SessionInv, Memory, Sound, Prompt, Live, ActionStates, InFlightStates, Dispatched
    <3>3. Journal' /\ Mine' = p
      BY <1>4, <3>1, <3>2, JournalSet
    <3> QED BY <1>4, <3>1, <3>3 DEF SessionInv, Memory, Opened, Dispatched, Prompt
  <2>2. CASE ~Markable
    BY <1>11, <2>2, JournalKept DEF MarkUncertain, Goto, SessionInv, Memory, Opened, Dispatched
  <2> QED BY <2>1, <2>2
<1> QED
  BY <1>1, <1>2, <1>3, <1>5, <1>6, <1>7, <1>9, <1>10, <1>11, SessionBegin DEF Prompting

(* What is observed of a prompt is what became of its own request.          *)
LEMMA ObservedFacts ==
  ASSUME TypeInv, Journal, count \in Ids, cur = count, Mine \in Prompt, Mine.session = target
  PROVE  /\ Observed.status \in {"completed", "error"} => Mine.request = Observed.status
         /\ Observed.status = "aborted" => Mine.request \notin Live
<1>1. target \notin sessions => Mine.request \notin Live
  BY DEF Journal, Sound, Mine
<1>2. prompts[cur].request = Mine.request
  BY DEF Mine
<1> QED BY <1>1, <1>2 DEF Observed, Over, Pending, Live

(* Polling and applying the outcome.                                        *)
LEMMA SessionResolving == SessionInv /\ Resolving => Journal' /\ Memory'
<1> SUFFICES ASSUME SessionInv, Resolving PROVE Journal' /\ Memory'
  OBVIOUS
<1> USE DEF server, journal, memory, bounds
<1>1. /\ count \in Ids /\ Mine \in Prompt /\ Sound(Mine) /\ cur = count /\ prompts[cur] = Mine
      /\ TypeInv /\ Journal /\ Memory /\ target \in linked /\ Mine.session = target
      /\ UNCHANGED <<gateway, sessions, servers, linked, process, count, target, own>>
  <2>1. service \in Opened \ {"begin"}
    BY DEF Resolving, PollAgain, PollEnds, PollFails, Unobserved, Resolve, Settle, StillPending,
       Reconcile, Finish, At, Opened
  <2>2. UNCHANGED <<gateway, sessions, servers, linked, process, count, target, own>>
    BY DEF Resolving, PollAgain, PollEnds, PollFails, Unobserved, Resolve, Settle, StillPending,
       Reconcile, Finish
  <2> QED BY <2>1, <2>2, MineType DEF SessionInv, Journal, Mine, Memory
<1>2. ASSUME service' \in {"serving", "refused"}, Journal'
      PROVE  Memory'
  BY <1>1, <1>2 DEF Memory, Opened, Dispatched
<1>3. ASSUME prompts' = prompts
      PROVE  Journal' /\ Mine' = Mine
  BY <1>1, <1>3, JournalKept DEF Mine
<1>4. ASSUME NEW p \in Prompt, Sound(p), p.session = Mine.session, prompts' = [prompts EXCEPT ![cur] = p]
      PROVE  Journal' /\ Mine' = p
  BY <1>1, <1>4, JournalSet
<1>5. CASE PollAgain
  BY <1>1, <1>3, <1>5 DEF PollAgain, At, Memory, Opened, Dispatched
<1>6. ASSUME NEW r \in {Observed, Pending(FALSE)}, Polled(r), service = "poll", prompts' = prompts
      PROVE  Journal' /\ Memory'
  <2>1. /\ r.status \in {"completed", "error"} => Mine.request = r.status
        /\ r.status = "aborted" => Mine.request \notin Live
    <3>1. CASE r = Observed
      BY <1>1, <3>1, ObservedFacts
    <3>2. CASE r = Pending(FALSE)
      BY <3>2 DEF Pending
    <3> QED BY <1>6, <3>1, <3>2
  <2>2. call' = [call EXCEPT !.result = r] /\ service' \in {"unobserved", "resolve"}
    BY <1>6 DEF Polled, Goto
  <2>3. call'.result = r
    BY <2>2 DEF SessionInv, TypeInv, TypeOK, Call
  <2> QED BY <1>1, <1>3, <1>6, <2>1, <2>2, <2>3 DEF Memory, Opened, Dispatched
<1>7. CASE PollEnds \/ PollFails
  <2>1. service = "poll" /\ prompts' = prompts
    BY <1>7 DEF PollEnds, PollFails, At
  <2>2. CASE Polled(Observed) \/ Polled(Pending(FALSE))
    BY <1>6, <2>1, <2>2
  <2>3. CASE service' = "refused"
    BY <1>2, <1>3, <2>1, <2>3
  <2> QED BY <1>7, <2>2, <2>3 DEF PollEnds, PollFails, Goto
<1>8. CASE Unobserved
  <2>1. service = "unobserved" /\ service' = "serving"
    BY <1>8 DEF Unobserved, At, Serve, Goto
  <2>2. CASE prompts' = prompts
    BY <1>2, <1>3, <2>1, <2>2
  <2>3. CASE prompts' = [prompts EXCEPT ![cur] = [Mine EXCEPT !.reservation = "retained"]]
    <3> DEFINE p == [Mine EXCEPT !.reservation = "retained"]
    <3>1. p \in Prompt /\ Sound(p) /\ p.session = Mine.session
      BY <1>1 DEF Sound, Prompt, Reservations
    <3> QED BY <1>2, <1>4, <2>1, <2>3, <3>1
  <2> QED BY <1>1, <1>8, <2>2, <2>3 DEF Unobserved, Set
<1>9. CASE Resolve
  <2>1. service = "resolve" /\ prompts' = prompts /\ Mine.state \in {"dispatched", "uncertain"}
    BY <1>1, <1>9 DEF Resolve, At, Memory, Dispatched
  <2>2. service' = "settle" /\ call' = [call EXCEPT !.read = Mine.state]
    BY <1>1, <1>9, <2>1 DEF Resolve, Closed, Goto
  <2>3. call'.read = Mine.state /\ call'.result = call.result
    BY <2>2 DEF SessionInv, TypeInv, TypeOK, Call
  <2> QED BY <1>1, <1>3, <2>1, <2>2, <2>3 DEF Memory, Opened, Dispatched
<1>10. CASE Settle
  <2>1. service = "settle" /\ service' = "close" /\ call' = call
    BY <1>10 DEF Settle, At, Goto
  <2>2. CASE prompts' = prompts
    BY <1>1, <1>3, <2>1, <2>2 DEF Memory, Opened, Dispatched
  <2>3. ASSUME NEW r \in {"reconciled", "retained"},
               prompts' = [prompts EXCEPT ![cur] = [Mine EXCEPT !.reservation = r]]
        PROVE  Journal' /\ Memory'
    <3> DEFINE p == [Mine EXCEPT !.reservation = r]
    <3>1. p \in Prompt /\ Sound(p) /\ p.session = Mine.session
      BY <1>1, <2>3 DEF Sound, Prompt, Reservations
    <3>2. Journal' /\ Mine' = p
      BY <1>4, <2>3, <3>1
    <3> QED BY <1>1, <2>1, <2>3, <3>2 DEF Memory, Opened, Dispatched, Prompt
  <2> QED BY <1>1, <1>10, <2>2, <2>3 DEF Settle, Set, Settlements
<1>11. CASE StillPending
  <2>1. service = "close" /\ service' \in {"serving", "refused"}
    BY <1>11 DEF StillPending, At, Serve, Fail, Goto
  <2>2. CASE prompts' = prompts
    BY <1>2, <1>3, <2>1, <2>2
  <2>3. CASE prompts' = [prompts EXCEPT ![cur] = [Mine EXCEPT !.state = "uncertain", !.detail = NoSession]]
    <3> DEFINE p == [Mine EXCEPT !.state = "uncertain", !.detail = NoSession]
    <3>1. p \in Prompt
      BY <1>1 DEF Prompt, ActionStates
    <3>2. p.state = "uncertain" /\ p.detail = NoSession /\ p.request = Mine.request /\ p.by = Mine.by
          /\ p.session = Mine.session /\ p.reservation = Mine.reservation /\ p.process = Mine.process
      BY <1>1 DEF Prompt
    <3>3. Sound(p)
      BY <1>1, <3>2 DEF Sound, InFlightStates
    <3> QED BY <1>2, <1>4, <2>1, <2>3, <3>1, <3>2, <3>3
  <2> QED BY <1>1, <1>11, <2>2, <2>3 DEF StillPending, Set
<1>12. CASE Reconcile
  <2>1. service = "close" /\ call' = call /\ call.result.status # "pending"
        /\ Mine.state \in {"dispatched", "uncertain"} /\ Mine.reservation # "none"
    BY <1>1, <1>12 DEF Reconcile, At, Memory, Dispatched
  <2>2. CASE prompts' = prompts /\ service' = "finish"
    BY <1>1, <1>3, <2>1, <2>2 DEF Memory, Opened, Dispatched
  <2>3. CASE prompts' = prompts /\ service' = "refused"
    BY <1>2, <1>3, <2>3
  <2>4. CASE /\ prompts' = [prompts EXCEPT ![cur] = [Mine EXCEPT !.state = "reconciled"]]
             /\ service' = "finish"
    <3> DEFINE p == [Mine EXCEPT !.state = "reconciled"]
    <3>1. p \in Prompt /\ Sound(p) /\ p.session = Mine.session
      BY <1>1 DEF Sound, Prompt, ActionStates, InFlightStates
    <3>2. Journal' /\ Mine' = p
      BY <1>4, <2>4, <3>1
    <3> QED BY <1>1, <2>1, <2>4, <3>2 DEF Memory, Opened, Dispatched, Prompt
  <2> QED BY <1>1, <1>12, <2>2, <2>3, <2>4 DEF Reconcile, Set, Goto
<1>13. CASE Finish
  <2>1. service = "finish" /\ service' \in {"serving", "refused"}
    BY <1>13 DEF Finish, At, Serve, Fail, Goto
  <2>2. CASE prompts' = prompts
    BY <1>2, <1>3, <2>1, <2>2
  <2>3. ASSUME NEW how \in {"completed", "failed"}, how = "completed" <=> call.result.status = "completed",
               prompts' = [prompts EXCEPT ![cur] = [Mine EXCEPT !.state = how]]
        PROVE  Journal' /\ Memory'
    <3> DEFINE p == [Mine EXCEPT !.state = how]
    <3>1. call.result.status \in {"completed", "error", "aborted"}
      BY <1>1, <2>1 DEF SessionInv, TypeInv, TypeOK, Call, Result, Memory
    <3>2. Mine.request \notin Live /\ (how = "completed" => Mine.request = "completed")
      BY <1>1, <2>1, <2>3, <3>1 DEF Memory, Live
    <3>3. p \in Prompt /\ Sound(p) /\ p.session = Mine.session
      BY <1>1, <2>3, <3>2 DEF Sound, Prompt, ActionStates
    <3> QED BY <1>2, <1>4, <2>1, <2>3, <3>3
  <2> QED BY <1>1, <1>13, <2>2, <2>3 DEF Finish, Set
<1> QED
  BY <1>5, <1>7, <1>8, <1>9, <1>10, <1>11, <1>12, <1>13 DEF Resolving

LEMMA SessionStep == SessionInv /\ [Next]_vars => SessionInv'
<1> SUFFICES ASSUME SessionInv, [Next]_vars PROVE Journal' /\ Memory'
  BY TypeStep DEF SessionInv
<1> USE DEF server, journal, memory, bounds
<1>1. TypeInv /\ Journal /\ Memory /\ prompts \in [Ids -> Prompt]
  BY DEF SessionInv, TypeInv, TypeOK
<1>2. CASE Start
  BY <1>1, <1>2, JournalKept DEF Start, Goto, Memory, Opened, Dispatched
<1>3. CASE Shutdown
  BY <1>3, CloseFacts DEF Shutdown
<1>4. CASE Crash
  BY <1>1, <1>4, JournalKept DEF Crash, Goto, Memory, Opened, Dispatched
<1>5. CASE MarkPending \/ RetainPending
  <2>1. \A i \in Ids : /\ Moved(prompts[i], prompts'[i]) /\ prompts'[i].request = prompts[i].request
                       /\ prompts[i] = Nothing => prompts'[i] = Nothing
    <3> TAKE i \in Ids
    <3>1. prompts[i] \in Prompt
      BY <1>1
    <3>2. CASE MarkPending
      BY <3>1, <3>2 DEF MarkPending, Moved, Prompt, Nothing
    <3>3. CASE RetainPending
      BY <3>1, <3>3 DEF RetainPending, Moved, Prompt, Nothing
    <3> QED BY <1>5, <3>2, <3>3
  <2>2. UNCHANGED <<gateway, servers, sessions, linked, process, count, service, target, own, call>>
    BY <1>5 DEF MarkPending, RetainPending
  <2>3. \A i \in Ids : prompts'[i].request \in Live => prompts[i].session \in sessions' /\ servers' # {}
    BY <1>1, <2>1, <2>2 DEF Journal, Sound
  <2>4. Journal'
    BY <1>1, <2>1, <2>2, <2>3, JournalMoved
  <2> QED BY <1>1, <2>1, <2>2, <2>4, MemoryMoved
<1>6. ASSUME NEW k \in servers, ServerDies(k)
      PROVE  Journal' /\ Memory'
  <2>1. Dies(k) /\ UNCHANGED <<gateway, linked, process, count, service, target, own, call>>
    BY <1>6 DEF ServerDies
  <2> QED BY <1>1, <2>1, CutFacts, MemoryMoved
<1>7. ASSUME NEW i \in Ids, Arrives(i) \/ Replies(i)
      PROVE  Journal' /\ Memory'
  <2>1. UNCHANGED <<gateway, servers, sessions, linked, process, count, service, target, own, call>>
    BY <1>7 DEF Arrives, Replies
  <2>2. \A j \in Ids : /\ Moved(prompts[j], prompts'[j])
                       /\ prompts'[j].request \in Live => prompts[j].request \in Live
                       /\ prompts[j] = Nothing => prompts'[j] = Nothing
    <3> TAKE j \in Ids
    <3>1. prompts[j] \in Prompt
      BY <1>1
    <3>2. CASE j # i
      BY <1>1, <1>7, <3>2 DEF Arrives, Replies, Moved
    <3>3. ASSUME NEW r \in {"running", "lost", "completed", "error"},
                 prompts' = [prompts EXCEPT ![i].request = r], prompts[i].request \in {"transit", "running"}, j = i
          PROVE  /\ Moved(prompts[j], prompts'[j])
                 /\ prompts'[j].request \in Live => prompts[j].request \in Live
                 /\ prompts[j] = Nothing => prompts'[j] = Nothing
      BY <1>1, <3>1, <3>3 DEF Moved, Live, Prompt, Nothing
    <3> QED BY <1>7, <3>2, <3>3 DEF Arrives, Replies
  <2>3. \A j \in Ids : prompts'[j].request \in Live => prompts[j].session \in sessions' /\ servers' # {}
    BY <1>1, <2>1, <2>2 DEF Journal, Sound
  <2>4. Journal'
    BY <1>1, <2>1, <2>2, <2>3, JournalMoved
  <2> QED BY <1>1, <2>1, <2>2, <2>4, MemoryMoved
<1>8. ASSUME NEW s \in sessions, Deleted(s)
      PROVE  Journal' /\ Memory'
  <2>1. UNCHANGED <<gateway, servers, linked, process, count, service, target, own, call>>
        /\ sessions' = sessions \ {s}
    BY <1>8 DEF Deleted
  <2>2. \A j \in Ids : /\ Moved(prompts[j], prompts'[j])
                       /\ prompts'[j].request \in Live => prompts[j].request \in Live /\ prompts[j].session # s
                       /\ prompts[j] = Nothing => prompts'[j] = Nothing
    <3> TAKE j \in Ids
    <3>1. prompts[j] \in Prompt
      BY <1>1
    <3>2. prompts'[j] = IF prompts[j].session = s /\ prompts[j].request \in {"running", "transit"}
                        THEN [prompts[j] EXCEPT !.request = "gone"] ELSE prompts[j]
      BY <1>8 DEF Deleted
    <3> QED BY <3>1, <3>2 DEF Moved, Live, Prompt, Nothing
  <2>3. \A j \in Ids : prompts'[j].request \in Live => prompts[j].session \in sessions' /\ servers' # {}
    BY <1>1, <2>1, <2>2 DEF Journal, Sound
  <2>4. Journal'
    BY <1>1, <2>1, <2>2, <2>3, JournalMoved
  <2> QED BY <1>1, <2>1, <2>2, <2>4, MemoryMoved
<1>9. CASE UNCHANGED vars
  <2>1. Journal'
    BY <1>1, <1>9, JournalKept DEF vars
  <2> QED BY <1>1, <1>9, <2>1 DEF vars, Memory, Mine, Bound
<1> QED
  BY <1>2, <1>3, <1>4, <1>5, <1>6, <1>7, <1>8, <1>9, SessionOpen, SessionPrompting, SessionResolving
  DEF Next, ServiceStep, ServerStep

LEMMA SessionAlways == Spec => []SessionInv
<1>1. Init => SessionInv
  BY TypeInit, SessionInit DEF SessionInv
<1> QED BY <1>1, SessionStep, PTL DEF Spec

-----------------------------------------------------------------------------
(* At most one prompt of a session runs or may still arrive, for any number *)
(* of starts, crashes, lost acknowledgements and recoveries.                *)
THEOREM OneAtATime == Spec => []OnePrompt
<1>1. SessionInv => OnePrompt
  <2> SUFFICES ASSUME SessionInv, NEW i \in Ids, NEW j \in Ids,
                      prompts[i].request \in Live, prompts[j].request \in Live,
                      prompts[i].session = prompts[j].session
               PROVE  i = j
    BY DEF OnePrompt
  <2>1. \A k \in {i, j} : prompts[k].state \in InFlightStates /\ k <= count
    <3> TAKE k \in {i, j}
    <3>1. prompts[k].state \in InFlightStates
      BY DEF SessionInv, Journal, Sound
    <3>2. prompts[k] # Nothing
      BY <3>1 DEF Nothing, InFlightStates
    <3> QED BY <3>1, <3>2 DEF SessionInv, Journal, TypeInv, TypeOK, Ids
  <2>2. ~(i < j) /\ ~(j < i)
    BY <2>1 DEF SessionInv, Journal, Succession
  <2> QED BY <2>2 DEF Ids
<1> QED BY <1>1, SessionAlways, PTL

(* A prompt is closed only on what became of its own request.               *)
THEOREM OwnOutcome == Spec => []OutcomeIsOwn
<1>1. SessionInv => OutcomeIsOwn
  BY DEF SessionInv, Journal, Sound, OutcomeIsOwn, InFlightStates
<1> QED BY <1>1, SessionAlways, PTL

(* Whatever was sent is in the ledger, with its session and its reservation. *)
THEOREM SentIsJournalled == Spec => []IdentityFirst
<1>1. SessionInv => IdentityFirst
  BY DEF SessionInv, Journal, Sound, IdentityFirst
<1> QED BY <1>1, SessionAlways, PTL

(* Without a gateway a prompt only reaches the server its record names.     *)
THEOREM RightServer == Spec => []ReachesBoundServer
<1>1. SessionInv => ReachesBoundServer
  BY DEF SessionInv, Journal, Sound, ReachesBoundServer
<1> QED BY <1>1, SessionAlways, PTL
=============================================================================
