------------------------- MODULE SupervisedJob_proofs -------------------------
(***************************************************************************)
(* Proofs about SupervisedJob for any number of processes, engines killed,  *)
(* restarts of the watchdog and stop requests.                              *)
(***************************************************************************)
EXTENDS JobProperties, TLAPS

-----------------------------------------------------------------------------
(* Types.                                                                   *)

Outer == {"idle", "unhold", "activate", "fence", "authorize", "lock", "unfence", "dead",
          "quiesced", "probe", "attempt"}
Counters == Body \cup Outer
Actions == {"none", "intent", "dispatched", "uncertain", "undispatched", "completed"}

(* The watchdog has attempts left when it is about to make one; only it     *)
(* probes, and only a driver dies.                                          *)
TypeInv ==
  /\ TypeOK
  /\ pc[Watchdog] \in {"quiesced", "probe", "attempt"} => attempts < MaxAttempts
  /\ \A p \in Drivers : pc[p] \notin {"quiesced", "probe", "attempt"}

LEMMA TypeInit == Init => TypeInv
<1> SUFFICES ASSUME Init PROVE TypeInv
  OBVIOUS
<1>1. pc = [p \in Processes |-> "idle"] /\ Watchdog \in Processes /\ Drivers \subseteq Processes
  BY DEF Init, Processes
<1>2. /\ worker \in [Processes -> BOOLEAN] /\ mode \in [Processes -> Modes]
      /\ gated \in [Processes -> BOOLEAN] /\ left \in [Processes -> 0 .. Changes]
      /\ attempts \in 0 .. MaxAttempts /\ kills \in 0 .. MaxKills
  BY BoundsAssumption DEF Init, Modes
<1> QED BY <1>1, <1>2 DEF Init, TypeInv, TypeOK, JobStates, Row, NoRow

(* A step of an engine moves one process between its program counters.      *)
LEMMA TypeMove ==
  ASSUME TypeInv, NEW p \in Processes, NEW l \in Counters \ {"quiesced", "probe", "attempt"},
         To(p, l), UNCHANGED attempts
  PROVE  /\ pc' \in [Processes -> Counters]
         /\ pc'[Watchdog] \in {"quiesced", "probe", "attempt"} => attempts' < MaxAttempts
         /\ \A q \in Drivers : pc'[q] \notin {"quiesced", "probe", "attempt"}
<1>1. pc \in [Processes -> Counters] /\ Watchdog \in Processes /\ Drivers \subseteq Processes
  BY DEF TypeInv, TypeOK, Counters, Outer, Processes
<1> QED BY <1>1 DEF TypeInv, To

(* The commands that come to an engine, and what they write before it runs. *)
LEMMA TypeArrive ==
  ASSUME TypeInv, NEW p \in Drivers, Start(p) \/ Resume(p) \/ Run(p)
  PROVE  TypeInv'
<1>1. PICK l \in {"activate", "unhold", "authorize"}, m \in Modes : Come(p, m, l)
  BY ModesAssumption DEF Start, Resume, Run, Modes
<1>2. p \in Processes /\ l \in Counters \ {"quiesced", "probe", "attempt"}
  BY DEF Processes, Counters, Outer
<1>3. mode' \in [Processes -> Modes]
  BY <1>1, <1>2 DEF Come, TypeInv, TypeOK
<1> QED
  BY <1>1, <1>2, <1>3, TypeMove
  DEF Come, TypeInv, TypeOK, Counters, Outer, ledger, lock, operator, history

LEMMA TypeOutside ==
  ASSUME TypeInv, NEW p \in Processes,
         \/ EndStopWaits(p) \/ Activate(p) \/ RecordFence(p) \/ ReleaseFence(p)
         \/ Authorize(p) \/ AcquireLock(p) \/ Enter(p) \/ ReleaseLock(p)
  PROVE  TypeInv'
<1> USE DEF ledger, lock, engines, operator, history, Counters, Outer, Body
<1>1. {"activate", "fence", "authorize", "lock", "idle", "unfence", "enter", "pick", "release"}
        \subseteq Counters \ {"quiesced", "probe", "attempt"}
  OBVIOUS
<1>2. CASE EndStopWaits(p)
  BY <1>1, <1>2, TypeMove DEF EndStopWaits, EndHolds, TypeInv, TypeOK
<1>3. CASE Activate(p)
  BY <1>1, <1>3, TypeMove DEF Activate, TypeInv, TypeOK, JobStates
<1>4. CASE RecordFence(p)
  BY <1>1, <1>4, TypeMove DEF RecordFence, TypeInv, TypeOK, Row
<1>5. CASE ReleaseFence(p)
  <2>1. mode' \in [Processes -> Modes]
    BY <1>5 DEF ReleaseFence, TypeInv, TypeOK, Modes
  <2> QED BY <1>1, <1>5, <2>1, TypeMove DEF ReleaseFence, TypeInv, TypeOK, Row
<1>6. CASE Authorize(p)
  BY <1>1, <1>6, TypeMove DEF Authorize, Exit, TypeInv, TypeOK
<1>7. CASE AcquireLock(p)
  BY <1>1, <1>7, TypeMove DEF AcquireLock, Exit, TypeInv, TypeOK
<1>8. CASE Enter(p)
  <2>1. left' \in [Processes -> 0 .. Changes] /\ gated' \in [Processes -> BOOLEAN]
    BY <1>8 DEF Enter, TypeInv, TypeOK
  <2> QED BY <1>1, <1>8, <2>1, TypeMove DEF Enter, TypeInv, TypeOK
<1>9. CASE ReleaseLock(p)
  <2>1. left' \in [Processes -> 0 .. Changes] /\ gated' \in [Processes -> BOOLEAN]
    BY <1>9, BoundsAssumption DEF ReleaseLock, TypeInv, TypeOK
  <2> QED BY <1>1, <1>9, <2>1, TypeMove DEF ReleaseLock, Exit, TypeInv, TypeOK
<1> QED BY <1>2, <1>3, <1>4, <1>5, <1>6, <1>7, <1>8, <1>9

LEMMA TypeLoop ==
  ASSUME TypeInv, NEW p \in Processes,
         \/ PickChange(p) \/ NoMoreChanges(p) \/ StopEarly(p) \/ PlainDispatch(p) \/ PlainResult(p)
         \/ ObserveStop(p) \/ HaltJob(p) \/ EvaluateGates(p)
         \/ VerifyCompletion(p) \/ EndAllWaits(p) \/ CompleteJob(p)
  PROVE  TypeInv'
<1> USE DEF ledger, lock, engines, operator, history, Counters, Outer, Body
<1>1. {"pick", "plain", "plainwork", "stage", "observe", "halt", "gates", "begin", "verify",
       "unwait", "complete", "release"} \subseteq Counters \ {"quiesced", "probe", "attempt"}
  OBVIOUS
<1>2. ASSUME NEW l \in Counters \ {"quiesced", "probe", "attempt"}, Turn(p, l)
      PROVE  TypeInv'
  BY <1>2, TypeMove DEF Turn, TypeInv, TypeOK
<1>3. CASE PickChange(p)
  <2>1. left' \in [Processes -> 0 .. Changes]
    <3>1. left[p] \in 0 .. Changes /\ left[p] > 0 /\ left' = [left EXCEPT ![p] = left[p] - 1]
      BY <1>3 DEF PickChange, TypeInv, TypeOK
    <3>2. left[p] - 1 \in 0 .. Changes
      BY <3>1, BoundsAssumption
    <3> QED BY <3>1, <3>2 DEF TypeInv, TypeOK
  <2> QED BY <1>1, <1>3, <2>1, TypeMove DEF PickChange, TypeInv, TypeOK
<1>4. CASE PlainDispatch(p)
  <2>1. worker' \in [Processes -> BOOLEAN]
    BY <1>4 DEF PlainDispatch, TypeInv, TypeOK
  <2> QED BY <1>1, <1>4, <2>1, TypeMove DEF PlainDispatch, TypeInv, TypeOK
<1>5. CASE NoMoreChanges(p) \/ StopEarly(p) \/ PlainResult(p) \/ VerifyCompletion(p)
  BY <1>1, <1>2, <1>5 DEF NoMoreChanges, StopEarly, PlainResult, VerifyCompletion
<1>6. CASE ObserveStop(p) \/ EvaluateGates(p)
  BY <1>1, <1>2, <1>6 DEF ObserveStop, EvaluateGates
<1>7. CASE HaltJob(p)
  BY <1>1, <1>7, TypeMove DEF HaltJob, TypeInv, TypeOK, JobStates
<1>8. CASE EndAllWaits(p)
  BY <1>1, <1>8, TypeMove DEF EndAllWaits, EndHolds, TypeInv, TypeOK
<1>9. CASE CompleteJob(p)
  BY <1>1, <1>9, TypeMove DEF CompleteJob, TypeInv, TypeOK, JobStates
<1> QED BY <1>3, <1>4, <1>5, <1>6, <1>7, <1>8, <1>9

(* Putting an action in a state keeps the journal well typed.               *)
LEMMA PutType ==
  ASSUME TypeOK, NEW k \in Processes \cup {Gone}, NEW s \in Actions, Put(k, s)
  PROVE  /\ action' \in [Processes \cup {Gone} -> Actions]
         /\ action'[k] = s /\ \A j \in Processes \cup {Gone} : j # k => action'[j] = action[j]
<1>1. action \in [Processes \cup {Gone} -> Actions]
  BY DEF TypeOK, Actions
<1> QED BY <1>1 DEF Put

LEMMA TypeStage ==
  ASSUME TypeInv, NEW p \in Processes,
         AdmitStage(p) \/ BeginAction(p) \/ DispatchAction(p) \/ ResolveDispatch(p)
  PROVE  TypeInv'
<1> USE DEF ledger, lock, engines, operator, history, Counters, Outer, Body
<1>1. {"stage", "pick", "observe", "dispatch", "work"} \subseteq Counters \ {"quiesced", "probe", "attempt"}
  OBVIOUS
<1>2. action \in [Processes \cup {Gone} -> Actions]
  BY DEF TypeInv, TypeOK, Actions
<1>3. action' \in [Processes \cup {Gone} -> Actions]
  <2>1. CASE AdmitStage(p)
    <3>1. Swept \in [Processes \cup {Gone} -> Actions]
      BY <1>2 DEF Swept, Actions
    <3>2. ASSUME NEW k \in DOMAIN action, NEW s \in {"completed", "none"}, Put(k, s)
          PROVE  action' \in [Processes \cup {Gone} -> Actions]
      BY <1>2, <3>2 DEF Put, Actions
    <3> QED BY <1>2, <2>1, <3>1, <3>2 DEF AdmitStage, Superseding, ShownComplete
  <2>2. CASE BeginAction(p)
    BY <1>2, <2>2 DEF BeginAction, Put, Actions
  <2>3. CASE DispatchAction(p)
    BY <1>2, <2>3 DEF DispatchAction, Put, Actions
  <2>4. CASE ResolveDispatch(p)
    BY <1>2, <2>4 DEF ResolveDispatch, Put, Actions
  <2> QED BY <2>1, <2>2, <2>3, <2>4
<1>4. worker' \in [Processes -> BOOLEAN] /\ late' \in Nat
  <2>1. CASE AdmitStage(p) \/ ResolveDispatch(p)
    BY <2>1 DEF AdmitStage, ResolveDispatch, TypeInv, TypeOK
  <2>2. CASE BeginAction(p)
    BY <2>2 DEF BeginAction, TypeInv, TypeOK
  <2>3. CASE DispatchAction(p)
    BY <2>3 DEF DispatchAction, TypeInv, TypeOK
  <2> QED BY <2>1, <2>2, <2>3
<1>5. UNCHANGED <<ledger, lock, mode, gated, left, operator, kills, over>>
  BY DEF AdmitStage, BeginAction, DispatchAction, ResolveDispatch
<1>6. \E l \in {"stage", "pick", "observe", "dispatch", "work"} : To(p, l)
  BY DEF AdmitStage, BeginAction, DispatchAction, ResolveDispatch
<1> QED BY <1>1, <1>3, <1>4, <1>5, <1>6, TypeMove DEF TypeInv, TypeOK, Actions

(* A command's list of actions holds what was listed, or follows a kill.    *)
LEMMA TypeOperator == TypeInv /\ (OperatorStep \/ KillCommand) => TypeInv'
<1> SUFFICES ASSUME TypeInv, OperatorStep \/ KillCommand PROVE TypeInv'
  OBVIOUS
<1> USE DEF ledger, lock, engines, operator, history
<1>1. action \in [Processes \cup {Gone} -> Actions]
      /\ todo \subseteq (Processes \cup {Gone}) \X {"intent", "dispatched"}
  BY DEF TypeInv, TypeOK, Actions
<1>2. Listed \subseteq (Processes \cup {Gone}) \X {"intent", "dispatched"}
  BY <1>1 DEF Listed, InFlight
<1>3. CASE Pause \/ Cancel
  BY <1>2, <1>3 DEF Pause, Cancel, TypeInv, TypeOK
<1>4. CASE Drain \/ RecordStop \/ LookInFlight \/ PauseJob \/ CancelWaits \/ CancelJob
  <2>1. job' \in JobStates /\ hold' \in BOOLEAN /\ late' \in Nat
    <3>1. CASE RecordStop \/ CancelWaits
      <4>1. UNCHANGED job /\ (hold' = TRUE \/ hold' = FALSE) /\ (late' = late \/ late' = 0)
        BY <3>1 DEF RecordStop, OpenHold, CancelWaits, EndHolds
      <4>2. hold' \in BOOLEAN
        BY <4>1
      <4>3. job \in JobStates /\ late \in Nat
        BY DEF TypeInv, TypeOK
      <4> QED BY <4>1, <4>2, <4>3
    <3>2. CASE Drain \/ LookInFlight
      BY <3>2 DEF Drain, LookInFlight, TypeInv, TypeOK
    <3>3. CASE PauseJob \/ CancelJob
      BY <3>3 DEF PauseJob, CancelJob, JobStates, TypeInv, TypeOK
    <3> QED BY <1>4, <3>1, <3>2, <3>3
  <2>2. op' \in {"none", "interrupt", "drain", "look", "pausing", "dispose", "cancelling"}
    BY <1>4 DEF Drain, RecordStop, LookInFlight, PauseJob, CancelWaits, CancelJob
  <2>3. UNCHANGED <<fence, last, attempts, lock, action, worker, engines, todo, kills, over>>
    BY <1>4 DEF Drain, RecordStop, LookInFlight, PauseJob, CancelWaits, CancelJob
  <2> QED BY <2>1, <2>2, <2>3 DEF TypeInv, TypeOK
<1>5. CASE InterruptOne \/ DisposeOne
  <2>1. \A t \in todo : t[1] \in Processes \cup {Gone}
    BY <1>1
  <2>2. action' \in [Processes \cup {Gone} -> Actions]
    BY <1>1, <1>5, <2>1 DEF InterruptOne, DisposeOne, Put, Actions
  <2>3. todo' \subseteq todo /\ op' \in {op, "none"}
    BY <1>5 DEF InterruptOne, DisposeOne
  <2>4. UNCHANGED <<ledger, lock, worker, engines, kills, history>>
    BY <1>5 DEF InterruptOne, DisposeOne
  <2> QED BY <1>1, <2>2, <2>3, <2>4 DEF TypeInv, TypeOK, Actions
<1>6. CASE KillCommand
  BY <1>6, BoundsAssumption DEF KillCommand, TypeInv, TypeOK
<1> QED BY <1>3, <1>4, <1>5, <1>6 DEF OperatorStep

LEMMA TypeWatchdog == TypeInv /\ WatchdogStep => TypeInv'
<1> SUFFICES ASSUME TypeInv, WatchdogStep PROVE TypeInv'
  OBVIOUS
<1> USE DEF ledger, lock, operator, history, Watch
<1>1. pc \in [Processes -> Counters] /\ Watchdog \in Processes /\ Drivers \subseteq Processes \ {Watchdog}
  BY ProcessAssumption DEF TypeInv, TypeOK, Counters, Outer, Processes
<1>2. ASSUME NEW l \in Counters, To(Watchdog, l)
      PROVE  /\ pc' \in [Processes -> Counters] /\ pc'[Watchdog] = l
             /\ \A q \in Drivers : pc'[q] \notin {"quiesced", "probe", "attempt"}
  BY <1>1, <1>2 DEF To, TypeInv
<1>3. {"quiesced", "probe", "attempt", "idle", "authorize"} \subseteq Counters
  BY DEF Counters, Outer
<1>4. CASE Tick
  BY <1>2, <1>3, <1>4 DEF Tick, TypeInv, TypeOK, Counters, Outer
<1>5. CASE VerifyQuiescence
  BY <1>1, <1>2, <1>3, <1>5 DEF VerifyQuiescence, TypeInv, TypeOK, Counters, Outer
<1>6. CASE OwnerGone
  BY <1>1, <1>2, <1>3, <1>6 DEF OwnerGone, TypeInv, TypeOK, Counters, Outer
<1>7. CASE Redrive
  <2>1. attempts' \in 0 .. MaxAttempts
    BY <1>7, BoundsAssumption DEF Redrive, TypeInv, TypeOK
  <2>2. mode' \in [Processes -> Modes]
    BY <1>7, ModesAssumption DEF Redrive, TypeInv, TypeOK, Modes
  <2> QED BY <1>2, <1>3, <1>7, <2>1, <2>2 DEF Redrive, TypeInv, TypeOK, Counters, Outer
<1> QED BY <1>4, <1>5, <1>6, <1>7 DEF WatchdogStep

LEMMA TypeEnds ==
  ASSUME TypeInv, NEW p \in Processes, WorkerExits(p) \/ Kill(p) \/ Reap(p)
  PROVE  TypeInv'
<1> USE DEF ledger, lock, engines, operator, history
<1>1. action \in [Processes \cup {Gone} -> Actions]
      /\ todo \subseteq (Processes \cup {Gone}) \X {"intent", "dispatched"}
  BY DEF TypeInv, TypeOK, Actions
<1>2. CASE WorkerExits(p)
  <2>1. action' \in [Processes \cup {Gone} -> Actions] /\ worker' \in [Processes -> BOOLEAN]
    BY <1>1, <1>2 DEF WorkerExits, Actions, TypeInv, TypeOK
  <2> QED BY <1>2, <2>1 DEF WorkerExits, TypeInv, TypeOK, Actions
<1>3. CASE Kill(p)
  <2>1. action' \in [Processes \cup {Gone} -> Actions]
    BY <1>1, <1>3 DEF Kill, Actions
  <2>2. todo' \subseteq (Processes \cup {Gone}) \X {"intent", "dispatched"}
    BY <1>1, <1>3 DEF Kill
  <2>3. left' \in [Processes -> 0 .. Changes] /\ gated' \in [Processes -> BOOLEAN]
    BY <1>3, BoundsAssumption DEF Kill, TypeInv, TypeOK
  <2>4. flock' \in Processes \cup {Nobody} /\ kills' \in 0 .. MaxKills
    BY <1>3, BoundsAssumption DEF Kill, TypeInv, TypeOK
  <2>5. "dead" \in Counters \ {"quiesced", "probe", "attempt"}
    BY DEF Counters, Outer
  <2> QED BY <1>3, <2>1, <2>2, <2>3, <2>4, <2>5, TypeMove
          DEF Kill, TypeInv, TypeOK, Actions, Counters, Outer
<1>4. CASE Reap(p)
  <2>1. \A q \in Processes \cup {Nobody, Gone} : Ended(p, q) \in Processes \cup {Nobody, Gone}
    BY DEF Ended
  <2>2. last' \in Row /\ mode' \in [Processes -> Modes]
    BY <1>4, <2>1 DEF Reap, Row, TypeInv, TypeOK, Modes
  <2>3. "idle" \in Counters \ {"quiesced", "probe", "attempt"}
    BY DEF Counters, Outer
  <2> QED BY <1>4, <2>1, <2>2, <2>3, TypeMove DEF Reap, TypeInv, TypeOK, Counters, Outer
<1> QED BY <1>2, <1>3, <1>4

LEMMA TypeStep == TypeInv /\ [Next]_vars => TypeInv'
<1>1. TypeInv /\ UNCHANGED vars => TypeInv'
  BY DEF TypeInv, TypeOK, vars, ledger, lock, engines, operator, history
<1>2. Drivers \subseteq Processes
  BY DEF Processes
<1> QED BY <1>1, <1>2, TypeArrive, TypeOutside, TypeLoop, TypeStage, TypeOperator, TypeWatchdog,
           TypeEnds DEF Next, EngineStep

THEOREM Types == Spec => []TypeInv
  BY TypeInit, TypeStep, PTL DEF Spec

-----------------------------------------------------------------------------
(* The execution lock.                                                      *)

(* Whoever is in the body of a run has the flock; a probe has it for a      *)
(* moment, and nobody else does.                                            *)
Inside(p) == InBody(p) \/ pc[p] = "probe"
LockInv == \A p \in Processes : flock = p <=> Inside(p)

(* A step that moves one process, on its side of the lock.                  *)
Stays(p) == \E l \in Counters : To(p, l) /\ (l \in Body <=> InBody(p)) /\ l # "probe"
SameLock == UNCHANGED flock /\ (UNCHANGED pc \/ \E p \in Processes : pc[p] # "probe" /\ Stays(p))

LEMMA LockSame == TypeInv /\ LockInv /\ SameLock => LockInv' /\ InLock' = InLock
<1> SUFFICES ASSUME TypeInv, LockInv, SameLock PROVE LockInv' /\ InLock' = InLock
  OBVIOUS
<1>1. \A q \in Processes : (InBody(q)' <=> InBody(q)) /\ (pc'[q] = "probe" <=> pc[q] = "probe")
  BY DEF SameLock, Stays, To, InBody, TypeInv, TypeOK
<1> QED BY <1>1 DEF SameLock, LockInv, Inside, InLock

(* The steps that leave the lock as it is.                                  *)
Keeps(p) ==
  \/ EndStopWaits(p) \/ Activate(p) \/ RecordFence(p) \/ Authorize(p) \/ Enter(p)
  \/ PickChange(p) \/ NoMoreChanges(p) \/ StopEarly(p) \/ PlainDispatch(p) \/ PlainResult(p)
  \/ AdmitStage(p) \/ ObserveStop(p) \/ HaltJob(p) \/ EvaluateGates(p) \/ BeginAction(p)
  \/ DispatchAction(p) \/ ResolveDispatch(p) \/ VerifyCompletion(p) \/ EndAllWaits(p)
  \/ CompleteJob(p) \/ ReleaseFence(p)

LEMMA KeepsSame ==
  ASSUME TypeInv, NEW p \in Processes, Keeps(p)
  PROVE  SameLock
<1> USE DEF lock, Counters, Outer, Body
<1>1. UNCHANGED flock
  BY DEF Keeps, EndStopWaits, Activate, RecordFence, Authorize, Enter, PickChange, NoMoreChanges,
         StopEarly, PlainDispatch, PlainResult, AdmitStage, ObserveStop, HaltJob, EvaluateGates,
         BeginAction, DispatchAction, ResolveDispatch, VerifyCompletion, EndAllWaits, CompleteJob,
         ReleaseFence, Turn
<1>2. CASE EndStopWaits(p) \/ Activate(p) \/ RecordFence(p) \/ Authorize(p) \/ ReleaseFence(p)
  <2>1. \E l \in {"activate", "fence", "authorize", "lock", "idle", "unfence"} : To(p, l)
    BY <1>2 DEF EndStopWaits, Activate, RecordFence, Authorize, ReleaseFence, Exit
  <2>2. pc[p] \in {"unhold", "activate", "fence", "authorize", "unfence"}
    BY <1>2 DEF EndStopWaits, Activate, RecordFence, Authorize, ReleaseFence
  <2> QED BY <1>1, <2>1, <2>2 DEF SameLock, Stays, InBody
<1>3. CASE ~(EndStopWaits(p) \/ Activate(p) \/ RecordFence(p) \/ Authorize(p) \/ ReleaseFence(p))
  <2>1. InBody(p)
    BY <1>3 DEF Keeps, Enter, PickChange, NoMoreChanges, StopEarly, PlainDispatch, PlainResult,
                AdmitStage, ObserveStop, HaltJob, EvaluateGates, BeginAction, DispatchAction,
                ResolveDispatch, VerifyCompletion, EndAllWaits, CompleteJob, InBody
  <2>2. \E l \in Body : To(p, l)
    BY <1>3 DEF Keeps, Enter, PickChange, NoMoreChanges, StopEarly, PlainDispatch, PlainResult,
                AdmitStage, ObserveStop, HaltJob, EvaluateGates, BeginAction, DispatchAction,
                ResolveDispatch, VerifyCompletion, EndAllWaits, CompleteJob, Turn
  <2> QED BY <1>1, <2>1, <2>2 DEF SameLock, Stays, InBody
<1> QED BY <1>2, <1>3

(* The steps that change who is inside: one process enters when nobody is,  *)
(* or the one that is inside leaves; and the two steps of a probe.          *)
Enters == \E p \in Processes : InLock = {} /\ InLock' = {p}
Leaves == \E p \in Processes : InLock = {p} /\ InLock' = {}
LockStep == InLock' = InLock \/ Enters \/ Leaves

LEMMA LockAlone ==
  ASSUME TypeInv, LockInv
  PROVE  \A p \in Processes : InBody(p) => InLock = {p}
<1>1. \A p, q \in Processes : InBody(p) /\ InBody(q) => p = q
  BY DEF LockInv, Inside
<1> QED BY <1>1 DEF InLock

LEMMA LockFree ==
  ASSUME LockInv, flock = Nobody
  PROVE  InLock = {} /\ \A p \in Processes : ~Inside(p)
  BY ProcessAssumption DEF LockInv, Inside, InLock, Processes

LEMMA LockChange ==
  ASSUME TypeInv, LockInv, NEW p \in Processes, AcquireLock(p) \/ ReleaseLock(p) \/ Kill(p)
  PROVE  LockInv' /\ LockStep
<1> USE DEF Counters, Outer, Body
<1>1. pc \in [Processes -> Counters] /\ Nobody \notin Processes
  BY ProcessAssumption DEF TypeInv, TypeOK, Processes
<1>2. CASE AcquireLock(p)
  <2>1. CASE flock = Nobody /\ flock' = p /\ To(p, "enter")
    <3>1. InLock = {} /\ \A q \in Processes : ~Inside(q)
      BY <2>1, LockFree
    <3>2. \A q \in Processes : pc'[q] = IF q = p THEN "enter" ELSE pc[q]
      BY <1>1, <2>1 DEF To
    <3>3. \A q \in Processes : (InBody(q)' <=> q = p) /\ (Inside(q)' <=> q = p)
      BY <3>1, <3>2 DEF InBody, Inside
    <3>4. InLock' = {p}
      BY <3>3 DEF InLock
    <3> QED BY <2>1, <3>1, <3>3, <3>4 DEF LockInv, LockStep, Enters
  <2>2. CASE Exit(p) /\ UNCHANGED lock
    <3>1. SameLock
      BY <1>2, <2>2 DEF AcquireLock, Exit, SameLock, Stays, InBody, lock
    <3> QED BY <3>1, LockSame DEF LockStep
  <2> QED BY <1>2, <2>1, <2>2 DEF AcquireLock
<1>3. CASE ReleaseLock(p) \/ Kill(p)
  <2>1. PICK l \in {"idle", "unfence", "dead"} : To(p, l)
    BY <1>3 DEF ReleaseLock, Kill, Exit
  <2>2. \A q \in Processes : pc'[q] = IF q = p THEN l ELSE pc[q]
    BY <1>1, <2>1 DEF To
  <2>3. CASE InBody(p)
    <3>1. flock = p /\ flock' = Nobody
      BY <1>3, <2>3 DEF ReleaseLock, Kill, LockInv, Inside
    <3>2. \A q \in Processes : ~Inside(q)'
      BY <2>2, <3>1 DEF LockInv, Inside, InBody
    <3>3. InLock = {p} /\ InLock' = {}
      BY <2>3, <3>2, LockAlone DEF InLock, Inside
    <3> QED BY <1>1, <3>1, <3>2, <3>3 DEF LockInv, LockStep, Leaves
  <2>4. CASE ~InBody(p)
    <3>1. Kill(p) /\ pc[p] # "probe"
      BY <1>3, <2>4 DEF ReleaseLock, InBody, TypeInv, Kill
    <3>2. flock # p
      BY <2>4, <3>1 DEF LockInv, Inside
    <3>3. SameLock
      BY <2>4, <3>1, <3>2 DEF Kill, SameLock, Stays, InBody
    <3> QED BY <3>3, LockSame DEF LockStep
  <2> QED BY <2>3, <2>4
<1> QED BY <1>2, <1>3

LEMMA LockProbe == TypeInv /\ LockInv /\ WatchdogStep => LockInv' /\ InLock' = InLock
<1> SUFFICES ASSUME TypeInv, LockInv, WatchdogStep PROVE LockInv' /\ InLock' = InLock
  OBVIOUS
<1> USE DEF Counters, Outer, Body, Watch, lock
<1>1. /\ pc \in [Processes -> Counters] /\ Watchdog \in Processes /\ Nobody \notin Processes
      /\ \A q \in Processes : q # Watchdog => pc[q] # "probe"
  BY ProcessAssumption DEF TypeInv, TypeOK, Processes
<1>2. PICK l \in {"quiesced", "probe", "idle", "attempt", "authorize"} : To(Watchdog, l)
  BY DEF WatchdogStep, Tick, VerifyQuiescence, OwnerGone, Redrive
<1>3. \A q \in Processes : pc'[q] = IF q = Watchdog THEN l ELSE pc[q]
  BY <1>1, <1>2 DEF To
<1>4. pc[Watchdog] \in {"idle", "quiesced", "probe", "attempt"}
  BY DEF WatchdogStep, Tick, VerifyQuiescence, OwnerGone, Redrive
<1>5. InLock' = InLock
  BY <1>3, <1>4 DEF InLock, InBody
<1>6. CASE Tick \/ Redrive
  BY <1>1, <1>3, <1>5, <1>6 DEF Tick, Redrive, LockInv, Inside, InBody, To
<1>7. CASE VerifyQuiescence
  <2>1. CASE flock = Nobody /\ flock' = Watchdog /\ l = "probe"
    BY <1>1, <1>3, <1>5, <2>1 DEF LockInv, Inside, InBody
  <2>2. CASE flock' = flock /\ l = "idle"
    BY <1>1, <1>3, <1>5, <1>7, <2>2 DEF VerifyQuiescence, LockInv, Inside, InBody
  <2> QED BY <1>1, <1>2, <1>7, <2>1, <2>2 DEF VerifyQuiescence, To
<1>8. CASE OwnerGone
  <2>1. l \in {"idle", "attempt"}
    BY <1>1, <1>2, <1>8 DEF OwnerGone, To
  <2> QED BY <1>1, <1>3, <1>5, <1>8, <2>1 DEF OwnerGone, LockInv, Inside, InBody
<1> QED BY <1>5, <1>6, <1>7, <1>8 DEF WatchdogStep

LEMMA LockNext == TypeInv /\ LockInv /\ [Next]_vars => LockInv' /\ LockStep
<1> SUFFICES ASSUME TypeInv, LockInv, [Next]_vars PROVE LockInv' /\ LockStep
  OBVIOUS
<1> USE DEF lock, engines, Counters, Outer, Body
<1>1. CASE SameLock
  BY <1>1, LockSame DEF LockStep
<1>2. ASSUME NEW p \in Drivers, Start(p) \/ Resume(p) \/ Run(p) \/ Reap(p)
      PROVE  LockInv' /\ LockStep
  <2>1. pc[p] \in {"idle", "dead"} /\ UNCHANGED flock /\ p \in Processes
    BY <1>2 DEF Start, Resume, Run, Reap, Come, Processes
  <2>2. \E l \in {"activate", "unhold", "authorize", "idle"} : To(p, l)
    BY <1>2 DEF Start, Resume, Run, Reap, Come
  <2> QED BY <1>1, <2>1, <2>2 DEF SameLock, Stays, InBody
<1>3. ASSUME NEW p \in Processes, EngineStep(p)
      PROVE  LockInv' /\ LockStep
  <2>1. Keeps(p) \/ AcquireLock(p) \/ ReleaseLock(p)
    BY <1>3 DEF EngineStep, Keeps
  <2> QED BY <1>1, <2>1, KeepsSame, LockChange
<1>4. ASSUME NEW p \in Processes, WorkerExits(p)
      PROVE  LockInv' /\ LockStep
  BY <1>1, <1>4 DEF WorkerExits, SameLock
<1>5. CASE OperatorStep \/ KillCommand
  BY <1>1, <1>5 DEF OperatorStep, KillCommand, Pause, InterruptOne, Drain, RecordStop,
                    LookInFlight, PauseJob, Cancel, DisposeOne, CancelWaits, CancelJob, SameLock
<1>6. CASE WatchdogStep
  BY <1>6, LockProbe DEF LockStep
<1>7. ASSUME NEW p \in Drivers, Kill(p)
      PROVE  LockInv' /\ LockStep
  BY <1>7, LockChange DEF Processes
<1>8. CASE UNCHANGED vars
  BY <1>1, <1>8 DEF SameLock, vars
<1> QED BY <1>2, <1>3, <1>4, <1>5, <1>6, <1>7, <1>8 DEF Next

LEMMA LockInit == Init => LockInv
  BY ProcessAssumption DEF Init, LockInv, Inside, InBody, Body, Processes

LEMMA LockAlways == Spec => []LockInv
  BY Types, LockInit, LockNext, PTL DEF Spec

(* However start, resume, run, the watchdog and kills fall together, the    *)
(* engines of a worktree behave as one lock: an engine enters only when     *)
(* nobody is in, and only the one that is in can leave.                     *)
THEOREM LockImplemented == Spec => OneEngine
<1>1. Init => Lock!Init
  <2>1. Init => InLock = {}
    BY DEF Init, InLock, InBody, Body
  <2> QED BY <2>1 DEF Lock!Init, OneOwner
<1>2. LockStep => [Lock!Next]_(OneOwner)
  <2>1. \A S : S = {} => (IF S = {} THEN Nobody ELSE CHOOSE p \in S : TRUE) = Nobody
    OBVIOUS
  <2>2. \A p : (IF {p} = {} THEN Nobody ELSE CHOOSE q \in {p} : TRUE) = p
    OBVIOUS
  <2>3. CASE InLock' = InLock
    BY <2>3 DEF OneOwner
  <2>4. CASE Enters
    <3>1. PICK p \in Processes : InLock = {} /\ InLock' = {p}
      BY <2>4 DEF Enters
    <3>2. OneOwner = Nobody /\ OneOwner' = p
      BY <2>1, <2>2, <3>1 DEF OneOwner
    <3> QED BY <3>2 DEF Lock!Next, Lock!Enter
  <2>5. CASE Leaves
    <3>1. PICK p \in Processes : InLock = {p} /\ InLock' = {}
      BY <2>5 DEF Leaves
    <3>2. OneOwner = p /\ OneOwner' = Nobody
      BY <2>1, <2>2, <3>1 DEF OneOwner
    <3> QED BY <3>2 DEF Lock!Next, Lock!Exit
  <2> QED BY <2>3, <2>4, <2>5 DEF LockStep
<1>3. TypeInv /\ LockInv /\ [Next]_vars => [Lock!Next]_(OneOwner)
  BY <1>2, LockNext
<1> QED BY <1>1, <1>3, Types, LockAlways, PTL DEF Spec, OneEngine, Lock!Spec

-----------------------------------------------------------------------------
(* Stop requests.                                                           *)

(* Whoever has passed the stop boundary did so before the stop wait that is *)
(* open now was opened; so none has been counted yet.                       *)
Passed == \E p \in Processes : pc[p] \in {"gates", "begin"}
StopInv == late <= 1 /\ (~hold => late = 0) /\ (Passed => late = 0)

LEMMA StopInit == Init => StopInv
  BY DEF Init, StopInv, Passed

(* A step that does not open, end or pass the boundary.                     *)
LEMMA StopSame ==
  ASSUME TypeInv, StopInv, UNCHANGED <<hold, late>>,
         UNCHANGED pc \/ \E p \in Processes, l \in Counters :
           To(p, l) /\ (l \in {"gates", "begin"} => pc[p] \in {"gates", "begin"} \/ late = 0)
  PROVE  StopInv'
  BY DEF StopInv, Passed, To, TypeInv, TypeOK

LEMMA StopEngine ==
  ASSUME TypeInv, LockInv, StopInv, NEW p \in Processes, EngineStep(p)
  PROVE  StopInv'
<1> USE DEF ledger, history, Counters, Outer, Body
<1>1. CASE EndStopWaits(p) \/ EndAllWaits(p)
  BY <1>1 DEF EndStopWaits, EndAllWaits, EndHolds, StopInv
<1>2. CASE \/ Activate(p) \/ RecordFence(p) \/ Authorize(p) \/ AcquireLock(p) \/ Enter(p)
           \/ ReleaseLock(p) \/ ReleaseFence(p)
  <2>1. UNCHANGED <<hold, late>>
    BY <1>2 DEF Activate, RecordFence, Authorize, AcquireLock, Enter, ReleaseLock, ReleaseFence
  <2>2. \E l \in {"fence", "authorize", "lock", "idle", "unfence", "enter", "pick", "release"} : To(p, l)
    BY <1>2 DEF Activate, RecordFence, Authorize, AcquireLock, Enter, ReleaseLock, ReleaseFence, Exit
  <2> QED BY <2>1, <2>2, StopSame
<1>3. CASE \/ PickChange(p) \/ NoMoreChanges(p) \/ StopEarly(p) \/ PlainDispatch(p) \/ PlainResult(p)
           \/ AdmitStage(p) \/ HaltJob(p) \/ DispatchAction(p) \/ ResolveDispatch(p)
           \/ VerifyCompletion(p) \/ CompleteJob(p)
  <2>1. UNCHANGED <<hold, late>>
    BY <1>3 DEF PickChange, NoMoreChanges, StopEarly, PlainDispatch, PlainResult, AdmitStage,
                HaltJob, DispatchAction, ResolveDispatch, VerifyCompletion, CompleteJob, Turn
  <2>2. \E l \in {"pick", "plain", "plainwork", "stage", "observe", "work", "verify", "unwait", "release"} :
          To(p, l)
    BY <1>3 DEF PickChange, NoMoreChanges, StopEarly, PlainDispatch, PlainResult, AdmitStage,
                HaltJob, DispatchAction, ResolveDispatch, VerifyCompletion, CompleteJob, Turn
  <2> QED BY <2>1, <2>2, StopSame
<1>4. CASE ObserveStop(p) \/ EvaluateGates(p)
  <2>1. UNCHANGED <<hold, late>>
    BY <1>4 DEF ObserveStop, EvaluateGates, Turn
  <2>2. \E l \in {"gates", "pick", "halt", "begin"} :
          To(p, l) /\ (l \in {"gates", "begin"} => pc[p] = "gates" \/ ~hold)
    BY <1>4 DEF ObserveStop, EvaluateGates, Turn
  <2> QED BY <2>1, <2>2, StopSame DEF StopInv
<1>5. CASE BeginAction(p)
  <2>1. pc[p] = "begin" /\ To(p, "dispatch") /\ UNCHANGED hold
    BY <1>5 DEF BeginAction
  <2>2. late = 0 /\ late' \in {0, 1} /\ (~hold => late' = 0)
    BY <1>5, <2>1 DEF BeginAction, StopInv, Passed
  <2>3. \A q \in Processes : pc'[q] \notin {"gates", "begin"}
    BY <2>1 DEF LockInv, Inside, InBody, To, TypeInv, TypeOK
  <2> QED BY <2>1, <2>2, <2>3 DEF StopInv, Passed
<1> QED BY <1>1, <1>2, <1>3, <1>4, <1>5 DEF EngineStep

LEMMA StopStep == TypeInv /\ LockInv /\ StopInv /\ [Next]_vars => StopInv'
<1> SUFFICES ASSUME TypeInv, LockInv, StopInv, [Next]_vars PROVE StopInv'
  OBVIOUS
<1> USE DEF ledger, engines, history, Counters, Outer, Body
<1>1. ASSUME NEW p \in Drivers, Start(p) \/ Resume(p) \/ Run(p) \/ Reap(p) \/ Kill(p)
      PROVE  StopInv'
  <2>1. UNCHANGED <<hold, late>> /\ p \in Processes
    BY <1>1 DEF Start, Resume, Run, Reap, Kill, Come, Processes
  <2>2. \E l \in {"activate", "unhold", "authorize", "idle", "dead"} : To(p, l)
    BY <1>1 DEF Start, Resume, Run, Reap, Kill, Come
  <2> QED BY <2>1, <2>2, StopSame
<1>2. ASSUME NEW p \in Processes, WorkerExits(p)
      PROVE  StopInv'
  BY <1>2, StopSame DEF WorkerExits
<1>3. CASE RecordStop
  <2>1. UNCHANGED pc /\ hold' = TRUE /\ (late' = late \/ late' = 0)
    BY <1>3 DEF RecordStop, OpenHold
  <2> QED BY <2>1 DEF StopInv, Passed
<1>4. CASE CancelWaits
  BY <1>4 DEF CancelWaits, EndHolds, StopInv
<1>5. CASE \/ Pause \/ InterruptOne \/ Drain \/ LookInFlight \/ PauseJob \/ Cancel \/ DisposeOne
           \/ CancelJob \/ KillCommand
  BY <1>5, StopSame DEF Pause, InterruptOne, Drain, LookInFlight, PauseJob, Cancel, DisposeOne,
                        CancelJob, KillCommand
<1>6. CASE WatchdogStep
  <2>1. UNCHANGED <<hold, late>> /\ Watchdog \in Processes
    BY <1>6 DEF WatchdogStep, Tick, VerifyQuiescence, OwnerGone, Redrive, Watch, Processes
  <2>2. \E l \in {"quiesced", "probe", "idle", "attempt", "authorize"} : To(Watchdog, l)
    BY <1>6 DEF WatchdogStep, Tick, VerifyQuiescence, OwnerGone, Redrive, Watch
  <2> QED BY <2>1, <2>2, StopSame
<1>7. CASE UNCHANGED vars
  BY <1>7 DEF vars, StopInv, Passed
<1> QED BY <1>1, <1>2, <1>3, <1>4, <1>5, <1>6, <1>7, StopEngine DEF Next, OperatorStep

(* Between the recording of a pause or drain and its end at most one        *)
(* dispatch begins, whatever crashes and restarts come between.             *)
THEOREM AtMostOneLate == Spec => []StopHolds
<1>1. StopInv => StopHolds
  BY DEF StopInv, StopHolds
<1> QED BY <1>1, Types, LockAlways, StopInit, StopStep, PTL DEF Spec

-----------------------------------------------------------------------------
(* Workers.                                                                 *)

Admitted == {"observe", "gates", "begin", "dispatch"}
Running == {"dispatched", "uncertain"}

(* Until the job is over: it is not terminal and its engines do not drive   *)
(* changes outside of it; a worker belongs to an engine that waits for it   *)
(* or has died, and its action is pending or shown complete; and past the   *)
(* admission of a dispatch nobody else's action is pending.                 *)
WorkInv ==
  /\ \A p \in Processes : worker[p] => pc[p] \in {"work", "plainwork", "dead"}
  /\ ~over =>
       /\ job \notin Terminal /\ op \notin {"dispose", "cancelling"}
       /\ \A p \in Processes : pc[p] \notin {"plain", "plainwork"}
       /\ \A p \in Processes : worker[p] => action[p] \in Running \cup {"completed"}
       /\ \A p, q \in Processes : p # q /\ pc[p] \in Admitted => action[q] \notin Running
       /\ OneWorker

LEMMA WorkInit == Init => WorkInv
  BY DEF Init, WorkInv, OneWorker, Terminal, Admitted

(* A step that moves one process, but not past an admission, nor to a       *)
(* change outside of the job, nor away from a worker of its own.            *)
Plain(p, l) == To(p, l) /\ (l \in {"plain", "plainwork"} => over) /\ (l \in Admitted => pc[p] \in Admitted)
               /\ (worker[p] => l \in {"work", "plainwork", "dead"})

LEMMA WorkSame ==
  ASSUME TypeInv, WorkInv, UNCHANGED <<action, worker>>, over => over',
         ~over' => job' \notin Terminal /\ op' \notin {"dispose", "cancelling"},
         UNCHANGED pc \/ \E p \in Processes, l \in Counters : Plain(p, l)
  PROVE  WorkInv'
<1>1. ASSUME NEW q \in Processes
      PROVE  /\ pc'[q] \in {"plain", "plainwork"} => over \/ pc[q] \in {"plain", "plainwork"}
             /\ pc'[q] \in Admitted => pc[q] \in Admitted
             /\ worker[q] => pc'[q] \in {"work", "plainwork", "dead"}
  BY <1>1 DEF Plain, To, WorkInv, TypeInv, TypeOK
<1> QED BY <1>1 DEF WorkInv, OneWorker

LEMMA WorkMoves ==
  ASSUME TypeInv, WorkInv, NEW p \in Processes,
         \/ EndStopWaits(p) \/ Activate(p) \/ RecordFence(p) \/ Authorize(p) \/ AcquireLock(p)
         \/ Enter(p) \/ ReleaseLock(p) \/ ReleaseFence(p) \/ PickChange(p) \/ NoMoreChanges(p)
         \/ StopEarly(p) \/ PlainResult(p) \/ ObserveStop(p) \/ HaltJob(p) \/ EvaluateGates(p)
         \/ VerifyCompletion(p) \/ EndAllWaits(p) \/ CompleteJob(p)
  PROVE  WorkInv'
<1> USE DEF ledger, history, operator, Counters, Outer, Body
<1>1. UNCHANGED <<action, worker, op>> /\ (over => over') /\ ~worker[p]
  BY DEF EndStopWaits, Activate, RecordFence, Authorize, AcquireLock, Enter, ReleaseLock,
         ReleaseFence, PickChange, NoMoreChanges, StopEarly, PlainResult, ObserveStop, HaltJob,
         EvaluateGates, VerifyCompletion, EndAllWaits, CompleteJob, Turn, WorkInv
<1>2. ~over' => job' \notin Terminal /\ op' \notin {"dispose", "cancelling"}
  <2>1. (over' = over /\ job' \in {job, "active", "paused"}) \/ over'
    BY DEF EndStopWaits, Activate, RecordFence, Authorize, AcquireLock, Enter, ReleaseLock,
           ReleaseFence, PickChange, NoMoreChanges, StopEarly, PlainResult, ObserveStop, HaltJob,
           EvaluateGates, VerifyCompletion, EndAllWaits, CompleteJob, Turn
  <2> QED BY <1>1, <2>1 DEF WorkInv, Terminal
<1>3. \E l \in Counters : Plain(p, l)
  <2>1. CASE \/ EndStopWaits(p) \/ Activate(p) \/ RecordFence(p) \/ Authorize(p) \/ AcquireLock(p)
             \/ Enter(p) \/ ReleaseLock(p) \/ ReleaseFence(p) \/ NoMoreChanges(p) \/ StopEarly(p)
             \/ HaltJob(p) \/ VerifyCompletion(p) \/ EndAllWaits(p) \/ CompleteJob(p)
    <3>1. \E l \in {"activate", "fence", "authorize", "lock", "enter", "release", "idle", "unfence",
                    "verify", "pick", "unwait", "complete"} : To(p, l)
      BY <2>1 DEF EndStopWaits, Activate, RecordFence, Authorize, AcquireLock, Enter, ReleaseLock,
             ReleaseFence, Exit, NoMoreChanges, StopEarly, HaltJob, VerifyCompletion, EndAllWaits,
             CompleteJob, Turn
    <3> QED BY <1>1, <3>1 DEF Plain, Admitted
  <2>2. CASE PickChange(p)
    BY <1>1, <2>2 DEF PickChange, Plain, Admitted, WorkInv
  <2>3. CASE PlainResult(p)
    <3>1. over
      BY <2>3 DEF PlainResult, WorkInv
    <3> QED BY <1>1, <2>3, <3>1 DEF PlainResult, Turn, Plain, Admitted
  <2>4. CASE ObserveStop(p) \/ EvaluateGates(p)
    BY <1>1, <2>4 DEF ObserveStop, EvaluateGates, Turn, Plain, Admitted
  <2> QED BY <2>1, <2>2, <2>3, <2>4
<1> QED BY <1>1, <1>2, <1>3, WorkSame

(* One action changes; the others are as they were.                         *)
LEMMA WorkStage ==
  ASSUME TypeInv, LockInv, WorkInv, NEW p \in Processes,
         PlainDispatch(p) \/ AdmitStage(p) \/ BeginAction(p) \/ DispatchAction(p) \/ ResolveDispatch(p)
  PROVE  WorkInv'
<1> USE DEF ledger, history, operator, Counters, Outer, Body
<1>1. /\ action \in [Processes \cup {Gone} -> Actions] /\ worker \in [Processes -> BOOLEAN]
      /\ pc \in [Processes -> Counters] /\ Gone \notin Processes
  BY ProcessAssumption DEF TypeInv, TypeOK, Actions, Processes
<1>2. UNCHANGED <<job, op, over>>
  BY DEF PlainDispatch, AdmitStage, BeginAction, DispatchAction, ResolveDispatch
<1>3. \A q \in Processes : q # p => pc[q] \notin Admitted
  BY DEF PlainDispatch, AdmitStage, BeginAction, DispatchAction, ResolveDispatch, LockInv, Inside,
         InBody, Admitted
<1>4. PICK l \in Counters : To(p, l)
  BY DEF PlainDispatch, AdmitStage, BeginAction, DispatchAction, ResolveDispatch
<1>5. \A q \in Processes : pc'[q] = IF q = p THEN l ELSE pc[q]
  BY <1>1, <1>4 DEF To
<1>6. CASE PlainDispatch(p)
  <2>1. over
    BY <1>6 DEF PlainDispatch, WorkInv
  <2>2. l = "plainwork"
    BY <1>1, <1>4, <1>6 DEF PlainDispatch, To
  <2> QED BY <1>1, <1>2, <1>5, <1>6, <2>1, <2>2 DEF PlainDispatch, WorkInv
<1>7. CASE AdmitStage(p)
  <2>1. UNCHANGED worker /\ ~worker[p] /\ pc[p] = "stage"
    BY <1>7 DEF AdmitStage, WorkInv
  <2>2. /\ \A q \in Processes : action'[q] \in Running => action[q] \in Running
        /\ \A q \in Processes : worker[q] /\ action[q] \in Running => action'[q] \in Running \cup {"completed"}
        /\ \A q \in Processes : action[q] = "completed" => action'[q] = "completed"
        /\ l \in Admitted => \A q \in Processes : action'[q] \notin Running
    <3>1. CASE Superseding /\ l = "observe"
      BY <1>1, <3>1 DEF Superseding, Unconfirmed, Uncertain, Put, Running
    <3>2. CASE ShownComplete /\ l \in {"stage", "pick"}
      <4>1. PICK k \in DOMAIN action :
              Unconfirmed = {k} /\ Put(k, IF k \in Processes /\ worker[k] THEN "completed" ELSE "none")
        BY <3>2 DEF ShownComplete
      <4>2. \A q \in Processes : action'[q] = IF q # k THEN action[q] ELSE
                                             IF worker[k] THEN "completed" ELSE "none"
        BY <1>1, <4>1 DEF Put
      <4>3. action[k] # "completed"
        BY <4>1 DEF Unconfirmed, Uncertain
      <4> QED BY <3>2, <4>2, <4>3 DEF Running, Admitted
    <3>3. CASE action' = Swept /\ l = "pick"
      BY <1>1, <3>3 DEF Swept, Running, Admitted
    <3> QED BY <1>1, <1>4, <1>7, <3>1, <3>2, <3>3 DEF AdmitStage, To
  <2>3. l \notin {"plain", "plainwork"}
    BY <1>1, <1>4, <1>7 DEF AdmitStage, To
  <2>4. \A q \in Processes : action'[q] \in Running => action[q] \in Running
    BY <2>2
  <2> QED BY <1>2, <1>3, <1>5, <2>1, <2>2, <2>3 DEF WorkInv, OneWorker
<1>8. CASE BeginAction(p)
  <2>1. UNCHANGED worker /\ ~worker[p] /\ l = "dispatch" /\ pc[p] = "begin"
    BY <1>1, <1>4, <1>8 DEF BeginAction, WorkInv, To
  <2>2. \A q \in Processes : q # p => action'[q] = action[q]
    BY <1>1, <1>8 DEF BeginAction, Put
  <2> QED BY <1>2, <1>3, <1>5, <2>1, <2>2 DEF WorkInv, OneWorker, Admitted
<1>9. CASE DispatchAction(p)
  <2>1. pc[p] = "dispatch" /\ ~worker[p]
    BY <1>9 DEF DispatchAction, WorkInv
  <2>2. CASE action' = [action EXCEPT ![p] = "dispatched"] /\ worker' = [worker EXCEPT ![p] = TRUE] /\ l = "work"
    <3>1. \A q \in Processes : q # p => action'[q] = action[q] /\ worker'[q] = worker[q]
      BY <1>1, <2>2
    <3>2. action'[p] = "dispatched"
      BY <1>1, <2>2
    <3>3. ~over => \A q \in Processes : q # p /\ worker[q] => action[q] = "completed"
      BY <2>1 DEF WorkInv, Admitted
    <3>4. ~over => OneWorker'
      BY <1>2, <3>1, <3>3 DEF WorkInv, OneWorker
    <3> QED BY <1>2, <1>3, <1>5, <2>2, <3>1, <3>2, <3>4 DEF WorkInv, Running, Admitted
  <2>3. CASE /\ action' = [action EXCEPT ![p] = IF action[p] = "intent" THEN "none" ELSE action[p]]
             /\ UNCHANGED worker /\ l = "pick"
    <3>1. \A q \in Processes : q # p => action'[q] = action[q]
      BY <1>1, <2>3
    <3> QED BY <1>2, <1>3, <1>5, <2>1, <2>3, <3>1 DEF WorkInv, OneWorker, Admitted
  <2> QED BY <1>1, <1>4, <1>9, <2>2, <2>3 DEF DispatchAction, Put, To
<1>10. CASE ResolveDispatch(p)
  <2>1. UNCHANGED worker /\ ~worker[p] /\ l \in {"stage", "pick"}
    BY <1>1, <1>4, <1>10 DEF ResolveDispatch, To
  <2>2. \A q \in Processes : q # p => action'[q] = action[q]
    BY <1>1, <1>10 DEF ResolveDispatch, Put
  <2> QED BY <1>2, <1>3, <1>5, <2>1, <2>2 DEF WorkInv, OneWorker, Admitted
<1> QED BY <1>6, <1>7, <1>8, <1>9, <1>10

LEMMA WorkOthers ==
  TypeInv /\ WorkInv /\ (OperatorStep \/ KillCommand \/ WatchdogStep) => WorkInv'
<1> SUFFICES ASSUME TypeInv, WorkInv, OperatorStep \/ KillCommand \/ WatchdogStep
             PROVE  WorkInv'
  OBVIOUS
<1> USE DEF ledger, lock, engines, history, operator, Counters, Outer
<1>1. /\ action \in [Processes \cup {Gone} -> Actions] /\ Watchdog \in Processes
      /\ todo \subseteq (Processes \cup {Gone}) \X {"intent", "dispatched"}
  BY DEF TypeInv, TypeOK, Actions, Processes
<1>2. CASE InterruptOne
  <2>1. UNCHANGED <<job, worker, pc, over>> /\ op' \in {op, "none"}
    BY <1>2 DEF InterruptOne
  <2>2. \A q \in Processes :
          \/ action'[q] = action[q]
          \/ action[q] = "dispatched" /\ action'[q] = "uncertain"
          \/ action[q] = "intent" /\ action'[q] = "undispatched"
    BY <1>1, <1>2 DEF InterruptOne, Put
  <2>3. \A q \in Processes : /\ action'[q] \in Running <=> action[q] \in Running
                             /\ action'[q] = "completed" <=> action[q] = "completed"
    BY <2>2 DEF Running
  <2> QED BY <2>1, <2>3 DEF WorkInv, OneWorker
<1>3. CASE DisposeOne
  <2>1. over /\ over'
    BY <1>3 DEF DisposeOne, WorkInv
  <2> QED BY <1>3, <2>1 DEF DisposeOne, WorkInv
<1>4. CASE Pause \/ Drain \/ RecordStop \/ LookInFlight \/ PauseJob \/ KillCommand
  <2>1. UNCHANGED <<action, worker, pc, over>> /\ job' \in {job, "paused"}
        /\ op' \in {"interrupt", "drain", "pausing", "look", "none"}
    BY <1>4 DEF Pause, Drain, RecordStop, LookInFlight, PauseJob, KillCommand
  <2> QED BY <2>1, WorkSame DEF WorkInv, Terminal
<1>5. CASE Cancel \/ CancelWaits \/ CancelJob
  <2>1. UNCHANGED <<action, worker, pc>> /\ over'
    BY <1>5 DEF Cancel, CancelWaits, CancelJob, WorkInv
  <2> QED BY <2>1, WorkSame
<1>6. CASE WatchdogStep
  <2>1. UNCHANGED <<job, op, over, action, worker>>
    BY <1>6 DEF WatchdogStep, Tick, VerifyQuiescence, OwnerGone, Redrive, Watch
  <2>2. \E l \in {"quiesced", "probe", "idle", "attempt", "authorize"} : To(Watchdog, l)
    BY <1>6 DEF WatchdogStep, Tick, VerifyQuiescence, OwnerGone, Redrive, Watch
  <2>3. ~worker[Watchdog]
    BY <1>1, <1>6 DEF WatchdogStep, Tick, VerifyQuiescence, OwnerGone, Redrive, WorkInv
  <2>4. \E l \in Counters : Plain(Watchdog, l)
    BY <2>2, <2>3 DEF Plain, Admitted
  <2> QED BY <1>1, <2>1, <2>4, WorkSame DEF WorkInv
<1> QED BY <1>2, <1>3, <1>4, <1>5, <1>6 DEF OperatorStep

LEMMA WorkStep == TypeInv /\ LockInv /\ WorkInv /\ [Next]_vars => WorkInv'
<1> SUFFICES ASSUME TypeInv, LockInv, WorkInv, [Next]_vars PROVE WorkInv'
  OBVIOUS
<1> USE DEF ledger, engines, history, operator, Counters, Outer
<1>1. action \in [Processes \cup {Gone} -> Actions] /\ worker \in [Processes -> BOOLEAN]
      /\ pc \in [Processes -> Body \cup Outer] /\ Gone \notin Processes
  BY ProcessAssumption DEF TypeInv, TypeOK, Actions, Processes
<1>2. ASSUME NEW p \in Drivers, Start(p) \/ Resume(p) \/ Run(p) \/ Reap(p)
      PROVE  WorkInv'
  <2>1. /\ UNCHANGED <<job, op, over, action, worker>> /\ p \in Processes
        /\ ~worker[p]
    BY <1>2 DEF Start, Resume, Run, Reap, Come, Processes, WorkInv
  <2>2. \E l \in {"activate", "unhold", "authorize", "idle"} : To(p, l)
    BY <1>2 DEF Start, Resume, Run, Reap, Come
  <2>3. \E l \in Counters : Plain(p, l)
    BY <2>1, <2>2 DEF Plain, Admitted
  <2> QED BY <2>1, <2>3, WorkSame DEF WorkInv
<1>3. ASSUME NEW p \in Drivers, Kill(p)
      PROVE  WorkInv'
  <2>1. UNCHANGED <<job, op, over, worker>> /\ To(p, "dead") /\ p \in Processes
    BY <1>3 DEF Kill, Processes
  <2>2. \A q \in Processes : action'[q] = action[q] \/ (action[q] = "intent" /\ action'[q] = "none")
    BY <1>1, <1>3, <2>1 DEF Kill
  <2>3. \A q \in Processes : pc'[q] = IF q = p THEN "dead" ELSE pc[q]
    BY <1>1, <2>1 DEF To
  <2> QED BY <2>1, <2>2, <2>3 DEF WorkInv, OneWorker, Running, Admitted
<1>4. ASSUME NEW p \in Processes, WorkerExits(p)
      PROVE  WorkInv'
  <2>1. UNCHANGED <<job, op, over, pc>>
    BY <1>4 DEF WorkerExits
  <2>2. \A q \in Processes : /\ worker'[q] => worker[q] /\ q # p
                             /\ q # p => action'[q] = action[q]
                             /\ action'[q] \in Running => action[q] \in Running
    BY <1>1, <1>4 DEF WorkerExits, Running
  <2> QED BY <2>1, <2>2 DEF WorkInv, OneWorker
<1>5. ASSUME NEW p \in Processes, EngineStep(p)
      PROVE  WorkInv'
  BY <1>5, WorkMoves, WorkStage DEF EngineStep
<1>6. CASE UNCHANGED vars
  BY <1>6 DEF vars, WorkInv, OneWorker
<1> QED BY <1>2, <1>3, <1>4, <1>5, <1>6, WorkOthers DEF Next

(* Until the job is completed or cancelled, two workers of a worktree only  *)
(* run at once when the repository already shows the work of one complete,  *)
(* however engines are killed, resumed, redriven and stopped.               *)
THEOREM WorkersAlone == Spec => []OneWorker
<1>1. WorkInv => OneWorker
  BY DEF WorkInv, OneWorker
<1> QED BY <1>1, Types, LockAlways, WorkInit, WorkStep, PTL DEF Spec

=============================================================================
