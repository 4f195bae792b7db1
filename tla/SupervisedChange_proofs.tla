----------------------- MODULE SupervisedChange_proofs -----------------------
(***************************************************************************)
(* Proofs about SupervisedChange for any limits and any number of runs,     *)
(* kills, workers left alive, reports, resets and edits: what the journal   *)
(* charges, what it replays, what it leaves open, and what is archived.     *)
(***************************************************************************)
EXTENDS SupervisedProperties, FiniteSetTheorems, TLAPS

-----------------------------------------------------------------------------
(* Control.                                                                 *)

Places == {"idle", "loop", "admit", "gate", "intent", "reserved", "recorded", "spawned", "wait",
           "close", "proved", "judge", "timedout", "answered", "resolved", "consumed"}
AtWork == {"intent", "reserved", "recorded", "spawned", "wait", "close", "proved", "judge", "timedout"}
InStage == {"admit", "gate", "intent", "reserved", "recorded", "spawned", "wait", "judge", "timedout"}

(* Where an action is at hand, on whose behalf, and that the engine's copy   *)
(* of the record differs from the file only between an admission that        *)
(* recovered a result and the next turn of the loop.                        *)
Control ==
  /\ pc \in Places /\ answer \in {"none", "continue", "stop", "done"}
  /\ pc \in {"idle", "loop", "admit"} => act = 0 /\ via = "stage"
  /\ pc = "gate" => act = 0
  /\ pc \in AtWork => act # 0
  /\ pc \in {"close", "judge", "timedout"} => via = "stage"
  /\ via = "stage" /\ pc \in InStage => mem.phase \in Stages
  /\ file # mem => pc = "loop" /\ mem.phase \in {"review", "done"}
  /\ via # "stage" => mem.phase = "recovery"
  /\ via = "retry" => mem.ctx.class = "transient_provider"
  /\ via \in {"fix", "verify"} => /\ mem.ctx.class \in {"invalid_result", "recurring_findings"}
                                  /\ incident \notin {"escalated", "resolved"}
  /\ pc = "consumed" => via = "verify"

TypeInv == TypeOK /\ Control

(* What the journal shows of an action: a live worker is charged, and what  *)
(* is closed, or may be by a report, holds nothing open.                    *)
Fine(a) ==
  /\ a.worker = "live" => a.reservation # "none"
  /\ Terminal(a) \/ (a.state = "uncertain" /\ a.worker = "live") => a.reservation # "reserved"

(* The action at hand, place by place.                                      *)
AtHand ==
  /\ pc = "intent" => Mine.state = "intent" /\ Mine.reservation = "none" /\ Mine.worker = "none"
  /\ pc = "reserved" => Mine.state = "intent" /\ Mine.reservation = "reserved" /\ Mine.worker = "none"
  /\ pc = "recorded" => Mine.state = "dispatched" /\ Mine.reservation = "reserved" /\ Mine.worker = "none"
  /\ pc \in {"spawned", "wait", "close"} => Mine.state = "dispatched" /\ Mine.reservation = "reserved"
  /\ pc \in {"proved", "judge"} => Mine.reservation # "reserved"
  /\ pc = "judge" => Mine.worker # "live"
  /\ pc \in {"intent", "reserved", "recorded", "spawned", "wait"} => Mine.stage = Current

(* The action a recovery context names was swept, and is not the one at      *)
(* hand.                                                                    *)
Named(r) ==
  r.ctx.action # 0 =>
    /\ journal[r.ctx.action].reservation # "reserved"
    /\ pc \in AtWork => act # r.ctx.action

JournalInv ==
  /\ \A k \in 1 .. Slots : Fine(journal[k])
  /\ AtHand
  /\ Named(file) /\ Named(mem)
  /\ NothingElseUnconfirmed

(* What a record that leads to archive has behind it: v stands for the       *)
(* content, and i is the incident's state.                                  *)
Good(v) == v \in {"accepted", "verified"}
Backed(r, v, i) ==
  /\ r.phase = "archive" => Good(v)
  /\ r.phase = "recovery" /\ r.ctx.origin = "archive" =>
       /\ r.ctx.class \in {"transient_provider", "process_interruption"} => Good(v)
       /\ r.ctx.class = "invalid_result" => Good(v) \/ (v = "repairing" /\ i # "resolved")

VetInv ==
  /\ Backed(file, vetted, incident) /\ Backed(mem, vetted, incident)
  /\ pc = "consumed" => vetted # "repairing"

-----------------------------------------------------------------------------
(* Types of records and outcomes.                                           *)

Statuses == {"pending", "running", "done", "failed"}
Phases == Stages \cup {"recovery", "done"}

LEMMA RecordMoves ==
  ASSUME NEW r \in Record
  PROVE  /\ \A s \in Statuses : /\ Status(r, s) \in Record
                                /\ Status(r, s).ctx = r.ctx /\ Status(r, s).phase = r.phase
         /\ \A p \in Phases : /\ To(r, p) \in Record /\ To(r, p).ctx = r.ctx /\ To(r, p).phase = p
                              /\ [r EXCEPT !.phase = p] \in Record
                              /\ [r EXCEPT !.phase = p].ctx = r.ctx /\ [r EXCEPT !.phase = p].phase = p
         /\ Failed(r) \in Record /\ Failed(r).ctx = r.ctx /\ Failed(r).phase = r.phase
         /\ Cleared(r) \in Record /\ Cleared(r).ctx = NoContext /\ Cleared(r).phase = r.phase
            /\ Cleared(r).round = r.round
<1>1. NoContext \in Contexts
  BY BoundsAssumption DEF NoContext, Contexts, Stages
<1>2. \A s \in Statuses : /\ Status(r, s) \in Record
                         /\ Status(r, s).ctx = r.ctx /\ Status(r, s).phase = r.phase
  BY DEF Statuses, Status, Record
<1>3. \A p \in Phases : /\ To(r, p) \in Record /\ To(r, p).ctx = r.ctx /\ To(r, p).phase = p
                       /\ [r EXCEPT !.phase = p] \in Record
                       /\ [r EXCEPT !.phase = p].ctx = r.ctx /\ [r EXCEPT !.phase = p].phase = p
  BY DEF Phases, To, Record
<1>4. /\ Failed(r) \in Record /\ Failed(r).ctx = r.ctx /\ Failed(r).phase = r.phase
      /\ Cleared(r) \in Record /\ Cleared(r).ctx = NoContext /\ Cleared(r).phase = r.phase
            /\ Cleared(r).round = r.round
  BY <1>1 DEF Failed, Status, Cleared, Record
<1> QED BY <1>2, <1>3, <1>4

LEMMA RoundMoves ==
  ASSUME NEW r \in Record, r.round < MaxRounds, NEW p \in Phases
  PROVE  NextRound(r, p) \in Record /\ NextRound(r, p).ctx = r.ctx /\ NextRound(r, p).phase = p
<1>1. r.round + 1 \in 1 .. MaxRounds
  BY RoundsAssumption DEF Record
<1> QED BY <1>1 DEF NextRound, To, Record, Phases

LEMMA MoreMoves ==
  ASSUME NEW r \in Record
  PROVE  /\ \A b \in BOOLEAN : /\ [r EXCEPT !.escalated = b] \in Record
                              /\ [r EXCEPT !.escalated = b].ctx = r.ctx
                              /\ [r EXCEPT !.escalated = b].phase = r.phase
         /\ LET d == [r EXCEPT !.status = "done", !.phase = "done"]
            IN  d \in Record /\ d.ctx = r.ctx /\ d.phase = "done"
BY DEF Record

LEMMA RecoveryMoves ==
  ASSUME NEW r \in Record, NEW x \in Contexts
  PROVE  LET q == [To(r, "recovery") EXCEPT !.ctx = x]
         IN  q \in Record /\ q.ctx = x /\ q.phase = "recovery"
BY DEF To, Record

(* An outcome, and what of the record it keeps.                             *)
OutcomeOf(r, o) ==
  /\ o.rec \in Record /\ o.answer \in {"continue", "stop", "done"}
  /\ o.needs \in {"none", "recurring_findings", "partial_archive"}
  /\ o.repair \in {"none", "consumable", "refused"}
  /\ o.rec.ctx = r.ctx
  /\ o.rec.phase = "recovery" => r.phase = "recovery"

LEMMA AnotherRoundOutcome ==
  ASSUME TypeOK, NEW r \in Record, NEW p \in Stages
  PROVE  /\ OutcomeOf(r, AnotherRound(r, p))
         /\ AnotherRound(r, p).rec.phase \in {p, r.phase}
         /\ AnotherRound(r, p).rec.phase = p \/ AnotherRound(r, p).rec = Failed(r)
<1>1. CASE r.round >= MaxRounds
  <2>1. AnotherRound(r, p) = [rec |-> Failed(r), answer |-> "stop", needs |-> "none", repair |-> repair]
    BY <1>1 DEF AnotherRound, Stop, Outcome
  <2>2. Failed(r) \in Record /\ Failed(r).ctx = r.ctx /\ Failed(r).phase = r.phase
    BY RecordMoves
  <2> QED BY <2>1, <2>2 DEF OutcomeOf, TypeOK
<1>2. CASE ~(r.round >= MaxRounds)
  <2>1. AnotherRound(r, p) = [rec |-> NextRound(r, p), answer |-> "continue", needs |-> "none", repair |-> repair]
    BY <1>2 DEF AnotherRound, Continue, Outcome
  <2>2. r.round < MaxRounds
    BY <1>2, RoundsAssumption DEF Record
  <2>3. NextRound(r, p) \in Record /\ NextRound(r, p).ctx = r.ctx /\ NextRound(r, p).phase = p
    BY <2>2, RoundMoves DEF Phases
  <2> QED BY <2>1, <2>3 DEF OutcomeOf, TypeOK, Stages
<1> QED BY <1>1, <1>2

(* A result leaves archive to acceptance alone: what it sends there was      *)
(* there, or has just been accepted.                                        *)
LEMMA Outcomes ==
  ASSUME TypeOK, NEW r \in Record, NEW s \in Stages, NEW o \in OutcomesOf(r, s)
  PROVE  /\ OutcomeOf(r, o)
         /\ o.rec.phase = "archive" => r.phase = "archive" \/ (s = "acceptance" /\ tree.fresh)
<1> DEFINE Goal == /\ OutcomeOf(r, o)
                   /\ o.rec.phase = "archive" => r.phase = "archive" \/ (s = "acceptance" /\ tree.fresh)
<1> DEFINE q == [r EXCEPT !.escalated = FALSE]
<1>1. q \in Record /\ q.ctx = r.ctx /\ q.phase = r.phase
  BY MoreMoves
<1>2. ASSUME NEW x \in Record, x.ctx = r.ctx, x.phase = r.phase
      PROVE  o = Stop(Failed(x)) \/ o = [Stop(Failed(x)) EXCEPT !.repair = "refused"] => Goal
  <2>1. Failed(x) \in Record /\ Failed(x).ctx = r.ctx /\ Failed(x).phase = r.phase
    BY <1>2, RecordMoves
  <2> QED BY <2>1 DEF Stop, Outcome, OutcomeOf, TypeOK
<1>3. ASSUME NEW x \in Record, x.ctx = r.ctx, x.phase = r.phase, NEW p \in Stages,
             p = "archive" => s = "acceptance" /\ tree.fresh
      PROVE  o = Continue(To(x, p)) \/ o = [Continue(To(x, p)) EXCEPT !.repair = "consumable"] => Goal
  <2>1. To(x, p) \in Record /\ To(x, p).ctx = r.ctx /\ To(x, p).phase = p
    BY <1>3, RecordMoves DEF Phases
  <2> QED BY <2>1, <1>3 DEF Continue, Outcome, OutcomeOf, TypeOK, Stages
<1>4. ASSUME NEW x \in Record, x.ctx = r.ctx, x.phase = r.phase, NEW p \in Stages \ {"archive"}
      PROVE  o = AnotherRound(x, p) => Goal
  BY <1>4, AnotherRoundOutcome DEF OutcomeOf, Stages
<1>5. ASSUME NEW class \in {"recurring_findings", "partial_archive"}
      PROVE  o = Needs(r, class) => Goal
  BY DEF Needs, Outcome, OutcomeOf, TypeOK
<1>6. CASE s = "implement"
  <2>1. o = Stop(Failed(r)) \/ o = AnotherRound(r, "implement") \/ o = Continue(To(r, "review"))
    BY <1>6 DEF OutcomesOf, apply_implement_result
  <2> QED BY <2>1, <1>2, <1>3, <1>4 DEF Stages
<1>7. CASE s = "review"
  <2>1. \/ o = Stop(Failed(r)) \/ o = AnotherRound(r, "implement") \/ o = Continue(To(r, "acceptance"))
        \/ o = Needs(r, "recurring_findings")
    BY <1>7 DEF OutcomesOf, apply_review_result
  <2> QED BY <2>1, <1>2, <1>3, <1>4, <1>5 DEF Stages
<1>8. CASE s = "acceptance"
  <2>1. \/ o = Stop(Failed(r)) \/ o = Stop([Status(r, "pending") EXCEPT !.escalated = TRUE])
        \/ (tree.fresh /\ o = Continue(To(q, "archive"))) \/ o = AnotherRound(q, "acceptance")
        \/ o = AnotherRound(q, "fix")
    BY <1>8 DEF OutcomesOf, apply_acceptance_result, Accept
  <2>2. CASE o = Stop([Status(r, "pending") EXCEPT !.escalated = TRUE])
    <3>1. Status(r, "pending") \in Record /\ Status(r, "pending").ctx = r.ctx /\ Status(r, "pending").phase = r.phase
      BY RecordMoves DEF Statuses
    <3> DEFINE x == Status(r, "pending")
    <3> DEFINE y == [x EXCEPT !.escalated = TRUE]
    <3>2. y \in Record /\ y.ctx = r.ctx /\ y.phase = r.phase
      BY <3>1, MoreMoves
    <3> HIDE DEF y
    <3>3. o = [rec |-> y, answer |-> "stop", needs |-> "none", repair |-> repair]
      BY <2>2 DEF Stop, Outcome, y
    <3> QED BY <3>2, <3>3 DEF OutcomeOf, TypeOK
  <2> QED BY <2>1, <2>2, <1>1, <1>2, <1>3, <1>4, <1>8 DEF Stages
<1>9. CASE s = "fix"
  <2>1. o = Stop(Failed(r)) \/ o = Continue(To(r, "verify"))
    BY <1>9 DEF OutcomesOf, apply_fix_result
  <2> QED BY <2>1, <1>2, <1>3 DEF Stages
<1>10. CASE s = "verify"
  <2>1. \/ o = [Continue(To(r, "acceptance")) EXCEPT !.repair = "consumable"]
        \/ o = [Stop(Failed(r)) EXCEPT !.repair = "refused"]
    BY <1>10 DEF OutcomesOf, apply_verify_result
  <2> QED BY <2>1, <1>2, <1>3 DEF Stages
<1>11. CASE s = "archive"
  <2>1. \/ o = Stop(Failed(r)) \/ o = Needs(r, "partial_archive")
        \/ o = Outcome([r EXCEPT !.status = "done", !.phase = "done"], "done")
    BY <1>11 DEF OutcomesOf, apply_archive_result, Archived
  <2>2. CASE o = Outcome([r EXCEPT !.status = "done", !.phase = "done"], "done")
    <3> DEFINE y == [r EXCEPT !.status = "done", !.phase = "done"]
    <3>1. y \in Record /\ y.ctx = r.ctx /\ y.phase = "done"
      BY MoreMoves
    <3> QED BY <3>1, <2>2 DEF Outcome, OutcomeOf, TypeOK
  <2> QED BY <2>1, <2>2, <1>2, <1>5
<1> QED BY <1>6, <1>7, <1>8, <1>9, <1>10, <1>11 DEF Stages

-----------------------------------------------------------------------------
(* Types of actions, of the journal and of the counters.                    *)

Endings == {"completed", "failed"}

LEMMA ActionMoves ==
  ASSUME NEW a \in Action
  PROVE  /\ \A s \in Endings \cup {"reconciled", "dispatched"} : Closed(a, s) \in Action
         /\ Uncertain(a) \in Action /\ Retained(a) \in Action
         /\ \A e \in Endings : WithEvidence(a, e) \in Action
         /\ [a EXCEPT !.state = "dispatched"] \in Action
         /\ [a EXCEPT !.worker = "dead"] \in Action /\ [a EXCEPT !.worker = "live"] \in Action
         /\ [a EXCEPT !.bound = TRUE] \in Action /\ [a EXCEPT !.reservation = "reserved"] \in Action
         /\ \A b \in Usage(a) : b \in Action
<1>1. /\ \A s \in Endings \cup {"reconciled", "dispatched"} : Closed(a, s) \in Action
      /\ Uncertain(a) \in Action /\ Retained(a) \in Action
      /\ \A e \in Endings : WithEvidence(a, e) \in Action
  BY DEF Endings, Closed, Uncertain, Retained, WithEvidence, Action
<1>2. /\ [a EXCEPT !.state = "dispatched"] \in Action
      /\ [a EXCEPT !.worker = "dead"] \in Action /\ [a EXCEPT !.worker = "live"] \in Action
      /\ [a EXCEPT !.bound = TRUE] \in Action /\ [a EXCEPT !.reservation = "reserved"] \in Action
  BY DEF Action
<1>3. \A b \in Usage(a) : b \in Action
  BY DEF Usage, Action
<1> QED BY <1>1, <1>2, <1>3

LEMMA JournalMoves ==
  ASSUME TypeOK
  PROVE  /\ Swept \in [1 .. Slots -> Action] /\ Kept \in [1 .. Slots -> Action]
         /\ \A k \in 1 .. Slots, a \in Action :
              /\ [journal EXCEPT ![k] = a] \in [1 .. Slots -> Action]
              /\ [Swept EXCEPT ![k] = a] \in [1 .. Slots -> Action]
              /\ [Kept EXCEPT ![k] = a] \in [1 .. Slots -> Action]
         /\ \A k \in 1 .. Slots : journal[k] \in Action /\ Swept[k] \in Action
         /\ NoAction \in Action
<1>1. NoAction \in Action
  BY DEF NoAction, Action, Stages
<1>2. \A k \in 1 .. Slots : journal[k] \in Action
  BY DEF TypeOK
<1>3. \A k \in 1 .. Slots : Retained(Uncertain(journal[k])) \in Action
  BY <1>2, ActionMoves
<1>4. Swept \in [1 .. Slots -> Action]
  BY <1>2, <1>3 DEF Swept, reconcile_pending
<1>5. Kept \in [1 .. Slots -> Action]
  BY <1>1, <1>2 DEF Kept
<1> QED BY <1>1, <1>2, <1>4, <1>5 DEF TypeOK

LEMMA CountMoves ==
  ASSUME TypeOK
  PROVE  /\ \A class \in Classes, stage \in Stages :
              Begun(class, stage) =>
                /\ recoveries' \in [Classes \X Stages -> 0 .. MaxAttempts]
                /\ incident' = "recovering" \/ incident' = incident
         /\ \A stage \in Stages :
              FailedDispatch(stage) => failures' \in [Stages -> 0 .. MaxAttempts]
         /\ \A stage \in Stages :
              [recoveries EXCEPT ![<<"transient_provider", stage>>] = Another(@)]
                \in [Classes \X Stages -> 0 .. MaxAttempts]
<1>1. \A n \in 0 .. MaxAttempts : Another(n) \in 0 .. MaxAttempts
  BY AttemptsAssumption DEF Another
<1>2. ASSUME NEW p \in Classes \X Stages
      PROVE  [recoveries EXCEPT ![p] = Another(@)] \in [Classes \X Stages -> 0 .. MaxAttempts]
  BY <1>1 DEF TypeOK
<1>3. ASSUME NEW class \in Classes, NEW stage \in Stages, Begun(class, stage)
      PROVE  /\ recoveries' \in [Classes \X Stages -> 0 .. MaxAttempts]
             /\ incident' = "recovering" \/ incident' = incident
  <2>1. recoveries' = [recoveries EXCEPT ![<<class, stage>>] = Another(@)]
    BY <1>3 DEF Begun
  <2>2. recoveries' \in [Classes \X Stages -> 0 .. MaxAttempts]
    BY <2>1, <1>2
  <2> QED BY <2>2, <1>3 DEF Begun
<1>4. ASSUME NEW stage \in Stages, FailedDispatch(stage)
      PROVE  failures' \in [Stages -> 0 .. MaxAttempts]
  BY <1>1, <1>4 DEF FailedDispatch, TypeOK
<1>5. ASSUME NEW stage \in Stages
      PROVE  [recoveries EXCEPT ![<<"transient_provider", stage>>] = Another(@)]
                \in [Classes \X Stages -> 0 .. MaxAttempts]
  <2>1. <<"transient_provider", stage>> \in Classes \X Stages
    BY DEF Classes
  <2> QED BY <2>1, <1>2
<1> QED BY <1>3, <1>4, <1>5

(* Whoever dispatches, it is one of the stages.                             *)
LEMMA CurrentStage ==
  ASSUME TypeInv, pc \in InStage \/ via # "stage"
  PROVE  Current \in Stages
BY DEF TypeInv, TypeOK, Control, Current, InStage, Record, Contexts, Stages

(* A recovery is asked for a stage, and names an action or none.            *)
LEMMA ReroutedRecord ==
  ASSUME NEW r \in Record, NEW class \in Classes, NEW stage \in Stages, NEW k \in 0 .. Slots
  PROVE  /\ Rerouted(r, class, stage, k) \in Record
         /\ \/ /\ CanRecover(class, stage) /\ Rerouted(r, class, stage, k).phase = "recovery"
               /\ Rerouted(r, class, stage, k).ctx = [class |-> class, origin |-> stage, action |-> k]
            \/ /\ ~CanRecover(class, stage) /\ Rerouted(r, class, stage, k) = Failed(r)
<1>1. [class |-> class, origin |-> stage, action |-> k] \in Contexts
  BY DEF Contexts
<1>2. CASE CanRecover(class, stage)
  BY <1>1, <1>2, RecoveryMoves DEF Rerouted
<1>3. CASE ~CanRecover(class, stage)
  BY <1>3, RecordMoves DEF Rerouted
<1> QED BY <1>2, <1>3

LEMMA ReroutedContext ==
  ASSUME NEW r \in Record, NEW class \in Classes, NEW stage \in Stages, NEW k \in 0 .. Slots
  PROVE  Rerouted(r, class, stage, k).ctx = r.ctx \/ Rerouted(r, class, stage, k).ctx.action = k
<1> DEFINE q == Rerouted(r, class, stage, k)
<1>1. \/ q.ctx = [class |-> class, origin |-> stage, action |-> k]
      \/ q = Failed(r)
  BY ReroutedRecord
<1>2. Failed(r).ctx = r.ctx
  BY RecordMoves
<1> HIDE DEF q
<1>3. q.ctx = r.ctx \/ q.ctx.action = k
  BY <1>1, <1>2
<1> QED BY <1>3 DEF q

LEMMA RecoveredRecord ==
  ASSUME NEW r \in Record, NEW a, NEW s
  PROVE  /\ Recovered(r, a, s) \in Record /\ Recovered(r, a, s).ctx = r.ctx
         /\ Recovered(r, a, s) = r \/ Recovered(r, a, s).phase \in {"review", "done"}
<1>1. "review" \in Phases
  BY DEF Phases, Stages
<1>2. /\ To(r, "review") \in Record /\ To(r, "review").ctx = r.ctx /\ To(r, "review").phase = "review"
  BY <1>1, RecordMoves
<1>3. Recovered(r, a, s) \in {r, To(r, "review"), [r EXCEPT !.status = "done", !.phase = "done"]}
  BY DEF Recovered
<1> QED BY <1>2, <1>3, MoreMoves

-----------------------------------------------------------------------------
(* Where a step lands.                                                      *)

(* The engine stopped, or is at the top of its loop.                        *)
Landed(r) ==
  /\ file' = r /\ mem' = r
  /\ pc' \in {"idle", "loop"} /\ act' = 0 /\ via' = "stage" /\ tries' = 0 /\ answer' = "none"

LEMMA Landings ==
  ASSUME NEW r
  PROVE  /\ Leave(r) => Landed(r)
         /\ Save(r) /\ ToLoop => Landed(r)
         /\ LoopOrLeave(r) => Landed(r)
         /\ Escalate(r) => incident' = "escalated" /\ (Landed(Failed(r)) \/ Landed(file))
         /\ Resolve(r) => incident' = "resolved" /\ (Landed(r) \/ Landed(file))
BY DEF Landed, Leave, Save, ToLoop, LoopOrLeave, Escalate, Resolve

LEMMA LandedControl ==
  ASSUME NEW r \in Record, Landed(r)
  PROVE  /\ file' \in Record /\ mem' \in Record
         /\ act' \in 0 .. Slots /\ via' \in {"stage", "retry", "fix", "verify"} /\ tries' \in Nat
         /\ Control'
BY BoundsAssumption DEF Landed, Control, Places, AtWork, InStage

(* The part of the type that is not about where the engine is.              *)
LedgerTypes ==
  /\ journal \in [1 .. Slots -> Action]
  /\ incident \in {"none", "recovering", "escalated", "resolved"}
  /\ failures \in [Stages -> 0 .. MaxAttempts]
  /\ recoveries \in [Classes \X Stages -> 0 .. MaxAttempts]
  /\ repair \in {"none", "consumable", "refused"}
  /\ tree \in Tree
  /\ runs \in 0 .. MaxRuns /\ edits \in 0 .. MaxEdits
  /\ vetted \in {"no", "accepted", "repairing", "verified"}

LEMMA Back ==
  ASSUME LedgerTypes', NEW r \in Record, Landed(r)
  PROVE  TypeInv'
BY LandedControl DEF LedgerTypes, TypeInv, TypeOK

LEMMA TreeMoves ==
  ASSUME TypeOK
  PROVE  /\ Judged(tree) \in Tree /\ reactivate_archived_change(tree) \in Tree
         /\ \A b \in BOOLEAN : /\ [tree EXCEPT !.open = b, !.fresh = FALSE] \in Tree
                               /\ [tree EXCEPT !.fresh = FALSE] \in Tree
                               /\ [tree EXCEPT !.archived = TRUE] \in Tree
BY DEF TypeOK, Tree, Judged, reactivate_archived_change

LEMMA StartTypes ==
  ASSUME TypeInv, StartRun
  PROVE  TypeInv'
<1> DEFINE r == Reconciled(file)
<1>1. r \in Record
  BY RecordMoves, MoreMoves DEF TypeInv, TypeOK, Reconciled, Statuses
<1>2. LedgerTypes'
  <2>1. runs' \in 0 .. MaxRuns
    BY BoundsAssumption DEF TypeInv, TypeOK, StartRun
  <2> QED BY <2>1, JournalMoves DEF TypeInv, TypeOK, StartRun, LedgerTypes
<1>3. Landed(r)
  BY Landings DEF StartRun
<1> QED BY <1>1, <1>2, <1>3, Back

LEMMA LoopTypes ==
  ASSUME TypeInv, Deadline \/ PhaseDone \/ AcceptanceBlocked \/ Launch
  PROVE  TypeInv'
<1>1. /\ \A s \in {"pending", "running", "done"} : Status(mem, s) \in Record
      /\ Failed(mem) \in Record
  BY RecordMoves DEF TypeInv, TypeOK, Statuses
<1>2. CASE Deadline
  <2>1. LedgerTypes'
    BY <1>2 DEF TypeInv, TypeOK, LedgerTypes, Deadline, ledger, bounds
  <2>2. Landed(Status(mem, "pending"))
    BY <1>2, Landings DEF Deadline
  <2> QED BY <1>1, <2>1, <2>2, Back
<1>3. CASE PhaseDone
  <2>1. LedgerTypes'
    BY <1>3 DEF TypeInv, TypeOK, LedgerTypes, PhaseDone, ledger, bounds
  <2>2. Landed(Status(mem, "done")) \/ Landed(Failed(mem))
    BY <1>3, Landings DEF PhaseDone
  <2> QED BY <1>1, <2>1, <2>2, Back
<1>4. CASE AcceptanceBlocked
  <2>1. LedgerTypes'
    BY <1>4 DEF TypeInv, TypeOK, LedgerTypes, AcceptanceBlocked, ledger, bounds
  <2>2. Landed(Status(mem, "pending")) \/ Landed(Failed(mem))
    BY <1>4, Landings DEF AcceptanceBlocked
  <2> QED BY <1>1, <2>1, <2>2, Back
<1>5. CASE Launch
  <2> DEFINE r == Status(mem, "running")
  <2>1. tree' \in Tree
    BY <1>5, TreeMoves DEF TypeInv, TypeOK, Launch
  <2>2. r \in Record /\ r.ctx = mem.ctx /\ r.phase = mem.phase
    BY RecordMoves DEF TypeInv, TypeOK, Statuses
  <2>3. file' = r /\ mem' = r /\ pc' = "admit" /\ UNCHANGED <<act, via, tries, answer>>
    BY <1>5 DEF Launch, Save, Goto
  <2>4. TypeOK'
    BY <1>5, <2>1, <2>2, <2>3 DEF TypeInv, TypeOK, Launch, ledger, bounds
  <2>5. Control'
    BY <1>5, <2>2, <2>3 DEF TypeInv, Control, Launch, Places, AtWork, InStage
  <2> QED BY <2>4, <2>5 DEF TypeInv
<1> QED BY <1>2, <1>3, <1>4, <1>5

(* The action a recovery context names is one of the pending ones.          *)
LEMMA NamedPending ==
  ASSUME Pending # {}
  PROVE  Attributed \in Pending \cup {0}
<1> DEFINE own == {k \in Pending : Swept[k].stage = Current}
<1>1. (CHOOSE k \in Pending : TRUE) \in Pending
  OBVIOUS
<1>2. Cardinality(own) = 1 => (CHOOSE k \in own : TRUE) \in Pending
  <2>1. SUFFICES ASSUME Cardinality(own) = 1
                 PROVE  own # {} /\ own \subseteq Pending
    OBVIOUS
  <2> QED BY <2>1, FS_EmptySet
<1>3. Attributed = IF Cardinality(Pending) = 1 THEN CHOOSE k \in Pending : TRUE
                   ELSE IF Cardinality(own) = 1 THEN CHOOSE k \in own : TRUE
                   ELSE 0
  BY DEF Attributed
<1> HIDE DEF own
<1> QED BY <1>1, <1>2, <1>3

LEMMA AdmitTypes ==
  ASSUME TypeInv, Admit
  PROVE  TypeInv'
<1> USE DEF TypeInv
<1>1. pc = "admit" => Current \in Stages
  BY CurrentStage DEF InStage
<1>2. ASSUME NEW k \in 1 .. Slots, NEW s \in Endings
      PROVE  [Swept EXCEPT ![k] = Closed(@, s)] \in [1 .. Slots -> Action]
  BY JournalMoves, ActionMoves
<1>3. CASE AdmitClear
  <2>1. TypeOK'
    BY <1>3, JournalMoves DEF AdmitClear, Goto, TypeOK, bounds
  <2>2. Control'
    BY <1>3 DEF AdmitClear, Goto, Control, Places, AtWork, InStage
  <2> QED BY <2>1, <2>2
<1>4. CASE AdmitUncertain
  <2>1. Attributed \in 0 .. Slots
    BY <1>4, NamedPending, BoundsAssumption DEF AdmitUncertain, Pending, PendingIn
  <2> DEFINE r == Rerouted(mem, "process_interruption", Current, Attributed)
  <2>2. r \in Record
    BY <1>1, <1>4, <2>1, ReroutedRecord DEF TypeOK, AdmitUncertain, Classes
  <2>3. LedgerTypes'
    <3>1. Begun("process_interruption", Current) /\ Current \in Stages /\ "process_interruption" \in Classes
      BY <1>1, <1>4 DEF AdmitUncertain, Classes
    <3>2. /\ recoveries' \in [Classes \X Stages -> 0 .. MaxAttempts]
          /\ incident' = "recovering" \/ incident' = incident
      BY <3>1, CountMoves
    <3> QED BY <1>4, <3>2, JournalMoves DEF AdmitUncertain, TypeOK, LedgerTypes, bounds
  <2>4. Landed(r)
    BY <1>4, Landings DEF AdmitUncertain
  <2> QED BY <2>2, <2>3, <2>4, Back
<1>5. ASSUME NEW k \in 1 .. Slots, AdmitRecovered(k)
      PROVE  TypeInv'
  <2> DEFINE r == Recovered(mem, Swept[k], Current)
  <2>1. r \in Record /\ r.ctx = mem.ctx /\ (r = mem \/ r.phase \in {"review", "done"})
    <3>1. "review" \in Phases
      BY DEF Phases, Stages
    <3> QED BY <3>1, RecordMoves, MoreMoves DEF Recovered, TypeOK
  <2>2. TypeOK'
    BY <1>2, <1>5, <2>1, BoundsAssumption DEF AdmitRecovered, TypeOK, ToLoop, bounds, Endings
  <2>3. Control'
    BY <1>5, <2>1 DEF AdmitRecovered, OnePending, Control, ToLoop, Places, AtWork, InStage
  <2> QED BY <2>2, <2>3
<1>6. ASSUME NEW k \in 1 .. Slots, AdmitReplay(k)
      PROVE  TypeInv'
  <2>1. TypeOK'
    BY <1>2, <1>6 DEF AdmitReplay, Goto, TypeOK, bounds, Endings
  <2>2. Control'
    BY <1>6 DEF AdmitReplay, OnePending, Goto, Control, Places, AtWork, InStage
  <2> QED BY <2>1, <2>2
<1>7. ASSUME NEW k \in 1 .. Slots, AdmitMismatch(k)
      PROVE  TypeInv'
  <2>1. Swept[k].evidence \in Endings
    BY <1>7, JournalMoves DEF AdmitMismatch, Mismatched, Action, Endings
  <2>2. journal' \in [1 .. Slots -> Action]
    BY <1>2, <1>7, <2>1 DEF AdmitMismatch
  <2>3. LedgerTypes'
    BY <1>7, <2>2 DEF AdmitMismatch, TypeOK, LedgerTypes, bounds
  <2>4. Landed(Failed(mem)) /\ Failed(mem) \in Record
    BY <1>7, Landings, RecordMoves DEF AdmitMismatch, TypeOK
  <2> QED BY <2>3, <2>4, Back
<1> QED BY <1>3, <1>4, <1>5, <1>6, <1>7 DEF Admit

(* A transaction on the action at hand.                                     *)
LEMMA PutTypes ==
  ASSUME TypeOK, act # 0, NEW a \in Action, Put(act, a)
  PROVE  journal' \in [1 .. Slots -> Action] /\ Mine \in Action
<1>1. act \in 1 .. Slots
  BY BoundsAssumption DEF TypeOK
<1> QED BY <1>1, JournalMoves DEF Put, Mine

LEMMA MineTypes ==
  ASSUME TypeOK, act # 0
  PROVE  /\ Mine \in Action /\ Mine.stage \in Stages
         /\ \A s \in Endings : /\ Closed(Mine, s) \in Action /\ WithEvidence(Mine, s) \in Action
                               /\ WithEvidence(Closed(Mine, s), s) \in Action
                               /\ WithEvidence(Retained(Mine), s) \in Action
         /\ \A b \in Usage(Mine) : /\ Uncertain(b) \in Action
                                   /\ \A s \in Endings : WithEvidence(b, s) \in Action
         /\ SpawnFailed(Mine) \in Action /\ BindFailed(Mine) \in Action
         /\ Uncertain([Mine EXCEPT !.worker = "dead"]) \in Action
         /\ Retained(Uncertain([Mine EXCEPT !.worker = "dead"])) \in Action
<1>1. act \in 1 .. Slots
  BY BoundsAssumption DEF TypeOK
<1>2. Mine \in Action
  BY <1>1, JournalMoves DEF Mine
<1>3. Mine.stage \in Stages
  BY <1>2 DEF Action
<1>4. \A s \in Endings : /\ Closed(Mine, s) \in Action /\ WithEvidence(Mine, s) \in Action
                         /\ WithEvidence(Closed(Mine, s), s) \in Action
                         /\ WithEvidence(Retained(Mine), s) \in Action
  BY <1>2, ActionMoves
<1>5. \A b \in Usage(Mine) : /\ Uncertain(b) \in Action
                             /\ \A s \in Endings : WithEvidence(b, s) \in Action
  BY <1>2, ActionMoves
<1>6. /\ Uncertain([Mine EXCEPT !.worker = "dead"]) \in Action
      /\ Retained(Uncertain([Mine EXCEPT !.worker = "dead"])) \in Action
  BY <1>2, ActionMoves
<1>7. SpawnFailed(Mine) \in Action /\ BindFailed(Mine) \in Action
  BY <1>4, <1>6, ActionMoves DEF SpawnFailed, BindFailed, Endings
<1> QED BY <1>2, <1>3, <1>4, <1>5, <1>6, <1>7

LEMMA BoundaryTypes ==
  ASSUME TypeInv, Boundary
  PROVE  TypeInv'
<1> USE DEF TypeInv
<1>1. Failed(mem) \in Record /\ Status(mem, "pending") \in Record /\ file \in Record
  BY RecordMoves DEF TypeOK, Statuses
<1>2. ASSUME LedgerTypes', \/ Leave(Status(mem, "pending")) \/ Leave(Failed(mem)) \/ Escalate(mem)
      PROVE  TypeInv'
  <2>1. Landed(Status(mem, "pending")) \/ Landed(Failed(mem)) \/ Landed(file)
    BY <1>2, Landings
  <2> QED BY <1>1, <1>2, <2>1, Back
<1>3. CASE GateRefuses
  <2>1. LedgerTypes'
    BY <1>3 DEF GateRefuses, Escalate, TypeOK, LedgerTypes, bounds
  <2> QED BY <1>2, <1>3, <2>1 DEF GateRefuses
<1>4. CASE BeginAction
  <2>1. Current \in Stages
    BY <1>4, CurrentStage DEF BeginAction, InStage
  <2> DEFINE new == [NoAction EXCEPT !.stage = Current, !.state = "intent",
                                     !.baseline = Current = "implement" /\ tree.open]
  <2>2. new \in Action
    BY <2>1 DEF NoAction, Action, TypeOK, Tree
  <2>3. PICK k \in 1 .. Slots : journal' = [Kept EXCEPT ![k] = new] /\ act' = k
    BY <1>4 DEF BeginAction
  <2>4. journal' \in [1 .. Slots -> Action]
    BY <2>2, <2>3, JournalMoves
  <2>5. TypeOK'
    BY <1>4, <2>3, <2>4 DEF BeginAction, TypeOK, bounds
  <2>6. Control'
    BY <1>4, <2>3 DEF BeginAction, Control, Places, AtWork, InStage
  <2> QED BY <2>5, <2>6
<1>5. ASSUME Reserve \/ DispatchAction \/ Spawn \/ Bind
      PROVE  TypeInv'
  <2>1. act # 0
    BY <1>5 DEF Reserve, DispatchAction, Spawn, Bind, StepAction, AtAction, Control, AtWork
  <2>2. journal' \in [1 .. Slots -> Action]
    BY <1>5, <2>1, MineTypes, PutTypes, ActionMoves
    DEF Reserve, DispatchAction, Spawn, Bind, StepAction
  <2>3. vetted' \in {"no", "accepted", "repairing", "verified"}
    BY <1>5 DEF Reserve, DispatchAction, Spawn, Bind, Unvetted, TypeOK
  <2>4. TypeOK'
    BY <1>5, <2>2, <2>3 DEF Reserve, DispatchAction, Spawn, Bind, StepAction, Goto, TypeOK, bounds
  <2>5. Control'
    BY <1>5 DEF Reserve, DispatchAction, Spawn, Bind, StepAction, AtAction, Goto, Control, Places, AtWork, InStage
  <2> QED BY <2>4, <2>5
<1>6. CASE ReserveRefused
  <2>1. act # 0
    BY <1>6 DEF ReserveRefused, Control, AtWork
  <2>2. journal' \in [1 .. Slots -> Action]
    BY <1>6, <2>1, MineTypes, PutTypes DEF ReserveRefused, Endings
  <2>3. LedgerTypes'
    BY <1>6, <2>2 DEF ReserveRefused, Escalate, TypeOK, LedgerTypes, bounds
  <2> QED BY <1>2, <1>6, <2>3 DEF ReserveRefused
<1>7. CASE NotSpawned
  <2>1. act # 0 /\ Current \in Stages
    BY <1>7, CurrentStage DEF NotSpawned, Control, AtWork, InStage
  <2>2. journal' \in [1 .. Slots -> Action]
    BY <1>7, <2>1, MineTypes, PutTypes DEF NotSpawned
  <2>3. failures' \in [Stages -> 0 .. MaxAttempts]
    BY <1>7, <2>1, CountMoves DEF NotSpawned, TypeOK
  <2>4. LedgerTypes'
    BY <1>7, <2>2, <2>3 DEF NotSpawned, Escalate, TypeOK, LedgerTypes, bounds
  <2> QED BY <1>2, <1>7, <2>4 DEF NotSpawned
<1> QED BY <1>3, <1>4, <1>5, <1>6, <1>7 DEF Boundary

LEMMA StageTypes ==
  ASSUME TypeInv, StageOutcome
  PROVE  TypeInv'
<1> USE DEF TypeInv
<1>1. pc \in InStage => Current \in Stages
  BY CurrentStage
<1>2. pc \in AtWork => act # 0
  BY DEF Control
<1>3. CASE ApplyResult
  <2>1. pc = "wait" /\ via = "stage" /\ Current \in Stages /\ mem \in Record /\ mem.phase \in Stages
    BY <1>1, <1>3 DEF ApplyResult, Exited, InStage, Control, TypeOK
  <2>2. PICK o \in OutcomesOf(mem, Current) :
          /\ repair' = o.repair
          /\ vetted' = Vetted(o)
          /\ IF o.needs = "none"
             THEN Save(o.rec) /\ answer' = o.answer /\ UNCHANGED <<incident, recoveries>>
             ELSE /\ Begun(o.needs, Current)
                  /\ Save(Rerouted(o.rec, o.needs, Current, 0))
                  /\ answer' = IF CanRecover(o.needs, Current) THEN "continue" ELSE "stop"
    BY <1>3 DEF ApplyResult
  <2>3. OutcomeOf(mem, o)
    BY <2>1, Outcomes
  <2>4. o.needs # "none" => o.needs \in Classes
    BY <2>3 DEF OutcomeOf, Classes
  <2>5. /\ recoveries' \in [Classes \X Stages -> 0 .. MaxAttempts]
        /\ incident' \in {"none", "recovering", "escalated", "resolved"}
    <3>1. CASE o.needs = "none"
      BY <2>2, <3>1 DEF TypeOK
    <3>2. CASE o.needs # "none"
      BY <2>1, <2>2, <2>4, <3>2, CountMoves DEF TypeOK
    <3> QED BY <3>1, <3>2
  <2>6. /\ mem' \in Record /\ file' = mem' /\ answer' \in {"none", "continue", "stop", "done"}
    <3>1. CASE o.needs = "none"
      BY <2>2, <2>3, <3>1 DEF Save, OutcomeOf
    <3>2. CASE o.needs # "none"
      <4>1. Rerouted(o.rec, o.needs, Current, 0) \in Record
        <5>1. o.rec \in Record /\ 0 \in 0 .. Slots
          BY <2>3, BoundsAssumption DEF OutcomeOf
        <5> QED BY <2>1, <2>4, <3>2, <5>1, ReroutedRecord
      <4> QED BY <2>2, <3>2, <4>1 DEF Save
    <3> QED BY <3>1, <3>2
  <2>7. /\ repair' \in {"none", "consumable", "refused"}
        /\ vetted' \in {"no", "accepted", "repairing", "verified"}
    BY <2>2, <2>3 DEF OutcomeOf, Vetted, TypeOK
  <2>8. TypeOK'
    BY <1>3, <2>5, <2>6, <2>7 DEF ApplyResult, TypeOK, bounds
  <2>9. Control'
    BY <1>3, <2>1, <2>6 DEF ApplyResult, Control, Places, AtWork, InStage
  <2> QED BY <2>8, <2>9
<1>4. CASE RecordEvidence
  <2>1. act # 0 /\ Verdict \in Endings
    BY <1>2, <1>4 DEF RecordEvidence, AtWork, Verdict, Endings
  <2>2. journal' \in [1 .. Slots -> Action]
    BY <1>4, <2>1, MineTypes, PutTypes DEF RecordEvidence
  <2>3. TypeOK'
    BY <1>4, <2>2 DEF RecordEvidence, Goto, TypeOK, bounds
  <2>4. Control'
    BY <1>4 DEF RecordEvidence, Goto, Control, Places, AtWork, InStage
  <2> QED BY <2>3, <2>4
<1>5. CASE CloseAction
  <2>1. act # 0 /\ Verdict \in Endings
    BY <1>2, <1>5 DEF CloseAction, AtWork, Verdict, Endings
  <2>2. journal' \in [1 .. Slots -> Action]
    BY <1>5, <2>1, MineTypes, PutTypes DEF CloseAction
  <2>3. failures' \in [Stages -> 0 .. MaxAttempts]
    BY <1>5, <2>1, MineTypes, CountMoves DEF CloseAction, TypeOK
  <2>4. LedgerTypes'
    BY <1>5, <2>2, <2>3 DEF CloseAction, TypeOK, LedgerTypes, bounds
  <2>5. CASE answer = "continue"
    <3>1. TypeOK'
      BY <1>5, <2>4, <2>5, BoundsAssumption DEF CloseAction, ToLoop, TypeOK, LedgerTypes
    <3>2. Control'
      BY <1>5, <2>5 DEF CloseAction, ToLoop, Control, Places, AtWork, InStage
    <3> QED BY <3>1, <3>2
  <2>6. CASE answer # "continue"
    <3>1. Landed(mem) /\ mem \in Record
      BY <1>5, <2>6, Landings DEF CloseAction, TypeOK
    <3> QED BY <2>4, <3>1, Back
  <2> QED BY <2>5, <2>6
<1>6. CASE InvalidOutput
  <2>1. act # 0
    BY <1>2, <1>6 DEF InvalidOutput, Exited, AtWork
  <2>2. journal' \in [1 .. Slots -> Action]
    BY <1>6, <2>1, MineTypes, PutTypes DEF InvalidOutput
  <2>3. TypeOK'
    BY <1>6, <2>2 DEF InvalidOutput, Goto, TypeOK, bounds
  <2>4. Control'
    BY <1>6 DEF InvalidOutput, Exited, Goto, Control, Places, AtWork, InStage
  <2> QED BY <2>3, <2>4
<1>7. CASE JudgeFailed
  <2>1. act # 0 /\ Current \in Stages /\ via = "stage"
    BY <1>1, <1>2, <1>7 DEF JudgeFailed, AtWork, InStage, Control
  <2>2. journal' \in [1 .. Slots -> Action]
    BY <1>7, <2>1, MineTypes, PutTypes DEF JudgeFailed, Endings
  <2>3. /\ failures' \in [Stages -> 0 .. MaxAttempts]
        /\ recoveries' \in [Classes \X Stages -> 0 .. MaxAttempts]
        /\ incident' = "recovering" \/ incident' = incident
    BY <1>7, <2>1, CountMoves DEF JudgeFailed, Classes
  <2>4. LedgerTypes'
    BY <1>7, <2>2, <2>3 DEF JudgeFailed, TypeOK, LedgerTypes, bounds
  <2>5. CASE tries < InvalidRetries
    <3>1. TypeOK'
      BY <1>7, <2>4, <2>5, BoundsAssumption DEF JudgeFailed, TypeOK, LedgerTypes
    <3>2. Control'
      BY <1>7, <2>1, <2>5 DEF JudgeFailed, Control, Places, AtWork, InStage
    <3> QED BY <3>1, <3>2
  <2>6. CASE ~(tries < InvalidRetries)
    <3> DEFINE r == Rerouted(mem, "invalid_result", Current, 0)
    <3>1. r \in Record
      <4>1. mem \in Record /\ 0 \in 0 .. Slots /\ "invalid_result" \in Classes
        BY BoundsAssumption DEF Classes, TypeOK
      <4> QED BY <2>1, <4>1, ReroutedRecord
    <3>2. Landed(r)
      BY <1>7, <2>6, Landings DEF JudgeFailed
    <3> QED BY <2>4, <3>1, <3>2, Back
  <2> QED BY <2>5, <2>6
<1>8. CASE WorkerTimeout
  <2>1. act # 0 /\ Current \in Stages
    BY <1>1, <1>2, <1>8 DEF WorkerTimeout, TimedOut, AtWork, InStage
  <2>2. journal' \in [1 .. Slots -> Action]
    BY <1>8, <2>1, MineTypes, PutTypes DEF WorkerTimeout
  <2>3. failures' \in [Stages -> 0 .. MaxAttempts]
    BY <1>8, <2>1, CountMoves DEF WorkerTimeout
  <2>4. TypeOK'
    BY <1>8, <2>2, <2>3 DEF WorkerTimeout, Goto, TypeOK, bounds
  <2>5. Control'
    BY <1>8 DEF WorkerTimeout, TimedOut, Goto, Control, Places, AtWork, InStage
  <2> QED BY <2>4, <2>5
<1>9. CASE RerouteTimeout
  <2>1. Current \in Stages
    BY <1>1, <1>9 DEF RerouteTimeout, InStage
  <2>2. /\ recoveries' \in [Classes \X Stages -> 0 .. MaxAttempts]
        /\ incident' = "recovering" \/ incident' = incident
    BY <1>9, <2>1, CountMoves DEF RerouteTimeout, Classes
  <2>3. LedgerTypes'
    BY <1>9, <2>2 DEF RerouteTimeout, TypeOK, LedgerTypes, bounds
  <2> DEFINE r == Rerouted(mem, "transient_provider", Current, 0)
  <2>4. r \in Record
    <3>1. mem \in Record /\ 0 \in 0 .. Slots /\ "transient_provider" \in Classes
      BY BoundsAssumption DEF Classes, TypeOK
    <3> QED BY <2>1, <3>1, ReroutedRecord
  <2>5. Landed(r)
    BY <1>9, Landings DEF RerouteTimeout
  <2> QED BY <2>3, <2>4, <2>5, Back
<1> QED BY <1>3, <1>4, <1>5, <1>6, <1>7, <1>8, <1>9 DEF StageOutcome

LEMMA DriveTypes ==
  ASSUME TypeInv, Drive
  PROVE  TypeInv'
<1> USE DEF TypeInv
<1>1. /\ file \in Record /\ mem \in Record /\ Failed(mem) \in Record
      /\ Cleared(mem) \in Record
  BY RecordMoves DEF TypeOK
<1>2. mem.ctx.origin \in Stages /\ Route(mem.ctx) \in Stages
  BY <1>1 DEF Record, Contexts, Route, Stages
<1>3. ASSUME LedgerTypes', Escalate(mem)
      PROVE  TypeInv'
  <2>1. Landed(Failed(mem)) \/ Landed(file)
    BY <1>3, Landings
  <2> QED BY <1>1, <1>3, <2>1, Back
<1>4. ASSUME LedgerTypes', NEW r \in Record, Resolve(r)
      PROVE  TypeInv'
  <2>1. Landed(r) \/ Landed(file)
    BY <1>4, Landings
  <2> QED BY <1>1, <1>4, <2>1, Back
<1>5. ASSUME NEW k \in 1 .. Slots, NEW s \in Endings
      PROVE  [Swept EXCEPT ![k] = Closed(@, s)] \in [1 .. Slots -> Action]
  BY JournalMoves, ActionMoves
<1>6. CASE DriveSettled
  <2>1. LedgerTypes'
    BY <1>6 DEF DriveSettled, TypeOK, LedgerTypes, ledger, bounds
  <2>2. /\ [mem EXCEPT !.phase = "implement"] \in Record
        /\ [Cleared(mem) EXCEPT !.phase = Route(mem.ctx)] \in Record
    BY <1>1, <1>2, RecordMoves DEF Phases, Stages
  <2>3. \/ Landed([mem EXCEPT !.phase = "implement"]) \/ Landed(Failed(mem))
        \/ Landed([Cleared(mem) EXCEPT !.phase = Route(mem.ctx)])
    BY <1>6, Landings DEF DriveSettled
  <2> QED BY <1>1, <2>1, <2>2, <2>3, Back
<1>7. CASE DriveRetry \/ DriveRepair
  <2>1. TypeOK'
    BY <1>7, BoundsAssumption DEF DriveRetry, DriveRepair, Redispatch, TypeOK, ledger, bounds
  <2>2. Control'
    BY <1>7 DEF DriveRetry, DriveRepair, Driving, AtLoop, Redispatch, ledger, Control, Places, AtWork, InStage,
                Stages
  <2> QED BY <2>1, <2>2
<1>8. CASE DriveReconciled
  <2> DEFINE r == Recovered(Cleared(mem), Interrupted, mem.ctx.origin)
  <2> DEFINE q == IF r.phase = "recovery" THEN [r EXCEPT !.phase = mem.ctx.origin] ELSE r
  <2>1. mem.ctx.action \in 1 .. Slots
    BY <1>1, <1>8 DEF DriveReconciled, Record, Contexts
  <2>2. journal' \in [1 .. Slots -> Action]
    BY <1>5, <1>8, <2>1 DEF DriveReconciled, Endings
  <2>3. LedgerTypes'
    BY <1>8, <2>2 DEF DriveReconciled, Resolve, TypeOK, LedgerTypes, bounds
  <2>4. r \in Record
    BY <1>1, RecordMoves, MoreMoves DEF Recovered, Phases, Stages
  <2>5. q \in Record
    BY <1>2, <2>4, RecordMoves DEF Phases
  <2>6. Status(q, "pending") \in Record
    BY <2>5, RecordMoves DEF Statuses
  <2>7. Resolve(Status(q, "pending"))
    BY <1>8 DEF DriveReconciled
  <2> QED BY <1>4, <2>3, <2>6, <2>7
<1>9. CASE DriveUnreconciled
  <2>1. journal' \in [1 .. Slots -> Action]
    <3>1. CASE journal' = Swept
      BY <3>1, JournalMoves
    <3>2. CASE journal' # Swept
      <4>1. /\ mem.ctx.action \in 1 .. Slots /\ Mismatched(Interrupted, mem.ctx.origin)
            /\ journal' = [Swept EXCEPT ![mem.ctx.action] = Closed(@, @.evidence)]
        BY <1>1, <1>9, <3>2 DEF DriveUnreconciled, Record, Contexts
      <4>2. Swept[mem.ctx.action].evidence \in Endings
        BY <4>1, JournalMoves DEF Mismatched, Interrupted, Action, Endings
      <4> QED BY <1>5, <4>1, <4>2
    <3> QED BY <3>1, <3>2
  <2>2. LedgerTypes'
    BY <1>9, <2>1 DEF DriveUnreconciled, Escalate, TypeOK, LedgerTypes, bounds
  <2> QED BY <1>3, <1>9, <2>2 DEF DriveUnreconciled
<1>10. CASE DriveFreshReview
  <2>1. LedgerTypes'
    BY <1>10, TreeMoves DEF DriveFreshReview, Resolve, TypeOK, LedgerTypes, bounds
  <2>2. Cleared(mem).round < MaxRounds /\ "implement" \in Phases
    BY <1>1, <1>10, RecordMoves DEF DriveFreshReview, Phases, Stages
  <2>3. NextRound(Cleared(mem), "implement") \in Record
    BY <1>1, <2>2, RoundMoves
  <2>4. Resolve(NextRound(Cleared(mem), "implement"))
    BY <1>10 DEF DriveFreshReview
  <2> QED BY <1>4, <2>1, <2>3, <2>4
<1>11. CASE DriveNoReview
  <2>1. LedgerTypes'
    BY <1>11 DEF DriveNoReview, Escalate, TypeOK, LedgerTypes, bounds
  <2> QED BY <1>3, <1>11, <2>1 DEF DriveNoReview
<1> QED BY <1>6, <1>7, <1>8, <1>9, <1>10, <1>11 DEF Drive

LEMMA RecoveryTypes ==
  ASSUME TypeInv, RecoveryOutcome
  PROVE  TypeInv'
<1> USE DEF TypeInv
<1>1. file \in Record /\ mem \in Record /\ Failed(mem) \in Record /\ Cleared(mem) \in Record
  BY RecordMoves DEF TypeOK
<1>2. ASSUME LedgerTypes', Escalate(mem)
      PROVE  TypeInv'
  <2>1. Landed(Failed(mem)) \/ Landed(file)
    BY <1>2, Landings
  <2> QED BY <1>1, <1>2, <2>1, Back
<1>3. pc \in AtWork => act # 0
  BY DEF Control
<1>4. via # "stage" => Current \in Stages
  BY CurrentStage
<1>5. CASE RecoveryExited
  <2>1. journal' \in [1 .. Slots -> Action]
    BY <1>3, <1>5, MineTypes, PutTypes DEF RecoveryExited, Exited, AtWork, Endings
  <2>2. TypeOK'
    BY <1>5, <2>1 DEF RecoveryExited, Goto, TypeOK, bounds
  <2>3. Control'
    BY <1>5 DEF RecoveryExited, Exited, Goto, Control, Places, AtWork, InStage
  <2> QED BY <2>2, <2>3
<1>6. CASE RecoveryClosed
  <2>1. journal' \in [1 .. Slots -> Action]
    BY <1>3, <1>6, MineTypes, PutTypes DEF RecoveryClosed, AtWork, Endings
  <2>2. TypeOK'
    BY <1>6, <2>1 DEF RecoveryClosed, Goto, TypeOK, bounds
  <2>3. Control'
    BY <1>6 DEF RecoveryClosed, Goto, Control, Places, AtWork, InStage
  <2> QED BY <2>2, <2>3
<1>7. CASE RecoveryTimeout
  <2>1. act # 0 /\ Current \in Stages /\ via # "stage"
    BY <1>3, <1>4, <1>7 DEF RecoveryTimeout, TimedOut, AtWork
  <2>2. journal' \in [1 .. Slots -> Action]
    BY <1>7, <2>1, MineTypes, PutTypes DEF RecoveryTimeout
  <2>3. recoveries' \in [Classes \X Stages -> 0 .. MaxAttempts]
    BY <1>7, <2>1, CountMoves DEF RecoveryTimeout, TypeOK
  <2>4. LedgerTypes'
    BY <1>7, <2>2, <2>3 DEF RecoveryTimeout, Escalate, TypeOK, LedgerTypes, bounds
  <2>5. CASE via = "retry" /\ tries + 1 < BackoffMax
    <3>1. TypeOK'
      BY <1>7, <2>4, <2>5, BoundsAssumption DEF RecoveryTimeout, TypeOK, LedgerTypes
    <3>2. Control'
      BY <1>7, <2>5 DEF RecoveryTimeout, Control, Places, AtWork, InStage
    <3> QED BY <3>1, <3>2
  <2>6. CASE ~(via = "retry" /\ tries + 1 < BackoffMax)
    BY <1>2, <1>7, <2>4, <2>6 DEF RecoveryTimeout
  <2> QED BY <2>5, <2>6
<1>8. CASE RecoveryInvalid \/ RepairRefused
  <2>1. LedgerTypes'
    BY <1>8 DEF RecoveryInvalid, RepairRefused, Escalate, TypeOK, LedgerTypes, bounds
  <2> QED BY <1>2, <1>8, <2>1 DEF RecoveryInvalid, RepairRefused
<1>9. CASE RetryCleared \/ FixAnswered \/ RepairConsumed
  <2>1. TypeOK'
    BY <1>9, BoundsAssumption
    DEF RetryCleared, FixAnswered, RepairConsumed, Redispatch, Goto, TypeOK, ledger, bounds
  <2>2. Control'
    BY <1>9 DEF RetryCleared, FixAnswered, RepairConsumed, Redispatch, Goto, ledger, Control, Places, AtWork, InStage
  <2> QED BY <2>1, <2>2
<1>10. CASE RetryApplies
  <2> DEFINE r == Status(Cleared(mem), "pending")
  <2>1. r \in Record /\ Current \in Stages
    BY <1>1, <1>4, <1>10, RecordMoves DEF RetryApplies, Statuses
  <2> HIDE DEF r
  <2>2. PICK o \in OutcomesOf(r, Current) :
          /\ repair' = o.repair
          /\ vetted' = Vetted(o)
          /\ IF o.needs = "none"
             THEN /\ IF o.answer = "continue" THEN Save(o.rec) /\ ToLoop ELSE Leave(o.rec)
                  /\ UNCHANGED <<incident, recoveries>>
             ELSE Begun(o.needs, Current) /\ LoopOrLeave(Rerouted(o.rec, o.needs, Current, 0))
    BY <1>10 DEF RetryApplies, r
  <2>3. OutcomeOf(r, o)
    BY <2>1, Outcomes
  <2>4. o.needs # "none" => o.needs \in Classes
    BY <2>3 DEF OutcomeOf, Classes
  <2>5. /\ recoveries' \in [Classes \X Stages -> 0 .. MaxAttempts]
        /\ incident' \in {"none", "recovering", "escalated", "resolved"}
    <3>1. CASE o.needs = "none"
      BY <2>2, <3>1 DEF TypeOK
    <3>2. CASE o.needs # "none"
      BY <2>1, <2>2, <2>4, <3>2, CountMoves DEF TypeOK
    <3> QED BY <3>1, <3>2
  <2>6. /\ repair' \in {"none", "consumable", "refused"}
        /\ vetted' \in {"no", "accepted", "repairing", "verified"}
    BY <2>2, <2>3 DEF OutcomeOf, Vetted, TypeOK
  <2>7. LedgerTypes'
    BY <1>10, <2>5, <2>6 DEF RetryApplies, LedgerTypes, TypeOK, bounds
  <2>8. CASE o.needs = "none"
    <3>1. Landed(o.rec) /\ o.rec \in Record
      BY <2>2, <2>3, <2>8, Landings DEF OutcomeOf
    <3> QED BY <2>7, <3>1, Back
  <2>9. CASE o.needs # "none"
    <3> DEFINE q == Rerouted(o.rec, o.needs, Current, 0)
    <3>1. o.rec \in Record /\ 0 \in 0 .. Slots
      BY <2>3, BoundsAssumption DEF OutcomeOf
    <3>2. q \in Record
      BY <2>1, <2>4, <2>9, <3>1, ReroutedRecord
    <3>3. Landed(q)
      BY <2>2, <2>9, Landings
    <3> QED BY <2>7, <3>2, <3>3, Back
  <2> QED BY <2>8, <2>9
<1>11. CASE RepairResolved
  <2>1. LedgerTypes'
    BY <1>11 DEF RepairResolved, Resolve, TypeOK, LedgerTypes, bounds
  <2> DEFINE r == To(Cleared(mem), Route(mem.ctx))
  <2>2. Route(mem.ctx) \in Phases
    BY <1>1 DEF Record, Contexts, Route, Stages, Phases
  <2>3. r \in Record
    BY <1>1, <2>2, RecordMoves
  <2>4. Landed(r) \/ Landed(file)
    BY <1>11, Landings DEF RepairResolved
  <2> QED BY <1>1, <2>1, <2>3, <2>4, Back
<1> QED BY <1>5, <1>6, <1>7, <1>8, <1>9, <1>10, <1>11 DEF RecoveryOutcome

LEMMA EnvironmentTypes ==
  ASSUME TypeInv, Environment
  PROVE  TypeInv'
<1> USE DEF TypeInv
<1>1. file \in Record /\ mem \in Record
  BY DEF TypeOK
<1>2. CASE Kill
  <2>1. LedgerTypes' /\ Landed(file)
    BY <1>2, Landings DEF Kill, TypeOK, LedgerTypes, ledger, bounds
  <2> QED BY <1>1, <2>1, Back
<1>3. CASE Interrupt
  <2>1. act # 0
    BY <1>3 DEF Interrupt, Control, AtWork
  <2>2. journal' \in [1 .. Slots -> Action]
    BY <1>3, <2>1, MineTypes, PutTypes DEF Interrupt
  <2>3. LedgerTypes' /\ Landed(file)
    BY <1>3, <2>2, Landings DEF Interrupt, TypeOK, LedgerTypes, bounds
  <2> QED BY <1>1, <2>3, Back
<1>4. ASSUME NEW k \in 1 .. Slots, KilledInReplay(k)
      PROVE  TypeInv'
  <2>1. journal' \in [1 .. Slots -> Action]
    BY <1>4, JournalMoves, ActionMoves DEF KilledInReplay
  <2>2. LedgerTypes' /\ Landed(file)
    BY <1>4, <2>1, Landings DEF KilledInReplay, TypeOK, LedgerTypes, bounds
  <2> QED BY <1>1, <2>2, Back
<1>5. ASSUME UNCHANGED <<file, mem, incident, proc>>, Control
      PROVE  Control'
  BY <1>5 DEF Control, proc
<1>6. ASSUME NEW k \in 1 .. Slots, WorkerEnds(k) \/ WorkerReports(k)
      PROVE  TypeInv'
  <2>1. journal[k] \in Action
    BY JournalMoves
  <2>2. journal' \in [1 .. Slots -> Action]
    <3>1. CASE WorkerEnds(k)
      BY <2>1, <3>1, JournalMoves, ActionMoves DEF WorkerEnds, Put
    <3>2. CASE WorkerReports(k)
      <4>1. PICK how \in Endings :
              Put(k, LET a == WithEvidence(journal[k], how)
                     IN  IF a.state = "uncertain" THEN Closed(a, how) ELSE a)
        BY <3>2 DEF WorkerReports, Endings
      <4>2. WithEvidence(journal[k], how) \in Action /\ Closed(WithEvidence(journal[k], how), how) \in Action
        BY <2>1, ActionMoves
      <4> QED BY <4>1, <4>2, JournalMoves DEF Put
    <3> QED BY <1>6, <3>1, <3>2
  <2>3. TypeOK'
    BY <1>6, <2>2 DEF WorkerEnds, WorkerReports, TypeOK, proc, bounds
  <2> QED BY <1>5, <1>6, <2>3 DEF WorkerEnds, WorkerReports
<1>7. ASSUME NEW k \in 1 .. Slots, WorkerWrites(k)
      PROVE  TypeInv'
  <2>1. tree' \in Tree
    BY <1>7, TreeMoves DEF WorkerWrites, TypeOK
  <2>2. TypeOK'
    BY <1>7, <2>1 DEF WorkerWrites, TypeOK, ledger, proc, bounds
  <2> QED BY <1>5, <1>7, <2>2 DEF WorkerWrites, ledger
<1>8. CASE Reset
  <2>1. NewRecord \in Record
    BY RoundsAssumption, BoundsAssumption DEF NewRecord, NoContext, Contexts, Record, Stages
  <2>2. TypeOK'
    BY <1>8, <2>1, BoundsAssumption DEF Reset, Edit, Save, TypeOK, ledger, proc
  <2>3. Control'
    BY <1>8 DEF Reset, Save, Control, Places, AtWork, InStage, ledger, proc
  <2> QED BY <2>2, <2>3
<1>9. CASE ResolveEscalation
  <2> DEFINE r == To([file EXCEPT !.escalated = FALSE], "acceptance")
  <2>1. "acceptance" \in Phases /\ [file EXCEPT !.escalated = FALSE] \in Record
    BY <1>1, MoreMoves DEF Phases, Stages
  <2>2. r \in Record
    BY <2>1, RecordMoves
  <2>3. TypeOK'
    BY <1>9, <2>2, BoundsAssumption DEF ResolveEscalation, Edit, Save, TypeOK, ledger, proc
  <2>4. Control'
    BY <1>9 DEF ResolveEscalation, Save, Control, Places, AtWork, InStage, ledger, proc
  <2> QED BY <2>3, <2>4
<1>10. CASE EditArtifacts
  <2>1. tree' \in Tree
    BY <1>10, TreeMoves DEF EditArtifacts
  <2>2. edits' \in 0 .. MaxEdits
    BY <1>10, BoundsAssumption DEF EditArtifacts, Edit, TypeOK
  <2>3. TypeOK'
    BY <1>10, <2>1, <2>2 DEF EditArtifacts, TypeOK, ledger, proc
  <2> QED BY <1>5, <1>10, <2>3 DEF EditArtifacts, ledger
<1> QED BY <1>2, <1>3, <1>4, <1>6, <1>7, <1>8, <1>9, <1>10 DEF Environment

LEMMA TypesInit == Init => TypeInv
<1> SUFFICES ASSUME Init PROVE TypeInv
  OBVIOUS
<1>1. NewRecord \in Record
  BY RoundsAssumption, BoundsAssumption DEF NewRecord, NoContext, Contexts, Record, Stages
<1>2. NoAction \in Action
  BY DEF NoAction, Action, Stages
<1>3. TypeOK
  <2>1. tree \in Tree
    BY DEF Init, Tree
  <2>2. /\ failures \in [Stages -> 0 .. MaxAttempts]
        /\ recoveries \in [Classes \X Stages -> 0 .. MaxAttempts]
    BY AttemptsAssumption DEF Init
  <2>3. act \in 0 .. Slots /\ tries \in Nat /\ runs \in 0 .. MaxRuns /\ edits \in 0 .. MaxEdits
    BY BoundsAssumption DEF Init
  <2> QED BY <1>1, <1>2, <2>1, <2>2, <2>3 DEF Init, TypeOK
<1>4. Control
  BY DEF Init, Control, Places, AtWork, InStage
<1> QED BY <1>3, <1>4 DEF TypeInv

LEMMA TypesStep ==
  ASSUME TypeInv, [Next]_vars
  PROVE  TypeInv'
<1>1. CASE UNCHANGED vars
  BY <1>1 DEF TypeInv, TypeOK, Control, vars, ledger, proc, bounds
<1>2. CASE StartRun
  BY <1>2, StartTypes
<1>3. CASE Engine
  BY <1>3, LoopTypes, AdmitTypes, BoundaryTypes, StageTypes, DriveTypes, RecoveryTypes DEF Engine
<1>4. CASE Environment
  BY <1>4, EnvironmentTypes
<1> QED BY <1>1, <1>2, <1>3, <1>4 DEF Next

(* Whatever is killed, reported, reset or edited, the state of a supervised  *)
(* change stays within its type, its counters within their limits, and the  *)
(* place of the engine says on whose behalf it works and on which action.   *)
THEOREM Types == Spec => []TypeInv
<1>1. Init => TypeInv
  BY TypesInit
<1>2. TypeInv /\ [Next]_vars => TypeInv'
  BY TypesStep
<1> QED BY <1>1, <1>2, PTL DEF Spec

(* Spec implies the type invariant the runs check.                          *)
THEOREM TypeCorrect == Spec => []TypeOK
BY Types, PTL DEF TypeInv

-----------------------------------------------------------------------------
(* The journal.                                                             *)

LEMMA SweptFacts ==
  ASSUME TypeOK, NEW k \in 1 .. Slots
  PROVE  /\ Swept[k].stage = journal[k].stage /\ Swept[k].worker = journal[k].worker
         /\ Swept[k].bound = journal[k].bound /\ Swept[k].evidence = journal[k].evidence
         /\ Swept[k].state # "dispatched"
         /\ Swept[k].state = "uncertain" <=> Unconfirmed(journal[k])
         /\ Swept[k].state = "uncertain" => Swept[k].reservation # "reserved"
         /\ journal[k].reservation # "reserved" => Swept[k].reservation # "reserved"
         /\ Fine(journal[k]) => Fine(Swept[k])
         /\ ~Unconfirmed(journal[k]) => Swept[k] = journal[k]
         /\ k \in Pending <=> Swept[k].state = "uncertain"
<1>1. journal[k] \in Action
  BY JournalMoves
<1>2. Swept[k] = IF Unconfirmed(journal[k]) THEN Retained(Uncertain(journal[k])) ELSE journal[k]
  BY DEF Swept, reconcile_pending
<1>3. k \in Pending <=> Swept[k].state = "uncertain"
  BY DEF Pending, PendingIn
<1>4. CASE Unconfirmed(journal[k])
  BY <1>1, <1>2, <1>3, <1>4 DEF Action, Retained, Uncertain, Unconfirmed, Fine, Terminal
<1>5. CASE ~Unconfirmed(journal[k])
  BY <1>1, <1>2, <1>3, <1>5 DEF Action, Unconfirmed
<1> QED BY <1>4, <1>5

LEMMA KeptFacts ==
  ASSUME TypeOK, NEW k \in 1 .. Slots
  PROVE  /\ Kept[k] = journal[k] \/ (Reusable(k) /\ Kept[k] = NoAction)
         /\ Fine(journal[k]) => Fine(Kept[k])
         /\ journal[k].reservation # "reserved" => Kept[k].reservation # "reserved"
         /\ ~Unconfirmed(journal[k]) => ~Unconfirmed(Kept[k])
<1>1. Kept[k] = journal[k] \/ (Reusable(k) /\ Kept[k] = NoAction)
  BY DEF Kept
<1> QED BY <1>1 DEF NoAction, Fine, Terminal, Unconfirmed

LEMMA PutFacts ==
  ASSUME TypeOK, NEW k \in 1 .. Slots, NEW a, Put(k, a)
  PROVE  /\ journal'[k] = a
         /\ \A j \in 1 .. Slots : j # k => journal'[j] = journal[j]
         /\ (\A j \in 1 .. Slots : Fine(journal[j])) /\ Fine(a) =>
              \A j \in 1 .. Slots : Fine(journal'[j])
BY DEF Put, TypeOK

(* Settling one action of the swept journal.                                *)
LEMMA SettleFacts ==
  ASSUME TypeOK, NEW k \in 1 .. Slots, NEW s, journal' = [Swept EXCEPT ![k] = Closed(@, s)],
         \A j \in 1 .. Slots : Fine(journal[j]), Swept[k].reservation # "reserved" \/ s \notin Endings
  PROVE  /\ \A j \in 1 .. Slots :
              /\ s # "uncertain" => Fine(journal'[j])
              /\ journal[j].reservation # "reserved" => journal'[j].reservation # "reserved"
              /\ j # k => journal'[j] = Swept[j]
         /\ journal'[k].state = s
<1>1. Swept[k] \in Action /\ DOMAIN Swept = 1 .. Slots
  BY JournalMoves
<1>2. journal'[k] = Closed(Swept[k], s) /\ \A j \in 1 .. Slots : j # k => journal'[j] = Swept[j]
  BY <1>1
<1>3. /\ Closed(Swept[k], s).state = s /\ Closed(Swept[k], s).reservation = Swept[k].reservation
      /\ Closed(Swept[k], s).worker = Swept[k].worker
  BY <1>1 DEF Closed, Action
<1>4. \A j \in 1 .. Slots : Fine(Swept[j])
  BY SweptFacts
<1>5. s # "uncertain" => Fine(journal'[k])
  BY <1>2, <1>3, <1>4 DEF Fine, Terminal, Endings
<1> QED BY <1>2, <1>3, <1>4, <1>5, SweptFacts

(* The engine is back at its loop, or gone.                                 *)
LEMMA BackInJournal ==
  ASSUME NEW r, Landed(r), \A k \in 1 .. Slots : Fine(journal'[k]),
         r.ctx.action # 0 => journal'[r.ctx.action].reservation # "reserved"
  PROVE  JournalInv'
BY DEF JournalInv, Landed, AtHand, Named, AtWork, NothingElseUnconfirmed

(* The record's context is one of those there were, or names nothing.       *)
LEMMA BackUnnamed ==
  ASSUME TypeInv, JournalInv, NEW r, Landed(r), \A k \in 1 .. Slots : Fine(journal'[k]),
         \A k \in 1 .. Slots : journal[k].reservation # "reserved" => journal'[k].reservation # "reserved",
         r.ctx.action = 0 \/ r.ctx = mem.ctx \/ r.ctx = file.ctx
  PROVE  JournalInv'
<1>1. /\ mem.ctx.action \in 0 .. Slots /\ file.ctx.action \in 0 .. Slots
      /\ mem.ctx.action # 0 => journal[mem.ctx.action].reservation # "reserved"
      /\ file.ctx.action # 0 => journal[file.ctx.action].reservation # "reserved"
  BY DEF TypeInv, TypeOK, Record, Contexts, JournalInv, Named
<1>2. \A k \in 1 .. Slots : k \in 0 .. Slots /\ k # 0
  OBVIOUS
<1>3. r.ctx.action # 0 => journal'[r.ctx.action].reservation # "reserved"
  BY <1>1, BoundsAssumption
<1> QED BY <1>3, BackInJournal

LEMMA FineNow ==
  ASSUME TypeInv, JournalInv
  PROVE  /\ \A k \in 1 .. Slots : Fine(journal[k]) /\ Fine(Swept[k]) /\ Fine(Kept[k])
         /\ \A k \in 1 .. Slots : journal[k].reservation # "reserved" =>
              Swept[k].reservation # "reserved" /\ Kept[k].reservation # "reserved"
BY SweptFacts, KeptFacts DEF TypeInv, JournalInv

LEMMA LoopJournal ==
  ASSUME TypeInv, JournalInv, StartRun \/ Deadline \/ PhaseDone \/ AcceptanceBlocked \/ Launch
  PROVE  JournalInv'
<1>1. file \in Record /\ mem \in Record
  BY DEF TypeInv, TypeOK
<1>2. CASE StartRun
  <2> DEFINE r == Reconciled(file)
  <2>1. r.ctx = file.ctx
    BY <1>1, RecordMoves, MoreMoves DEF Reconciled, Statuses
  <2>2. Landed(r)
    BY <1>2, Landings DEF StartRun
  <2> HIDE DEF r
  <2> QED BY <1>2, <2>1, <2>2, FineNow, BackUnnamed DEF StartRun
<1>3. CASE Deadline \/ PhaseDone \/ AcceptanceBlocked
  <2>1. PICK r \in {Status(mem, "pending"), Status(mem, "done"), Failed(mem)} : Landed(r)
    BY <1>3, Landings DEF Deadline, PhaseDone, AcceptanceBlocked
  <2>2. r.ctx = mem.ctx
    BY <1>1, <2>1, RecordMoves DEF Statuses
  <2>3. journal' = journal
    BY <1>3 DEF Deadline, PhaseDone, AcceptanceBlocked, ledger
  <2> QED BY <2>1, <2>2, <2>3, FineNow, BackUnnamed
<1>4. CASE Launch
  <2>1. Status(mem, "running").ctx = mem.ctx
    BY <1>1, RecordMoves DEF Statuses
  <2>2. file' = Status(mem, "running") /\ mem' = Status(mem, "running") /\ pc' = "admit" /\ journal' = journal
    BY <1>4 DEF Launch, Save, Goto, ledger
  <2> QED BY <2>1, <2>2 DEF JournalInv, AtHand, Named, AtWork, NothingElseUnconfirmed
<1> QED BY <1>2, <1>3, <1>4

LEMMA AdmitJournal ==
  ASSUME TypeInv, JournalInv, Admit
  PROVE  JournalInv'
<1>1. /\ file \in Record /\ mem \in Record /\ TypeOK
      /\ mem.ctx.action \in 0 .. Slots /\ file.ctx.action \in 0 .. Slots
  BY DEF TypeInv, TypeOK, Record, Contexts
<1>2. \A k \in 1 .. Slots : Fine(journal[k])
  BY DEF JournalInv
<1>3. ASSUME pc' \in {"gate", "loop"}, file' = file, mem'.ctx = mem.ctx,
             \A j \in 1 .. Slots : Fine(journal'[j]),
             \A j \in 1 .. Slots : journal[j].reservation # "reserved" => journal'[j].reservation # "reserved",
             pc' = "gate" => \A j \in 1 .. Slots : ~Unconfirmed(journal'[j])
      PROVE  JournalInv'
  <2>1. Named(file)' /\ Named(mem)'
    BY <1>1, <1>3, BoundsAssumption DEF JournalInv, Named, AtWork
  <2>2. AtHand'
    BY <1>3 DEF AtHand
  <2>3. NothingElseUnconfirmed'
    BY <1>3 DEF NothingElseUnconfirmed
  <2> QED BY <1>3, <2>1, <2>2, <2>3 DEF JournalInv
<1>4. CASE AdmitClear
  <2>1. \A j \in 1 .. Slots : ~Unconfirmed(Swept[j])
    BY <1>1, <1>4, SweptFacts DEF AdmitClear, Unconfirmed
  <2> QED BY <1>3, <1>4, <2>1, FineNow DEF AdmitClear, Goto
<1>5. CASE AdmitUncertain
  <2> DEFINE r == Rerouted(mem, "process_interruption", Current, Attributed)
  <2>1. Attributed \in Pending \cup {0} /\ Attributed \in 0 .. Slots
    BY <1>5, NamedPending, BoundsAssumption DEF AdmitUncertain, Pending, PendingIn
  <2>2. Current \in Stages /\ "process_interruption" \in Classes
    BY <1>5, CurrentStage DEF AdmitUncertain, InStage, Classes
  <2>3. r.ctx = mem.ctx \/ r.ctx.action = Attributed
    BY <1>1, <2>1, <2>2, ReroutedContext
  <2>4. Landed(r) /\ journal' = Swept
    BY <1>5, Landings DEF AdmitUncertain
  <2> HIDE DEF r
  <2>5. CASE r.ctx = mem.ctx
    BY <2>4, <2>5, FineNow, BackUnnamed
  <2>6. CASE r.ctx.action = Attributed
    <3>1. Attributed # 0 => Swept[Attributed].reservation # "reserved"
      <4>1. SUFFICES ASSUME Attributed # 0 PROVE Swept[Attributed].reservation # "reserved"
        OBVIOUS
      <4>2. Attributed \in 1 .. Slots /\ Swept[Attributed].state = "uncertain"
        BY <2>1, <4>1 DEF Pending, PendingIn
      <4> QED BY <1>1, <4>2, SweptFacts
    <3> QED BY <2>4, <2>6, <3>1, FineNow, BackInJournal
  <2> QED BY <2>3, <2>5, <2>6
<1>6. ASSUME NEW k \in 1 .. Slots, OnePending(k)
      PROVE  /\ Swept[k].reservation # "reserved"
             /\ \A j \in 1 .. Slots : j # k => ~Unconfirmed(Swept[j])
  BY <1>1, <1>6, SweptFacts DEF OnePending, Unconfirmed
<1>7. ASSUME NEW k \in 1 .. Slots, AdmitRecovered(k)
      PROVE  JournalInv'
  <2>1. Swept[k].reservation # "reserved"
    BY <1>6, <1>7 DEF AdmitRecovered
  <2>2. journal' = [Swept EXCEPT ![k] = Closed(@, "completed")]
    BY <1>7 DEF AdmitRecovered
  <2>3. /\ \A j \in 1 .. Slots : Fine(journal'[j])
        /\ \A j \in 1 .. Slots : journal[j].reservation # "reserved" => journal'[j].reservation # "reserved"
    BY <1>1, <1>2, <2>1, <2>2, SettleFacts
  <2>4. Recovered(mem, Swept[k], Current).ctx = mem.ctx
    BY <1>1, RecordMoves, MoreMoves DEF Recovered, Phases, Stages
  <2> QED BY <1>3, <1>7, <2>3, <2>4 DEF AdmitRecovered, ToLoop
<1>8. ASSUME NEW k \in 1 .. Slots, AdmitReplay(k)
      PROVE  JournalInv'
  <2>1. Swept[k].reservation # "reserved" /\ \A j \in 1 .. Slots : j # k => ~Unconfirmed(Swept[j])
    BY <1>6, <1>8 DEF AdmitReplay
  <2>2. journal' = [Swept EXCEPT ![k] = Closed(@, "failed")]
    BY <1>8 DEF AdmitReplay
  <2>3. /\ \A j \in 1 .. Slots : Fine(journal'[j])
        /\ \A j \in 1 .. Slots : journal[j].reservation # "reserved" => journal'[j].reservation # "reserved"
        /\ \A j \in 1 .. Slots : j # k => journal'[j] = Swept[j]
        /\ journal'[k].state = "failed"
    BY <1>1, <1>2, <2>1, <2>2, SettleFacts
  <2>4. \A j \in 1 .. Slots : ~Unconfirmed(journal'[j])
    BY <2>1, <2>3 DEF Unconfirmed
  <2> QED BY <1>3, <1>8, <2>3, <2>4 DEF AdmitReplay, Goto
<1>9. ASSUME NEW k \in 1 .. Slots, AdmitMismatch(k)
      PROVE  JournalInv'
  <2>1. Swept[k].reservation # "reserved" /\ Swept[k].evidence \in {"none"} \cup Endings
    BY <1>1, <1>6, <1>9, JournalMoves DEF AdmitMismatch, Action, Endings
  <2>2. journal' = [Swept EXCEPT ![k] = Closed(@, Swept[k].evidence)]
    BY <1>9 DEF AdmitMismatch
  <2>3. Swept[k].evidence # "uncertain"
    BY <2>1 DEF Endings
  <2>4. /\ \A j \in 1 .. Slots : Fine(journal'[j])
        /\ \A j \in 1 .. Slots : journal[j].reservation # "reserved" => journal'[j].reservation # "reserved"
    BY <1>1, <1>2, <2>1, <2>2, <2>3, SettleFacts
  <2>5. Landed(Failed(mem)) /\ Failed(mem).ctx = mem.ctx
    BY <1>1, <1>9, Landings, RecordMoves DEF AdmitMismatch
  <2> QED BY <2>4, <2>5, BackUnnamed
<1> QED BY <1>4, <1>5, <1>7, <1>8, <1>9 DEF Admit

(* What a transaction on the action at hand leaves of the others.           *)
LEMMA AtHandPut ==
  ASSUME TypeInv, JournalInv, NEW a, pc \in AtWork, Put(act, a), Fine(a)
  PROVE  /\ act \in 1 .. Slots /\ journal'[act] = a
         /\ \A k \in 1 .. Slots : Fine(journal'[k]) /\ (k # act => journal'[k] = journal[k])
         /\ \A r \in {file, mem} :
              r.ctx.action # 0 => act # r.ctx.action /\ journal'[r.ctx.action].reservation # "reserved"
<1>1. act \in 1 .. Slots
  BY BoundsAssumption DEF TypeInv, TypeOK, Control
<1>2. /\ journal'[act] = a
      /\ \A k \in 1 .. Slots : Fine(journal'[k]) /\ (k # act => journal'[k] = journal[k])
  BY <1>1, PutFacts DEF TypeInv, JournalInv
<1>3. ASSUME NEW r \in {file, mem}, r.ctx.action # 0
      PROVE  act # r.ctx.action /\ journal'[r.ctx.action].reservation # "reserved"
  <2>1. r.ctx.action \in 1 .. Slots
    BY <1>3, BoundsAssumption DEF TypeInv, TypeOK, Record, Contexts
  <2>2. act # r.ctx.action /\ journal[r.ctx.action].reservation # "reserved"
    BY <1>3 DEF JournalInv, Named
  <2> QED BY <1>2, <2>1, <2>2
<1> QED BY <1>1, <1>2, <1>3

(* Leaving, or going back to the loop, after such a transaction.            *)
LEMMA BackAfterPut ==
  ASSUME TypeInv, JournalInv, NEW a, pc \in AtWork, Put(act, a), Fine(a),
         NEW r, Landed(r), r.ctx.action = 0 \/ r.ctx = mem.ctx \/ r.ctx = file.ctx
  PROVE  JournalInv'
<1>1. /\ \A k \in 1 .. Slots : Fine(journal'[k])
      /\ r.ctx.action # 0 => journal'[r.ctx.action].reservation # "reserved"
  BY AtHandPut
<1> QED BY <1>1, BackInJournal

(* Going on after such a transaction, the record as it was.                 *)
LEMMA OnAfterPut ==
  ASSUME TypeInv, JournalInv, NEW a, pc \in AtWork, Put(act, a), Fine(a),
         file' = file, mem' = mem, act' \in {act, 0}, via' = via, AtHand',
         pc' \in AtWork => act' = act,
         via = "stage" /\ pc' \in {"gate", "intent", "reserved", "recorded", "spawned", "wait"} =>
           /\ pc \in {"intent", "reserved", "recorded", "spawned", "wait"} /\ act' = act
  PROVE  JournalInv'
<1>1. /\ act \in 1 .. Slots
      /\ \A k \in 1 .. Slots : Fine(journal'[k]) /\ (k # act => journal'[k] = journal[k])
      /\ \A r \in {file, mem} :
              r.ctx.action # 0 => act # r.ctx.action /\ journal'[r.ctx.action].reservation # "reserved"
  BY AtHandPut
<1>2. Named(file)' /\ Named(mem)'
  BY <1>1 DEF Named
<1>3. NothingElseUnconfirmed'
  BY <1>1 DEF JournalInv, NothingElseUnconfirmed
<1> QED BY <1>1, <1>2, <1>3 DEF JournalInv

(* Where an escalation lands.                                               *)
LEMMA Escalated ==
  ASSUME TypeInv, Escalate(mem) \/ Leave(Status(mem, "pending")) \/ Leave(Failed(mem))
  PROVE  \E r \in Record : Landed(r) /\ (r.ctx = mem.ctx \/ r.ctx = file.ctx)
<1>1. file \in Record /\ mem \in Record
  BY DEF TypeInv, TypeOK
<1>2. /\ Failed(mem) \in Record /\ Failed(mem).ctx = mem.ctx
      /\ Status(mem, "pending") \in Record /\ Status(mem, "pending").ctx = mem.ctx
  BY <1>1, RecordMoves DEF Statuses
<1>3. Landed(Failed(mem)) \/ Landed(file) \/ Landed(Status(mem, "pending"))
  BY Landings
<1> QED BY <1>1, <1>2, <1>3

LEMMA BoundaryJournal ==
  ASSUME TypeInv, TypeInv', JournalInv, Boundary
  PROVE  JournalInv'
<1>1. /\ TypeOK /\ \A k \in 1 .. Slots : journal[k] \in Action
      /\ pc \in AtWork => Mine \in Action /\ Fine(Mine) /\ act \in 1 .. Slots
  <2>1. pc \in AtWork => act # 0
    BY DEF TypeInv, Control
  <2>2. pc \in AtWork => act \in 1 .. Slots
    BY <2>1, BoundsAssumption DEF TypeInv, TypeOK
  <2> QED BY <2>2, JournalMoves DEF TypeInv, JournalInv, Mine
<1>2. CASE GateRefuses
  <2>1. PICK r \in Record : Landed(r) /\ (r.ctx = mem.ctx \/ r.ctx = file.ctx)
    BY <1>2, Escalated DEF GateRefuses
  <2>2. journal' = journal
    BY <1>2 DEF GateRefuses
  <2> QED BY <2>1, <2>2, FineNow, BackUnnamed
<1>3. CASE BeginAction
  <2> DEFINE new == [NoAction EXCEPT !.stage = Current, !.state = "intent",
                                     !.baseline = Current = "implement" /\ tree.open]
  <2>1. PICK k \in 1 .. Slots : Reusable(k) /\ journal' = [Kept EXCEPT ![k] = new] /\ act' = k
    BY <1>3 DEF BeginAction
  <2>2. /\ new.state = "intent" /\ new.reservation = "none" /\ new.worker = "none"
        /\ new.stage = Current
    BY DEF NoAction
  <2> HIDE DEF new
  <2>3. DOMAIN Kept = 1 .. Slots
    BY DEF Kept
  <2>4. journal'[k] = new /\ \A j \in 1 .. Slots : j # k => journal'[j] = Kept[j]
    BY <2>1, <2>3
  <2>5. Fine(new) /\ ~Unconfirmed(new)
    BY <2>2 DEF Fine, Terminal, Unconfirmed
  <2>6. \A j \in 1 .. Slots : Fine(journal'[j])
    BY <2>4, <2>5, FineNow
  <2>7. Current' = Current /\ UNCHANGED <<file, mem, via>> /\ pc = "gate" /\ pc' = "intent"
    BY <1>3 DEF BeginAction, Current
  <2>8. AtHand'
    BY <2>1, <2>2, <2>4, <2>7 DEF AtHand, Mine
  <2>9. ASSUME NEW r \in {file, mem}, r.ctx.action # 0
        PROVE  /\ r.ctx.action # k /\ r.ctx.action \in 1 .. Slots
               /\ journal'[r.ctx.action].reservation # "reserved"
    <3>1. r.ctx.action # k
      BY <2>1, <2>9 DEF Reusable, Referenced
    <3>2. r.ctx.action \in 1 .. Slots
      BY <1>1, <2>9, BoundsAssumption DEF TypeOK, Record, Contexts
    <3>3. journal[r.ctx.action].reservation # "reserved"
      BY <2>9 DEF JournalInv, Named
    <3> QED BY <2>4, <3>1, <3>2, <3>3, FineNow
  <2>10. Named(file)' /\ Named(mem)'
    BY <2>1, <2>7, <2>9 DEF Named
  <2>11. NothingElseUnconfirmed'
    <3>1. via = "stage" => \A j \in 1 .. Slots : ~Unconfirmed(journal[j])
      BY <2>7 DEF JournalInv, NothingElseUnconfirmed, TypeInv, Control
    <3>2. via = "stage" => \A j \in 1 .. Slots : ~Unconfirmed(Kept[j])
      BY <1>1, <3>1, KeptFacts
    <3> QED BY <2>1, <2>4, <2>7, <3>2 DEF NothingElseUnconfirmed
  <2> QED BY <2>6, <2>8, <2>10, <2>11 DEF JournalInv
<1>4. ASSUME Reserve \/ DispatchAction \/ Spawn \/ Bind
      PROVE  JournalInv'
  <2>1. PICK a : /\ Put(act, a)
                 /\ \/ /\ pc = "intent" /\ pc' = "reserved" /\ a = [Mine EXCEPT !.reservation = "reserved"]
                    \/ /\ pc = "reserved" /\ pc' = "recorded" /\ a = [Mine EXCEPT !.state = "dispatched"]
                    \/ /\ pc = "recorded" /\ pc' = "spawned" /\ a = [Mine EXCEPT !.worker = "live"]
                    \/ /\ pc = "spawned" /\ pc' = "wait" /\ a = [Mine EXCEPT !.bound = TRUE]
    BY <1>4 DEF Reserve, DispatchAction, Spawn, Bind, StepAction, AtAction, Goto
  <2>2. /\ file' = file /\ mem' = mem /\ act' = act /\ via' = via /\ Current' = Current
        /\ pc \in AtWork
    BY <1>4, <2>1 DEF Reserve, DispatchAction, Spawn, Bind, StepAction, Goto, Current, AtWork
  <2>3. Mine \in Action /\ act \in 1 .. Slots /\ Fine(Mine)
    BY <1>1, <2>2
  <2>4. /\ pc = "intent" => Mine.state = "intent" /\ Mine.reservation = "none" /\ Mine.worker = "none"
        /\ pc = "reserved" => Mine.state = "intent" /\ Mine.reservation = "reserved" /\ Mine.worker = "none"
        /\ pc = "recorded" => Mine.state = "dispatched" /\ Mine.reservation = "reserved" /\ Mine.worker = "none"
        /\ pc = "spawned" => Mine.state = "dispatched" /\ Mine.reservation = "reserved"
        /\ pc \in {"intent", "reserved", "recorded", "spawned"} => Mine.stage = Current
    BY DEF JournalInv, AtHand
  <2>5. /\ a.stage = Current
        /\ pc' = "reserved" => a.state = "intent" /\ a.reservation = "reserved" /\ a.worker = "none"
        /\ pc' = "recorded" => a.state = "dispatched" /\ a.reservation = "reserved" /\ a.worker = "none"
        /\ pc' \in {"spawned", "wait"} => a.state = "dispatched" /\ a.reservation = "reserved"
    BY <2>1, <2>3, <2>4 DEF Action
  <2>6. Fine(a)
    BY <2>1, <2>5 DEF Fine, Terminal
  <2>7. Mine' = a
    BY <2>1, <2>2, <2>6, AtHandPut DEF Mine
  <2>8. AtHand'
    BY <2>1, <2>2, <2>5, <2>7 DEF AtHand
  <2> QED BY <2>1, <2>2, <2>6, <2>8, OnAfterPut DEF AtWork
<1>5. CASE ReserveRefused
  <2>1. PICK r \in Record : Landed(r) /\ (r.ctx = mem.ctx \/ r.ctx = file.ctx)
    BY <1>5, Escalated DEF ReserveRefused
  <2>2. pc = "intent" /\ pc \in AtWork /\ Put(act, Closed(Mine, "failed"))
    BY <1>5 DEF ReserveRefused, AtWork
  <2>3. Fine(Closed(Mine, "failed"))
    BY <1>1, <2>2 DEF Closed, Fine, Terminal, Action, JournalInv, AtHand
  <2> QED BY <2>1, <2>2, <2>3, BackAfterPut
<1>6. CASE NotSpawned
  <2>1. PICK r \in Record : Landed(r) /\ (r.ctx = mem.ctx \/ r.ctx = file.ctx)
    BY <1>6, Escalated DEF NotSpawned
  <2>2. pc \in AtWork /\ \/ pc = "recorded" /\ Put(act, SpawnFailed(Mine))
                         \/ pc = "spawned" /\ Put(act, BindFailed(Mine))
    BY <1>6 DEF NotSpawned, AtWork
  <2>3. pc = "recorded" => Fine(SpawnFailed(Mine))
    BY <1>1, <2>2 DEF SpawnFailed, Retained, WithEvidence, Closed, Fine, Terminal, Action, JournalInv, AtHand
  <2>4. pc = "spawned" => Fine(BindFailed(Mine))
    BY <1>1, <2>2 DEF BindFailed, Retained, Uncertain, Fine, Terminal, Action
  <2>5. CASE pc = "recorded"
    BY <2>1, <2>2, <2>3, <2>5, BackAfterPut
  <2>6. CASE pc = "spawned"
    BY <2>1, <2>2, <2>4, <2>6, BackAfterPut
  <2> QED BY <2>2, <2>5, <2>6
<1> QED BY <1>2, <1>3, <1>4, <1>5, <1>6 DEF Boundary

(* The records an outcome of a stage leads to name no other action.         *)
LEMMA OutcomeContext ==
  ASSUME TypeOK, NEW r \in Record, NEW s \in Stages, NEW o \in OutcomesOf(r, s), o.needs # "none"
  PROVE  /\ Rerouted(o.rec, o.needs, s, 0) \in Record
         /\ \/ Rerouted(o.rec, o.needs, s, 0).ctx = r.ctx
            \/ Rerouted(o.rec, o.needs, s, 0).ctx.action = 0
<1>1. /\ o.rec \in Record /\ o.rec.ctx = r.ctx
      /\ o.needs \in Classes /\ 0 \in 0 .. Slots
  BY Outcomes, BoundsAssumption DEF OutcomeOf, Classes
<1> QED BY <1>1, ReroutedRecord, ReroutedContext

(* What is at hand once a result is in.                                     *)
LEMMA HandFacts ==
  ASSUME TypeInv, JournalInv, pc \in AtWork
  PROVE  /\ Mine \in Action /\ Fine(Mine) /\ act \in 1 .. Slots
         /\ \A b \in Usage(Mine) : b.reservation # "reserved" /\ b.worker = Mine.worker /\ b \in Action
<1>1. act \in 1 .. Slots
  BY BoundsAssumption DEF TypeInv, TypeOK, Control
<1>2. Mine \in Action /\ Fine(Mine)
  BY <1>1, JournalMoves DEF TypeInv, JournalInv, Mine
<1>3. \A b \in Usage(Mine) : b \in Action
  BY <1>2, ActionMoves
<1>4. \A b \in Usage(Mine) : b.reservation # "reserved" /\ b.worker = Mine.worker
  BY <1>2 DEF Usage, Action
<1> QED BY <1>1, <1>2, <1>3, <1>4

LEMMA StageJournal ==
  ASSUME TypeInv, TypeInv', JournalInv, StageOutcome
  PROVE  JournalInv'
<1>1. TypeOK /\ mem \in Record /\ mem.ctx.action \in 0 .. Slots
  BY DEF TypeInv, TypeOK, Record, Contexts
<1>2. pc \in InStage => Current \in Stages
  BY CurrentStage
<1>3. CASE ApplyResult
  <2>1. pc = "wait" /\ pc' = "close" /\ act' = act /\ via' = via /\ journal' = journal
    BY <1>3 DEF ApplyResult, Exited
  <2>2. Current \in Stages
    BY <1>2, <2>1 DEF InStage
  <2>3. PICK o \in OutcomesOf(mem, Current) :
          IF o.needs = "none" THEN Save(o.rec) ELSE Save(Rerouted(o.rec, o.needs, Current, 0))
    BY <1>3 DEF ApplyResult
  <2>4. o.rec.ctx = mem.ctx
    BY <1>1, <2>2, Outcomes DEF OutcomeOf
  <2>5. file' = mem' /\ (mem'.ctx = mem.ctx \/ mem'.ctx.action = 0)
    BY <1>1, <2>2, <2>3, <2>4, OutcomeContext DEF Save
  <2>6. Named(file)' /\ Named(mem)'
    BY <2>1, <2>5 DEF JournalInv, Named, AtWork
  <2>7. AtHand'
    BY <2>1 DEF JournalInv, AtHand, Mine
  <2>8. NothingElseUnconfirmed'
    BY <2>1 DEF NothingElseUnconfirmed
  <2> QED BY <2>1, <2>6, <2>7, <2>8 DEF JournalInv
<1>4. CASE RecordEvidence
  <2>1. pc = "close" /\ pc \in AtWork
    BY <1>4 DEF RecordEvidence, AtWork
  <2>2. PICK b \in Usage(Mine) : Put(act, WithEvidence(b, Verdict))
    BY <1>4 DEF RecordEvidence
  <2> DEFINE a == WithEvidence(b, Verdict)
  <2>3. a.reservation # "reserved" /\ a.worker = Mine.worker /\ Fine(a)
    BY <2>1, HandFacts DEF WithEvidence, Fine, Usage, Action
  <2> HIDE DEF a
  <2>4. Mine' = a
    BY <1>4, <2>1, <2>2, <2>3, AtHandPut DEF RecordEvidence, Goto, Mine, a
  <2>5. AtHand'
    BY <1>4, <2>3, <2>4 DEF RecordEvidence, Goto, AtHand
  <2>6. Put(act, a)
    BY <2>2 DEF a
  <2> QED BY <1>4, <2>1, <2>3, <2>5, <2>6, OnAfterPut DEF RecordEvidence, Goto
<1>5. CASE CloseAction
  <2>1. pc = "proved" /\ pc \in AtWork /\ Put(act, Closed(Mine, Verdict))
    BY <1>5 DEF CloseAction, AtWork
  <2>2. Mine.reservation # "reserved"
    BY <2>1 DEF JournalInv, AtHand
  <2>3. Fine(Closed(Mine, Verdict))
    BY <2>1, <2>2, HandFacts DEF Closed, Fine, Action
  <2>4. Landed(mem)
    BY <1>5, <2>1, Landings DEF CloseAction, ToLoop, Landed, TypeInv, Control
  <2> QED BY <2>1, <2>3, <2>4, BackAfterPut
<1>6. CASE InvalidOutput
  <2>1. pc = "wait" /\ pc \in AtWork /\ Mine.worker = "dead"
    BY <1>6 DEF InvalidOutput, Exited, AtWork
  <2>2. PICK b \in Usage(Mine) : Put(act, Uncertain(b))
    BY <1>6 DEF InvalidOutput
  <2> DEFINE a == Uncertain(b)
  <2>3. a.reservation # "reserved" /\ a.worker = "dead" /\ Fine(a)
    BY <2>1, HandFacts DEF Uncertain, Fine, Action
  <2> HIDE DEF a
  <2>4. Put(act, a)
    BY <2>2 DEF a
  <2>5. Mine' = a
    BY <1>6, <2>1, <2>3, <2>4, AtHandPut DEF InvalidOutput, Goto, Mine
  <2>6. AtHand'
    BY <1>6, <2>3, <2>5 DEF InvalidOutput, Goto, AtHand
  <2> QED BY <1>6, <2>1, <2>3, <2>4, <2>6, OnAfterPut DEF InvalidOutput, Goto
<1>7. CASE JudgeFailed
  <2> DEFINE a == WithEvidence(Closed(Mine, "failed"), "failed")
  <2>1. pc = "judge" /\ pc \in AtWork /\ Put(act, a) /\ Current \in Stages /\ via = "stage"
    BY <1>2, <1>7 DEF JudgeFailed, AtWork, InStage, TypeInv, Control
  <2>2. Mine.reservation # "reserved" /\ Mine.worker # "live"
    BY <2>1 DEF JournalInv, AtHand
  <2>3. Fine(a)
    BY <2>1, <2>2, HandFacts DEF Closed, WithEvidence, Fine, Action
  <2> HIDE DEF a
  <2>4. CASE tries < InvalidRetries
    <3>1. AtHand'
      BY <1>7, <2>4 DEF JudgeFailed, AtHand
    <3> QED BY <1>7, <2>1, <2>3, <2>4, <3>1, OnAfterPut DEF JudgeFailed, AtWork
  <2>5. CASE ~(tries < InvalidRetries)
    <3> DEFINE r == Rerouted(mem, "invalid_result", Current, 0)
    <3>1. "invalid_result" \in Classes /\ 0 \in 0 .. Slots
      BY BoundsAssumption DEF Classes
    <3>2. r.ctx = mem.ctx \/ r.ctx.action = 0
      BY <1>1, <2>1, <3>1, ReroutedContext
    <3>3. Landed(r)
      BY <1>7, <2>5, Landings DEF JudgeFailed
    <3> HIDE DEF r
    <3> QED BY <2>1, <2>3, <3>2, <3>3, BackAfterPut
  <2> QED BY <2>4, <2>5
<1>8. CASE WorkerTimeout
  <2> DEFINE a == Retained(Uncertain([Mine EXCEPT !.worker = "dead"]))
  <2>1. pc = "wait" /\ pc \in AtWork /\ Put(act, a)
    BY <1>8 DEF WorkerTimeout, TimedOut, AtWork
  <2>2. Fine(a)
    BY <2>1, HandFacts DEF Retained, Uncertain, Fine, Terminal, Action
  <2> HIDE DEF a
  <2>3. AtHand'
    BY <1>8 DEF WorkerTimeout, Goto, AtHand
  <2> QED BY <1>8, <2>1, <2>2, <2>3, OnAfterPut DEF WorkerTimeout, Goto
<1>9. CASE RerouteTimeout
  <2> DEFINE r == Rerouted(mem, "transient_provider", Current, 0)
  <2>1. "transient_provider" \in Classes /\ 0 \in 0 .. Slots /\ Current \in Stages
    BY <1>2, <1>9, BoundsAssumption DEF Classes, RerouteTimeout, InStage
  <2>2. r.ctx = mem.ctx \/ r.ctx.action = 0
    BY <1>1, <2>1, ReroutedContext
  <2>3. Landed(r) /\ journal' = journal
    BY <1>9, Landings DEF RerouteTimeout
  <2> HIDE DEF r
  <2> QED BY <2>2, <2>3, FineNow, BackUnnamed
<1> QED BY <1>3, <1>4, <1>5, <1>6, <1>7, <1>8, <1>9 DEF StageOutcome

(* A recovery that goes on to dispatch, or ends.                            *)
LEMMA ResolvedContext ==
  ASSUME TypeInv, NEW r, Resolve(r), r.ctx = NoContext
  PROVE  \E q : Landed(q) /\ (q.ctx.action = 0 \/ q.ctx = file.ctx)
<1>1. NoContext.action = 0
  BY DEF NoContext
<1> QED BY <1>1, Landings

LEMMA DriveJournal ==
  ASSUME TypeInv, TypeInv', JournalInv, Drive
  PROVE  JournalInv'
<1>1. /\ TypeOK /\ file \in Record /\ mem \in Record /\ Cleared(mem) \in Record
      /\ Cleared(mem).ctx = NoContext /\ NoContext.action = 0
  BY RecordMoves DEF TypeInv, TypeOK, NoContext
<1>2. mem.ctx.origin \in Stages /\ Route(mem.ctx) \in Stages /\ mem.ctx.action \in 0 .. Slots
  BY <1>1 DEF Record, Contexts, Route, Stages
<1>3. mem.ctx.action # 0 => mem.ctx.action \in 1 .. Slots /\ Interrupted.reservation # "reserved"
  <2>1. SUFFICES ASSUME mem.ctx.action # 0
                 PROVE  mem.ctx.action \in 1 .. Slots /\ Interrupted.reservation # "reserved"
    OBVIOUS
  <2>2. mem.ctx.action \in 1 .. Slots
    BY <1>2, <2>1, BoundsAssumption
  <2>3. journal[mem.ctx.action].reservation # "reserved"
    BY <2>1 DEF JournalInv, Named
  <2> QED BY <2>2, <2>3, FineNow DEF Interrupted
<1>4. TypeOK /\ \A j \in 1 .. Slots : Fine(journal[j])
  BY DEF JournalInv, TypeInv
<1>5. CASE DriveSettled
  <2>1. PICK r : Landed(r) /\ (r.ctx = mem.ctx \/ r.ctx = NoContext)
    <3>1. /\ [mem EXCEPT !.phase = "implement"].ctx = mem.ctx /\ Failed(mem).ctx = mem.ctx
          /\ [Cleared(mem) EXCEPT !.phase = Route(mem.ctx)].ctx = NoContext
      BY <1>1, <1>2, RecordMoves DEF Phases, Stages
    <3>2. \/ Landed([mem EXCEPT !.phase = "implement"]) \/ Landed(Failed(mem))
          \/ Landed([Cleared(mem) EXCEPT !.phase = Route(mem.ctx)])
      BY <1>5, Landings DEF DriveSettled
    <3> QED BY <3>1, <3>2
  <2>2. journal' = journal
    BY <1>5 DEF DriveSettled, ledger
  <2> QED BY <1>1, <2>1, <2>2, FineNow, BackUnnamed
<1>6. CASE DriveRetry \/ DriveRepair
  <2>1. /\ UNCHANGED <<file, mem, journal>> /\ pc' = "gate" /\ via' # "stage"
    BY <1>6 DEF DriveRetry, DriveRepair, Redispatch, ledger
  <2> QED BY <2>1 DEF JournalInv, Named, AtHand, AtWork, NothingElseUnconfirmed
<1>7. CASE DriveReconciled
  <2> DEFINE r == Recovered(Cleared(mem), Interrupted, mem.ctx.origin)
  <2> DEFINE q == IF r.phase = "recovery" THEN [r EXCEPT !.phase = mem.ctx.origin] ELSE r
  <2> DEFINE z == Status(q, "pending")
  <2>1. r \in Record /\ r.ctx = NoContext
    BY <1>1, RecoveredRecord
  <2> HIDE DEF r
  <2>2. q \in Record /\ q.ctx = NoContext
    BY <1>2, <2>1, RecordMoves DEF Phases
  <2> HIDE DEF q
  <2>3. z.ctx = NoContext
    BY <2>2, RecordMoves DEF Statuses
  <2>4. Resolve(z)
    BY <1>7 DEF DriveReconciled, r, q
  <2> HIDE DEF z
  <2>5. PICK x : Landed(x) /\ (x.ctx.action = 0 \/ x.ctx = file.ctx)
    BY <2>3, <2>4, ResolvedContext
  <2>6. PICK k \in 1 .. Slots : /\ Swept[k].reservation # "reserved"
                               /\ journal' = [Swept EXCEPT ![k] = Closed(@, "completed")]
    BY <1>3, <1>7 DEF DriveReconciled, Interrupted
  <2>7. /\ \A j \in 1 .. Slots : Fine(journal'[j])
        /\ \A j \in 1 .. Slots : journal[j].reservation # "reserved" => journal'[j].reservation # "reserved"
    BY <1>4, <2>6, SettleFacts
  <2> QED BY <2>5, <2>7, BackUnnamed
<1>8. CASE DriveUnreconciled
  <2>1. PICK r \in Record : Landed(r) /\ (r.ctx = mem.ctx \/ r.ctx = file.ctx)
    BY <1>8, Escalated DEF DriveUnreconciled
  <2>2. CASE journal' = Swept
    BY <2>1, <2>2, FineNow, BackUnnamed
  <2>3. CASE journal' # Swept
    <3>1. /\ mem.ctx.action # 0 /\ Mismatched(Interrupted, mem.ctx.origin)
          /\ journal' = [Swept EXCEPT ![mem.ctx.action] = Closed(@, Interrupted.evidence)]
      BY <1>8, <2>3 DEF DriveUnreconciled, Interrupted
    <3> DEFINE s == Interrupted.evidence
    <3>2. s # "uncertain"
      BY <1>1, <1>3, <3>1, JournalMoves DEF Interrupted, Action
    <3> HIDE DEF s
    <3>3. PICK k \in 1 .. Slots : /\ Swept[k].reservation # "reserved"
                                 /\ journal' = [Swept EXCEPT ![k] = Closed(@, s)]
      BY <1>3, <3>1 DEF Interrupted, s
    <3>4. /\ \A j \in 1 .. Slots : Fine(journal'[j])
          /\ \A j \in 1 .. Slots : journal[j].reservation # "reserved" => journal'[j].reservation # "reserved"
      BY <1>4, <3>2, <3>3, SettleFacts
    <3> QED BY <2>1, <3>4, BackUnnamed
  <2> QED BY <2>2, <2>3
<1>9. CASE DriveFreshReview
  <2>1. NextRound(Cleared(mem), "implement").ctx = NoContext
    <3>1. Cleared(mem).round < MaxRounds /\ "implement" \in Phases
      BY <1>1, <1>9, RecordMoves DEF DriveFreshReview, Phases, Stages
    <3> QED BY <1>1, <3>1, RoundMoves
  <2>2. Resolve(NextRound(Cleared(mem), "implement")) /\ journal' = journal
    BY <1>9 DEF DriveFreshReview
  <2>3. PICK x : Landed(x) /\ (x.ctx.action = 0 \/ x.ctx = file.ctx)
    BY <2>1, <2>2, ResolvedContext
  <2> QED BY <2>2, <2>3, FineNow, BackUnnamed
<1>10. CASE DriveNoReview
  <2>1. PICK r \in Record : Landed(r) /\ (r.ctx = mem.ctx \/ r.ctx = file.ctx)
    BY <1>10, Escalated DEF DriveNoReview
  <2>2. journal' = journal
    BY <1>10 DEF DriveNoReview
  <2> QED BY <2>1, <2>2, FineNow, BackUnnamed
<1> QED BY <1>5, <1>6, <1>7, <1>8, <1>9, <1>10 DEF Drive

LEMMA RecoveryJournal ==
  ASSUME TypeInv, TypeInv', JournalInv, RecoveryOutcome
  PROVE  JournalInv'
<1>1. /\ TypeOK /\ file \in Record /\ mem \in Record /\ Cleared(mem) \in Record
      /\ Cleared(mem).ctx = NoContext /\ NoContext.action = 0
  BY RecordMoves DEF TypeInv, TypeOK, NoContext
<1>2. CASE RecoveryExited
  <2> DEFINE a == WithEvidence(Retained(Mine), "completed")
  <2>1. pc = "wait" /\ pc \in AtWork /\ Put(act, a)
    BY <1>2 DEF RecoveryExited, Exited, AtWork
  <2>2. a.reservation # "reserved" /\ Fine(a)
    BY <2>1, HandFacts DEF Retained, WithEvidence, Fine, Action
  <2> HIDE DEF a
  <2>3. Mine' = a
    BY <1>2, <2>1, <2>2, AtHandPut DEF RecoveryExited, Goto, Mine
  <2>4. AtHand'
    BY <1>2, <2>2, <2>3 DEF RecoveryExited, Goto, AtHand
  <2> QED BY <1>2, <2>1, <2>2, <2>4, OnAfterPut DEF RecoveryExited, Goto
<1>3. CASE RecoveryClosed
  <2> DEFINE a == Closed(Mine, "completed")
  <2>1. pc = "proved" /\ pc \in AtWork /\ Put(act, a)
    BY <1>3 DEF RecoveryClosed, AtWork
  <2>2. Mine.reservation # "reserved"
    BY <2>1 DEF JournalInv, AtHand
  <2>3. Fine(a)
    BY <2>1, <2>2, HandFacts DEF Closed, Fine, Action
  <2> HIDE DEF a
  <2>4. AtHand'
    BY <1>3 DEF RecoveryClosed, Goto, AtHand
  <2> QED BY <1>3, <2>1, <2>3, <2>4, OnAfterPut DEF RecoveryClosed, Goto, AtWork
<1>4. CASE RecoveryTimeout
  <2> DEFINE a == Retained(Uncertain([Mine EXCEPT !.worker = "dead"]))
  <2>1. pc = "wait" /\ pc \in AtWork /\ Put(act, a)
    BY <1>4 DEF RecoveryTimeout, TimedOut, AtWork
  <2>2. Fine(a)
    BY <2>1, HandFacts DEF Retained, Uncertain, Fine, Terminal, Action
  <2> HIDE DEF a
  <2>3. CASE via = "retry" /\ tries + 1 < BackoffMax
    <3>1. AtHand'
      BY <1>4, <2>3 DEF RecoveryTimeout, AtHand
    <3> QED BY <1>4, <2>1, <2>2, <2>3, <3>1, OnAfterPut DEF RecoveryTimeout, AtWork
  <2>4. CASE ~(via = "retry" /\ tries + 1 < BackoffMax)
    <3>1. PICK r \in Record : Landed(r) /\ (r.ctx = mem.ctx \/ r.ctx = file.ctx)
      BY <1>4, <2>4, Escalated DEF RecoveryTimeout
    <3> QED BY <2>1, <2>2, <3>1, BackAfterPut
  <2> QED BY <2>3, <2>4
<1>5. CASE RecoveryInvalid \/ RepairRefused
  <2>1. PICK r \in Record : Landed(r) /\ (r.ctx = mem.ctx \/ r.ctx = file.ctx)
    BY <1>5, Escalated DEF RecoveryInvalid, RepairRefused
  <2>2. journal' = journal
    BY <1>5 DEF RecoveryInvalid, RepairRefused
  <2> QED BY <2>1, <2>2, FineNow, BackUnnamed
<1>6. CASE RetryCleared \/ FixAnswered \/ RepairConsumed
  <2>1. /\ UNCHANGED <<file, mem, journal>> /\ pc' \in {"resolved", "gate", "consumed"}
        /\ pc' = "gate" => via' # "stage"
    BY <1>6 DEF RetryCleared, FixAnswered, RepairConsumed, Redispatch, Goto, ledger
  <2> QED BY <2>1 DEF JournalInv, Named, AtHand, AtWork, NothingElseUnconfirmed
<1>7. CASE RetryApplies
  <2> DEFINE r == Status(Cleared(mem), "pending")
  <2>1. r \in Record /\ r.ctx = NoContext /\ Current \in Stages
    BY <1>1, <1>7, RecordMoves, CurrentStage DEF RetryApplies, Statuses
  <2> HIDE DEF r
  <2>2. PICK o \in OutcomesOf(r, Current) :
          IF o.needs = "none" THEN Landed(o.rec) ELSE Landed(Rerouted(o.rec, o.needs, Current, 0))
    BY <1>7, Landings DEF RetryApplies, r
  <2>3. o.rec.ctx = NoContext
    BY <1>1, <2>1, Outcomes DEF OutcomeOf
  <2>4. o.needs # "none" =>
          \/ Rerouted(o.rec, o.needs, Current, 0).ctx = NoContext
          \/ Rerouted(o.rec, o.needs, Current, 0).ctx.action = 0
    BY <1>1, <2>1, OutcomeContext
  <2>5. PICK x : Landed(x) /\ x.ctx.action = 0
    BY <1>1, <2>2, <2>3, <2>4
  <2>6. journal' = journal
    BY <1>7 DEF RetryApplies
  <2> QED BY <2>5, <2>6, FineNow, BackUnnamed
<1>8. CASE RepairResolved
  <2>1. Route(mem.ctx) \in Phases
    BY <1>1 DEF Record, Contexts, Route, Stages, Phases
  <2>2. To(Cleared(mem), Route(mem.ctx)).ctx = NoContext
    BY <1>1, <2>1, RecordMoves
  <2>3. Resolve(To(Cleared(mem), Route(mem.ctx))) /\ journal' = journal
    BY <1>8 DEF RepairResolved
  <2>4. PICK x : Landed(x) /\ (x.ctx.action = 0 \/ x.ctx = file.ctx)
    BY <2>2, <2>3, ResolvedContext
  <2> QED BY <2>3, <2>4, FineNow, BackUnnamed
<1> QED BY <1>2, <1>3, <1>4, <1>5, <1>6, <1>7, <1>8 DEF RecoveryOutcome

(* A worker ends or reports, whichever action is at hand.                   *)
LEMMA WorkerJournal ==
  ASSUME TypeInv, JournalInv, NEW k \in 1 .. Slots, NEW a \in Action, Put(k, a), Fine(a),
         UNCHANGED <<file, mem, pc, act, via>>, journal[k].worker = "live",
         a.stage = journal[k].stage, a.reservation = journal[k].reservation,
         a.worker \in {"live", "dead"},
         journal[k].state \in {"intent", "dispatched"} => a.state = journal[k].state,
         Unconfirmed(a) => Unconfirmed(journal[k]),
         a.worker = "live" => Unconfirmed(journal[k])
  PROVE  JournalInv'
<1>1. /\ journal'[k] = a /\ \A j \in 1 .. Slots : j # k => journal'[j] = journal[j]
      /\ \A j \in 1 .. Slots : Fine(journal'[j])
  BY PutFacts DEF TypeInv, JournalInv
<1>2. \A j \in 1 .. Slots : /\ journal'[j].reservation = journal[j].reservation
                            /\ Unconfirmed(journal'[j]) => Unconfirmed(journal[j])
  BY <1>1
<1>3. Named(file)' /\ Named(mem)'
  <2>1. \A r \in {file, mem} : r.ctx.action # 0 => r.ctx.action \in 1 .. Slots
    BY BoundsAssumption DEF TypeInv, TypeOK, Record, Contexts
  <2> QED BY <1>2, <2>1 DEF JournalInv, Named
<1>4. AtHand'
  <2>1. CASE act # k
    <3>1. pc \in AtWork => act \in 1 .. Slots
      BY BoundsAssumption DEF TypeInv, TypeOK, Control
    <3>2. pc \in AtWork => Mine' = Mine
      BY <1>1, <2>1, <3>1 DEF Mine
    <3> QED BY <3>2 DEF JournalInv, AtHand, AtWork, Current
  <2>2. CASE act = k
    <3>1. Mine' = a /\ Mine = journal[k]
      BY <1>1, <2>2 DEF Mine
    <3>2. pc # "judge"
      BY <3>1 DEF JournalInv, AtHand
    <3> QED BY <3>1, <3>2 DEF JournalInv, AtHand, Current
  <2> QED BY <2>1, <2>2
<1>5. NothingElseUnconfirmed'
  BY <1>2 DEF JournalInv, NothingElseUnconfirmed
<1> QED BY <1>1, <1>3, <1>4, <1>5 DEF JournalInv

LEMMA EnvironmentJournal ==
  ASSUME TypeInv, TypeInv', JournalInv, Environment
  PROVE  JournalInv'
<1>1. TypeOK /\ file \in Record /\ mem \in Record
  BY DEF TypeInv, TypeOK
<1>2. ASSUME UNCHANGED <<file, mem, journal, proc>>
      PROVE  JournalInv'
  BY <1>2 DEF JournalInv, Named, AtHand, Mine, Current, NothingElseUnconfirmed, proc
<1>3. CASE Kill
  <2>1. Landed(file) /\ journal' = journal
    BY <1>3, Landings DEF Kill, ledger
  <2> QED BY <2>1, FineNow, BackUnnamed
<1>4. CASE Interrupt
  <2> DEFINE a == Uncertain([Mine EXCEPT !.worker = "dead"])
  <2>1. pc \in AtWork /\ Put(act, a) /\ Landed(file)
    BY <1>4, Landings DEF Interrupt, AtWork
  <2>2. Fine(a)
    BY <2>1, HandFacts DEF Uncertain, Fine, Terminal, Action
  <2> HIDE DEF a
  <2> QED BY <2>1, <2>2, BackAfterPut
<1>5. ASSUME NEW k \in 1 .. Slots, KilledInReplay(k)
      PROVE  JournalInv'
  <2>1. journal' = [Swept EXCEPT ![k] = Closed(@, "reconciled")] /\ Landed(file)
    BY <1>5, Landings DEF KilledInReplay
  <2>2. \A j \in 1 .. Slots : Fine(journal[j])
    BY DEF JournalInv
  <2>3. /\ \A j \in 1 .. Slots : Fine(journal'[j])
        /\ \A j \in 1 .. Slots : journal[j].reservation # "reserved" => journal'[j].reservation # "reserved"
    BY <1>1, <2>1, <2>2, SettleFacts DEF Endings
  <2> QED BY <2>1, <2>3, BackUnnamed
<1>6. ASSUME NEW k \in 1 .. Slots, WorkerEnds(k)
      PROVE  JournalInv'
  <2> DEFINE a == [journal[k] EXCEPT !.worker = "dead"]
  <2>1. journal[k] \in Action /\ Fine(journal[k])
    BY <1>1, JournalMoves DEF JournalInv
  <2>2. /\ a \in Action /\ Fine(a) /\ a.stage = journal[k].stage /\ a.state = journal[k].state
        /\ a.reservation = journal[k].reservation /\ a.worker = "dead"
    BY <2>1 DEF Fine, Terminal, Action
  <2>3. Put(k, a) /\ journal[k].worker = "live" /\ UNCHANGED <<file, mem, pc, act, via>>
    BY <1>6 DEF WorkerEnds, proc
  <2> HIDE DEF a
  <2> QED BY <2>2, <2>3, WorkerJournal DEF Unconfirmed
<1>7. ASSUME NEW k \in 1 .. Slots, WorkerReports(k)
      PROVE  JournalInv'
  <2>1. PICK how \in Endings :
          Put(k, LET a == WithEvidence(journal[k], how)
                 IN  IF a.state = "uncertain" THEN Closed(a, how) ELSE a)
    BY <1>7 DEF WorkerReports, Endings
  <2> DEFINE e == WithEvidence(journal[k], how)
  <2> DEFINE a == IF e.state = "uncertain" THEN Closed(e, how) ELSE e
  <2>2. journal[k] \in Action /\ Fine(journal[k])
    BY <1>1, JournalMoves DEF JournalInv
  <2>3. /\ e \in Action /\ e.stage = journal[k].stage /\ e.state = journal[k].state
        /\ e.reservation = journal[k].reservation /\ e.worker = journal[k].worker
    <3>1. e \in Action
      BY <2>2, ActionMoves
    <3> QED BY <2>2, <3>1 DEF WithEvidence, Action
  <2>4. Put(k, a)
    BY <2>1
  <2> HIDE DEF e
  <2>5. /\ a \in Action /\ a.stage = journal[k].stage
        /\ a.state = IF journal[k].state = "uncertain" THEN how ELSE journal[k].state
        /\ a.reservation = journal[k].reservation /\ a.worker = journal[k].worker
    <3>1. Closed(e, how) \in Action
      BY <2>3, ActionMoves
    <3>2. /\ Closed(e, how).stage = e.stage /\ Closed(e, how).state = how
          /\ Closed(e, how).reservation = e.reservation /\ Closed(e, how).worker = e.worker
      BY <2>3 DEF Closed, Action
    <3> QED BY <2>3, <3>1, <3>2
  <2> HIDE DEF a
  <2>6. /\ journal[k].worker = "live" /\ Unconfirmed(journal[k])
        /\ UNCHANGED <<file, mem, pc, act, via>>
    BY <1>7 DEF WorkerReports, proc
  <2>7. Fine(a)
    BY <2>2, <2>5, <2>6 DEF Fine, Terminal, Unconfirmed
  <2> QED BY <2>4, <2>5, <2>6, <2>7, WorkerJournal DEF Unconfirmed, Endings
<1>8. ASSUME NEW k \in 1 .. Slots, WorkerWrites(k)
      PROVE  JournalInv'
  BY <1>2, <1>8 DEF WorkerWrites, ledger
<1>9. CASE EditArtifacts
  BY <1>2, <1>9 DEF EditArtifacts, ledger
<1>10. CASE Reset
  <2>1. NewRecord.ctx.action = 0 /\ journal' = journal
    BY <1>10 DEF Reset, NewRecord, NoContext, ledger
  <2>2. file' = NewRecord /\ mem' = NewRecord /\ pc' = "idle" /\ via' = via
    BY <1>10 DEF Reset, Save, proc
  <2> QED BY <2>1, <2>2, FineNow
      DEF JournalInv, Named, AtHand, AtWork, NothingElseUnconfirmed
<1>11. CASE ResolveEscalation
  <2> DEFINE q == [file EXCEPT !.escalated = FALSE]
  <2>1. q \in Record /\ q.ctx = file.ctx /\ "acceptance" \in Phases
    BY <1>1, MoreMoves DEF Phases, Stages
  <2>2. To(q, "acceptance").ctx = file.ctx
    BY <2>1, RecordMoves
  <2>3. file' = To(q, "acceptance") /\ mem' = file' /\ pc' = "idle" /\ journal' = journal
    BY <1>11 DEF ResolveEscalation, Save, ledger, proc
  <2> QED BY <2>2, <2>3 DEF JournalInv, Named, AtHand, AtWork, NothingElseUnconfirmed
<1> QED BY <1>3, <1>4, <1>5, <1>6, <1>7, <1>8, <1>9, <1>10, <1>11 DEF Environment

LEMMA JournalInit == Init => JournalInv
BY BoundsAssumption
   DEF Init, JournalInv, Fine, Terminal, NoAction, AtHand, Named, NewRecord, NoContext, AtWork,
       NothingElseUnconfirmed

LEMMA JournalStep ==
  ASSUME TypeInv, TypeInv', JournalInv, [Next]_vars
  PROVE  JournalInv'
<1>1. CASE UNCHANGED vars
  BY <1>1 DEF JournalInv, Named, AtHand, Mine, Current, NothingElseUnconfirmed, vars, ledger, proc
<1>2. CASE StartRun
  BY <1>2, LoopJournal
<1>3. CASE Engine
  BY <1>3, LoopJournal, AdmitJournal, BoundaryJournal, StageJournal, DriveJournal, RecoveryJournal
  DEF Engine
<1>4. CASE Environment
  BY <1>4, EnvironmentJournal
<1> QED BY <1>1, <1>2, <1>3, <1>4 DEF Next

LEMMA Journal == Spec => []JournalInv
<1>1. Init => JournalInv
  BY JournalInit
<1>2. TypeInv /\ TypeInv' /\ JournalInv /\ [Next]_vars => JournalInv'
  BY JournalStep
<1> QED BY <1>1, <1>2, Types, PTL DEF Spec

(* No worker runs that the budget was not charged for, and a closed action   *)
(* holds no reservation open, however the steps of the engine, its death     *)
(* and the reports of workers interleave.                                   *)
THEOREM EveryActionAccounted == Spec => []Accounted
<1>1. JournalInv => Accounted
  BY DEF JournalInv, Fine, Accounted
<1> QED BY <1>1, Journal, PTL

(* Nothing the change dispatched earlier has an unknown outcome while the    *)
(* loop has a worker of its own.                                            *)
THEOREM OneOutcomeOpen == Spec => []NothingElseUnconfirmed
<1>1. JournalInv => NothingElseUnconfirmed
  BY DEF JournalInv
<1> QED BY <1>1, Journal, PTL

(* What the admission of a dispatch may do to one action of the journal.     *)
LEMMA AdmittedReplay ==
  ASSUME TypeInv, Next, NEW k \in 1 .. Slots, pc = "admit", pc' # "admit", ~Terminal(journal[k]),
         journal'[k].state = "failed", journal[k].evidence = "none"
  PROVE  journal[k].bound /\ journal[k].worker # "live"
<1>1. TypeOK /\ journal[k] \in Action /\ Swept[k] \in Action /\ DOMAIN Swept = 1 .. Slots
  BY JournalMoves DEF TypeInv, Swept, reconcile_pending
<1>2. /\ Swept[k].bound = journal[k].bound /\ Swept[k].worker = journal[k].worker
      /\ Swept[k].evidence = "none" /\ Swept[k].state # "failed"
  <2>1. journal[k].state # "failed"
    BY DEF Terminal
  <2> QED BY <1>1, <2>1, SweptFacts
<1>3. ASSUME NEW j \in 1 .. Slots, NEW s, journal' = [Swept EXCEPT ![j] = Closed(@, s)]
      PROVE  j = k /\ s = "failed"
  BY <1>1, <1>2, <1>3 DEF Closed, Action
<1>4. CASE AdmitClear \/ AdmitUncertain
  BY <1>2, <1>4 DEF AdmitClear, AdmitUncertain
<1>5. ASSUME NEW j \in 1 .. Slots, AdmitRecovered(j)
      PROVE  FALSE
  <2>1. journal' = [Swept EXCEPT ![j] = Closed(@, "completed")]
    BY <1>5 DEF AdmitRecovered
  <2>2. "completed" = "failed"
    BY <1>3, <2>1
  <2> QED BY <2>2
<1>6. ASSUME NEW j \in 1 .. Slots, AdmitReplay(j)
      PROVE  journal[k].bound /\ journal[k].worker # "live"
  <2>1. j = k
    BY <1>3, <1>6 DEF AdmitReplay
  <2>2. Replayed(Swept[j], Current)
    BY <1>6 DEF AdmitReplay
  <2> QED BY <1>2, <2>1, <2>2 DEF Replayed
<1>7. ASSUME NEW j \in 1 .. Slots, AdmitMismatch(j)
      PROVE  FALSE
  <2>1. journal' = [Swept EXCEPT ![j] = Closed(@, Swept[j].evidence)] /\ Swept[j].evidence # "none"
    BY <1>7 DEF AdmitMismatch, Mismatched
  <2>2. j = k
    BY <1>3, <2>1
  <2> QED BY <1>2, <2>1, <2>2
<1>8. ASSUME NEW j \in 1 .. Slots, KilledInReplay(j)
      PROVE  FALSE
  BY <1>3, <1>8 DEF KilledInReplay
<1>9. CASE Kill
  BY <1>9 DEF Kill, ledger, Terminal
<1>10. CASE StartRun \/ Deadline \/ PhaseDone \/ AcceptanceBlocked \/ Launch
  BY <1>10 DEF StartRun, Deadline, PhaseDone, AcceptanceBlocked, Launch, AtLoop
<1>11. CASE Boundary
  BY <1>11 DEF Boundary, GateRefuses, BeginAction, Reserve, ReserveRefused, DispatchAction, Spawn, Bind,
               NotSpawned, StepAction, AtAction
<1>12. CASE StageOutcome
  BY <1>12 DEF StageOutcome, ApplyResult, RecordEvidence, CloseAction, InvalidOutput, JudgeFailed,
               WorkerTimeout, RerouteTimeout, Exited, TimedOut
<1>13. CASE Drive
  BY <1>13 DEF Drive, DriveSettled, DriveRetry, DriveRepair, DriveReconciled, DriveUnreconciled,
               DriveFreshReview, DriveNoReview, Driving, AtLoop
<1>14. CASE RecoveryOutcome
  BY <1>14 DEF RecoveryOutcome, RecoveryExited, RecoveryClosed, RecoveryTimeout, RecoveryInvalid,
               RetryCleared, RetryApplies, FixAnswered, RepairConsumed, RepairRefused, RepairResolved,
               Exited, TimedOut
<1>15. ASSUME \/ Interrupt \/ Reset \/ ResolveEscalation \/ EditArtifacts
              \/ \E j \in 1 .. Slots : WorkerEnds(j) \/ WorkerWrites(j) \/ WorkerReports(j)
       PROVE  FALSE
  BY <1>15 DEF Interrupt, Reset, ResolveEscalation, EditArtifacts, WorkerEnds, WorkerWrites,
               WorkerReports, proc
<1>16. Engine => \/ Deadline \/ PhaseDone \/ AcceptanceBlocked \/ Launch
                 \/ AdmitClear \/ AdmitUncertain
                 \/ \E j \in 1 .. Slots : AdmitRecovered(j) \/ AdmitReplay(j) \/ AdmitMismatch(j)
                 \/ Boundary \/ StageOutcome \/ Drive \/ RecoveryOutcome
  BY DEF Engine, Admit
<1>17. Environment => \/ Kill \/ Interrupt \/ Reset \/ ResolveEscalation \/ EditArtifacts
                      \/ \E j \in 1 .. Slots : KilledInReplay(j)
                      \/ \E j \in 1 .. Slots : WorkerEnds(j) \/ WorkerWrites(j) \/ WorkerReports(j)
  BY DEF Environment
<1> QED BY <1>4, <1>5, <1>6, <1>7, <1>8, <1>9, <1>10, <1>11, <1>12, <1>13, <1>14, <1>15, <1>16, <1>17
        DEF Next

(* The admission of a dispatch replaces an earlier one only when that one's  *)
(* worker is bound and gone and no delivered result stands for it.          *)
THEOREM OnlyTheDeadAreReplaced == Spec => SupersededIsDead
<1>1. TypeInv /\ [Next]_vars =>
        [\A k \in 1 .. Slots :
           (pc = "admit" /\ pc' # "admit" /\ ~Terminal(journal[k]) /\ journal'[k].state = "failed"
              /\ journal[k].evidence = "none") =>
             journal[k].bound /\ journal[k].worker # "live"]_vars
  <2>1. SUFFICES ASSUME TypeInv, Next, NEW k \in 1 .. Slots, pc = "admit", pc' # "admit",
                        ~Terminal(journal[k]), journal'[k].state = "failed",
                        journal[k].evidence = "none"
                 PROVE  journal[k].bound /\ journal[k].worker # "live"
    OBVIOUS
  <2> QED BY <2>1, AdmittedReplay
<1> QED BY <1>1, Types, PTL DEF Spec, SupersededIsDead

-----------------------------------------------------------------------------
(* What stands behind an archive.                                           *)

LEMMA BackedFacts ==
  ASSUME NEW r, NEW v, NEW i, Backed(r, v, i)
  PROVE  /\ \A q : q.phase = r.phase /\ q.ctx = r.ctx => Backed(q, v, i)
         /\ \A j : j # "resolved" => Backed(r, v, j)
         /\ \A w : Good(w) => Backed(r, w, i)
BY DEF Backed

LEMMA BackedFree ==
  ASSUME NEW r, NEW v, NEW i,
         \/ r.phase \notin {"archive", "recovery"}
         \/ Good(v)
         \/ r.phase = "recovery" /\ r.ctx.origin # "archive"
         \/ r.phase = "recovery" /\ r.ctx.class \in {"recurring_findings", "partial_archive", "none"}
  PROVE  Backed(r, v, i)
BY DEF Backed

LEMMA VetLanded ==
  ASSUME NEW r, Landed(r), Backed(r, vetted', incident')
  PROVE  VetInv'
BY DEF VetInv, Landed

(* A step that keeps what stands for the content, and lands on a record that *)
(* is where one of those there were was.                                    *)
LEMMA VetSame ==
  ASSUME VetInv, vetted' = vetted, incident' = incident \/ incident' # "resolved", NEW r, Landed(r),
         \/ r.phase = mem.phase /\ r.ctx = mem.ctx
         \/ r.phase = file.phase /\ r.ctx = file.ctx
         \/ r.phase \notin {"archive", "recovery"}
  PROVE  VetInv'
<1>1. Backed(file, vetted, incident') /\ Backed(mem, vetted, incident')
  BY BackedFacts DEF VetInv
<1>2. Backed(r, vetted, incident')
  BY <1>1, BackedFacts, BackedFree
<1> QED BY <1>2, VetLanded

LEMMA LoopVet ==
  ASSUME TypeInv, VetInv, StartRun \/ Deadline \/ PhaseDone \/ AcceptanceBlocked \/ Launch
  PROVE  VetInv'
<1>1. file \in Record /\ mem \in Record
  BY DEF TypeInv, TypeOK
<1>2. CASE StartRun
  <2> DEFINE r == Reconciled(file)
  <2>1. r.ctx = file.ctx /\ (r.phase = file.phase \/ r.phase = "done")
    BY <1>1, RecordMoves, MoreMoves DEF Reconciled, Statuses
  <2>2. Landed(r)
    BY <1>2, Landings DEF StartRun
  <2> HIDE DEF r
  <2> QED BY <1>2, <2>1, <2>2, VetSame DEF StartRun
<1>3. CASE Deadline \/ PhaseDone \/ AcceptanceBlocked
  <2>1. PICK r \in {Status(mem, "pending"), Status(mem, "done"), Failed(mem)} : Landed(r)
    BY <1>3, Landings DEF Deadline, PhaseDone, AcceptanceBlocked
  <2>2. r.ctx = mem.ctx /\ r.phase = mem.phase
    BY <1>1, <2>1, RecordMoves DEF Statuses
  <2>3. vetted' = vetted /\ incident' = incident
    BY <1>3 DEF Deadline, PhaseDone, AcceptanceBlocked, ledger
  <2> QED BY <2>1, <2>2, <2>3, VetSame
<1>4. CASE Launch
  <2> DEFINE r == Status(mem, "running")
  <2>1. r.ctx = mem.ctx /\ r.phase = mem.phase
    BY <1>1, RecordMoves DEF Statuses
  <2>2. file' = r /\ mem' = r /\ pc' = "admit" /\ vetted' = vetted /\ incident' = incident
    BY <1>4 DEF Launch, Save, Goto, ledger
  <2> HIDE DEF r
  <2>3. Backed(r, vetted, incident)
    BY <2>1, BackedFacts DEF VetInv
  <2> QED BY <2>2, <2>3 DEF VetInv
<1> QED BY <1>2, <1>3, <1>4

(* A recovery asked for a stage that leads to archive finds it good.        *)
LEMMA ReroutedVet ==
  ASSUME TypeInv, VetInv, pc \in InStage, via = "stage", NEW class \in Classes, NEW k \in 0 .. Slots,
         Landed(Rerouted(mem, class, Current, k)), vetted' = vetted,
         incident' = incident \/ incident' = "recovering"
  PROVE  VetInv'
<1> DEFINE r == Rerouted(mem, class, Current, k)
<1>1. mem \in Record /\ Current = mem.phase /\ Current \in Stages
  BY CurrentStage DEF TypeInv, TypeOK, Current
<1>2. Backed(mem, vetted, incident)
  BY DEF VetInv
<1>3. CASE r.phase = "recovery" /\ r.ctx = [class |-> class, origin |-> Current, action |-> k]
  <2>1. r.ctx.origin = "archive" => Good(vetted)
    BY <1>1, <1>2, <1>3 DEF Backed
  <2>2. Backed(r, vetted, incident')
    BY <1>3, <2>1, BackedFree
  <2> QED BY <2>2, VetLanded
<1>4. CASE r = Failed(mem)
  <2>1. r.ctx = mem.ctx /\ r.phase = mem.phase
    BY <1>1, <1>4, RecordMoves
  <2> QED BY <2>1, VetSame
<1> QED BY <1>1, <1>3, <1>4, ReroutedRecord

LEMMA AdmitVet ==
  ASSUME TypeInv, VetInv, Admit
  PROVE  VetInv'
<1>1. file \in Record /\ mem \in Record
  BY DEF TypeInv, TypeOK
<1>2. ASSUME UNCHANGED <<file, mem, vetted, incident>>, pc' # "consumed"
      PROVE  VetInv'
  BY <1>2 DEF VetInv
<1>3. CASE AdmitClear
  BY <1>2, <1>3 DEF AdmitClear, Goto
<1>4. CASE AdmitUncertain
  <2>1. Attributed \in 0 .. Slots /\ "process_interruption" \in Classes
    BY <1>4, NamedPending, BoundsAssumption DEF AdmitUncertain, Pending, PendingIn, Classes
  <2>2. pc \in InStage /\ via = "stage"
    BY <1>4 DEF AdmitUncertain, InStage, TypeInv, Control
  <2>3. Landed(Rerouted(mem, "process_interruption", Current, Attributed))
    BY <1>4, Landings DEF AdmitUncertain
  <2>4. vetted' = vetted /\ (incident' = incident \/ incident' = "recovering")
    BY <1>4 DEF AdmitUncertain, Begun
  <2> QED BY <2>1, <2>2, <2>3, <2>4, ReroutedVet
<1>5. ASSUME NEW k \in 1 .. Slots, AdmitRecovered(k)
      PROVE  VetInv'
  <2> DEFINE r == Recovered(mem, Swept[k], Current)
  <2>1. r = mem \/ r.phase \in {"review", "done"}
    BY <1>1, RecoveredRecord
  <2>2. mem' = r /\ UNCHANGED <<file, vetted, incident>> /\ pc' = "loop"
    BY <1>5 DEF AdmitRecovered, ToLoop
  <2> HIDE DEF r
  <2>3. Backed(r, vetted, incident)
    BY <2>1, BackedFree DEF VetInv
  <2> QED BY <2>2, <2>3 DEF VetInv
<1>6. ASSUME NEW k \in 1 .. Slots, AdmitReplay(k)
      PROVE  VetInv'
  BY <1>2, <1>6 DEF AdmitReplay, Goto
<1>7. ASSUME NEW k \in 1 .. Slots, AdmitMismatch(k)
      PROVE  VetInv'
  <2>1. Landed(Failed(mem)) /\ Failed(mem).ctx = mem.ctx /\ Failed(mem).phase = mem.phase
    BY <1>1, <1>7, Landings, RecordMoves DEF AdmitMismatch
  <2> QED BY <1>7, <2>1, VetSame DEF AdmitMismatch
<1> QED BY <1>3, <1>4, <1>5, <1>6, <1>7 DEF Admit

(* The same as Escalated, with the phase.                                   *)
LEMMA EscalatedVet ==
  ASSUME TypeInv, VetInv, Escalate(mem) \/ Leave(Status(mem, "pending")) \/ Leave(Failed(mem)),
         vetted' = vetted, incident' = incident \/ incident' = "escalated"
  PROVE  VetInv'
<1>1. mem \in Record
  BY DEF TypeInv, TypeOK
<1>2. /\ Failed(mem).ctx = mem.ctx /\ Failed(mem).phase = mem.phase
      /\ Status(mem, "pending").ctx = mem.ctx /\ Status(mem, "pending").phase = mem.phase
  BY <1>1, RecordMoves DEF Statuses
<1>3. Landed(Failed(mem)) \/ Landed(file) \/ Landed(Status(mem, "pending"))
  BY Landings
<1> QED BY <1>2, <1>3, VetSame

LEMMA BoundaryVet ==
  ASSUME TypeInv, VetInv, Boundary
  PROVE  VetInv'
<1>1. CASE GateRefuses \/ ReserveRefused \/ NotSpawned
  <2>1. /\ Escalate(mem) \/ Leave(Status(mem, "pending")) \/ Leave(Failed(mem))
        /\ vetted' = vetted /\ (incident' = incident \/ incident' = "escalated")
    BY <1>1 DEF GateRefuses, ReserveRefused, NotSpawned, Escalate
  <2> QED BY <2>1, EscalatedVet
<1>2. CASE BeginAction \/ Reserve \/ DispatchAction \/ Bind
  BY <1>2 DEF BeginAction, Reserve, DispatchAction, Bind, StepAction, Goto, VetInv
<1>3. CASE Spawn
  <2>1. /\ pc = "recorded" /\ pc' = "spawned" /\ UNCHANGED <<file, mem, incident>>
        /\ vetted' = Unvetted(Current)
    BY <1>3 DEF Spawn, StepAction, AtAction, Goto
  <2>2. file = mem
    BY <2>1 DEF TypeInv, Control
  <2>3. Backed(mem, vetted, incident)
    BY DEF VetInv
  <2>4. Backed(mem, Unvetted(Current), incident)
    <3>1. CASE via = "stage"
      BY <2>3, <3>1 DEF Backed, Good, Unvetted, Current
    <3>2. CASE via = "retry"
      BY <2>3, <3>2 DEF Backed, Good, Unvetted, Current, TypeInv, Control
    <3>3. CASE via \in {"fix", "verify"}
      <4>1. /\ mem.phase = "recovery" /\ incident # "resolved"
            /\ mem.ctx.class \in {"invalid_result", "recurring_findings"}
        BY <3>3 DEF TypeInv, Control
      <4> QED BY <2>3, <3>3, <4>1 DEF Backed, Good, Unvetted, Current
    <3> QED BY <3>1, <3>2, <3>3 DEF TypeInv, TypeOK
  <2> QED BY <2>1, <2>2, <2>4 DEF VetInv
<1> QED BY <1>1, <1>2, <1>3 DEF Boundary

(* An outcome sends to archive what was accepted just now, or stood already. *)
LEMMA OutcomeVet ==
  ASSUME TypeOK, Current \in Stages, NEW r \in Record, NEW o \in OutcomesOf(r, Current), NEW i,
         r.phase = "archive" => Good(vetted), r.phase = "recovery" => r.ctx.origin # "archive"
  PROVE  /\ Backed(o.rec, Vetted(o), i)
         /\ o.needs # "none" => Backed(Rerouted(o.rec, o.needs, Current, 0), Vetted(o), i)
<1>1. /\ OutcomeOf(r, o)
      /\ o.rec.phase = "archive" => r.phase = "archive" \/ (Current = "acceptance" /\ tree.fresh)
  BY Outcomes
<1>2. Backed(o.rec, Vetted(o), i)
  BY <1>1 DEF OutcomeOf, Backed, Vetted, Good
<1>3. ASSUME o.needs # "none"
      PROVE  Backed(Rerouted(o.rec, o.needs, Current, 0), Vetted(o), i)
  <2> DEFINE q == Rerouted(o.rec, o.needs, Current, 0)
  <2>1. /\ o.rec \in Record /\ o.needs \in Classes /\ 0 \in 0 .. Slots
        /\ o.needs \in {"recurring_findings", "partial_archive"}
    BY <1>1, <1>3, BoundsAssumption DEF OutcomeOf, Classes
  <2>2. \/ q.phase = "recovery" /\ q.ctx = [class |-> o.needs, origin |-> Current, action |-> 0]
        \/ q = Failed(o.rec)
    BY <2>1, ReroutedRecord
  <2> HIDE DEF q
  <2>3. q.phase = "recovery" /\ q.ctx = [class |-> o.needs, origin |-> Current, action |-> 0] =>
          Backed(q, Vetted(o), i)
    BY <2>1, BackedFree
  <2>4. q = Failed(o.rec) => Backed(q, Vetted(o), i)
    BY <1>2, <2>1, RecordMoves, BackedFacts
  <2>5. Backed(q, Vetted(o), i)
    BY <2>2, <2>3, <2>4
  <2> QED BY <2>5 DEF q
<1> QED BY <1>2, <1>3

LEMMA StageVet ==
  ASSUME TypeInv, VetInv, StageOutcome
  PROVE  VetInv'
<1>1. mem \in Record /\ TypeOK
  BY DEF TypeInv, TypeOK
<1>2. ASSUME UNCHANGED <<file, mem, vetted>>, incident' = incident \/ incident' = "recovering",
             pc' # "consumed"
      PROVE  VetInv'
  BY <1>2, BackedFacts DEF VetInv
<1>3. CASE ApplyResult
  <2>1. pc = "wait" /\ via = "stage" /\ pc' = "close"
    BY <1>3 DEF ApplyResult, Exited
  <2>2. Current \in Stages /\ mem.phase \in Stages
    BY <2>1, CurrentStage DEF InStage, TypeInv, Control
  <2>3. PICK o \in OutcomesOf(mem, Current) :
          /\ vetted' = Vetted(o)
          /\ \/ mem' = o.rec
             \/ o.needs # "none" /\ mem' = Rerouted(o.rec, o.needs, Current, 0)
          /\ file' = mem'
    BY <1>3 DEF ApplyResult, Save
  <2>4. mem.phase = "archive" => Good(vetted)
    BY DEF VetInv, Backed
  <2>5. Backed(mem', vetted', incident')
    BY <1>1, <2>2, <2>3, <2>4, OutcomeVet DEF Stages
  <2> QED BY <2>1, <2>3, <2>5 DEF VetInv
<1>4. CASE RecordEvidence \/ InvalidOutput \/ WorkerTimeout
  BY <1>2, <1>4 DEF RecordEvidence, InvalidOutput, WorkerTimeout, Goto
<1>5. CASE CloseAction
  <2>1. Landed(mem) /\ vetted' = vetted /\ incident' = incident
    BY <1>5, Landings DEF CloseAction, ToLoop, Landed, TypeInv, Control
  <2> QED BY <2>1, VetSame
<1>6. CASE JudgeFailed
  <2>1. pc \in InStage /\ via = "stage" /\ "invalid_result" \in Classes /\ 0 \in 0 .. Slots
    BY <1>6, BoundsAssumption DEF JudgeFailed, InStage, TypeInv, Control, Classes
  <2>2. vetted' = vetted /\ (incident' = incident \/ incident' = "recovering")
    BY <1>6 DEF JudgeFailed, Begun
  <2>3. CASE tries < InvalidRetries
    BY <1>2, <1>6, <2>2, <2>3 DEF JudgeFailed
  <2>4. CASE ~(tries < InvalidRetries)
    <3>1. Landed(Rerouted(mem, "invalid_result", Current, 0))
      BY <1>6, <2>4, Landings DEF JudgeFailed
    <3> QED BY <2>1, <2>2, <3>1, ReroutedVet
  <2> QED BY <2>3, <2>4
<1>7. CASE RerouteTimeout
  <2>1. pc \in InStage /\ via = "stage" /\ "transient_provider" \in Classes /\ 0 \in 0 .. Slots
    BY <1>7, BoundsAssumption DEF RerouteTimeout, InStage, TypeInv, Control, Classes
  <2>2. vetted' = vetted /\ (incident' = incident \/ incident' = "recovering")
    BY <1>7 DEF RerouteTimeout, Begun
  <2>3. Landed(Rerouted(mem, "transient_provider", Current, 0))
    BY <1>7, Landings DEF RerouteTimeout
  <2> QED BY <2>1, <2>2, <2>3, ReroutedVet
<1> QED BY <1>3, <1>4, <1>5, <1>6, <1>7 DEF StageOutcome

(* A resolved recovery whose new record is backed, and whose old one does    *)
(* not count on a repair under way.                                         *)
LEMMA ResolvedVet ==
  ASSUME TypeInv, VetInv, pc # "loop" \/ mem.phase = "recovery", NEW r, Resolve(r), vetted' = vetted,
         Backed(r, vetted, "resolved"), vetted # "repairing" \/ mem.ctx.class # "invalid_result"
  PROVE  VetInv'
<1>1. incident' = "resolved" /\ (Landed(r) \/ Landed(file))
  BY Landings
<1>2. file = mem
  BY DEF TypeInv, Control
<1>3. Backed(file, vetted, "resolved")
  BY <1>2 DEF VetInv, Backed
<1> QED BY <1>1, <1>3, VetLanded

LEMMA DriveVet ==
  ASSUME TypeInv, VetInv, Drive
  PROVE  VetInv'
<1>1. /\ TypeOK /\ mem \in Record /\ Cleared(mem) \in Record /\ Cleared(mem).ctx = NoContext
      /\ Cleared(mem).phase = mem.phase /\ Cleared(mem).round = mem.round
      /\ Backed(mem, vetted, incident) /\ mem.ctx.origin \in Stages
  <2>1. mem \in Record
    BY DEF TypeInv, TypeOK
  <2>2. mem.ctx.origin \in Stages
    BY <2>1 DEF Record, Contexts
  <2> QED BY <2>1, <2>2, RecordMoves DEF TypeInv, VetInv
<1>2. Route(mem.ctx) \in Phases
  BY <1>1 DEF Route, Phases, Stages
<1>3. CASE DriveSettled
  <2>1. mem.phase = "recovery" /\ vetted' = vetted /\ incident' = incident
    BY <1>3 DEF DriveSettled, AtLoop, ledger
  <2>2. \/ Landed([mem EXCEPT !.phase = "implement"])
        \/ Landed(Failed(mem))
        \/ /\ mem.ctx.class # "none" /\ incident = "resolved"
           /\ Landed([Cleared(mem) EXCEPT !.phase = Route(mem.ctx)])
    BY <1>3, Landings DEF DriveSettled
  <2>3. CASE Landed([mem EXCEPT !.phase = "implement"])
    <3>1. "implement" \in Phases
      BY DEF Phases, Stages
    <3>2. [mem EXCEPT !.phase = "implement"].phase = "implement"
      BY <1>1, <3>1, RecordMoves
    <3> QED BY <2>1, <2>3, <3>2, VetSame
  <2>4. CASE Landed(Failed(mem))
    <3>1. Failed(mem).phase = mem.phase /\ Failed(mem).ctx = mem.ctx
      BY <1>1, RecordMoves
    <3> QED BY <2>1, <2>4, <3>1, VetSame
  <2>5. CASE /\ mem.ctx.class # "none" /\ incident = "resolved"
             /\ Landed([Cleared(mem) EXCEPT !.phase = Route(mem.ctx)])
    <3> DEFINE r == [Cleared(mem) EXCEPT !.phase = Route(mem.ctx)]
    <3>1. r.phase = Route(mem.ctx)
      BY <1>1, <1>2, RecordMoves
    <3> HIDE DEF r
    <3>2. Route(mem.ctx) = "archive" => Good(vetted)
      BY <1>1, <2>1, <2>5 DEF Route, Backed, Record, Contexts, Classes
    <3>3. Route(mem.ctx) # "recovery"
      BY <1>1 DEF Route, Stages
    <3>4. Backed(r, vetted', incident')
      BY <2>1, <3>1, <3>2, <3>3, BackedFree
    <3> QED BY <2>5, <3>4, VetLanded DEF r
  <2> QED BY <2>2, <2>3, <2>4, <2>5
<1>4. CASE DriveRetry \/ DriveRepair
  BY <1>4 DEF DriveRetry, DriveRepair, Redispatch, ledger, VetInv
<1>5. CASE DriveReconciled
  <2> DEFINE r == Recovered(Cleared(mem), Interrupted, mem.ctx.origin)
  <2> DEFINE q == IF r.phase = "recovery" THEN [r EXCEPT !.phase = mem.ctx.origin] ELSE r
  <2> DEFINE z == Status(q, "pending")
  <2>1. mem.phase = "recovery" /\ mem.ctx.class = "process_interruption" /\ vetted' = vetted
    BY <1>5 DEF DriveReconciled, Driving, AtLoop
  <2>2. r \in Record /\ r.phase \in {"recovery", "review", "done"}
    BY <1>1, <2>1, RecoveredRecord
  <2> HIDE DEF r
  <2>3. q \in Record /\ q.phase \in {mem.ctx.origin, "review", "done"}
    BY <1>1, <2>2, RecordMoves DEF Phases
  <2> HIDE DEF q
  <2>4. z.phase \in {mem.ctx.origin, "review", "done"}
    BY <2>3, RecordMoves DEF Statuses
  <2>5. Resolve(z)
    BY <1>5 DEF DriveReconciled, r, q
  <2> HIDE DEF z
  <2>6. mem.ctx.origin = "archive" => Good(vetted)
    BY <1>1, <2>1 DEF Backed
  <2>7. z.phase # "recovery" /\ (z.phase = "archive" => Good(vetted))
    BY <1>1, <2>4, <2>6 DEF Stages
  <2>8. Backed(z, vetted, "resolved")
    BY <2>7 DEF Backed
  <2> QED BY <2>1, <2>5, <2>8, ResolvedVet
<1>6. CASE DriveUnreconciled \/ DriveNoReview
  <2>1. Escalate(mem) /\ vetted' = vetted /\ incident' = "escalated"
    BY <1>6 DEF DriveUnreconciled, DriveNoReview, Escalate
  <2> QED BY <2>1, EscalatedVet
<1>7. CASE DriveFreshReview
  <2> DEFINE r == NextRound(Cleared(mem), "implement")
  <2>1. /\ mem.phase = "recovery" /\ mem.ctx.class = "partial_archive" /\ vetted' = vetted
        /\ mem.round < MaxRounds /\ Resolve(r)
    BY <1>7 DEF DriveFreshReview, Driving, AtLoop
  <2>2. "implement" \in Phases
    BY DEF Phases, Stages
  <2>3. r.phase = "implement"
    BY <1>1, <2>1, <2>2, RoundMoves
  <2> HIDE DEF r
  <2>4. Backed(r, vetted, "resolved")
    BY <2>3, BackedFree
  <2> QED BY <2>1, <2>4, ResolvedVet
<1> QED BY <1>3, <1>4, <1>5, <1>6, <1>7 DEF Drive

LEMMA RecoveryVet ==
  ASSUME TypeInv, VetInv, RecoveryOutcome
  PROVE  VetInv'
<1>1. /\ TypeOK /\ mem \in Record /\ Cleared(mem) \in Record /\ Cleared(mem).ctx = NoContext
      /\ Cleared(mem).phase = mem.phase
      /\ Backed(mem, vetted, incident) /\ mem.ctx.origin \in Stages
  <2>1. mem \in Record
    BY DEF TypeInv, TypeOK
  <2>2. mem.ctx.origin \in Stages
    BY <2>1 DEF Record, Contexts
  <2> QED BY <2>1, <2>2, RecordMoves DEF TypeInv, VetInv
<1>2. CASE RecoveryExited \/ RecoveryClosed
  BY <1>2 DEF RecoveryExited, RecoveryClosed, Goto, VetInv
<1>3. CASE RecoveryTimeout
  <2>1. CASE via = "retry" /\ tries + 1 < BackoffMax
    BY <1>3, <2>1 DEF RecoveryTimeout, VetInv
  <2>2. CASE ~(via = "retry" /\ tries + 1 < BackoffMax)
    <3>1. Escalate(mem) /\ vetted' = vetted /\ incident' = "escalated"
      BY <1>3, <2>2 DEF RecoveryTimeout, Escalate
    <3> QED BY <3>1, EscalatedVet
  <2> QED BY <2>1, <2>2
<1>4. CASE RecoveryInvalid \/ RepairRefused
  <2>1. Escalate(mem) /\ vetted' = vetted /\ incident' = "escalated"
    BY <1>4 DEF RecoveryInvalid, RepairRefused, Escalate
  <2> QED BY <2>1, EscalatedVet
<1>5. CASE RetryCleared
  <2>1. /\ UNCHANGED <<file, mem, vetted>> /\ pc' = "resolved" /\ pc = "answered"
        /\ via = "retry"
    BY <1>5 DEF RetryCleared, Goto
  <2>2. file = mem /\ mem.ctx.class = "transient_provider" /\ mem.phase = "recovery"
    BY <2>1 DEF TypeInv, Control
  <2>3. Backed(mem, vetted, incident')
    BY <1>1, <2>2 DEF Backed
  <2> QED BY <2>1, <2>2, <2>3 DEF VetInv
<1>6. CASE FixAnswered
  BY <1>6 DEF FixAnswered, Redispatch, ledger, VetInv
<1>7. CASE RepairConsumed
  <2>1. /\ UNCHANGED <<file, mem, incident>>
        /\ vetted' = IF vetted = "repairing" THEN "verified" ELSE vetted
    BY <1>7 DEF RepairConsumed
  <2>2. Good("verified") /\ vetted' # "repairing"
    BY <2>1 DEF Good
  <2>3. Backed(file, vetted', incident) /\ Backed(mem, vetted', incident)
    BY <2>1, <2>2, BackedFacts DEF VetInv
  <2> QED BY <2>1, <2>2, <2>3 DEF VetInv
<1>8. CASE RetryApplies
  <2> DEFINE r == Status(Cleared(mem), "pending")
  <2>1. r \in Record /\ r.ctx = NoContext /\ r.phase = "recovery" /\ Current \in Stages
    BY <1>1, <1>8, RecordMoves, CurrentStage DEF RetryApplies, Statuses, TypeInv, Control
  <2> HIDE DEF r
  <2>2. PICK o \in OutcomesOf(r, Current) :
          /\ vetted' = Vetted(o)
          /\ \/ Landed(o.rec)
             \/ o.needs # "none" /\ Landed(Rerouted(o.rec, o.needs, Current, 0))
    BY <1>8, Landings DEF RetryApplies, r
  <2>3. NoContext.origin # "archive"
    BY DEF NoContext
  <2>4. /\ Backed(o.rec, Vetted(o), incident')
        /\ o.needs # "none" => Backed(Rerouted(o.rec, o.needs, Current, 0), Vetted(o), incident')
    BY <1>1, <2>1, <2>3, OutcomeVet
  <2> QED BY <2>2, <2>4, VetLanded
<1>9. CASE RepairResolved
  <2> DEFINE r == To(Cleared(mem), Route(mem.ctx))
  <2>1. pc = "consumed" /\ Resolve(r) /\ vetted' = vetted
    BY <1>9 DEF RepairResolved
  <2>2. /\ vetted # "repairing" /\ mem.phase = "recovery"
        /\ mem.ctx.class \in {"invalid_result", "recurring_findings"}
    BY <2>1 DEF VetInv, TypeInv, Control
  <2>3. Route(mem.ctx) \in Stages /\ (Route(mem.ctx) = "archive" => Good(vetted))
    BY <1>1, <2>2 DEF Route, Backed, Stages
  <2>4. r.phase = Route(mem.ctx)
    BY <1>1, <2>3, RecordMoves DEF Phases
  <2> HIDE DEF r
  <2>5. Backed(r, vetted, "resolved")
    BY <2>3, <2>4 DEF Backed, Stages
  <2> QED BY <2>1, <2>2, <2>5, ResolvedVet
<1> QED BY <1>2, <1>3, <1>4, <1>5, <1>6, <1>7, <1>8, <1>9 DEF RecoveryOutcome

LEMMA EnvironmentVet ==
  ASSUME TypeInv, VetInv, Environment
  PROVE  VetInv'
<1>1. file \in Record
  BY DEF TypeInv, TypeOK
<1>2. CASE Kill \/ Interrupt \/ \E k \in 1 .. Slots : KilledInReplay(k)
  <2>1. Landed(file) /\ vetted' = vetted /\ incident' = incident
    BY <1>2, Landings DEF Kill, Interrupt, KilledInReplay, ledger
  <2> QED BY <2>1, VetSame
<1>3. CASE \/ EditArtifacts
           \/ \E k \in 1 .. Slots : WorkerEnds(k) \/ WorkerWrites(k) \/ WorkerReports(k)
  BY <1>3 DEF EditArtifacts, WorkerEnds, WorkerWrites, WorkerReports, ledger, proc, VetInv
<1>4. CASE Reset
  BY <1>4 DEF Reset, Save, NewRecord, proc, VetInv, Backed
<1>5. CASE ResolveEscalation
  <2> DEFINE q == [file EXCEPT !.escalated = FALSE]
  <2> DEFINE r == To(q, "acceptance")
  <2>1. q \in Record /\ "acceptance" \in Phases
    BY <1>1, MoreMoves DEF Phases, Stages
  <2> HIDE DEF q
  <2>2. r.phase = "acceptance"
    BY <2>1, RecordMoves
  <2>3. file' = r /\ mem' = r /\ pc' = "idle"
    BY <1>5 DEF ResolveEscalation, Save, proc, q
  <2> QED BY <2>2, <2>3 DEF VetInv, Backed
<1> QED BY <1>2, <1>3, <1>4, <1>5 DEF Environment

LEMMA VetStep ==
  ASSUME TypeInv, VetInv, [Next]_vars
  PROVE  VetInv'
<1>1. CASE UNCHANGED vars
  BY <1>1 DEF VetInv, vars, ledger, proc
<1>2. CASE StartRun
  BY <1>2, LoopVet
<1>3. CASE Engine
  BY <1>3, LoopVet, AdmitVet, BoundaryVet, StageVet, DriveVet, RecoveryVet DEF Engine
<1>4. CASE Environment
  BY <1>4, EnvironmentVet
<1> QED BY <1>1, <1>2, <1>3, <1>4 DEF Next

LEMMA Vetting == Spec => []VetInv
<1>1. Init => VetInv
  BY DEF Init, VetInv, Backed, NewRecord
<1>2. TypeInv /\ VetInv /\ [Next]_vars => VetInv'
  BY VetStep
<1> QED BY <1>1, <1>2, Types, PTL DEF Spec

(* An archive worker runs only over content that was accepted, or repaired   *)
(* and verified after it was: whichever recovery led there, and however      *)
(* often the engine was killed on the way.                                  *)
THEOREM ArchivesAreVetted == Spec => []ArchiveVetted
<1>1. TypeInv /\ JournalInv /\ VetInv => ArchiveVetted
  <2>1. SUFFICES ASSUME TypeInv, JournalInv, VetInv, journal[act].stage = "archive",
                        pc \in {"spawned", "wait"}
                 PROVE  Good(vetted)
    BY DEF ArchiveVetted, Good
  <2>2. Current = "archive"
    BY <2>1 DEF JournalInv, AtHand, Mine
  <2>3. Backed(mem, vetted, incident)
    BY <2>1 DEF VetInv
  <2>4. CASE via = "stage"
    BY <2>2, <2>3, <2>4 DEF Current, Backed
  <2>5. CASE via = "retry"
    BY <2>1, <2>2, <2>3, <2>5 DEF Current, Backed, TypeInv, Control
  <2>6. CASE via \in {"fix", "verify"}
    BY <2>2, <2>6 DEF Current
  <2> QED BY <2>1, <2>4, <2>5, <2>6 DEF TypeInv, TypeOK
<1> QED BY <1>1, Types, Journal, Vetting, PTL
=============================================================================
