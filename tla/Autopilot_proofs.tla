--------------------------- MODULE Autopilot_proofs ---------------------------
(***************************************************************************)
(* Proofs about Autopilot for any plan, any signatures of failures and any  *)
(* number of kills: the pull request, the veto and the resets.              *)
(***************************************************************************)
EXTENDS AutopilotProperties, TLAPS

-----------------------------------------------------------------------------
(* The pull request.                                                        *)

(* While an engine works, the delivery branch it remembers is checked out;  *)
(* so the archive commit of every finished change is on it.                 *)
DeliveryInv ==
  /\ rec \in [Changes -> Status] /\ landed \in [Changes -> {"none", "main", Plan}]
  /\ head \in {"main", Plan}
  /\ delivery \in [base : {"none", "main", Plan}, name : {"none", Plan}, url : BOOLEAN]
  /\ mem \in [base : {"none", "main", Plan}, name : {"none", Plan}, url : BOOLEAN]
  /\ \A c \in Changes : rec[c] = "done" => landed[c] = Plan
  /\ en \in {"none", "branch", "record", "pick", "stage", "request", "save"}
  /\ en = "branch" => mem = delivery
  /\ en \in {"record", "pick", "stage", "request", "save"} => head = Plan /\ mem.name = Plan
  /\ en = "request" => remote = Changes
  /\ prs # {} => remote = Changes

LEMMA DeliveryInit == Init => DeliveryInv
  BY NamesAssumption DEF Init, DeliveryInv, NoDelivery, Status, Plan

(* A run starts by reading the delivery record; running records go back.    *)
LEMMA DeliveryEngineStart == DeliveryInv /\ EngineStart => DeliveryInv'
<1> SUFFICES ASSUME DeliveryInv, EngineStart PROVE DeliveryInv'
  OBVIOUS
<1>1. UNCHANGED <<landed, head, delivery, remote, prs>>
  BY DEF EngineStart, work
<1>2. rec' \in [Changes -> Status] /\ \A c \in Changes : rec'[c] = "done" => rec[c] = "done"
  BY DEF EngineStart, DeliveryInv, Status
<1>3. mem' \in {mem, delivery} /\ en' \in {"none", "branch"} /\ (en' = "branch" => mem' = delivery)
  BY DEF EngineStart, EngineRefuses
<1> QED BY <1>1, <1>2, <1>3 DEF DeliveryInv

(* The branch is the recorded one, or created or found and checked out.     *)
LEMMA DeliveryEnsureBranch == DeliveryInv /\ EnsureBranch => DeliveryInv'
<1> SUFFICES ASSUME DeliveryInv, EnsureBranch PROVE DeliveryInv'
  OBVIOUS
<1>1. UNCHANGED <<rec, landed, delivery, remote, prs>>
  BY DEF EnsureBranch, disk
<1>2. CASE en' = "none" /\ UNCHANGED <<mem, head>>
  BY <1>1, <1>2 DEF DeliveryInv
<1>3. CASE delivery.name # "none" /\ OnBranch /\ en' = "pick" /\ UNCHANGED <<mem, head>>
  BY <1>1, <1>3 DEF DeliveryInv, OnBranch, EnsureBranch
<1>4. CASE /\ mem' = [mem EXCEPT !.base = ResolvedBase, !.name = Plan]
           /\ head' = Plan /\ en' = "record"
  <2>1. ResolvedBase \in {"none", "main", Plan}
    BY NamesAssumption DEF ResolvedBase, DeliveryInv
  <2> QED BY <1>1, <1>4, <2>1 DEF DeliveryInv
<1> QED BY <1>2, <1>3, <1>4 DEF EnsureBranch, EngineRefuses

(* A change that is driven to its end is archived on the branch.            *)
LEMMA DeliveryDriven ==
  ASSUME NEW c \in Changes, DeliveryInv, Driven(c)
  PROVE  DeliveryInv'
<1>1. UNCHANGED <<delivery, head, remote, prs, mem>> /\ en = "stage" /\ en' = "pick"
  BY DEF Driven
<1>2. head = Plan
  BY <1>1 DEF DeliveryInv
<1>3. CASE rec' = [rec EXCEPT ![c] = "done"] /\ landed' = [landed EXCEPT ![c] = head]
  BY <1>1, <1>2, <1>3 DEF DeliveryInv, Status
<1>4. ASSUME NEW s \in Sigs \cup {"human"}, rec' = [rec EXCEPT ![c] = s], UNCHANGED landed
      PROVE  DeliveryInv'
  <2>1. s # "done" /\ s \in Status
    BY NamesAssumption DEF Status
  <2> QED BY <1>1, <1>4, <2>1 DEF DeliveryInv
<1> QED BY <1>3, <1>4 DEF Driven

(* What is pushed is the archive commits of all changes.                    *)
LEMMA DeliveryNothingReady == DeliveryInv /\ NothingReady => DeliveryInv'
<1> SUFFICES ASSUME DeliveryInv, NothingReady PROVE DeliveryInv'
  OBVIOUS
<1>1. UNCHANGED <<rec, landed, delivery, head, prs, mem>> /\ en = "pick"
  BY DEF NothingReady, disk
<1>2. CASE DoDeliver /\ en' = "request" /\ remote' = {c \in Changes : landed[c] = mem.name}
  <2>1. \A c \in Changes : landed[c] = mem.name
    BY <1>1, <1>2 DEF DoDeliver, AllDone, DeliveryInv
  <2> QED BY <1>1, <1>2, <2>1 DEF DeliveryInv
<1>3. CASE EngineDone /\ UNCHANGED remote
  BY <1>1, <1>3 DEF EngineDone, DeliveryInv
<1> QED BY <1>2, <1>3 DEF NothingReady

LEMMA DeliveryRequestPull == DeliveryInv /\ RequestPull => DeliveryInv'
<1> SUFFICES ASSUME DeliveryInv, RequestPull PROVE DeliveryInv'
  OBVIOUS
<1>1. UNCHANGED <<rec, landed, delivery, head, remote>> /\ en = "request" /\ en' = "save"
  BY DEF RequestPull, disk
<1>2. mem' \in [base : {"none", "main", Plan}, name : {"none", Plan}, url : BOOLEAN]
      /\ mem'.name = mem.name
  BY DEF RequestPull, DeliveryInv
<1> QED BY <1>1, <1>2 DEF DeliveryInv

(* Records that change outside of a run are not made done.                  *)
LEMMA DeliveryRecords ==
  ASSUME DeliveryInv, NEW c \in Changes, NEW s \in Status \ {"done"},
         rec' = [rec EXCEPT ![c] = s] \/ UNCHANGED rec,
         UNCHANGED <<landed, head, delivery, mem, remote, prs>>, en' \in {en, "none"}
  PROVE  DeliveryInv'
<1>1. rec' \in [Changes -> Status] /\ \A d \in Changes : rec'[d] = "done" => rec[d] = "done"
  BY DEF DeliveryInv
<1> QED BY <1>1 DEF DeliveryInv

LEMMA DeliveryStep == DeliveryInv /\ [Next]_vars => DeliveryInv'
<1> SUFFICES ASSUME DeliveryInv, [Next]_vars PROVE DeliveryInv'
  OBVIOUS
<1>1. CASE UNCHANGED <<rec, landed, head, delivery, mem, en, remote, prs>>
  BY <1>1 DEF DeliveryInv
<1>2. CASE en' = "none" /\ UNCHANGED <<rec, landed, head, delivery, mem, remote, prs>>
  BY <1>2 DEF DeliveryInv
<1>3. CASE EngineStep
  <2>1. CASE RecordBranch
    BY <2>1 DEF RecordBranch, EngineRefuses, DeliveryInv, work
  <2>2. CASE DirtyRefused
    BY <1>2, <2>2 DEF DirtyRefused, EngineRefuses, disk, work
  <2>3. ASSUME NEW c \in Changes, CreateChange(c)
        PROVE  DeliveryInv'
    <3>1. CASE UNCHANGED rec
      BY <1>1, <2>3, <3>1 DEF CreateChange, engine
    <3>2. ASSUME NEW s \in Sigs \cup {"human"}, rec' = [rec EXCEPT ![c] = s]
          PROVE  DeliveryInv'
      <4>1. s \in Status \ {"done"}
        BY NamesAssumption DEF Status
      <4> QED BY <2>3, <3>2, <4>1, DeliveryRecords DEF CreateChange, engine
    <3> QED BY <2>3, <3>1, <3>2 DEF CreateChange
  <2>4. ASSUME NEW c \in Changes, Drive(c)
        PROVE  DeliveryInv'
    <3>1. UNCHANGED <<landed, head, delivery, mem, remote, prs>> /\ en = "pick" /\ en' = "stage"
      BY <2>4 DEF Drive, Picked
    <3>2. rec' \in [Changes -> Status] /\ \A d \in Changes : rec'[d] = "done" => rec[d] = "done"
      BY <2>4 DEF Drive, DeliveryInv, Status
    <3> QED BY <3>1, <3>2 DEF DeliveryInv
  <2>5. ASSUME NEW c \in Changes, SpawnFails(c)
        PROVE  DeliveryInv'
    BY <2>5, DeliveryRecords DEF SpawnFails, EngineRefuses, Status
  <2>6. CASE SaveDelivery
    BY <2>6 DEF SaveDelivery, EngineDone, DeliveryInv, work
  <2> QED
    BY <1>3, <2>1, <2>2, <2>3, <2>4, <2>5, <2>6, DeliveryEngineStart, DeliveryEnsureBranch,
       DeliveryDriven, DeliveryNothingReady, DeliveryRequestPull DEF EngineStep
<1>4. CASE WrapperStep
  <2>1. CASE HandleFailure
    <3>1. UNCHANGED <<landed, head, delivery, mem, en, remote, prs>>
      BY <2>1 DEF HandleFailure, work, engine
    <3>2. rec' \in [Changes -> Status] /\ \A d \in Changes : rec'[d] = "done" => rec[d] = "done"
      BY <2>1 DEF HandleFailure, DeliveryInv, Status
    <3> QED BY <3>1, <3>2 DEF DeliveryInv
  <2>2. CASE Classify \/ AwaitVeto \/ Approve \/ AwaitAcceptance \/ SaveCount
    BY <1>1, <2>2 DEF Classify, AwaitVeto, Approve, AwaitAcceptance, SaveCount, disk, work, engine
  <2> QED BY <1>4, <2>1, <2>2 DEF WrapperStep
<1>5. CASE WindowPasses
  BY <1>1, <1>5 DEF WindowPasses, disk, work, engine
<1>6. CASE Operator
  <2>1. CASE Start \/ Resume \/ Tidy
    BY <1>1, <2>1 DEF Start, Resume, Tidy, disk, work, engine
  <2>2. CASE Checkout
    BY <2>2 DEF Checkout, DeliveryInv, disk, engine
  <2>3. ASSUME NEW c \in Changes, Veto(c) \/ OperatorApproves(c) \/ OperatorAccepts(c)
        PROVE  DeliveryInv'
    BY <1>1, <2>3 DEF Veto, OperatorApproves, OperatorAccepts, disk, work, engine
  <2>4. ASSUME NEW c \in Changes, OperatorResets(c)
        PROVE  DeliveryInv'
    <3>1. "pending" \in Status \ {"done"}
      BY DEF Status
    <3> QED BY <2>4, <3>1, DeliveryRecords DEF OperatorResets, work, engine
  <2> QED BY <1>6, <2>1, <2>2, <2>3, <2>4 DEF Operator
<1>7. CASE Kill \/ EngineKilled
  BY <1>2, <1>7 DEF Kill, EngineKilled, EngineDone, disk, work
<1>8. CASE UNCHANGED vars
  BY <1>1, <1>8 DEF vars, disk, work, engine
<1> QED BY <1>3, <1>4, <1>5, <1>6, <1>7, <1>8 DEF Next

(* A pull request is only opened from a branch with the archive commits of  *)
(* all changes, for every plan, base, number of kills and of checkouts.     *)
THEOREM PullIsWhole == Spec => []DeliveredWhole
<1>1. DeliveryInv => DeliveredWhole
  BY DEF DeliveryInv, DeliveredWhole
<1> QED BY <1>1, DeliveryInit, DeliveryStep, PTL DEF Spec
-----------------------------------------------------------------------------
(* The resets.                                                              *)

Keys == Changes \X Sigs

(* The file holds the count of every reset, but for the one being saved and *)
(* those lost with a kill; the wrapper in memory counts from the file.      *)
CountInv ==
  /\ counts \in [Keys -> 0 .. MaxResets] /\ known \in [Keys -> 0 .. MaxResets]
  /\ resets \in [Keys -> Nat] /\ kills \in Nat
  /\ en # "none" => ap = "run"
  /\ ap \notin {"down", "count"} => known = counts
  /\ ap = "count" => \A x \in Keys : known[x] <= counts[x] + 1 /\ resets[x] <= known[x] + kills
  /\ ap # "count" => \A x \in Keys : resets[x] <= counts[x] + kills

LEMMA CountInit == Init => CountInv
  BY BoundsAssumption DEF Init, CountInv, Keys

(* A step that makes and forgets no reset.                                  *)
LEMMA CountSame ==
  ASSUME CountInv, UNCHANGED <<counts, known, resets>>, kills' \in {kills, kills + 1},
         en' # "none" => ap' = "run",
         \/ ap' = ap
         \/ ap # "count" /\ ap' # "count" /\ (ap = "down" => ap' = "down")
         \/ ap' = "down" /\ kills' = kills + 1
  PROVE  CountInv'
<1>1. \A x \in Keys : counts[x] \in Nat /\ known[x] \in Nat /\ resets[x] \in Nat
  BY BoundsAssumption DEF CountInv
<1> QED BY <1>1 DEF CountInv

LEMMA CountEngine == CountInv /\ (EngineStep \/ EngineKilled \/ Kill) => CountInv'
<1> SUFFICES ASSUME CountInv, EngineStep \/ EngineKilled \/ Kill PROVE CountInv'
  OBVIOUS
<1> USE DEF engine, wrap, env
<1>1. UNCHANGED <<counts, known, resets>> /\ kills' \in {kills, kills + 1}
  BY DEF EngineStep, EngineKilled, Kill, EngineStart, EnsureBranch, RecordBranch, DirtyRefused,
         CreateChange, Drive, Driven, SpawnFails, NothingReady, RequestPull, SaveDelivery,
         EngineDone, EngineRefuses, Pause, Escalate, Exit
<1>2. CASE EngineStep \/ EngineKilled
  <2>1. ap = "run"
    BY <1>2 DEF EngineStep, EngineKilled, EngineStart, EnsureBranch, RecordBranch, DirtyRefused,
                PickedDirty, CreateChange, Drive, Picked, Driven, SpawnFails, NothingReady,
                RequestPull, SaveDelivery, CountInv
  <2>2. (ap' = "run" \/ en' = "none") /\ ap' \in {"run", "classify", "down"}
    BY <1>2, <2>1
    DEF EngineStep, EngineKilled, EngineStart, EnsureBranch, RecordBranch, DirtyRefused,
        CreateChange, Drive, Driven, SpawnFails, NothingReady, RequestPull, SaveDelivery,
        EngineDone, EngineRefuses, Pause, Escalate, Exit
  <2> QED BY <1>1, <2>1, <2>2, CountSame
<1>3. CASE Kill
  BY <1>1, <1>3, CountSame DEF Kill, Escalate, Exit
<1> QED BY <1>2, <1>3

LEMMA CountWrapper == CountInv /\ WrapperStep => CountInv'
<1> SUFFICES ASSUME CountInv, WrapperStep PROVE CountInv'
  OBVIOUS
<1> USE DEF engine, env
<1>1. CASE Classify
  BY <1>1, CountSame DEF Classify, Escalate, Exit, Go, Idled, CountInv
<1>2. CASE AwaitVeto \/ Approve \/ AwaitAcceptance
  <2>1. UNCHANGED <<counts, known, resets, kills, en>> /\ ap \in {"approval", "approve", "acceptance"}
        /\ ap' \in {"approval", "approve", "acceptance", "run", "down"}
    BY <1>2 DEF AwaitVeto, Look, ToApprove, Approve, AwaitAcceptance, Next1, Go, Escalate, Exit
  <2> QED BY <2>1, CountSame DEF CountInv
<1>3. CASE HandleFailure
  <2>1. CASE ap' = "down" /\ UNCHANGED <<known, resets>>
    BY <1>3, <2>1, CountSame DEF HandleFailure, CountInv
  <2>2. ASSUME NEW c, c = First(queue), MayReset(c), ap' = "count",
               resets' = [resets EXCEPT ![<<c, rec[c]>>] = @ + 1],
               known' = [known EXCEPT ![<<c, rec[c]>>] = @ + 1]
        PROVE  CountInv'
    <3> DEFINE y == <<c, rec[c]>>
    <3>1. known[y] < MaxResets
      BY <2>2 DEF MayReset
    <3>2. UNCHANGED <<counts, kills, en>> /\ ap = "failure"
      BY <1>3 DEF HandleFailure
    <3>3. ASSUME NEW x \in Keys
          PROVE  /\ known'[x] = IF x = y THEN known[y] + 1 ELSE known[x]
                 /\ resets'[x] = IF x = y THEN resets[y] + 1 ELSE resets[x]
      BY <2>2 DEF CountInv
    <3>4. ASSUME NEW x \in Keys
          PROVE  /\ known'[x] \in 0 .. MaxResets /\ resets'[x] \in Nat
                 /\ known'[x] <= counts[x] + 1 /\ resets'[x] <= known'[x] + kills
      BY <3>1, <3>2, <3>3, BoundsAssumption DEF CountInv
    <3>5. known' \in [Keys -> 0 .. MaxResets] /\ resets' \in [Keys -> Nat]
      BY <2>2, <3>4 DEF CountInv
    <3> QED BY <2>2, <3>2, <3>4, <3>5 DEF CountInv
  <2> QED BY <1>3, <2>1, <2>2 DEF HandleFailure, Escalate, Exit
<1>4. CASE SaveCount
  <2>1. counts' = known /\ UNCHANGED <<known, resets, kills, en>> /\ ap = "count" /\ ap' \in {"run", "failure"}
    BY <1>4 DEF SaveCount, Go
  <2> QED BY <2>1 DEF CountInv
<1> QED BY <1>1, <1>2, <1>3, <1>4 DEF WrapperStep

LEMMA CountStep == CountInv /\ [Next]_vars => CountInv'
<1> SUFFICES ASSUME CountInv, [Next]_vars PROVE CountInv'
  OBVIOUS
<1> USE DEF engine, wrap, env
<1>1. CASE Start
  <2>1. CASE Pause
    BY <1>1, <2>1, CountSame DEF Start, Pause, Exit, CountInv
  <2>2. CASE ap' = "run" /\ known' = Loaded
    BY <1>1, <2>2 DEF Start, Loaded, CountInv
  <2> QED BY <1>1, <2>1, <2>2 DEF Start
<1>2. CASE WindowPasses \/ Resume \/ Tidy \/ Checkout
  BY <1>2, CountSame DEF WindowPasses, Resume, Tidy, Checkout, CountInv
<1>3. ASSUME NEW c \in Changes,
             Veto(c) \/ OperatorApproves(c) \/ OperatorAccepts(c) \/ OperatorResets(c)
      PROVE  CountInv'
  BY <1>3, CountSame DEF Veto, OperatorApproves, OperatorAccepts, OperatorResets, CountInv
<1>4. CASE UNCHANGED vars
  BY <1>4, CountSame DEF vars, CountInv
<1> QED BY <1>1, <1>2, <1>3, <1>4, CountEngine, CountWrapper DEF Next, Operator

(* No change is reset more than max_auto_resets times for one signature,    *)
(* but for one reset with each kill, for any number of starts and kills.    *)
THEOREM ResetsAreBounded == Spec => []ResetsBounded
<1>1. CountInv => ResetsBounded
  <2> SUFFICES ASSUME CountInv, NEW x \in Keys PROVE resets[x] <= MaxResets + kills
    BY DEF ResetsBounded, Keys
  <2> QED BY BoundsAssumption DEF CountInv
<1> QED BY <1>1, CountInit, CountStep, PTL DEF Spec

-----------------------------------------------------------------------------
(* The veto.                                                                *)

(* A gate that is about to be approved was not vetoed within its window.    *)
VetoInv ==
  /\ inTime \subseteq veto
  /\ ap = "approve" => due /\ First(queue) \notin inTime

LEMMA VetoInit == Init => VetoInv
  BY DEF Init, VetoInv

LEMMA VetoStep == VetoInv /\ [Next]_vars => VetoInv'
<1> SUFFICES ASSUME VetoInv, [Next]_vars PROVE VetoInv'
  OBVIOUS
<1> USE DEF engine, wrap, env
<1>1. ASSUME UNCHANGED <<veto, inTime>>, ap' # "approve" \/ UNCHANGED wrap
      PROVE  VetoInv'
  BY <1>1 DEF VetoInv
<1>2. CASE EngineStep \/ EngineKilled \/ Kill
  BY <1>1, <1>2 DEF EngineStep, EngineKilled, Kill, EngineStart, EnsureBranch, RecordBranch,
         DirtyRefused, CreateChange, Drive, Driven, SpawnFails, NothingReady, RequestPull,
         SaveDelivery, EngineDone, EngineRefuses, Pause, Escalate, Exit
<1>3. CASE Classify \/ Approve \/ AwaitAcceptance \/ HandleFailure \/ SaveCount
  BY <1>1, <1>3 DEF Classify, Idled, Approve, AwaitAcceptance, HandleFailure, SaveCount, Next1,
         Go, Escalate, Exit
<1>4. CASE AwaitVeto
  <2>1. CASE ap' # "approve"
    BY <1>1, <1>4, <2>1 DEF AwaitVeto
  <2>2. CASE ap' = "approve"
    <3>1. ~Escalate /\ ~(ap = "approval" /\ Next1)
      BY <2>2 DEF Escalate, Exit, Next1, Go
    <3>2. First(queue) \notin veto /\ due /\ UNCHANGED <<queue, due, veto, inTime>>
      BY <1>4, <3>1 DEF AwaitVeto, Look, ToApprove
    <3> QED BY <3>2 DEF VetoInv
  <2> QED BY <2>1, <2>2
<1>5. ASSUME NEW c \in Changes, Veto(c)
      PROVE  VetoInv'
  BY <1>5 DEF Veto, VetoInv
<1>6. CASE Start
  BY <1>1, <1>6 DEF Start, Pause, Exit
<1>7. CASE WindowPasses \/ Resume \/ Tidy \/ Checkout
  BY <1>1, <1>7 DEF WindowPasses, Resume, Tidy, Checkout
<1>8. ASSUME NEW c \in Changes, OperatorApproves(c) \/ OperatorAccepts(c) \/ OperatorResets(c)
      PROVE  VetoInv'
  BY <1>1, <1>8 DEF OperatorApproves, OperatorAccepts, OperatorResets
<1>9. CASE UNCHANGED vars
  BY <1>1, <1>9 DEF vars
<1> QED BY <1>2, <1>3, <1>4, <1>5, <1>6, <1>7, <1>8, <1>9 DEF Next, WrapperStep, Operator

(* A gate vetoed within its window is not approved by the wrapper, for any  *)
(* number of gates, starts and kills.                                       *)
THEOREM VetoIsKept == Spec => VetoHolds
<1>1. VetoInv /\ [Next]_vars =>
        [ap = "approve" /\ ap' # ap => approvals' \cap inTime \subseteq approvals]_vars
  <2> SUFFICES ASSUME VetoInv, Next, ap = "approve", ap' # ap
               PROVE  approvals' \cap inTime \subseteq approvals
    OBVIOUS
  <2>1. CASE Approve
    BY <2>1 DEF Approve, VetoInv
  <2>2. CASE ~Approve
    <3>1. UNCHANGED approvals
      BY <2>2 DEF Next, EngineStep, WrapperStep, Operator, EngineStart, EnsureBranch, RecordBranch,
         DirtyRefused, CreateChange, Drive, Driven, SpawnFails, NothingReady, RequestPull,
         SaveDelivery, Classify, AwaitVeto, AwaitAcceptance, HandleFailure, SaveCount,
         WindowPasses, Start, Resume, Tidy, Checkout, Veto, OperatorApproves, OperatorAccepts,
         OperatorResets, Kill, EngineKilled, disk, wrap
    <3> QED BY <3>1
  <2> QED BY <2>1, <2>2
<1> QED BY <1>1, VetoInit, VetoStep, PTL DEF Spec, VetoHolds

=============================================================================
