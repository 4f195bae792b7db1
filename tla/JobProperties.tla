---------------------------- MODULE JobProperties ----------------------------
(* What module SupervisedJob is expected to guarantee.                       *)
EXTENDS SupervisedJob

(* Type invariant: an engine is where the flock and the counters say.       *)
TypeOK ==
  /\ job \in JobStates /\ hold \in BOOLEAN
  /\ fence \in Processes \cup {Nobody, Gone}
  /\ record \in Processes \cup {Nobody, Gone} /\ last \in Row
  /\ attempts \in 0 .. MaxAttempts
  /\ flock \in Processes \cup {Nobody}
  /\ action \in [Processes \cup {Gone} -> {"none", "intent", "dispatched", "uncertain",
                                         "undispatched", "completed"}]
  /\ worker \in [Processes -> BOOLEAN]
  /\ pc \in [Processes -> Body \cup {"idle", "unhold", "activate", "fence", "authorize",
             "lock", "unfence", "dead", "quiesced", "probe", "attempt"}]
  /\ mode \in [Processes -> Modes] /\ gated \in [Processes -> BOOLEAN]
  /\ left \in [Processes -> 0 .. Changes]
  /\ op \in {"none", "interrupt", "drain", "look", "pausing", "dispose", "cancelling"}
  /\ todo \subseteq (Processes \cup {Gone}) \X {"intent", "dispatched"}
  /\ kills \in 0 .. MaxKills /\ late \in Nat /\ over \in BOOLEAN

(* Between the moment a pause or drain is recorded and the moment it is      *)
(* lifted, one dispatch at most begins: the one that had passed the stop     *)
(* boundary.  A crash, a second request and a restart do not add another.    *)
StopHolds == late <= 1

(* Until the job ends, two workers run at once only if the work of one of    *)
(* them has been seen to be complete in the repository.                     *)
OneWorker ==
  ~over =>
    \A p, q \in Processes :
      p # q /\ worker[p] /\ worker[q] => "completed" \in {action[p], action[q]}

(* The flock and the record beside it are one lock, which an engine's death  *)
(* releases; a probe of it is nobody's.                                     *)
InLock == {p \in Processes : InBody(p)}
OneOwner == IF InLock = {} THEN Nobody ELSE CHOOSE p \in InLock : TRUE
Lock == INSTANCE WorktreeLock WITH Owners <- Processes, owner <- OneOwner
OneEngine == Lock!Spec

(* A stop request reaches a running engine: it leaves the worktree, unless   *)
(* the request is lifted or the job ends before.                            *)
StopReached ==
  \A p \in Processes : hold /\ ~over /\ InBody(p) ~> ~hold \/ over \/ ~InBody(p)
=============================================================================
