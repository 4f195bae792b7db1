-------------------------- MODULE BrokerProperties --------------------------
(* What module Broker is expected to guarantee.                              *)
EXTENDS Broker

(* Type invariant: rows of the ledger, and states as the file holds them.    *)
TypeOK ==
  /\ revision \in 0 .. MaxRevision
  /\ receipts \subseteq Receipt /\ newest \in [Changes -> Kinds \cup {"none"}]
  /\ {json, mem, draft, seen} \subseteq [Changes -> Record]
  /\ tree \in [Changes -> Directories]
  /\ archived \cup visited \cup forgotten \subseteq Changes
  /\ service \in {"idle", "recorded", "loaded"}
  /\ cli \in {"idle", "loaded", "asked", "answered"}
  /\ engine \in {"off", "load", "pick", "visit", "authority", "fresh", "begin", "create", "work"}
  /\ cur \in Changes \cup {NoChange} /\ anchor \in 0 .. MaxRevision /\ late \in Nat

(* What the engine is about to dispatch, or has dispatched, was released for *)
(* the revision its gate was opened under, by the authority its gate names,  *)
(* however revisions and approvals fall between the gates.                  *)
Dispatching == engine \in {"begin", "create", "work"}
DispatchReleased ==
  Dispatching /\ Gate[cur] # "ungated" =>
    \E r \in Of(cur, "approval") : r.rev = anchor /\ r.by = Releases(cur)

(* Each revision of the policy lets one dispatch through at most, the one    *)
(* that was past the gates when it was made.                                *)
RevisionStops == late <= revision

(* What a worker created and the evidence verifies is not implemented before *)
(* the operator has accepted the change, or has reset it; not after a kill    *)
(* of the engine between the creation and its record, nor after a save of a  *)
(* copy loaded while it was created (reconcile sees the attempt).  The one    *)
(* exception is the save of a copy loaded before the attempt: it takes the    *)
(* attempt out of the file, and reconcile cannot tell who made the change.   *)
AcceptedFirst ==
  engine \in {"begin", "work"} /\ cur \in Unauthored /\ verify_change_created(cur) =>
    Of(cur, "acceptance") \cup Of(cur, "reset") # {} \/ cur \in forgotten

(* An archived change is not dispatched again, whatever resets and stale     *)
(* saves have made of its record in the state file.                         *)
ArchivedStaysDone == Dispatching => cur \notin archived
=============================================================================
