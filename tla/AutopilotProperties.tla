------------------------ MODULE AutopilotProperties ------------------------
(* What module Autopilot is expected to guarantee.                          *)
EXTENDS Autopilot

(* Type invariant: wrapper and engine are in step, and counts are bounded.  *)
TypeOK ==
  /\ rec \in [Changes -> Status]
  /\ approvals \subseteq Gated /\ created \subseteq Changes /\ accepted \subseteq created
  /\ {delivery, mem} \subseteq
       [base : {"none", "main", Plan}, name : {"none", Plan}, url : BOOLEAN]
  /\ counts \in [Changes \X Sigs -> 0 .. MaxResets]
  /\ known \in [Changes \X Sigs -> 0 .. MaxResets]
  /\ paused \in BOOLEAN /\ veto \subseteq Gated /\ authored \subseteq Changes
  /\ dirty \in BOOLEAN /\ head \in {"main", Plan} /\ branch \in BOOLEAN
  /\ landed \in [Changes -> {"none", "main", Plan}]
  /\ remote \subseteq Changes /\ prs \subseteq {"main", Plan}
  /\ en \in {"none", "branch", "record", "pick", "stage", "request", "save"}
  /\ en # "none" => ap = "run"
  /\ ap \in {"down", "run", "classify", "approval", "approve", "acceptance", "failure", "count"}
  /\ visited \subseteq Changes /\ queue \subseteq Changes
  /\ ap \in {"approval", "approve", "acceptance", "failure", "count"} <=> queue # {}
  /\ streak \in 0 .. Passes /\ seen \in [Changes -> Status] /\ due \in BOOLEAN
  /\ inTime \subseteq veto /\ resets \in [Changes \X Sigs -> Nat]
  /\ starts \in 0 .. MaxStarts /\ kills \in 0 .. MaxKills /\ ops \in 0 .. MaxOps

(* A transient failure is reset at most max_auto_resets times for the same  *)
(* signature, whatever restarts lie between, save one more for each kill    *)
(* that fell between a reset and the saving of its count.                   *)
ResetsBounded == \A x \in Changes \X Sigs : resets[x] <= MaxResets + kills

(* A gate the operator vetoed before its window had passed is never         *)
(* approved by the wrapper, across restarts and while other gates are       *)
(* being waited for.                                                        *)
VetoHolds ==
  [][ap = "approve" /\ ap' # ap => approvals' \cap inTime \subseteq approvals]_vars

(* A pull request is opened only from a branch that holds the archive       *)
(* commits of all changes, although runs may have been killed, refused and  *)
(* continued after the operator switched branches.                          *)
DeliveredWhole == prs # {} => remote = Changes

(* The unit does not run on for ever: it stops, or it waits for the         *)
(* operator's acceptance of a created change.                               *)
UnitSettles == ap # "down" ~> ap \in {"down", "acceptance"}
=============================================================================
