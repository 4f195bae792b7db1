------------------------- MODULE SupervisedProperties -------------------------
(* What module SupervisedChange is expected to guarantee.                    *)
EXTENDS SupervisedChange

(* Type invariant: rounds and attempt counters stay within their limits.    *)
TypeOK ==
  /\ file \in Record /\ mem \in Record
  /\ journal \in [1 .. Slots -> Action]
  /\ incident \in {"none", "recovering", "escalated", "resolved"}
  /\ failures \in [Stages -> 0 .. MaxAttempts]
  /\ recoveries \in [Classes \X Stages -> 0 .. MaxAttempts]
  /\ repair \in {"none", "consumable", "refused"}
  /\ tree \in Tree
  /\ act \in 0 .. Slots
  /\ via \in {"stage", "retry", "fix", "verify"}
  /\ tries \in Nat /\ runs \in 0 .. MaxRuns /\ edits \in 0 .. MaxEdits
  /\ vetted \in {"no", "accepted", "repairing", "verified"}

(* No worker runs that the budget was not charged for, and an action that is *)
(* closed holds no reservation open: what it used was observed or what it    *)
(* reserved is kept as used.                                                *)
Accounted ==
  \A k \in 1 .. Slots :
    /\ journal[k].worker = "live" => journal[k].reservation # "none"
    /\ Terminal(journal[k]) => journal[k].reservation # "reserved"

(* While the loop has a worker of its own, nothing else it ever dispatched   *)
(* has an unknown outcome.                                                  *)
NothingElseUnconfirmed ==
  via = "stage" /\ pc \in {"gate", "intent", "reserved", "recorded", "spawned", "wait"} =>
    \A k \in (1 .. Slots) \ {act} : ~Unconfirmed(journal[k])

(* The admission of a dispatch gives an action up for a replay only when no   *)
(* delivered result stands for it and its worker is known to be gone: a      *)
(* worker that still runs, or one whose identity was never bound, is never   *)
(* replaced.  What a recovery dispatches passes no admission, and nothing is *)
(* said of it here.                                                         *)
SupersededIsDead ==
  [][\A k \in 1 .. Slots :
       (pc = "admit" /\ pc' # "admit" /\ ~Terminal(journal[k]) /\ journal'[k].state = "failed"
          /\ journal[k].evidence = "none") =>
         journal[k].bound /\ journal[k].worker # "live"]_vars

(* No archive worker runs over content whose last implement or repair was    *)
(* not accepted, or verified after that acceptance.                          *)
ArchiveVetted ==
  act # 0 /\ journal[act].stage = "archive" /\ pc \in {"spawned", "wait"} =>
    vetted \in {"accepted", "verified"}

(* A run of the engine ends.                                                *)
RunEnds == pc # "idle" ~> pc = "idle"
=============================================================================
