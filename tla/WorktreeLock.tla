---------------------------- MODULE WorktreeLock ----------------------------
(***************************************************************************)
(* What the execution lock of a worktree promises: at most one process      *)
(* drives the worktree, a process enters only when nobody is in, and only   *)
(* the one that is in can leave (by releasing, or by dying).                *)
(***************************************************************************)
CONSTANTS Owners, Nobody

VARIABLE owner

Init == owner = Nobody

Enter(p) == owner = Nobody /\ owner' = p
Exit(p) == owner = p /\ owner' = Nobody

Next == \E p \in Owners : Enter(p) \/ Exit(p)

Spec == Init /\ [][Next]_owner
=============================================================================
