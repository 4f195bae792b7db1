----------------------------- MODULE PlanContract -----------------------------
(***************************************************************************)
(* What `opsx-plan run` promises of a plan, without records, phases, gates  *)
(* or results: while a run is open one change at a time is worked on, only  *)
(* after everything it depends on is done; a change becomes done when its   *)
(* archive is on disk, and stays done until the run closes.                 *)
(***************************************************************************)
CONSTANTS Changes, NoChange, Deps, Enabled

VARIABLES
  open,     \* a run is in progress
  done,     \* changes the run holds as done
  archived, \* changes whose archive is on disk in place of the active directory
  busy      \* the change being worked on, or NoChange

vars == <<open, done, archived, busy>>

Free == open /\ busy = NoChange

(* The archives on disk may be any before a run, and between two of them.   *)
Init == ~open /\ done = {} /\ busy = NoChange /\ archived \subseteq Changes

Between == ~open /\ archived' \subseteq Changes /\ UNCHANGED <<open, done, busy>>

(* A run starts from what is on disk.                                       *)
Open ==
  /\ ~open /\ open'
  /\ done' \subseteq archived
  /\ UNCHANGED <<archived, busy>>

Begin(c) ==
  /\ Free /\ c \notin done
  /\ Deps[c] \subseteq done \cap Enabled
  /\ busy' = c
  /\ UNCHANGED <<open, done, archived>>

(* Only the archive of the change being worked on moves.                    *)
Work ==
  /\ open /\ busy # NoChange
  /\ archived' \in {archived \cup {busy}, archived \ {busy}}
  /\ UNCHANGED <<open, done, busy>>

Yield == open /\ busy # NoChange /\ busy' = NoChange /\ UNCHANGED <<open, done, archived>>

Complete ==
  /\ open /\ busy \in archived
  /\ done' = done \cup {busy} /\ busy' = NoChange
  /\ UNCHANGED <<open, archived>>

Close == open /\ ~open' /\ done' = {} /\ busy' = NoChange /\ UNCHANGED archived

Next ==
  \/ Between \/ Open \/ Work \/ Yield \/ Complete \/ Close
  \/ \E c \in Changes : Begin(c)

Spec == Init /\ [][Next]_vars

=============================================================================
