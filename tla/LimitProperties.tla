-------------------------- MODULE LimitProperties --------------------------
(***************************************************************************)
(* What the operator's limits still mean when two processes spend under      *)
(* them, with usage that comes late or never.                               *)
(***************************************************************************)
EXTENDS JobLimits

MaxEstimate == CHOOSE e \in Estimates : \A f \in Estimates : f <= e

(* By how much dispatches cost more than was reserved for them.             *)
Overruns == Sum([k \in Ids |-> IF actions[k].entry = "reconciled" /\ actions[k].observed > actions[k].estimate
                               THEN actions[k].observed - actions[k].estimate ELSE 0])

(* Whatever the order in which the engine and the service read the           *)
(* consumption and insert their reservations, and whatever is never          *)
(* accounted for, the job is charged at most one estimate beyond the highest *)
(* limit an operator ever set, and what dispatches cost more than estimated  *)
(* (budgets.reserve; the bound its module's docstring states).              *)
BoundedOvershoot ==
  Null(ceiling) \/ consumption_for_job <= ceiling + MaxEstimate + Overruns

(* Once a charge is settled, by observation or because the usage is unknown, *)
(* no later result, recovery, replay or restart changes it, and a            *)
(* reservation is never withdrawn (Ledger.reconcile_reservation,             *)
(* retain_reservation).                                                     *)
ChargedOnce ==
  [][\A k \in Ids :
       /\ actions[k].entry \in {"reconciled", "retained"} =>
            reservation_charge(actions'[k]) = reservation_charge(actions[k])
       /\ actions[k].entry # "none" => actions'[k].entry # "none"]_vars

(* Every change resumed on a repair was paid for from the operator's grant,  *)
(* and never more than the most that was ever granted, also when the engine  *)
(* is killed between the decision, its record and the resumption, and after  *)
(* resets (recovery.consume_recovery_effect).                               *)
GrantBounded == resumed <= used /\ (Null(granted) \/ used <= granted)
=============================================================================
