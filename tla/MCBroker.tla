------------------------------ MODULE MCBroker ------------------------------
(* A human-only gate on a change the orchestrator is to create, and a        *)
(* delegated one on a change that is there.                                 *)
EXTENDS BrokerProperties, TLC

CONSTANTS absent, present

MCChanges == {absent, present}
MCGate == (absent :> "human-only") @@ (present :> "delegated")
MCUnauthored == {absent}
=============================================================================
