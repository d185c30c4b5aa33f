----------------------------- MODULE MCEventBus -----------------------------
(* EventBus for model checking.                                            *)
EXTENDS EventBus

CONSTANTS p1, p2
=============================================================================
