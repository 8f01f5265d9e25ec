------------------------------ MODULE MCEventBus ------------------------------
(***************************************************************************)
(* Model values for the event bus.                                         *)
(***************************************************************************)
EXTENDS EventBus

CONSTANTS s1, a, b, w1
=============================================================================
