------------------------------ MODULE MCAgents ------------------------------
(* Model values for TLC. *)
EXTENDS Agents

CONSTANTS a1, a2, s1, s2
=============================================================================
