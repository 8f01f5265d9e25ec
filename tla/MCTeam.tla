------------------------------- MODULE MCTeam -------------------------------
(* Model values for TLC. *)
EXTENDS Team, TLC

CONSTANTS w1, w2
=============================================================================
