-------------------------------- MODULE MCTurns --------------------------------
(***************************************************************************)
(* Model values for the turns of a conversation.                           *)
(***************************************************************************)
EXTENDS Turns, TLC

Symmetry == Permutations(Runs) \union Permutations(Notes)
=============================================================================
