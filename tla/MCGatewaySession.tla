---------------------------- MODULE MCGatewaySession ----------------------------
(***************************************************************************)
(* Model values for the life of a gateway session.                         *)
(***************************************************************************)
EXTENDS GatewaySession, TLC

Symmetry == Permutations(Objects) \union Permutations(Tasks)
            \union Permutations(Interrupters) \union Permutations(Ops)
=============================================================================
