------------------------------ MODULE MCInbox ------------------------------
(* Model values for TLC. *)
EXTENDS Inbox

CONSTANTS a1, a2, b1, b2, o1, o2

Registrations ==
  [b \in Buses |-> [a \in Agents |-> IF a = a1 THEN (IF b = b1 THEN 3 ELSE 1)
                                     ELSE (IF b = b1 THEN 2 ELSE 0)]]
Symmetry == Permutations(Ops)
=============================================================================
