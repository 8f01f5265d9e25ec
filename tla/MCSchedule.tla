------------------------------ MODULE MCSchedule ------------------------------
(***************************************************************************)
(* Model values for the schedules.                                         *)
(***************************************************************************)
EXTENDS Schedule, TLC

\* Managers are alike; recurring jobs are alike, and so are one-shots.
Symmetry == Permutations(Managers)
=============================================================================
