---------------------------- MODULE MCTranscript ----------------------------
(* Model values for TLC. *)
EXTENDS Transcript

CONSTANTS w1, w2
=============================================================================
