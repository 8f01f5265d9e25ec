---------------------------- MODULE MCQueryLoop ----------------------------
(***************************************************************************)
(* Queries of a session whose provider makes two tool calls, the second of *)
(* a concurrency-safe tool, and whose tool hooks print.                    *)
(***************************************************************************)
EXTENDS QueryLoop

MCCalls == 1..2
MCSafe == {2}
=============================================================================
