------------------------------- MODULE MCPeer -------------------------------
(* Model values for TLC: a host that sends and one whose user switches and
   closes. *)
EXTENDS Peer

CONSTANTS h1, h2, s1, s2

Opened == [h \in Hosts |-> IF h = h2 THEN s2 ELSE s1]
Policies == [h \in Hosts |-> "auto"]
=============================================================================
