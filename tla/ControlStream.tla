----------------------------- MODULE ControlStream -----------------------------
(***************************************************************************)
(* What one subscriber of the event bus is promised about control events   *)
(* (permission and choice requests, turn boundaries), however slow it is   *)
(* and however small its buffer: it receives every control event offered   *)
(* to it, in the order of the offers, until a session's lifecycle changes  *)
(* hands (that session's pending events are withdrawn, all of them and no  *)
(* others) or the stream ends.  A gap in a stream that stays open is never *)
(* possible.                                                               *)
(***************************************************************************)
EXTENDS Naturals

CONSTANTS Sessions

VARIABLES
  life,      \* who owns each session id
  offered,   \* the number of the control event offered last
  pending,   \* control events offered and not handed over: [id, session]
  handed,    \* the number of the control event handed over last
  open

csVars == <<life, offered, pending, handed, open>>

CSInit ==
  /\ offered = 0
  /\ pending = {}
  /\ handed = 0
  /\ open = TRUE

\* An offer, numbered after the earlier ones, is kept or ends the stream.
Offer(s) ==
  /\ open
  /\ offered' > offered
  /\ \/ pending' = pending \union {[id |-> offered', session |-> s]} /\ open' = TRUE
     \/ pending' = {} /\ open' = FALSE
  /\ UNCHANGED <<life, handed>>

\* The oldest pending event is handed over, never another.
HandOver ==
  /\ \E e \in pending :
       /\ \A other \in pending : e.id <= other.id
       /\ handed' = e.id
       /\ pending' = pending \ {e}
  /\ UNCHANGED <<life, offered, open>>

\* Sessions change hands; what is pending for the set S of those closed goes.
ChangeHands ==
  /\ \E S \in SUBSET {s \in Sessions : life'[s] # life[s]} :
       pending' = {e \in pending : e.session \notin S}
  /\ UNCHANGED <<offered, handed, open>>

EndStream ==
  /\ open' = FALSE
  /\ pending' = {}
  /\ UNCHANGED <<offered, handed>>

CSNext ==
  \/ \E s \in Sessions : Offer(s)
  \/ HandOver
  \/ ChangeHands
  \/ EndStream

CSSpec == CSInit /\ [][CSNext]_csVars
=============================================================================
