----------------------------- MODULE Turns_proofs -----------------------------
(***************************************************************************)
(* Proofs about the turns of a conversation, for any number of runs,       *)
(* notifications and inputs and any limit of the queues.                   *)
(***************************************************************************)
EXTENDS Turns, TLAPS

\* The types of everything but the queues and the log.
CtlTypes ==
  /\ life \in {"open", "closing", "closed", "draining", "torn"}
  /\ gen \in 0..(MaxGen + 1)
  /\ lock \in Callers \union {None}
  /\ accepting \in BOOLEAN /\ abort \in BOOLEAN
  /\ pc \in [Callers -> Holding \union {"idle", "waiting", "done"}]
  /\ query \in [Callers -> {"none", "streaming", "unwinding"}]
  /\ failed \in [Callers -> BOOLEAN]
  /\ madeIn \in [Notes -> 0..(MaxGen + 1)]
  /\ interrupted \in [Runs -> {"no", "early", "late"}]
  /\ ended \in [Runs -> BOOLEAN]
  /\ life \in {"open", "closing"} => gen <= MaxGen

\* The places of a run from which it accepts input.
Active == {"prologue", "peer", "prepare", "query", "cancelling", "terminal",
           "applying", "starting"}

\* The lock is held by the caller that is inside its turn.
LockInv ==
  /\ \A c \in Callers : pc[c] \in Holding <=> lock = c
  /\ accepting => lock \in Runs /\ pc[lock] \in Active

\* A query belongs to a caller that waits for it.
QueryInv ==
  \A c \in Callers :
    /\ Alive(c) => pc[c] \in {"query", "cancelling", "leaving"}
    /\ query[c] = "streaming" => pc[c] = "query"

\* Once the session is closed, abort stays set for whoever could go on.
AbortInv ==
  life \in {"closed", "draining", "torn"} =>
    \A c \in Callers : pc[c] \in {"query", "terminal", "applying", "starting"} => abort

\* So it does for a run that was interrupted late.
LateInv ==
  \A r \in Runs : interrupted[r] = "late" =>
    \/ pc[r] \in {"query", "terminal", "starting"} /\ abort
    \/ pc[r] \in {"cancelling", "leaving", "releasing", "done"}

EndedInv == \A r \in Runs : ended[r] => pc[r] \in {"leaving", "releasing", "done"}

CInv ==
  /\ CtlTypes /\ LockInv /\ QueryInv /\ AbortInv /\ LateInv /\ EndedInv
  /\ NoQueryAfterTeardown /\ NotificationsKeepTheirLifecycle

USE DEF Callers, Holding, Active, Goto, session, pending, turn, history

LEMMA InitCInv == Init => CInv
<1> SUFFICES ASSUME Init PROVE CInv
  OBVIOUS
<1>1. 0 \in 0..(MaxGen + 1) /\ 0 <= MaxGen
  BY TurnsAssumption
<1>2. CtlTypes
  BY <1>1 DEF Init, CtlTypes
<1>3. LockInv /\ QueryInv /\ AbortInv /\ LateInv /\ EndedInv
  BY TurnsAssumption DEF Init, LockInv, QueryInv, AbortInv, LateInv, EndedInv, Alive
<1>4. NoQueryAfterTeardown /\ NotificationsKeepTheirLifecycle
  BY DEF Init, NoQueryAfterTeardown, NotificationsKeepTheirLifecycle
<1> QED BY <1>2, <1>3, <1>4 DEF CInv

\* Input changes nothing of the control.
LEMMA InputSteps ==
  ASSUME CInv, UNCHANGED <<session, turn, accepting, interrupted, ended>>
  PROVE  CInv'
BY DEF CInv, CtlTypes, LockInv, QueryInv, AbortInv, LateInv, EndedInv, Alive,
       NoQueryAfterTeardown, NotificationsKeepTheirLifecycle

\* Waiting for the turn, and giving it back.
LEMMA LockSteps ==
  ASSUME CInv, NEW c \in Callers,
         \/ c \in Runs /\ (Send(c) \/ EnterRun(c) \/ Settle(c))
         \/ c \in Notes /\ (Notify(c) \/ EnterNote(c))
         \/ Release(c)
  PROVE  CInv'
<1> USE TurnsAssumption
<1>1. CASE c \in Runs /\ Send(c)
  BY <1>1 DEF Send, CInv, CtlTypes, LockInv, QueryInv, AbortInv, LateInv, EndedInv, Alive,
       NoQueryAfterTeardown, NotificationsKeepTheirLifecycle
<1>2. CASE c \in Runs /\ EnterRun(c)
  BY <1>2 DEF EnterRun, CInv, CtlTypes, LockInv, QueryInv, AbortInv, LateInv, EndedInv, Alive,
       NoQueryAfterTeardown, NotificationsKeepTheirLifecycle
<1>3. CASE c \in Runs /\ Settle(c)
  BY <1>3 DEF Settle, CInv, CtlTypes, LockInv, QueryInv, AbortInv, LateInv, EndedInv, Alive,
       NoQueryAfterTeardown, NotificationsKeepTheirLifecycle
<1>4. CASE c \in Notes /\ Notify(c)
  BY <1>4 DEF Notify, CInv, CtlTypes, LockInv, QueryInv, AbortInv, LateInv, EndedInv, Alive,
       NoQueryAfterTeardown, NotificationsKeepTheirLifecycle
<1>5. CASE c \in Notes /\ EnterNote(c)
  BY <1>5 DEF EnterNote, CInv, CtlTypes, LockInv, QueryInv, AbortInv, LateInv, EndedInv, Alive,
       NoQueryAfterTeardown, NotificationsKeepTheirLifecycle
<1>6. CASE Release(c)
  BY <1>6 DEF Release, CInv, CtlTypes, LockInv, QueryInv, AbortInv, LateInv, EndedInv, Alive,
       NoQueryAfterTeardown, NotificationsKeepTheirLifecycle
<1> QED BY <1>1, <1>2, <1>3, <1>4, <1>5, <1>6

\* A caller whose turn is over leaves; whether its query is still unwinding
\* matters only to a run, which waits for it.
LEMMA LeaveStep ==
  ASSUME CInv, NEW c \in Callers, pc[c] \in Active, Leave(c),
         UNCHANGED <<session, lock, madeIn, interrupted>>,
         failed' \in [Callers -> BOOLEAN],
         query' \in [Callers -> {"none", "streaming", "unwinding"}],
         \A d \in Callers : d # c => query'[d] = query[d],
         query'[c] # "none" => query[c] # "none" /\ c \in Runs,
         query'[c] # "streaming",
         ended' \in [Runs -> BOOLEAN],
         \A r \in Runs : ended'[r] => ended[r] \/ r = c
  PROVE  CInv'
<1> USE TurnsAssumption
<1>0. /\ \A d \in Callers : d # c => pc'[d] = pc[d]
      /\ pc'[c] = IF c \in Runs THEN "leaving" ELSE "releasing"
      /\ pc' \in [Callers -> Holding \union {"idle", "waiting", "done"}]
      /\ accepting' \in BOOLEAN /\ (accepting' => accepting /\ c \notin Runs)
  BY ZenonT(60) DEF Leave, CInv, CtlTypes
<1>1. CtlTypes'
  BY <1>0 DEF CInv, CtlTypes
<1>2. LockInv'
  BY <1>0 DEF CInv, LockInv, CtlTypes
<1>3. QueryInv' /\ NoQueryAfterTeardown'
  BY <1>0 DEF CInv, QueryInv, NoQueryAfterTeardown, Alive
<1>4. AbortInv'
  BY <1>0 DEF CInv, AbortInv
<1>5. LateInv' /\ EndedInv'
  BY <1>0 DEF CInv, LateInv, EndedInv
<1>6. NotificationsKeepTheirLifecycle'
  BY <1>0 DEF CInv, NotificationsKeepTheirLifecycle
<1> QED BY <1>1, <1>2, <1>3, <1>4, <1>5, <1>6 DEF CInv

\* The steps of one turn.
LEMMA TurnSteps ==
  ASSUME CInv, NEW c \in Callers,
         \/ Check(c) \/ ClearAbort(c) \/ Start(c) \/ QueryLoops(c) \/ QueryEnds(c)
         \/ WatchAbort(c) \/ Unwind(c) \/ (c \in Runs /\ Blocked(c))
  PROVE  CInv'
<1> USE TurnsAssumption
<1>1. CASE Check(c)
  <2>1. CASE life = "open"
    BY <1>1, <2>1 DEF Check, CInv, CtlTypes, LockInv, QueryInv, AbortInv, LateInv, EndedInv, Alive,
       NoQueryAfterTeardown, NotificationsKeepTheirLifecycle
  <2>2. CASE life # "open"
    <3>1. Leave(c) /\ pc[c] = "prologue" /\ query[c] = "none"
      BY <1>1, <2>2 DEF Check, CInv, QueryInv, Alive, CtlTypes
    <3> QED BY <1>1, <3>1, LeaveStep DEF Check, CInv, CtlTypes
  <2> QED BY <2>1, <2>2
<1>2. CASE ClearAbort(c)
  BY <1>2, ZenonT(40) DEF ClearAbort, CInv, CtlTypes, LockInv, QueryInv, AbortInv, LateInv, EndedInv, Alive,
       NoQueryAfterTeardown, NotificationsKeepTheirLifecycle
<1>3. CASE Start(c)
  <2>1. CASE life = "open"
    <3>0. /\ \A d \in Callers : d # c => pc'[d] = pc[d] /\ query'[d] = query[d]
          /\ pc[c] = "prepare" /\ pc'[c] = "query" /\ lock = c
          /\ UNCHANGED <<life, gen, abort, lock, madeIn, interrupted, ended, accepting>>
      BY <1>3, <2>1 DEF Start, CInv, CtlTypes, LockInv
    <3>1. CtlTypes'
      BY <1>3, <2>1, <3>0, ZenonT(40) DEF Start, CInv, CtlTypes
    <3>2. LockInv'
      BY <3>0 DEF CInv, LockInv, CtlTypes
    <3>3. QueryInv' /\ NoQueryAfterTeardown' /\ AbortInv'
      BY <3>0, <2>1 DEF CInv, QueryInv, NoQueryAfterTeardown, AbortInv, Alive
    <3>4. LateInv' /\ EndedInv' /\ NotificationsKeepTheirLifecycle'
      BY <3>0 DEF CInv, LateInv, EndedInv, NotificationsKeepTheirLifecycle
    <3> QED BY <3>1, <3>2, <3>3, <3>4 DEF CInv
  <2>2. CASE life # "open"
    <3>1. Leave(c) /\ pc[c] = "prepare" /\ query[c] = "none"
      BY <1>3, <2>2 DEF Start, CInv, QueryInv, Alive, CtlTypes
    <3> QED BY <1>3, <2>2, <3>1, LeaveStep DEF Start, CInv, CtlTypes
  <2> QED BY <2>1, <2>2
<1>4. CASE QueryLoops(c)
  BY <1>4, InputSteps DEF QueryLoops
<1>5. CASE QueryEnds(c)
  <2>0. /\ \A d \in Callers : d # c => pc'[d] = pc[d] /\ query'[d] = query[d]
        /\ pc[c] = "query" /\ query[c] = "streaming"
        /\ pc'[c] = "terminal" /\ query'[c] = "none"
        /\ UNCHANGED <<life, gen, abort, lock, madeIn, interrupted, ended, accepting>>
    BY <1>5 DEF QueryEnds, CInv, CtlTypes, QueryInv, Alive
  <2>1. CtlTypes'
    BY <1>5, <2>0 DEF QueryEnds, CInv, CtlTypes
  <2>2. LockInv'
    BY <2>0 DEF CInv, LockInv, CtlTypes
  <2>3. QueryInv' /\ NoQueryAfterTeardown' /\ AbortInv'
    BY <2>0 DEF CInv, QueryInv, NoQueryAfterTeardown, AbortInv, Alive
  <2>4. LateInv' /\ EndedInv' /\ NotificationsKeepTheirLifecycle'
    BY <2>0 DEF CInv, LateInv, EndedInv, NotificationsKeepTheirLifecycle
  <2> QED BY <2>1, <2>2, <2>3, <2>4 DEF CInv
<1>6. CASE WatchAbort(c)
  BY <1>6 DEF WatchAbort, Cancelled, CInv, CtlTypes, LockInv, QueryInv, AbortInv, LateInv, EndedInv, Alive,
       NoQueryAfterTeardown, NotificationsKeepTheirLifecycle
<1>7. CASE Unwind(c)
  <2>0. /\ failed' \in [Callers -> BOOLEAN] /\ query[c] = "unwinding"
        /\ query' \in [Callers -> {"none", "streaming", "unwinding"}]
        /\ \A d \in Callers : query'[d] = IF d = c THEN "none" ELSE query[d]
        /\ UNCHANGED <<life, gen, abort, lock, madeIn, interrupted, ended>>
        /\ pc[c] \in {"query", "cancelling", "leaving"}
    BY <1>7 DEF Unwind, CInv, CtlTypes, QueryInv, Alive
  <2>1. CASE pc[c] = "cancelling"
    BY <1>7, <2>0, <2>1, LeaveStep DEF Unwind, CInv, CtlTypes
  <2>2. CASE pc[c] = "query"
    <3>0. /\ \A d \in Callers : d # c => pc'[d] = pc[d]
          /\ pc'[c] = "terminal" /\ UNCHANGED accepting
          /\ pc' \in [Callers -> Holding \union {"idle", "waiting", "done"}]
      BY <1>7, <2>2 DEF Unwind, CInv, CtlTypes
    <3>1. CtlTypes' /\ LockInv'
      BY <2>0, <2>2, <3>0 DEF CInv, LockInv, CtlTypes
    <3>2. QueryInv' /\ NoQueryAfterTeardown' /\ AbortInv'
      BY <2>0, <2>2, <3>0 DEF CInv, QueryInv, NoQueryAfterTeardown, AbortInv, Alive
    <3>3. LateInv' /\ EndedInv' /\ NotificationsKeepTheirLifecycle'
      BY <2>0, <2>2, <3>0 DEF CInv, LateInv, EndedInv, NotificationsKeepTheirLifecycle
    <3> QED BY <3>1, <3>2, <3>3 DEF CInv
  <2>3. CASE pc[c] = "leaving"
    <3>0. UNCHANGED <<pc, accepting>>
      BY <1>7, <2>3 DEF Unwind
    <3> QED BY <2>0, <3>0 DEF CInv, CtlTypes, LockInv, QueryInv, AbortInv, LateInv, EndedInv, Alive,
       NoQueryAfterTeardown, NotificationsKeepTheirLifecycle
  <2> QED BY <2>0, <2>1, <2>2, <2>3
<1>8. CASE c \in Runs /\ Blocked(c)
  BY <1>8 DEF Blocked, CInv, CtlTypes, LockInv, QueryInv, AbortInv, LateInv, EndedInv, Alive,
       NoQueryAfterTeardown, NotificationsKeepTheirLifecycle
<1> QED BY <1>1, <1>2, <1>3, <1>4, <1>5, <1>6, <1>7, <1>8

\* The steps between the turns of a run.
LEMMA RunSteps ==
  ASSUME CInv, NEW r \in Runs,
         \/ Fails(r) \/ TakeSteering(r) \/ TakeFollowUp(r) \/ Ends(r)
         \/ ApplySteering(r) \/ StartFollowUp(r) \/ CloseStream(r)
  PROVE  CInv'
<1> USE TurnsAssumption
<1>1. CASE Fails(r)
  <2>1. Leave(r) /\ pc[r] = "terminal" /\ query[r] = "none"
    BY <1>1 DEF Fails, CInv, QueryInv, Alive, CtlTypes
  <2> QED BY <1>1, <2>1, LeaveStep DEF Fails, CInv, CtlTypes
<1>2. CASE TakeSteering(r)
  BY <1>2 DEF TakeSteering, CInv, CtlTypes, LockInv, QueryInv, AbortInv, LateInv, EndedInv, Alive,
       NoQueryAfterTeardown, NotificationsKeepTheirLifecycle
<1>3. CASE TakeFollowUp(r)
  BY <1>3 DEF TakeFollowUp, CInv, CtlTypes, LockInv, QueryInv, AbortInv, LateInv, EndedInv, Alive,
       NoQueryAfterTeardown, NotificationsKeepTheirLifecycle
<1>4. CASE Ends(r)
  <2>1. Leave(r) /\ pc[r] = "terminal" /\ query[r] = "none"
    BY <1>4 DEF Ends, CInv, QueryInv, Alive, CtlTypes
  <2> QED BY <1>4, <2>1, LeaveStep DEF Ends, CInv, CtlTypes
<1>5. CASE ApplySteering(r)
  BY <1>5 DEF ApplySteering, CInv, CtlTypes, LockInv, QueryInv, AbortInv, LateInv, EndedInv, Alive,
       NoQueryAfterTeardown, NotificationsKeepTheirLifecycle
<1>6. CASE StartFollowUp(r)
  <2>1. CASE abort
    <3>1. Leave(r) /\ pc[r] = "starting" /\ query[r] = "none"
      BY <1>6, <2>1 DEF StartFollowUp, CInv, QueryInv, Alive, CtlTypes
    <3> QED BY <1>6, <3>1, LeaveStep DEF StartFollowUp, CInv, CtlTypes
  <2>2. CASE ~abort
    <3>0. /\ \A d \in Callers : d # r => pc'[d] = pc[d]
          /\ pc[r] = "starting" /\ pc'[r] = "prologue" /\ lock = r
          /\ pc' \in [Callers -> Holding \union {"idle", "waiting", "done"}]
          /\ interrupted[r] # "late" /\ r \notin Notes
          /\ UNCHANGED <<session, lock, accepting, query, failed, madeIn, interrupted, ended>>
      BY <1>6, <2>2 DEF StartFollowUp, CInv, CtlTypes, LockInv, LateInv
    <3>1. CtlTypes' /\ LockInv'
      BY <3>0 DEF CInv, LockInv, CtlTypes
    <3>2. QueryInv' /\ NoQueryAfterTeardown' /\ AbortInv'
      BY <3>0 DEF CInv, QueryInv, NoQueryAfterTeardown, AbortInv, Alive
    <3>3. LateInv' /\ EndedInv' /\ NotificationsKeepTheirLifecycle'
      BY <3>0 DEF CInv, LateInv, EndedInv, NotificationsKeepTheirLifecycle
    <3> QED BY <3>1, <3>2, <3>3 DEF CInv
  <2> QED BY <2>1, <2>2
<1>7. CASE CloseStream(r)
  <2>1. /\ Leave(r) /\ pc[r] \in Active
        /\ query' \in [Callers -> {"none", "streaming", "unwinding"}]
        /\ \A d \in Callers : d # r => query'[d] = query[d]
        /\ query'[r] # "streaming" /\ (query'[r] # "none" => query[r] # "none")
    BY <1>7 DEF CloseStream, Cancelled, CInv, CtlTypes
  <2> QED BY <1>7, <2>1, LeaveStep DEF CloseStream, CInv, CtlTypes
<1> QED BY <1>1, <1>2, <1>3, <1>4, <1>5, <1>6, <1>7

LEMMA OtherSteps ==
  ASSUME CInv,
         \/ \E n \in Notes : NoteEnds(n)
         \/ \E c \in Callers : CancelTask(c)
         \/ Interrupt \/ NewSession \/ Close \/ CloseBegins \/ CloseCancels \/ Teardown
  PROVE  CInv'
<1> USE TurnsAssumption
<1>1. ASSUME NEW n \in Notes, NoteEnds(n) PROVE CInv'
  BY <1>1 DEF NoteEnds, Leave, CInv, CtlTypes, LockInv, QueryInv, AbortInv, LateInv, EndedInv, Alive,
       NoQueryAfterTeardown, NotificationsKeepTheirLifecycle
<1>2. ASSUME NEW c \in Callers, CancelTask(c) PROVE CInv'
  <2>0. UNCHANGED <<session, lock, failed, madeIn, interrupted, ended>>
    BY <1>2 DEF CancelTask
  <2>1. CASE pc[c] = "waiting" /\ Goto(c, "done") /\ UNCHANGED <<accepting, query>>
    BY <2>0, <2>1 DEF CInv, CtlTypes, LockInv, QueryInv, AbortInv, LateInv, EndedInv, Alive,
       NoQueryAfterTeardown, NotificationsKeepTheirLifecycle
  <2>2. CASE pc[c] \in {"prologue", "peer", "prepare", "terminal"} /\ Leave(c) /\ UNCHANGED query
    <3>1. query[c] = "none"
      BY <2>2 DEF CInv, QueryInv, Alive, CtlTypes
    <3> QED BY <2>0, <2>2, <3>1, LeaveStep DEF CInv, CtlTypes
  <2>3. CASE /\ pc[c] = "query" /\ Goto(c, "cancelling")
             /\ query' = [query EXCEPT ![c] = Cancelled(@)] /\ UNCHANGED accepting
    BY <2>0, <2>3 DEF Cancelled, CInv, CtlTypes, LockInv, QueryInv, AbortInv, LateInv, EndedInv, Alive,
       NoQueryAfterTeardown, NotificationsKeepTheirLifecycle
  <2> QED BY <1>2, <2>1, <2>2, <2>3 DEF CancelTask
<1>3. CASE Interrupt
  BY <1>3 DEF Interrupt, CInv, CtlTypes, LockInv, QueryInv, AbortInv, LateInv, EndedInv, Alive,
       NoQueryAfterTeardown, NotificationsKeepTheirLifecycle
<1>4. CASE NewSession
  <2>0. /\ life = "open" /\ gen' = gen + 1 /\ gen < MaxGen /\ abort' = FALSE
        /\ \A c \in Callers : pc[c] \notin Holding
        /\ UNCHANGED <<life, lock, accepting, pc, query, failed, madeIn, interrupted, ended>>
    BY <1>4 DEF NewSession, CInv, LockInv
  <2>1. CtlTypes'
    <3>1. gen \in Nat /\ MaxGen \in Nat
      BY DEF CInv, CtlTypes
    <3>2. gen' \in 0..(MaxGen + 1) /\ gen' <= MaxGen
      BY <2>0, <3>1
    <3> QED BY <2>0, <3>2 DEF CInv, CtlTypes
  <2>2. LockInv' /\ QueryInv' /\ AbortInv' /\ EndedInv' /\ NoQueryAfterTeardown'
    BY <2>0 DEF CInv, LockInv, QueryInv, AbortInv, EndedInv, NoQueryAfterTeardown, Alive
  <2>3. LateInv' /\ NotificationsKeepTheirLifecycle'
    BY <2>0 DEF CInv, LateInv, NotificationsKeepTheirLifecycle
  <2> QED BY <2>1, <2>2, <2>3 DEF CInv
<1>5. CASE Close
  BY <1>5 DEF Close, CInv, CtlTypes, LockInv, QueryInv, AbortInv, LateInv, EndedInv, Alive,
       NoQueryAfterTeardown, NotificationsKeepTheirLifecycle
<1>6. CASE CloseBegins
  BY <1>6 DEF CloseBegins, CInv, CtlTypes, LockInv, QueryInv, AbortInv, LateInv, EndedInv, Alive,
       NoQueryAfterTeardown, NotificationsKeepTheirLifecycle
<1>7. CASE CloseCancels
  BY <1>7 DEF CloseCancels, Cancelled, CInv, CtlTypes, LockInv, QueryInv, AbortInv, LateInv, EndedInv, Alive,
       NoQueryAfterTeardown, NotificationsKeepTheirLifecycle
<1>8. CASE Teardown
  BY <1>8 DEF Teardown, CInv, CtlTypes, LockInv, QueryInv, AbortInv, LateInv, EndedInv, Alive,
       NoQueryAfterTeardown, NotificationsKeepTheirLifecycle
<1> QED BY <1>1, <1>2, <1>3, <1>4, <1>5, <1>6, <1>7, <1>8
-----------------------------------------------------------------------------
(* The input: where it is, and whose it is. *)

DataTypes ==
  /\ followups \in Seqs /\ Len(followups) <= Limit
  /\ steering \in Seqs /\ Len(steering) <= Limit
  /\ taken \in [Runs -> Seqs]
  /\ owner \in [Inputs -> Runs \union {None}]
  /\ removed \subseteq Inputs
  /\ log \in Seq(LogEntry)

\* What is pending was accepted by the run that has the turn.
PendingInv ==
  /\ \A k \in DOMAIN followups : owner[followups[k]] = lock
  /\ \A k \in DOMAIN steering : owner[steering[k]] = lock
  /\ lock \notin Runs \/ pc[lock] = "releasing" => followups = <<>> /\ steering = <<>>

\* A run accepts input only once it has the turn.
OwnedInv == \A i \in Inputs : owner[i] # None => pc[owner[i]] \notin {"idle", "waiting"}

\* What a run has taken is its own, and is held only while an event is yielded.
TakenInv ==
  \A r \in Runs :
    /\ \A k \in DOMAIN taken[r] : owner[taken[r][k]] = r
    /\ pc[r] \in {"idle", "waiting", "prologue", "peer", "prepare", "query", "terminal"}
         => taken[r] = <<>>

Used(i) == i \in removed \/ \E k \in DOMAIN log : log[k].input = i

Intact == {"prologue", "peer", "prepare", "query", "terminal", "applying", "starting"}

\* While a run is intact, and its session not torn apart, nothing is lost.
KeptInv ==
  \A i \in Inputs :
    owner[i] # None /\ life \in {"open", "closing", "closed"} /\ pc[owner[i]] \in Intact =>
      \/ Used(i)
      \/ \E k \in DOMAIN followups : followups[k] = i
      \/ \E k \in DOMAIN steering : steering[k] = i
      \/ \E k \in DOMAIN taken[owner[i]] : taken[owner[i]][k] = i

EndUsed == \A i \in Inputs : owner[i] # None /\ ended[owner[i]] => Used(i)

DInv == /\ DataTypes /\ PendingInv /\ OwnedInv /\ TakenInv /\ KeptInv /\ EndUsed
        /\ InputStaysInItsRun

IInv == CInv /\ DInv

LEMMA InitDInv == Init => DInv
<1> SUFFICES ASSUME Init PROVE DInv
  OBVIOUS
<1>1. <<>> \in Seqs /\ Len(<<>>) = 0 /\ <<>> \in Seq(LogEntry) /\ 0 <= Limit
  BY TurnsAssumption DEF Seqs
<1>2. DataTypes
  BY <1>1 DEF Init, DataTypes
<1>3. PendingInv /\ OwnedInv /\ TakenInv
  BY TurnsAssumption DEF Init, PendingInv, OwnedInv, TakenInv
<1>4. KeptInv /\ EndUsed /\ InputStaysInItsRun
  BY DEF Init, KeptInv, EndUsed, InputStaysInItsRun
<1> QED BY <1>2, <1>3, <1>4 DEF DInv

\* Removing one element keeps the others, and nothing else.
LEMMA WithoutFacts ==
  ASSUME NEW S, NEW s \in Seq(S), NEW k \in DOMAIN s
  PROVE  /\ Without(s, k) \in Seq(S) /\ Len(Without(s, k)) <= Len(s)
         /\ \A j \in DOMAIN Without(s, k) : \E m \in DOMAIN s : Without(s, k)[j] = s[m]
         /\ \A m \in DOMAIN s : m # k => \E j \in DOMAIN Without(s, k) : Without(s, k)[j] = s[m]
<1>1. /\ k \in 1..Len(s) /\ Len(s) \in Nat /\ DOMAIN s = 1..Len(s)
      /\ \A j \in 1..Len(s) : s[j] \in S
  OBVIOUS
<1> DEFINE w == Without(s, k)
<1>2. /\ DOMAIN w = 1..(Len(s) - 1) /\ Len(s) - 1 \in Nat
      /\ \A j \in 1..(Len(s) - 1) : w[j] = IF j < k THEN s[j] ELSE s[j + 1]
  BY <1>1 DEF Without
<1>3. \A j \in 1..(Len(s) - 1) : w[j] \in S
  BY <1>1, <1>2
<1>4. w \in [1..(Len(s) - 1) -> S]
  BY <1>2, <1>3 DEF Without
<1>5. w \in Seq(S) /\ Len(w) = Len(s) - 1
  BY SMTT(60), <1>2, <1>4
<1>6. \A j \in DOMAIN w : \E m \in DOMAIN s : w[j] = s[m]
  BY <1>1, <1>2, SMTT(30)
<1>7. ASSUME NEW m \in DOMAIN s, m # k
      PROVE  \E j \in DOMAIN w : w[j] = s[m]
  <2>1. CASE m < k
    BY <1>1, <1>2, <1>7, <2>1
  <2>2. CASE m > k
    <3>1. m - 1 \in 1..(Len(s) - 1) /\ ~(m - 1 < k) /\ (m - 1) + 1 = m
      BY <1>1, <1>7, <2>2
    <3>2. w[m - 1] = s[m]
      BY <1>2, <3>1
    <3> QED BY <1>2, <3>1, <3>2
  <2> QED BY <1>1, <1>7, <2>1, <2>2
<1> QED BY <1>1, <1>5, <1>6, <1>7

Kinds == {"steering", "follow-up"}

\* A log that goes on with the inputs s, entered by c.
Extends(all, s, c) ==
  /\ all \in Seq(LogEntry)
  /\ \A k \in DOMAIN log : k \in DOMAIN all /\ all[k] = log[k]
  /\ \A j \in DOMAIN s : \E k \in DOMAIN all : all[k].input = s[j]
  /\ \A k \in DOMAIN all :
       \/ k \in DOMAIN log
       \/ all[k].by = c /\ \E j \in DOMAIN s : all[k].input = s[j]

\* Entering input extends the log by one entry for each.
LEMMA EnteredFacts ==
  ASSUME log \in Seq(LogEntry), NEW s \in Seqs, NEW c \in Callers, NEW kind \in Kinds
  PROVE  Extends(Entered(s, c, kind), s, c)
<1> DEFINE new == [k \in DOMAIN s |-> [input |-> s[k], by |-> c, kind |-> kind]]
           all == Entered(s, c, kind)
<1>1. /\ DOMAIN s = 1..Len(s) /\ Len(s) \in Nat /\ \A j \in 1..Len(s) : s[j] \in Inputs
      /\ DOMAIN log = 1..Len(log) /\ Len(log) \in Nat
  BY DEF Seqs
<1>2. new \in [1..Len(s) -> LogEntry]
  BY <1>1 DEF LogEntry, Kinds
<1>3. new \in Seq(LogEntry) /\ Len(new) = Len(s)
  BY <1>1, <1>2
<1>4. all = log \o new
  BY DEF Entered
<1> HIDE DEF all
<1>5. all \in Seq(LogEntry) /\ Len(all) = Len(log) + Len(s) /\ DOMAIN all = 1..(Len(log) + Len(s))
  BY <1>1, <1>3, <1>4
<1>6. \A k \in 1..Len(log) : all[k] = log[k]
  BY <1>1, <1>3, <1>4
<1>7. \A j \in 1..Len(s) : all[Len(log) + j] = new[j]
  BY <1>1, <1>3, <1>4
<1>8. \A j \in DOMAIN s : Len(log) + j \in DOMAIN all /\ all[Len(log) + j].input = s[j]
                          /\ all[Len(log) + j].by = c
  <2>1. \A j \in DOMAIN s : new[j].input = s[j] /\ new[j].by = c
    OBVIOUS
  <2> HIDE DEF new
  <2> QED BY <1>1, <1>5, <1>7, <2>1
<1>9. \A k \in DOMAIN all : k \in DOMAIN log \/ \E j \in DOMAIN s : k = Len(log) + j
  <2>1. SUFFICES ASSUME NEW k \in DOMAIN all, k \notin DOMAIN log
                 PROVE  \E j \in DOMAIN s : k = Len(log) + j
    OBVIOUS
  <2>2. k - Len(log) \in DOMAIN s /\ k = Len(log) + (k - Len(log))
    BY <1>1, <1>5, <2>1
  <2> QED BY <2>2
<1>10. \A k \in DOMAIN log : k \in DOMAIN all /\ all[k] = log[k]
  BY <1>1, <1>5, <1>6
<1> QED BY <1>5, <1>8, <1>9, <1>10 DEF all, Extends

USE DEF Intact

Before == {"idle", "waiting", "prologue", "peer", "prepare", "query", "terminal"}

\* Steps that leave all input where it is.
LEMMA DataSame ==
  ASSUME IInv, CInv', UNCHANGED <<followups, steering, taken, owner, removed, log>>,
         lock' = lock \/ (followups = <<>> /\ steering = <<>>),
         lock' \notin Runs \/ pc'[lock'] = "releasing" => followups = <<>> /\ steering = <<>>,
         life' \in {"open", "closing", "closed"} => life \in {"open", "closing", "closed"},
         \A r \in Runs : pc'[r] \in {"idle", "waiting"} => pc[r] \in {"idle", "waiting"},
         \A r \in Runs : pc'[r] \in Intact => pc[r] \in Intact \union {"waiting"},
         \A r \in Runs : pc'[r] \in Before => pc[r] \in Before,
         \A r \in Runs : ended'[r] =>
           ended[r] \/ \A i \in Inputs : owner[i] = r => Used(i)
  PROVE  DInv'
<1>0. \A i \in Inputs : owner[i] # None => owner[i] \in Runs
  BY DEF IInv, DInv, DataTypes
<1>1. DataTypes' /\ InputStaysInItsRun'
  BY DEF IInv, DInv, DataTypes, InputStaysInItsRun
<1>2. PendingInv'
  BY DEF IInv, DInv, PendingInv
<1>3. OwnedInv'
  BY <1>0 DEF IInv, DInv, OwnedInv
<1>4. TakenInv'
  BY DEF IInv, DInv, TakenInv, Before
<1>5. KeptInv'
  BY <1>0 DEF IInv, DInv, KeptInv, OwnedInv, Used
<1>6. EndUsed'
  BY <1>0 DEF IInv, DInv, EndUsed, Used
<1> QED BY <1>1, <1>2, <1>3, <1>4, <1>5, <1>6 DEF DInv

LEMMA LockData ==
  ASSUME IInv, CInv', NEW c \in Callers,
         \/ c \in Runs /\ (Send(c) \/ EnterRun(c))
         \/ c \in Notes /\ (Notify(c) \/ EnterNote(c))
         \/ Release(c)
  PROVE  DInv'
<1>0. /\ pc \in [Callers -> Holding \union {"idle", "waiting", "done"}] /\ None \notin Callers
      /\ \A d \in Callers : pc[d] \in Holding <=> lock = d
      /\ Runs \intersect Notes = {}
  BY TurnsAssumption DEF IInv, CInv, CtlTypes, LockInv
<1>1. UNCHANGED <<life, followups, steering, taken, owner, removed, log, ended>>
  BY DEF Send, EnterRun, Notify, EnterNote, Release
<1>2. CASE c \in Runs /\ Send(c)
  <2>1. lock' = lock /\ pc[c] = "idle" /\ \A d \in Callers : pc'[d] = IF d = c THEN "waiting" ELSE pc[d]
    BY <1>0, <1>2 DEF Send
  <2>2. lock # c
    BY <1>0, <2>1
  <2> QED BY <1>0, <1>1, <2>1, <2>2, DataSame DEF IInv, DInv, PendingInv, Before
<1>3. CASE c \in Runs /\ EnterRun(c)
  <2>1. /\ lock = None /\ pc[c] = "waiting" /\ lock' = c
        /\ \A d \in Callers : pc'[d] = IF d = c THEN "prologue" ELSE pc[d]
    BY <1>0, <1>3 DEF EnterRun
  <2>2. followups = <<>> /\ steering = <<>>
    BY <1>0, <2>1 DEF IInv, DInv, PendingInv
  <2> QED BY <1>0, <1>1, <2>1, <2>2, DataSame DEF Before
<1>4. CASE c \in Notes /\ (Notify(c) \/ EnterNote(c))
  <2>1. /\ lock' = lock \/ (lock = None /\ lock' = c)
        /\ \A r \in Runs : pc'[r] = pc[r]
    BY <1>0, <1>4 DEF Notify, EnterNote
  <2>2. lock' # lock => followups = <<>> /\ steering = <<>>
    BY <1>0, <2>1 DEF IInv, DInv, PendingInv
  <2>3. lock' \notin Runs \/ pc'[lock'] = "releasing" => followups = <<>> /\ steering = <<>>
    BY <1>0, <2>1, <2>2 DEF IInv, DInv, PendingInv
  <2> QED BY <1>1, <2>1, <2>2, <2>3, DataSame
<1>5. CASE Release(c)
  <2>1. /\ pc[c] = "releasing" /\ lock = c /\ lock' = None
        /\ \A d \in Callers : pc'[d] = IF d = c THEN "done" ELSE pc[d]
    BY <1>0, <1>5 DEF Release
  <2>2. followups = <<>> /\ steering = <<>>
    BY <2>1 DEF IInv, DInv, PendingInv
  <2> QED BY <1>0, <1>1, <2>1, <2>2, DataSame DEF Before
<1> QED BY <1>2, <1>3, <1>4, <1>5

\* The steps of a turn, and those that end it, move no input.
LEMMA TurnData ==
  ASSUME IInv, CInv', NEW c \in Callers,
         \/ Check(c) \/ ClearAbort(c) \/ QueryEnds(c) \/ WatchAbort(c) \/ Unwind(c)
         \/ c \in Runs /\ (Blocked(c) \/ Fails(c) \/ Ends(c) \/ CloseStream(c))
         \/ c \in Notes /\ NoteEnds(c)
         \/ CancelTask(c)
  PROVE  DInv'
<1>0. /\ pc \in [Callers -> Holding \union {"idle", "waiting", "done"}] /\ None \notin Callers
      /\ \A d \in Callers : pc[d] \in Holding <=> lock = d
      /\ query[c] = "streaming" => pc[c] = "query"
      /\ query[c] = "unwinding" => pc[c] \in {"query", "cancelling", "leaving"}
  BY TurnsAssumption DEF IInv, CInv, CtlTypes, LockInv, QueryInv, Alive
<1>1. UNCHANGED <<life, lock, followups, steering, taken, owner, removed, log>>
  BY DEF Check, ClearAbort, QueryEnds, WatchAbort, Unwind, Blocked, Fails, Ends, CloseStream,
         NoteEnds, CancelTask
<1>2. /\ \A d \in Callers : d # c => pc'[d] = pc[d]
      /\ \/ pc'[c] = pc[c]
         \/ pc[c] = "waiting" /\ pc'[c] = "done"
         \/ pc[c] \in Active /\ pc'[c] \in {"cancelling", "leaving"}
         \/ pc[c] \in Active /\ pc'[c] = "releasing" /\ c \notin Runs
         \/ pc[c] = "prologue" /\ pc'[c] = "peer"
         \/ pc[c] = "peer" /\ pc'[c] = "prepare"
         \/ pc[c] \in {"prepare", "query"} /\ pc'[c] = "terminal"
  BY <1>0 DEF Check, ClearAbort, QueryEnds, WatchAbort, Unwind, Blocked, Fails, Ends, CloseStream,
         NoteEnds, CancelTask, Leave
<1>3. \A r \in Runs : ended'[r] => ended[r] \/ \A i \in Inputs : owner[i] = r => Used(i)
  <2>1. CASE ended' = ended
    BY <2>1
  <2>2. CASE c \in Runs /\ Ends(c)
    <3>1. /\ \A r \in Runs : r # c => ended'[r] = ended[r]
          /\ pc[c] = "terminal" /\ ~abort /\ steering = <<>> /\ followups = <<>>
      BY <2>2 DEF Ends, IInv, CInv, CtlTypes
    <3>2. life \in {"open", "closing"} /\ taken[c] = <<>>
      BY <2>2, <3>1 DEF IInv, CInv, CtlTypes, AbortInv, DInv, TakenInv
    <3>3. \A i \in Inputs : owner[i] = c => Used(i)
      BY <1>0, <3>1, <3>2 DEF IInv, DInv, KeptInv
    <3> QED BY <3>1, <3>3
  <2> QED BY <2>1, <2>2 DEF Check, ClearAbort, QueryEnds, WatchAbort, Unwind, Blocked, Fails,
                CloseStream, NoteEnds, CancelTask
<1>4. lock \notin Runs \/ pc'[lock] = "releasing" => followups = <<>> /\ steering = <<>>
  BY <1>0, <1>2 DEF IInv, DInv, PendingInv, CInv, CtlTypes
<1>5. \A r \in Runs : /\ pc'[r] \in {"idle", "waiting"} => pc[r] \in {"idle", "waiting"}
                      /\ pc'[r] \in Intact => pc[r] \in Intact \union {"waiting"}
                      /\ pc'[r] \in Before => pc[r] \in Before
  BY <1>2 DEF Before
<1> QED BY <1>1, <1>3, <1>4, <1>5, DataSame

LEMMA SessionData ==
  ASSUME IInv, CInv', Interrupt \/ Close \/ CloseBegins \/ Teardown
  PROVE  DInv'
<1>1. UNCHANGED <<lock, pc, followups, steering, taken, owner, removed, log, ended>>
  BY DEF Interrupt, Close, CloseBegins, Teardown
<1>2. life' \in {"open", "closing", "closed"} => life \in {"open", "closing", "closed"}
  BY DEF Interrupt, Close, CloseBegins, Teardown
<1> QED BY <1>1, <1>2, DataSame DEF IInv, DInv, PendingInv

\* Accepting an input puts it at the end of one queue.
LEMMA AcceptData ==
  ASSUME IInv, CInv', NEW i \in Inputs, SteerMessage(i) \/ QueueMessage(i)
  PROVE  DInv'
<1>0. /\ lock \in Runs /\ pc[lock] \in Active /\ owner[i] = None /\ None \notin Runs
      /\ owner' = [owner EXCEPT ![i] = lock]
      /\ owner \in [Inputs -> Runs \union {None}]
      /\ UNCHANGED <<life, lock, pc, taken, removed, log, ended>>
  BY TurnsAssumption DEF SteerMessage, QueueMessage, IInv, CInv, LockInv, DInv, DataTypes, Fresh
<1>1. \A j \in Inputs : owner'[j] = IF j = i THEN lock ELSE owner[j]
  BY <1>0
<1>2. /\ steering \in Seq(Inputs) /\ followups \in Seq(Inputs) /\ Limit \in Nat
      /\ Len(steering) \in Nat /\ Len(followups) \in Nat
      /\ Len(steering) <= Limit /\ Len(followups) <= Limit
  BY TurnsAssumption DEF IInv, DInv, DataTypes, Seqs
<1>3. \/ /\ steering' = Append(steering, i) /\ Len(steering) < Limit /\ followups' = followups
      \/ /\ followups' = Append(followups, i) /\ Len(followups) < Limit /\ steering' = steering
  BY DEF SteerMessage, QueueMessage
<1>4. /\ steering' \in Seqs /\ Len(steering') <= Limit
      /\ followups' \in Seqs /\ Len(followups') <= Limit
      /\ \A k \in DOMAIN steering' : steering'[k] = i \/ \E j \in DOMAIN steering : steering'[k] = steering[j]
      /\ \A k \in DOMAIN followups' : followups'[k] = i \/ \E j \in DOMAIN followups : followups'[k] = followups[j]
      /\ \A j \in DOMAIN steering : \E k \in DOMAIN steering' : steering'[k] = steering[j]
      /\ \A j \in DOMAIN followups : \E k \in DOMAIN followups' : followups'[k] = followups[j]
      /\ (\E k \in DOMAIN steering' : steering'[k] = i) \/ (\E k \in DOMAIN followups' : followups'[k] = i)
  <2>1. CASE /\ steering' = Append(steering, i) /\ Len(steering) < Limit /\ followups' = followups
    <3>0. steering \in Seq(Inputs) /\ Len(steering) \in Nat /\ steering' = Append(steering, i)
      BY <1>2, <2>1
    <3>1. steering' \in Seq(Inputs) /\ Len(steering') = Len(steering) + 1
      BY <3>0
    <3>2. /\ \A k \in DOMAIN steering' : steering'[k] = i \/ \E j \in DOMAIN steering : steering'[k] = steering[j]
          /\ \A j \in DOMAIN steering : \E k \in DOMAIN steering' : steering'[k] = steering[j]
          /\ \E k \in DOMAIN steering' : steering'[k] = i
      BY <3>0
    <3>3. Len(steering') <= Limit
      BY <1>2, <2>1, <3>1
    <3> QED BY <1>2, <2>1, <3>1, <3>2, <3>3 DEF Seqs
  <2>2. CASE /\ followups' = Append(followups, i) /\ Len(followups) < Limit /\ steering' = steering
    <3>0. followups \in Seq(Inputs) /\ Len(followups) \in Nat /\ followups' = Append(followups, i)
      BY <1>2, <2>2
    <3>1. followups' \in Seq(Inputs) /\ Len(followups') = Len(followups) + 1
      BY <3>0
    <3>2. /\ \A k \in DOMAIN followups' : followups'[k] = i \/ \E j \in DOMAIN followups : followups'[k] = followups[j]
          /\ \A j \in DOMAIN followups : \E k \in DOMAIN followups' : followups'[k] = followups[j]
          /\ \E k \in DOMAIN followups' : followups'[k] = i
      BY <3>0
    <3>3. Len(followups') <= Limit
      BY <1>2, <2>2, <3>1
    <3> QED BY <1>2, <2>2, <3>1, <3>2, <3>3 DEF Seqs
  <2> QED BY <1>3, <2>1, <2>2
<1>5. /\ \A k \in DOMAIN steering : steering[k] \in Inputs
      /\ \A k \in DOMAIN followups : followups[k] \in Inputs
      /\ \A r \in Runs : \A k \in DOMAIN taken[r] : taken[r][k] \in Inputs
      /\ \A k \in DOMAIN log : log[k].input \in Inputs /\ log[k].by \in Callers
  <2>1. \A r \in Runs : taken[r] \in Seq(Inputs)
    BY DEF IInv, DInv, DataTypes, Seqs
  <2>2. \A k \in DOMAIN log : log[k] \in LogEntry
    BY DEF IInv, DInv, DataTypes
  <2> QED BY <1>2, <2>1, <2>2 DEF LogEntry
<1>6. DataTypes'
  BY <1>0, <1>4 DEF IInv, DInv, DataTypes
<1>7. PendingInv' /\ OwnedInv'
  BY <1>0, <1>1, <1>4, <1>5 DEF IInv, DInv, PendingInv, OwnedInv
<1>8. TakenInv'
  BY <1>0, <1>1, <1>5 DEF IInv, DInv, TakenInv
<1>9. KeptInv'
  BY <1>0, <1>1, <1>4 DEF IInv, DInv, KeptInv, Used
<1>10. EndUsed'
  <2>1. ~ended[lock]
    BY <1>0 DEF IInv, CInv, EndedInv
  <2> QED BY <1>0, <1>1, <2>1 DEF IInv, DInv, EndUsed, Used
<1>11. InputStaysInItsRun'
  BY <1>0, <1>1, <1>5, TurnsAssumption DEF IInv, DInv, InputStaysInItsRun
<1> QED BY <1>6, <1>7, <1>8, <1>9, <1>10, <1>11 DEF DInv

\* Removing and promoting take one input out of the follow-ups.
LEMMA EditData ==
  ASSUME IInv, CInv', NEW k \in DOMAIN followups, RemoveQueued(k) \/ PromoteQueued(k)
  PROVE  DInv'
<1>0. /\ lock \in Runs /\ pc[lock] \in Active
      /\ followups' = Without(followups, k) /\ followups[k] \in Inputs
      /\ UNCHANGED <<life, lock, pc, taken, owner, log, ended>>
  BY DEF RemoveQueued, PromoteQueued, IInv, CInv, LockInv, DInv, DataTypes, Seqs
<1>1. /\ followups' \in Seqs /\ Len(followups') <= Len(followups)
      /\ \A j \in DOMAIN followups' : \E m \in DOMAIN followups : followups'[j] = followups[m]
      /\ \A m \in DOMAIN followups : m # k => \E j \in DOMAIN followups' : followups'[j] = followups[m]
  BY <1>0, WithoutFacts DEF IInv, DInv, DataTypes, Seqs
<1>2. /\ steering' \in Seqs /\ Len(steering') <= Limit /\ removed' \subseteq Inputs
      /\ \A j \in DOMAIN steering' : \/ steering'[j] = followups[k]
                                     \/ \E m \in DOMAIN steering : steering'[j] = steering[m]
      /\ \A m \in DOMAIN steering : \E j \in DOMAIN steering' : steering'[j] = steering[m]
      /\ removed \subseteq removed'
      /\ followups[k] \in removed' \/ \E j \in DOMAIN steering' : steering'[j] = followups[k]
  <2>1. CASE RemoveQueued(k)
    BY <1>0, <2>1 DEF RemoveQueued, IInv, DInv, DataTypes
  <2>2. CASE PromoteQueued(k)
    <3>1. Len(steering) \in Nat /\ Limit \in Nat /\ steering \in Seq(Inputs) /\ Len(steering) < Limit
          /\ steering' = Append(steering, followups[k]) /\ removed' = removed
      BY <2>2, TurnsAssumption DEF PromoteQueued, IInv, DInv, DataTypes, Seqs
    <3>2. steering' \in Seq(Inputs) /\ Len(steering') = Len(steering) + 1
      BY <1>0, <3>1
    <3>3. /\ \A j \in DOMAIN steering' : \/ steering'[j] = followups[k]
                                         \/ \E m \in DOMAIN steering : steering'[j] = steering[m]
          /\ \A m \in DOMAIN steering : \E j \in DOMAIN steering' : steering'[j] = steering[m]
          /\ \E j \in DOMAIN steering' : steering'[j] = followups[k]
      BY <1>0, <3>1
    <3> QED BY <3>1, <3>2, <3>3 DEF IInv, DInv, DataTypes, Seqs
  <2> QED BY <2>1, <2>2
<1>3. Len(followups') <= Limit
  <2>1. Len(followups) \in Nat /\ Len(followups') \in Nat /\ Limit \in Nat /\ Len(followups) <= Limit
    BY <1>1, TurnsAssumption DEF IInv, DInv, DataTypes, Seqs
  <2> QED BY <1>1, <2>1
<1>4. DataTypes'
  BY <1>0, <1>1, <1>2, <1>3 DEF IInv, DInv, DataTypes
<1>5. PendingInv' /\ OwnedInv' /\ TakenInv' /\ InputStaysInItsRun'
  BY <1>0, <1>1, <1>2
  DEF IInv, DInv, PendingInv, OwnedInv, TakenInv, InputStaysInItsRun
<1>6. \A i \in Inputs : Used(i) => Used(i)'
  BY <1>0, <1>2 DEF Used
<1>7. KeptInv'
  BY <1>0, <1>1, <1>2, <1>6 DEF IInv, DInv, KeptInv, Used
<1>8. EndUsed'
  BY <1>0, <1>6 DEF IInv, DInv, EndUsed
<1> QED BY <1>4, <1>5, <1>7, <1>8 DEF DInv

\* The queues are emptied when nobody may lose by it.
LEMMA ClearData ==
  ASSUME IInv, CInv', \/ \E r \in Runs : Settle(r)
                      \/ NewSession \/ CloseCancels
  PROVE  DInv'
<1>0. /\ followups' = <<>> /\ steering' = <<>> /\ <<>> \in Seqs /\ Len(<<>>) = 0 /\ 0 <= Limit
      /\ UNCHANGED <<lock, taken, owner, removed, log, ended>>
  BY TurnsAssumption DEF Settle, NewSession, CloseCancels, Seqs
<1>1. \A r \in Runs : pc'[r] = pc[r] \/ (pc[r] = "leaving" /\ pc'[r] = "releasing")
  BY DEF Settle, NewSession, CloseCancels, IInv, CInv, CtlTypes
<1>2. \A i \in Inputs : owner[i] # None => owner[i] \in Runs
  BY DEF IInv, DInv, DataTypes
<1>3. DataTypes' /\ PendingInv' /\ InputStaysInItsRun'
  BY <1>0 DEF IInv, DInv, DataTypes, PendingInv, InputStaysInItsRun
<1>4. OwnedInv' /\ TakenInv' /\ EndUsed'
  BY <1>0, <1>1, <1>2 DEF IInv, DInv, OwnedInv, TakenInv, EndUsed, Used
<1>5. KeptInv'
  <2>1. CASE \E r \in Runs : Settle(r)
    <3>1. PICK r \in Runs : Settle(r)
      BY <2>1
    <3>2. /\ pc[r] = "leaving" /\ lock = r /\ pc'[r] = "releasing" /\ life' = life
          /\ \A d \in Callers : d # r => pc'[d] = pc[d] /\ pc[d] \notin Holding
      BY <3>1 DEF Settle, IInv, CInv, CtlTypes, LockInv
    <3> QED BY <1>0, <1>2, <3>2 DEF KeptInv
  <2>2. CASE NewSession
    <3>1. \A d \in Callers : pc'[d] \notin Holding
      BY <2>2, TurnsAssumption DEF NewSession, IInv, CInv, LockInv
    <3> QED BY <1>0, <1>2, <3>1 DEF KeptInv
  <2>3. CASE CloseCancels
    BY <2>3 DEF CloseCancels, KeptInv
  <2> QED BY <2>1, <2>2, <2>3
<1> QED BY <1>3, <1>4, <1>5 DEF DInv

\* Guidance enters the conversation through the caller that has the turn.
LEMMA SteeringEntered ==
  ASSUME IInv, CInv', NEW c \in Callers, lock = c,
         log' = Entered(steering, c, "steering"), steering' = <<>>,
         UNCHANGED <<life, lock, followups, taken, owner, removed, ended>>,
         \A r \in Runs : pc'[r] = pc[r] \/ (pc[r] = "prepare" /\ pc'[r] = "query")
  PROVE  DInv'
<1>0. /\ steering \in Seqs /\ log \in Seq(LogEntry)
      /\ \A k \in DOMAIN steering : owner[steering[k]] = c /\ steering[k] \in Inputs
      /\ \A i \in Inputs : owner[i] # None => owner[i] \in Runs
      /\ <<>> \in Seqs /\ Len(<<>>) = 0 /\ 0 <= Limit
  BY TurnsAssumption DEF IInv, DInv, DataTypes, PendingInv, Seqs
<1>1. /\ log' \in Seq(LogEntry)
      /\ \A k \in DOMAIN log : k \in DOMAIN log' /\ log'[k] = log[k]
      /\ \A j \in DOMAIN steering : \E k \in DOMAIN log' : log'[k].input = steering[j]
      /\ \A k \in DOMAIN log' : \/ k \in DOMAIN log
                                \/ /\ log'[k].by = c
                                   /\ \E j \in DOMAIN steering : log'[k].input = steering[j]
  <2>1. Extends(Entered(steering, c, "steering"), steering, c)
    BY <1>0, EnteredFacts DEF Kinds
  <2> QED BY <2>1 DEF Extends
<1>2. DataTypes'
  BY <1>0, <1>1 DEF IInv, DInv, DataTypes
<1>3. PendingInv' /\ OwnedInv' /\ TakenInv'
  BY <1>0 DEF IInv, DInv, PendingInv, OwnedInv, TakenInv
<1>4. \A i \in Inputs : Used(i) => Used(i)'
  BY <1>1 DEF Used
<1>5. \A i \in Inputs : (\E k \in DOMAIN steering : steering[k] = i) => Used(i)'
  BY <1>1 DEF Used
<1>6. KeptInv'
  BY <1>0, <1>4, <1>5 DEF IInv, DInv, KeptInv
<1>7. EndUsed'
  BY <1>4 DEF IInv, DInv, EndUsed
<1>8. InputStaysInItsRun'
  BY <1>0, <1>1 DEF IInv, DInv, InputStaysInItsRun
<1> QED BY <1>2, <1>3, <1>6, <1>7, <1>8 DEF DInv

LEMMA QueryData ==
  ASSUME IInv, CInv', NEW c \in Callers, Start(c) \/ QueryLoops(c)
  PROVE  DInv'
<1>0. /\ pc \in [Callers -> Holding \union {"idle", "waiting", "done"}]
      /\ \A d \in Callers : pc[d] \in Holding <=> lock = d
      /\ query[c] = "streaming" => pc[c] = "query"
      /\ None \notin Callers
  BY TurnsAssumption DEF IInv, CInv, CtlTypes, LockInv, QueryInv
<1>1. CASE QueryLoops(c)
  BY <1>0, <1>1, SteeringEntered DEF QueryLoops
<1>2. CASE Start(c) /\ life = "open"
  <2>1. \A r \in Runs : pc'[r] = pc[r] \/ (pc[r] = "prepare" /\ pc'[r] = "query")
    BY <1>0, <1>2 DEF Start
  <2> QED BY <1>0, <1>2, <2>1, SteeringEntered DEF Start
<1>3. CASE Start(c) /\ life # "open"
  <2>1. /\ UNCHANGED <<life, lock, followups, steering, taken, owner, removed, log, ended>>
        /\ \A r \in Runs : pc'[r] = pc[r] \/ (pc[r] = "prepare" /\ pc'[r] = "leaving")
        /\ pc[c] = "prepare" /\ lock = c /\ (lock \in Runs => pc'[lock] = "leaving")
    BY <1>0, <1>3 DEF Start, Leave
  <2>2. lock \notin Runs \/ pc'[lock] = "releasing" => followups = <<>> /\ steering = <<>>
    BY <2>1 DEF IInv, DInv, PendingInv
  <2> QED BY <2>1, <2>2, DataSame DEF Before
<1> QED BY <1>1, <1>2, <1>3

\* Between two turns a run takes input out of one queue.
LEMMA TakeData ==
  ASSUME IInv, CInv', NEW r \in Runs, TakeSteering(r) \/ TakeFollowUp(r)
  PROVE  DInv'
<1>0. /\ pc[r] = "terminal" /\ lock = r /\ taken[r] = <<>>
      /\ \A d \in Callers : pc'[d] \in Holding \union {"idle", "waiting", "done"}
      /\ pc'[r] \in {"applying", "starting"}
      /\ \A d \in Callers : d # r => pc'[d] = pc[d]
      /\ \A d \in Callers : pc[d] \in Holding <=> lock = d
      /\ \A i \in Inputs : owner[i] # None => owner[i] \in Runs
      /\ \A q \in Runs : q # r => taken'[q] = taken[q]
      /\ UNCHANGED <<life, lock, owner, removed, log, ended>>
  BY DEF TakeSteering, TakeFollowUp, IInv, CInv, CtlTypes, LockInv, DInv, DataTypes, TakenInv
<1>1. /\ followups \in Seq(Inputs) /\ steering \in Seq(Inputs) /\ Limit \in Nat
      /\ Len(followups) <= Limit /\ Len(steering) <= Limit
      /\ <<>> \in Seq(Inputs) /\ Len(<<>>) = 0
  BY TurnsAssumption DEF IInv, DInv, DataTypes, Seqs
<1>2. /\ followups' \in Seq(Inputs) /\ Len(followups') <= Limit
      /\ steering' \in Seq(Inputs) /\ Len(steering') <= Limit
      /\ taken' \in [Runs -> Seq(Inputs)]
      /\ \A k \in DOMAIN followups' : \E j \in DOMAIN followups : followups'[k] = followups[j]
      /\ \A k \in DOMAIN steering' : \E j \in DOMAIN steering : steering'[k] = steering[j]
      /\ \A k \in DOMAIN taken'[r] : \/ \E j \in DOMAIN followups : taken'[r][k] = followups[j]
                                     \/ \E j \in DOMAIN steering : taken'[r][k] = steering[j]
      /\ \A j \in DOMAIN followups : \/ \E k \in DOMAIN followups' : followups'[k] = followups[j]
                                     \/ \E k \in DOMAIN taken'[r] : taken'[r][k] = followups[j]
      /\ \A j \in DOMAIN steering : \/ \E k \in DOMAIN steering' : steering'[k] = steering[j]
                                    \/ \E k \in DOMAIN taken'[r] : taken'[r][k] = steering[j]
  <2>1. CASE TakeSteering(r)
    <3>1. /\ taken' = [taken EXCEPT ![r] = steering] /\ taken'[r] = steering
          /\ steering' = <<>> /\ followups' = followups
      BY <2>1 DEF TakeSteering, IInv, DInv, DataTypes
    <3>2. taken' \in [Runs -> Seq(Inputs)]
      BY <1>1, <3>1 DEF IInv, DInv, DataTypes, Seqs
    <3> QED BY <1>1, <3>1, <3>2
  <2>2. CASE TakeFollowUp(r)
    <3>1. /\ taken' = [taken EXCEPT ![r] = <<Head(followups)>>] /\ taken'[r] = <<Head(followups)>>
          /\ followups' = Tail(followups) /\ followups # <<>> /\ steering' = steering
      BY <2>2 DEF TakeFollowUp, IInv, DInv, DataTypes
    <3>2. /\ Head(followups) = followups[1] /\ 1 \in DOMAIN followups /\ followups[1] \in Inputs
          /\ Len(followups) \in Nat /\ DOMAIN followups = 1..Len(followups)
          /\ Tail(followups) \in Seq(Inputs) /\ Len(Tail(followups)) = Len(followups) - 1
          /\ \A k \in 1..(Len(followups) - 1) : Tail(followups)[k] = followups[k + 1]
      BY <1>1, <3>1
    <3>3. Len(followups') <= Limit /\ DOMAIN followups' = 1..(Len(followups) - 1)
      BY <1>1, <3>1, <3>2
    <3>4. <<Head(followups)>> \in Seq(Inputs) /\ DOMAIN taken'[r] = {1} /\ taken'[r][1] = followups[1]
      BY <3>1, <3>2
    <3>5. taken' \in [Runs -> Seq(Inputs)]
      BY <3>1, <3>4 DEF IInv, DInv, DataTypes, Seqs
    <3>6. \A k \in DOMAIN followups' : k + 1 \in DOMAIN followups /\ followups'[k] = followups[k + 1]
      BY <3>1, <3>2, <3>3
    <3>7. \A j \in DOMAIN followups : \/ \E k \in DOMAIN followups' : followups'[k] = followups[j]
                                      \/ j = 1
      <4>1. SUFFICES ASSUME NEW j \in DOMAIN followups, j # 1
                     PROVE  \E k \in DOMAIN followups' : followups'[k] = followups[j]
        OBVIOUS
      <4>2. j - 1 \in DOMAIN followups' /\ (j - 1) + 1 = j
        BY <3>2, <3>3, <4>1
      <4>3. followups'[j - 1] = followups[j]
        BY <3>6, <4>2
      <4> QED BY <4>2, <4>3
    <3>8. \A k \in DOMAIN followups' : \E j \in DOMAIN followups : followups'[k] = followups[j]
      BY <3>6
    <3>9. \A k \in DOMAIN taken'[r] : \E j \in DOMAIN followups : taken'[r][k] = followups[j]
      BY <3>2, <3>4
    <3>10. \A j \in DOMAIN followups : \/ \E k \in DOMAIN followups' : followups'[k] = followups[j]
                                       \/ \E k \in DOMAIN taken'[r] : taken'[r][k] = followups[j]
      BY <3>4, <3>7
    <3> QED BY <1>1, <3>1, <3>2, <3>3, <3>5, <3>8, <3>9, <3>10
  <2> QED BY <2>1, <2>2
<1>3. /\ \A k \in DOMAIN followups : owner[followups[k]] = r
      /\ \A k \in DOMAIN steering : owner[steering[k]] = r
  BY <1>0 DEF IInv, DInv, PendingInv
<1>4. DataTypes'
  BY <1>0, <1>2 DEF IInv, DInv, DataTypes, Seqs
<1>5. PendingInv' /\ OwnedInv'
  BY <1>0, <1>2, <1>3 DEF IInv, DInv, PendingInv, OwnedInv
<1>6. TakenInv'
  <2>1. \A k \in DOMAIN taken'[r] : owner'[taken'[r][k]] = r
    BY SMTT(60), <1>0, <1>2, <1>3
  <2>2. pc'[r] \notin {"idle", "waiting", "prologue", "peer", "prepare", "query", "terminal"}
    BY <1>0
  <2>3. \A q \in Runs : q # r => taken'[q] = taken[q] /\ pc'[q] = pc[q]
    BY <1>0
  <2> QED BY <1>0, <2>1, <2>2, <2>3 DEF IInv, DInv, TakenInv
<1>7. KeptInv'
  <2>0. SUFFICES ASSUME NEW i \in Inputs, owner[i] # None, life \in {"open", "closing", "closed"},
                        pc'[owner[i]] \in Intact
                 PROVE  \/ Used(i)'
                        \/ \E k \in DOMAIN followups' : followups'[k] = i
                        \/ \E k \in DOMAIN steering' : steering'[k] = i
                        \/ \E k \in DOMAIN taken'[owner[i]] : taken'[owner[i]][k] = i
    BY <1>0 DEF KeptInv
  <2>1. Used(i) => Used(i)'
    BY <1>0 DEF Used
  <2>2. owner[i] = r
    BY <1>0, <2>0
  <2>3. \/ Used(i)
        \/ \E k \in DOMAIN followups : followups[k] = i
        \/ \E k \in DOMAIN steering : steering[k] = i
    BY <1>0, <2>0, <2>2 DEF IInv, DInv, KeptInv
  <2>4. CASE \E k \in DOMAIN followups : followups[k] = i
    <3>1. PICK j \in DOMAIN followups : followups[j] = i
      BY <2>4
    <3>2. \/ \E k \in DOMAIN followups' : followups'[k] = followups[j]
          \/ \E k \in DOMAIN taken'[r] : taken'[r][k] = followups[j]
      BY <1>2
    <3> QED BY <2>2, <3>1, <3>2
  <2>5. CASE \E k \in DOMAIN steering : steering[k] = i
    <3>1. PICK j \in DOMAIN steering : steering[j] = i
      BY <2>5
    <3>2. \/ \E k \in DOMAIN steering' : steering'[k] = steering[j]
          \/ \E k \in DOMAIN taken'[r] : taken'[r][k] = steering[j]
      BY <1>2
    <3> QED BY <2>2, <3>1, <3>2
  <2> QED BY <2>1, <2>3, <2>4, <2>5
<1>8. EndUsed' /\ InputStaysInItsRun'
  BY <1>0 DEF IInv, DInv, EndUsed, Used, InputStaysInItsRun
<1> QED BY <1>4, <1>5, <1>6, <1>7, <1>8 DEF DInv

\* What a run has taken enters the conversation, or goes with the run.
LEMMA GiveData ==
  ASSUME IInv, CInv', NEW r \in Runs, ApplySteering(r) \/ StartFollowUp(r)
  PROVE  DInv'
<1>0. /\ pc[r] \in {"applying", "starting"} /\ lock = r /\ ~ended[r]
      /\ pc'[r] \in {"prologue", "leaving"} /\ taken'[r] = <<>>
      /\ \A d \in Callers : d # r => pc'[d] = pc[d]
      /\ \A q \in Runs : q # r => taken'[q] = taken[q]
      /\ \A i \in Inputs : owner[i] # None => owner[i] \in Runs
      /\ UNCHANGED <<life, lock, followups, steering, owner, removed, ended>>
  <2>1. /\ pc \in [Callers -> Holding \union {"idle", "waiting", "done"}]
        /\ taken \in [Runs -> Seqs] /\ owner \in [Inputs -> Runs \union {None}]
        /\ \A d \in Callers : pc[d] \in Holding <=> lock = d
        /\ \A q \in Runs : ended[q] => pc[q] \in {"leaving", "releasing", "done"}
    BY DEF IInv, CInv, CtlTypes, LockInv, EndedInv, DInv, DataTypes
  <2>2. /\ pc[r] \in {"applying", "starting"} /\ pc'[r] \in {"prologue", "leaving"}
        /\ \A d \in Callers : d # r => pc'[d] = pc[d]
    BY <2>1 DEF ApplySteering, StartFollowUp, Leave
  <2>3. /\ taken' = [taken EXCEPT ![r] = <<>>]
        /\ UNCHANGED <<life, lock, followups, steering, owner, removed, ended>>
    BY DEF ApplySteering, StartFollowUp
  <2> QED BY <2>1, <2>2, <2>3
<1>1. taken' \in [Runs -> Seqs] /\ taken[r] \in Seqs /\ log \in Seq(LogEntry)
  <2>1. <<>> \in Seqs
    BY DEF Seqs
  <2> QED BY <2>1 DEF ApplySteering, StartFollowUp, IInv, DInv, DataTypes
<1>2. /\ log' \in Seq(LogEntry)
      /\ \A k \in DOMAIN log : k \in DOMAIN log' /\ log'[k] = log[k]
      /\ \A k \in DOMAIN log' : \/ k \in DOMAIN log
                                \/ /\ log'[k].by = r
                                   /\ \E j \in DOMAIN taken[r] : log'[k].input = taken[r][j]
      /\ \/ pc'[r] = "leaving"
         \/ \A j \in DOMAIN taken[r] : \E k \in DOMAIN log' : log'[k].input = taken[r][j]
  <2>1. CASE log' = log /\ pc'[r] = "leaving"
    BY <1>1, <2>1
  <2>2. ASSUME NEW kind \in Kinds, log' = Entered(taken[r], r, kind)
        PROVE  /\ log' \in Seq(LogEntry)
               /\ \A k \in DOMAIN log : k \in DOMAIN log' /\ log'[k] = log[k]
               /\ \A k \in DOMAIN log' : \/ k \in DOMAIN log
                                         \/ /\ log'[k].by = r
                                            /\ \E j \in DOMAIN taken[r] : log'[k].input = taken[r][j]
               /\ \A j \in DOMAIN taken[r] : \E k \in DOMAIN log' : log'[k].input = taken[r][j]
    <3>1. Extends(Entered(taken[r], r, kind), taken[r], r)
      BY <1>1, <2>2, EnteredFacts
    <3> QED BY <2>2, <3>1 DEF Extends
  <2>3. (log' = log /\ pc'[r] = "leaving") \/ \E kind \in Kinds : log' = Entered(taken[r], r, kind)
    BY DEF ApplySteering, StartFollowUp, Leave, IInv, CInv, CtlTypes, Kinds
  <2> QED BY <2>1, <2>2, <2>3
<1>3. DataTypes'
  BY <1>0, <1>1, <1>2 DEF IInv, DInv, DataTypes
<1>4. PendingInv' /\ OwnedInv'
  BY <1>0 DEF IInv, DInv, PendingInv, OwnedInv
<1>5. TakenInv'
  BY <1>0 DEF IInv, DInv, TakenInv
<1>6. \A i \in Inputs : Used(i) => Used(i)'
  BY <1>0, <1>2 DEF Used
<1>7. pc'[r] = "prologue" =>
        \A i \in Inputs : (\E k \in DOMAIN taken[r] : taken[r][k] = i) => Used(i)'
  BY <1>2 DEF Used
<1>8. KeptInv'
  BY <1>0, <1>6, <1>7 DEF IInv, DInv, KeptInv
<1>9. EndUsed'
  BY <1>0, <1>6 DEF IInv, DInv, EndUsed
<1>10. InputStaysInItsRun'
  <2>1. \A k \in DOMAIN taken[r] : owner[taken[r][k]] = r
    BY DEF IInv, DInv, TakenInv
  <2> QED BY <1>0, <1>2, <2>1 DEF IInv, DInv, InputStaysInItsRun
<1> QED BY <1>3, <1>4, <1>5, <1>8, <1>9, <1>10 DEF DInv
-----------------------------------------------------------------------------
(* The invariant, and what follows from it. *)

\* Every step preserves the control part.
LEMMA ControlStep == CInv /\ [Next]_vars => CInv'
<1> SUFFICES ASSUME CInv, [Next]_vars PROVE CInv'
  OBVIOUS
<1>1. CASE UNCHANGED vars
  BY <1>1, InputSteps DEF vars
<1>2. ASSUME NEW i \in Inputs, SteerMessage(i) \/ QueueMessage(i) PROVE CInv'
  BY <1>2, InputSteps DEF SteerMessage, QueueMessage
<1>3. ASSUME NEW k \in DOMAIN followups, RemoveQueued(k) \/ PromoteQueued(k) PROVE CInv'
  BY <1>3, InputSteps DEF RemoveQueued, PromoteQueued
<1>4. CASE Interrupt
  BY <1>4, OtherSteps
<1>5. ASSUME NEW r \in Runs, Send(r) \/ Blocked(r) \/ CloseStream(r) \/ CancelTask(r) PROVE CInv'
  BY <1>5, LockSteps, TurnSteps, RunSteps, OtherSteps
<1>6. ASSUME NEW n \in Notes, Notify(n) \/ CancelTask(n) PROVE CInv'
  BY <1>6, LockSteps, OtherSteps
<1>7. ASSUME NEW c \in Callers, CallerStep(c) PROVE CInv'
  <2>1. CASE Check(c) \/ ClearAbort(c) \/ Start(c)
    BY <2>1, TurnSteps
  <2>2. CASE Release(c)
    BY <2>2, LockSteps
  <2>3. CASE c \in Runs /\ (EnterRun(c) \/ Settle(c))
    BY <2>3, LockSteps
  <2>4. CASE c \in Runs /\ (Fails(c) \/ TakeSteering(c) \/ TakeFollowUp(c) \/ Ends(c)
                            \/ ApplySteering(c) \/ StartFollowUp(c))
    BY <2>4, RunSteps
  <2>5. CASE c \in Notes /\ EnterNote(c)
    BY <2>5, LockSteps
  <2>6. CASE c \in Notes /\ NoteEnds(c)
    BY <2>6, OtherSteps
  <2> QED BY <1>7, <2>1, <2>2, <2>3, <2>4, <2>5, <2>6 DEF CallerStep
<1>8. ASSUME NEW c \in Callers, QueryStep(c) \/ QueryLoops(c) \/ QueryEnds(c) PROVE CInv'
  BY <1>8, TurnSteps DEF QueryStep
<1>9. CASE NewSession \/ Close \/ CloseStep
  BY <1>9, OtherSteps DEF CloseStep
<1> QED BY <1>1, <1>2, <1>3, <1>4, <1>5, <1>6, <1>7, <1>8, <1>9 DEF Next, Input

\* Every step preserves the data part.
LEMMA DataStep == IInv /\ CInv' /\ [Next]_vars => DInv'
<1> SUFFICES ASSUME IInv, CInv', [Next]_vars PROVE DInv'
  OBVIOUS
<1>1. CASE UNCHANGED vars
  BY <1>1 DEF vars, IInv, DInv, DataTypes, PendingInv, OwnedInv, TakenInv, KeptInv, EndUsed,
              InputStaysInItsRun, Used
<1>2. ASSUME NEW i \in Inputs, SteerMessage(i) \/ QueueMessage(i) PROVE DInv'
  BY <1>2, AcceptData
<1>3. ASSUME NEW k \in DOMAIN followups, RemoveQueued(k) \/ PromoteQueued(k) PROVE DInv'
  BY <1>3, EditData
<1>4. CASE Interrupt
  BY <1>4, SessionData
<1>5. ASSUME NEW r \in Runs, Send(r) \/ Blocked(r) \/ CloseStream(r) \/ CancelTask(r) PROVE DInv'
  BY <1>5, LockData, TurnData
<1>6. ASSUME NEW n \in Notes, Notify(n) \/ CancelTask(n) PROVE DInv'
  BY <1>6, LockData, TurnData
<1>7. ASSUME NEW c \in Callers, CallerStep(c) PROVE DInv'
  <2>1. CASE Check(c) \/ ClearAbort(c)
    BY <2>1, TurnData
  <2>2. CASE Start(c)
    BY <2>2, QueryData
  <2>3. CASE Release(c)
    BY <2>3, LockData
  <2>4. CASE c \in Runs /\ EnterRun(c)
    BY <2>4, LockData
  <2>5. CASE c \in Runs /\ Settle(c)
    BY <2>5, ClearData
  <2>6. CASE c \in Runs /\ (Fails(c) \/ Ends(c))
    BY <2>6, TurnData
  <2>7. CASE c \in Runs /\ (TakeSteering(c) \/ TakeFollowUp(c))
    BY <2>7, TakeData
  <2>8. CASE c \in Runs /\ (ApplySteering(c) \/ StartFollowUp(c))
    BY <2>8, GiveData
  <2>9. CASE c \in Notes /\ EnterNote(c)
    BY <2>9, LockData
  <2>10. CASE c \in Notes /\ NoteEnds(c)
    BY <2>10, TurnData
  <2> QED BY <1>7, <2>1, <2>2, <2>3, <2>4, <2>5, <2>6, <2>7, <2>8, <2>9, <2>10 DEF CallerStep
<1>8. ASSUME NEW c \in Callers, QueryStep(c) \/ QueryLoops(c) \/ QueryEnds(c) PROVE DInv'
  BY <1>8, TurnData, QueryData DEF QueryStep
<1>9. CASE NewSession \/ Close \/ CloseStep
  BY <1>9, SessionData, ClearData DEF CloseStep
<1> QED BY <1>1, <1>2, <1>3, <1>4, <1>5, <1>6, <1>7, <1>8, <1>9 DEF Next, Input

\* The control of every turn and the place of every input, in one inductive
\* invariant of CoreSession.
THEOREM Invariance == Spec => []IInv
<1>1. Init => IInv
  BY InitCInv, InitDInv DEF IInv
<1>2. IInv /\ [Next]_vars => IInv'
  BY ControlStep, DataStep DEF IInv
<1> QED BY <1>1, <1>2, PTL DEF Spec

\* Types, and the limits _MAX_QUEUED_MESSAGES puts on the two queues.
THEOREM TypeCorrect == Spec => []TypeOK
<1>1. IInv => TypeOK
  BY DEF IInv, CInv, CtlTypes, DInv, DataTypes, TypeOK
<1> QED BY <1>1, Invariance, PTL

\* Input that one run of send_message accepted never enters the conversation
\* through another.
THEOREM InputIsOwned == Spec => []InputStaysInItsRun
<1>1. IInv => InputStaysInItsRun
  BY DEF IInv, DInv
<1> QED BY <1>1, Invariance, PTL

\* A run of send_message that ends with nothing left to do has used all the
\* input it accepted.
THEOREM NothingIsLost == Spec => []NormalEndLosesNothing
<1>1. IInv => NormalEndLosesNothing
  <2>1. SUFFICES ASSUME IInv, NEW r \in Runs, ended[r], NEW i \in Inputs, owner[i] = r
                 PROVE  i \in removed \union {log[k].input : k \in DOMAIN log}
    BY DEF NormalEndLosesNothing
  <2>2. Used(i)
    BY <2>1, TurnsAssumption DEF IInv, DInv, EndUsed
  <2> QED BY <2>2 DEF Used
<1> QED BY <1>1, Invariance, PTL

\* The producer task of a query is alive only while its caller holds the turn
\* lock.
THEOREM QueriesExclude == Spec => []OneQueryAtATime
<1>1. IInv => OneQueryAtATime
  BY DEF IInv, CInv, QueryInv, LockInv, OneQueryAtATime
<1> QED BY <1>1, Invariance, PTL

\* No query outlives close(), and none starts after it.
THEOREM TeardownIsSafe == Spec => []NoQueryAfterTeardown
<1>1. IInv => NoQueryAfterTeardown
  BY DEF IInv, CInv
<1> QED BY <1>1, Invariance, PTL

\* A background notification never starts a query in a conversation that
\* new_session began after it.
THEOREM NotificationsStay == Spec => []NotificationsKeepTheirLifecycle
<1>1. IInv => NotificationsKeepTheirLifecycle
  BY DEF IInv, CInv
<1> QED BY <1>1, Invariance, PTL

\* After an interrupt that arrives once the first query has started, a run
\* starts no other.
THEOREM InterruptsStop == Spec => InterruptsStopTheRun
<1>1. IInv /\ [Next]_vars
        => [\A r \in Runs : interrupted[r] = "late" /\ query[r] = "none" => query'[r] = "none"]_vars
  <2>1. SUFFICES ASSUME IInv, Next, NEW r \in Runs, interrupted[r] = "late", query[r] = "none"
                 PROVE  query'[r] = "none"
    OBVIOUS
  <2>2. pc[r] # "prepare" /\ query \in [Callers -> {"none", "streaming", "unwinding"}]
    BY <2>1 DEF IInv, CInv, LateInv, CtlTypes
  <2>3. CASE query' = query
    BY <2>1, <2>3
  <2>4. ASSUME NEW c \in Callers, Start(c) PROVE query'[r] = "none"
    BY <2>1, <2>2, <2>4 DEF Start
  <2>5. ASSUME NEW c \in Callers, query' = [query EXCEPT ![c] = "none"] PROVE query'[r] = "none"
    BY <2>1, <2>2, <2>5
  <2>6. ASSUME NEW c \in Callers, query' = [query EXCEPT ![c] = Cancelled(@)] PROVE query'[r] = "none"
    BY <2>1, <2>2, <2>6 DEF Cancelled
  <2>7. CASE query' = [c \in Callers |-> Cancelled(query[c])]
    BY <2>1, <2>7 DEF Cancelled
  <2>8. ASSUME NEW c \in Callers, CallerStep(c)
        PROVE  query' = query \/ Start(c)
    BY <2>8 DEF CallerStep, Check, ClearAbort, Release, EnterRun, Settle, Fails, TakeSteering,
         TakeFollowUp, Ends, ApplySteering, StartFollowUp, EnterNote, NoteEnds
  <2>9. ASSUME NEW c \in Callers, QueryStep(c) \/ QueryLoops(c) \/ QueryEnds(c)
        PROVE  \/ query' = query \/ query' = [query EXCEPT ![c] = "none"]
               \/ query' = [query EXCEPT ![c] = Cancelled(@)]
    BY <2>9 DEF QueryStep, QueryLoops, QueryEnds, WatchAbort, Unwind
  <2>10. ASSUME NEW c \in Callers, CancelTask(c) \/ CloseStream(c)
         PROVE  query' = query \/ query' = [query EXCEPT ![c] = Cancelled(@)]
    BY <2>10 DEF CancelTask, CloseStream
  <2>11. ASSUME NEW c \in Callers, Send(c) \/ Blocked(c) \/ Notify(c) PROVE query' = query
    BY <2>11 DEF Send, Blocked, Notify
  <2>12. CASE Input
    BY <2>12, <2>3 DEF Input, SteerMessage, QueueMessage, RemoveQueued, PromoteQueued, Interrupt
  <2>13. CASE NewSession \/ Close \/ CloseStep
    BY <2>13, <2>3, <2>7 DEF NewSession, Close, CloseStep, CloseBegins, CloseCancels, Teardown
  <2> QED BY <2>1, <2>3, <2>4, <2>5, <2>6, <2>8, <2>9, <2>10, <2>11, <2>12, <2>13 DEF Next
<1> QED BY <1>1, Invariance, PTL DEF Spec, InterruptsStopTheRun

\* Queries exclude each other and end before the teardown, for any number of
\* runs and notifications (_turn_scope, _close_impl).
THEOREM QueriesStaySafe == Spec => []QueriesAreSafe
BY QueriesExclude, TeardownIsSafe, PTL DEF QueriesAreSafe
-----------------------------------------------------------------------------
(* The order of the input, and that each has one place. *)

Has(s, i) == \E k \in DOMAIN s : s[k] = i
Once(s) == \A j, k \in DOMAIN s : j < k => s[j] # s[k]
Rising(s) == \A j, k \in DOMAIN s : j < k => s[j] < s[k]

Logged(l, i) == \E k \in DOMAIN l : l[k].input = i
OnceLogged(l) == \A j, k \in DOMAIN l : j < k => l[j].input # l[k].input
FollowUps(l) == {k \in DOMAIN l : l[k].kind = "follow-up"}
RisingLogged(l) == \A j, k \in FollowUps(l) : j < k => l[j].input < l[k].input
After(l, i) == \A k \in FollowUps(l) : l[k].input < i

\* An input waits in one queue, or is in one run's hand, or has been entered,
\* or was taken back; and nowhere twice.
InOnePlace(f, s, t, l, x) ==
  /\ Once(f) /\ Once(s) /\ \A r \in Runs : Once(t[r])
  /\ OnceLogged(l)
  /\ \A i \in Inputs :
       /\ Has(f, i) => ~Has(s, i)
       /\ Has(f, i) \/ Has(s, i) => \A r \in Runs : ~Has(t[r], i)
       /\ Has(f, i) \/ Has(s, i) \/ (\E r \in Runs : Has(t[r], i)) => ~Logged(l, i) /\ i \notin x
       /\ Logged(l, i) => i \notin x

\* Pending follow-ups are in the order of their arrival, which is later than
\* that of every follow-up already used.
InOrder(f, l) ==
  /\ Rising(f) /\ RisingLogged(l)
  /\ \A i \in Inputs : Has(f, i) => After(l, i)

\* The follow-up t that a run announces is next.
NextUp(f, l, t) ==
  /\ \E i \in Inputs : t = <<i>>
  /\ \A i \in Inputs : Has(t, i) => After(l, i) /\ \A j \in Inputs : Has(f, j) => i < j

\* Inputs are numbered as they are accepted.
Numbered(o, x) ==
  /\ \A i \in x : o[i] # None
  /\ \A i, j \in Inputs : j < i /\ o[i] # None => o[j] # None

OInv ==
  /\ InOnePlace(followups, steering, taken, log, removed)
  /\ InOrder(followups, log)
  /\ \A r \in Runs : pc[r] = "starting" => NextUp(followups, log, taken[r])
  /\ Numbered(owner, removed)

LEMMA InitOInv == Init => OInv
<1> SUFFICES ASSUME Init PROVE OInv
  OBVIOUS
<1>1. DOMAIN <<>> = {} /\ followups = <<>> /\ steering = <<>> /\ log = <<>> /\ removed = {}
      /\ \A r \in Runs : taken[r] = <<>>
  BY DEF Init
<1>2. InOnePlace(followups, steering, taken, log, removed)
  BY <1>1 DEF InOnePlace, Once, OnceLogged, Has, Logged
<1>3. InOrder(followups, log)
  BY <1>1 DEF InOrder, Rising, RisingLogged, Has, FollowUps
<1>4. Numbered(owner, removed) /\ \A r \in Runs : pc[r] # "starting"
  BY DEF Init, Numbered
<1> QED BY <1>2, <1>3, <1>4 DEF OInv

\* One more at the end.
LEMMA AppendOrder ==
  ASSUME NEW S, NEW s \in Seq(S), NEW i \in S, Once(s), ~Has(s, i)
  PROVE  /\ Once(Append(s, i))
         /\ \A j : Has(Append(s, i), j) <=> Has(s, j) \/ j = i
         /\ Rising(s) /\ (\A j \in S : Has(s, j) => j < i) => Rising(Append(s, i))
<1> DEFINE t == Append(s, i)
<1>1. /\ Len(s) \in Nat /\ DOMAIN s = 1..Len(s) /\ DOMAIN t = 1..(Len(s) + 1)
      /\ \A k \in 1..Len(s) : t[k] = s[k] /\ s[k] \in S
      /\ t[Len(s) + 1] = i
  OBVIOUS
<1> HIDE DEF t
<1>2. Once(t)
  BY <1>1 DEF Once, Has
<1>3. \A j : Has(t, j) <=> Has(s, j) \/ j = i
  <2>1. ASSUME NEW j, Has(t, j) PROVE Has(s, j) \/ j = i
    BY <1>1, <2>1 DEF Has
  <2>2. ASSUME NEW j, Has(s, j) PROVE Has(t, j)
    BY <1>1, <2>2 DEF Has
  <2>3. Has(t, i)
    BY <1>1 DEF Has
  <2> QED BY <2>1, <2>2, <2>3
<1>4. ASSUME Rising(s), \A j \in S : Has(s, j) => j < i PROVE Rising(t)
  BY <1>1, <1>4 DEF Rising, Has
<1> QED BY <1>2, <1>3, <1>4 DEF t

\* One less.
LEMMA WithoutOrder ==
  ASSUME NEW S, NEW s \in Seq(S), NEW k \in DOMAIN s, Once(s)
  PROVE  /\ Once(Without(s, k))
         /\ \A j : Has(Without(s, k), j) <=> Has(s, j) /\ j # s[k]
         /\ Rising(s) => Rising(Without(s, k))
<1> DEFINE w == Without(s, k)
<1>1. /\ Len(s) \in Nat /\ DOMAIN s = 1..Len(s) /\ k \in 1..Len(s)
      /\ DOMAIN w = 1..(Len(s) - 1)
      /\ \A j \in 1..(Len(s) - 1) : w[j] = IF j < k THEN s[j] ELSE s[j + 1]
  BY DEF Without
<1> DEFINE from(j) == IF j < k THEN j ELSE j + 1
<1>2. /\ \A j \in DOMAIN w : from(j) \in DOMAIN s /\ from(j) # k /\ w[j] = s[from(j)]
      /\ \A i, j \in DOMAIN w : i < j => from(i) < from(j)
  BY <1>1
<1>3. \A m \in DOMAIN s : m # k => \E j \in DOMAIN w : from(j) = m
  <2>1. SUFFICES ASSUME NEW m \in DOMAIN s, m # k PROVE \E j \in DOMAIN w : from(j) = m
    OBVIOUS
  <2>2. CASE m < k
    BY <1>1, <2>1, <2>2
  <2>3. CASE m > k
    <3>1. m - 1 \in DOMAIN w /\ from(m - 1) = m
      BY <1>1, <2>1, <2>3
    <3> QED BY <3>1
  <2> QED BY <1>1, <2>1, <2>2, <2>3
<1> HIDE DEF w, from
<1>4. Once(w)
  BY <1>2 DEF Once
<1>5. \A m \in DOMAIN s : m # k => s[m] # s[k]
  BY <1>1 DEF Once
<1>6. \A j : Has(w, j) <=> Has(s, j) /\ j # s[k]
  <2>1. ASSUME NEW j, Has(w, j) PROVE Has(s, j) /\ j # s[k]
    BY <1>2, <1>5, <2>1 DEF Has
  <2>2. ASSUME NEW j, Has(s, j), j # s[k] PROVE Has(w, j)
    BY <1>2, <1>3, <2>2 DEF Has
  <2> QED BY <2>1, <2>2
<1>7. Rising(s) => Rising(w)
  BY <1>2 DEF Rising
<1> QED BY <1>4, <1>6, <1>7 DEF w

\* The first one less.
LEMMA TailOrder ==
  ASSUME NEW S, NEW s \in Seq(S), s # <<>>, Once(s)
  PROVE  /\ Head(s) \in S /\ Has(s, Head(s)) /\ Once(Tail(s))
         /\ \A j : Has(Tail(s), j) <=> Has(s, j) /\ j # Head(s)
         /\ Rising(s) => Rising(Tail(s)) /\ \A j \in S : Has(Tail(s), j) => Head(s) < j
<1> DEFINE t == Tail(s)
<1>1. /\ Len(s) \in Nat /\ DOMAIN s = 1..Len(s) /\ 1 \in DOMAIN s
      /\ DOMAIN t = 1..(Len(s) - 1) /\ Head(s) = s[1] /\ s[1] \in S
      /\ \A j \in 1..(Len(s) - 1) : t[j] = s[j + 1]
  OBVIOUS
<1>2. \A j \in DOMAIN t : j + 1 \in DOMAIN s /\ j + 1 # 1 /\ 1 < j + 1 /\ t[j] = s[j + 1]
  BY <1>1
<1>3. \A m \in DOMAIN s : m # 1 => m - 1 \in DOMAIN t /\ t[m - 1] = s[m]
  BY <1>1
<1> HIDE DEF t
<1>4. Once(t)
  BY <1>1, <1>2 DEF Once
<1>5. \A m \in DOMAIN s : m # 1 => s[m] # s[1]
  BY <1>1 DEF Once
<1>6. \A j : Has(t, j) <=> Has(s, j) /\ j # s[1]
  <2>1. ASSUME NEW j, Has(t, j) PROVE Has(s, j) /\ j # s[1]
    BY <1>2, <1>5, <2>1 DEF Has
  <2>2. ASSUME NEW j, Has(s, j), j # s[1] PROVE Has(t, j)
    BY <1>3, <2>2 DEF Has
  <2> QED BY <2>1, <2>2
<1>7. ASSUME Rising(s) PROVE Rising(t) /\ \A j \in S : Has(t, j) => s[1] < j
  BY <1>1, <1>2, <1>7 DEF Rising, Has
<1> QED BY <1>1, <1>4, <1>6, <1>7 DEF t, Has

\* Entering input that was not in the conversation.
LEMMA EnteredOrder ==
  ASSUME log \in Seq(LogEntry), NEW s \in Seqs, NEW c \in Callers, NEW kind \in Kinds,
         Once(s), OnceLogged(log), \A i \in Inputs : Has(s, i) => ~Logged(log, i)
  PROVE  LET all == Entered(s, c, kind)
         IN  /\ OnceLogged(all)
             /\ \A i \in Inputs : Logged(all, i) <=> Logged(log, i) \/ Has(s, i)
             /\ kind = "steering" /\ RisingLogged(log) => RisingLogged(all)
             /\ kind = "steering" => \A i \in Inputs : After(log, i) => After(all, i)
             /\ kind = "follow-up" /\ RisingLogged(log) /\ (\E i \in Inputs : s = <<i>> /\ After(log, i))
                  => RisingLogged(all)
             /\ kind = "follow-up" => \A i \in Inputs :
                  After(log, i) /\ (\A j \in Inputs : Has(s, j) => j < i) => After(all, i)
<1> DEFINE new == [k \in DOMAIN s |-> [input |-> s[k], by |-> c, kind |-> kind]]
           all == Entered(s, c, kind)
<1>1. /\ DOMAIN s = 1..Len(s) /\ Len(s) \in Nat /\ \A j \in 1..Len(s) : s[j] \in Inputs
      /\ DOMAIN log = 1..Len(log) /\ Len(log) \in Nat
  BY DEF Seqs
<1>2. new \in [1..Len(s) -> LogEntry]
  BY <1>1 DEF LogEntry, Kinds
<1>3. new \in Seq(LogEntry) /\ Len(new) = Len(s)
  BY <1>1, <1>2
<1>4. all = log \o new
  BY DEF Entered
<1>5. \A j \in DOMAIN s : new[j].input = s[j] /\ new[j].kind = kind
  OBVIOUS
<1> HIDE DEF all
<1>a. all \in Seq(LogEntry) /\ Len(all) = Len(log) + Len(s) /\ DOMAIN all = 1..(Len(log) + Len(s))
  BY <1>1, <1>3, <1>4
<1>b. \A k \in 1..Len(log) : all[k] = log[k]
  BY <1>1, <1>3, <1>4
<1>c. \A j \in 1..Len(s) : all[Len(log) + j] = new[j]
  BY <1>1, <1>3, <1>4
<1>6. /\ DOMAIN all = 1..(Len(log) + Len(s))
      /\ \A k \in 1..Len(log) : all[k] = log[k]
      /\ \A j \in 1..Len(s) : all[Len(log) + j] = new[j]
  BY <1>a, <1>b, <1>c
<1> HIDE DEF new
<1>7. \A k \in DOMAIN all : k \in DOMAIN log \/ \E j \in DOMAIN s : k = Len(log) + j
  <2>1. SUFFICES ASSUME NEW k \in DOMAIN all, k \notin DOMAIN log
                 PROVE  \E j \in DOMAIN s : k = Len(log) + j
    OBVIOUS
  <2>2. k - Len(log) \in DOMAIN s /\ k = Len(log) + (k - Len(log))
    BY <1>1, <1>6, <2>1
  <2> QED BY <2>2
<1>8. \A j \in DOMAIN s : /\ Len(log) + j \in DOMAIN all /\ all[Len(log) + j].input = s[j]
                          /\ all[Len(log) + j].kind = kind /\ Len(log) + j \notin DOMAIN log
  BY <1>1, <1>5, <1>6
<1>9. \A k \in DOMAIN log : k \in DOMAIN all /\ all[k] = log[k] /\ log[k].input \in Inputs
  <2>1. \A k \in DOMAIN log : log[k] \in LogEntry
    OBVIOUS
  <2> QED BY <1>1, <1>6, <2>1 DEF LogEntry
<1>10. OnceLogged(all)
  <2>1. SUFFICES ASSUME NEW j \in DOMAIN all, NEW k \in DOMAIN all, j < k
                 PROVE  all[j].input # all[k].input
    BY DEF OnceLogged
  <2>2. CASE k \in DOMAIN log
    <3>1. j \in DOMAIN log
      BY <1>1, <1>6, <2>1, <2>2
    <3> QED BY <1>9, <2>1, <2>2, <3>1 DEF OnceLogged
  <2>3. ASSUME NEW m \in DOMAIN s, k = Len(log) + m PROVE all[j].input # all[k].input
    <3>1. all[k].input = s[m] /\ Has(s, s[m]) /\ s[m] \in Inputs
      BY <1>1, <1>8, <2>3 DEF Has
    <3>2. CASE j \in DOMAIN log
      BY <1>9, <3>1, <3>2 DEF Logged
    <3>3. ASSUME NEW n \in DOMAIN s, j = Len(log) + n PROVE all[j].input # all[k].input
      <4>1. n < m
        BY <1>1, <2>1, <2>3, <3>3
      <4> QED BY <1>8, <3>1, <3>3, <4>1 DEF Once
    <3> QED BY <1>7, <3>2, <3>3
  <2> QED BY <1>7, <2>2, <2>3
<1>11. \A i \in Inputs : Logged(all, i) <=> Logged(log, i) \/ Has(s, i)
  <2>1. ASSUME NEW i \in Inputs, Logged(all, i) PROVE Logged(log, i) \/ Has(s, i)
    BY <1>7, <1>8, <1>9, <2>1 DEF Logged, Has
  <2>2. ASSUME NEW i \in Inputs, Logged(log, i) PROVE Logged(all, i)
    BY <1>9, <2>2 DEF Logged
  <2>3. ASSUME NEW i \in Inputs, Has(s, i) PROVE Logged(all, i)
    BY <1>8, <2>3 DEF Logged, Has
  <2> QED BY <2>1, <2>2, <2>3
<1>12. ASSUME kind = "steering"
       PROVE  (RisingLogged(log) => RisingLogged(all)) /\ \A i \in Inputs : After(log, i) => After(all, i)
  <2>1. \A k \in FollowUps(all) : k \in FollowUps(log) /\ all[k] = log[k]
    BY <1>7, <1>8, <1>9, <1>12 DEF FollowUps
  <2> QED BY <2>1 DEF RisingLogged, After
<1>13. ASSUME kind = "follow-up", RisingLogged(log), NEW i \in Inputs, s = <<i>>, After(log, i)
       PROVE  RisingLogged(all)
  <2>1. SUFFICES ASSUME NEW j \in FollowUps(all), NEW k \in FollowUps(all), j < k
                 PROVE  all[j].input < all[k].input
    BY DEF RisingLogged
  <2>2. DOMAIN s = {1} /\ s[1] = i
    BY <1>13
  <2>3. all[Len(log) + 1].input = i
    BY <1>8, <2>2
  <2>4. CASE k \in DOMAIN log
    <3>1. j \in FollowUps(log) /\ k \in FollowUps(log)
      BY <1>1, <1>6, <1>9, <2>1, <2>4 DEF FollowUps
    <3> QED BY <1>9, <1>13, <2>1, <3>1 DEF RisingLogged, FollowUps
  <2>5. CASE k = Len(log) + 1
    <3>1. j \in FollowUps(log)
      BY <1>1, <1>6, <1>9, <2>1, <2>5 DEF FollowUps
    <3>2. log[j].input < i /\ all[j] = log[j]
      BY <1>9, <1>13, <3>1 DEF After, FollowUps
    <3> QED BY <2>3, <2>5, <3>2
  <2>6. k \in DOMAIN log \/ k = Len(log) + 1
    <3>1. k \in DOMAIN all
      BY DEF FollowUps
    <3> QED BY <1>7, <2>2, <3>1
  <2> QED BY <2>4, <2>5, <2>6
<1>14. ASSUME NEW i \in Inputs, After(log, i), \A j \in Inputs : Has(s, j) => j < i
       PROVE  After(all, i)
  <2>1. SUFFICES ASSUME NEW k \in FollowUps(all) PROVE all[k].input < i
    BY DEF After
  <2>2. CASE k \in DOMAIN log
    <3>1. k \in FollowUps(log) /\ all[k] = log[k]
      BY <1>9, <2>1, <2>2 DEF FollowUps
    <3> QED BY <1>14, <3>1 DEF After
  <2>3. ASSUME NEW j \in DOMAIN s, k = Len(log) + j PROVE all[k].input < i
    BY <1>1, <1>8, <1>14, <2>3 DEF Has
  <2>4. k \in DOMAIN all
    BY <2>1 DEF FollowUps
  <2> QED BY <1>7, <2>2, <2>3, <2>4
<1> QED BY <1>10, <1>11, <1>12, <1>13, <1>14 DEF all

\* What waits, is in hand, was entered or taken back has been accepted.
LEMMA Accepted ==
  ASSUME IInv, OInv
  PROVE  \A i \in Inputs :
           Has(followups, i) \/ Has(steering, i) \/ (\E r \in Runs : Has(taken[r], i))
             \/ Logged(log, i) \/ i \in removed => owner[i] # None
<1>0. None \notin Runs /\ None \notin Callers
  BY TurnsAssumption
<1>1. ASSUME NEW i \in Inputs, Has(followups, i) \/ Has(steering, i) PROVE owner[i] # None
  <2>1. (followups # <<>> \/ steering # <<>>) /\ owner[i] = lock
    BY <1>1 DEF Has, IInv, DInv, PendingInv
  <2>2. lock \in Runs
    BY <2>1 DEF IInv, DInv, PendingInv
  <2> QED BY <1>0, <2>1, <2>2
<1>2. ASSUME NEW i \in Inputs, NEW r \in Runs, Has(taken[r], i) PROVE owner[i] # None
  BY <1>0, <1>2 DEF Has, IInv, DInv, TakenInv
<1>3. ASSUME NEW i \in Inputs, Logged(log, i) PROVE owner[i] # None
  <2>1. \A k \in DOMAIN log : log[k].by \in Callers
    <3>1. \A k \in DOMAIN log : log[k] \in LogEntry
      BY DEF IInv, DInv, DataTypes
    <3> QED BY <3>1 DEF LogEntry
  <2> QED BY <1>0, <1>3, <2>1 DEF Logged, IInv, DInv, InputStaysInItsRun
<1>4. ASSUME NEW i \in Inputs, i \in removed PROVE owner[i] # None
  BY <1>4 DEF OInv, Numbered
<1> QED BY <1>1, <1>2, <1>3, <1>4

\* A step that may empty the queues and moves nothing else.
LEMMA OrderSame ==
  ASSUME OInv, UNCHANGED <<taken, owner, removed, log>>,
         UNCHANGED <<followups, steering>> \/ (followups' = <<>> /\ steering' = <<>>),
         \A r \in Runs : pc'[r] = "starting" => pc[r] = "starting"
  PROVE  OInv'
<1>1. \A i : Has(followups', i) => Has(followups, i)
  BY DEF Has
<1>2. \A i : Has(steering', i) => Has(steering, i)
  BY DEF Has
<1>3. (Once(followups) => Once(followups')) /\ (Once(steering) => Once(steering'))
      /\ (Rising(followups) => Rising(followups'))
  BY DEF Once, Rising
<1>4. InOnePlace(followups', steering', taken', log', removed')
  BY <1>1, <1>2, <1>3 DEF OInv, InOnePlace
<1>5. InOrder(followups', log')
  BY <1>1, <1>3 DEF OInv, InOrder
<1>6. \A r \in Runs : pc'[r] = "starting" => NextUp(followups', log', taken'[r])
  BY <1>1 DEF OInv, NextUp
<1> QED BY <1>4, <1>5, <1>6 DEF OInv

LEMMA AcceptOrder ==
  ASSUME IInv, OInv, NEW i \in Inputs, SteerMessage(i) \/ QueueMessage(i)
  PROVE  OInv'
<1>0. /\ owner[i] = None /\ \A j \in Inputs : j < i => owner[j] # None
      /\ owner' = [owner EXCEPT ![i] = lock] /\ lock \in Runs /\ None \notin Runs
      /\ owner \in [Inputs -> Runs \union {None}]
      /\ UNCHANGED <<pc, taken, removed, log>>
      /\ followups \in Seq(Inputs) /\ steering \in Seq(Inputs)
  BY TurnsAssumption DEF SteerMessage, QueueMessage, IInv, CInv, LockInv, DInv, DataTypes, Fresh, Seqs
<1>1. /\ ~Has(followups, i) /\ ~Has(steering, i) /\ \A r \in Runs : ~Has(taken[r], i)
      /\ ~Logged(log, i) /\ i \notin removed
  BY <1>0, Accepted
<1>2. \A j \in Inputs : owner[j] # None => j < i
  BY <1>0 DEF OInv, Numbered, Inputs
<1>3. \A k \in DOMAIN log : log[k].input \in Inputs /\ Logged(log, log[k].input)
  <2>1. \A k \in DOMAIN log : log[k] \in LogEntry
    BY DEF IInv, DInv, DataTypes
  <2> QED BY <2>1 DEF LogEntry, Logged
<1>4. After(log, i)
  BY <1>2, <1>3, Accepted DEF After, FollowUps
<1>5. Numbered(owner', removed')
  <2>1. \A j \in Inputs : owner'[j] = IF j = i THEN lock ELSE owner[j]
    BY <1>0
  <2>2. \A j \in removed : j \in Inputs
    BY DEF IInv, DInv, DataTypes
  <2> QED BY <1>0, <2>1, <2>2 DEF OInv, Numbered, Inputs
<1>6. CASE SteerMessage(i)
  <2>1. steering' = Append(steering, i) /\ followups' = followups
    BY <1>6 DEF SteerMessage
  <2>2. Once(steering') /\ \A j : Has(steering', j) <=> Has(steering, j) \/ j = i
    BY <1>0, <1>1, <2>1, AppendOrder DEF OInv, InOnePlace
  <2>3. InOnePlace(followups', steering', taken', log', removed')
    BY <1>0, <1>1, <2>1, <2>2 DEF OInv, InOnePlace
  <2> QED BY <1>0, <1>5, <2>1, <2>3 DEF OInv
<1>7. CASE QueueMessage(i)
  <2>1. followups' = Append(followups, i) /\ steering' = steering
    BY <1>7 DEF QueueMessage
  <2>2. /\ Once(followups') /\ \A j : Has(followups', j) <=> Has(followups, j) \/ j = i
        /\ Rising(followups) /\ (\A j \in Inputs : Has(followups, j) => j < i) => Rising(followups')
    BY <1>0, <1>1, <2>1, AppendOrder DEF OInv, InOnePlace
  <2>3. InOnePlace(followups', steering', taken', log', removed')
    BY <1>0, <1>1, <2>1, <2>2 DEF OInv, InOnePlace
  <2>4. \A j \in Inputs : Has(followups, j) => j < i
    BY <1>2, Accepted
  <2>5. InOrder(followups', log')
    BY <1>0, <1>4, <2>2, <2>4 DEF OInv, InOrder
  <2>6. \A r \in Runs : pc'[r] = "starting" => NextUp(followups', log', taken'[r])
    <3>1. SUFFICES ASSUME NEW r \in Runs, pc[r] = "starting" PROVE NextUp(followups', log', taken'[r])
      BY <1>0
    <3>2. NextUp(followups, log, taken[r])
      BY <3>1 DEF OInv
    <3>3. \A j \in Inputs : Has(taken[r], j) => j < i
      BY <1>2, Accepted
    <3> QED BY <1>0, <2>2, <3>2, <3>3 DEF NextUp
  <2> QED BY <1>0, <1>5, <2>3, <2>5, <2>6 DEF OInv
<1> QED BY <1>6, <1>7

LEMMA EditOrder ==
  ASSUME IInv, OInv, NEW k \in DOMAIN followups, RemoveQueued(k) \/ PromoteQueued(k)
  PROVE  OInv'
<1> DEFINE i == followups[k]
<1>0. /\ followups' = Without(followups, k) /\ i \in Inputs /\ Has(followups, i)
      /\ UNCHANGED <<pc, taken, owner, log>>
      /\ followups \in Seq(Inputs) /\ steering \in Seq(Inputs) /\ removed \subseteq Inputs
  BY DEF RemoveQueued, PromoteQueued, IInv, DInv, DataTypes, Seqs, Has
<1>1. /\ Once(followups') /\ \A j : Has(followups', j) <=> Has(followups, j) /\ j # i
      /\ Rising(followups')
  BY <1>0, WithoutOrder DEF OInv, InOnePlace, InOrder
<1>2. /\ ~Has(steering, i) /\ \A r \in Runs : ~Has(taken[r], i)
      /\ ~Logged(log, i) /\ i \notin removed
  BY <1>0 DEF OInv, InOnePlace
<1>3. owner[i] # None
  BY <1>0, Accepted
<1> HIDE DEF i
<1>4. InOrder(followups', log') /\ \A r \in Runs : pc'[r] = "starting" => NextUp(followups', log', taken'[r])
  BY <1>0, <1>1 DEF OInv, InOrder, NextUp
<1>5. CASE RemoveQueued(k)
  <2>1. removed' = removed \union {i} /\ steering' = steering
    BY <1>5 DEF RemoveQueued, i
  <2>2. InOnePlace(followups', steering', taken', log', removed')
    BY <1>0, <1>1, <1>2, <2>1 DEF OInv, InOnePlace
  <2>3. Numbered(owner', removed')
    BY <1>0, <1>3, <2>1 DEF OInv, Numbered
  <2> QED BY <1>4, <2>2, <2>3 DEF OInv
<1>6. CASE PromoteQueued(k)
  <2>1. steering' = Append(steering, i) /\ removed' = removed
    BY <1>6 DEF PromoteQueued, history, i
  <2>2. Once(steering') /\ \A j : Has(steering', j) <=> Has(steering, j) \/ j = i
    BY <1>0, <1>2, <2>1, AppendOrder DEF OInv, InOnePlace
  <2>3. InOnePlace(followups', steering', taken', log', removed')
    BY <1>0, <1>1, <1>2, <2>1, <2>2 DEF OInv, InOnePlace
  <2> QED BY <1>0, <1>4, <2>1, <2>3 DEF OInv
<1> QED BY <1>5, <1>6

\* Guidance enters the conversation in a query.
LEMMA QueryOrder ==
  ASSUME IInv, OInv, NEW c \in Callers, Start(c) \/ QueryLoops(c)
  PROVE  OInv'
<1>0. \A r \in Runs : pc'[r] = "starting" => pc[r] = "starting"
  BY DEF Start, QueryLoops, Leave, IInv, CInv, CtlTypes
<1>1. CASE UNCHANGED <<followups, steering, taken, owner, removed, log>>
  BY <1>0, <1>1, OrderSame
<1>2. CASE /\ log' = Entered(steering, c, "steering") /\ steering' = <<>>
           /\ UNCHANGED <<followups, taken, owner, removed>>
  <2>0. steering \in Seqs /\ log \in Seq(LogEntry) /\ "steering" \in Kinds
    BY DEF IInv, DInv, DataTypes, Kinds
  <2>1. Once(steering) /\ OnceLogged(log) /\ \A i \in Inputs : Has(steering, i) => ~Logged(log, i)
    BY DEF OInv, InOnePlace
  <2>2. /\ OnceLogged(log')
        /\ \A i \in Inputs : Logged(log', i) <=> Logged(log, i) \/ Has(steering, i)
        /\ RisingLogged(log) => RisingLogged(log')
        /\ \A i \in Inputs : After(log, i) => After(log', i)
    BY <1>2, <2>0, <2>1, EnteredOrder
  <2>3. Once(steering') /\ \A i : ~Has(steering', i)
    BY <1>2 DEF Once, Has
  <2>4. InOnePlace(followups', steering', taken', log', removed')
    BY <1>2, <2>2, <2>3 DEF OInv, InOnePlace
  <2>5. InOrder(followups', log')
    BY <1>2, <2>2 DEF OInv, InOrder
  <2>6. \A r \in Runs : pc'[r] = "starting" => NextUp(followups', log', taken'[r])
    BY <1>0, <1>2, <2>2 DEF OInv, NextUp
  <2> QED BY <1>2, <2>4, <2>5, <2>6 DEF OInv
<1> QED BY <1>1, <1>2 DEF Start, QueryLoops

\* A run takes input in its hand.
LEMMA TakeOrder ==
  ASSUME IInv, OInv, NEW r \in Runs, TakeSteering(r) \/ TakeFollowUp(r)
  PROVE  OInv'
<1>0. /\ taken \in [Runs -> Seqs] /\ taken[r] = <<>> /\ pc[r] = "terminal"
      /\ followups \in Seq(Inputs) /\ steering \in Seq(Inputs)
      /\ UNCHANGED <<owner, removed, log>>
      /\ \A q \in Runs : q # r => pc'[q] = pc[q] /\ taken'[q] = taken[q]
  BY DEF TakeSteering, TakeFollowUp, IInv, CInv, CtlTypes, DInv, DataTypes, TakenInv, Seqs
<1>1. CASE TakeSteering(r)
  <2>1. taken'[r] = steering /\ steering' = <<>> /\ followups' = followups /\ pc'[r] = "applying"
    BY <1>0, <1>1 DEF TakeSteering, IInv, CInv, CtlTypes
  <2>2. Once(steering') /\ \A i : ~Has(steering', i)
    BY <2>1 DEF Once, Has
  <2>3. \A q \in Runs : Once(taken'[q]) /\ \A i : Has(taken'[q], i) => Has(taken[q], i) \/ Has(steering, i)
    BY <1>0, <2>1 DEF OInv, InOnePlace
  <2>4. InOnePlace(followups', steering', taken', log', removed')
    BY <1>0, <2>1, <2>2, <2>3 DEF OInv, InOnePlace
  <2>5. \A q \in Runs : pc'[q] = "starting" => NextUp(followups', log', taken'[q])
    BY <1>0, <2>1 DEF OInv
  <2> QED BY <1>0, <2>1, <2>4, <2>5 DEF OInv
<1>2. CASE TakeFollowUp(r)
  <2> DEFINE i == Head(followups)
  <2>1. /\ taken'[r] = <<i>> /\ followups' = Tail(followups) /\ followups # <<>>
        /\ steering' = steering /\ pc'[r] = "starting"
    BY <1>0, <1>2 DEF TakeFollowUp, IInv, CInv, CtlTypes
  <2>2. /\ i \in Inputs /\ Has(followups, i) /\ Once(followups') /\ Rising(followups')
        /\ \A j : Has(followups', j) <=> Has(followups, j) /\ j # i
        /\ \A j \in Inputs : Has(followups', j) => i < j
    BY <1>0, <2>1, TailOrder DEF OInv, InOnePlace, InOrder
  <2> HIDE DEF i
  <2>3. Once(taken'[r]) /\ \A j : Has(taken'[r], j) <=> j = i
    BY <2>1 DEF Once, Has
  <2>4. ~Has(steering, i) /\ ~Logged(log, i) /\ i \notin removed /\ After(log, i)
    BY <2>2 DEF OInv, InOnePlace, InOrder
  <2>5. \A q \in Runs : Once(taken'[q]) /\ \A j : Has(taken'[q], j) => Has(taken[q], j) \/ j = i
    BY <1>0, <2>3 DEF OInv, InOnePlace
  <2>6. InOnePlace(followups', steering', taken', log', removed')
    BY <1>0, <2>1, <2>2, <2>4, <2>5 DEF OInv, InOnePlace
  <2>7. InOrder(followups', log')
    BY <1>0, <2>2 DEF OInv, InOrder
  <2>8. NextUp(followups', log', taken'[r])
    BY <1>0, <2>1, <2>2, <2>3, <2>4 DEF NextUp
  <2>9. \A q \in Runs : pc'[q] = "starting" => NextUp(followups', log', taken'[q])
    <3>1. SUFFICES ASSUME NEW q \in Runs, q # r, pc[q] = "starting"
                   PROVE  NextUp(followups', log', taken'[q])
      BY <1>0, <2>8
    <3>2. NextUp(followups, log, taken[q])
      BY <3>1 DEF OInv
    <3> QED BY <1>0, <2>2, <3>1, <3>2 DEF NextUp
  <2> QED BY <1>0, <2>6, <2>7, <2>9 DEF OInv
<1> QED BY <1>1, <1>2

\* What a run has in its hand enters the conversation, or is let go.
LEMMA GiveOrder ==
  ASSUME IInv, OInv, NEW r \in Runs, ApplySteering(r) \/ StartFollowUp(r)
  PROVE  OInv'
<1>0. /\ taken \in [Runs -> Seqs] /\ taken[r] \in Seqs /\ taken'[r] = <<>>
      /\ log \in Seq(LogEntry) /\ r \in Callers /\ pc'[r] # "starting"
      /\ UNCHANGED <<followups, steering, owner, removed>>
      /\ \A q \in Runs : q # r => pc'[q] = pc[q] /\ taken'[q] = taken[q]
      /\ lock = r /\ \A q \in Runs : pc[q] \in Holding => lock = q
  BY DEF ApplySteering, StartFollowUp, Leave, IInv, CInv, CtlTypes, LockInv, DInv, DataTypes
<1>1. Once(taken'[r]) /\ \A i : ~Has(taken'[r], i)
  BY <1>0 DEF Once, Has
<1>2. Once(taken[r]) /\ OnceLogged(log) /\ \A i \in Inputs : Has(taken[r], i) => ~Logged(log, i)
  BY DEF OInv, InOnePlace
<1>3. \A q \in Runs : pc'[q] # "starting"
  BY <1>0
<1>4. CASE log' = log
  <2>1. InOnePlace(followups', steering', taken', log', removed')
    BY <1>0, <1>1, <1>4 DEF OInv, InOnePlace
  <2> QED BY <1>0, <1>3, <1>4, <2>1 DEF OInv
<1>5. ASSUME NEW kind \in Kinds, log' = Entered(taken[r], r, kind),
             /\ kind = "follow-up" => NextUp(followups, log, taken[r])
      PROVE  OInv'
  <2>1. /\ OnceLogged(log')
        /\ \A i \in Inputs : Logged(log', i) <=> Logged(log, i) \/ Has(taken[r], i)
        /\ kind = "steering" /\ RisingLogged(log) => RisingLogged(log')
        /\ kind = "steering" => \A i \in Inputs : After(log, i) => After(log', i)
        /\ kind = "follow-up" /\ RisingLogged(log) /\ (\E i \in Inputs : taken[r] = <<i>> /\ After(log, i))
             => RisingLogged(log')
        /\ kind = "follow-up" => \A i \in Inputs :
             After(log, i) /\ (\A j \in Inputs : Has(taken[r], j) => j < i) => After(log', i)
    BY <1>0, <1>2, <1>5, EnteredOrder
  <2>2. \A q \in Runs : Once(taken'[q]) /\ \A i : Has(taken'[q], i) => Has(taken[q], i) /\ q # r
    BY <1>0, <1>1 DEF OInv, InOnePlace
  <2>3. \A i \in Inputs, p, q \in Runs : Has(taken[p], i) /\ Has(taken[q], i) => p = q
    BY DEF Has, IInv, DInv, TakenInv
  <2>4. InOnePlace(followups', steering', taken', log', removed')
    BY <1>0, <2>1, <2>2, <2>3 DEF OInv, InOnePlace
  <2>5. InOrder(followups', log')
    <3>1. CASE kind = "steering"
      BY <1>0, <2>1, <3>1 DEF OInv, InOrder
    <3>2. CASE kind = "follow-up"
      <4>1. /\ \E i \in Inputs : taken[r] = <<i>> /\ Has(taken[r], i) /\ After(log, i)
            /\ \A i \in Inputs : Has(taken[r], i) => \A j \in Inputs : Has(followups, j) => i < j
        BY <1>5, <3>2 DEF NextUp, Has
      <4>2. RisingLogged(log') /\ \A i \in Inputs : Has(followups, i) => After(log', i)
        BY <2>1, <3>2, <4>1 DEF OInv, InOrder
      <4> QED BY <1>0, <4>2 DEF OInv, InOrder
    <3> QED BY <3>1, <3>2 DEF Kinds
  <2> QED BY <1>0, <1>3, <2>4, <2>5 DEF OInv
<1>6. CASE ApplySteering(r)
  BY <1>5, <1>6 DEF ApplySteering, Kinds
<1>7. CASE StartFollowUp(r)
  BY <1>4, <1>5, <1>7 DEF StartFollowUp, Kinds, OInv
<1> QED BY <1>6, <1>7

\* Every step preserves the order.
LEMMA OrderStep == IInv /\ OInv /\ [Next]_vars => OInv'
<1> SUFFICES ASSUME IInv, OInv, [Next]_vars PROVE OInv'
  OBVIOUS
<1>0. pc \in [Callers -> Holding \union {"idle", "waiting", "done"}]
  BY DEF IInv, CInv, CtlTypes
<1>1. CASE UNCHANGED vars
  BY <1>1, OrderSame DEF vars
<1>2. ASSUME NEW i \in Inputs, SteerMessage(i) \/ QueueMessage(i) PROVE OInv'
  BY <1>2, AcceptOrder
<1>3. ASSUME NEW k \in DOMAIN followups, RemoveQueued(k) \/ PromoteQueued(k) PROVE OInv'
  BY <1>3, EditOrder
<1>4. CASE Interrupt
  BY <1>4, OrderSame DEF Interrupt
<1>5. ASSUME NEW c \in Callers, Send(c) \/ Blocked(c) \/ CloseStream(c) \/ CancelTask(c) \/ Notify(c)
      PROVE  OInv'
  <2>1. /\ UNCHANGED <<followups, steering, taken, owner, removed, log>>
        /\ \A r \in Runs : pc'[r] = "starting" => pc[r] = "starting"
    BY <1>0, <1>5 DEF Send, Blocked, CloseStream, CancelTask, Notify, Leave
  <2> QED BY <2>1, OrderSame
<1>6. ASSUME NEW c \in Callers, CallerStep(c) PROVE OInv'
  <2>1. CASE Check(c) \/ ClearAbort(c) \/ Release(c) \/ EnterRun(c) \/ Fails(c) \/ Ends(c)
             \/ EnterNote(c) \/ NoteEnds(c) \/ Settle(c)
    <3>1. /\ UNCHANGED <<taken, owner, removed, log>>
          /\ UNCHANGED <<followups, steering>> \/ (followups' = <<>> /\ steering' = <<>>)
      BY <2>1 DEF Check, ClearAbort, Release, EnterRun, Fails, Ends, EnterNote, NoteEnds, Settle
    <3>2. \A r \in Runs : pc'[r] = "starting" => pc[r] = "starting"
      BY <1>0, <2>1 DEF Check, ClearAbort, Release, EnterRun, Fails, Ends, EnterNote, NoteEnds, Settle, Leave
    <3> QED BY <3>1, <3>2, OrderSame
  <2>2. CASE Start(c)
    BY <2>2, QueryOrder
  <2>3. CASE c \in Runs /\ (TakeSteering(c) \/ TakeFollowUp(c))
    BY <2>3, TakeOrder
  <2>4. CASE c \in Runs /\ (ApplySteering(c) \/ StartFollowUp(c))
    BY <2>4, GiveOrder
  <2> QED BY <1>6, <2>1, <2>2, <2>3, <2>4 DEF CallerStep
<1>7. ASSUME NEW c \in Callers, QueryStep(c) \/ QueryEnds(c) PROVE OInv'
  <2>1. /\ UNCHANGED <<followups, steering, taken, owner, removed, log>>
        /\ \A r \in Runs : pc'[r] = "starting" => pc[r] = "starting"
    BY <1>0, <1>7 DEF QueryStep, WatchAbort, Unwind, QueryEnds, Leave
  <2> QED BY <2>1, OrderSame
<1>8. ASSUME NEW c \in Callers, QueryLoops(c) PROVE OInv'
  BY <1>8, QueryOrder
<1>9. CASE NewSession \/ Close \/ CloseStep
  <2>1. /\ UNCHANGED <<taken, owner, removed, log, pc>>
        /\ UNCHANGED <<followups, steering>> \/ (followups' = <<>> /\ steering' = <<>>)
    BY <1>9 DEF NewSession, Close, CloseStep, CloseBegins, CloseCancels, Teardown
  <2> QED BY <2>1, OrderSame
<1> QED BY <1>1, <1>2, <1>3, <1>4, <1>5, <1>6, <1>7, <1>8, <1>9 DEF Next, Input

\* No input is used twice and none that was taken back, whatever was promoted
\* while it was being taken; follow-ups are used in the order of their arrival.
THEOREM UsedInOrder == Spec => []InputsRunOnceInOrder
<1>1. Init => OInv
  BY InitOInv
<1>2. IInv /\ OInv /\ [Next]_vars => OInv'
  BY OrderStep
<1>3. IInv /\ OInv => InputsRunOnceInOrder
  <2>1. SUFFICES ASSUME IInv, OInv, NEW j \in DOMAIN log, NEW k \in DOMAIN log
                 PROVE  /\ log[k].input \notin removed
                        /\ j < k => /\ log[j].input # log[k].input
                                    /\ log[j].kind = "follow-up" /\ log[k].kind = "follow-up"
                                         => log[j].input < log[k].input
    BY DEF InputsRunOnceInOrder
  <2>2. log[k] \in LogEntry
    BY <2>1 DEF IInv, DInv, DataTypes
  <2>3. log[k].input \in Inputs /\ Logged(log, log[k].input)
    BY <2>1, <2>2 DEF LogEntry, Logged
  <2> QED BY <2>1, <2>3 DEF OInv, InOnePlace, InOrder, OnceLogged, RisingLogged, FollowUps
<1> QED BY <1>1, <1>2, <1>3, Invariance, PTL DEF Spec

\* What send_message accepted is used by its own run, once, in order, and not
\* lost: for any number of runs, inputs and notifications.
THEOREM InputIsUsed == Spec => []InputIsUsedOnce
BY InputIsOwned, NothingIsLost, UsedInOrder, PTL DEF InputIsUsedOnce
=============================================================================
