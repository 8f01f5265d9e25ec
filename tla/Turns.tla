-------------------------------- MODULE Turns --------------------------------
(***************************************************************************)
(* The turns of one conversation (CoreSession, core/events.py).            *)
(*                                                                         *)
(* A foreground run (send_message) holds the turn lock, executes a query,  *)
(* and goes on with the guidance ("steering") and the follow-up messages   *)
(* that were accepted meanwhile, until there are none or the run fails or  *)
(* is interrupted.  Background notifications execute one query each under  *)
(* the same lock.  Everything else can happen at any of their awaits and   *)
(* yields: input is queued, promoted or removed, the user interrupts, the  *)
(* transport cancels the task or closes the generator, the session is      *)
(* replaced or closed.                                                     *)
(*                                                                         *)
(* One action is what the event loop executes without suspension.  A query *)
(* (query_loop in its producer task) is abstracted to what it does with    *)
(* steering and to how it ends; its text, tools and compaction are left    *)
(* out, and so is the manual compaction at the end of a turn.              *)
(***************************************************************************)
EXTENDS Naturals, Sequences, FiniteSets

CONSTANTS
  Runs,       \* calls of send_message
  Notes,      \* turns started by background notifications
  MaxInputs,  \* bound: guidance and follow-up messages accepted in a behaviour
  Limit,      \* pending follow-ups, and pending guidance, at most (the code: 100)
  MaxGen,     \* bound: lifecycle generations begun by new_session
  None

Callers == Runs \union Notes
Inputs  == 1..MaxInputs

ASSUME TurnsAssumption ==
  /\ Runs \intersect Notes = {}
  /\ None \notin Callers
  /\ MaxInputs \in Nat /\ Limit \in Nat \ {0} /\ MaxGen \in Nat

VARIABLES
  life,       \* "open", "closing", "closed", "draining", "torn"
  gen,        \* _lifecycle_generation
  lock,       \* who holds _turn_lock
  accepting,  \* _foreground_turn_active and _accepts_queued_follow_ups
  abort,      \* _abort_controller
  followups,  \* _queued_follow_ups
  steering,   \* _steering_messages
  pc,         \* where each caller is suspended
  query,      \* each caller's producer task: "none", "streaming", "unwinding"
  failed,     \* its turn ended with an error or a failing reason
  taken,      \* input a run has taken from its queue and not yet used
  madeIn,     \* the lifecycle a notification was made in
  owner,      \* the run that accepted an input
  removed,    \* inputs the user took back
  log,        \* input that entered the conversation: which, by whom, as what
  interrupted,\* per run: "no", "early" (before a query), "late"
  ended       \* per run: it ended with nothing left to do

session == <<life, gen, abort>>
pending == <<accepting, followups, steering>>
turn    == <<lock, pc, query, failed, taken, madeIn>>
history == <<owner, removed, log, interrupted, ended>>
vars    == <<life, gen, lock, accepting, abort, followups, steering, pc, query,
             failed, taken, madeIn, owner, removed, log, interrupted, ended>>

Init ==
  /\ life = "open" /\ gen = 0 /\ lock = None /\ accepting = FALSE /\ abort = FALSE
  /\ followups = <<>> /\ steering = <<>>
  /\ pc = [c \in Callers |-> "idle"]
  /\ query = [c \in Callers |-> "none"]
  /\ failed = [c \in Callers |-> FALSE]
  /\ taken = [r \in Runs |-> <<>>]
  /\ madeIn = [n \in Notes |-> 0]
  /\ owner = [i \in Inputs |-> None]
  /\ removed = {} /\ log = <<>>
  /\ interrupted = [r \in Runs |-> "no"]
  /\ ended = [r \in Runs |-> FALSE]

Alive(c) == query[c] # "none"

\* The producer task is cancelled; it stays alive until it has unwound.
Cancelled(q) == IF q = "streaming" THEN "unwinding" ELSE q

\* Input enters the conversation in the given order.
Entered(inputs, c, kind) ==
  log \o [k \in DOMAIN inputs |-> [input |-> inputs[k], by |-> c, kind |-> kind]]

Goto(c, label) == pc' = [pc EXCEPT ![c] = label]
-----------------------------------------------------------------------------
(* Input from the user. *)

Fresh(i) == owner[i] = None /\ \A j \in Inputs : j < i => owner[j] # None

\* An identical guidance repeated while the first is pending is coalesced:
\* nothing changes then.
SteerMessage(i) ==
  /\ life = "open" /\ accepting /\ Len(steering) < Limit /\ Fresh(i)
  /\ steering' = Append(steering, i)
  /\ owner' = [owner EXCEPT ![i] = lock]
  /\ UNCHANGED <<session, turn, accepting, followups, removed, log, interrupted, ended>>

QueueMessage(i) ==
  /\ life = "open" /\ accepting /\ Len(followups) < Limit /\ Fresh(i)
  /\ followups' = Append(followups, i)
  /\ owner' = [owner EXCEPT ![i] = lock]
  /\ UNCHANGED <<session, turn, accepting, steering, removed, log, interrupted, ended>>

Without(s, k) == [j \in 1..(Len(s) - 1) |-> IF j < k THEN s[j] ELSE s[j + 1]]

\* update_queued_message(id, "remove" or "edit")
RemoveQueued(k) ==
  /\ life = "open" /\ accepting
  /\ followups' = Without(followups, k)
  /\ removed' = removed \union {followups[k]}
  /\ UNCHANGED <<session, turn, accepting, steering, owner, log, interrupted, ended>>

\* update_queued_message(id, "steer")
PromoteQueued(k) ==
  /\ life = "open" /\ accepting /\ ~abort /\ Len(steering) < Limit
  /\ steering' = Append(steering, followups[k])
  /\ followups' = Without(followups, k)
  /\ UNCHANGED <<session, turn, accepting, history>>

Interrupt ==
  /\ abort' = TRUE
  /\ interrupted' = [r \in Runs |->
       IF r = lock /\ pc[r] \in {"query", "terminal", "starting"} THEN "late"
       ELSE IF r = lock /\ interrupted[r] = "no"
                        /\ pc[r] \in {"prologue", "peer", "applying"} THEN "early"
       ELSE interrupted[r]]
  /\ UNCHANGED <<life, gen, pending, turn, owner, removed, log, ended>>
-----------------------------------------------------------------------------
(* The turn lock. *)

Send(r) ==
  /\ pc[r] = "idle" /\ life = "open"
  /\ Goto(r, "waiting")
  /\ UNCHANGED <<session, pending, lock, query, failed, taken, madeIn, history>>

Notify(n) ==
  /\ pc[n] = "idle" /\ life = "open"
  /\ Goto(n, "waiting")
  /\ madeIn' = [madeIn EXCEPT ![n] = gen]
  /\ UNCHANGED <<session, pending, lock, query, failed, taken, history>>

EnterRun(r) ==
  /\ pc[r] = "waiting" /\ lock = None
  /\ lock' = r /\ accepting' = TRUE
  /\ Goto(r, "prologue")
  /\ UNCHANGED <<session, followups, steering, query, failed, taken, madeIn, history>>

\* A mutant: a stale notification returns without giving the lock back.
EnterNoteLeaking(n) ==
  /\ pc[n] = "waiting" /\ lock = None
  /\ lock' = n
  /\ Goto(n, IF life \in {"open", "closing"} /\ madeIn[n] = gen THEN "prologue" ELSE "done")
  /\ UNCHANGED <<session, pending, query, failed, taken, madeIn, history>>

\* The lifecycle may have changed while the notification waited.
EnterNote(n) ==
  /\ pc[n] = "waiting" /\ lock = None
  /\ lock' = n
  /\ Goto(n, IF life \in {"open", "closing"} /\ madeIn[n] = gen
             THEN "prologue" ELSE "releasing")
  /\ UNCHANGED <<session, pending, query, failed, taken, madeIn, history>>

\* A caller's turn is over: a run stops accepting input at once, and closes
\* its stream before it gives up what is still pending.
Leave(c) ==
  IF c \in Runs THEN accepting' = FALSE /\ Goto(c, "leaving")
                ELSE accepting' = accepting /\ Goto(c, "releasing")

\* A mutant: the stream is not closed first.
SettleEarly(r) ==
  /\ pc[r] = "leaving"
  /\ followups' = <<>> /\ steering' = <<>>
  /\ Goto(r, "releasing")
  /\ UNCHANGED <<session, accepting, lock, query, failed, taken, madeIn, history>>

Settle(r) ==
  /\ pc[r] = "leaving" /\ ~Alive(r)
  /\ followups' = <<>> /\ steering' = <<>>
  /\ Goto(r, "releasing")
  /\ UNCHANGED <<session, accepting, lock, query, failed, taken, madeIn, history>>

Release(c) ==
  /\ pc[c] = "releasing"
  /\ lock' = None
  /\ Goto(c, "done")
  /\ UNCHANGED <<session, pending, query, failed, taken, madeIn, history>>
-----------------------------------------------------------------------------
(* One turn: _send_message_impl. *)

\* After initialize(); a closed session raises.
Check(c) ==
  /\ pc[c] = "prologue"
  /\ IF life = "open" THEN Goto(c, "peer") /\ UNCHANGED accepting ELSE Leave(c)
  /\ UNCHANGED <<session, followups, steering, lock, query, failed, taken, madeIn, history>>

\* After ensure_peer_runtime().
ClearAbort(c) ==
  /\ pc[c] = "peer"
  /\ abort' = FALSE
  /\ Goto(c, "prepare")
  /\ UNCHANGED <<life, gen, pending, lock, query, failed, taken, madeIn, history>>

\* A hook blocks the prompt: an ErrorEvent and no query.
Blocked(r) ==
  /\ pc[r] = "prepare" /\ life = "open"
  /\ failed' = [failed EXCEPT ![r] = TRUE]
  /\ Goto(r, "terminal")
  /\ UNCHANGED <<session, pending, lock, query, taken, madeIn, history>>

\* After the hook and the context window; the producer's first step follows
\* at once, and its loop starts by taking the pending guidance.
Start(c) ==
  /\ pc[c] = "prepare"
  /\ IF life = "open"
     THEN /\ Goto(c, "query")
          /\ query' = [query EXCEPT ![c] = "streaming"]
          /\ failed' = [failed EXCEPT ![c] = FALSE]
          /\ log' = Entered(steering, c, "steering")
          /\ steering' = <<>>
          /\ UNCHANGED accepting
     ELSE Leave(c) /\ UNCHANGED <<query, failed, log, steering>>
  /\ UNCHANGED <<session, followups, lock, taken, madeIn, owner, removed, interrupted, ended>>

\* The loop reaches its next model request, after tools or a text-only
\* response, and takes the guidance that arrived.
QueryLoops(c) ==
  /\ query[c] = "streaming" /\ steering # <<>>
  /\ log' = Entered(steering, c, "steering")
  /\ steering' = <<>>
  /\ UNCHANGED <<session, accepting, followups, turn, owner, removed, interrupted, ended>>

\* The query ends by itself.  Guidance may be left over: reaching max_turns
\* or a mode switch ends the loop without looking at it.
QueryEnds(c) ==
  /\ query[c] = "streaming"
  /\ \E f \in BOOLEAN : failed' = [failed EXCEPT ![c] = f]
  /\ query' = [query EXCEPT ![c] = "none"]
  /\ Goto(c, "terminal")
  /\ UNCHANGED <<session, pending, lock, taken, madeIn, history>>

\* A mutant: only closing wakes the watcher.
WatchClose(c) ==
  /\ abort /\ life # "open" /\ query[c] = "streaming"
  /\ query' = [query EXCEPT ![c] = Cancelled(@)]
  /\ UNCHANGED <<session, pending, lock, pc, failed, taken, madeIn, history>>

\* _watch_abort
WatchAbort(c) ==
  /\ abort /\ query[c] = "streaming"
  /\ query' = [query EXCEPT ![c] = Cancelled(@)]
  /\ UNCHANGED <<session, pending, lock, pc, failed, taken, madeIn, history>>

\* The cancelled producer has unwound: it published an interrupted terminal
\* for the consumer, or the consumer's own clean-up was waiting for it.
Unwind(c) ==
  /\ query[c] = "unwinding"
  /\ query' = [query EXCEPT ![c] = "none"]
  /\ failed' = [failed EXCEPT ![c] = TRUE]
  /\ IF pc[c] = "cancelling" THEN Leave(c)
     ELSE IF pc[c] = "query" THEN Goto(c, "terminal") /\ UNCHANGED accepting
     ELSE UNCHANGED <<pc, accepting>>
  /\ UNCHANGED <<session, followups, steering, lock, taken, madeIn, history>>
-----------------------------------------------------------------------------
(* Between the turns of a run: the loop of send_message. *)

\* Only a turn that neither failed nor was interrupted is continued.
Fails(r) ==
  /\ pc[r] = "terminal" /\ (failed[r] \/ abort)
  /\ Leave(r)
  /\ UNCHANGED <<session, followups, steering, lock, query, failed, taken, madeIn, history>>

\* Guidance that arrived after the loop's last look; a SteeringAppliedEvent is
\* yielded before it is used.
TakeSteering(r) ==
  /\ pc[r] = "terminal" /\ ~failed[r] /\ ~abort /\ steering # <<>>
  /\ taken' = [taken EXCEPT ![r] = steering]
  /\ steering' = <<>>
  /\ Goto(r, "applying")
  /\ UNCHANGED <<session, accepting, followups, lock, query, failed, madeIn, history>>

\* A QueuedMessageStartedEvent is yielded before the message is used.
TakeFollowUp(r) ==
  /\ pc[r] = "terminal" /\ ~failed[r] /\ ~abort /\ steering = <<>> /\ followups # <<>>
  /\ taken' = [taken EXCEPT ![r] = <<Head(followups)>>]
  /\ followups' = Tail(followups)
  /\ Goto(r, "starting")
  /\ UNCHANGED <<session, accepting, steering, lock, query, failed, madeIn, history>>

\* A mutant: the run stops accepting input only when it has settled.
EndsAccepting(r) ==
  /\ pc[r] = "terminal" /\ ~failed[r] /\ ~abort /\ steering = <<>> /\ followups = <<>>
  /\ ended' = [ended EXCEPT ![r] = TRUE]
  /\ Goto(r, "leaving")
  /\ UNCHANGED <<session, pending, lock, query, failed, taken, madeIn,
                 owner, removed, log, interrupted>>

Ends(r) ==
  /\ pc[r] = "terminal" /\ ~failed[r] /\ ~abort /\ steering = <<>> /\ followups = <<>>
  /\ ended' = [ended EXCEPT ![r] = TRUE]
  /\ Leave(r)
  /\ UNCHANGED <<session, followups, steering, lock, query, failed, taken, madeIn,
                 owner, removed, log, interrupted>>

ApplySteering(r) ==
  /\ pc[r] = "applying"
  /\ log' = Entered(taken[r], r, "steering")
  /\ taken' = [taken EXCEPT ![r] = <<>>]
  /\ Goto(r, "prologue")
  /\ UNCHANGED <<session, pending, lock, query, failed, madeIn, owner, removed, interrupted, ended>>

StartFollowUp(r) ==
  /\ pc[r] = "starting"
  /\ taken' = [taken EXCEPT ![r] = <<>>]
  /\ IF abort THEN Leave(r) /\ UNCHANGED log
     ELSE /\ log' = Entered(taken[r], r, "follow-up")
          /\ Goto(r, "prologue") /\ UNCHANGED accepting
  /\ UNCHANGED <<session, followups, steering, lock, query, failed, madeIn,
                 owner, removed, interrupted, ended>>

\* A notification has one turn.
NoteEnds(n) ==
  /\ pc[n] = "terminal"
  /\ Leave(n)
  /\ UNCHANGED <<session, followups, steering, lock, query, failed, taken, madeIn, history>>
-----------------------------------------------------------------------------
(* The transport, and the life of the session. *)

\* The consumer closes the generator at a yield.
CloseStream(r) ==
  /\ pc[r] \in {"query", "terminal", "applying", "starting"}
  /\ Leave(r)
  /\ query' = [query EXCEPT ![r] = Cancelled(@)]
  /\ UNCHANGED <<session, followups, steering, lock, failed, taken, madeIn, history>>

\* The task is cancelled at an await.  During a query the inner generator
\* first waits for its producer, and only then the run learns of it.
CancelTask(c) ==
  /\ \/ pc[c] = "waiting" /\ Goto(c, "done") /\ UNCHANGED <<accepting, query>>
     \/ pc[c] \in {"prologue", "peer", "prepare"} /\ Leave(c) /\ UNCHANGED query
     \/ /\ pc[c] = "query" /\ Goto(c, "cancelling")
        /\ query' = [query EXCEPT ![c] = Cancelled(@)]
        /\ UNCHANGED accepting
     \/ pc[c] = "terminal" /\ c \in Notes /\ Leave(c) /\ UNCHANGED query
  /\ UNCHANGED <<session, followups, steering, lock, failed, taken, madeIn, history>>

NewSession ==
  /\ life = "open" /\ lock = None /\ gen < MaxGen
  /\ gen' = gen + 1 /\ abort' = FALSE
  /\ followups' = <<>> /\ steering' = <<>>
  /\ UNCHANGED <<life, accepting, turn, history>>

Close ==
  /\ life = "open"
  /\ life' = "closing"
  /\ UNCHANGED <<gen, abort, pending, turn, history>>

CloseBegins ==
  /\ life = "closing"
  /\ life' = "closed" /\ abort' = TRUE /\ gen' = gen + 1
  /\ UNCHANGED <<pending, turn, history>>

\* After a running initialization: the queues are emptied, the queries and
\* then the notification dispatchers are cancelled.
CloseCancels ==
  /\ life = "closed"
  /\ life' = "draining"
  /\ followups' = <<>> /\ steering' = <<>>
  /\ query' = [c \in Callers |-> Cancelled(query[c])]
  /\ UNCHANGED <<gen, abort, accepting, lock, pc, failed, taken, madeIn, history>>

\* Tools, protocol managers and storage are closed.
Teardown ==
  /\ life = "draining"
  /\ \A c \in Callers : ~Alive(c)
  /\ \A n \in Notes : pc[n] \in {"idle", "done"}
  /\ life' = "torn"
  /\ UNCHANGED <<gen, abort, pending, turn, history>>
-----------------------------------------------------------------------------
QueryStep(c) == WatchAbort(c) \/ Unwind(c)

CallerStep(c) ==
  \/ Check(c) \/ ClearAbort(c) \/ Start(c) \/ Release(c)
  \/ c \in Runs /\ \/ EnterRun(c) \/ Settle(c) \/ Fails(c) \/ TakeSteering(c)
                   \/ TakeFollowUp(c) \/ Ends(c) \/ ApplySteering(c) \/ StartFollowUp(c)
  \/ c \in Notes /\ (EnterNote(c) \/ NoteEnds(c))

CloseStep == CloseBegins \/ CloseCancels \/ Teardown

Input ==
  \/ \E i \in Inputs : SteerMessage(i) \/ QueueMessage(i)
  \/ \E k \in DOMAIN followups : RemoveQueued(k) \/ PromoteQueued(k)
  \/ Interrupt

Next ==
  \/ Input
  \/ \E r \in Runs : Send(r) \/ Blocked(r) \/ CloseStream(r) \/ CancelTask(r)
  \/ \E n \in Notes : Notify(n) \/ (life = "draining" /\ CancelTask(n))
  \/ \E c \in Callers : CallerStep(c) \/ QueryStep(c) \/ QueryLoops(c) \/ QueryEnds(c)
  \/ NewSession \/ Close \/ CloseStep

Spec == Init /\ [][Next]_vars

\* The event loop runs what is ready, transports go on reading, a cancelled
\* producer unwinds.  Nothing obliges a model to answer or a user to act.
FairSpec ==
  /\ Spec
  /\ \A c \in Callers : WF_vars(CallerStep(c)) /\ WF_vars(QueryStep(c))
  /\ \A n \in Notes : WF_vars(life = "draining" /\ CancelTask(n))
  /\ WF_vars(CloseStep)
-----------------------------------------------------------------------------
Seqs == Seq(Inputs)
Range(s) == {s[k] : k \in DOMAIN s}

LogEntry == [input : Inputs, by : Callers, kind : {"steering", "follow-up"}]

Holding == {"prologue", "peer", "prepare", "query", "cancelling", "terminal",
            "applying", "starting", "leaving", "releasing"}

\* Types, and the limits of the two queues.
TypeOK ==
  /\ life \in {"open", "closing", "closed", "draining", "torn"}
  /\ gen \in 0..(MaxGen + 1)
  /\ lock \in Callers \union {None}
  /\ accepting \in BOOLEAN /\ abort \in BOOLEAN
  /\ followups \in Seqs /\ Len(followups) <= Limit
  /\ steering \in Seqs /\ Len(steering) <= Limit
  /\ pc \in [Callers -> Holding \union {"idle", "waiting", "done"}]
  /\ query \in [Callers -> {"none", "streaming", "unwinding"}]
  /\ failed \in [Callers -> BOOLEAN]
  /\ taken \in [Runs -> Seqs]
  /\ madeIn \in [Notes -> 0..(MaxGen + 1)]
  /\ owner \in [Inputs -> Runs \union {None}]
  /\ removed \subseteq Inputs
  /\ log \in Seq(LogEntry)
  /\ interrupted \in [Runs -> {"no", "early", "late"}]
  /\ ended \in [Runs -> BOOLEAN]

\* "It must never leak into an unrelated future run" (queue_message): what a
\* run accepted enters the conversation through that run or not at all.
InputStaysInItsRun ==
  \A k \in DOMAIN log : log[k].by = owner[log[k].input]

\* A run that ends because nothing is left to do has used everything it
\* accepted, except what the user took back: no input falls between the last
\* look at the queues and the moment they stop accepting.
NormalEndLosesNothing ==
  \A r \in Runs : ended[r] =>
    \A i \in Inputs : owner[i] = r =>
      i \in removed \union {log[k].input : k \in DOMAIN log}

\* No input is used twice, whatever was promoted while it was being taken, and
\* none that the user took back; follow-ups are used first come, first served.
InputsRunOnceInOrder ==
  \A j, k \in DOMAIN log :
    /\ log[k].input \notin removed
    /\ j < k => /\ log[j].input # log[k].input
                /\ log[j].kind = "follow-up" /\ log[k].kind = "follow-up"
                     => log[j].input < log[k].input

\* A query runs only under the turn lock, so two never share the transcript:
\* not even the one that unwinds after its run was cancelled and the next one.
OneQueryAtATime == \A c \in Callers : Alive(c) => lock = c

\* "a late tool event can use a closed resource" (_close_impl): no query is
\* alive once tools and storage are closed, and none starts afterwards.
NoQueryAfterTeardown == life = "torn" => \A c \in Callers : ~Alive(c)

\* All of the above, of an accepted input: it is used by its own run, once, in
\* order, and not lost or taken back in vain.
InputIsUsedOnce == InputStaysInItsRun /\ NormalEndLosesNothing /\ InputsRunOnceInOrder

\* All of the above, of queries: one at a time, and none on closed resources.
QueriesAreSafe == OneQueryAtATime /\ NoQueryAfterTeardown

\* A notification made in one conversation never starts a query in the next.
NotificationsKeepTheirLifecycle ==
  \A n \in Notes : pc[n] \in {"prologue", "peer", "prepare", "query"} /\ life = "open"
    => madeIn[n] = gen

\* An interrupt that arrives from the start of a query on ends the whole run:
\* no follow-up and no guidance begins another query.
InterruptsStopTheRun ==
  [][\A r \in Runs : interrupted[r] = "late" /\ query[r] = "none" => query'[r] = "none"]_vars

\* The same for every interrupt that arrives while the run has the turn.
InterruptsAreHeard ==
  [][\A r \in Runs : interrupted[r] # "no" /\ query[r] = "none" => query'[r] = "none"]_vars

\* An interrupted run ends, although the model may never answer.
InterruptedRunsEnd == \A r \in Runs : interrupted[r] = "late" ~> pc[r] = "done"

\* Closing wakes and ends everything: the session is torn down and nobody is
\* left waiting for the turn.
ClosedSessionsSettle ==
  life # "open" ~> life = "torn" /\ lock = None /\ \A c \in Callers : pc[c] \in {"idle", "done"}

\* Both: interrupt and close are heeded although the model may never answer.
StopsAreHeeded == InterruptedRunsEnd /\ ClosedSessionsSettle
=============================================================================
