------------------------------- MODULE EventBus -------------------------------
(***************************************************************************)
(* The gateway's event bus: every CoreEvent of a session is fanned out to  *)
(* the session's subscribers and to the global ones, each behind a bounded *)
(* queue that drops ordinary traffic when it is full, never waits for a    *)
(* slow transport, and ends the stream rather than lose a control event    *)
(* (permission and choice requests, turn boundaries).  A session id can be *)
(* closed and installed again with another CoreSession object, so events   *)
(* of the old object arriving late must be fenced.                         *)
(*                                                                         *)
(* Source: gateway/event_bus.py, and the routes that install, archive and  *)
(* stop sessions (gateway/routes/session.py, gateway/server.py).           *)
(***************************************************************************)
EXTENDS Naturals, FiniteSets

CONSTANTS
  Sessions,   \* session ids
  Sources,    \* CoreSession objects
  Streams,    \* transports: one subscriber each, at most once
  Capacity,   \* subscriber_queue_size
  MaxEvents,  \* bound: events emitted in a behaviour
  MaxGen,     \* bound: lifecycle generations of one CoreSession object
  None,       \* no session, no source
  Global      \* the scope "__global__"

\* EventBus.__init__ rejects a queue size that is not positive.
ASSUME CapacityAssumption == Capacity \in Nat \ {0}
ASSUME BoundAssumption == MaxEvents \in Nat /\ MaxGen \in Nat
ASSUME NamesAssumption ==
  None \notin Sessions \union Sources /\ Global \notin Sessions \union {None}

VARIABLES
  sourceOf,     \* _session_sources: the object installed for a session id
  invalidated,  \* _invalidated_sessions: tombstones of closed lifecycles
  sub,          \* the subscriber of each stream
  reader,       \* where the stream's transport loop is
  hand,         \* the item the transport loop popped and has not sent yet
  objId,        \* CoreSession.session_id of each object
  objGen,       \* CoreSession._lifecycle_generation of each object
  inflight,     \* events emitted by an object and not published yet
  emitted,      \* number of events emitted, which names the next one
  published,    \* number of events the bus accepted: the next queue position
  gateway,      \* "running" -> "closing" -> "closed"
  retired,      \* history: <<session, object>> closed and not bound again
  offered,      \* history: control event offered last to each open stream
  handed        \* history: control event handed last to each transport loop

busVars == <<sourceOf, invalidated, sub, published, offered, retired>>
readVars == <<reader, hand, handed>>
objVars == <<objId, objGen, inflight, emitted>>
vars == <<busVars, readVars, objVars, gateway>>

\* A buffered payload.  As in _BoundedEventQueue's OrderedDict, an item's
\* position is an ever-growing number and the oldest item has the least one.
Item(pos, s, src, kind) == [pos |-> pos, session |-> s, src |-> src, kind |-> kind]
EOF == Item(0, None, None, "eof")       \* the None sentinel of close()
Hello == Item(0, None, None, "hello")   \* the out-of-band handshake
NoItem == Item(0, None, None, "none")

IsControl(it) == it.kind = "control"
IsOrdinary(it) == it.kind = "ordinary"

Oldest(q) == CHOOSE it \in q : \A other \in q : it.pos <= other.pos

NewSub == [scope |-> None, registered |-> FALSE, queue |-> {},
           hello |-> TRUE, closed |-> FALSE, overflowed |-> FALSE]

Init ==
  /\ sourceOf = [s \in Sessions |-> None]
  /\ invalidated = {}
  /\ sub = [st \in Streams |-> NewSub]
  /\ reader = [st \in Streams |-> "none"]
  /\ hand = [st \in Streams |-> NoItem]
  /\ objId \in [Sources -> Sessions]
  /\ objGen = [src \in Sources |-> 0]
  /\ inflight = {}
  /\ emitted = 0
  /\ published = 0
  /\ gateway = "running"
  /\ retired = {}
  /\ offered = [st \in Streams |-> 0]
  /\ handed = [st \in Streams |-> 0]

-----------------------------------------------------------------------------
(* One subscriber's queue.  Each operator maps the subscriber record to    *)
(* the record the method leaves behind.                                    *)

\* Mutant: close drains the buffer and forgets the sentinel.
ClosedSilently(r) ==
  IF r.closed THEN r ELSE [r EXCEPT !.closed = TRUE, !.queue = {}]

\* close: drain the buffer and leave only the sentinel; the handshake stays.
Closed(r) ==
  IF r.closed THEN r ELSE [r EXCEPT !.closed = TRUE, !.queue = {EOF}]

\* discard_oldest(_ORDINARY_EVENT), when some ordinary event is buffered.
Evicted(q) == q \ {Oldest({it \in q : IsOrdinary(it)})}

\* Mutant: a full buffer evicts its oldest event whatever it is.
PushedEvictsOldest(r, it) ==
  CASE r.closed -> r
    [] ~r.closed /\ Cardinality(r.queue) < Capacity ->
         [r EXCEPT !.queue = @ \union {it}]
    [] OTHER -> [r EXCEPT !.queue = (@ \ {Oldest(@)}) \union {it}]

\* push_nowait: a control event that finds only control events buffered ends
\* the stream; an ordinary one is dropped.
Pushed(r, it) ==
  LET full == Cardinality(r.queue) >= Capacity
      victim == \E old \in r.queue : IsOrdinary(old)
  IN CASE r.closed -> r
       [] ~r.closed /\ ~full -> [r EXCEPT !.queue = @ \union {it}]
       [] ~r.closed /\ full /\ victim ->
            [r EXCEPT !.queue = Evicted(@) \union {it}]
       [] ~r.closed /\ full /\ ~victim /\ IsControl(it) ->
            Closed([r EXCEPT !.overflowed = TRUE])
       [] OTHER -> r

\* drop_session, for a set of closed sessions: forget what is buffered for
\* them; what is retained keeps its order.
Dropped(r, S) == [r EXCEPT !.queue = {it \in @ : it.session \notin S}]

\* unsubscribe: leave the bus and close the queue.
Unsubscribed(r) == Closed([r EXCEPT !.registered = FALSE])

-----------------------------------------------------------------------------
(* The bus.                                                                *)

\* Mutant: global subscribers keep what is buffered for the closed session.
CloseEffectKeepsGlobal(S, r) ==
  IF r.registered /\ r.scope \in S THEN Unsubscribed(r) ELSE r

\* close_session on one subscriber, once the ownership test has passed, for
\* the set S of sessions closed together.
CloseEffect(S, r) ==
  IF r.registered /\ r.scope \in S THEN Unsubscribed(r)
  ELSE IF r.registered /\ r.scope = Global THEN Dropped(r, S)
  ELSE r

\* register_session, called under the registry lock by the routes that create
\* or resume a session, unless the gateway is closing.
RegisterSession(s, src) ==
  /\ gateway = "running"
  /\ objId[src] = s
  /\ \A t \in Sessions \ {s} : sourceOf[t] # src
  /\ LET replaced == sourceOf[s] \notin {None, src}
     IN /\ sub' = IF replaced
                  THEN [st \in Streams |-> CloseEffect({s}, sub[st])]
                  ELSE sub
        /\ retired' = (IF replaced THEN retired \union {<<s, sourceOf[s]>>}
                                   ELSE retired) \ {<<s, src>>}
  /\ sourceOf' = [sourceOf EXCEPT ![s] = src]
  /\ invalidated' = invalidated \ {s}
  /\ UNCHANGED <<published, offered, readVars, objVars, gateway>>

\* close_session: only the owner of a bound id may close it.  Archiving the
\* session advances the object's generation later, in CoreSession.close.
CloseSession(s, src) ==
  /\ gateway = "running"
  /\ sourceOf[s] \in {None, src}
  /\ invalidated' = invalidated \union {s}
  /\ sourceOf' = [sourceOf EXCEPT ![s] = None]
  /\ sub' = [st \in Streams |-> CloseEffect({s}, sub[st])]
  /\ retired' = retired \union {<<s, src>>}
  /\ UNCHANGED <<published, offered, readVars, objVars, gateway>>

\* GatewayServer._stop_impl, first half: under the registry lock, fence the
\* gateway and close every installed session.
StopGateway ==
  /\ gateway = "running"
  /\ gateway' = "closing"
  /\ LET bound == {s \in Sessions : sourceOf[s] # None}
     IN /\ invalidated' = invalidated \union bound
        /\ retired' = retired \union {<<s, sourceOf[s]>> : s \in bound}
        /\ sub' = [st \in Streams |-> CloseEffect(bound, sub[st])]
  /\ sourceOf' = [s \in Sessions |-> None]
  /\ UNCHANGED <<published, offered, readVars, objVars>>

\* close_all, the last act of _stop_impl.
CloseAll ==
  /\ gateway = "closing"
  /\ gateway' = "closed"
  /\ invalidated' = invalidated \union {s \in Sessions :
        \/ sourceOf[s] # None
        \/ \E st \in Streams : sub[st].registered /\ sub[st].scope = s}
  /\ sourceOf' = [s \in Sessions |-> None]
  /\ sub' = [st \in Streams |->
               IF sub[st].registered THEN Unsubscribed(sub[st]) ELSE sub[st]]
  /\ UNCHANGED <<published, offered, retired, readVars, objVars>>

\* Mutant: the event route does not look at gateway_closing.
SubscribeUnfenced(st, scope) ==
  /\ reader[st] = "none"
  /\ scope # Global => sourceOf[scope] # None
  /\ sub' = [sub EXCEPT ![st].scope = scope, ![st].registered = TRUE]
  /\ reader' = [reader EXCEPT ![st] = "idle"]
  /\ UNCHANGED <<sourceOf, invalidated, published, offered, retired, hand, handed, objVars, gateway>>

\* The routes subscribe under the registry lock: never while the gateway is
\* closing, and to a session id only while the id is installed.
Subscribe(st, scope) ==
  /\ gateway = "running"
  /\ reader[st] = "none"
  /\ scope # Global => sourceOf[scope] # None
  /\ sub' = [sub EXCEPT ![st].scope = scope, ![st].registered = TRUE]
  /\ reader' = [reader EXCEPT ![st] = "idle"]
  /\ UNCHANGED <<sourceOf, invalidated, published, offered, retired, hand, handed, objVars, gateway>>

-----------------------------------------------------------------------------
(* Events.  A CoreSession emits an event tagged with its id and generation *)
(* (_tag_lifecycle_event); gateway code wraps some without a tag, and some *)
(* without a source.  It reaches the bus some awaits later.                *)

Emit(src, kind, tagged) ==
  /\ emitted < MaxEvents
  /\ emitted' = emitted + 1
  /\ inflight' = inflight \union
       {[id |-> emitted + 1, src |-> src, kind |-> kind, tagged |-> tagged,
         session |-> objId[src], gen |-> objGen[src]]}
  /\ UNCHANGED <<busVars, readVars, objId, objGen, gateway>>

\* new_session, resume and close give the object a new generation, the first
\* two possibly another id.  An installed object is never switched.
AdvanceLifecycle(src, s) ==
  /\ objGen[src] < MaxGen
  /\ \A t \in Sessions : sourceOf[t] = src => s = objId[src]
  /\ objGen' = [objGen EXCEPT ![src] = @ + 1]
  /\ objId' = [objId EXCEPT ![src] = s]
  /\ UNCHANGED <<busVars, readVars, inflight, emitted, gateway>>

\* _source_is_current
SourceIsCurrent(s, e, source) ==
  /\ e.tagged => e.session = s
  /\ (e.tagged /\ source # None) => /\ e.session = objId[source]
                                    /\ e.gen = objGen[source]
  /\ s \notin invalidated
  /\ source # None => sourceOf[s] \in {None, source}

Targets(s) ==
  {st \in Streams : sub[st].registered /\ sub[st].scope \in {s, Global}}

\* publish: push to every target; a target the push closed leaves the bus.
\* The caller passes the id it resolved earlier or the object's id of now.
Publish(e, withSource) ==
  LET source == IF withSource THEN e.src ELSE None
  IN \E s \in {e.session, objId[e.src]} :
       /\ inflight' = inflight \ {e}
       /\ IF SourceIsCurrent(s, e, source)
          THEN LET it == Item(published + 1, s, source, e.kind)
                   after == [st \in Targets(s) |-> Pushed(sub[st], it)]
               IN /\ published' = published + 1
                  /\ sub' = [st \in Streams |->
                       IF st \notin Targets(s) THEN sub[st]
                       ELSE IF after[st].closed THEN Unsubscribed(after[st])
                       ELSE after[st]]
                  /\ offered' = [st \in Streams |->
                       IF st \in Targets(s) /\ IsControl(it) THEN it.pos
                       ELSE offered[st]]
          ELSE UNCHANGED <<published, sub, offered>>
       /\ UNCHANGED <<sourceOf, invalidated, retired, readVars,
                      objId, objGen, emitted, gateway>>

-----------------------------------------------------------------------------
(* The transport loop of sse_stream and ws_stream.                         *)

\* Hand an item to the loop; r is what its subscriber becomes.
Take(st, it, r) ==
  /\ hand' = [hand EXCEPT ![st] = it]
  /\ reader' = [reader EXCEPT ![st] = "holding"]
  /\ sub' = [sub EXCEPT ![st] = r]
  /\ handed' = IF IsControl(it) THEN [handed EXCEPT ![st] = it.pos] ELSE handed

\* get_nowait: the oldest item.
TakeOldest(st) ==
  LET it == Oldest(sub[st].queue)
  IN /\ sub[st].queue # {}
     /\ Take(st, it, [sub[st] EXCEPT !.queue = @ \ {it}])

\* next(): the handshake first, then the queue, then wait for _not_empty.
Read(st) ==
  /\ reader[st] = "idle"
  /\ \/ sub[st].hello /\ Take(st, Hello, [sub[st] EXCEPT !.hello = FALSE])
     \/ ~sub[st].hello /\ TakeOldest(st)
     \/ /\ ~sub[st].hello /\ sub[st].queue = {}
        /\ reader' = [reader EXCEPT ![st] = "waiting"]
        /\ UNCHANGED <<sub, hand, handed>>
  /\ UNCHANGED <<sourceOf, invalidated, published, offered, retired, objVars, gateway>>

\* Mutant: the wake-up of the first buffered item is lost.
WakeLost(st) ==
  /\ reader[st] = "waiting"
  /\ Cardinality(sub[st].queue) > 1
  /\ TakeOldest(st)
  /\ UNCHANGED <<sourceOf, invalidated, published, offered, retired, objVars, gateway>>

\* The pending get() wakes and pops.
Wake(st) ==
  /\ reader[st] = "waiting"
  /\ TakeOldest(st)
  /\ UNCHANGED <<sourceOf, invalidated, published, offered, retired, objVars, gateway>>

\* _next_with_timeout: the heartbeat timer wins, the pending get() is
\* cancelled and drained, and whatever is buffered stays buffered.
Heartbeat(st) ==
  /\ reader[st] = "waiting"
  /\ reader' = [reader EXCEPT ![st] = "idle"]
  /\ UNCHANGED <<busVars, hand, handed, objVars, gateway>>

\* Send the item; a WebSocket that has not selected the session skips it.
Forward(st) ==
  /\ reader[st] = "holding"
  /\ hand[st].kind # "eof"
  /\ hand' = [hand EXCEPT ![st] = NoItem]
  /\ reader' = [reader EXCEPT ![st] = "idle"]
  /\ UNCHANGED <<busVars, handed, objVars, gateway>>

Finish(st) ==
  /\ reader' = [reader EXCEPT ![st] = "done"]
  /\ hand' = [hand EXCEPT ![st] = NoItem]
  /\ sub' = [sub EXCEPT ![st] = Unsubscribed(sub[st])]
  /\ UNCHANGED <<sourceOf, invalidated, published, offered, retired, handed, objVars, gateway>>

\* The sentinel returns from the loop, whose finally block unsubscribes.
EndOfStream(st) == reader[st] = "holding" /\ hand[st].kind = "eof" /\ Finish(st)

\* The client disconnects, a send fails or the task is cancelled, at any await.
Disconnect(st) == reader[st] \in {"idle", "waiting", "holding"} /\ Finish(st)

ReaderStep(st) == Read(st) \/ Wake(st) \/ Forward(st) \/ EndOfStream(st)

-----------------------------------------------------------------------------
Next ==
  \/ \E s \in Sessions, src \in Sources :
       RegisterSession(s, src) \/ CloseSession(s, src) \/ AdvanceLifecycle(src, s)
  \/ StopGateway
  \/ CloseAll
  \/ \E src \in Sources, kind \in {"ordinary", "control"}, tagged \in BOOLEAN :
       Emit(src, kind, tagged)
  \/ \E e \in inflight, withSource \in BOOLEAN : Publish(e, withSource)
  \/ \E st \in Streams :
       \/ \E scope \in Sessions \union {Global} : Subscribe(st, scope)
       \/ ReaderStep(st) \/ Heartbeat(st) \/ Disconnect(st)

Spec == Init /\ [][Next]_vars

\* The event loop runs a ready reader task sooner or later; nothing obliges a
\* client to disconnect, a timer to win, or anyone to publish.
FairSpec == Spec /\ \A st \in Streams : WF_vars(ReaderStep(st))

-----------------------------------------------------------------------------
ItemType ==
  [pos : 0..MaxEvents, session : Sessions \union {None},
   src : Sources \union {None},
   kind : {"ordinary", "control", "eof", "hello", "none"}]

SubType ==
  [scope : Sessions \union {None, Global}, registered : BOOLEAN,
   queue : SUBSET ItemType, hello : BOOLEAN, closed : BOOLEAN,
   overflowed : BOOLEAN]

EventType ==
  [id : 1..MaxEvents, src : Sources, kind : {"ordinary", "control"},
   tagged : BOOLEAN, session : Sessions, gen : 0..MaxGen]

\* The type of every variable, with the queue bound: a subscriber never
\* buffers more than its capacity, whatever is published or closed.
TypeOK ==
  /\ sourceOf \in [Sessions -> Sources \union {None}]
  /\ invalidated \in SUBSET Sessions
  /\ \A st \in Streams : Cardinality(sub[st].queue) <= Capacity
  /\ sub \in [Streams -> SubType]
  /\ reader \in [Streams -> {"none", "idle", "waiting", "holding", "done"}]
  /\ hand \in [Streams -> ItemType]
  /\ handed \in [Streams -> 0..MaxEvents]
  /\ objId \in [Sources -> Sessions]
  /\ objGen \in [Sources -> 0..MaxGen]
  /\ inflight \in SUBSET EventType
  /\ emitted \in 0..MaxEvents
  /\ published \in 0..emitted
  /\ gateway \in {"running", "closing", "closed"}
  /\ retired \in SUBSET (Sessions \X Sources)
  /\ offered \in [Streams -> 0..MaxEvents]

\* close_session's promise across reuse of an id: once an object's lifecycle
\* is closed, nothing it emitted is buffered for anyone, however late it is
\* published, until that same object is installed again.
NoClosedLifecycleBuffered ==
  \A st \in Streams : \A it \in sub[st].queue :
    <<it.session, it.src>> \notin retired /\ it.session \notin invalidated

\* A closed subscriber buffers nothing but the end-of-stream sentinel, so a
\* client still draining it can never see a replacement lifecycle's events.
ClosedMeansSentinelOnly ==
  \A st \in Streams :
    sub[st].closed => ~sub[st].registered /\ sub[st].queue \subseteq {EOF}

\* Once the gateway has closed its bus, no subscriber is left open: none can
\* have slipped in between the route's check and the shutdown sweep.
ShutdownLeavesNobody ==
  gateway = "closed" => \A st \in Streams : reader[st] # "none" => sub[st].closed

\* Each stream as a control stream.
CS(st) == INSTANCE ControlStream WITH
  life    <- [s \in Sessions |-> <<sourceOf[s], s \in invalidated>>],
  offered <- offered[st],
  handed  <- handed[st],
  pending <- {[id |-> it.pos, session |-> it.session] :
                it \in {x \in sub[st].queue : IsControl(x)}},
  open    <- ~sub[st].closed

\* A bounded, lossy subscriber queue is a control stream without gaps:
\* push_nowait's eviction and overflow rules lose only ordinary events, and
\* close_session withdraws only the closed session's.  This is CS(st)!CSSpec for
\* every stream, with the quantifier inside the box, where TLC can check it.
ControlStreamHasNoGaps ==
  /\ \A st \in Streams : CS(st)!CSInit
  /\ [][\A st \in Streams : CS(st)!CSNext \/ UNCHANGED CS(st)!csVars]_vars

\* Every stream whose subscriber was closed ends: the sentinel reaches the
\* transport loop even when a heartbeat keeps interrupting its wait.
ClosedStreamsEnd ==
  \A st \in Streams : (sub[st].closed ~> reader[st] = "done")

\* No event is stranded behind the heartbeat: a buffered control event is
\* handed to the transport, withdrawn with its session, or the stream closes.
ControlEventsMoveOn ==
  \A st \in Streams, n \in 1..MaxEvents :
    (\E it \in sub[st].queue : it.pos = n /\ IsControl(it))
    ~> ~(\E it \in sub[st].queue : it.pos = n)

\* Both: neither an event nor the end of a stream is stranded in a subscriber.
StreamsMoveOn == ClosedStreamsEnd /\ ControlEventsMoveOn
=============================================================================
