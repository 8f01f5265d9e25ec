-------------------------------- MODULE Peer --------------------------------
(***************************************************************************)
(* Messages between independent sessions of one machine                    *)
(* (core/peer/runtime.py and its use by CoreSession in core/events.py).    *)
(* A host is a CoreSession in a process of its own.  Its runtime listens   *)
(* on a socket and publishes a registry record under the session's name;   *)
(* a sender finds the record, connects and waits for an acknowledgement.   *)
(*                                                                         *)
(* A step of a host runs from one await to the next, except that reading a *)
(* record and unlinking its path are two steps: the registry is shared by  *)
(* processes and holds no lock.  Process ids are not reused.               *)
(***************************************************************************)
EXTENDS Integers, Sequences, FiniteSets

CONSTANTS
  Hosts,       \* CoreSession objects, one per process
  Sessions,    \* session ids
  First,       \* the session each host opens with
  Policy,      \* cross_session.inbound of each host: "auto", "accept", "hold", "refuse"
  Senders,     \* bound: the hosts whose model sends and lists
  Users,       \* bound: the hosts whose user starts turns, changes session and closes,
               \* and which may die
  MaxRuntimes, \* bound: runtimes that are ever started
  MaxMessages, \* bound: messages that are ever sent
  MaxFaults,   \* bound: timeouts, failed starts and crashes
  QueueSize,   \* cross_session.queue_size
  Batch,       \* messages taken at a boundary (20)
  None

Runtimes == 1..MaxRuntimes
Messages == 1..MaxMessages

\* What a host is about to unlink: a path, and with it the socket of its record.
Removal(s, r, whole) == [session |-> s, runtime |-> r, whole |-> whole]
RemovalType == [session : Sessions, runtime : Runtimes, whole : BOOLEAN]

\* The status of a PeerDelivery.
Statuses == {"delivered", "held", "refused", "failed"}

ASSUME BoundsAssumption ==
  /\ MaxRuntimes \in Nat /\ MaxMessages \in Nat /\ MaxFaults \in Nat
  /\ QueueSize \in Nat \ {0} /\ Batch \in Nat \ {0}
  /\ First \in [Hosts -> Sessions] /\ None \notin Sessions \union Hosts
  /\ None \notin Runtimes /\ None \notin Statuses /\ None \notin RemovalType
  /\ Policy \in [Hosts -> {"auto", "accept", "hold", "refuse"}]

VARIABLES
  record,    \* the registry: the runtime each session's file names
  socket,    \* the socket files that exist
  runtime,   \* PeerRuntime objects
  host,      \* CoreSession: _closed/_closing, session_id, generation, _peer_runtime
  removing,  \* a record a host has read and is about to unlink
  queue,     \* _peer_notification_queue
  available, \* _peer_notification_available
  entering,  \* enqueue_peer_message calls that wait for the event of their message
  held,      \* _held_peer_messages
  turn,      \* _turn_lock: "none", a foreground turn, or the dispatcher's
  task,      \* _peer_notification_task
  message,   \* the sends under way and their results
  accepted,  \* history: messages put into a queue
  shown,     \* history: how often each message was shown to a model
  astray,    \* history: messages shown elsewhere than where they were accepted
  faults

registry == <<record, socket, runtime, removing>>
inbox == <<queue, available, entering, held, turn, task>>
history == <<accepted, shown, astray>>
vars == <<registry, host, inbox, message, history, faults>>

Init ==
  /\ record = [s \in Sessions |-> None]
  /\ socket = {}
  /\ runtime = [r \in Runtimes |-> [at |-> "unused", host |-> None, session |-> None]]
  /\ host = [h \in Hosts |-> [at |-> "open", session |-> First[h], gen |-> 0, peer |-> None]]
  /\ removing = [h \in Hosts |-> None]
  /\ queue = [h \in Hosts |-> <<>>]
  /\ available = [h \in Hosts |-> FALSE]
  /\ entering = {}
  /\ held = [h \in Hosts |-> {}]
  /\ turn = [h \in Hosts |-> "none"]
  /\ task = [h \in Hosts |-> "none"]
  /\ message = [i \in Messages |->
                  [at |-> "unused", from |-> None, to |-> None, peer |-> None, result |-> None]]
  /\ accepted = {} /\ shown = [i \in Messages |-> 0] /\ astray = {} /\ faults = 0

Alive(h) == host[h].at \in {"open", "closing", "closed"}

\* A host between two of its steps, not inside a file operation.
Runs(h) == Alive(h) /\ removing[h] = None

\* Neither _closed nor _closing.
IsOpen(h) == host[h].at = "open"

Listens(r) == runtime[r].at = "open" /\ Alive(runtime[r].host)

\* _record_is_live
IsLive(r) == r \in socket /\ Alive(runtime[r].host)

Draining(h) == \E r \in Runtimes : runtime[r].at = "draining" /\ runtime[r].host = h
Starting(h) == \E r \in Runtimes : runtime[r].at = "binding" /\ runtime[r].host = h
-----------------------------------------------------------------------------
(* The registry *)

\* ensure_peer_runtime finds none, or one of another session that it closes first.
Ensure(h, r) ==
  /\ Runs(h) /\ IsOpen(h) /\ ~Starting(h) /\ ~Draining(h)
  /\ host[h].peer = None /\ runtime[r].at = "unused"
  /\ \A q \in Runtimes : q < r => runtime[q].at # "unused"
  /\ runtime' = [runtime EXCEPT ![r] = [at |-> "binding", host |-> h, session |-> host[h].session]]
  /\ UNCHANGED <<record, socket, removing, host, inbox, message, history, faults>>

\* start, after the server is bound: the record replaces the one of the session.
Publish(h, r) ==
  /\ Runs(h) /\ runtime[r].at = "binding" /\ runtime[r].host = h
  /\ runtime' = [runtime EXCEPT ![r].at = "open"]
  /\ socket' = socket \union {r}
  /\ record' = [record EXCEPT ![runtime[r].session] = r]
  /\ host' = [host EXCEPT ![h].peer = r]
  /\ UNCHANGED <<removing, inbox, message, history, faults>>

StartFails(h, r) ==
  /\ Runs(h) /\ runtime[r].at = "binding" /\ runtime[r].host = h /\ faults < MaxFaults
  /\ faults' = faults + 1
  /\ runtime' = [runtime EXCEPT ![r].at = "closed"]
  /\ UNCHANGED <<record, socket, removing, host, inbox, message, history>>

\* Mutant: a runtime that closes leaves its record.
RemoveSocketOnly(h, r) == UNCHANGED removing /\ socket' = socket \ {r}

\* _remove_own_record and the socket, whose file goes in any case.
RemoveOwnRecord(h, r) ==
  IF record[runtime[r].session] = r
  THEN /\ removing' = [removing EXCEPT ![h] = Removal(runtime[r].session, r, TRUE)]
       /\ UNCHANGED socket
  ELSE UNCHANGED removing /\ socket' = socket \ {r}

\* list_peers reads a record whose process or socket is gone.
FindStale(h, s) ==
  /\ Runs(h) /\ IsOpen(h) /\ h \in Senders /\ host[h].peer # None /\ s # host[h].session
  /\ record[s] # None /\ ~IsLive(record[s])
  /\ removing' = [removing EXCEPT ![h] = Removal(s, record[s], TRUE)]
  /\ UNCHANGED <<record, socket, runtime, host, inbox, message, history, faults>>

\* unlink of the path that was read, whatever it holds by now, and of the socket.
Unlink(h) ==
  /\ Alive(h) /\ removing[h] # None
  /\ record' = [record EXCEPT ![removing[h].session] = None]
  /\ socket' = IF removing[h].whole THEN socket \ {removing[h].runtime} ELSE socket
  /\ removing' = [removing EXCEPT ![h] = None]
  /\ UNCHANGED <<runtime, host, inbox, message, history, faults>>
-----------------------------------------------------------------------------
(* The sender *)

\* send: the target is resolved to a live record and the connection is opened.
Send(i, h, s) ==
  /\ Runs(h) /\ IsOpen(h) /\ h \in Senders /\ host[h].peer # None /\ s # host[h].session
  /\ record[s] # None /\ IsLive(record[s])
  /\ message[i].at = "unused" /\ \A j \in 1..(i - 1) : message[j].at # "unused"
  /\ message' = [message EXCEPT ![i] =
       [at |-> "sent", from |-> h, to |-> s, peer |-> record[s], result |-> None]]
  /\ UNCHANGED <<registry, host, inbox, history, faults>>

\* The acknowledgement is read.
Acknowledged(i) ==
  LET m == message[i]
  IN /\ m.at \in {"delivered", "held", "refused", "failed"} /\ Runs(m.from)
     /\ message' = [message EXCEPT ![i].at = "done", ![i].result = m.at]
     /\ UNCHANGED <<registry, host, inbox, history, faults>>

\* No acknowledgement: the connection breaks, or it takes too long although the
\* message is on its way.  _remove_record_if_matches reads the record.
Unreached(i) ==
  LET m == message[i]
      lost == (m.at = "sent" /\ ~Listens(m.peer)) \/ ~Alive(runtime[m.peer].host)
  IN /\ m.at \notin {"unused", "done", "late"} /\ Runs(m.from)
     /\ lost \/ faults < MaxFaults
     /\ faults' = IF lost THEN faults ELSE faults + 1
     /\ message' = [message EXCEPT ![i].at = IF m.at = "sent" /\ ~lost THEN "late" ELSE "done",
                                   ![i].result = "failed"]
     /\ removing' = IF record[m.to] = m.peer
                    THEN [removing EXCEPT ![m.from] = Removal(m.to, m.peer, FALSE)]
                    ELSE removing
     /\ UNCHANGED <<record, socket, runtime, host, inbox, history>>
-----------------------------------------------------------------------------
(* The receiver *)

\* enqueue_peer_message takes a message of this session while it is open.
MayEnqueue(h, m) == IsOpen(h) /\ host[h].session = m.to

\* The oldest messages make room; the message is announced before the call goes on.
Enqueue(h, i) ==
  /\ queue' = [queue EXCEPT ![h] =
       Append(IF Len(@) < QueueSize THEN @ ELSE Tail(@),
              [gen |-> host[h].gen, session |-> host[h].session, id |-> i])]
  /\ available' = [available EXCEPT ![h] = TRUE]
  /\ entering' = entering \union {<<h, i>>}
  /\ accepted' = accepted \union {i}

\* _inbound_decision: "auto" compares the permission modes of the two sessions,
\* which their users change at any time.
Decisions(h) == IF Policy[h] = "auto" THEN {"accept", "hold"} ELSE {Policy[h]}

\* The status _handle_client writes; a sender that has gone does not read it.
Answer(i, status) ==
  message' = [message EXCEPT ![i].at = IF @ = "late" THEN "done" ELSE status]

\* Mutant: the throttle is asked after the message was taken.
ThrottledLate(i) ==
  LET m == message[i]
      h == runtime[m.peer].host
  IN /\ m.at \in {"sent", "late"} /\ Runs(h)
     /\ "accept" \in Decisions(h) /\ MayEnqueue(h, m)
     /\ <<h, i>> \notin entering /\ Enqueue(h, i)
     /\ Answer(i, "refused") \/ UNCHANGED message
     /\ UNCHANGED <<registry, host, turn, task, held, shown, astray, faults>>

\* _handle_client, up to the reply.  _throttle_reason may refuse any message: its
\* time windows are left out.
Receive(i) ==
  LET m == message[i]
      h == runtime[m.peer].host
  IN /\ m.at \in {"sent", "late"} /\ Runs(h) /\ <<h, i>> \notin entering
     /\ \/ /\ Answer(i, "refused")
           /\ UNCHANGED <<queue, available, entering, held, accepted>>
        \/ /\ "accept" \in Decisions(h) /\ MayEnqueue(h, m)
           /\ Enqueue(h, i)
           /\ UNCHANGED <<message, held>>
        \/ /\ "hold" \in Decisions(h) /\ MayEnqueue(h, m) /\ Cardinality(held[h]) < QueueSize
           /\ held' = [held EXCEPT ![h] =
                @ \union {[gen |-> host[h].gen, session |-> host[h].session, id |-> i]}]
           /\ Answer(i, "held")
           /\ UNCHANGED <<queue, available, entering, accepted>>
        \/ /\ Decisions(h) # {"refuse"}
           /\ \/ ~MayEnqueue(h, m)
              \/ "hold" \in Decisions(h) /\ Cardinality(held[h]) >= QueueSize
           /\ Answer(i, "failed")
           /\ UNCHANGED <<queue, available, entering, held, accepted>>
     /\ UNCHANGED <<registry, host, turn, task, shown, astray, faults>>

\* Mutant: nobody is started to serve the queue.
ServedUnattended(h) == UNCHANGED task

\* _ensure_peer_notification_dispatcher: one is started if none is left.
Served(h) ==
  task' = [task EXCEPT ![h] = IF IsOpen(h) /\ @ = "none" THEN "waiting" ELSE @]

\* The event of the message has been delivered: the call starts the dispatcher, and
\* the sender has its answer if it still waits and this was its connection's call.
Entered(h, i) ==
  /\ Runs(h) /\ <<h, i>> \in entering
  /\ entering' = entering \ {<<h, i>>}
  /\ Served(h)
  /\ IF message[i].at \in {"sent", "late"} THEN Answer(i, "delivered") ELSE UNCHANGED message
  /\ UNCHANGED <<registry, host, queue, available, held, turn, history, faults>>

\* _lifecycle_matches
Matches(h, e) == IsOpen(h) /\ host[h].session = e.session /\ host[h].gen = e.gen

\* Mutant: the held message stays when it is approved.
ApproveAndKeep(h, e) ==
  /\ Runs(h) /\ IsOpen(h) /\ e \in held[h]
  /\ UNCHANGED held
  /\ \/ Matches(h, e) /\ MayEnqueue(h, message[e.id]) /\ Enqueue(h, e.id)
     \/ UNCHANGED <<queue, available, entering, accepted>>
  /\ UNCHANGED <<registry, host, turn, task, shown, astray, message, faults>>

\* respond_permission: the user lets a held message in, or not.
Decide(h, e) ==
  /\ Runs(h) /\ IsOpen(h) /\ e \in held[h]
  /\ held' = [held EXCEPT ![h] = @ \ {e}]
  /\ \/ Matches(h, e) /\ MayEnqueue(h, message[e.id]) /\ Enqueue(h, e.id)
     \/ UNCHANGED <<queue, available, entering, accepted>>
  /\ UNCHANGED <<registry, host, turn, task, shown, astray, message, faults>>
-----------------------------------------------------------------------------
(* The receiving model *)

\* The positions of the messages of this lifecycle.
Valid(h) == {n \in DOMAIN queue[h] : Matches(h, queue[h][n])}

\* _take_peer_notification_batch pops until it has a batch of those or the queue is empty.
UpTo(h, last) == {n \in Valid(h) : n <= last}
Stops(h, last) ==
  IF Cardinality(UpTo(h, last)) < Batch THEN last = Len(queue[h])
  ELSE Cardinality(UpTo(h, last)) = Batch /\ last \in UpTo(h, last)

\* The event stays set while messages are left.
Leaves(h, left) ==
  /\ queue' = [queue EXCEPT ![h] = left]
  /\ available' = [available EXCEPT ![h] = left # <<>> /\ @]

Shows(h) ==
  \E last \in 0..Len(queue[h]) :
    LET ids == {queue[h][n].id : n \in UpTo(h, last)}
    IN /\ Stops(h, last)
       /\ Leaves(h, SubSeq(queue[h], last + 1, Len(queue[h])))
       /\ shown' = [i \in Messages |-> IF i \in ids /\ shown[i] < 2 THEN shown[i] + 1 ELSE shown[i]]
       /\ astray' = astray \union {i \in ids : ~IsOpen(h) \/ host[h].session # message[i].to}

\* A foreground turn; it needs _turn_lock.
StartTurn(h) ==
  /\ Runs(h) /\ IsOpen(h) /\ h \in Users /\ turn[h] = "none"
  /\ turn' = [turn EXCEPT ![h] = "user"]
  /\ UNCHANGED <<registry, host, queue, available, entering, held, task, message, history, faults>>

\* drain_peer_messages at a boundary of the query loop
TakeInTurn(h) ==
  /\ Runs(h) /\ turn[h] # "none" /\ queue[h] # <<>>
  /\ Shows(h)
  /\ UNCHANGED <<registry, host, entering, held, turn, task, message, accepted, faults>>

\* The turn ends; the dispatcher's goes back to its loop, which ends with the session.
EndTurn(h) ==
  /\ Runs(h) /\ turn[h] # "none"
  /\ task' = IF turn[h] = "peer" THEN [task EXCEPT ![h] = IF IsOpen(h) THEN "waiting" ELSE "none"]
             ELSE task
  /\ turn' = [turn EXCEPT ![h] = "none"]
  /\ UNCHANGED <<registry, host, queue, available, entering, held, message, history, faults>>

\* _dispatch_peer_notifications: the event, then the lock, then a batch and its turn.
DispatcherWakes(h) ==
  /\ Runs(h) /\ task[h] = "waiting" /\ available[h]
  /\ task' = [task EXCEPT ![h] = "locking"]
  /\ UNCHANGED <<registry, host, queue, available, entering, held, turn, message, history, faults>>

Dispatch(h) ==
  /\ Runs(h) /\ task[h] = "locking" /\ turn[h] = "none"
  /\ Shows(h)
  /\ IF Valid(h) = {}
     THEN /\ task' = [task EXCEPT ![h] = IF IsOpen(h) THEN "waiting" ELSE "none"]
          /\ UNCHANGED turn
     ELSE /\ task' = [task EXCEPT ![h] = "turn"]
          /\ turn' = [turn EXCEPT ![h] = "peer"]
  /\ UNCHANGED <<registry, host, entering, held, message, accepted, faults>>
-----------------------------------------------------------------------------
(* The lifecycle of a session *)

\* new_session and resume, with _drop_peer_runtime_nowait: no turn is running.
Switch(h, s) ==
  LET r == host[h].peer
  IN /\ Runs(h) /\ IsOpen(h) /\ h \in Users /\ turn[h] = "none" /\ host[h].gen = 0
     /\ host' = [host EXCEPT ![h].session = s, ![h].gen = @ + 1, ![h].peer = None]
     /\ IF r = None THEN UNCHANGED <<runtime, removing, socket>>
        ELSE /\ runtime' = [runtime EXCEPT ![r].at = "closed"]
             /\ RemoveOwnRecord(h, r)
     /\ queue' = [queue EXCEPT ![h] = <<>>]
     /\ available' = [available EXCEPT ![h] = FALSE]
     /\ held' = [held EXCEPT ![h] = {}]
     /\ task' = [task EXCEPT ![h] = "none"]
     /\ UNCHANGED <<record, entering, turn, message, history, faults>>

\* _close_impl sets _closed.  The operations that start a runtime are over: the
\* gateway and the terminal client wait for them before they close a session.
Close(h) ==
  /\ Runs(h) /\ IsOpen(h) /\ h \in Users /\ ~Starting(h) /\ ~Draining(h)
  /\ host' = [host EXCEPT ![h].at = "closing", ![h].gen = @ + 1]
  /\ UNCHANGED <<registry, inbox, message, history, faults>>

\* _drain_session_queues; the turns and the dispatcher are cancelled.
CloseQueues(h) ==
  /\ Runs(h) /\ host[h].at = "closing"
  /\ queue' = [queue EXCEPT ![h] = <<>>]
  /\ available' = [available EXCEPT ![h] = FALSE]
  /\ held' = [held EXCEPT ![h] = {}]
  /\ turn' = [turn EXCEPT ![h] = "none"]
  /\ task' = [task EXCEPT ![h] = "none"]
  /\ host' = [host EXCEPT ![h].at = "closed"]
  /\ UNCHANGED <<registry, entering, message, history, faults>>

\* close of a runtime: the server stops, for a closed session or a former one.
CloseRuntime(h, r) ==
  /\ Runs(h) /\ host[h].peer = r /\ ~Starting(h)
  /\ \/ host[h].at = "closed"
     \/ IsOpen(h) /\ runtime[r].session # host[h].session
  /\ runtime' = [runtime EXCEPT ![r].at = "draining"]
  /\ host' = [host EXCEPT ![h].peer = None]
  /\ UNCHANGED <<record, socket, removing, inbox, message, history, faults>>

\* The connections have ended: the record and the socket go.
RuntimeClosed(h, r) ==
  /\ Runs(h) /\ runtime[r].at = "draining" /\ runtime[r].host = h
  /\ runtime' = [runtime EXCEPT ![r].at = "closed"]
  /\ RemoveOwnRecord(h, r)
  /\ UNCHANGED <<record, host, inbox, message, history, faults>>

\* A process dies and leaves its record and its socket.
Crash(h) ==
  /\ Alive(h) /\ h \in Users /\ faults < MaxFaults
  /\ faults' = faults + 1
  /\ host' = [host EXCEPT ![h].at = "dead"]
  /\ removing' = [removing EXCEPT ![h] = None]
  /\ UNCHANGED <<record, socket, runtime, inbox, message, history>>

Next ==
  \/ \E h \in Hosts :
       \/ Unlink(h) \/ StartTurn(h) \/ TakeInTurn(h) \/ EndTurn(h)
       \/ DispatcherWakes(h) \/ Dispatch(h) \/ Close(h) \/ CloseQueues(h) \/ Crash(h)
       \/ \E r \in Runtimes : \/ Ensure(h, r) \/ Publish(h, r) \/ StartFails(h, r)
                             \/ CloseRuntime(h, r) \/ RuntimeClosed(h, r)
       \/ \E s \in Sessions : FindStale(h, s) \/ Switch(h, s)
       \/ \E e \in held[h] : Decide(h, e)
       \/ \E i \in Messages, s \in Sessions : Send(i, h, s)
  \/ \E i \in Messages :
       \/ Acknowledged(i) \/ Unreached(i) \/ Receive(i)
       \/ \E h \in Hosts : Entered(h, i)

Spec == Init /\ [][Next]_vars

\* What a host does without its user, besides its turns.
Proceeds(h) ==
  Unlink(h) \/ CloseQueues(h) \/ DispatcherWakes(h) \/ \E i \in Messages : Entered(h, i)

\* The event loop of a live process goes on, the sink of events returns; a turn ends.
FairSpec ==
  /\ Spec
  /\ \A h \in Hosts : /\ WF_vars(Proceeds(h)) /\ SF_vars(Dispatch(h)) /\ WF_vars(EndTurn(h))
-----------------------------------------------------------------------------
Entry == [gen : 0..2, session : Sessions, id : Messages]
RuntimeType == [at : {"unused", "binding", "open", "draining", "closed"},
                host : Hosts \union {None}, session : Sessions \union {None}]
HostType == [at : {"open", "closing", "closed", "dead"}, session : Sessions,
             gen : 0..2, peer : Runtimes \union {None}]
MessageType == [at : {"unused", "sent", "late", "done"} \union Statuses,
                from : Hosts \union {None}, to : Sessions \union {None},
                peer : Runtimes \union {None}, result : Statuses \union {None}]

RegistryTypes ==
  /\ record \in [Sessions -> Runtimes \union {None}] /\ socket \subseteq Runtimes
  /\ runtime \in [Runtimes -> RuntimeType] /\ host \in [Hosts -> HostType]
  /\ removing \in [Hosts -> RemovalType \union {None}]
  /\ message \in [Messages -> MessageType] /\ faults \in 0..MaxFaults

InboxTypes ==
  /\ queue \in [Hosts -> Seq(Entry)] /\ held \in [Hosts -> SUBSET Entry]
  /\ \A h \in Hosts : Len(queue[h]) <= QueueSize /\ Cardinality(held[h]) <= QueueSize
  /\ available \in [Hosts -> BOOLEAN] /\ entering \subseteq Hosts \X Messages
  /\ turn \in [Hosts -> {"none", "user", "peer"}]
  /\ task \in [Hosts -> {"none", "waiting", "locking", "turn"}]
  /\ accepted \subseteq Messages /\ shown \in [Messages -> 0..2] /\ astray \subseteq Messages

\* Every variable keeps its type, and neither a queue nor the held messages exceed queue_size.
TypeOK == RegistryTypes /\ InboxTypes

\* Where a message waits: held at a host (0) or at a position of its queue.
Places(i) ==
  {[host |-> h, n |-> 0] : h \in {k \in Hosts : \E e \in held[k] : e.id = i}}
    \union {p \in [host : Hosts, n : 1..QueueSize] :
              p.n \in DOMAIN queue[p.host] /\ queue[p.host][p.n].id = i}

\* A message is for the model at most once: through approvals, late answers and
\* turns it waits in one place or has been shown (enqueue_peer_message,
\* respond_permission, _take_peer_notification_batch).
MessagesComeOnce ==
  \A i \in Messages :
    /\ shown[i] <= 1 /\ (shown[i] = 1 => Places(i) = {})
    /\ \A p, q \in Places(i) : p = q

\* What a sender is told is true: "delivered" is said of messages that entered a
\* queue of the session, "refused" of ones that never do.
AnswersAreTrue ==
  \A i \in Messages :
    /\ message[i].result = "delivered" => i \in accepted
    /\ message[i].result = "refused" => i \notin accepted /\ Places(i) = {}

\* A model sees a message only in the session it was sent to and while that is
\* open: never after a switch, never while it closes (_lifecycle_matches).
NothingGoesAstray == astray = {}

\* A model reads a message at most once, and in no other conversation.
MessagesArriveOnceAtHome == MessagesComeOnce /\ NothingGoesAstray

\* Who can be found can answer: a record of a live process names the runtime its
\* session uses now, or that runtime is being closed and the record about to go,
\* however starts, switches and closes fall together (ensure_peer_runtime).
RecordsHaveOwners ==
  \A s \in Sessions : record[s] # None =>
    LET r == record[s]
        h == runtime[r].host
    IN \/ ~Alive(h) \/ host[h].peer = r \/ runtime[r].at = "draining"
       \/ removing[h] # None /\ removing[h].runtime = r

\* Whom a sender finds can answer, and what it is told is true.
SendersKnowTheTruth == AnswersAreTrue /\ RecordsHaveOwners

\* A queued message is shown, pushed out by newer ones or dropped with its
\* session: no wakeup of the dispatcher is lost.
QueuesAreServed ==
  \A h \in Hosts : []<>(queue[h] = <<>> \/ ~Alive(h))
=============================================================================
