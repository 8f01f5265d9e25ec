----------------------------- MODULE Peer_proofs -----------------------------
(***************************************************************************)
(* Proofs about messages between sessions, for any number of hosts,        *)
(* sessions, runtimes, messages and faults, and for any queue and batch.   *)
(***************************************************************************)
EXTENDS Peer, FiniteSetTheorems, SequenceTheorems, TLAPS

\* A runtime that was started has a host and a session.
Started(r) == runtime[r].at # "unused"
Owned == \A r \in Runtimes : Started(r) => runtime[r].host \in Hosts /\ runtime[r].session \in Sessions

\* A record names a runtime of its session that was published.
Recorded ==
  \A s \in Sessions : record[s] # None =>
    runtime[record[s]].at \in {"open", "draining", "closed"} /\ runtime[record[s]].session = s

\* The runtime a host uses is its own and open.
Used == \A h \in Hosts : host[h].peer # None =>
          runtime[host[h].peer].host = h /\ runtime[host[h].peer].at = "open"

\* A host starts one runtime at a time, when it uses none (the lock of ensure_peer_runtime).
OneStarts ==
  \A r \in Runtimes : runtime[r].at = "binding" =>
    /\ host[runtime[r].host].peer = None
    /\ \A q \in Runtimes : runtime[q].at = "binding" /\ runtime[q].host = runtime[r].host => q = r

\* What is about to be unlinked is the path of the runtime that was read there.
Read == \A h \in Hosts : removing[h] # None =>
          /\ Started(removing[h].runtime)
          /\ runtime[removing[h].runtime].session = removing[h].session

\* A session is opened at most twice.
Generations == \A h \in Hosts : IsOpen(h) => host[h].gen <= 1

\* A message that was sent has a sender, and a runtime that may receive it.
Addressed ==
  \A i \in Messages : message[i].at # "unused" =>
    /\ message[i].from \in Hosts /\ message[i].to \in Sessions
    /\ message[i].peer \in Runtimes /\ Started(message[i].peer)

Registry ==
  /\ Owned /\ Recorded /\ Used /\ OneStarts /\ Read /\ Generations /\ Addressed
  /\ RecordsHaveOwners

FewHeld == \A h \in Hosts : IsFiniteSet(held[h])

RInv == RegistryTypes /\ Registry
-----------------------------------------------------------------------------
\* The host that a message was sent to.
Home(i) == runtime[message[i].peer].host

\* What waits at a host was sent to its session there.
Belonging(h, e) == message[e.id].at # "unused" /\ Home(e.id) = h /\ message[e.id].to = e.session

InQueue(h, i) == \E n \in DOMAIN queue[h] : queue[h][n].id = i
IsHeld(h, i) == \E e \in held[h] : e.id = i

\* A message that the receiver has not decided about.
Undecided(i) == message[i].at \in {"unused", "sent", "late"} /\ \A h \in Hosts : <<h, i>> \notin entering

\* The queue of a host: each message in it was accepted, is there once and was not shown.
QueueInv(h) ==
  \A n \in DOMAIN queue[h] :
    /\ Belonging(h, queue[h][n])
    /\ queue[h][n].id \in accepted /\ shown[queue[h][n].id] = 0
    /\ \A p \in DOMAIN queue[h] : queue[h][p].id = queue[h][n].id => p = n

\* The held messages of a host: each is there once and was not accepted.
HeldInv(h) ==
  \A e \in held[h] :
    /\ Belonging(h, e) /\ e.id \notin accepted
    /\ \A f \in held[h] : f.id = e.id => f = e

\* What has become of a message, and what its sender is told.
MessageInv(i) ==
  /\ \A h \in Hosts : <<h, i>> \in entering =>
       i \in accepted /\ message[i].at # "unused" /\ Home(i) = h
  /\ Undecided(i) => i \notin accepted /\ \A h \in Hosts : ~IsHeld(h, i)
  /\ message[i].at \in {"unused", "sent", "late"} => message[i].result # "refused"
  /\ shown[i] \in {0, 1} /\ (shown[i] = 1 => i \in accepted)
  /\ "delivered" \in {message[i].at, message[i].result} => i \in accepted
  /\ "refused" \in {message[i].at, message[i].result} =>
       i \notin accepted /\ \A h \in Hosts : ~IsHeld(h, i)

MInv ==
  /\ \A h \in Hosts : QueueInv(h) /\ HeldInv(h)
  /\ \A i \in Messages : MessageInv(i)
  /\ NothingGoesAstray
-----------------------------------------------------------------------------
(* The registry *)

LEMMA EnsureRegistry ==
  ASSUME RInv, NEW h \in Hosts, NEW r \in Runtimes, Ensure(h, r)
  PROVE  RInv'
<1>1. RegistryTypes'
  BY BoundsAssumption DEF Ensure, RInv, RegistryTypes, RuntimeType, HostType
<1>2. Owned'
  BY DEF Ensure, RInv, Registry, Owned, Started, RegistryTypes, HostType
<1>3. Recorded'
  BY BoundsAssumption DEF Ensure, RInv, Registry, Recorded
<1>4. Used'
  BY BoundsAssumption DEF Ensure, RInv, Registry, Used
<1>5. OneStarts'
  BY BoundsAssumption DEF Ensure, Starting, RInv, Registry, OneStarts
<1>6. Read'
  BY BoundsAssumption DEF Ensure, RInv, Registry, Read, Started
<1>7. Generations'
  BY BoundsAssumption DEF Ensure, IsOpen, RInv, Registry, Generations
<1>8. Addressed'
  BY BoundsAssumption DEF Ensure, RInv, Registry, Addressed, Started
<1>9. RecordsHaveOwners'
  BY BoundsAssumption DEF Ensure, RInv, Registry, RecordsHaveOwners, Recorded, Alive
<1> QED BY <1>1, <1>2, <1>3, <1>4, <1>5, <1>6, <1>7, <1>8, <1>9 DEF RInv, Registry

LEMMA PublishRegistry ==
  ASSUME RInv, NEW h \in Hosts, NEW r \in Runtimes, Publish(h, r)
  PROVE  RInv'
<1>1. RegistryTypes'
  <2>0. RegistryTypes BY DEF RInv
  <2>3. host' \in [Hosts -> HostType]
    <3>1. host[h] \in HostType
      BY <2>0 DEF RegistryTypes
    <3>2. [host[h] EXCEPT !.peer = r] \in HostType
      BY <3>1 DEF HostType
    <3>3. host' = [host EXCEPT ![h] = [host[h] EXCEPT !.peer = r]]
      BY DEF Publish
    <3> QED BY <2>0, <3>2, <3>3 DEF RegistryTypes
  <2>4. runtime' \in [Runtimes -> RuntimeType]
    <3>1. [runtime[r] EXCEPT !.at = "open"] \in RuntimeType
      BY <2>0 DEF RegistryTypes, RuntimeType
    <3>2. runtime' = [runtime EXCEPT ![r] = [runtime[r] EXCEPT !.at = "open"]]
      BY DEF Publish
    <3> QED BY <2>0, <3>1, <3>2 DEF RegistryTypes
  <2> QED BY <2>0, <2>3, <2>4 DEF Publish, RegistryTypes, history
<1>2. Owned'
  BY BoundsAssumption DEF Publish, RInv, Registry, Owned, Started
<1>3. Recorded'
  BY BoundsAssumption DEF Publish, RInv, Registry, Recorded, RegistryTypes
<1>4. Used'
  BY BoundsAssumption DEF Publish, RInv, Registry, Used, RegistryTypes
<1>5. OneStarts'
  BY BoundsAssumption DEF Publish, RInv, Registry, OneStarts, RegistryTypes
<1>6. Read'
  BY BoundsAssumption DEF Publish, RInv, Registry, Read, Started
<1>7. Generations'
  BY BoundsAssumption DEF Publish, RInv, Registry, Generations, IsOpen
<1>8. Addressed'
  BY BoundsAssumption DEF Publish, RInv, Registry, Addressed, Started
<1>9. RecordsHaveOwners'
  BY BoundsAssumption DEF Publish, RInv, Registry, RecordsHaveOwners, OneStarts, Alive,
     RegistryTypes
<1> QED BY <1>1, <1>2, <1>3, <1>4, <1>5, <1>6, <1>7, <1>8, <1>9 DEF RInv, Registry

LEMMA StartFailsRegistry ==
  ASSUME RInv, NEW h \in Hosts, NEW r \in Runtimes, StartFails(h, r)
  PROVE  RInv'
<1>1. RegistryTypes'
  BY SMTT(60), BoundsAssumption DEF StartFails, Runs, RInv, Registry, Recorded, Generations, Addressed,
     RegistryTypes, RuntimeType, HostType, RemovalType, MessageType, Statuses
<1>2. Owned'
  BY BoundsAssumption DEF StartFails, Runs, RInv, Registry, Owned, Started, RegistryTypes,
     RuntimeType
<1>3. Recorded'
  BY BoundsAssumption DEF StartFails, Runs, RInv, Registry, Recorded, Owned, Started,
     RegistryTypes, RuntimeType
<1>4. Used'
  BY BoundsAssumption DEF StartFails, Runs, RInv, Registry, Used, OneStarts, RegistryTypes,
     RuntimeType, HostType
<1>5. OneStarts'
  BY BoundsAssumption DEF StartFails, Runs, RInv, Registry, OneStarts, Used, Owned, Started,
     RegistryTypes, RuntimeType, HostType
<1>6. Read'
  BY BoundsAssumption DEF StartFails, Runs, RInv, Registry, Read, Recorded, Started, Owned,
     RegistryTypes, RuntimeType, RemovalType
<1>7. Generations'
  BY BoundsAssumption DEF StartFails, Runs, RInv, Registry, Generations, IsOpen, RegistryTypes,
     HostType
<1>8. Addressed'
  BY BoundsAssumption DEF StartFails, Runs, RInv, Registry, Addressed, Started, Recorded,
     RegistryTypes, RuntimeType, MessageType
<1>9. RecordsHaveOwners'
  BY BoundsAssumption DEF StartFails, Runs, RInv, Registry, RecordsHaveOwners, Recorded, Used,
     OneStarts, Read, Owned, Started, Alive, RegistryTypes, RuntimeType, HostType, RemovalType
<1> QED BY <1>1, <1>2, <1>3, <1>4, <1>5, <1>6, <1>7, <1>8, <1>9 DEF RInv, Registry

LEMMA FindStaleRegistry ==
  ASSUME RInv, NEW h \in Hosts, NEW s \in Sessions, FindStale(h, s)
  PROVE  RInv'
<1>1. RegistryTypes'
  BY BoundsAssumption DEF FindStale, Removal, RInv, RegistryTypes, RemovalType
<1>2. Owned'
  BY BoundsAssumption DEF FindStale, RInv, Registry, Owned, Started
<1>3. Recorded'
  BY BoundsAssumption DEF FindStale, RInv, Registry, Recorded
<1>4. Used'
  BY BoundsAssumption DEF FindStale, RInv, Registry, Used
<1>5. OneStarts'
  BY BoundsAssumption DEF FindStale, RInv, Registry, OneStarts
<1>6. Read'
  BY BoundsAssumption DEF FindStale, Removal, RInv, Registry, Read, Recorded, Started
<1>7. Generations'
  BY BoundsAssumption DEF FindStale, IsOpen, RInv, Registry, Generations
<1>8. Addressed'
  BY BoundsAssumption DEF FindStale, RInv, Registry, Addressed, Started
<1>9. RecordsHaveOwners'
  BY BoundsAssumption DEF FindStale, Runs, Removal, RInv, Registry, RecordsHaveOwners, Alive
<1> QED BY <1>1, <1>2, <1>3, <1>4, <1>5, <1>6, <1>7, <1>8, <1>9 DEF RInv, Registry

LEMMA UnlinkRegistry ==
  ASSUME RInv, NEW h \in Hosts, Unlink(h)
  PROVE  RInv'
<1>1. RegistryTypes'
  BY BoundsAssumption DEF Unlink, RInv, RegistryTypes
<1>2. Owned'
  BY BoundsAssumption DEF Unlink, RInv, Registry, Owned, Started
<1>3. Recorded'
  BY BoundsAssumption DEF Unlink, RInv, Registry, Recorded
<1>4. Used'
  BY BoundsAssumption DEF Unlink, RInv, Registry, Used
<1>5. OneStarts'
  BY BoundsAssumption DEF Unlink, RInv, Registry, OneStarts
<1>6. Read'
  BY BoundsAssumption DEF Unlink, RInv, Registry, Read, Started
<1>7. Generations'
  BY BoundsAssumption DEF Unlink, RInv, Registry, Generations, IsOpen
<1>8. Addressed'
  BY BoundsAssumption DEF Unlink, RInv, Registry, Addressed, Started
<1>9. RecordsHaveOwners'
  BY BoundsAssumption DEF Unlink, RInv, Registry, RecordsHaveOwners, Recorded, Read, Alive,
     RegistryTypes
<1> QED BY <1>1, <1>2, <1>3, <1>4, <1>5, <1>6, <1>7, <1>8, <1>9 DEF RInv, Registry

LEMMA UnreachedRegistry ==
  ASSUME RInv, NEW i \in Messages, Unreached(i)
  PROVE  RInv'
<1>1. RegistryTypes'
  <2>0. RegistryTypes BY DEF RInv
  <2>1. message' \in [Messages -> MessageType]
    <3>1. PICK x : message' = [message EXCEPT ![i] = [message[i] EXCEPT !.at = x, !.result = "failed"]] /\ x \in {"late", "done"}
      BY DEF Unreached
    <3>2. [message[i] EXCEPT !.at = x, !.result = "failed"] \in MessageType
      BY ZenonT(60), <2>0, <3>1 DEF RegistryTypes, MessageType, Statuses
    <3> QED BY <2>0, <3>1, <3>2 DEF RegistryTypes
  <2>2. removing' \in [Hosts -> RemovalType \union {None}]
    <3>1. message[i].from \in Hosts /\ message[i].to \in Sessions /\ message[i].peer \in Runtimes
      BY DEF RInv, Registry, Addressed, Unreached
    <3>2. Removal(message[i].to, message[i].peer, FALSE) \in RemovalType
      BY <3>1 DEF Removal, RemovalType
    <3> QED BY <2>0, <3>1, <3>2 DEF Unreached, RegistryTypes
  <2>3. faults' \in 0..MaxFaults
    BY <2>0, BoundsAssumption DEF Unreached, RegistryTypes
  <2> QED BY <2>0, <2>1, <2>2, <2>3 DEF Unreached, RegistryTypes
<1>2. Owned'
  BY BoundsAssumption DEF Unreached, RInv, Registry, Owned, Started
<1>3. Recorded'
  BY BoundsAssumption DEF Unreached, RInv, Registry, Recorded
<1>4. Used'
  BY BoundsAssumption DEF Unreached, RInv, Registry, Used
<1>5. OneStarts'
  BY BoundsAssumption DEF Unreached, RInv, Registry, OneStarts
<1>6. Read'
  <2>1. \A k \in Hosts : removing'[k] = removing[k]
                        \/ (record[message[i].to] = message[i].peer
                            /\ removing'[k] = Removal(message[i].to, message[i].peer, FALSE))
    BY DEF Unreached, RInv, RegistryTypes
  <2>2. runtime' = runtime /\ message[i].to \in Sessions /\ message[i].peer \in Runtimes
    BY DEF Unreached, RInv, Registry, Addressed
  <2>3. record[message[i].to] = message[i].peer =>
          Started(message[i].peer) /\ runtime[message[i].peer].session = message[i].to
    BY <2>2, BoundsAssumption DEF RInv, Registry, Recorded, Started
  <2> QED BY <2>1, <2>2, <2>3 DEF Removal, RInv, Registry, Read, Started
<1>7. Generations'
  BY BoundsAssumption DEF Unreached, RInv, Registry, Generations, IsOpen
<1>8. Addressed'
  <2>1. message[i].at # "unused" /\ UNCHANGED <<runtime, host>>
    BY DEF Unreached
  <2>2. PICK x : message' = [message EXCEPT ![i] = [message[i] EXCEPT !.at = x, !.result = "failed"]]
    BY DEF Unreached
  <2>3. message \in [Messages -> MessageType]
    BY DEF RInv, RegistryTypes
  <2>4. \A j \in Messages : /\ message'[j].from = message[j].from /\ message'[j].to = message[j].to
                            /\ message'[j].peer = message[j].peer
                            /\ message'[j].at # "unused" => message[j].at # "unused"
    BY <2>1, <2>2, <2>3 DEF MessageType
  <2> QED BY <2>1, <2>4 DEF RInv, Registry, Addressed, Started
<1>9. RecordsHaveOwners'
  <2>1. UNCHANGED <<record, runtime, host>> /\ Runs(message[i].from)
    BY DEF Unreached
  <2>2. removing' = removing \/ \E x : removing' = [removing EXCEPT ![message[i].from] = x]
    BY DEF Unreached
  <2>3. \A k \in Hosts : removing[k] # None => removing'[k] = removing[k]
    BY <2>1, <2>2 DEF Runs, RInv, RegistryTypes
  <2>4. \A s \in Sessions : record[s] # None =>
          Started(record[s]) /\ record[s] \in Runtimes /\ runtime[record[s]].host \in Hosts
    BY DEF RInv, RegistryTypes, Registry, Recorded, Owned, Started
  <2> QED BY <2>1, <2>3, <2>4 DEF RInv, Registry, RecordsHaveOwners, Alive
<1> QED BY <1>1, <1>2, <1>3, <1>4, <1>5, <1>6, <1>7, <1>8, <1>9 DEF RInv, Registry

LEMMA SwitchRegistry ==
  ASSUME RInv, NEW h \in Hosts, NEW s \in Sessions, Switch(h, s)
  PROVE  RInv'
<1>0. \A q \in Runtimes : /\ Started(q)' <=> Started(q)
                          /\ runtime'[q].host = runtime[q].host
                          /\ runtime'[q].session = runtime[q].session
  BY SMTT(60), BoundsAssumption DEF Switch, Started, RInv, Registry, Used, RegistryTypes, RuntimeType
<1>1. RegistryTypes'
  BY BoundsAssumption DEF Switch, RInv, RegistryTypes, HostType
<1>2. Owned'
  BY <1>0 DEF RInv, Registry, Owned
<1>3. Recorded'
  <2>1. \A q \in Runtimes : runtime[q].at \in {"open", "draining", "closed"} =>
                              runtime'[q].at \in {"open", "draining", "closed"}
    BY DEF Switch, RInv, RegistryTypes, RuntimeType
  <2> QED BY <1>0, <2>1 DEF Switch, RInv, Registry, Recorded, RegistryTypes
<1>4. Used'
  BY BoundsAssumption DEF Switch, Runs, RInv, Registry, RegistryTypes, HostType
<1>5. OneStarts'
  BY BoundsAssumption DEF Switch, RInv, RegistryTypes, HostType
<1>6. Read'
  <2>1. \A k \in Hosts : removing'[k] = removing[k]
                        \/ (removing'[k] = Removal(runtime[host[h].peer].session, host[h].peer, TRUE)
                            /\ host[h].peer \in Runtimes)
    BY DEF Switch, RInv, RegistryTypes, HostType
  <2>2. host[h].peer \in Runtimes => Started(host[h].peer)
    BY BoundsAssumption DEF RInv, Registry, Used, Started
  <2>3. \A k \in Hosts : removing[k] # None => removing[k].runtime \in Runtimes
    BY DEF RInv, RegistryTypes, RemovalType
  <2> QED BY <1>0, <2>1, <2>2, <2>3 DEF Removal, RInv, Registry, Read
<1>7. Generations'
  BY BoundsAssumption DEF Switch, RInv, RegistryTypes, HostType
<1>8. Addressed'
  BY <1>0 DEF Switch, RInv, Registry, Addressed
<1>9. RecordsHaveOwners'
  BY BoundsAssumption DEF Switch, RInv, RegistryTypes, HostType
<1> QED BY <1>1, <1>2, <1>3, <1>4, <1>5, <1>6, <1>7, <1>8, <1>9 DEF RInv, Registry

LEMMA CloseRegistry ==
  ASSUME RInv, NEW h \in Hosts, Close(h)
  PROVE  RInv'
<1>1. RegistryTypes'
  BY BoundsAssumption DEF Close, RInv, Registry, Addressed, RegistryTypes, RuntimeType, HostType
<1>2. Owned'
  BY BoundsAssumption DEF Close, registry, RInv, Registry, Owned, Started
<1>3. Recorded'
  BY BoundsAssumption DEF Close, registry, RInv, Registry, Recorded
<1>4. Used'
  BY BoundsAssumption DEF Close, registry, RInv, Registry, Used, RegistryTypes
<1>5. OneStarts'
  BY BoundsAssumption DEF Close, RInv, RegistryTypes, HostType
<1>6. Read'
  BY BoundsAssumption DEF Close, registry, RInv, Registry, Read, Started
<1>7. Generations'
  BY BoundsAssumption DEF Close, RInv, RegistryTypes, HostType
<1>8. Addressed'
  BY BoundsAssumption DEF Close, registry, RInv, Registry, Addressed, Started
<1>9. RecordsHaveOwners'
  <2>1. \A k \in Hosts : host'[k].peer = host[k].peer /\ (Alive(k)' => Alive(k))
    BY DEF Close, RInv, RegistryTypes, HostType
  <2>2. \A s \in Sessions : record[s] # None => runtime[record[s]].host \in Hosts
    BY BoundsAssumption DEF RInv, Registry, Recorded, Owned, Started, RegistryTypes
  <2> QED BY <2>1, <2>2 DEF Close, registry, RInv, Registry, RecordsHaveOwners
<1> QED BY <1>1, <1>2, <1>3, <1>4, <1>5, <1>6, <1>7, <1>8, <1>9 DEF RInv, Registry

LEMMA CloseQueuesRegistry ==
  ASSUME RInv, NEW h \in Hosts, CloseQueues(h)
  PROVE  RInv'
<1>1. RegistryTypes'
  <2>0. RegistryTypes BY DEF RInv
  <2>1. host' \in [Hosts -> HostType]
    <3>1. [host[h] EXCEPT !.at = "closed"] \in HostType
      BY <2>0 DEF RegistryTypes, HostType
    <3>2. host' = [host EXCEPT ![h] = [host[h] EXCEPT !.at = "closed"]]
      BY DEF CloseQueues
    <3> QED BY <2>0, <3>1, <3>2 DEF RegistryTypes
  <2> QED BY <2>0, <2>1 DEF CloseQueues, RegistryTypes, registry
<1>2. Owned'
  BY BoundsAssumption DEF CloseQueues, registry, RInv, Registry, Owned, Started
<1>3. Recorded'
  BY BoundsAssumption DEF CloseQueues, registry, RInv, Registry, Recorded
<1>4. Used'
  BY BoundsAssumption DEF CloseQueues, registry, RInv, Registry, Used
<1>5. OneStarts'
  BY BoundsAssumption DEF CloseQueues, registry, RInv, Registry, OneStarts
<1>6. Read'
  BY BoundsAssumption DEF CloseQueues, registry, RInv, Registry, Read, Started
<1>7. Generations'
  BY BoundsAssumption DEF CloseQueues, RInv, Registry, Generations, IsOpen
<1>8. Addressed'
  BY BoundsAssumption DEF CloseQueues, registry, RInv, Registry, Addressed, Started
<1>9. RecordsHaveOwners'
  BY BoundsAssumption DEF CloseQueues, registry, RInv, Registry, RecordsHaveOwners, Alive
<1> QED BY <1>1, <1>2, <1>3, <1>4, <1>5, <1>6, <1>7, <1>8, <1>9 DEF RInv, Registry

LEMMA CloseRuntimeRegistry ==
  ASSUME RInv, NEW h \in Hosts, NEW r \in Runtimes, CloseRuntime(h, r)
  PROVE  RInv'
<1>0. \A q \in Runtimes : /\ Started(q)' <=> Started(q)
                          /\ runtime'[q].host = runtime[q].host
                          /\ runtime'[q].session = runtime[q].session
  BY BoundsAssumption DEF CloseRuntime, Started, RInv, Registry, Used
<1>1. RegistryTypes'
  <2>0. RegistryTypes
    BY DEF RInv
  <2>1. runtime' \in [Runtimes -> RuntimeType]
    <3>1. [runtime[r] EXCEPT !.at = "draining"] \in RuntimeType
      BY <2>0 DEF RegistryTypes, RuntimeType
    <3>2. runtime' = [runtime EXCEPT ![r] = [runtime[r] EXCEPT !.at = "draining"]]
      BY DEF CloseRuntime
    <3> QED BY <2>0, <3>1, <3>2 DEF RegistryTypes
  <2>2. host' \in [Hosts -> HostType]
    <3>1. [host[h] EXCEPT !.peer = None] \in HostType
      BY <2>0 DEF RegistryTypes, HostType
    <3>2. host' = [host EXCEPT ![h] = [host[h] EXCEPT !.peer = None]]
      BY DEF CloseRuntime
    <3> QED BY <2>0, <3>1, <3>2 DEF RegistryTypes
  <2> QED BY <2>0, <2>1, <2>2 DEF CloseRuntime, RegistryTypes, history
<1>2. Owned'
  BY <1>0 DEF RInv, Registry, Owned
<1>3. Recorded'
  BY BoundsAssumption DEF CloseRuntime, RInv, Registry, Recorded
<1>4. Used'
  BY BoundsAssumption DEF CloseRuntime, RInv, Registry, Used, RegistryTypes
<1>5. OneStarts'
  BY BoundsAssumption DEF CloseRuntime, RInv, Registry, OneStarts
<1>6. Read'
  BY BoundsAssumption DEF CloseRuntime, RInv, Registry, Read, Started
<1>7. Generations'
  BY BoundsAssumption DEF CloseRuntime, IsOpen, RInv, Registry, Generations
<1>8. Addressed'
  BY BoundsAssumption DEF CloseRuntime, RInv, Registry, Addressed, Started
<1>9. RecordsHaveOwners'
  BY BoundsAssumption DEF CloseRuntime, RInv, Registry, RecordsHaveOwners, Alive, RegistryTypes
<1> QED BY <1>1, <1>2, <1>3, <1>4, <1>5, <1>6, <1>7, <1>8, <1>9 DEF RInv, Registry

LEMMA RuntimeClosedRegistry ==
  ASSUME RInv, NEW h \in Hosts, NEW r \in Runtimes, RuntimeClosed(h, r)
  PROVE  RInv'
<1>0. \A q \in Runtimes : /\ Started(q)' <=> Started(q)
                          /\ runtime'[q].host = runtime[q].host
                          /\ runtime'[q].session = runtime[q].session
  BY BoundsAssumption DEF RuntimeClosed, Started
<1>1. RegistryTypes'
  <2>0. RegistryTypes BY DEF RInv
  <2>1. runtime' \in [Runtimes -> RuntimeType]
    <3>1. [runtime[r] EXCEPT !.at = "closed"] \in RuntimeType
      BY <2>0 DEF RegistryTypes, RuntimeType
    <3>2. runtime' = [runtime EXCEPT ![r] = [runtime[r] EXCEPT !.at = "closed"]]
      BY DEF RuntimeClosed
    <3> QED BY <2>0, <3>1, <3>2 DEF RegistryTypes
  <2>2. removing' \in [Hosts -> RemovalType \union {None}] /\ socket' \subseteq Runtimes
    <3>1. runtime[r].session \in Sessions
      BY DEF RInv, Registry, Owned, Started, RuntimeClosed
    <3>2. Removal(runtime[r].session, r, TRUE) \in RemovalType
      BY <3>1 DEF Removal, RemovalType
    <3> QED BY <2>0, <3>1, <3>2 DEF RuntimeClosed, RemoveOwnRecord, RegistryTypes
  <2> QED BY <2>0, <2>1, <2>2 DEF RuntimeClosed, RegistryTypes, history
<1>2. Owned'
  BY BoundsAssumption DEF RuntimeClosed, RInv, Registry, Owned, Started
<1>3. Recorded'
  BY BoundsAssumption DEF RuntimeClosed, RInv, Registry, Recorded
<1>4. Used'
  BY BoundsAssumption DEF RuntimeClosed, RInv, Registry, Used
<1>5. OneStarts'
  BY BoundsAssumption DEF RuntimeClosed, RInv, Registry, OneStarts
<1>6. Read'
  <2>1. \A k \in Hosts : removing'[k] = removing[k]
                        \/ removing'[k] = Removal(runtime[r].session, r, TRUE)
    BY DEF RuntimeClosed, RemoveOwnRecord, RInv, RegistryTypes
  <2>2. Started(r)
    BY DEF RuntimeClosed, Started
  <2>3. \A k \in Hosts : removing[k] # None => removing[k].runtime \in Runtimes
    BY DEF RInv, RegistryTypes, RemovalType
  <2> QED BY <1>0, <2>1, <2>2, <2>3 DEF Removal, RInv, Registry, Read
<1>7. Generations'
  BY BoundsAssumption DEF RuntimeClosed, RInv, Registry, Generations, IsOpen
<1>8. Addressed'
  BY BoundsAssumption DEF RuntimeClosed, RInv, Registry, Addressed, Started
<1>9. RecordsHaveOwners'
  <2> SUFFICES ASSUME NEW s \in Sessions, record'[s] # None
      PROVE  \/ host'[runtime'[record'[s]].host].at \notin {"open", "closing", "closed"}
             \/ host'[runtime'[record'[s]].host].peer = record'[s]
             \/ runtime'[record'[s]].at = "draining"
             \/ /\ removing'[runtime'[record'[s]].host] # None
                /\ removing'[runtime'[record'[s]].host].runtime = record'[s]
    BY DEF RecordsHaveOwners, Alive
  <2>1. record[s] \in Runtimes /\ record' = record /\ host' = host
    BY DEF RuntimeClosed, RInv, RegistryTypes
  <2>2. runtime'[record[s]].host = runtime[record[s]].host
    BY <1>0, <2>1
  <2>3. CASE record[s] = r
    <3>1. Started(r) /\ runtime[r].host = h /\ removing[h] = None
      BY DEF RuntimeClosed, Runs, Started
    <3>2. runtime[r].session = s
      BY <2>1, <2>3, BoundsAssumption DEF RInv, Registry, Recorded
    <3>3. removing'[h] = Removal(s, r, TRUE)
      BY <2>3, <3>2 DEF RuntimeClosed, RemoveOwnRecord, RInv, RegistryTypes
    <3>4. Removal(s, r, TRUE) # None
      <4>1. Removal(s, r, TRUE) \in RemovalType
        BY DEF Removal, RemovalType
      <4> QED BY <4>1, BoundsAssumption
    <3> QED BY <2>1, <2>2, <2>3, <3>1, <3>3, <3>4 DEF Removal
  <2>4. CASE record[s] # r
    <3>1. runtime'[record[s]] = runtime[record[s]]
      BY <2>1, <2>4 DEF RuntimeClosed, RInv, RegistryTypes
    <3>2. removing[h] = None
      BY DEF RuntimeClosed, Runs
    <3>3. \A k \in Hosts : removing[k] # None => removing'[k] = removing[k]
      BY <3>2 DEF RuntimeClosed, RemoveOwnRecord, RInv, RegistryTypes
    <3>4. runtime[record[s]].host \in Hosts
      BY <2>1, BoundsAssumption DEF RInv, Registry, Recorded, Owned, Started
    <3>5. \/ host[runtime[record[s]].host].at \notin {"open", "closing", "closed"}
          \/ host[runtime[record[s]].host].peer = record[s]
          \/ runtime[record[s]].at = "draining"
          \/ /\ removing[runtime[record[s]].host] # None
             /\ removing[runtime[record[s]].host].runtime = record[s]
      BY <2>1 DEF RInv, Registry, RecordsHaveOwners, Alive
    <3> QED BY <2>1, <3>1, <3>3, <3>4, <3>5
  <2> QED BY <2>3, <2>4
<1> QED BY <1>1, <1>2, <1>3, <1>4, <1>5, <1>6, <1>7, <1>8, <1>9 DEF RInv, Registry

LEMMA CrashRegistry ==
  ASSUME RInv, NEW h \in Hosts, Crash(h)
  PROVE  RInv'
<1>1. RegistryTypes'
  <2>0. RegistryTypes BY DEF RInv
  <2>1. host' \in [Hosts -> HostType]
    <3>1. [host[h] EXCEPT !.at = "dead"] \in HostType
      BY <2>0 DEF RegistryTypes, HostType
    <3>2. host' = [host EXCEPT ![h] = [host[h] EXCEPT !.at = "dead"]]
      BY DEF Crash
    <3> QED BY <2>0, <3>1, <3>2 DEF RegistryTypes
  <2> QED BY <2>0, <2>1, BoundsAssumption DEF Crash, RegistryTypes
<1>2. Owned'
  BY BoundsAssumption DEF Crash, RInv, Registry, Owned, Started
<1>3. Recorded'
  BY BoundsAssumption DEF Crash, RInv, Registry, Recorded
<1>4. Used'
  BY BoundsAssumption DEF Crash, RInv, Registry, Used
<1>5. OneStarts'
  BY BoundsAssumption DEF Crash, RInv, Registry, OneStarts
<1>6. Read'
  BY BoundsAssumption DEF Crash, RInv, Registry, Read, Started
<1>7. Generations'
  BY BoundsAssumption DEF Crash, RInv, Registry, Generations, IsOpen
<1>8. Addressed'
  BY BoundsAssumption DEF Crash, RInv, Registry, Addressed, Started
<1>9. RecordsHaveOwners'
  BY BoundsAssumption DEF Crash, RInv, Registry, RecordsHaveOwners, Alive, RegistryTypes
<1> QED BY <1>1, <1>2, <1>3, <1>4, <1>5, <1>6, <1>7, <1>8, <1>9 DEF RInv, Registry

LEMMA SameRegistry ==
  ASSUME RInv, UNCHANGED <<registry, host>>, faults' \in 0..MaxFaults,
         message' \in [Messages -> MessageType], Addressed'
  PROVE  RInv'
<1>1. RegistryTypes'
  BY DEF registry, RInv, RegistryTypes
<1>2. Owned' /\ Recorded' /\ Used' /\ OneStarts' /\ Read' /\ Generations'
  BY DEF registry, RInv, Registry, Owned, Recorded, Used, OneStarts, Read, Generations, Started,
     IsOpen
<1>3. RecordsHaveOwners'
  BY DEF registry, RInv, Registry, RecordsHaveOwners, Alive
<1> QED BY <1>1, <1>2, <1>3 DEF RInv, Registry

LEMMA SendRegistry ==
  ASSUME RInv, NEW h \in Hosts, NEW s \in Sessions, NEW i \in Messages, Send(i, h, s)
  PROVE  RInv'
<1>1. record[s] \in Runtimes /\ Started(record[s])
  BY BoundsAssumption DEF Send, RInv, RegistryTypes, Registry, Recorded, Started
<1>2. [at |-> "sent", from |-> h, to |-> s, peer |-> record[s], result |-> None] \in MessageType
  BY <1>1 DEF MessageType
<1>3. message' = [message EXCEPT ![i] =
                   [at |-> "sent", from |-> h, to |-> s, peer |-> record[s], result |-> None]]
  BY DEF Send
<1>4. message' \in [Messages -> MessageType]
  BY <1>2, <1>3 DEF RInv, RegistryTypes
<1>5. Addressed'
  BY <1>1, <1>3 DEF Send, registry, RInv, RegistryTypes, Registry, Addressed, Started
<1> QED BY <1>4, <1>5, SameRegistry DEF Send, RInv, RegistryTypes

\* A message that was sent is only ever marked.
LEMMA MarkedRegistry ==
  ASSUME RInv, UNCHANGED <<registry, host, faults>>, NEW i \in Messages, NEW a, NEW b,
         message' = [message EXCEPT ![i] = [message[i] EXCEPT !.at = a, !.result = b]],
         a \in {"late", "done"} \union Statuses, b \in Statuses \union {None},
         message[i].at # "unused"
  PROVE  RInv'
<1>1. [message[i] EXCEPT !.at = a, !.result = b] \in MessageType
  BY DEF RInv, RegistryTypes, MessageType
<1>2. message' \in [Messages -> MessageType]
  BY <1>1 DEF RInv, RegistryTypes
<1>3. Addressed'
  BY DEF registry, RInv, RegistryTypes, MessageType, Registry, Addressed, Started
<1> QED BY <1>2, <1>3, SameRegistry DEF RInv, RegistryTypes

LEMMA AnswerRegistry ==
  ASSUME RInv, UNCHANGED <<registry, host, faults>>, NEW i \in Messages, NEW x \in Statuses,
         Answer(i, x), message[i].at # "unused"
  PROVE  RInv'
<1>1. PICK a \in {"done"} \union Statuses :
        message' = [message EXCEPT ![i] = [message[i] EXCEPT !.at = a]]
  BY DEF Answer
<1>2. [message[i] EXCEPT !.at = a] \in MessageType
  BY DEF RInv, RegistryTypes, MessageType
<1>3. message' \in [Messages -> MessageType]
  BY <1>1, <1>2 DEF RInv, RegistryTypes
<1>4. Addressed'
  BY <1>1 DEF registry, RInv, RegistryTypes, MessageType, Registry, Addressed, Started
<1> QED BY <1>3, <1>4, SameRegistry DEF RInv, RegistryTypes

LEMMA AcknowledgedRegistry ==
  ASSUME RInv, NEW i \in Messages, Acknowledged(i)
  PROVE  RInv'
<1>1. message' = [message EXCEPT ![i] = [message[i] EXCEPT !.at = "done", !.result = message[i].at]]
  BY DEF Acknowledged
<1> QED BY <1>1, MarkedRegistry DEF Acknowledged, Statuses

LEMMA SameMessages ==
  ASSUME RInv, UNCHANGED <<registry, host, faults, message>>
  PROVE  RInv'
BY SameRegistry DEF RInv, RegistryTypes, Registry, Addressed, Started, registry

LEMMA InitRInv == Init => RInv
<1> SUFFICES ASSUME Init PROVE RInv
  OBVIOUS
<1>1. RegistryTypes
  BY BoundsAssumption DEF Init, RegistryTypes, RuntimeType, HostType, RemovalType, MessageType,
     Statuses
<1>2. Registry
  BY BoundsAssumption DEF Init, Registry, Owned, Recorded, Used, OneStarts, Read, Generations,
     Addressed, RecordsHaveOwners, Started, IsOpen, RegistryTypes
<1> QED BY <1>1, <1>2 DEF RInv

\* What every answer to a message has in common.
LEMMA Received ==
  ASSUME NEW i \in Messages, Receive(i)
  PROVE  /\ message[i].at \in {"sent", "late"}
         /\ UNCHANGED <<registry, host, turn, task, shown, astray, faults>>
BY Zenon DEF Receive

LEMMA NextRInv ==
  ASSUME RInv, [Next]_vars
  PROVE  RInv'
<1>1. ASSUME NEW h \in Hosts, Unlink(h) \/ Close(h) \/ CloseQueues(h) \/ Crash(h) PROVE RInv'
  BY <1>1, UnlinkRegistry, CloseRegistry, CloseQueuesRegistry, CrashRegistry
<1>2. ASSUME NEW h \in Hosts, \/ StartTurn(h) \/ TakeInTurn(h) \/ EndTurn(h) \/ DispatcherWakes(h)
                              \/ Dispatch(h)
      PROVE  RInv'
  BY <1>2, SameMessages DEF StartTurn, TakeInTurn, EndTurn, DispatcherWakes, Dispatch
<1>3. ASSUME NEW h \in Hosts, NEW r \in Runtimes,
             \/ Ensure(h, r) \/ Publish(h, r) \/ StartFails(h, r) \/ CloseRuntime(h, r)
             \/ RuntimeClosed(h, r)
      PROVE  RInv'
  BY <1>3, EnsureRegistry, PublishRegistry, StartFailsRegistry, CloseRuntimeRegistry,
     RuntimeClosedRegistry
<1>4. ASSUME NEW h \in Hosts, NEW s \in Sessions, FindStale(h, s) \/ Switch(h, s) PROVE RInv'
  BY <1>4, FindStaleRegistry, SwitchRegistry
<1>5. ASSUME NEW h \in Hosts, NEW e \in held[h], Decide(h, e) PROVE RInv'
  BY <1>5, SameMessages DEF Decide, Enqueue
<1>6. ASSUME NEW h \in Hosts, NEW i \in Messages, NEW s \in Sessions, Send(i, h, s) PROVE RInv'
  BY <1>6, SendRegistry
<1>7. ASSUME NEW i \in Messages, Acknowledged(i) \/ Unreached(i) PROVE RInv'
  BY <1>7, AcknowledgedRegistry, UnreachedRegistry
<1>8. ASSUME NEW i \in Messages, Receive(i) PROVE RInv'
  <2>0. UNCHANGED <<registry, host, faults>> /\ message[i].at \in {"sent", "late"}
    BY <1>8, Received
  <2>1. UNCHANGED <<registry, host, faults>> /\ message[i].at # "unused"
    BY <2>0
  <2>2. \/ message' = message
        \/ \E x \in Statuses : Answer(i, x)
    BY <1>8 DEF Receive, Statuses
  <2> QED BY SMTT(60), <2>1, <2>2, AnswerRegistry, SameMessages
<1>9. ASSUME NEW i \in Messages, NEW h \in Hosts, Entered(h, i) PROVE RInv'
  <2>1. UNCHANGED <<registry, host, faults>>
    BY <1>9 DEF Entered
  <2>2. message' = message \/ (Answer(i, "delivered") /\ message[i].at # "unused")
    BY <1>9 DEF Entered
  <2> QED BY <2>1, <2>2, AnswerRegistry, SameMessages DEF Statuses
<1>10. CASE UNCHANGED vars
  BY <1>10, SameMessages DEF vars
<1> QED BY <1>1, <1>2, <1>3, <1>4, <1>5, <1>6, <1>7, <1>8, <1>9, <1>10 DEF Next

-----------------------------------------------------------------------------
(* The queues *)

\* The end of a queue: the elements from a position on.
LEMMA EndOfQueue ==
  ASSUME NEW S, NEW q \in Seq(S), NEW k \in 0..Len(q)
  PROVE  /\ SubSeq(q, k + 1, Len(q)) \in Seq(S)
         /\ Len(SubSeq(q, k + 1, Len(q))) = Len(q) - k
         /\ \A n \in 1..(Len(q) - k) : SubSeq(q, k + 1, Len(q))[n] = q[n + k]
<1>1. k \in Nat /\ Len(q) \in Nat
  BY LenProperties
<1>2. \A n \in (k + 1)..Len(q) : q[n] \in S
  BY <1>1, ElementOfSeq
<1> QED BY <1>1, <1>2

\* What Enqueue makes of a queue: the last element is new, the others were there before,
\* each a fixed number of places behind.
Room(h) == IF Len(queue[h]) < QueueSize THEN queue[h] ELSE Tail(queue[h])
New(h, i) == [gen |-> host[h].gen, session |-> host[h].session, id |-> i]

LEMMA RoomInQueue ==
  ASSUME InboxTypes, NEW h \in Hosts
  PROVE  /\ Room(h) \in Seq(Entry) /\ Len(Room(h)) < QueueSize
         /\ \E k \in Nat : \A n \in DOMAIN Room(h) :
              n + k \in DOMAIN queue[h] /\ Room(h)[n] = queue[h][n + k]
<1>1. queue[h] \in Seq(Entry) /\ Len(queue[h]) \in Nat /\ Len(queue[h]) <= QueueSize
  BY LenProperties DEF InboxTypes
<1>2. CASE Len(queue[h]) < QueueSize
  <2>1. \A n \in DOMAIN queue[h] : n + 0 \in DOMAIN queue[h] /\ queue[h][n] = queue[h][n + 0]
    BY <1>1
  <2> QED BY <1>1, <1>2, <2>1 DEF Room
<1>3. CASE ~(Len(queue[h]) < QueueSize)
  <2>1. Len(queue[h]) # 0
    BY <1>1, <1>3, BoundsAssumption
  <2>2. queue[h] # <<>>
    BY <1>1, <2>1, EmptySeq
  <2>3. /\ Tail(queue[h]) \in Seq(Entry) /\ Len(Tail(queue[h])) = Len(queue[h]) - 1
        /\ \A n \in 1..(Len(queue[h]) - 1) : Tail(queue[h])[n] = queue[h][n + 1]
    BY <1>1, <2>2, HeadTailProperties
  <2>4. \A n \in DOMAIN Tail(queue[h]) :
          n + 1 \in DOMAIN queue[h] /\ Tail(queue[h])[n] = queue[h][n + 1]
    <3>1. DOMAIN Tail(queue[h]) = 1..(Len(queue[h]) - 1) /\ DOMAIN queue[h] = 1..Len(queue[h])
      BY <1>1, <2>3, LenProperties
    <3>2. \A n \in 1..(Len(queue[h]) - 1) : n + 1 \in 1..Len(queue[h])
      BY <1>1
    <3> SUFFICES ASSUME NEW n \in DOMAIN Tail(queue[h])
        PROVE  n + 1 \in DOMAIN queue[h] /\ Tail(queue[h])[n] = queue[h][n + 1]
      OBVIOUS
    <3>3. n \in 1..(Len(queue[h]) - 1)
      BY <3>1
    <3>4. n + 1 \in DOMAIN queue[h]
      BY <3>1, <3>2, <3>3
    <3>5. Tail(queue[h])[n] = queue[h][n + 1]
      BY <2>3, <3>3
    <3> QED BY <3>4, <3>5
  <2>5. Room(h) = Tail(queue[h])
    BY <1>3 DEF Room
  <2>6. Len(Room(h)) < QueueSize
    BY <1>1, <2>3, <2>5, BoundsAssumption
  <2>7. \A n \in DOMAIN Room(h) : n + 1 \in DOMAIN queue[h] /\ Room(h)[n] = queue[h][n + 1]
    BY <2>4, <2>5
  <2> QED BY <2>3, <2>5, <2>6, <2>7
<1> QED BY <1>2, <1>3

LEMMA Enqueued ==
  ASSUME RInv, InboxTypes, NEW h \in Hosts, NEW i \in Messages, Enqueue(h, i)
  PROVE  /\ queue' \in [Hosts -> Seq(Entry)] /\ \A g \in Hosts : Len(queue'[g]) <= QueueSize
         /\ available' \in [Hosts -> BOOLEAN] /\ entering' \subseteq Hosts \X Messages
         /\ accepted' \subseteq Messages
         /\ \A g \in Hosts : g # h => queue'[g] = queue[g]
         /\ \E k \in Nat : \A n \in DOMAIN queue'[h] :
              \/ queue'[h][n] = New(h, i) /\ n = Len(queue'[h])
              \/ n + k \in DOMAIN queue[h] /\ queue'[h][n] = queue[h][n + k] /\ n < Len(queue'[h])
<1>1. New(h, i) \in Entry
  BY DEF New, Entry, RInv, RegistryTypes, HostType
<1>2. Room(h) \in Seq(Entry) /\ Len(Room(h)) \in Nat /\ Len(Room(h)) < QueueSize
  BY RoomInQueue, LenProperties
<1>3. queue' = [queue EXCEPT ![h] = Append(Room(h), New(h, i))]
  BY DEF Enqueue, Room, New
<1>4. queue'[h] = Append(Room(h), New(h, i)) /\ \A g \in Hosts : g # h => queue'[g] = queue[g]
  BY <1>3 DEF InboxTypes
<1>5. /\ queue'[h] \in Seq(Entry) /\ Len(queue'[h]) = Len(Room(h)) + 1
      /\ queue'[h][Len(Room(h)) + 1] = New(h, i)
      /\ \A n \in 1..Len(Room(h)) : queue'[h][n] = Room(h)[n]
  BY <1>1, <1>2, <1>4, AppendProperties
<1>6. queue' \in [Hosts -> Seq(Entry)]
  BY <1>3, <1>4, <1>5 DEF InboxTypes
<1>7. \A g \in Hosts : Len(queue'[g]) <= QueueSize
  <2>1. QueueSize \in Nat
    BY BoundsAssumption
  <2>2. Len(queue'[h]) <= QueueSize
    BY <1>2, <1>5, <2>1
  <2> QED BY <1>4, <2>2 DEF InboxTypes
<1>8. PICK k \in Nat : \A n \in DOMAIN Room(h) :
        n + k \in DOMAIN queue[h] /\ Room(h)[n] = queue[h][n + k]
  BY RoomInQueue
<1>9. \A n \in DOMAIN queue'[h] :
        \/ queue'[h][n] = New(h, i) /\ n = Len(queue'[h])
        \/ n + k \in DOMAIN queue[h] /\ queue'[h][n] = queue[h][n + k] /\ n < Len(queue'[h])
  <2> SUFFICES ASSUME NEW n \in DOMAIN queue'[h]
      PROVE  \/ queue'[h][n] = New(h, i) /\ n = Len(queue'[h])
             \/ n + k \in DOMAIN queue[h] /\ queue'[h][n] = queue[h][n + k] /\ n < Len(queue'[h])
    OBVIOUS
  <2>1. n \in 1..(Len(Room(h)) + 1)
    BY <1>5
  <2>2. CASE n = Len(Room(h)) + 1
    BY <1>5, <2>2
  <2>3. CASE n \in 1..Len(Room(h))
    <3>1. n \in DOMAIN Room(h)
      BY <1>2, <2>3
    <3> QED BY <1>2, <1>5, <1>8, <2>3, <3>1
  <2> QED BY <1>2, <2>1, <2>2, <2>3
<1>10. available' \in [Hosts -> BOOLEAN] /\ entering' \subseteq Hosts \X Messages
       /\ accepted' \subseteq Messages
  BY DEF Enqueue, InboxTypes
<1> QED BY <1>4, <1>6, <1>7, <1>8, <1>9, <1>10

LEMMA Shown ==
  ASSUME InboxTypes, NEW h \in Hosts, Shows(h)
  PROVE  /\ queue' \in [Hosts -> Seq(Entry)] /\ \A g \in Hosts : Len(queue'[g]) <= QueueSize
         /\ available' \in [Hosts -> BOOLEAN] /\ shown' \in [Messages -> 0..2]
         /\ \A g \in Hosts : g # h => queue'[g] = queue[g]
         /\ \E last \in 0..Len(queue[h]) :
              /\ \A n \in DOMAIN queue'[h] :
                   n + last \in DOMAIN queue[h] /\ queue'[h][n] = queue[h][n + last]
              /\ shown' = [i \in Messages |->
                   IF i \in {queue[h][n].id : n \in UpTo(h, last)} /\ shown[i] < 2
                   THEN shown[i] + 1 ELSE shown[i]]
              /\ astray' = astray \union
                   {i \in {queue[h][n].id : n \in UpTo(h, last)} :
                      ~IsOpen(h) \/ host[h].session # message[i].to}
<1>1. PICK last \in 0..Len(queue[h]) :
        /\ Leaves(h, SubSeq(queue[h], last + 1, Len(queue[h])))
        /\ shown' = [i \in Messages |->
             IF i \in {queue[h][n].id : n \in UpTo(h, last)} /\ shown[i] < 2
             THEN shown[i] + 1 ELSE shown[i]]
        /\ astray' = astray \union
             {i \in {queue[h][n].id : n \in UpTo(h, last)} :
                ~IsOpen(h) \/ host[h].session # message[i].to}
  BY DEF Shows
<1>2. queue[h] \in Seq(Entry) /\ Len(queue[h]) \in Nat /\ DOMAIN queue[h] = 1..Len(queue[h])
      /\ Len(queue[h]) <= QueueSize
  BY LenProperties DEF InboxTypes
<1> DEFINE rest == SubSeq(queue[h], last + 1, Len(queue[h]))
<1>3. /\ rest \in Seq(Entry) /\ Len(rest) = Len(queue[h]) - last
      /\ \A n \in 1..(Len(queue[h]) - last) : rest[n] = queue[h][n + last]
  BY <1>2, EndOfQueue
<1>4. queue' = [queue EXCEPT ![h] = rest] /\ available' = [available EXCEPT ![h] = rest # <<>> /\ @]
  BY <1>1 DEF Leaves
<1> HIDE DEF rest
<1>5. queue'[h] = rest /\ \A g \in Hosts : g # h => queue'[g] = queue[g]
  BY <1>4 DEF InboxTypes
<1>6. queue' \in [Hosts -> Seq(Entry)]
  BY <1>3, <1>4 DEF InboxTypes
<1>7. \A g \in Hosts : Len(queue'[g]) <= QueueSize
  <2>1. Len(queue'[h]) <= QueueSize
    BY <1>2, <1>3, <1>5, BoundsAssumption
  <2> QED BY <1>5, <2>1 DEF InboxTypes
<1>8. available' \in [Hosts -> BOOLEAN]
  <2>1. available[h] \in BOOLEAN
    BY DEF InboxTypes
  <2> QED BY <1>4, <2>1 DEF InboxTypes
<1>9. \A n \in DOMAIN queue'[h] : n + last \in DOMAIN queue[h] /\ queue'[h][n] = queue[h][n + last]
  <2>1. DOMAIN queue'[h] = 1..(Len(queue[h]) - last)
    BY <1>3, <1>5, LenProperties
  <2>2. \A n \in 1..(Len(queue[h]) - last) : n + last \in 1..Len(queue[h])
    BY <1>2
  <2> QED BY <1>2, <1>3, <1>5, <2>1, <2>2
<1>10. shown' \in [Messages -> 0..2]
  BY <1>1 DEF InboxTypes
<1> QED BY <1>1, <1>5, <1>6, <1>7, <1>8, <1>9, <1>10

\* Types of the queues, in which fewer messages are held than queue_size.
LEMMA NextTypes ==
  ASSUME RInv, InboxTypes, FewHeld, MInv, [Next]_vars
  PROVE  InboxTypes' /\ FewHeld'
<1>1. ASSUME NEW h \in Hosts, Unlink(h) \/ Close(h) \/ Crash(h) \/ StartTurn(h) \/ EndTurn(h)
                              \/ DispatcherWakes(h)
      PROVE  InboxTypes' /\ FewHeld'
  BY <1>1 DEF Unlink, Close, Crash, StartTurn, EndTurn, DispatcherWakes, inbox, history,
     InboxTypes, FewHeld
<1>2. ASSUME NEW h \in Hosts, NEW r \in Runtimes,
             \/ Ensure(h, r) \/ Publish(h, r) \/ StartFails(h, r) \/ CloseRuntime(h, r)
             \/ RuntimeClosed(h, r)
      PROVE  InboxTypes' /\ FewHeld'
  BY <1>2 DEF Ensure, Publish, StartFails, CloseRuntime, RuntimeClosed, inbox, history, InboxTypes,
     FewHeld
<1>3. ASSUME NEW h \in Hosts, NEW s \in Sessions,
             FindStale(h, s) \/ \E i \in Messages : Send(i, h, s)
      PROVE  InboxTypes' /\ FewHeld'
  BY <1>3 DEF FindStale, Send, inbox, history, InboxTypes, FewHeld
<1>4. ASSUME NEW i \in Messages, Acknowledged(i) \/ Unreached(i) PROVE InboxTypes' /\ FewHeld'
  BY <1>4 DEF Acknowledged, Unreached, inbox, history, InboxTypes, FewHeld
<1>5. CASE UNCHANGED vars
  BY <1>5 DEF vars, inbox, history, InboxTypes, FewHeld
<1>6. ASSUME NEW h \in Hosts, CloseQueues(h) \/ \E s \in Sessions : Switch(h, s)
      PROVE  InboxTypes' /\ FewHeld'
  <2>1. /\ queue' = [queue EXCEPT ![h] = <<>>] /\ available' = [available EXCEPT ![h] = FALSE]
        /\ held' = [held EXCEPT ![h] = {}] /\ task' = [task EXCEPT ![h] = "none"]
        /\ turn' \in {turn, [turn EXCEPT ![h] = "none"]} /\ UNCHANGED <<entering, history>>
    BY <1>6 DEF CloseQueues, Switch
  <2>2. /\ <<>> \in Seq(Entry) /\ Len(<<>>) = 0 /\ IsFiniteSet({}) /\ Cardinality({}) = 0
    BY EmptySeq, FS_EmptySet
  <2>3. 0 <= QueueSize
    BY BoundsAssumption
  <2>4. \A g \in Hosts : /\ Len(queue'[g]) <= QueueSize
                         /\ Cardinality(held'[g]) <= QueueSize /\ IsFiniteSet(held'[g])
    BY <2>1, <2>2, <2>3 DEF InboxTypes, FewHeld
  <2> QED BY <2>1, <2>2, <2>4 DEF history, InboxTypes, FewHeld
<1>7. ASSUME NEW h \in Hosts, TakeInTurn(h) \/ Dispatch(h) PROVE InboxTypes' /\ FewHeld'
  <2>1. Shows(h) /\ UNCHANGED <<entering, held, accepted>>
    BY <1>7 DEF TakeInTurn, Dispatch
  <2>2. turn' \in [Hosts -> {"none", "user", "peer"}]
        /\ task' \in [Hosts -> {"none", "waiting", "locking", "turn"}]
    BY <1>7 DEF TakeInTurn, Dispatch, InboxTypes
  <2>3. astray' \subseteq Messages
    <3>1. PICK last \in 0..Len(queue[h]) :
            astray' = astray \union
              {i \in {queue[h][n].id : n \in UpTo(h, last)} :
                 ~IsOpen(h) \/ host[h].session # message[i].to}
      BY <2>1 DEF Shows
    <3>2. \A n \in DOMAIN queue[h] : queue[h][n].id \in Messages
      <4>1. queue[h] \in Seq(Entry) /\ DOMAIN queue[h] = 1..Len(queue[h])
        BY LenProperties DEF InboxTypes
      <4>2. \A n \in DOMAIN queue[h] : queue[h][n] \in Entry
        BY SMTT(60), <4>1, ElementOfSeq
      <4> QED BY <4>2 DEF Entry
    <3> QED BY <3>1, <3>2 DEF UpTo, Valid, InboxTypes
  <2> QED BY <2>1, <2>2, <2>3, Shown DEF InboxTypes, FewHeld
<1>8. ASSUME NEW i \in Messages, Receive(i) PROVE InboxTypes' /\ FewHeld'
  <2>0. PICK h \in Hosts : h = Home(i)
    BY <1>8, Received DEF RInv, Registry, Addressed, Owned, Home
  <2>1. UNCHANGED <<turn, task, shown, astray>>
    BY <1>8 DEF Receive
  <2>2. CASE UNCHANGED <<queue, available, entering, held, accepted>>
    BY <2>1, <2>2 DEF InboxTypes, FewHeld
  <2>3. CASE Enqueue(h, i) /\ UNCHANGED held
    BY <2>1, <2>3, Enqueued DEF InboxTypes, FewHeld
  <2>4. CASE /\ Cardinality(held[h]) < QueueSize /\ UNCHANGED <<queue, available, entering, accepted>>
             /\ held' = [held EXCEPT ![h] = @ \union {New(h, i)}]
    <3>1. New(h, i) \in Entry
      BY DEF New, Entry, RInv, RegistryTypes, HostType
    <3>2. IsFiniteSet(held[h]) /\ Cardinality(held[h]) \in Nat
      BY FS_CardinalityType DEF FewHeld
    <3>3. /\ IsFiniteSet(held[h] \union {New(h, i)})
          /\ Cardinality(held[h] \union {New(h, i)}) <= QueueSize
      BY SMTT(60), <2>4, <3>2, FS_AddElement, BoundsAssumption
    <3>4. held' \in [Hosts -> SUBSET Entry]
      BY <2>4, <3>1 DEF InboxTypes
    <3>5. \A g \in Hosts : Cardinality(held'[g]) <= QueueSize /\ IsFiniteSet(held'[g])
      BY <2>4, <3>3 DEF InboxTypes, FewHeld
    <3> QED BY <2>1, <2>4, <3>4, <3>5 DEF InboxTypes, FewHeld
  <2> QED BY ZenonT(60), <1>8, <2>0, <2>2, <2>3, <2>4 DEF Receive, Home, New
<1>9. ASSUME NEW i \in Messages, NEW h \in Hosts, Entered(h, i) PROVE InboxTypes' /\ FewHeld'
  BY <1>9 DEF Entered, Served, history, InboxTypes, FewHeld
<1>10. ASSUME NEW h \in Hosts, NEW e \in held[h], Decide(h, e) PROVE InboxTypes' /\ FewHeld'
  <2>1. UNCHANGED <<turn, task, shown, astray>> /\ held' = [held EXCEPT ![h] = @ \ {e}]
    BY <1>10 DEF Decide
  <2>2. e.id \in Messages
    BY DEF InboxTypes, Entry
  <2>3. IsFiniteSet(held[h] \ {e}) /\ Cardinality(held[h] \ {e}) <= Cardinality(held[h])
    BY FS_Subset DEF FewHeld
  <2>4. Cardinality(held[h] \ {e}) <= QueueSize
    BY <2>3, BoundsAssumption, FS_CardinalityType DEF InboxTypes, FewHeld
  <2>5. /\ held' \in [Hosts -> SUBSET Entry]
        /\ \A g \in Hosts : Cardinality(held'[g]) <= QueueSize /\ IsFiniteSet(held'[g])
    BY <2>1, <2>3, <2>4 DEF InboxTypes, FewHeld
  <2>6. CASE Enqueue(h, e.id)
    BY <2>1, <2>2, <2>5, <2>6, Enqueued DEF InboxTypes, FewHeld
  <2>7. CASE UNCHANGED <<queue, available, entering, accepted>>
    BY <2>1, <2>5, <2>7 DEF InboxTypes, FewHeld
  <2>8. Enqueue(h, e.id) \/ UNCHANGED <<queue, available, entering, accepted>>
    BY <1>10 DEF Decide
  <2> QED BY <2>6, <2>7, <2>8
<1> QED BY <1>1, <1>2, <1>3, <1>4, <1>5, <1>6, <1>7, <1>8, <1>9, <1>10 DEF Next

-----------------------------------------------------------------------------
(* The messages *)

LEMMA InitMInv == Init => InboxTypes /\ FewHeld /\ MInv
<1> SUFFICES ASSUME Init PROVE InboxTypes /\ FewHeld /\ MInv
  OBVIOUS
<1>1. <<>> \in Seq(Entry) /\ Len(<<>>) = 0 /\ DOMAIN <<>> = {}
  BY EmptySeq
<1>2. IsFiniteSet({}) /\ Cardinality({}) = 0
  BY FS_EmptySet
<1>3. InboxTypes /\ FewHeld
  BY <1>1, <1>2, BoundsAssumption DEF Init, InboxTypes, FewHeld
<1>4. \A h \in Hosts : QueueInv(h) /\ HeldInv(h)
  BY <1>1 DEF Init, QueueInv, HeldInv
<1>5. None \notin Statuses
  BY BoundsAssumption
<1>6. \A i \in Messages : MessageInv(i)
  BY <1>5 DEF Init, MessageInv, Undecided, IsHeld, Statuses
<1> QED BY <1>3, <1>4, <1>6 DEF MInv, NothingGoesAstray, Init

\* The runtime of a message that was sent keeps its host.
HomesStay == \A r \in Runtimes : Started(r) => runtime'[r].host = runtime[r].host

\* A step that only drops queues and marks messages.
LEMMA StillKnown ==
  ASSUME RInv, InboxTypes, MInv, HomesStay, UNCHANGED <<entering, accepted, shown, astray>>,
         \A h \in Hosts : queue'[h] \in {queue[h], <<>>} /\ held'[h] \in {held[h], {}},
         \A i \in Messages : message[i].at # "unused" =>
           /\ message'[i].at # "unused"
           /\ message'[i].to = message[i].to /\ message'[i].peer = message[i].peer,
         \A i \in Messages : message'[i].at \in {"unused", "sent", "late"} =>
           message[i].at \in {"unused", "sent", "late"} /\ message'[i].result # "refused",
         \A i \in Messages : \A x \in {"delivered", "refused"} :
           x \in {message'[i].at, message'[i].result} => x \in {message[i].at, message[i].result}
  PROVE  MInv'
<1>1. \A i \in Messages : message[i].at # "unused" => Home(i)' = Home(i)
  BY DEF HomesStay, Home, RInv, Registry, Addressed
<1>2. ASSUME NEW h \in Hosts PROVE QueueInv(h)'
  <2>1. queue[h] \in Seq(Entry) /\ DOMAIN <<>> = {}
    BY EmptySeq DEF InboxTypes
  <2>2. \A n \in DOMAIN queue[h] : queue[h][n].id \in Messages
    <3>1. \A n \in DOMAIN queue[h] : queue[h][n] \in Entry
      BY <2>1, ElementOfSeq, LenProperties
    <3> QED BY <3>1 DEF Entry
  <2>3. CASE queue'[h] = queue[h]
    BY <1>1, <2>2, <2>3 DEF MInv, QueueInv, Belonging
  <2>4. CASE queue'[h] = <<>>
    BY <2>1, <2>4 DEF QueueInv
  <2> QED BY <2>3, <2>4
<1>3. ASSUME NEW h \in Hosts PROVE HeldInv(h)'
  <2>1. \A e \in held[h] : e.id \in Messages
    BY DEF InboxTypes, Entry
  <2>2. held'[h] \subseteq held[h]
    OBVIOUS
  <2> QED BY <1>1, <2>1, <2>2 DEF MInv, HeldInv, Belonging
<1>4. \A h \in Hosts, i \in Messages : IsHeld(h, i)' => IsHeld(h, i)
  BY DEF IsHeld
<1>5. ASSUME NEW i \in Messages PROVE MessageInv(i)'
  <2>1. MessageInv(i)
    BY DEF MInv
  <2>2. Undecided(i)' => Undecided(i)
    BY DEF Undecided
  <2> QED BY <1>1, <1>4, <2>1, <2>2 DEF MessageInv
<1> QED BY <1>2, <1>3, <1>5 DEF MInv, NothingGoesAstray

\* The receiver has decided about a message, or its call is over.
LEMMA Answered ==
  ASSUME RInv, InboxTypes, MInv, UNCHANGED <<runtime, queue, held, accepted, shown, astray>>,
         NEW i \in Messages, NEW x, message[i].at # "unused",
         message' = [message EXCEPT ![i] = [message[i] EXCEPT !.at = x]],
         x \notin {"unused", "sent", "late"},
         x = "delivered" => i \in accepted,
         x = "refused" => i \notin accepted /\ \A h \in Hosts : ~IsHeld(h, i),
         entering' \subseteq entering,
         \A h \in Hosts, j \in Messages : j # i => (<<h, j>> \in entering' <=> <<h, j>> \in entering)
  PROVE  MInv'
<1>1. \A j \in Messages : /\ message'[j].to = message[j].to /\ message'[j].peer = message[j].peer
                          /\ message'[j].result = message[j].result
                          /\ j # i => message'[j].at = message[j].at
                          /\ message[j].at # "unused" => message'[j].at # "unused"
  BY DEF RInv, RegistryTypes, MessageType
<1>2. message'[i].at = x
  BY DEF RInv, RegistryTypes, MessageType
<1>3. \A j \in Messages : Home(j)' = Home(j)
  BY <1>1 DEF Home
<1>4. ASSUME NEW h \in Hosts PROVE QueueInv(h)' /\ HeldInv(h)'
  <2>1. \A n \in DOMAIN queue[h] : queue[h][n].id \in Messages
    <3>1. \A n \in DOMAIN queue[h] : queue[h][n] \in Entry
      BY ElementOfSeq, LenProperties DEF InboxTypes
    <3> QED BY <3>1 DEF Entry
  <2>2. \A e \in held[h] : e.id \in Messages
    BY DEF InboxTypes, Entry
  <2>3. QueueInv(h)'
    BY <1>1, <1>3, <2>1 DEF MInv, QueueInv, Belonging
  <2>4. HeldInv(h)'
    BY <1>1, <1>3, <2>2 DEF MInv, HeldInv, Belonging
  <2> QED BY <2>3, <2>4
<1>5. ASSUME NEW j \in Messages PROVE MessageInv(j)'
  <2>1. MessageInv(j) /\ \A h \in Hosts : IsHeld(h, j)' <=> IsHeld(h, j)
    BY DEF MInv, IsHeld
  <2>2. Undecided(j)' => Undecided(j)
    BY <1>1, <1>2 DEF Undecided
  <2> QED BY <1>1, <1>2, <1>3, <2>1, <2>2 DEF MessageInv
<1> QED BY <1>4, <1>5 DEF MInv, NothingGoesAstray

\* A message enters a queue for the first time.
LEMMA Accepted ==
  ASSUME RInv, InboxTypes, MInv, UNCHANGED <<runtime, message, shown, astray>>,
         NEW h \in Hosts, NEW i \in Messages, Enqueue(h, i),
         message[i].at # "unused", Home(i) = h, message[i].to = host[h].session,
         i \notin accepted, "refused" \notin {message[i].at, message[i].result},
         \A g \in Hosts : held'[g] \subseteq held[g] /\ ~IsHeld(g, i)'
  PROVE  MInv'
<1>1. accepted' = accepted \union {i} /\ entering' = entering \union {<<h, i>>}
  BY DEF Enqueue
<1>2. \A j \in Messages : Home(j)' = Home(j)
  BY DEF Home
<1>3. shown[i] = 0
  BY DEF MInv, MessageInv
<1>4. \A g \in Hosts : \A n \in DOMAIN queue[g] : queue[g][n].id \in Messages
  <2>1. \A g \in Hosts : \A n \in DOMAIN queue[g] : queue[g][n] \in Entry
    BY ElementOfSeq, LenProperties DEF InboxTypes
  <2> QED BY <2>1 DEF Entry
<1>5. ASSUME NEW g \in Hosts, g # h PROVE QueueInv(g)'
  <2>1. queue'[g] = queue[g]
    BY <1>5, Enqueued
  <2> QED BY <1>1, <1>2, <1>4, <2>1 DEF MInv, QueueInv, Belonging
<1>6. QueueInv(h)'
  <2>1. PICK k \in Nat : \A n \in DOMAIN queue'[h] :
          \/ queue'[h][n] = New(h, i) /\ n = Len(queue'[h])
          \/ n + k \in DOMAIN queue[h] /\ queue'[h][n] = queue[h][n + k] /\ n < Len(queue'[h])
    BY Enqueued
  <2>2. New(h, i).id = i /\ New(h, i).session = host[h].session
    BY DEF New
  <2>3. \A n \in DOMAIN queue[h] : queue[h][n].id \in accepted /\ queue[h][n].id # i
    BY DEF MInv, QueueInv
  <2>4. DOMAIN queue'[h] = 1..Len(queue'[h]) /\ Len(queue'[h]) \in Nat
    BY Enqueued, LenProperties
  <2>5. ASSUME NEW n \in DOMAIN queue'[h]
        PROVE  /\ Belonging(h, queue[h][n])'
               /\ queue'[h][n].id \in accepted' /\ shown'[queue'[h][n].id] = 0
    <3>1. CASE queue'[h][n] = New(h, i)
      BY <1>1, <1>2, <1>3, <2>2, <3>1 DEF Belonging
    <3>2. CASE n + k \in DOMAIN queue[h] /\ queue'[h][n] = queue[h][n + k]
      BY <1>1, <1>2, <1>4, <3>2 DEF MInv, QueueInv, Belonging
    <3> QED BY <2>1, <3>1, <3>2
  <2>6. ASSUME NEW n \in DOMAIN queue'[h], NEW p \in DOMAIN queue'[h],
               queue'[h][p].id = queue'[h][n].id
        PROVE  p = n
    <3>1. CASE queue'[h][n] = New(h, i) /\ n = Len(queue'[h])
      BY <2>1, <2>2, <2>3, <2>6, <3>1
    <3>2. CASE n + k \in DOMAIN queue[h] /\ queue'[h][n] = queue[h][n + k]
      <4>1. p + k \in DOMAIN queue[h] /\ queue'[h][p] = queue[h][p + k]
        BY <2>1, <2>2, <2>3, <2>6, <3>2
      <4>2. p + k = n + k
        BY <2>6, <3>2, <4>1 DEF MInv, QueueInv
      <4> QED BY <2>4, <4>2
    <3>3. \/ queue'[h][n] = New(h, i) /\ n = Len(queue'[h])
          \/ n + k \in DOMAIN queue[h] /\ queue'[h][n] = queue[h][n + k]
      BY <2>1
    <3> QED BY <3>1, <3>2, <3>3
  <2> QED BY <2>5, <2>6 DEF QueueInv
<1>7. ASSUME NEW g \in Hosts PROVE HeldInv(g)'
  <2>1. \A e \in held'[g] : e \in held[g] /\ e.id # i /\ e.id \in Messages
    BY DEF IsHeld, InboxTypes, Entry
  <2> QED BY <1>1, <1>2, <2>1 DEF MInv, HeldInv, Belonging
<1>8. ASSUME NEW j \in Messages PROVE MessageInv(j)'
  <2>1. MessageInv(j) /\ \A g \in Hosts : IsHeld(g, j)' => IsHeld(g, j)
    BY DEF MInv, IsHeld
  <2>2. CASE j = i
    <3>1. ~Undecided(i)'
      BY <1>1 DEF Undecided
    <3> QED BY <1>1, <1>2, <2>1, <2>2, <3>1 DEF MessageInv
  <2>3. CASE j # i
    <3>1. Undecided(j)' => Undecided(j)
      BY <1>1 DEF Undecided
    <3> QED BY <1>1, <1>2, <2>1, <2>3, <3>1 DEF MessageInv
  <2> QED BY <2>2, <2>3
<1> QED BY <1>5, <1>6, <1>7, <1>8 DEF MInv, NothingGoesAstray

\* A message is held for its user to decide.
LEMMA HeldBack ==
  ASSUME RInv, InboxTypes, MInv, UNCHANGED <<runtime, queue, entering, accepted, shown, astray>>,
         NEW h \in Hosts, NEW i \in Messages, NEW x \in {"held", "done"}, Undecided(i),
         message[i].at # "unused", Home(i) = h, message[i].to = host[h].session,
         message' = [message EXCEPT ![i] = [message[i] EXCEPT !.at = x]],
         held' = [held EXCEPT ![h] = @ \union {New(h, i)}]
  PROVE  MInv'
<1>1. \A j \in Messages : /\ message'[j].to = message[j].to /\ message'[j].peer = message[j].peer
                          /\ message'[j].result = message[j].result
                          /\ j # i => message'[j].at = message[j].at
  BY DEF RInv, RegistryTypes, MessageType
<1>2. message'[i].at = x
  BY DEF RInv, RegistryTypes, MessageType
<1>3. \A j \in Messages : Home(j)' = Home(j)
  BY <1>1 DEF Home
<1>4. i \notin accepted /\ message[i].result # "refused" /\ \A g \in Hosts : ~IsHeld(g, i)
  BY DEF MInv, MessageInv, Undecided
<1>5. held'[h] = held[h] \union {New(h, i)} /\ \A g \in Hosts : g # h => held'[g] = held[g]
  BY DEF InboxTypes
<1>6. New(h, i).id = i /\ New(h, i).session = host[h].session
  BY DEF New
<1>7. ASSUME NEW g \in Hosts PROVE QueueInv(g)'
  <2>1. \A n \in DOMAIN queue[g] : queue[g][n].id \in Messages /\ queue[g][n].id # i
    <3>1. \A n \in DOMAIN queue[g] : queue[g][n] \in Entry
      BY ElementOfSeq, LenProperties DEF InboxTypes
    <3> QED BY <1>4, <3>1 DEF Entry, MInv, QueueInv
  <2> QED BY <1>1, <1>3, <2>1 DEF MInv, QueueInv, Belonging
<1>8. ASSUME NEW g \in Hosts PROVE HeldInv(g)'
  <2>1. \A e \in held[g] : e.id \in Messages /\ e.id # i
    BY <1>4 DEF InboxTypes, Entry, IsHeld
  <2>2. \A e \in held'[g] : e \in held[g] \/ (g = h /\ e = New(h, i))
    BY <1>5
  <2>3. \A e \in held[g] : Belonging(g, e)'
    BY <1>1, <1>3, <2>1 DEF MInv, HeldInv, Belonging
  <2>4. ASSUME NEW e, e = New(h, i) PROVE Belonging(h, e)'
    <3>1. message'[i].at # "unused"
      BY <1>2
    <3>2. message'[i].to = host[h].session
      BY <1>1
    <3>3. Home(i)' = h
      BY <1>3
    <3> QED BY <1>6, <2>4, <3>1, <3>2, <3>3 DEF Belonging
  <2> QED BY <1>4, <1>6, <2>1, <2>2, <2>3, <2>4 DEF MInv, HeldInv
<1>9. ASSUME NEW j \in Messages PROVE MessageInv(j)'
  <2>1. MessageInv(j)
    BY DEF MInv
  <2>2. CASE j = i
    BY <1>1, <1>2, <1>3, <1>4, <2>1, <2>2 DEF MessageInv, Undecided
  <2>3. CASE j # i
    <3>1. \A g \in Hosts : IsHeld(g, j)' => IsHeld(g, j)
      BY <1>5, <1>6, <2>3 DEF IsHeld
    <3>2. Undecided(j)' => Undecided(j)
      BY <1>1, <2>3 DEF Undecided
    <3> QED BY <1>1, <1>3, <2>1, <2>3, <3>1, <3>2 DEF MessageInv
  <2> QED BY <2>2, <2>3
<1> QED BY <1>7, <1>8, <1>9 DEF MInv, NothingGoesAstray

\* A model is shown a batch.
LEMMA BatchShown ==
  ASSUME RInv, InboxTypes, MInv, UNCHANGED <<runtime, message, entering, held, accepted>>,
         NEW h \in Hosts, Shows(h)
  PROVE  MInv'
<1>1. PICK last \in 0..Len(queue[h]) :
        /\ \A n \in DOMAIN queue'[h] :
             n + last \in DOMAIN queue[h] /\ queue'[h][n] = queue[h][n + last]
        /\ shown' = [i \in Messages |->
             IF i \in {queue[h][n].id : n \in UpTo(h, last)} /\ shown[i] < 2
             THEN shown[i] + 1 ELSE shown[i]]
        /\ astray' = astray \union
             {i \in {queue[h][n].id : n \in UpTo(h, last)} :
                ~IsOpen(h) \/ host[h].session # message[i].to}
  BY Shown
<1> DEFINE ids == {queue[h][n].id : n \in UpTo(h, last)}
<1>2. \A j \in Messages : Home(j)' = Home(j)
  BY DEF Home
<1>3. \A g \in Hosts : \A n \in DOMAIN queue[g] : queue[g][n].id \in Messages
  <2>1. \A g \in Hosts : \A n \in DOMAIN queue[g] : queue[g][n] \in Entry
    BY ElementOfSeq, LenProperties DEF InboxTypes
  <2> QED BY <2>1 DEF Entry
<1>4. \A i \in ids : i \in accepted /\ i \in Messages /\ shown[i] = 0 /\ Home(i) = h
  BY <1>3 DEF UpTo, Valid, MInv, QueueInv, Belonging
<1>5. \A i \in Messages : shown'[i] = IF i \in ids THEN 1 ELSE shown[i]
  BY <1>1, <1>4
<1>6. ASSUME NEW g \in Hosts, g # h PROVE QueueInv(g)'
  <2>1. queue'[g] = queue[g]
    BY <1>6, Shown
  <2>2. \A n \in DOMAIN queue[g] : queue[g][n].id \notin ids
    BY <1>4, <1>6 DEF MInv, QueueInv, Belonging
  <2> HIDE DEF ids
  <2> QED BY <1>2, <1>3, <1>5, <2>1, <2>2 DEF MInv, QueueInv, Belonging
<1>7. QueueInv(h)'
  <2>1. DOMAIN queue[h] \subseteq Nat /\ DOMAIN queue'[h] \subseteq Nat \ {0}
    BY Shown, LenProperties DEF InboxTypes
  <2>2. ASSUME NEW n \in DOMAIN queue'[h] PROVE queue[h][n + last].id \notin ids
    <3>1. n + last > last /\ n + last \in DOMAIN queue[h]
      BY <1>1, <2>1
    <3>2. \A p \in UpTo(h, last) : p <= last /\ p \in DOMAIN queue[h]
      BY DEF UpTo, Valid
    <3>3. \A p \in UpTo(h, last) : p # n + last
      BY <1>1, <2>1, <3>1, <3>2
    <3> QED BY <3>1, <3>2, <3>3 DEF MInv, QueueInv
  <2>3. ASSUME NEW n \in DOMAIN queue'[h]
        PROVE  /\ Belonging(h, queue[h][n])'
               /\ queue'[h][n].id \in accepted' /\ shown'[queue'[h][n].id] = 0
    <3>1. n + last \in DOMAIN queue[h] /\ queue'[h][n] = queue[h][n + last]
      BY <1>1
    <3>2. queue[h][n + last].id \notin ids
      BY <2>2
    <3> HIDE DEF ids
    <3> QED BY <1>2, <1>3, <1>5, <3>1, <3>2 DEF MInv, QueueInv, Belonging
  <2>4. ASSUME NEW n \in DOMAIN queue'[h], NEW p \in DOMAIN queue'[h],
               queue'[h][p].id = queue'[h][n].id
        PROVE  p = n
    <3>1. /\ n + last \in DOMAIN queue[h] /\ queue'[h][n] = queue[h][n + last]
          /\ p + last \in DOMAIN queue[h] /\ queue'[h][p] = queue[h][p + last]
      BY <1>1
    <3>2. p + last = n + last
      BY <2>4, <3>1 DEF MInv, QueueInv
    <3> QED BY <1>1, <2>1, <3>2
  <2> QED BY <2>3, <2>4 DEF QueueInv
<1>8. \A g \in Hosts : HeldInv(g)'
  <2>1. \A g \in Hosts : \A e \in held[g] : e.id \in Messages
    BY DEF InboxTypes, Entry
  <2> QED BY <1>2, <2>1 DEF MInv, HeldInv, Belonging
<1>9. ASSUME NEW j \in Messages PROVE MessageInv(j)'
  <2>1. MessageInv(j) /\ (Undecided(j)' => Undecided(j)) /\ \A g \in Hosts : IsHeld(g, j)' => IsHeld(g, j)
    BY DEF MInv, Undecided, IsHeld
  <2>2. shown'[j] \in {0, 1} /\ (shown'[j] = 1 => j \in accepted)
    BY <1>4, <1>5, <2>1 DEF MessageInv
  <2> QED BY <1>2, <2>1, <2>2 DEF MessageInv
<1>10. astray' = {}
  <2>1. \A i \in ids : IsOpen(h) /\ host[h].session = message[i].to
    BY DEF UpTo, Valid, Matches, MInv, QueueInv, Belonging
  <2> QED BY <1>1, <2>1 DEF MInv, NothingGoesAstray
<1> QED BY <1>6, <1>7, <1>8, <1>9, <1>10 DEF MInv, NothingGoesAstray

LEMMA NextMInv ==
  ASSUME RInv, InboxTypes, MInv, [Next]_vars
  PROVE  MInv'
<1>1. ASSUME HomesStay, UNCHANGED <<message, entering, accepted, shown, astray>>,
             \A h \in Hosts : queue'[h] \in {queue[h], <<>>} /\ held'[h] \in {held[h], {}}
      PROVE  MInv'
  <2>1. \A i \in Messages : message[i].at \in {"unused", "sent", "late"} =>
                              message[i].result # "refused"
    BY DEF MInv, MessageInv
  <2> QED BY <1>1, <2>1, StillKnown
<1>2. ASSUME UNCHANGED runtime PROVE HomesStay
  BY <1>2 DEF HomesStay
<1>3. ASSUME NEW h \in Hosts, \/ Unlink(h) \/ Close(h) \/ Crash(h) \/ StartTurn(h) \/ EndTurn(h)
                              \/ DispatcherWakes(h) \/ \E s \in Sessions : FindStale(h, s)
      PROVE  MInv'
  <2>1. UNCHANGED <<runtime, queue, held, message, entering, accepted, shown, astray>>
    BY <1>3 DEF Unlink, Close, Crash, StartTurn, EndTurn, DispatcherWakes, FindStale, registry,
       inbox, history
  <2> QED BY <1>1, <1>2, <2>1
<1>4. ASSUME NEW h \in Hosts, NEW r \in Runtimes,
             \/ Ensure(h, r) \/ Publish(h, r) \/ StartFails(h, r) \/ CloseRuntime(h, r)
             \/ RuntimeClosed(h, r)
      PROVE  MInv'
  <2>1. UNCHANGED <<queue, held, message, entering, accepted, shown, astray>>
    BY <1>4 DEF Ensure, Publish, StartFails, CloseRuntime, RuntimeClosed, inbox, history
  <2>2. HomesStay
    BY <1>4 DEF HomesStay, Started, Ensure, Publish, StartFails, CloseRuntime, RuntimeClosed, RInv,
       RegistryTypes, RuntimeType
  <2> QED BY <1>1, <2>1, <2>2
<1>5. ASSUME NEW h \in Hosts, CloseQueues(h) \/ \E s \in Sessions : Switch(h, s) PROVE MInv'
  <2>1. /\ queue' = [queue EXCEPT ![h] = <<>>] /\ held' = [held EXCEPT ![h] = {}]
        /\ UNCHANGED <<message, entering, accepted, shown, astray>>
    BY <1>5 DEF CloseQueues, Switch, history
  <2>2. \A g \in Hosts : queue'[g] \in {queue[g], <<>>} /\ held'[g] \in {held[g], {}}
    BY <2>1 DEF InboxTypes
  <2>3. HomesStay
    <3>1. \/ runtime' = runtime
          \/ \E r \in Runtimes : runtime' = [runtime EXCEPT ![r] = [runtime[r] EXCEPT !.at = "closed"]]
      <4>1. \A g \in Hosts : host[g].peer = None \/ host[g].peer \in Runtimes
        BY DEF RInv, RegistryTypes, HostType
      <4> QED BY <1>5, <4>1 DEF CloseQueues, Switch, registry
    <3> QED BY <3>1 DEF HomesStay, RInv, RegistryTypes, RuntimeType
  <2> QED BY <1>1, <2>1, <2>2, <2>3
<1>6. ASSUME NEW h \in Hosts, NEW s \in Sessions, NEW i \in Messages, Send(i, h, s) PROVE MInv'
  <2>1. UNCHANGED <<runtime, queue, held, entering, accepted, shown, astray>>
    BY <1>6 DEF Send, registry, inbox, history
  <2>2. /\ message[i].at = "unused"
        /\ message' = [message EXCEPT ![i] =
             [at |-> "sent", from |-> h, to |-> s, peer |-> record[s], result |-> None]]
    BY <1>6 DEF Send
  <2>3. None # "refused" /\ None # "delivered"
    BY BoundsAssumption DEF Statuses
  <2>4. message'[i].at = "sent" /\ message'[i].result = None
        /\ \A j \in Messages : j # i => message'[j] = message[j]
    BY <2>2 DEF RInv, RegistryTypes
  <2>5. \A j \in Messages : message[j].at \in {"unused", "sent", "late"} =>
                              message[j].result # "refused"
    BY DEF MInv, MessageInv
  <2> QED BY <1>2, <2>1, <2>2, <2>3, <2>4, <2>5, StillKnown
<1>7. ASSUME NEW i \in Messages, Acknowledged(i) \/ Unreached(i) PROVE MInv'
  <2>1. UNCHANGED <<runtime, queue, held, entering, accepted, shown, astray>>
    BY <1>7 DEF Acknowledged, Unreached, registry, inbox, history
  <2>2. /\ \A j \in Messages : j # i => message'[j] = message[j]
        /\ message[i].at # "unused"
        /\ message'[i].to = message[i].to /\ message'[i].peer = message[i].peer
        /\ \/ message'[i].at = "done" /\ message'[i].result \in {message[i].at, "failed"}
           \/ message[i].at = "sent" /\ message'[i].at = "late" /\ message'[i].result = "failed"
    <3>1. CASE Acknowledged(i)
      <4>1. message' = [message EXCEPT ![i] =
                          [message[i] EXCEPT !.at = "done", !.result = message[i].at]]
        BY <3>1 DEF Acknowledged
      <4>2. message[i].at # "unused"
        BY <3>1 DEF Acknowledged
      <4> QED BY <4>1, <4>2 DEF RInv, RegistryTypes, MessageType
    <3>2. CASE Unreached(i)
      <4>1. PICK x : /\ message' = [message EXCEPT ![i] =
                                      [message[i] EXCEPT !.at = x, !.result = "failed"]]
                     /\ x = "done" \/ (x = "late" /\ message[i].at = "sent")
        BY <3>2 DEF Unreached
      <4>2. message[i].at # "unused"
        BY <3>2 DEF Unreached
      <4> QED BY <4>1, <4>2 DEF RInv, RegistryTypes, MessageType
    <3> QED BY <1>7, <3>1, <3>2
  <2>3. \A j \in Messages : message[j].at \in {"unused", "sent", "late"} =>
                              message[j].result # "refused"
    BY DEF MInv, MessageInv
  <2> QED BY <1>2, <2>1, <2>2, <2>3, StillKnown
<1>8. ASSUME NEW h \in Hosts, TakeInTurn(h) \/ Dispatch(h) PROVE MInv'
  BY <1>8, BatchShown DEF TakeInTurn, Dispatch, registry
<1>9. ASSUME NEW h \in Hosts, NEW e \in held[h], Decide(h, e) PROVE MInv'
  <2>1. UNCHANGED <<runtime, message, shown, astray>> /\ held' = [held EXCEPT ![h] = @ \ {e}]
    BY <1>9 DEF Decide, registry
  <2>2. \/ UNCHANGED <<queue, available, entering, accepted>>
        \/ MayEnqueue(h, message[e.id]) /\ Enqueue(h, e.id)
    BY <1>9 DEF Decide
  <2>3. held'[h] = held[h] \ {e} /\ \A g \in Hosts : held'[g] \subseteq held[g]
    BY <2>1 DEF InboxTypes
  <2>4. e.id \in Messages /\ IsHeld(h, e.id) /\ Belonging(h, e) /\ e.id \notin accepted
    BY DEF InboxTypes, Entry, IsHeld, MInv, HeldInv
  <2>5. CASE UNCHANGED <<queue, available, entering, accepted>>
    <3>1. \A g \in Hosts : QueueInv(g)'
      BY <2>1, <2>5 DEF MInv, QueueInv, Belonging, Home
    <3>2. \A g \in Hosts : HeldInv(g)'
      BY <2>1, <2>3, <2>5 DEF MInv, HeldInv, Belonging, Home
    <3>3. \A i \in Messages : MessageInv(i)'
      <4>1. \A g \in Hosts, i \in Messages : IsHeld(g, i)' => IsHeld(g, i)
        BY <2>3 DEF IsHeld
      <4> QED BY <2>1, <2>5, <4>1 DEF MInv, MessageInv, Undecided, Home
    <3> QED BY <2>1, <3>1, <3>2, <3>3 DEF MInv, NothingGoesAstray
  <2>6. CASE MayEnqueue(h, message[e.id]) /\ Enqueue(h, e.id)
    <3>1. ASSUME NEW g \in Hosts PROVE ~IsHeld(g, e.id)'
      <4>1. CASE g = h
        BY <2>3, <4>1 DEF MInv, HeldInv, IsHeld
      <4>2. CASE g # h
        BY <2>3, <2>4, <4>2 DEF MInv, HeldInv, IsHeld, Belonging
      <4> QED BY <4>1, <4>2
    <3>2. "refused" \notin {message[e.id].at, message[e.id].result}
      BY SMTT(60), <2>4 DEF MInv, MessageInv
    <3> QED BY <2>1, <2>3, <2>4, <2>6, <3>1, <3>2, Accepted DEF Belonging, MayEnqueue
  <2> QED BY <2>2, <2>5, <2>6
<1>10. ASSUME NEW i \in Messages, Receive(i) PROVE MInv'
  <2>1. PICK h \in Hosts : h = Home(i)
    BY <1>10, Received DEF RInv, Registry, Addressed, Owned, Home
  <2>2. /\ UNCHANGED <<runtime, shown, astray>> /\ message[i].at \in {"sent", "late"}
        /\ <<h, i>> \notin entering
    BY <1>10, <2>1 DEF Receive, Home, registry
  <2>3. Undecided(i)
    BY <2>1, <2>2 DEF MInv, MessageInv, Undecided
  <2>4. i \notin accepted /\ message[i].result # "refused" /\ \A g \in Hosts : ~IsHeld(g, i)
    BY <2>3 DEF MInv, MessageInv, Undecided
  <2>5. ASSUME NEW x \in {"refused", "held", "failed"}, Answer(i, x)
        PROVE  \E y \in {"done", x} : message' = [message EXCEPT ![i] = [message[i] EXCEPT !.at = y]]
    BY <2>5 DEF Answer
  <2>6. ASSUME NEW x \in {"refused", "failed"}, Answer(i, x), UNCHANGED <<queue, entering, held, accepted>>
        PROVE  MInv'
    <3>1. PICK y \in {"done", x} : message' = [message EXCEPT ![i] = [message[i] EXCEPT !.at = y]]
      BY <2>5, <2>6
    <3> QED BY <2>2, <2>4, <2>6, <3>1, Answered
  <2>7. CASE Answer(i, "refused") /\ UNCHANGED <<queue, available, entering, held, accepted>>
    BY <2>6, <2>7
  <2>8. CASE Answer(i, "failed") /\ UNCHANGED <<queue, available, entering, held, accepted>>
    BY <2>6, <2>8
  <2>9. CASE MayEnqueue(h, message[i]) /\ Enqueue(h, i) /\ UNCHANGED <<message, held>>
    <3>1. \A g \in Hosts : held'[g] \subseteq held[g] /\ ~IsHeld(g, i)'
      BY <2>4, <2>9 DEF IsHeld
    <3> QED BY <2>1, <2>2, <2>4, <2>9, <3>1, Accepted DEF MayEnqueue
  <2>10. CASE /\ MayEnqueue(h, message[i]) /\ held' = [held EXCEPT ![h] = @ \union {New(h, i)}]
              /\ Answer(i, "held") /\ UNCHANGED <<queue, available, entering, accepted>>
    <3>1. PICK y \in {"done", "held"} :
            message' = [message EXCEPT ![i] = [message[i] EXCEPT !.at = y]]
      BY <2>5, <2>10
    <3> QED BY <2>1, <2>2, <2>3, <2>10, <3>1, HeldBack DEF MayEnqueue
  <2> QED BY ZenonT(60), <1>10, <2>1, <2>7, <2>8, <2>9, <2>10 DEF Receive, Home, New
<1>11. ASSUME NEW i \in Messages, NEW h \in Hosts, Entered(h, i) PROVE MInv'
  <2>1. /\ UNCHANGED <<runtime, queue, held, accepted, shown, astray>>
        /\ <<h, i>> \in entering /\ entering' = entering \ {<<h, i>>}
    BY <1>11 DEF Entered, registry, history
  <2>2. i \in accepted /\ message[i].at # "unused"
    BY <2>1 DEF MInv, MessageInv
  <2>3. /\ entering' \subseteq entering
        /\ \A g \in Hosts, j \in Messages : j # i => (<<g, j>> \in entering' <=> <<g, j>> \in entering)
    BY <2>1
  <2>4. PICK y : /\ message' = [message EXCEPT ![i] = [message[i] EXCEPT !.at = y]]
                 /\ y \notin {"unused", "sent", "late"} /\ y \in {"delivered", "done", message[i].at}
    <3>1. CASE message[i].at \in {"sent", "late"}
      <4>1. Answer(i, "delivered")
        BY <1>11, <3>1 DEF Entered
      <4>2. \E y \in {"delivered", "done"} :
              message' = [message EXCEPT ![i] = [message[i] EXCEPT !.at = y]]
        BY <4>1 DEF Answer
      <4> QED BY <4>2
    <3>2. CASE message[i].at \notin {"sent", "late"}
      <4>1. message' = message
        BY <1>11, <3>2 DEF Entered
      <4>2. message = [message EXCEPT ![i] = [message[i] EXCEPT !.at = message[i].at]]
        BY DEF RInv, RegistryTypes, MessageType
      <4> QED BY <2>2, <3>2, <4>1, <4>2
    <3> QED BY <3>1, <3>2
  <2>5. y = "delivered" => i \in accepted
    BY <2>2
  <2>6. y = "refused" => i \notin accepted /\ \A g \in Hosts : ~IsHeld(g, i)
    BY <2>4 DEF MInv, MessageInv
  <2> QED BY <2>1, <2>2, <2>3, <2>4, <2>5, <2>6, Answered
<1>12. CASE UNCHANGED vars
  <2>1. UNCHANGED <<runtime, queue, held, message, entering, accepted, shown, astray>>
    BY <1>12 DEF vars, registry, inbox, history
  <2> QED BY <1>1, <1>2, <2>1
<1> QED BY <1>3, <1>4, <1>5, <1>6, <1>7, <1>8, <1>9, <1>10, <1>11, <1>12 DEF Next
-----------------------------------------------------------------------------
(* The theorems *)

PInv == RInv /\ InboxTypes /\ FewHeld /\ MInv

LEMMA Inductive == Spec => []PInv
<1>1. Init => PInv
  BY InitRInv, InitMInv DEF PInv
<1>2. PInv /\ [Next]_vars => PInv'
  BY NextRInv, NextTypes, NextMInv DEF PInv
<1> QED BY <1>1, <1>2, PTL DEF Spec

\* Every variable keeps its type, for any number of hosts, sessions and messages: the queue
\* and the held messages of a session never exceed queue_size.
THEOREM TypeCorrect == Spec => []TypeOK
<1>1. PInv => TypeOK
  BY DEF PInv, RInv, TypeOK
<1> QED BY <1>1, Inductive, PTL

\* Where a message that PInv speaks of waits.
LEMMA WaitsOnce ==
  ASSUME PInv, NEW i \in Messages
  PROVE  /\ (i \notin accepted /\ \A h \in Hosts : ~IsHeld(h, i)) => Places(i) = {}
         /\ shown[i] = 1 => Places(i) = {}
         /\ \A p, q \in Places(i) : p = q
<1>1. \A p \in Places(i) :
        /\ p = [host |-> p.host, n |-> p.n] /\ p.host \in Hosts
        /\ \/ p.n = 0 /\ IsHeld(p.host, i)
           \/ p.n \in DOMAIN queue[p.host] /\ queue[p.host][p.n].id = i /\ p.n # 0
  BY BoundsAssumption DEF Places, IsHeld
<1>2. ASSUME NEW h \in Hosts, IsHeld(h, i) PROVE i \notin accepted /\ Home(i) = h /\ shown[i] # 1
  BY <1>2 DEF PInv, MInv, HeldInv, MessageInv, IsHeld, Belonging
<1>3. ASSUME NEW h \in Hosts, NEW n \in DOMAIN queue[h], queue[h][n].id = i
      PROVE  /\ i \in accepted /\ Home(i) = h /\ shown[i] # 1
             /\ \A m \in DOMAIN queue[h] : queue[h][m].id = i => m = n
  BY <1>3 DEF PInv, MInv, QueueInv, Belonging
<1>4. (i \notin accepted /\ \A h \in Hosts : ~IsHeld(h, i)) => Places(i) = {}
  BY <1>1, <1>3
<1>5. shown[i] = 1 => Places(i) = {}
  BY <1>1, <1>2, <1>3
<1>6. ASSUME NEW p \in Places(i), NEW q \in Places(i) PROVE p = q
  <2>1. p.host = q.host
    BY <1>1, <1>2, <1>3
  <2>2. p.n = q.n
    BY <1>1, <1>2, <1>3, <2>1
  <2> QED BY <1>1, <2>1, <2>2
<1> QED BY <1>4, <1>5, <1>6

\* A message is for the model at most once, whatever approvals, late answers, turns and
\* switches fall together, and only in the session it was sent to while that is open
\* (enqueue_peer_message, respond_permission, _take_peer_notification_batch).
THEOREM ArriveOnce == Spec => []MessagesArriveOnceAtHome
<1>1. PInv => MessagesArriveOnceAtHome
  <2> SUFFICES ASSUME PInv PROVE MessagesArriveOnceAtHome
    OBVIOUS
  <2>1. \A i \in Messages : shown[i] <= 1
    BY DEF PInv, MInv, MessageInv
  <2> QED BY <2>1, WaitsOnce DEF MessagesArriveOnceAtHome, MessagesComeOnce, PInv, MInv
<1> QED BY <1>1, Inductive, PTL

\* What a sender is told of its message is true, and a record it finds names a runtime that its
\* session uses, or one that is about to go (_handle_client, ensure_peer_runtime).
THEOREM TruthIsTold == Spec => []SendersKnowTheTruth
<1>1. PInv => SendersKnowTheTruth
  <2> SUFFICES ASSUME PInv PROVE SendersKnowTheTruth
    OBVIOUS
  <2>1. AnswersAreTrue
    <3>1. \A i \in Messages : MessageInv(i)
      BY DEF PInv, MInv
    <3> QED BY <3>1, WaitsOnce DEF AnswersAreTrue, MessageInv
  <2> QED BY <2>1 DEF SendersKnowTheTruth, PInv, RInv, Registry
<1> QED BY <1>1, Inductive, PTL

=============================================================================
