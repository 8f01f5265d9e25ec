----------------------------- MODULE Inbox_proofs -----------------------------
(***************************************************************************)
(* Proofs about the two kinds of files that processes share.               *)
(*                                                                         *)
(* First the team's message bus, for every number of processes, agents,    *)
(* calls and messages, every failure and crash, as long as a failed append *)
(* leaves no part of its line (Tearing = FALSE).  The locks of a bus play  *)
(* no part in them: the file lock and the merging do.                      *)
(*                                                                         *)
(* Then the transcript of a session, for every number of holders,          *)
(* messages, records, checkpoints, failed writes and crashes.  What it     *)
(* loads to is followed record by record (LoadAppend).  `TranscriptInv'    *)
(* says what a storage knows of the file from its cursor; `BackInv' adds   *)
(* how far the file is behind a conversation whose holder writes alone     *)
(* (Begins), and what the checkpoints restore (Snapshots).                 *)
(***************************************************************************)
EXTENDS Inbox, Transcript, SequenceTheorems, WellFoundedInduction, TLAPS

MessageType == [from : Agents, to : Agents, of : SUBSET Ids]
DueType == [to : Agents, epoch : Nat, ids : SUBSET Ids]
OpType ==
  [at : Stages, call : {"send", "mark", "receipt"}, bus : Buses \union {NoOne},
   agent : Agents \union {NoOne}, epoch : Nat, id : Nat, reader : Agents \union {NoOne},
   which : SUBSET Ids, staged : Snapshot, due : SUBSET DueType, stopped : 0..2]

\* The parts of the invariant are stated of files f, messages s and erased
\* messages e, so that they can be compared before and after a step.

\* The file of a has at least v of message i, unless that was erased.
Stored(f, e, a, i, v) == f[a][i] >= v \/ i \in e

\* A snapshot of a's inbox that runs behind its file.
Behind(g, a, f, s, e) ==
  \A i \in Ids : g[i] # 0 => s[i].to = a /\ Stored(f, e, a, i, g[i])

\* Files, messages and receipts.
World(f, s, e) ==
  /\ f \in [Agents -> Snapshot]
  /\ s \in [Ids -> MessageType \union {NoMessage}]
  /\ e \subseteq Ids /\ \A i \in e : s[i] # NoMessage
  /\ \A a \in Agents, i \in Ids : f[a][i] # 0 => s[i].to = a
  /\ \A r \in Ids : \A i \in s[r].of :
       /\ Stored(f, e, s[r].from, i, 2)
       /\ s[i].from = s[r].to /\ s[i].to = s[r].from /\ s[i].of = {}

\* A call whose message has no line yet.
NotWritten(r) == r.call # "mark" /\ r.at \in {"waiting", "appending"}

\* What the stage of a call says of its fields.
Shape(r) ==
  /\ r \in OpType
  /\ r.at # "idle" => r.bus \in Buses
  /\ r.at \in Locking => r.agent \in Agents
  /\ r.call # "mark" => r.staged = Empty /\ r.at \notin {"writing", "written"}
  /\ r.call # "mark" /\ r.at \in {"waiting", "appending", "appended"} => r.id \in Ids
  /\ r.call = "mark" => r.reader = r.agent /\ r.at \in Locking \ {"appending", "appended"}
  /\ r.call = "receipt" => r.reader \in Agents
  /\ r.at = "receipts" => r.call = "receipt"
  /\ r.call = "send" => r.due = {}

\* What it knows of the files and the messages, and this does not go away.
Knows(r, f, s, e) ==
  /\ \A i \in Ids : r.staged[i] # 0 => s[i].to = r.agent /\ Stored(f, e, r.agent, i, 1)
  /\ r.at = "written" => Behind(r.staged, r.agent, f, s, e)
  /\ r.at = "appended" => Stored(f, e, r.agent, r.id, 1)
  /\ NotWritten(r) \/ r.at = "appended" => s[r.id].to = r.agent
  /\ \A d \in r.due : \A i \in d.ids :
       /\ s[i].from = d.to /\ s[i].to = r.reader /\ s[i].of = {}
       /\ IF r.call = "mark" THEN r.staged[i] = 2 ELSE Stored(f, e, r.reader, i, 2)

\* Nobody else writes the line of its message.
Unseen(r, f, e) == NotWritten(r) => f[r.agent][r.id] = 0 /\ r.id \notin e

Sound(r, f, s, e) == Shape(r) /\ Knows(r, f, s, e) /\ Unseen(r, f, e)

Memory ==
  /\ registered \in [Buses -> SUBSET Agents]
  /\ epoch \in [Buses -> [Agents -> Nat]]
  /\ inbox \in [Buses -> [Agents -> Snapshot]]
  /\ \A b \in Buses, a \in Agents : Behind(inbox[b][a], a, file, sent, erased)

Calls ==
  /\ DOMAIN op = Ops /\ op = [o \in Ops |-> op[o]]
  /\ \A o \in Ops : Sound(op[o], file, sent, erased)
  /\ \A o, p \in Ops : NotWritten(op[o]) /\ NotWritten(op[p]) /\ op[o].id = op[p].id => o = p

Inv == torn = {} /\ World(file, sent, erased) /\ Memory /\ Calls
-----------------------------------------------------------------------------
\* The next message is one that was not made yet.
LEMMA NextIsUnused ==
  ASSUME Unused # {}
  PROVE  NextId \in Unused
<1> DEFINE R == OpToRel(<, Nat)
           U == Unused
<1>1. IsWellFoundedOn(R, Nat)
  BY NatLessThanWellFounded
<1>2. U \subseteq Nat /\ U # {}
  BY BoundsAssumption DEF Unused, Ids
<1>3. \E n \in U : \A m \in U : ~(<<m, n>> \in R)
  <2> HIDE DEF U, R
  <2> QED BY <1>1, <1>2, WFMin
<1>4. PICK n \in U : \A m \in U : ~(<<m, n>> \in R)
  BY <1>3
<1>5. \A m \in U : ~(m < n)
  BY <1>2, <1>4 DEF OpToRel
<1>6. \A m \in U : n <= m
  BY <1>2, <1>5
<1> QED BY <1>6 DEF NextId, Min

\* A later world: no line is lost and no acknowledgement regresses.
Later(f, s, e, f2, s2, e2) ==
  /\ World(f, s, e) /\ f2 \in [Agents -> Snapshot]
  /\ \A i \in Ids : s[i] # NoMessage => s2[i] = s[i]
  /\ \A a \in Agents, i \in Ids : f2[a][i] >= f[a][i] \/ i \in e2
  /\ e \subseteq e2

LEMMA EmptyType == Empty \in Snapshot
BY DEF Empty, Snapshot

LEMMA StoredStays ==
  ASSUME NEW f, NEW s, NEW e, NEW f2, NEW s2, NEW e2, Later(f, s, e, f2, s2, e2),
         NEW a \in Agents, NEW i \in Ids, NEW v \in 0..2, Stored(f, e, a, i, v)
  PROVE  Stored(f2, e2, a, i, v)
BY DEF Later, World, Stored, Snapshot

LEMMA BehindStays ==
  ASSUME NEW f, NEW s, NEW e, NEW f2, NEW s2, NEW e2, Later(f, s, e, f2, s2, e2),
         NEW a \in Agents, NEW g \in Snapshot, Behind(g, a, f, s, e)
  PROVE  Behind(g, a, f2, s2, e2)
<1> SUFFICES ASSUME NEW i \in Ids, g[i] # 0
             PROVE  s2[i].to = a /\ Stored(f2, e2, a, i, g[i])
  BY DEF Behind
<1>1. s[i].to = a /\ Stored(f, e, a, i, g[i]) /\ g[i] \in 0..2
  BY DEF Behind, Snapshot
<1>2. s[i] # NoMessage
  BY <1>1, BoundsAssumption DEF NoMessage
<1> QED BY <1>1, <1>2, StoredStays DEF Later

\* What a call knows it knows in every later world.
LEMMA KnowsStays ==
  ASSUME NEW f, NEW s, NEW e, NEW f2, NEW s2, NEW e2, Later(f, s, e, f2, s2, e2),
         NEW r, Shape(r), Knows(r, f, s, e)
  PROVE  Knows(r, f2, s2, e2)
<1>1. \A i \in Ids : s[i].to \in Agents => s[i] # NoMessage
  BY BoundsAssumption DEF NoMessage
<1>2. \A i \in Ids : s[i].from \in Agents => s[i] # NoMessage
  BY BoundsAssumption DEF NoMessage
<1>3. \A i \in Ids : r.staged[i] # 0 =>
        r.call = "mark" /\ r.agent \in Agents /\ s[i] # NoMessage
  BY <1>1 DEF Shape, Empty, Knows
<1>4. \A i \in Ids : r.staged[i] # 0 => s2[i].to = r.agent /\ Stored(f2, e2, r.agent, i, 1)
  <2> SUFFICES ASSUME NEW i \in Ids, r.staged[i] # 0
               PROVE  s2[i].to = r.agent /\ Stored(f2, e2, r.agent, i, 1)
    OBVIOUS
  <2>1. s[i].to = r.agent /\ Stored(f, e, r.agent, i, 1)
    BY DEF Knows
  <2>2. r.agent \in Agents /\ s2[i] = s[i]
    BY <1>3 DEF Later
  <2> QED BY <2>1, <2>2, StoredStays
<1>5. r.at = "written" => Behind(r.staged, r.agent, f2, s2, e2)
  <2> SUFFICES ASSUME r.at = "written" PROVE Behind(r.staged, r.agent, f2, s2, e2)
    OBVIOUS
  <2>1. r.agent \in Agents /\ r.staged \in Snapshot /\ Behind(r.staged, r.agent, f, s, e)
    BY DEF Shape, OpType, Locking, Knows
  <2> QED BY <2>1, BehindStays
<1>6. r.at = "appended" => Stored(f2, e2, r.agent, r.id, 1)
  <2> SUFFICES ASSUME r.at = "appended" PROVE Stored(f2, e2, r.agent, r.id, 1)
    OBVIOUS
  <2>1. r.agent \in Agents /\ r.id \in Ids /\ Stored(f, e, r.agent, r.id, 1)
    BY DEF Shape, Locking, Knows
  <2> QED BY <2>1, StoredStays
<1>7. NotWritten(r) \/ r.at = "appended" => s2[r.id].to = r.agent
  <2> SUFFICES ASSUME NotWritten(r) \/ r.at = "appended" PROVE s2[r.id].to = r.agent
    OBVIOUS
  <2>1. r.agent \in Agents /\ r.id \in Ids /\ s[r.id].to = r.agent
    BY DEF Shape, Locking, Knows, NotWritten
  <2> QED BY <2>1, <1>1 DEF Later
<1>8. ASSUME NEW d \in r.due, NEW i \in d.ids
      PROVE  /\ s2[i].from = d.to /\ s2[i].to = r.reader /\ s2[i].of = {}
             /\ IF r.call = "mark" THEN r.staged[i] = 2 ELSE Stored(f2, e2, r.reader, i, 2)
  <2>1. d \in DueType /\ i \in Ids /\ d.to \in Agents
    BY DEF Shape, OpType, DueType
  <2>2. /\ s[i].from = d.to /\ s[i].to = r.reader /\ s[i].of = {}
        /\ IF r.call = "mark" THEN r.staged[i] = 2 ELSE Stored(f, e, r.reader, i, 2)
    BY DEF Knows
  <2>3. s2[i] = s[i]
    BY <2>1, <2>2, <1>2 DEF Later
  <2>4. r.call # "mark" => r.reader \in Agents
    BY DEF Shape, OpType
  <2> QED BY <2>1, <2>2, <2>3, <2>4, StoredStays
<1> QED BY <1>4, <1>5, <1>6, <1>7, <1>8 DEF Knows
-----------------------------------------------------------------------------
\* A file that only gets lines of messages to its agent.
LEMMA WorldGrows ==
  ASSUME NEW f, NEW s, NEW e, World(f, s, e), NEW a \in Agents, NEW g \in Snapshot,
         \A i \in Ids : g[i] >= f[a][i] /\ (g[i] # 0 => s[i].to = a)
  PROVE  /\ World([f EXCEPT ![a] = g], s, e)
         /\ Later(f, s, e, [f EXCEPT ![a] = g], s, e)
<1> DEFINE f2 == [f EXCEPT ![a] = g]
<1>1. f2 \in [Agents -> Snapshot]
  BY DEF World
<1>2. \A c \in Agents, i \in Ids : f2[c][i] >= f[c][i] /\ (f2[c][i] # 0 => s[i].to = c)
  BY DEF World, Snapshot
<1>3. Later(f, s, e, f2, s, e)
  BY <1>1, <1>2 DEF Later
<1>4. \A r \in Ids : \A i \in s[r].of : Stored(f2, e, s[r].from, i, 2)
  <2> SUFFICES ASSUME NEW r \in Ids, NEW i \in s[r].of
               PROVE  Stored(f2, e, s[r].from, i, 2)
    OBVIOUS
  <2>1. s[r] \in MessageType
    BY DEF World, NoMessage
  <2>2. s[r].from \in Agents /\ i \in Ids
    BY <2>1 DEF MessageType
  <2> QED BY <2>2, <1>3, StoredStays DEF World
<1> HIDE DEF f2
<1>5. World(f2, s, e)
  BY <1>1, <1>2, <1>4 DEF World
<1> QED BY <1>3, <1>5 DEF f2

\* A new message, with acknowledgements that are on disk.
LEMMA WorldPosts ==
  ASSUME NEW f, NEW s, NEW e, World(f, s, e), NEW n \in Ids, s[n] = NoMessage,
         NEW m \in MessageType,
         \A i \in m.of : /\ Stored(f, e, m.from, i, 2)
                         /\ s[i].from = m.to /\ s[i].to = m.from /\ s[i].of = {}
  PROVE  /\ World(f, [s EXCEPT ![n] = m], e)
         /\ Later(f, s, e, f, [s EXCEPT ![n] = m], e)
<1> DEFINE s2 == [s EXCEPT ![n] = m]
<1>0. m # NoMessage /\ m.from \in Agents /\ m.to \in Agents /\ m.of \subseteq Ids
  BY BoundsAssumption DEF NoMessage, MessageType
<1>1. s2 \in [Ids -> MessageType \union {NoMessage}] /\ s2[n] = m
  BY DEF World
<1>2. \A i \in Ids : s[i] # NoMessage => s2[i] = s[i]
  BY DEF World
<1>3. \A i \in e : s2[i] # NoMessage
  BY <1>2 DEF World
<1>4. \A i \in Ids : s[i].to \in Agents => s[i] # NoMessage
  BY BoundsAssumption DEF NoMessage
<1>5. \A a \in Agents, i \in Ids : f[a][i] # 0 => s2[i].to = a
  BY <1>2, <1>4 DEF World
<1>6. \A r \in Ids : \A i \in s2[r].of :
        /\ Stored(f, e, s2[r].from, i, 2)
        /\ s2[i].from = s2[r].to /\ s2[i].to = s2[r].from /\ s2[i].of = {}
  <2> SUFFICES ASSUME NEW r \in Ids, NEW i \in s2[r].of
               PROVE  /\ Stored(f, e, s2[r].from, i, 2)
                      /\ s2[i].from = s2[r].to /\ s2[i].to = s2[r].from /\ s2[i].of = {}
    OBVIOUS
  <2>1. CASE r = n
    <3>1. i \in m.of /\ i \in Ids
      BY <2>1, <1>0, <1>1
    <3>2. s[i].to \in Agents
      BY <3>1, <1>0
    <3> QED BY <2>1, <3>1, <3>2, <1>1, <1>2, <1>4
  <2>2. CASE r # n
    <3>1. s2[r] = s[r]
      BY <2>2 DEF World
    <3>2. s[r] \in MessageType
      BY <3>1 DEF World, NoMessage
    <3>3. s[r].from \in Agents /\ i \in Ids
      BY <3>1, <3>2 DEF MessageType
    <3>4. /\ Stored(f, e, s[r].from, i, 2)
          /\ s[i].from = s[r].to /\ s[i].to = s[r].from /\ s[i].of = {}
      BY <3>1 DEF World
    <3> QED BY <3>1, <3>3, <3>4, <1>2, <1>4
  <2> QED BY <2>1, <2>2
<1>7. World(f, s2, e)
  <2> HIDE DEF s2
  <2> QED BY <1>1, <1>3, <1>5, <1>6 DEF World
<1>8. Later(f, s, e, f, s2, e)
  BY <1>2 DEF Later, World, Snapshot
<1> QED BY <1>7, <1>8

\* The files are deleted.
LEMMA WorldErases ==
  ASSUME NEW f, NEW s, NEW e, World(f, s, e)
  PROVE  LET f2 == [a \in Agents |-> Empty]
             e2 == e \union UNION {Known(f[a]) : a \in Agents}
         IN World(f2, s, e2) /\ Later(f, s, e, f2, s, e2)
<1> DEFINE f2 == [a \in Agents |-> Empty]
           e2 == e \union UNION {Known(f[a]) : a \in Agents}
<1>1. f2 \in [Agents -> Snapshot] /\ \A a \in Agents, i \in Ids : f2[a][i] = 0
  BY EmptyType DEF Empty
<1>2. e2 \subseteq Ids /\ e \subseteq e2
  BY DEF World, Known
<1>3. \A a \in Agents, i \in Ids : f[a][i] # 0 => i \in e2
  BY DEF Known
<1>4. \A i \in e2 : s[i] # NoMessage
  <2>1. \A i \in Ids : s[i].to \in Agents => s[i] # NoMessage
    BY BoundsAssumption DEF NoMessage
  <2> QED BY <2>1 DEF World, Known
<1> HIDE DEF f2, e2
<1>5. \A a \in Agents, i \in Ids : f2[a][i] >= f[a][i] \/ i \in e2
  BY <1>1, <1>3
<1>6. Later(f, s, e, f2, s, e2)
  BY <1>1, <1>2, <1>5 DEF Later
<1>7. \A r \in Ids : \A i \in s[r].of : Stored(f2, e2, s[r].from, i, 2)
  <2> SUFFICES ASSUME NEW r \in Ids, NEW i \in s[r].of
               PROVE  Stored(f2, e2, s[r].from, i, 2)
    OBVIOUS
  <2>1. s[r] \in MessageType
    BY DEF World, NoMessage
  <2>2. s[r].from \in Agents /\ i \in Ids
    BY <2>1 DEF MessageType
  <2> QED BY <2>2, <1>6, StoredStays DEF World
<1>8. World(f2, s, e2)
  BY <1>1, <1>2, <1>4, <1>7 DEF World
<1> QED BY <1>6, <1>8 DEF f2, e2
-----------------------------------------------------------------------------
\* The memory and the calls that a step leaves alone stand in a later world.
LEMMA MemoryStays ==
  ASSUME Memory, Later(file, sent, erased, file', sent', erased'),
         UNCHANGED <<registered, epoch, inbox>>
  PROVE  Memory'
<1>1. \A b \in Buses, a \in Agents : Behind(inbox[b][a], a, file', sent', erased')
  BY BehindStays DEF Memory
<1> QED BY <1>1 DEF Memory

LEMMA OthersKnow ==
  ASSUME Calls, Later(file, sent, erased, file', sent', erased'), NEW p \in Ops
  PROVE  Knows(op[p], file', sent', erased')
BY KnowsStays DEF Calls, Sound

\* A call o goes to stage r.
LEMMA CallsStep ==
  ASSUME Calls, Later(file, sent, erased, file', sent', erased'),
         NEW o \in Ops, NEW r, op' = [op EXCEPT ![o] = r], Sound(r, file', sent', erased'),
         \A p \in Ops \ {o} : Unseen(op[p], file', erased'),
         \A p \in Ops \ {o} : NotWritten(r) /\ NotWritten(op[p]) => r.id # op[p].id
  PROVE  Calls'
<1>1. op' = [p \in Ops |-> IF p = o THEN r ELSE op[p]]
  BY DEF Calls
<1>2. DOMAIN op' = Ops /\ op' = [p \in Ops |-> op'[p]]
  BY <1>1
<1>3. op'[o] = r /\ \A p \in Ops \ {o} : op'[p] = op[p]
  BY <1>1
<1>4. \A p \in Ops : Sound(op'[p], file', sent', erased')
  BY <1>3, OthersKnow DEF Calls, Sound
<1>5. \A p, q \in Ops : NotWritten(op'[p]) /\ NotWritten(op'[q]) /\ op'[p].id = op'[q].id => p = q
  BY <1>3 DEF Calls
<1> QED BY <1>2, <1>4, <1>5 DEF Calls

\* Nothing happens to files and messages.
LEMMA SameWorld ==
  ASSUME Inv, UNCHANGED <<file, sent, erased>>
  PROVE  /\ World(file', sent', erased')
         /\ Later(file, sent, erased, file', sent', erased')
BY DEF Inv, World, Later, Snapshot

LEMMA CallMoves ==
  ASSUME Inv, UNCHANGED <<file, sent, erased>>, torn' = {}, Memory',
         NEW o \in Ops, NEW r, op' = [op EXCEPT ![o] = r], Sound(r, file, sent, erased),
         NotWritten(r) => NotWritten(op[o]) /\ r.id = op[o].id
  PROVE  Inv'
<1>1. World(file', sent', erased') /\ Later(file, sent, erased, file', sent', erased')
  BY SameWorld
<1>2. \A p \in Ops \ {o} : Unseen(op[p], file', erased')
  BY DEF Inv, Calls, Sound
<1>3. \A p \in Ops \ {o} : NotWritten(r) /\ NotWritten(op[p]) => r.id # op[p].id
  BY DEF Inv, Calls
<1>4. Sound(r, file', sent', erased')
  OBVIOUS
<1>5. Calls'
  BY <1>1, <1>2, <1>3, <1>4, CallsStep DEF Inv
<1> QED BY <1>1, <1>5 DEF Inv

LEMMA MemoryMoves ==
  ASSUME Inv, UNCHANGED <<file, sent, erased, op>>, torn' = {}, Memory'
  PROVE  Inv'
<1>1. World(file', sent', erased')
  BY SameWorld
<1>2. Calls'
  BY DEF Inv, Calls
<1> QED BY <1>1, <1>2 DEF Inv

\* A thread brings the file of a to g; only the line of o's own message is new.
LEMMA FileStep ==
  ASSUME Inv, torn' = {}, UNCHANGED <<registered, epoch, inbox, sent, erased>>,
         NEW o \in Ops, NEW a \in Agents, NEW g \in Snapshot, file' = [file EXCEPT ![a] = g],
         \A i \in Ids : g[i] >= file[a][i] /\ (g[i] # 0 => sent[i].to = a),
         \A i \in Ids : g[i] # 0 =>
           file[a][i] # 0 \/ i \in erased \/ (NotWritten(op[o]) /\ i = op[o].id),
         NEW r, op' = [op EXCEPT ![o] = r], Sound(r, file', sent, erased), ~NotWritten(r)
  PROVE  Inv' /\ Later(file, sent, erased, file', sent', erased')
<1>1. /\ World(file', sent', erased')
      /\ Later(file, sent, erased, file', sent', erased')
  BY WorldGrows DEF Inv
<1>2. Memory'
  BY <1>1, MemoryStays DEF Inv
<1>3. ASSUME NEW p \in Ops \ {o}, NotWritten(op[p])
      PROVE  file'[op[p].agent][op[p].id] = 0 /\ op[p].id \notin erased
  <2>1. /\ op[p].id \in Ids /\ op[p].agent \in Agents /\ op[p].id \notin erased
        /\ file[op[p].agent][op[p].id] = 0
    BY <1>3 DEF Inv, Calls, Sound, Shape, Unseen, NotWritten, Locking
  <2>2. NotWritten(op[o]) => op[p].id # op[o].id
    BY <1>3 DEF Inv, Calls
  <2>3. op[p].agent = a => g[op[p].id] = 0
    BY <2>1, <2>2
  <2> QED BY <2>1, <2>3 DEF Inv, World
<1>4. Calls'
  <2>1. \A p \in Ops \ {o} : Unseen(op[p], file', erased')
    BY <1>3 DEF Unseen
  <2> QED BY <2>1, <1>1, CallsStep DEF Inv
<1> QED BY <1>1, <1>2, <1>4 DEF Inv

\* The next message is made for call o.
LEMMA PostStep ==
  ASSUME Inv, Unused # {}, torn' = {}, UNCHANGED <<registered, epoch, inbox, file, erased>>,
         NEW o \in Ops, NEW m \in MessageType, sent' = [sent EXCEPT ![NextId] = m],
         \A i \in m.of : /\ Stored(file, erased, m.from, i, 2)
                         /\ sent[i].from = m.to /\ sent[i].to = m.from /\ sent[i].of = {},
         NEW r, op' = [op EXCEPT ![o] = r], Shape(r), Knows(r, file, sent', erased),
         r.id = NextId, r.agent \in Agents
  PROVE  Inv' /\ Later(file, sent, erased, file', sent', erased')
<1>0. NextId \in Ids /\ sent[NextId] = NoMessage
  BY NextIsUnused DEF Unused
<1>1. /\ World(file', sent', erased')
      /\ Later(file, sent, erased, file', sent', erased')
  BY <1>0, WorldPosts DEF Inv
<1>2. Memory'
  BY <1>1, MemoryStays DEF Inv
<1>3. Unseen(r, file, erased)
  <2>1. sent[NextId].to \notin Agents
    BY <1>0, BoundsAssumption DEF NoMessage
  <2> QED BY <1>0, <2>1 DEF Unseen, Inv, World
<1>4. \A p \in Ops \ {o} : NotWritten(op[p]) => op[p].id # NextId
  <2>1. \A p \in Ops : NotWritten(op[p]) =>
          sent[op[p].id].to = op[p].agent /\ op[p].agent \in Agents
    BY DEF Inv, Calls, Sound, Shape, Knows, NotWritten, Locking
  <2> QED BY <1>0, <2>1, BoundsAssumption DEF NoMessage
<1>5. Calls'
  <2>1. \A p \in Ops \ {o} : Unseen(op[p], file', erased')
    BY DEF Inv, Calls, Sound
  <2>2. Sound(r, file', sent', erased')
    BY <1>3 DEF Sound
  <2> QED BY <2>1, <2>2, <1>1, <1>4, CallsStep DEF Inv
<1> QED BY <1>1, <1>2, <1>5 DEF Inv
-----------------------------------------------------------------------------
LEMMA IdleIsSound ==
  ASSUME NEW f, NEW s, NEW e
  PROVE  Sound(Idle, f, s, e) /\ ~NotWritten(Idle)
<1>1. Idle \in OpType
  BY EmptyType DEF Idle, OpType, Stages
<1>2. Shape(Idle) /\ ~NotWritten(Idle)
  BY <1>1 DEF Idle, Shape, Locking, NotWritten
<1>3. \A i \in Ids : Idle.staged[i] = 0
  BY DEF Idle, Empty
<1>4. Idle.at = "idle" /\ Idle.due = {}
  BY DEF Idle
<1>5. Knows(Idle, f, s, e)
  BY <1>2, <1>3, <1>4 DEF Knows
<1> QED BY <1>2, <1>5 DEF Sound, Unseen

\* A call that tells the senders whose acknowledgements are on disk.
LEMMA TellingIsSound ==
  ASSUME NEW f, NEW s, NEW e, NEW r, r.bus \in Buses, r.reader \in Agents,
         NEW due \in SUBSET DueType,
         \A d \in due : \A i \in d.ids :
           /\ s[i].from = d.to /\ s[i].to = r.reader /\ s[i].of = {}
           /\ Stored(f, e, r.reader, i, 2)
  PROVE  Sound(Telling(r, due), f, s, e) /\ ~NotWritten(Telling(r, due))
<1> DEFINE t == Telling(r, due)
<1>1. Idle \in OpType /\ Idle.staged = Empty
  BY IdleIsSound DEF Sound, Shape, Idle
<1>2. t \in OpType
  BY <1>1 DEF OpType, Stages, Telling
<1>3. /\ t.at = "receipts" /\ t.call = "receipt" /\ t.bus = r.bus /\ t.reader = r.reader
      /\ t.staged = Empty /\ t.due = due
  BY <1>1 DEF Telling, OpType
<1> HIDE DEF t
<1>4. Shape(t) /\ ~NotWritten(t)
  BY <1>2, <1>3 DEF Shape, Locking, NotWritten
<1>5. \A i \in Ids : t.staged[i] = 0
  BY <1>3 DEF Empty
<1>6. Knows(t, f, s, e)
  BY <1>3, <1>4, <1>5 DEF Knows
<1> QED BY <1>4, <1>6 DEF Sound, Unseen, t

\* What send returns to.
LEMMA ReturnsIsSound ==
  ASSUME Inv, NEW o \in Ops, op[o].at \in Locking
  PROVE  LET r == IF op[o].call = "receipt" THEN Telling(op[o], op[o].due) ELSE Idle
         IN Sound(r, file, sent, erased) /\ ~NotWritten(r)
<1>1. CASE op[o].call = "receipt"
  <2>1. /\ op[o].bus \in Buses /\ op[o].reader \in Agents /\ op[o].due \in SUBSET DueType
    BY <1>1 DEF Inv, Calls, Sound, Shape, OpType, Locking
  <2>2. \A d \in op[o].due : \A i \in d.ids :
           /\ sent[i].from = d.to /\ sent[i].to = op[o].reader /\ sent[i].of = {}
           /\ Stored(file, erased, op[o].reader, i, 2)
    BY <1>1 DEF Inv, Calls, Sound, Knows
  <2>3. /\ Sound(Telling(op[o], op[o].due), file, sent, erased)
        /\ ~NotWritten(Telling(op[o], op[o].due))
    <3> DEFINE r == op[o]
               due == r.due
    <3>1. /\ r.bus \in Buses /\ r.reader \in Agents /\ due \in SUBSET DueType
          /\ \A d \in due : \A i \in d.ids :
               /\ sent[i].from = d.to /\ sent[i].to = r.reader /\ sent[i].of = {}
               /\ Stored(file, erased, r.reader, i, 2)
      BY <2>1, <2>2
    <3> HIDE DEF r, due
    <3>2. Sound(Telling(r, due), file, sent, erased) /\ ~NotWritten(Telling(r, due))
      BY <3>1, TellingIsSound
    <3> QED BY <3>2 DEF r, due
  <2> QED BY <1>1, <2>3
<1>2. CASE op[o].call # "receipt"
  BY <1>2, IdleIsSound
<1> QED BY <1>1, <1>2

\* A call that goes on to another stage without learning anything.
LEMMA MovedIsSound ==
  ASSUME NEW f, NEW s, NEW e, NEW r, Sound(r, f, s, e), NEW stage, NEW n \in 0..2,
         r.at \in Locking,
         \/ stage = r.at
         \/ stage = "failed"
         \/ r.at = "waiting" /\ r.call # "mark" /\ stage = "appending"
  PROVE  LET t == [r EXCEPT !.at = stage, !.stopped = n]
         IN Sound(t, f, s, e) /\ t.id = r.id /\ (NotWritten(t) => NotWritten(r))
<1> DEFINE t == [r EXCEPT !.at = stage, !.stopped = n]
<1>0. r \in OpType /\ stage \in Locking \ {"idle", "receipts"}
  BY DEF Sound, Shape, Locking
<1>1. t \in OpType
  BY <1>0 DEF OpType, Stages
<1>2. /\ t.at = stage /\ t.call = r.call /\ t.bus = r.bus /\ t.agent = r.agent /\ t.id = r.id
      /\ t.reader = r.reader /\ t.staged = r.staged /\ t.due = r.due
  BY <1>0 DEF OpType
<1> HIDE DEF t
<1>3. Shape(t)
  BY <1>0, <1>1, <1>2 DEF Sound, Shape, Locking
<1>4. NotWritten(t) => NotWritten(r)
  BY <1>2 DEF NotWritten, Locking
<1>5. Knows(t, f, s, e)
  BY <1>2, <1>4 DEF Sound, Knows
<1>6. Unseen(t, f, e)
  BY <1>2, <1>4 DEF Sound, Unseen
<1> QED BY <1>2, <1>3, <1>4, <1>5, <1>6 DEF Sound, t
-----------------------------------------------------------------------------
LEMMA EmptyIsBehind ==
  ASSUME NEW a, NEW f, NEW s, NEW e
  PROVE  Behind(Empty, a, f, s, e)
BY DEF Behind, Empty

\* What the file has may be shown.
LEMMA FileIsBehind ==
  ASSUME NEW f, NEW s, NEW e, World(f, s, e), NEW a \in Agents
  PROVE  f[a] \in Snapshot /\ Behind(f[a], a, f, s, e)
BY DEF World, Behind, Stored, Snapshot

LEMMA MergeType ==
  ASSUME NEW g \in Snapshot, NEW h \in Snapshot
  PROVE  /\ Merge(g, h) \in Snapshot
         /\ \A i \in Ids : /\ Merge(g, h)[i] >= g[i] /\ Merge(g, h)[i] >= h[i]
                           /\ Merge(g, h)[i] \in {g[i], h[i]}
BY DEF Merge, Snapshot

LEMMA MergeIsBehind ==
  ASSUME NEW f, NEW s, NEW e, NEW a, NEW g \in Snapshot, NEW h \in Snapshot,
         Behind(g, a, f, s, e), Behind(h, a, f, s, e)
  PROVE  Behind(Merge(g, h), a, f, s, e)
BY MergeType DEF Behind

\* An inbox that is replaced by a snapshot behind the file.
LEMMA MemoryStep ==
  ASSUME Inv, UNCHANGED <<file, sent, erased>>, NEW b \in Buses, NEW a \in Agents,
         NEW g \in Snapshot, Behind(g, a, file, sent, erased),
         inbox' = [inbox EXCEPT ![b][a] = g],
         registered' \in [Buses -> SUBSET Agents], epoch' \in [Buses -> [Agents -> Nat]]
  PROVE  Memory'
<1>1. inbox' \in [Buses -> [Agents -> Snapshot]]
  BY DEF Inv, Memory
<1>2. \A c \in Buses, d \in Agents : inbox'[c][d] = IF c = b /\ d = a THEN g ELSE inbox[c][d]
  BY DEF Inv, Memory
<1>3. \A c \in Buses, d \in Agents : Behind(inbox'[c][d], d, file, sent, erased)
  BY <1>2 DEF Inv, Memory
<1> QED BY <1>1, <1>3 DEF Memory

LEMMA SameMemory ==
  ASSUME Inv, UNCHANGED <<file, sent, erased, registered, epoch, inbox>>
  PROVE  Memory'
BY DEF Inv, Memory

LEMMA RefreshKeeps ==
  ASSUME Inv, UNCHANGED <<file, sent, erased, registered, epoch>>,
         NEW b \in Buses, NEW a \in Agents, Refresh(b, a)
  PROVE  Memory'
<1> DEFINE g == Merge(inbox[b][a], file[a])
<1>1. inbox' = [inbox EXCEPT ![b][a] = g]
  BY DEF Refresh
<1>2. inbox[b][a] \in Snapshot /\ Behind(inbox[b][a], a, file, sent, erased)
  BY DEF Inv, Memory
<1>3. file[a] \in Snapshot /\ Behind(file[a], a, file, sent, erased)
  BY FileIsBehind DEF Inv
<1>4. g \in Snapshot /\ Behind(g, a, file, sent, erased)
  BY <1>2, <1>3, MergeType, MergeIsBehind
<1>5. registered' \in [Buses -> SUBSET Agents] /\ epoch' \in [Buses -> [Agents -> Nat]]
  BY DEF Inv, Memory
<1> HIDE DEF g
<1> QED BY <1>1, <1>4, <1>5, MemoryStep

LEMMA RefreshIfKeeps ==
  ASSUME Inv, UNCHANGED <<file, sent, erased, registered, epoch>>,
         NEW b \in Buses, NEW a \in Agents, RefreshIfRegistered(b, a)
  PROVE  Memory'
BY RefreshKeeps, SameMemory DEF RefreshIfRegistered
-----------------------------------------------------------------------------
LEMMA RegisterKeeps ==
  ASSUME Inv, NEW b \in Buses, NEW a \in Agents, Register(b, a)
  PROVE  Inv'
<1>1. file[a] \in Snapshot /\ Behind(file[a], a, file, sent, erased)
  BY FileIsBehind DEF Inv
<1>2. registered' \in [Buses -> SUBSET Agents] /\ epoch' \in [Buses -> [Agents -> Nat]]
  BY DEF Inv, Memory, Register
<1>3. Memory'
  BY <1>1, <1>2, MemoryStep DEF Register
<1> QED BY <1>3, MemoryMoves DEF Register, Inv

LEMMA UnregisterKeeps ==
  ASSUME Inv, NEW b \in Buses, NEW a \in Agents, Unregister(b, a)
  PROVE  Inv'
<1>1. Empty \in Snapshot /\ Behind(Empty, a, file, sent, erased)
  BY EmptyType, EmptyIsBehind
<1>2. registered' \in [Buses -> SUBSET Agents] /\ epoch' \in [Buses -> [Agents -> Nat]]
  BY DEF Inv, Memory, Unregister
<1>3. Memory'
  BY <1>1, <1>2, MemoryStep DEF Unregister
<1> QED BY <1>3, MemoryMoves DEF Unregister, Inv

LEMMA GetKeeps ==
  ASSUME Inv, NEW b \in Buses, NEW a \in Agents, Get(b, a)
  PROVE  Inv'
<1>1. Memory'
  BY RefreshKeeps DEF Get
<1> QED BY <1>1, MemoryMoves DEF Get, Inv

\* What send returns to, as a step.
LEMMA ReturnsKeeps ==
  ASSUME Inv, UNCHANGED <<file, sent, erased>>, torn' = {}, Memory',
         NEW o \in Ops, op[o].at \in Locking, Returns(o)
  PROVE  Inv'
<1> DEFINE r == IF op[o].call = "receipt" THEN Telling(op[o], op[o].due) ELSE Idle
<1>1. op' = [op EXCEPT ![o] = r]
  BY DEF Returns
<1>2. Sound(r, file, sent, erased) /\ ~NotWritten(r)
  BY ReturnsIsSound
<1> HIDE DEF r
<1> QED BY <1>1, <1>2, CallMoves

LEMMA EndsKeeps ==
  ASSUME Inv, UNCHANGED <<file, sent, erased>>, torn' = {}, Memory', NEW o \in Ops, Ends(o)
  PROVE  Inv'
<1>1. op' = [op EXCEPT ![o] = Idle]
  BY DEF Ends
<1> QED BY <1>1, IdleIsSound, CallMoves

LEMMA GoesKeeps ==
  ASSUME Inv, UNCHANGED <<file, sent, erased>>, torn' = {}, Memory',
         NEW o \in Ops, op[o].at \in Locking, NEW stage, Goes(o, stage),
         \/ stage = "failed"
         \/ op[o].at = "waiting" /\ op[o].call # "mark" /\ stage = "appending"
  PROVE  Inv'
<1> DEFINE n == op[o].stopped
           r == [op[o] EXCEPT !.at = stage, !.stopped = n]
<1>0. Sound(op[o], file, sent, erased) /\ n \in 0..2 /\ op[o] \in OpType
  BY DEF Inv, Calls, Sound, Shape, OpType
<1>1. r = [op[o] EXCEPT !.at = stage]
  BY <1>0 DEF OpType
<1>2. op' = [op EXCEPT ![o] = r]
  BY <1>1 DEF Goes
<1>3. Sound(r, file, sent, erased) /\ r.id = op[o].id /\ (NotWritten(r) => NotWritten(op[o]))
  <2> HIDE DEF n
  <2> QED BY <1>0, MovedIsSound
<1> HIDE DEF r
<1> QED BY <1>2, <1>3, CallMoves
-----------------------------------------------------------------------------
\* Sending.
LEMMA SendKeeps ==
  ASSUME Inv, NEW o \in Ops, NEW b \in Buses, NEW from \in Agents, NEW to \in Agents,
         Send(o, b, from, to)
  PROVE  Inv' /\ Later(file, sent, erased, file', sent', erased')
<1> DEFINE m == [from |-> from, to |-> to, of |-> {}]
           at == IF locked[b][to] = <<>> THEN "appending" ELSE "waiting"
           r == [Idle EXCEPT !.at = at, !.bus = b, !.agent = to, !.epoch = epoch[b][to], !.id = NextId]
<1>0. /\ Unused # {} /\ op' = [op EXCEPT ![o] = r] /\ sent' = [sent EXCEPT ![NextId] = m]
      /\ UNCHANGED <<registered, epoch, inbox, file, erased>> /\ torn' = {}
  BY DEF Send, Inv
<1>1. NextId \in Ids /\ Ids \subseteq Nat /\ epoch[b][to] \in Nat
  BY <1>0, NextIsUnused, BoundsAssumption DEF Unused, Ids, Inv, Memory
<1>2. m \in MessageType /\ m.of = {}
  BY DEF MessageType
<1>3. Idle \in OpType /\ Idle.staged = Empty /\ Idle.due = {} /\ Idle.call = "send"
  BY IdleIsSound DEF Sound, Shape, Idle
<1>4. at \in {"appending", "waiting"}
  OBVIOUS
<1>5. /\ r \in OpType /\ r.staged = Empty /\ r.due = {} /\ r.call = "send" /\ r.bus = b
      /\ r.agent = to /\ r.id = NextId /\ r.at = at
  <2> HIDE DEF at
  <2> QED BY <1>1, <1>3, <1>4 DEF OpType, Stages, Locking
<1> HIDE DEF r, at
<1>6. Shape(r)
  BY <1>1, <1>4, <1>5 DEF Shape, Locking
<1>7. sent'[NextId].to = to
  BY <1>0, <1>1 DEF Inv, World
<1>8. Knows(r, file, sent', erased)
  BY <1>4, <1>5, <1>7 DEF Knows, Empty
<1> HIDE DEF m
<1> QED BY <1>0, <1>2, <1>5, <1>6, <1>8, PostStep

LEMMA EnterKeeps ==
  ASSUME Inv, NEW o \in Ops, Enter(o)
  PROVE  Inv'
<1>1. op[o].at \in Locking /\ torn' = {} /\ Memory'
  BY SameMemory DEF Enter, Locking, Inv
<1>2. CASE Goes(o, "appending")
  BY <1>1, <1>2, GoesKeeps DEF Enter
<1>3. CASE Returns(o)
  BY <1>1, <1>3, ReturnsKeeps DEF Enter
<1> QED BY <1>2, <1>3 DEF Enter

\* A thread that failed.
LEMMA FailureKeeps ==
  ASSUME Inv, NEW o \in Ops, op[o].at \in {"appending", "writing"}, ThreadEnds(o, "failed"),
         UNCHANGED <<file, epoch, registered, inbox, sent, erased>>, torn' = {}
  PROVE  Inv'
<1>1. op[o].at \in Locking /\ Memory'
  BY SameMemory DEF Locking
<1> QED BY <1>1, GoesKeeps, EndsKeeps DEF ThreadEnds

LEMMA FailsKeeps ==
  ASSUME Inv, NEW o \in Ops, Fails(o)
  PROVE  Inv'
<1>1. op[o].at \in Locking /\ Memory' /\ torn' = {}
  BY SameMemory DEF Fails, Locking, Inv
<1> QED BY <1>1, ReturnsKeeps DEF Fails

LEMMA AppendKeeps ==
  ASSUME Inv, NEW o \in Ops, AppendLine(o)
  PROVE  Inv' /\ Later(file, sent, erased, file', sent', erased')
<1> DEFINE c == op[o]
           g == [file[c.agent] EXCEPT ![c.id] = 1]
           r == IF c.stopped = 0 THEN [c EXCEPT !.at = "appended"] ELSE Idle
<1>1. /\ c \in OpType /\ c.at = "appending" /\ Shape(c) /\ NotWritten(c)
      /\ c.agent \in Agents /\ c.id \in Ids /\ c.call # "mark" /\ Knows(c, file, sent, erased)
      /\ file[c.agent][c.id] = 0
  BY DEF AppendLine, Inv, Calls, Sound, Shape, Locking, NotWritten, Unseen
<1>2. /\ file' = [file EXCEPT ![c.agent] = g] /\ torn' = {} /\ op' = [op EXCEPT ![o] = r]
      /\ UNCHANGED <<registered, epoch, inbox, sent, erased>>
  BY DEF AppendLine, Inv, ThreadEnds, Goes, Ends
<1>3. file[c.agent] \in Snapshot /\ file \in [Agents -> Snapshot]
  BY <1>1 DEF Inv, World
<1>4. /\ g \in Snapshot /\ g[c.id] = 1
      /\ \A i \in Ids \ {c.id} : g[i] = file[c.agent][i]
  BY <1>1, <1>3 DEF Snapshot
<1>5. \A i \in Ids : g[i] >= file[c.agent][i] /\ (g[i] # 0 => sent[i].to = c.agent)
  <2>1. sent[c.id].to = c.agent
    BY <1>1 DEF Knows
  <2>2. \A i \in Ids : file[c.agent][i] # 0 => sent[i].to = c.agent
    BY <1>1 DEF Inv, World
  <2> QED BY <1>1, <1>3, <1>4, <2>1, <2>2 DEF Snapshot
<1>6. Later(file, sent, erased, file', sent, erased)
  <2> HIDE DEF g, c
  <2> QED BY <1>1, <1>2, <1>4, <1>5, WorldGrows DEF Inv
<1>7. Sound(r, file', sent, erased) /\ ~NotWritten(r)
  <2>1. CASE c.stopped = 0
    <3> DEFINE t == [c EXCEPT !.at = "appended"]
    <3>1. /\ t \in OpType /\ t.at = "appended" /\ t.call = c.call /\ t.bus = c.bus
          /\ t.agent = c.agent /\ t.id = c.id /\ t.reader = c.reader /\ t.staged = c.staged
          /\ t.due = c.due
      BY <1>1 DEF OpType, Stages, Locking
    <3> HIDE DEF t
    <3>2. Knows(c, file', sent, erased)
      <4> HIDE DEF c
      <4> QED BY <1>1, <1>6, KnowsStays
    <3>3. Stored(file', erased, c.agent, c.id, 1)
      BY <1>1, <1>2, <1>3, <1>4 DEF Stored
    <3>4. Shape(t) /\ ~NotWritten(t)
      BY <1>1, <3>1 DEF Shape, Locking, NotWritten
    <3>5. Knows(t, file', sent, erased)
      BY <1>1, <3>1, <3>2, <3>3 DEF Knows
    <3> QED BY <2>1, <3>4, <3>5 DEF Sound, Unseen, t
  <2>2. CASE c.stopped # 0
    BY <2>2, IdleIsSound
  <2> QED BY <2>1, <2>2
<1>8. \A i \in Ids : g[i] # 0 =>
        file[c.agent][i] # 0 \/ i \in erased \/ (NotWritten(op[o]) /\ i = op[o].id)
  BY <1>1, <1>4
<1>9. c.agent \in Agents
  BY <1>1
<1> HIDE DEF g, r
<1> QED BY <1>2, <1>4, <1>5, <1>7, <1>8, <1>9, FileStep

LEMMA DeliverKeeps ==
  ASSUME Inv, NEW o \in Ops, Deliver(o)
  PROVE  Inv'
<1> DEFINE c == op[o]
           h == [Empty EXCEPT ![c.id] = 1]
           g == Merge(inbox[c.bus][c.agent], h)
<1>1. /\ op[o].at \in Locking /\ c.at = "appended" /\ torn' = {}
      /\ c.bus \in Buses /\ c.agent \in Agents /\ c.call # "mark"
      /\ c.id \in Ids /\ sent[c.id].to = c.agent /\ Stored(file, erased, c.agent, c.id, 1)
  BY DEF Deliver, Inv, Calls, Sound, Shape, Knows, Locking
<1>2. UNCHANGED <<file, sent, erased, registered, epoch>> /\ Returns(o)
  BY DEF Deliver
<1>3. CASE Current(c.bus, c.agent, c.epoch)
  <2>1. inbox' = [inbox EXCEPT ![c.bus][c.agent] = g]
    BY <1>3 DEF Deliver
  <2>2. h \in Snapshot /\ Behind(h, c.agent, file, sent, erased)
    BY <1>1 DEF Snapshot, Behind, Empty
  <2>3. inbox[c.bus][c.agent] \in Snapshot /\ Behind(inbox[c.bus][c.agent], c.agent, file, sent, erased)
    BY <1>1 DEF Inv, Memory
  <2> HIDE DEF h
  <2>4. g \in Snapshot /\ Behind(g, c.agent, file, sent, erased)
    BY <2>2, <2>3, MergeType, MergeIsBehind
  <2>5. registered' \in [Buses -> SUBSET Agents] /\ epoch' \in [Buses -> [Agents -> Nat]]
    BY <1>2 DEF Inv, Memory
  <2>6. Memory'
    <3> HIDE DEF g, c
    <3> QED BY <1>1, <1>2, <2>1, <2>4, <2>5, MemoryStep
  <2> QED BY <1>1, <1>2, <2>6, ReturnsKeeps
<1>4. CASE ~Current(c.bus, c.agent, c.epoch)
  <2>1. Memory'
    BY <1>1, <1>2, <1>4, RefreshIfKeeps DEF Deliver
  <2> QED BY <1>1, <1>2, <2>1, ReturnsKeeps
<1> QED BY <1>3, <1>4
-----------------------------------------------------------------------------
\* Acknowledging.
LEMMA MarkKeeps ==
  ASSUME Inv, NEW o \in Ops, NEW b \in Buses, NEW a \in Agents, NEW which \in SUBSET Ids,
         Mark(o, b, a, which)
  PROVE  Inv'
<1> DEFINE r == [Idle EXCEPT !.at = "waiting", !.call = "mark", !.bus = b, !.agent = a,
                             !.reader = a, !.epoch = epoch[b][a], !.which = which]
<1>0. op' = [op EXCEPT ![o] = r] /\ UNCHANGED <<file, sent, erased>> /\ torn' = {} /\ Memory'
  BY SameMemory DEF Mark, Inv
<1>1. Idle \in OpType /\ Idle.staged = Empty /\ Idle.due = {}
  BY IdleIsSound DEF Sound, Shape, Idle
<1>2. epoch[b][a] \in Nat
  BY DEF Inv, Memory
<1>3. /\ r \in OpType /\ r.at = "waiting" /\ r.call = "mark" /\ r.bus = b /\ r.agent = a
      /\ r.reader = a /\ r.staged = Empty /\ r.due = {}
  BY <1>1, <1>2 DEF OpType, Stages, Locking
<1> HIDE DEF r
<1>4. Shape(r) /\ ~NotWritten(r)
  BY <1>3 DEF Shape, Locking, NotWritten
<1>5. \A i \in Ids : r.staged[i] = 0
  BY <1>3 DEF Empty
<1>6. Sound(r, file, sent, erased)
  BY <1>3, <1>4, <1>5 DEF Sound, Knows, Unseen
<1> QED BY <1>0, <1>4, <1>6, CallMoves

\* The receipts that are due are for the senders of what is acknowledged.
LEMMA ReceiptsAreDue ==
  ASSUME Inv, NEW b \in Buses, NEW marked \in SUBSET Ids
  PROVE  /\ Receipts(b, marked) \subseteq DueType
         /\ \A d \in Receipts(b, marked) : \A i \in d.ids :
              i \in marked /\ sent[i].from = d.to /\ sent[i].of = {}
<1>1. registered[b] \subseteq Agents /\ \A a \in Agents : epoch[b][a] \in Nat
  BY DEF Inv, Memory
<1> QED BY <1>1 DEF Receipts, DueType, IsReceipt

LEMMA StageKeeps ==
  ASSUME Inv, NEW o \in Ops, Stage(o)
  PROVE  Inv'
<1> DEFINE c == op[o]
           now == Merge(inbox[c.bus][c.agent], file[c.agent])
           marked == UnreadOf(now) \intersect c.which
           g == [i \in Ids |-> IF i \in marked THEN 2 ELSE now[i]]
           due == Receipts(c.bus, marked)
           r == [c EXCEPT !.at = "writing", !.which = {}, !.staged = g, !.due = due]
<1>1. /\ c \in OpType /\ c.at = "waiting" /\ c.call = "mark" /\ c.bus \in Buses
      /\ c.agent \in Agents /\ c.reader = c.agent /\ torn' = {}
      /\ UNCHANGED <<file, sent, erased, registered, epoch>>
  BY DEF Stage, Inv, Calls, Sound, Shape, Locking
<1>2. CASE ~Current(c.bus, c.agent, c.epoch)
  <2>1. Ends(o) /\ UNCHANGED inbox
    BY <1>2 DEF Stage
  <2>2. Memory'
    BY <1>1, <2>1, SameMemory
  <2> QED BY <1>1, <2>1, <2>2, EndsKeeps
<1>3. CASE Current(c.bus, c.agent, c.epoch)
  <2>1. Refresh(c.bus, c.agent) /\ op' = [op EXCEPT ![o] = r]
    BY <1>3 DEF Stage
  <2>2. Memory'
    <3> HIDE DEF c
    <3> QED BY <1>1, <2>1, RefreshKeeps
  <2>3. now \in Snapshot /\ Behind(now, c.agent, file, sent, erased)
    <3>1. inbox[c.bus][c.agent] \in Snapshot
          /\ Behind(inbox[c.bus][c.agent], c.agent, file, sent, erased)
      BY <1>1 DEF Inv, Memory
    <3>2. file[c.agent] \in Snapshot /\ Behind(file[c.agent], c.agent, file, sent, erased)
      BY <1>1, FileIsBehind DEF Inv
    <3> QED BY <3>1, <3>2, MergeType, MergeIsBehind
  <2>4. marked \in SUBSET Ids /\ \A i \in marked : now[i] = 1
    BY DEF UnreadOf
  <2> HIDE DEF now, marked
  <2>5. g \in Snapshot /\ \A i \in Ids : g[i] # 0 => now[i] # 0
    BY <2>3, <2>4 DEF Snapshot
  <2>6. /\ due \subseteq DueType
        /\ \A d \in due : \A i \in d.ids : i \in marked /\ sent[i].from = d.to /\ sent[i].of = {}
    BY <1>1, <2>4, ReceiptsAreDue
  <2>7. \A i \in marked : i \in Ids /\ g[i] = 2
    BY <2>4
  <2>8. \A i \in Ids : g[i] # 0 => sent[i].to = c.agent /\ Stored(file, erased, c.agent, i, 1)
    <3> SUFFICES ASSUME NEW i \in Ids, g[i] # 0
                 PROVE  sent[i].to = c.agent /\ Stored(file, erased, c.agent, i, 1)
      OBVIOUS
    <3>1. now[i] # 0 /\ now[i] \in 0..2
      BY <2>3, <2>5 DEF Snapshot
    <3>2. file[c.agent][i] \in 0..2
      BY <1>1 DEF Inv, World, Snapshot
    <3> QED BY <2>3, <3>1, <3>2 DEF Behind, Stored
  <2> HIDE DEF g, due
  <2>9. /\ r \in OpType /\ r.at = "writing" /\ r.call = "mark" /\ r.bus = c.bus /\ r.agent = c.agent
        /\ r.reader = c.agent /\ r.staged = g /\ r.due = due
    BY <1>1, <2>5, <2>6 DEF OpType, Stages, Locking
  <2> HIDE DEF r
  <2>10. Shape(r) /\ ~NotWritten(r)
    BY <1>1, <2>9 DEF Shape, Locking, NotWritten
  <2>11. \A d \in due : \A i \in d.ids : sent[i].to = c.agent /\ g[i] = 2
    BY <2>6, <2>7, <2>8
  <2>12. Sound(r, file, sent, erased)
    BY <2>6, <2>8, <2>9, <2>10, <2>11 DEF Sound, Knows, Unseen
  <2> QED BY <1>1, <2>1, <2>2, <2>10, <2>12, CallMoves
<1> QED BY <1>2, <1>3

LEMMA WriteKeeps ==
  ASSUME Inv, NEW o \in Ops, WriteContent(o)
  PROVE  Inv' /\ Later(file, sent, erased, file', sent', erased')
<1> DEFINE c == op[o]
           g == Merge(file[c.agent], c.staged)
           r == IF c.stopped = 0 THEN [c EXCEPT !.at = "written", !.staged = g] ELSE Idle
<1>1. /\ c \in OpType /\ c.at = "writing" /\ c.call = "mark" /\ c.agent \in Agents
      /\ c.bus \in Buses /\ c.staged \in Snapshot /\ c.reader = c.agent
      /\ Shape(c) /\ Knows(c, file, sent, erased)
  BY DEF WriteContent, Inv, Calls, Sound, Shape, Locking, OpType
<1>2. /\ file' = [file EXCEPT ![c.agent] = g] /\ torn' = {} /\ op' = [op EXCEPT ![o] = r]
      /\ UNCHANGED <<registered, epoch, inbox, sent, erased>>
  BY DEF WriteContent, Inv, ThreadEnds, Ends
<1>3. /\ file[c.agent] \in Snapshot /\ file \in [Agents -> Snapshot]
      /\ \A i \in Ids : file[c.agent][i] # 0 => sent[i].to = c.agent
  BY <1>1 DEF Inv, World
<1>4. /\ g \in Snapshot
      /\ \A i \in Ids : /\ g[i] >= file[c.agent][i] /\ g[i] >= c.staged[i]
                        /\ g[i] \in {file[c.agent][i], c.staged[i]}
  BY <1>1, <1>3, MergeType
<1>5. /\ \A i \in Ids : g[i] >= file[c.agent][i] /\ (g[i] # 0 => sent[i].to = c.agent)
      /\ \A i \in Ids : g[i] # 0 => file[c.agent][i] # 0 \/ i \in erased
  <2> HIDE DEF g
  <2>1. \A i \in Ids : c.staged[i] # 0 => sent[i].to = c.agent /\ Stored(file, erased, c.agent, i, 1)
    BY <1>1 DEF Knows
  <2> QED BY <1>3, <1>4, <2>1 DEF Stored
<1> HIDE DEF g
<1>6. Later(file, sent, erased, file', sent, erased)
  <2> HIDE DEF c
  <2> QED BY <1>1, <1>2, <1>4, <1>5, WorldGrows DEF Inv
<1>7. Sound(r, file', sent, erased) /\ ~NotWritten(r)
  <2>1. CASE c.stopped = 0
    <3> DEFINE t == [c EXCEPT !.at = "written", !.staged = g]
    <3>1. /\ t \in OpType /\ t.at = "written" /\ t.call = "mark" /\ t.bus = c.bus
          /\ t.agent = c.agent /\ t.reader = c.agent /\ t.staged = g /\ t.due = c.due
      BY <1>1, <1>4 DEF OpType, Stages, Locking
    <3> HIDE DEF t
    <3>2. Shape(t) /\ ~NotWritten(t)
      BY <1>1, <3>1 DEF Shape, Locking, NotWritten
    <3>3. file'[c.agent] = g
      BY <1>1, <1>2, <1>3
    <3>4. Behind(g, c.agent, file', sent, erased)
      BY <1>4, <1>5, <3>3 DEF Behind, Stored, Snapshot
    <3>5. \A i \in Ids : g[i] # 0 => sent[i].to = c.agent /\ Stored(file', erased, c.agent, i, 1)
      BY <1>4, <1>5, <3>3 DEF Stored, Snapshot
    <3>6. \A d \in c.due : \A i \in d.ids :
            /\ sent[i].from = d.to /\ sent[i].to = c.agent /\ sent[i].of = {} /\ g[i] = 2
      <4> SUFFICES ASSUME NEW d \in c.due, NEW i \in d.ids
                   PROVE  /\ sent[i].from = d.to /\ sent[i].to = c.agent /\ sent[i].of = {}
                          /\ g[i] = 2
        OBVIOUS
      <4>1. i \in Ids
        BY <1>1 DEF OpType, DueType
      <4>2. /\ sent[i].from = d.to /\ sent[i].to = c.agent /\ sent[i].of = {}
            /\ c.staged[i] = 2
        BY <1>1 DEF Knows
      <4> QED BY <1>4, <4>1, <4>2 DEF Snapshot
    <3>7. Knows(t, file', sent, erased)
      BY <3>1, <3>2, <3>4, <3>5, <3>6 DEF Knows
    <3> QED BY <2>1, <3>2, <3>7 DEF Sound, Unseen, t
  <2>2. CASE c.stopped # 0
    BY <2>2, IdleIsSound
  <2> QED BY <2>1, <2>2
<1>8. c.agent \in Agents
  BY <1>1
<1> HIDE DEF r, c
<1> QED BY <1>2, <1>4, <1>5, <1>7, <1>8, FileStep

LEMMA MarkedKeeps ==
  ASSUME Inv, NEW o \in Ops, Marked(o)
  PROVE  Inv'
<1> DEFINE c == op[o]
           due == c.due
           g == c.staged
           r == Telling(c, due)
<1>1. /\ c.at = "written" /\ c.call = "mark" /\ c.agent \in Agents /\ c.bus \in Buses
      /\ c.reader = c.agent /\ g \in Snapshot /\ due \in SUBSET DueType
      /\ Behind(g, c.agent, file, sent, erased)
      /\ torn' = {} /\ UNCHANGED <<file, sent, erased, registered, epoch>>
  BY DEF Marked, Inv, Calls, Sound, Shape, Knows, Locking, OpType
<1>2. CASE Current(c.bus, c.agent, c.epoch)
  <2>1. inbox' = [inbox EXCEPT ![c.bus][c.agent] = g] /\ op' = [op EXCEPT ![o] = r]
    BY <1>2 DEF Marked
  <2>2. registered' \in [Buses -> SUBSET Agents] /\ epoch' \in [Buses -> [Agents -> Nat]]
    BY <1>1 DEF Inv, Memory
  <2>3. Memory'
    <3> HIDE DEF c, g
    <3> QED BY <1>1, <2>1, <2>2, MemoryStep
  <2>4. \A d \in due : \A i \in d.ids :
          /\ sent[i].from = d.to /\ sent[i].to = c.reader /\ sent[i].of = {} /\ g[i] = 2
          /\ i \in Ids
    BY <1>1 DEF Inv, Calls, Sound, Knows, DueType
  <2>5. \A i \in Ids : g[i] = 2 => Stored(file, erased, c.reader, i, 2)
    BY <1>1 DEF Behind
  <2>6. Sound(r, file, sent, erased) /\ ~NotWritten(r)
    <3> HIDE DEF c, due, g
    <3> QED BY <1>1, <2>4, <2>5, TellingIsSound DEF r
  <2> HIDE DEF r
  <2> QED BY <1>1, <2>1, <2>3, <2>6, CallMoves
<1>3. CASE ~Current(c.bus, c.agent, c.epoch)
  <2>1. RefreshIfRegistered(c.bus, c.agent) /\ Ends(o)
    BY <1>3 DEF Marked
  <2>2. Memory'
    <3> HIDE DEF c
    <3> QED BY <1>1, <2>1, RefreshIfKeeps
  <2> QED BY <1>1, <2>1, <2>2, EndsKeeps
<1> QED BY <1>2, <1>3

LEMMA ReceiptKeeps ==
  ASSUME Inv, NEW o \in Ops, Receipt(o)
  PROVE  Inv' /\ Later(file, sent, erased, file', sent', erased')
<1>1. PICK d \in Due(o) :
        /\ op' = [op EXCEPT ![o] =
                   [op[o] EXCEPT
                      !.at = IF locked[op[o].bus][d.to] = <<>> THEN "appending" ELSE "waiting",
                      !.agent = d.to, !.epoch = d.epoch, !.due = op[o].due \ {d}, !.id = NextId]]
        /\ sent' = [sent EXCEPT ![NextId] = [from |-> op[o].reader, to |-> d.to, of |-> d.ids]]
  BY DEF Receipt
<1> DEFINE c == op[o]
           at == IF locked[c.bus][d.to] = <<>> THEN "appending" ELSE "waiting"
           m == [from |-> c.reader, to |-> d.to, of |-> d.ids]
           r == [c EXCEPT !.at = at, !.agent = d.to, !.epoch = d.epoch, !.due = c.due \ {d},
                          !.id = NextId]
<1>2. /\ Unused # {} /\ d \in c.due /\ torn' = {}
      /\ UNCHANGED <<registered, epoch, inbox, file, erased>>
  BY DEF Due, Receipt, Inv
<1>3. op' = [op EXCEPT ![o] = r] /\ sent' = [sent EXCEPT ![NextId] = m]
  BY <1>1, Zenon
<1>4. /\ c \in OpType /\ c.at = "receipts" /\ c.call = "receipt" /\ c.reader \in Agents
      /\ c.bus \in Buses /\ c.staged = Empty /\ Shape(c) /\ Knows(c, file, sent, erased)
  BY DEF Receipt, Inv, Calls, Sound, Shape
<1>5. d \in DueType /\ d.to \in Agents /\ d.epoch \in Nat /\ d.ids \subseteq Ids
  BY <1>2, <1>4 DEF OpType, DueType
<1>6. NextId \in Ids /\ Ids \subseteq Nat /\ sent[NextId] = NoMessage
  BY <1>2, NextIsUnused, BoundsAssumption DEF Unused, Ids
<1>7. m \in MessageType /\ m.from = c.reader /\ m.to = d.to /\ m.of = d.ids
  BY <1>4, <1>5 DEF MessageType
<1>8. \A i \in m.of : /\ Stored(file, erased, m.from, i, 2)
                      /\ sent[i].from = m.to /\ sent[i].to = m.from /\ sent[i].of = {}
  BY <1>2, <1>4, <1>7 DEF Knows
<1>9. at \in {"appending", "waiting"}
  OBVIOUS
<1> HIDE DEF at, m
<1>10. Later(file, sent, erased, file, sent', erased)
  BY <1>3, <1>6, <1>7, <1>8, WorldPosts DEF Inv
<1>11. Knows(c, file, sent', erased)
  <2> HIDE DEF c
  <2> QED BY <1>4, <1>10, KnowsStays
<1>12. /\ r \in OpType /\ r.staged = Empty /\ r.due = c.due \ {d} /\ r.call = "receipt"
       /\ r.bus = c.bus /\ r.agent = d.to /\ r.id = NextId /\ r.at = at /\ r.reader = c.reader
  BY <1>4, <1>5, <1>6, <1>9 DEF OpType, Stages, Locking
<1> HIDE DEF r
<1>13. Shape(r)
  BY <1>4, <1>5, <1>6, <1>9, <1>12 DEF Shape, Locking
<1>14. sent'[NextId].to = d.to
  BY <1>3, <1>6, <1>7 DEF Inv, World
<1>15. Knows(r, file, sent', erased)
  <2>1. \A i \in Ids : r.staged[i] = 0
    BY <1>12 DEF Empty
  <2>2. \A q \in r.due : q \in c.due
    BY <1>12
  <2> QED BY <1>4, <1>9, <1>11, <1>12, <1>14, <2>1, <2>2 DEF Knows
<1> HIDE DEF c
<1> QED BY <1>2, <1>3, <1>5, <1>7, <1>8, <1>12, <1>13, <1>15, PostStep

LEMMA CancelKeeps ==
  ASSUME Inv, NEW o \in Ops, Cancel(o)
  PROVE  Inv'
<1>1. torn' = {} /\ UNCHANGED <<file, sent, erased>> /\ Memory'
  BY SameMemory DEF Cancel, Inv
<1>2. CASE op[o].at \in {"appending", "writing"}
  <2>1. PICK n \in {1, 2} : op' = [op EXCEPT ![o].stopped = n]
    BY <1>2 DEF Cancel
  <2> DEFINE r == [op[o] EXCEPT !.at = op[o].at, !.stopped = n]
  <2>2. op[o] \in OpType /\ Sound(op[o], file, sent, erased) /\ n \in 0..2
    BY DEF Inv, Calls, Sound, Shape
  <2>3. r = [op[o] EXCEPT !.stopped = n]
    BY <2>2 DEF OpType
  <2>4. op' = [op EXCEPT ![o] = r]
    BY <2>1, <2>3
  <2>5. op[o].at \in Locking
    BY <1>2 DEF Locking
  <2>6. Sound(r, file, sent, erased) /\ r.id = op[o].id /\ (NotWritten(r) => NotWritten(op[o]))
    BY <2>2, <2>5, MovedIsSound
  <2> HIDE DEF r
  <2> QED BY <1>1, <2>4, <2>6, CallMoves
<1>3. CASE op[o].at \notin {"appending", "writing"}
  BY <1>1, <1>3, EndsKeeps DEF Cancel
<1> QED BY <1>2, <1>3

LEMMA ReturnKeeps ==
  ASSUME Inv, NEW o \in Ops, MarkReturns(o)
  PROVE  Inv'
<1>1. torn' = {} /\ UNCHANGED <<file, sent, erased>> /\ Memory' /\ Ends(o)
  BY SameMemory DEF MarkReturns, Inv
<1> QED BY <1>1, EndsKeeps
-----------------------------------------------------------------------------
\* Crashes and deletion.
LEMMA CrashKeeps ==
  ASSUME Inv, NEW b \in Buses, Crash(b)
  PROVE  Inv'
<1>1. torn' = {} /\ UNCHANGED <<file, sent, erased>>
  BY DEF Crash, Inv
<1>2. World(file', sent', erased')
  BY <1>1, SameWorld
<1>3. Memory'
  <2>1. /\ registered' \in [Buses -> SUBSET Agents] /\ epoch' \in [Buses -> [Agents -> Nat]]
        /\ inbox' \in [Buses -> [Agents -> Snapshot]]
    BY EmptyType DEF Crash, Inv, Memory
  <2>2. \A c \in Buses, a \in Agents : inbox'[c][a] \in {inbox[c][a], Empty}
    BY DEF Crash, Inv, Memory
  <2>3. \A c \in Buses, a \in Agents : Behind(inbox'[c][a], a, file, sent, erased)
    BY <2>2, EmptyIsBehind DEF Inv, Memory
  <2> QED BY <1>1, <2>1, <2>3 DEF Memory
<1>4. Calls'
  <2>1. op' = [o \in Ops |-> IF op[o].bus = b THEN Idle ELSE op[o]]
    BY DEF Crash
  <2>2. DOMAIN op' = Ops /\ op' = [o \in Ops |-> op'[o]]
    BY <2>1
  <2>3. \A o \in Ops : op'[o] \in {Idle, op[o]}
    BY <2>1
  <2>4. \A o \in Ops : Sound(op'[o], file', sent', erased')
    BY <1>1, <2>3, IdleIsSound DEF Inv, Calls
  <2>5. \A o \in Ops : NotWritten(op'[o]) => op'[o] = op[o]
    BY <2>3, IdleIsSound
  <2>6. \A o, p \in Ops : NotWritten(op'[o]) /\ NotWritten(op'[p]) /\ op'[o].id = op'[p].id => o = p
    BY <2>5 DEF Inv, Calls
  <2> QED BY <2>2, <2>4, <2>6 DEF Calls
<1> QED BY <1>1, <1>2, <1>3, <1>4 DEF Inv

LEMMA DeleteKeeps ==
  ASSUME Inv, NEW b \in Buses, DeleteInboxes(b)
  PROVE  Inv' /\ Later(file, sent, erased, file', sent', erased')
<1>1. /\ torn' = {} /\ file' = [a \in Agents |-> Empty]
      /\ erased' = erased \union UNION {Known(file[a]) : a \in Agents}
      /\ UNCHANGED <<epoch, registered, inbox, op, sent>>
  BY DEF DeleteInboxes
<1>2. /\ World(file', sent', erased')
      /\ Later(file, sent, erased, file', sent', erased')
  BY <1>1, WorldErases DEF Inv
<1>3. Memory'
  BY <1>1, <1>2, MemoryStays DEF Inv
<1>4. \A o \in Ops : Unseen(op[o], file', erased')
  <2> SUFFICES ASSUME NEW o \in Ops, NotWritten(op[o])
               PROVE  file'[op[o].agent][op[o].id] = 0 /\ op[o].id \notin erased'
    BY DEF Unseen
  <2>1. /\ op[o].agent \in Agents /\ op[o].id \in Ids /\ op[o].id \notin erased
        /\ file[op[o].agent][op[o].id] = 0 /\ sent[op[o].id].to = op[o].agent
    BY DEF Inv, Calls, Sound, Shape, Knows, Unseen, NotWritten, Locking
  <2>2. \A a \in Agents : file[a][op[o].id] # 0 => a = op[o].agent
    BY <2>1 DEF Inv, World
  <2>3. \A a \in Agents : op[o].id \notin Known(file[a])
    BY <2>1, <2>2 DEF Known
  <2> QED BY <1>1, <2>1, <2>3 DEF Empty
<1>5. \A o \in Ops : Sound(op[o], file', sent', erased')
  BY <1>2, <1>4, OthersKnow DEF Inv, Calls, Sound
<1>6. Calls'
  BY <1>1, <1>5 DEF Inv, Calls
<1> QED BY <1>1, <1>2, <1>3, <1>6 DEF Inv
-----------------------------------------------------------------------------
LEMMA InitInv == Init => Inv
<1> SUFFICES ASSUME Init PROVE Inv
  OBVIOUS
<1>1. World(file, sent, erased)
  <2>1. \A i \in Ids : sent[i].of = {}
    BY DEF Init, NoMessage
  <2> QED BY <2>1, EmptyType DEF Init, World, Empty
<1>2. Memory
  BY EmptyType, EmptyIsBehind DEF Init, Memory
<1>3. Calls
  BY IdleIsSound DEF Init, Calls
<1> QED BY <1>1, <1>2, <1>3 DEF Init, Inv

\* A step keeps the invariant, and the files keep what they have.
LEMMA NextInv ==
  ASSUME Tearing = FALSE, Inv, [Next]_vars
  PROVE  Inv' /\ Later(file, sent, erased, file', sent', erased')
<1>0. ASSUME UNCHANGED <<file, sent, erased>>
      PROVE  Later(file, sent, erased, file', sent', erased')
  BY <1>0, SameWorld
<1>1. ASSUME NEW b \in Buses, NEW a \in Agents, Register(b, a) \/ Unregister(b, a) \/ Get(b, a)
      PROVE  Inv' /\ Later(file, sent, erased, file', sent', erased')
  <2>1. UNCHANGED <<file, sent, erased>>
    BY <1>1 DEF Register, Unregister, Get
  <2> QED BY <1>0, <1>1, <2>1, RegisterKeeps, UnregisterKeeps, GetKeeps
<1>2. ASSUME NEW b \in Buses, NEW a \in Agents, NEW o \in Ops, NEW c \in Agents, Send(o, b, c, a)
      PROVE  Inv' /\ Later(file, sent, erased, file', sent', erased')
  BY <1>2, SendKeeps
<1>3. ASSUME NEW b \in Buses, NEW a \in Agents, NEW o \in Ops,
             NEW which \in {Ids} \union {{i} : i \in Ids}, Mark(o, b, a, which)
      PROVE  Inv' /\ Later(file, sent, erased, file', sent', erased')
  <2>1. UNCHANGED <<file, sent, erased>> /\ which \in SUBSET Ids
    BY <1>3 DEF Mark
  <2> QED BY <1>0, <1>3, <2>1, MarkKeeps
<1>4. ASSUME NEW b \in Buses, Crash(b) \/ DeleteInboxes(b)
      PROVE  Inv' /\ Later(file, sent, erased, file', sent', erased')
  <2>1. Crash(b) => UNCHANGED <<file, sent, erased>>
    BY DEF Crash
  <2> QED BY <1>0, <1>4, <2>1, CrashKeeps, DeleteKeeps
<1>5. ASSUME NEW o \in Ops, Steps(o)
      PROVE  Inv' /\ Later(file, sent, erased, file', sent', erased')
  <2>1. CASE AppendLine(o) \/ WriteContent(o) \/ Receipt(o)
    BY <2>1, AppendKeeps, WriteKeeps, ReceiptKeeps
  <2>2. CASE AppendFails(o) \/ WriteFails(o)
    <3>1. UNCHANGED <<file, sent, erased, epoch, registered, inbox>> /\ torn' = {}
      BY <2>2 DEF AppendFails, WriteFails, Inv
    <3>2. op[o].at \in {"appending", "writing"} /\ ThreadEnds(o, "failed")
      BY <2>2 DEF AppendFails, WriteFails
    <3> QED BY <1>0, <3>1, <3>2, FailureKeeps
  <2>3. CASE Enter(o) \/ Fails(o) \/ Deliver(o) \/ Stage(o) \/ Marked(o) \/ MarkReturns(o)
    <3>1. UNCHANGED <<file, sent, erased>>
      BY <2>3 DEF Enter, Fails, Deliver, Stage, Marked, MarkReturns
    <3> QED BY SMTT(60), <1>0, <2>3, <3>1, EnterKeeps, FailsKeeps, DeliverKeeps, StageKeeps, MarkedKeeps,
               ReturnKeeps
  <2> QED BY <1>5, <2>1, <2>2, <2>3 DEF Steps
<1>6. ASSUME NEW o \in Ops, Cancel(o)
      PROVE  Inv' /\ Later(file, sent, erased, file', sent', erased')
  <2>1. UNCHANGED <<file, sent, erased>>
    BY <1>6 DEF Cancel
  <2> QED BY <1>0, <1>6, <2>1, CancelKeeps
<1>7. CASE UNCHANGED vars
  <2>1. UNCHANGED <<file, torn, epoch, registered, inbox, op, sent, erased>>
    BY <1>7 DEF vars
  <2>2. torn' = {} /\ Memory'
    BY <2>1, SameMemory DEF Inv
  <2> QED BY <1>0, <2>1, <2>2, MemoryMoves
<1> QED BY <1>1, <1>2, <1>3, <1>4, <1>5, <1>6, <1>7 DEF Next
-----------------------------------------------------------------------------
\* Nobody is shown or told what a restart would not find on disk: neither a message
\* nor an acknowledgement, whichever writes of whichever buses fail or are cancelled
\* (send, mark_read, get_unread).
THEOREM DiskFirst ==
  ASSUME Tearing = FALSE
  PROVE  Spec => []DiskComesFirst
<1>1. Inv /\ [Next]_vars => Inv'
  BY NextInv
<1>2. Inv => DiskComesFirst
  <2> SUFFICES ASSUME Inv PROVE DiskComesFirst
    OBVIOUS
  <2>1. MemoryBehindDisk
    <3> SUFFICES ASSUME NEW b \in Buses, NEW a \in Agents, NEW i \in Ids
                 PROVE  inbox[b][a][i] <= file[a][i] \/ i \in erased
      BY DEF MemoryBehindDisk
    <3>1. inbox[b][a][i] \in 0..2 /\ file[a][i] \in 0..2
      BY DEF Inv, World, Memory, Snapshot
    <3> QED BY <3>1 DEF Inv, Memory, Behind, Stored
  <2>2. ReceiptsAreEarned
    <3> SUFFICES ASSUME NEW r \in Ids, NEW i \in sent[r].of
                 PROVE  /\ file[sent[r].from][i] = 2 \/ i \in erased
                        /\ sent[i].from = sent[r].to /\ sent[i].to = sent[r].from /\ sent[i].of = {}
      BY DEF ReceiptsAreEarned
    <3>1. sent[r] \in MessageType
      BY DEF Inv, World, NoMessage
    <3>2. sent[r].from \in Agents /\ i \in Ids
      BY <3>1 DEF MessageType
    <3>3. file[sent[r].from][i] \in 0..2
      BY <3>2 DEF Inv, World, Snapshot
    <3> QED BY <3>3 DEF Inv, World, Stored
  <2> QED BY <2>1, <2>2 DEF DiskComesFirst
<1> QED BY <1>1, <1>2, InitInv, PTL DEF Spec

\* A line that is on disk stays there and its acknowledgement never regresses,
\* whatever stale copies other buses write back, until the inboxes of the team are
\* deleted (_append_line, _write_content).
THEOREM NeverForget ==
  ASSUME Tearing = FALSE
  PROVE  Spec => FilesNeverForget
<1>1. Inv /\ [Next]_vars => Inv'
  BY NextInv
<1>2. Inv /\ [Next]_vars =>
        [\A a \in Agents, i \in Ids : file'[a][i] >= file[a][i] \/ i \in erased']_vars
  BY NextInv DEF Later
<1> QED BY <1>1, <1>2, InitInv, PTL DEF Spec, FilesNeverForget

\* A message reaches a session only in the registration it was sent to, also where
\* appends leave a part of a line (the epochs that send and mark_read compare).
THEOREM Silent == Spec => []OldGenerationsStaySilent
<1>1. Init => OldGenerationsStaySilent
  BY DEF Init, OldGenerationsStaySilent
<1>2. OldGenerationsStaySilent /\ [Next]_vars => OldGenerationsStaySilent'
  <2> SUFFICES ASSUME strayed = {}, [Next]_vars PROVE strayed' = {}
    BY DEF OldGenerationsStaySilent
  <2>1. ASSUME NEW o \in Ops, Deliver(o) PROVE strayed' = {}
    BY SMTT(60), <2>1 DEF Deliver, Injects
  <2>2. ASSUME NEW o \in Ops, Steps(o) PROVE strayed' = {}
    BY <2>1, <2>2 DEF Steps, Enter, AppendLine, AppendFails, Fails, Stage, WriteContent, WriteFails,
                      Marked, Receipt, MarkReturns
  <2>3. ASSUME NEW b \in Buses, NEW a \in Agents, Register(b, a) \/ Unregister(b, a) \/ Get(b, a)
        PROVE  strayed' = {}
    BY <2>3 DEF Register, Unregister, Get
  <2>4. ASSUME NEW b \in Buses, NEW a \in Agents, NEW o \in Ops, NEW c \in Agents, Send(o, b, c, a)
        PROVE  strayed' = {}
    BY <2>4 DEF Send
  <2>5. ASSUME NEW b \in Buses, NEW a \in Agents, NEW o \in Ops, NEW which, Mark(o, b, a, which)
        PROVE  strayed' = {}
    BY <2>5 DEF Mark
  <2>6. ASSUME NEW b \in Buses, Crash(b) \/ DeleteInboxes(b) PROVE strayed' = {}
    BY <2>6 DEF Crash, DeleteInboxes
  <2>7. ASSUME NEW o \in Ops, Cancel(o) PROVE strayed' = {}
    BY <2>7 DEF Cancel
  <2>8. CASE UNCHANGED vars
    BY <2>8 DEF vars
  <2> QED BY <2>2, <2>3, <2>4, <2>5, <2>6, <2>7, <2>8 DEF Next
<1> QED BY <1>1, <1>2, PTL DEF Spec
-----------------------------------------------------------------------------
\* A set of numbers has a least one, and one that is bounded has a greatest.
LEMMA Least ==
  ASSUME NEW V \in SUBSET Nat, V # {}
  PROVE  \E x \in V : \A y \in V : x <= y
<1>1. IsWellFoundedOn(OpToRel(<, Nat), Nat)
  BY Zenon, NatLessThanWellFounded
<1>2. PICK x \in V : \A y \in V : ~(<<y, x>> \in OpToRel(<, Nat))
  BY Zenon, <1>1, WFMin
<1>3. ASSUME NEW y \in V PROVE x <= y
  <2>1. y \in Nat /\ x \in Nat /\ ~(y < x)
    BY <1>2 DEF OpToRel
  <2> QED BY <2>1
<1> QED BY <1>3

LEMMA Greatest ==
  ASSUME NEW N \in Nat, NEW V \in SUBSET 0..N, V # {}
  PROVE  \E x \in V : \A y \in V : y <= x
<1> DEFINE U == {N - y : y \in V}
<1>1. U \in SUBSET Nat /\ U # {}
  <2>1. ASSUME NEW u \in U PROVE u \in Nat
    <3>1. PICK y \in V : u = N - y
      OBVIOUS
    <3>2. y \in 0..N
      BY Zenon
    <3> QED BY <3>1, <3>2
  <2>2. PICK y : y \in V
    OBVIOUS
  <2>3. N - y \in U
    BY <2>2
  <2> QED BY <2>1, <2>3
<1>2. PICK u \in U : \A v \in U : u <= v
  BY Zenon, <1>1, Least
<1>3. PICK x \in V : u = N - x
  BY <1>2
<1>4. ASSUME NEW y \in V PROVE y <= x
  <2>1. N - y \in U
    OBVIOUS
  <2>2. N - x <= N - y
    BY <1>2, <1>3, <2>1
  <2> QED BY <2>2
<1> QED BY <1>4
-----------------------------------------------------------------------------
\* load_messages, record by record: g is what it has after each of the first k.
Passes(g, f, k) == g[0] = Nothing /\ \A n \in 1..k : g[n] = Replay(g[n - 1], f[n])

LEMMA PassesAgree ==
  ASSUME NEW f, NEW e, NEW g, NEW h, NEW k \in Nat, Passes(g, f, k), Passes(h, e, k),
         \A n \in 1..k : f[n] = e[n]
  PROVE  g[k] = h[k]
<1> DEFINE Bad == {n \in 0..k : g[n] # h[n]}
<1> SUFFICES ASSUME Bad # {} PROVE FALSE
  OBVIOUS
<1>0. Bad \in SUBSET Nat
  OBVIOUS
<1>1. PICK n \in Bad : \A m \in Bad : n <= m
  BY Zenon, <1>0, Least
<1>2. n \in 1..k /\ n - 1 \in 0..k /\ n - 1 \notin Bad
  BY <1>1 DEF Passes
<1>3. g[n - 1] = h[n - 1] /\ f[n] = e[n]
  BY <1>2
<1>4. g[n] = Replay(g[n - 1], f[n]) /\ h[n] = Replay(h[n - 1], e[n])
  BY <1>2 DEF Passes
<1> QED BY <1>1, <1>3, <1>4

LEMMA PassesExist ==
  ASSUME NEW f
  PROVE  \A k \in Nat : \E g : Passes(g, f, k)
<1> DEFINE Bad == {k \in Nat : ~\E g : Passes(g, f, k)}
<1> SUFFICES ASSUME Bad # {} PROVE FALSE
  OBVIOUS
<1>1. PICK k \in Bad : \A m \in Bad : k <= m
  BY Zenon, Least
<1>2. k # 0
  <2>1. Passes([n \in {0} |-> Nothing], f, 0)
    BY DEF Passes
  <2> QED BY <2>1
<1>3. k \in Nat /\ k - 1 \in Nat /\ k - 1 \notin Bad
  BY <1>1, <1>2
<1>4. PICK g : Passes(g, f, k - 1)
  BY <1>3
<1> DEFINE h == [n \in 0..k |-> IF n = k THEN Replay(g[k - 1], f[k]) ELSE g[n]]
<1>5. h[0] = Nothing
  BY <1>2, <1>3, <1>4 DEF Passes
<1>6. ASSUME NEW n \in 1..k PROVE h[n] = Replay(h[n - 1], f[n])
  <2>1. h[n - 1] = g[n - 1]
    BY <1>3
  <2>2. CASE n = k
    BY <1>3, <2>1, <2>2
  <2>3. CASE n # k
    <3>1. n \in 1..k - 1 /\ h[n] = g[n]
      BY <1>3, <2>3
    <3> QED BY <1>4, <2>1, <3>1 DEF Passes
  <2> QED BY <2>2, <2>3
<1>7. Passes(h, f, k)
  BY Zenon, <1>5, <1>6 DEF Passes
<1> QED BY <1>1, <1>7

\* So Load is what its definition says.
LEMMA LoadPasses ==
  ASSUME NEW f, Len(f) \in Nat
  PROVE  \E g : Passes(g, f, Len(f)) /\ Load(f) = g[Len(f)]
<1> DEFINE k == Len(f)
           Is(g) == g = [n \in 0..k |-> IF n = 0 THEN Nothing ELSE Replay(g[n - 1], f[n])]
<1>1. \E g : Is(g)
  <2>1. PICK h : Passes(h, f, k)
    BY PassesExist
  <2> DEFINE g == [n \in 0..k |-> h[n]]
  <2>2. ASSUME NEW n \in 0..k PROVE g[n] = IF n = 0 THEN Nothing ELSE Replay(g[n - 1], f[n])
    <3>1. CASE n = 0
      BY <2>1, <3>1 DEF Passes
    <3>2. CASE n # 0
      <4>1. n \in 1..k /\ n - 1 \in 0..k
        BY <3>2
      <4> QED BY <2>1, <3>2, <4>1 DEF Passes
    <3> QED BY <3>1, <3>2
  <2>3. Is(g)
    BY <2>2
  <2> QED BY <2>3
<1>2. PICK g : g = CHOOSE h : Is(h)
  OBVIOUS
<1>3. Is(g)
  BY Zenon, <1>1, <1>2
<1>4. Load(f) = g[k]
  BY Zenon, <1>2 DEF Load
<1>5. g[0] = Nothing
  BY <1>3
<1>6. ASSUME NEW n \in 1..k PROVE g[n] = Replay(g[n - 1], f[n])
  <2>1. n \in 0..k /\ n # 0
    OBVIOUS
  <2> QED BY <1>3, <2>1
<1>7. Passes(g, f, k)
  BY Zenon, <1>5, <1>6 DEF Passes
<1> QED BY <1>4, <1>7

LEMMA LoadNothing == Load(<<>>) = Nothing
<1>1. PICK g : Passes(g, <<>>, 0) /\ Load(<<>>) = g[0]
  BY LoadPasses
<1> QED BY <1>1 DEF Passes

\* What a record that is appended makes of the conversation.
LEMMA LoadAppend ==
  ASSUME NEW S, NEW f \in Seq(S), NEW r \in S
  PROVE  Load(Append(f, r)) = Replay(Load(f), r)
<1> DEFINE e == Append(f, r)
           k == Len(f)
<1>1. e \in Seq(S) /\ k \in Nat /\ Len(e) = k + 1 /\ e[k + 1] = r /\ \A n \in 1..k : e[n] = f[n]
  OBVIOUS
<1> HIDE DEF e
<1>2. PICK g : Passes(g, f, k) /\ Load(f) = g[k]
  BY <1>1, LoadPasses
<1>3. PICK h : Passes(h, e, k + 1) /\ Load(e) = h[k + 1]
  BY <1>1, LoadPasses
<1>4. Passes(h, e, k) /\ h[k + 1] = Replay(h[(k + 1) - 1], e[k + 1])
  BY <1>1, <1>3 DEF Passes
<1>5. (k + 1) - 1 = k
  BY <1>1
<1>6. h[k] = g[k]
  BY <1>1, <1>2, <1>4, PassesAgree
<1>7. Load(e) = Replay(Load(f), r)
  BY <1>1, <1>2, <1>3, <1>4, <1>5, <1>6
<1> QED BY <1>7 DEF e
-----------------------------------------------------------------------------
\* A message and its id are never 0; a pruned message is the negative of its id.
Entry == Int \ {0}
RecordTypes == {"message", "boundary", "clear", "checkpoint", "rollback", "meta"}
RecordType == [type : RecordTypes, messages : Seq(Entry), check : Int, value : Int]
LoadType == [active : Seq(Entry), restores : [Checks -> Seq(Entry) \cup {None}]]

IsMessage(r) == r.type = "message"
WellFormed(r) ==
  /\ IsMessage(r) => \E m \in Int : m > 0 /\ r.messages = <<m>>
  /\ r.type = "rollback" => r.check \in Checks

\* The part of the state that the transcript and its index are.
FileTyped ==
  /\ log \in Seq(RecordType) /\ Load(log) \in LoadType
  /\ \A n \in DOMAIN log : WellFormed(log[n])
  /\ written \in [Holders -> SUBSET Int]
  /\ cursor \in [Holders -> Nat] /\ \A x \in Holders : cursor[x] <= Len(log)
  /\ tokens \in [Holders -> Int] /\ spent \in [written : Nat, failed : Nat]

\* The rest of it.
SessionsTyped ==
  /\ row \in [Checks -> Int \cup {None}]
  /\ up \subseteq Holders /\ turn \subseteq up /\ apart \subseteq Holders
  /\ live \in [Holders -> Seq(Entry)]
  /\ making \in [Holders -> Checks \cup {None}]
  /\ saved \in [Checks -> Seq(Entry) \cup {None}]

\* What a storage has indexed covers the messages recorded since the last clear.
Uncleared(f, n) == \A k \in n..Len(f) : f[k].type # "clear"
Covers(w, f, c) == \A n \in 1..c : IsMessage(f[n]) /\ Uncleared(f, n) => f[n].messages[1] \in w
Once(f) ==
  \A i, j \in DOMAIN f :
    i < j /\ IsMessage(f[i]) /\ IsMessage(f[j]) /\ f[i].messages = f[j].messages
      => \E k \in i..j : f[k].type = "clear"
Indexed ==
  /\ acked \subseteq Recorded(log) /\ Once(log)
  /\ \A x \in Holders : written[x] \subseteq Recorded(log) /\ Covers(written[x], log, cursor[x])

\* A storage that has seen all token records has their number, or a few more.
Spent == spent.written..(spent.written + spent.failed)
NoCount(f, c) == \A n \in c + 1..Len(f) : f[n].type # "meta"
Counted ==
  /\ TokensIn(log, 0) \in Spent
  /\ \A x \in Holders : NoCount(log, cursor[x]) => tokens[x] \in Spent

FileInv == FileTyped /\ Indexed /\ Counted

\* A checkpoint is of a conversation that goes on when it is made.
Making == \A x \in Holders : making[x] # None => x \in up /\ live[x] # <<>>

TranscriptInv == FileInv /\ SessionsTyped /\ Making
-----------------------------------------------------------------------------
LEMMA IdsOfOne ==
  ASSUME NEW m \in Int, m > 0
  PROVE  IdsOf(<<m>>) = {m} /\ m \in Entry /\ <<m>> \in Seq(Entry)
BY DEF IdsOf, Id, Entry

LEMMA IdsType ==
  ASSUME NEW ms \in Seq(Entry)
  PROVE  /\ \A m \in IdsOf(ms) : m \in Int /\ m > 0
         /\ \A n \in DOMAIN ms : Id(ms[n]) \in IdsOf(ms) /\ Id(ms[n]) \in Int /\ Id(ms[n]) > 0
<1>1. ASSUME NEW n \in DOMAIN ms PROVE Id(ms[n]) \in Int /\ Id(ms[n]) > 0
  <2>1. ms[n] \in Entry
    OBVIOUS
  <2> QED BY <2>1 DEF Id, Entry
<1> QED BY <1>1 DEF IdsOf

\* An id is recorded if a message or a boundary holds it.
HeldBy(r) == IF r.type \in {"message", "boundary"} THEN IdsOf(r.messages) ELSE {}

LEMMA RecordedBy ==
  ASSUME NEW f, NEW m
  PROVE  m \in Recorded(f) <=> \E n \in DOMAIN f : m \in HeldBy(f[n])
BY DEF Recorded, HeldBy

LEMMA RecordedAppend ==
  ASSUME NEW f \in Seq(RecordType), NEW r \in RecordType
  PROVE  Recorded(Append(f, r)) = Recorded(f) \cup HeldBy(r)
<1> DEFINE e == Append(f, r)
<1>1. DOMAIN e = DOMAIN f \cup {Len(f) + 1} /\ e[Len(f) + 1] = r /\ \A n \in DOMAIN f : e[n] = f[n]
  OBVIOUS
<1> HIDE DEF e
<1>2. ASSUME NEW m PROVE m \in Recorded(e) <=> m \in Recorded(f) \cup HeldBy(r)
  BY <1>1, RecordedBy
<1>3. Recorded(e) = Recorded(f) \cup HeldBy(r)
  BY <1>2
<1> QED BY <1>3 DEF e

LEMMA RecordedType ==
  ASSUME NEW f \in Seq(RecordType)
  PROVE  Recorded(f) \subseteq Int
<1> SUFFICES ASSUME NEW m \in Recorded(f) PROVE m \in Int
  OBVIOUS
<1>1. PICK n \in DOMAIN f : m \in IdsOf(f[n].messages)
  BY RecordedBy DEF HeldBy
<1>2. f[n].messages \in Seq(Entry)
  <2>1. f[n] \in RecordType
    OBVIOUS
  <2> QED BY <2>1 DEF RecordType
<1> QED BY <1>1, <1>2, IdsType

LEMMA Tails ==
  ASSUME NEW f \in Seq(RecordType), NEW c \in Nat, c <= Len(f)
  PROVE  LET t == SubSeq(f, c + 1, Len(f))
         IN  /\ t \in Seq(RecordType) /\ Len(t) = Len(f) - c
             /\ \A n \in DOMAIN t : n + c \in DOMAIN f /\ n + c \in c + 1..Len(f) /\ t[n] = f[n + c]
             /\ \A n \in c + 1..Len(f) : n - c \in DOMAIN t /\ f[n] = t[n - c]
<1> DEFINE t == SubSeq(f, c + 1, Len(f))
<1>1. /\ t \in Seq(RecordType) /\ Len(t) = Len(f) - c
      /\ \A n \in 1..Len(f) - c : t[n] = f[n + c]
  BY SubSeqProperties
<1> HIDE DEF t
<1>2. DOMAIN t = 1..Len(f) - c /\ DOMAIN f = 1..Len(f) /\ Len(f) \in Nat
  BY <1>1
<1>3. ASSUME NEW n \in c + 1..Len(f) PROVE n - c \in DOMAIN t /\ f[n] = t[n - c]
  <2>1. n - c \in 1..Len(f) - c /\ (n - c) + c = n
    BY <1>2
  <2> QED BY <1>1, <1>2, <2>1
<1>4. ASSUME NEW n \in DOMAIN t
      PROVE  n + c \in DOMAIN f /\ n + c \in c + 1..Len(f) /\ t[n] = f[n + c]
  BY <1>1, <1>2
<1> QED BY <1>1, <1>3, <1>4 DEF t

LEMMA RecordedTail ==
  ASSUME NEW f \in Seq(RecordType), NEW c \in Nat, c <= Len(f)
  PROVE  /\ Recorded(SubSeq(f, c + 1, Len(f))) \subseteq Recorded(f)
         /\ \A n \in c + 1..Len(f) : HeldBy(f[n]) \subseteq Recorded(SubSeq(f, c + 1, Len(f)))
<1>1. PICK t : t = SubSeq(f, c + 1, Len(f))
  OBVIOUS
<1>2. /\ \A n \in DOMAIN t : n + c \in DOMAIN f /\ t[n] = f[n + c]
      /\ \A n \in c + 1..Len(f) : n - c \in DOMAIN t /\ f[n] = t[n - c]
  BY <1>1, Tails
<1>3. ASSUME NEW m \in Recorded(t) PROVE m \in Recorded(f)
  <2>1. PICK n \in DOMAIN t : m \in HeldBy(t[n])
    BY RecordedBy
  <2> QED BY <1>2, <2>1, RecordedBy
<1>4. ASSUME NEW n \in c + 1..Len(f), NEW m \in HeldBy(f[n]) PROVE m \in Recorded(t)
  BY <1>2, RecordedBy
<1> QED BY <1>1, <1>3, <1>4
-----------------------------------------------------------------------------
\* The counter of a part of the transcript is what its last token record says.
LEMMA Tokens ==
  ASSUME NEW f \in Seq(RecordType), NEW b
  PROVE  \/ NoCount(f, 0) /\ TokensIn(f, b) = b
         \/ \E n \in DOMAIN f : f[n].type = "meta" /\ NoCount(f, n) /\ TokensIn(f, b) = f[n].value
<1> DEFINE counts == {n \in DOMAIN f : f[n].type = "meta"}
<1>0. Len(f) \in Nat /\ DOMAIN f = 1..Len(f)
  OBVIOUS
<1>1. CASE counts = {}
  <2>1. NoCount(f, 0)
    BY <1>0, <1>1 DEF NoCount
  <2>2. TokensIn(f, b) = b
    BY <1>1 DEF TokensIn
  <2> QED BY <2>1, <2>2
<1>2. CASE counts # {}
  <2>1. counts \in SUBSET 0..Len(f)
    BY <1>0
  <2>2. \E n \in counts : \A k \in counts : k <= n
    BY Zenon, <1>0, <1>2, <2>1, Greatest
  <2>3. PICK n : n = Max(counts)
    OBVIOUS
  <2>4. n \in counts /\ \A k \in counts : k <= n
    BY <2>2, <2>3 DEF Max
  <2>5. NoCount(f, n)
    BY <1>0, <2>4 DEF NoCount
  <2>6. TokensIn(f, b) = f[n].value
    BY <1>2, <2>3 DEF TokensIn
  <2> QED BY <2>4, <2>5, <2>6
<1> QED BY <1>1, <1>2

LEMMA TokensAppend ==
  ASSUME NEW f \in Seq(RecordType), NEW r \in RecordType, NEW b
  PROVE  TokensIn(Append(f, r), b) = IF r.type = "meta" THEN r.value ELSE TokensIn(f, b)
<1>1. PICK e : e = Append(f, r)
  OBVIOUS
<1>2. /\ e \in Seq(RecordType) /\ Len(e) = Len(f) + 1 /\ e[Len(f) + 1] = r /\ Len(f) \in Nat
      /\ DOMAIN e = 1..Len(f) + 1 /\ DOMAIN f = 1..Len(f)
      /\ \A n \in 1..Len(f) : e[n] = f[n]
  BY <1>1
<1>3. CASE r.type = "meta"
  <2>1. ~NoCount(e, 0)
    BY <1>2, <1>3 DEF NoCount
  <2>2. PICK n \in DOMAIN e : NoCount(e, n) /\ TokensIn(e, b) = e[n].value
    BY <1>2, <2>1, Tokens
  <2>3. n = Len(f) + 1
    BY <1>2, <1>3, <2>2 DEF NoCount
  <2> QED BY <1>1, <1>2, <1>3, <2>2, <2>3
<1>4. CASE r.type # "meta"
  <2>1. CASE NoCount(f, 0)
    <3>1. NoCount(e, 0)
      BY <1>2, <1>4, <2>1 DEF NoCount
    <3>2. TokensIn(e, b) = b /\ TokensIn(f, b) = b
      BY <1>2, <2>1, <3>1, Tokens DEF NoCount
    <3> QED BY <1>1, <1>4, <3>2
  <2>2. CASE ~NoCount(f, 0)
    <3>1. ~NoCount(e, 0)
      BY <1>2, <2>2 DEF NoCount
    <3>2. PICK n \in DOMAIN e : e[n].type = "meta" /\ NoCount(e, n) /\ TokensIn(e, b) = e[n].value
      BY <1>2, <3>1, Tokens
    <3>3. PICK k \in DOMAIN f : f[k].type = "meta" /\ NoCount(f, k) /\ TokensIn(f, b) = f[k].value
      BY <2>2, Tokens
    <3>4. n = k
      BY <1>2, <1>4, <3>2, <3>3 DEF NoCount
    <3> QED BY <1>1, <1>2, <1>4, <3>2, <3>3, <3>4
  <2> QED BY <2>1, <2>2
<1> QED BY <1>3, <1>4

\* What is read behind a place.
LEMMA TokensTail ==
  ASSUME NEW f \in Seq(RecordType), NEW c \in Nat, c <= Len(f), NEW b
  PROVE  LET t == SubSeq(f, c + 1, Len(f))
         IN  IF NoCount(f, c) THEN TokensIn(t, b) = b ELSE TokensIn(t, b) = TokensIn(f, 0)
<1>1. PICK t : t = SubSeq(f, c + 1, Len(f))
  OBVIOUS
<1>2. /\ t \in Seq(RecordType) /\ Len(t) = Len(f) - c /\ Len(f) \in Nat
      /\ \A n \in DOMAIN t : n + c \in DOMAIN f /\ n + c \in c + 1..Len(f) /\ t[n] = f[n + c]
      /\ \A n \in c + 1..Len(f) : n - c \in DOMAIN t /\ f[n] = t[n - c]
      /\ DOMAIN f = 1..Len(f) /\ DOMAIN t = 1..Len(t)
  BY <1>1, Tails
<1>3. CASE NoCount(f, c)
  <2>1. NoCount(t, 0)
    BY <1>2, <1>3 DEF NoCount
  <2>2. TokensIn(t, b) = b
    BY <1>2, <2>1, Tokens DEF NoCount
  <2> QED BY <1>1, <1>3, <2>2
<1>4. CASE ~NoCount(f, c)
  <2>1. PICK i \in c + 1..Len(f) : f[i].type = "meta"
    BY <1>4 DEF NoCount
  <2>2. ~NoCount(t, 0) /\ ~NoCount(f, 0)
    BY <1>2, <2>1 DEF NoCount
  <2>3. PICK n \in DOMAIN t : t[n].type = "meta" /\ NoCount(t, n) /\ TokensIn(t, b) = t[n].value
    <3>1. t \in Seq(RecordType)
      BY <1>2
    <3>2. \/ NoCount(t, 0) /\ TokensIn(t, b) = b
          \/ \E n \in DOMAIN t : t[n].type = "meta" /\ NoCount(t, n) /\ TokensIn(t, b) = t[n].value
      BY <3>1, Tokens
    <3> QED BY Zenon, <2>2, <3>2
  <2>4. PICK k \in DOMAIN f : f[k].type = "meta" /\ NoCount(f, k) /\ TokensIn(f, 0) = f[k].value
    BY <2>2, Tokens
  <2>5. k >= i
    BY <1>2, <2>1, <2>4 DEF NoCount
  <2>6. k - c \in DOMAIN t /\ t[k - c] = f[k] /\ n + c \in DOMAIN f /\ t[n] = f[n + c] /\ k \in Nat /\ n \in Nat
    BY SMTT(60), <1>2, <2>5
  <2>7. k - c <= n
    BY SMTT(60), <1>2, <2>3, <2>4, <2>6 DEF NoCount
  <2>8. n + c <= k
    BY SMTT(60), <1>2, <2>3, <2>4, <2>6 DEF NoCount
  <2>9. n + c = k
    BY <2>6, <2>7, <2>8
  <2> QED BY <1>1, <1>4, <2>3, <2>4, <2>6, <2>9
<1> QED BY <1>3, <1>4
LEMMA UpToType ==
  ASSUME NEW ms \in Seq(Entry), NEW m
  PROVE  UpTo(ms, m) \in Seq(Entry)
<1>1. CASE m \in IdsOf(ms)
  <2>1. \E n \in DOMAIN ms : Id(ms[n]) = m
    BY <1>1 DEF IdsOf
  <2>2. PICK n : n = CHOOSE k \in DOMAIN ms : Id(ms[k]) = m
    OBVIOUS
  <2>3. n \in 1..Len(ms)
    BY <2>1, <2>2
  <2>4. UpTo(ms, m) = SubSeq(ms, 1, n)
    BY <1>1, <2>2 DEF UpTo
  <2> QED BY <2>3, <2>4
<1>2. CASE m \notin IdsOf(ms)
  BY <1>2 DEF UpTo
<1> QED BY <1>1, <1>2
-----------------------------------------------------------------------------
LEMMA ReplayType ==
  ASSUME NEW p \in LoadType, NEW r \in RecordType, WellFormed(r)
  PROVE  Replay(p, r) \in LoadType
<1>1. /\ p.active \in Seq(Entry) /\ p.restores \in [Checks -> Seq(Entry) \cup {None}]
      /\ r.messages \in Seq(Entry)
  BY DEF LoadType, RecordType
<1>2. CASE r.type = "message"
  <2>1. PICK m \in Int : m > 0 /\ r.messages = <<m>>
    BY <1>2 DEF WellFormed, IsMessage
  <2>2. r.messages[1] = m /\ m \in Entry
    BY <2>1 DEF Entry
  <2>3. AddMessage(p, m) \in Seq(Entry)
    BY <1>1, <2>2 DEF AddMessage
  <2>4. Replay(p, r) = [p EXCEPT !.active = AddMessage(p, m)]
    BY <1>2, <2>2 DEF Replay
  <2> QED BY <2>3, <2>4 DEF LoadType
<1>3. CASE r.type = "boundary"
  BY <1>1, <1>3 DEF Replay, LoadType
<1>4. CASE r.type = "clear"
  <2>1. <<>> \in Seq(Entry) /\ Replay(p, r) = [p EXCEPT !.active = <<>>]
    BY <1>4 DEF Replay
  <2> QED BY <2>1 DEF LoadType
<1>5. CASE r.type = "checkpoint"
  <2>1. PICK v : v = IF r.messages = <<>> THEN p.active ELSE r.messages
    OBVIOUS
  <2>2. v \in Seq(Entry) /\ Replay(p, r) = [p EXCEPT !.restores[r.check] = v]
    BY <1>1, <1>5, <2>1 DEF Replay
  <2> QED BY <2>2 DEF LoadType
<1>6. CASE r.type = "rollback"
  <2>1. p.restores[r.check] \in Seq(Entry) \cup {None}
    BY <1>1, <1>6 DEF WellFormed
  <2>2. UpTo(p.active, r.value) \in Seq(Entry)
    BY <1>1, UpToType
  <2>3. PICK v : v = IF p.restores[r.check] # None THEN p.restores[r.check] ELSE UpTo(p.active, r.value)
    OBVIOUS
  <2>4. v \in Seq(Entry) /\ Replay(p, r) = [p EXCEPT !.active = v]
    BY <1>6, <2>1, <2>2, <2>3 DEF Replay
  <2> QED BY <2>4 DEF LoadType
<1>7. CASE r.type = "meta"
  BY <1>7 DEF Replay
<1> QED BY <1>2, <1>3, <1>4, <1>5, <1>6, <1>7 DEF RecordType, RecordTypes
-----------------------------------------------------------------------------
\* What a storage knows after a scan.
LEMMA ScanKnows ==
  ASSUME FileInv, NEW x \in Holders
  PROVE  /\ written[x] \subseteq Scan(x).ids /\ Scan(x).ids \subseteq Recorded(log)
         /\ Covers(Scan(x).ids, log, Len(log))
         /\ Scan(x).tokens \in Spent
         /\ (\A n \in cursor[x] + 1..Len(log) : HeldBy(log[n]) = {}) => Scan(x).ids = written[x]
<1>1. PICK f, c, t, w, b : /\ f = log /\ c = cursor[x] /\ w = written[x] /\ b = tokens[x]
                           /\ t = SubSeq(log, cursor[x] + 1, Len(log))
  OBVIOUS
<1>2. /\ f \in Seq(RecordType) /\ c \in Nat /\ c <= Len(f) /\ w \subseteq Recorded(f)
      /\ Covers(w, f, c) /\ \A n \in DOMAIN f : WellFormed(f[n])
  BY <1>1 DEF FileInv, FileTyped, Indexed
<1>3. Scan(x).ids = w \cup Recorded(t) /\ Scan(x).tokens = TokensIn(t, b)
  BY <1>1 DEF Scan
<1>4. Recorded(t) \subseteq Recorded(f) /\ \A n \in c + 1..Len(f) : HeldBy(f[n]) \subseteq Recorded(t)
  BY <1>1, <1>2, RecordedTail
<1>5. Covers(w \cup Recorded(t), f, Len(f))
  <2>1. SUFFICES ASSUME NEW n \in 1..Len(f), IsMessage(f[n]), Uncleared(f, n)
                 PROVE  f[n].messages[1] \in w \cup Recorded(t)
    BY DEF Covers
  <2>2. CASE n <= c
    BY <1>2, <2>1, <2>2 DEF Covers
  <2>3. CASE ~(n <= c)
    <3>1. n \in c + 1..Len(f) /\ n \in DOMAIN f
      BY <1>2, <2>3
    <3>2. PICK m \in Int : m > 0 /\ f[n].messages = <<m>>
      BY <1>2, <2>1, <3>1 DEF WellFormed
    <3>3. HeldBy(f[n]) = {m} /\ f[n].messages[1] = m
      BY <2>1, <3>2, IdsOfOne DEF HeldBy, IsMessage
    <3> QED BY <1>4, <3>1, <3>3
  <2> QED BY <2>2, <2>3
<1>6. TokensIn(t, b) \in Spent
  <2>1. CASE NoCount(f, c)
    <3>1. b \in Spent
      BY <1>1, <2>1 DEF FileInv, Counted
    <3> QED BY <1>1, <1>2, <2>1, <3>1, TokensTail
  <2>2. CASE ~NoCount(f, c)
    <3>1. TokensIn(f, 0) \in Spent
      BY <1>1 DEF FileInv, Counted
    <3> QED BY <1>1, <1>2, <2>2, <3>1, TokensTail
  <2> QED BY <2>1, <2>2
<1>7. ASSUME \A n \in c + 1..Len(f) : HeldBy(f[n]) = {} PROVE Recorded(t) = {}
  <2>1. SUFFICES ASSUME NEW m \in Recorded(t) PROVE FALSE
    OBVIOUS
  <2>2. PICK n \in DOMAIN t : m \in HeldBy(t[n])
    BY <2>1, RecordedBy
  <2>3. n + c \in c + 1..Len(f) /\ t[n] = f[n + c]
    BY <1>1, <1>2, Tails
  <2> QED BY <1>7, <2>2, <2>3
<1> QED BY <1>1, <1>2, <1>3, <1>4, <1>5, <1>6, <1>7

\* What it knows when it has read the whole file.
LEMMA FileKnows ==
  ASSUME NEW f \in Seq(RecordType), \A n \in DOMAIN f : WellFormed(f[n])
  PROVE  Covers(Recorded(f), f, Len(f))
<1> SUFFICES ASSUME NEW n \in 1..Len(f), IsMessage(f[n]) PROVE f[n].messages[1] \in Recorded(f)
  BY DEF Covers
<1>1. n \in DOMAIN f
  OBVIOUS
<1>2. PICK m \in Int : m > 0 /\ f[n].messages = <<m>>
  BY <1>1 DEF WellFormed
<1>3. m \in HeldBy(f[n]) /\ f[n].messages[1] = m
  BY <1>2, IdsOfOne DEF HeldBy, IsMessage
<1> QED BY <1>1, <1>3, RecordedBy
-----------------------------------------------------------------------------
Moves(x, w, t, c) ==
  /\ written' = [written EXCEPT ![x] = w]
  /\ tokens' = [tokens EXCEPT ![x] = t]
  /\ cursor' = [cursor EXCEPT ![x] = c]

\* A holder knows something else of the same file.
LEMMA KeepStep ==
  ASSUME FileInv, NEW x \in Holders, NEW w, NEW t \in Int, NEW c \in 0..Len(log), Moves(x, w, t, c),
         log' = log, w \subseteq Recorded(log), Covers(w, log, c), acked' \subseteq Recorded(log),
         spent' \in [written : Nat, failed : Nat], spent'.written = spent.written,
         spent'.failed >= spent.failed, NoCount(log, c) => t \in Spent'
  PROVE  FileInv'
<1>1. FileTyped /\ Indexed /\ Counted /\ log \in Seq(RecordType)
  BY DEF FileInv, FileTyped
<1>2. Recorded(log) \subseteq Int
  BY <1>1, RecordedType
<1>3. FileTyped'
  BY <1>1, <1>2 DEF FileTyped, Moves
<1>4. Indexed'
  BY <1>1 DEF Indexed, FileTyped, Moves
<1>5. Spent \subseteq Spent'
  BY <1>1 DEF Spent, FileTyped
<1>6. Counted'
  BY <1>1, <1>5 DEF Counted, FileTyped, Moves
<1> QED BY <1>3, <1>4, <1>6 DEF FileInv

\* A storage that has seen what there is, and what it appends, has seen it all.
LEMMA CoversGrows ==
  ASSUME NEW f \in Seq(RecordType), NEW r \in RecordType, NEW v, NEW w
  PROVE  /\ /\ Covers(v, f, Len(f)) /\ v \subseteq w
            /\ IsMessage(r) => r.messages[1] \in w
            => Covers(w, Append(f, r), Len(f) + 1)
         /\ r.type = "clear" => Covers(w, Append(f, r), Len(f) + 1)
         /\ \A c \in 0..Len(f) : Covers(w, f, c) => Covers(w, Append(f, r), c)
<1>1. PICK e : e = Append(f, r)
  OBVIOUS
<1>2. /\ Len(e) = Len(f) + 1 /\ e[Len(f) + 1] = r /\ Len(f) \in Nat
      /\ \A n \in 1..Len(f) : e[n] = f[n]
  BY <1>1
<1>3. ASSUME NEW n \in 1..Len(f), Uncleared(e, n) PROVE Uncleared(f, n) /\ r.type # "clear"
  BY <1>2, <1>3 DEF Uncleared
<1>4. ASSUME Covers(v, f, Len(f)), v \subseteq w, IsMessage(r) => r.messages[1] \in w,
             NEW n \in 1..Len(f) + 1, IsMessage(e[n]), Uncleared(e, n)
      PROVE  e[n].messages[1] \in w
  <2>1. CASE n = Len(f) + 1
    BY <1>2, <1>4, <2>1
  <2>2. CASE n # Len(f) + 1
    <3>1. n \in 1..Len(f)
      BY <1>2, <2>2
    <3> QED BY <1>2, <1>3, <1>4, <3>1 DEF Covers
  <2> QED BY <2>1, <2>2
<1>5. ASSUME r.type = "clear", NEW n \in 1..Len(f) + 1, IsMessage(e[n]) PROVE ~Uncleared(e, n)
  BY <1>2, <1>5 DEF Uncleared, IsMessage
<1>6. ASSUME NEW c \in 0..Len(f), Covers(w, f, c) PROVE Covers(w, e, c)
  BY <1>2, <1>3, <1>6 DEF Covers
<1>7. /\ Covers(v, f, Len(f)) /\ v \subseteq w
      /\ IsMessage(r) => r.messages[1] \in w
      => Covers(w, e, Len(f) + 1)
  BY <1>4 DEF Covers
<1>8. r.type = "clear" => Covers(w, e, Len(f) + 1)
  BY <1>5 DEF Covers
<1> QED BY <1>1, <1>6, <1>7, <1>8
\* A record is appended that the holder did not know.
LEMMA GrowStep ==
  ASSUME FileInv, NEW x \in Holders, NEW r \in RecordType, NEW w, NEW t \in Int,
         Moves(x, w, t, Len(log) + 1), log' = Append(log, r), WellFormed(r),
         NEW v, Covers(v, log, Len(log)), IsMessage(r) => r.messages[1] \notin v,
         w \subseteq Recorded(log'), Covers(w, log', Len(log) + 1), acked' \subseteq Recorded(log'),
         spent' \in [written : Nat, failed : Nat], t \in Spent',
         IF r.type = "meta" THEN r.value \in Spent' ELSE spent' = spent
  PROVE  FileInv'
<1>1. /\ FileTyped /\ Indexed /\ Counted /\ log \in Seq(RecordType)
      /\ \A n \in DOMAIN log : WellFormed(log[n])
  BY DEF FileInv, FileTyped
<1>2. PICK f, e : f = log /\ e = log'
  OBVIOUS
<1>3. /\ e \in Seq(RecordType) /\ Len(e) = Len(f) + 1 /\ e[Len(f) + 1] = r /\ Len(f) \in Nat
      /\ DOMAIN e = 1..Len(f) + 1 /\ \A n \in 1..Len(f) : e[n] = f[n]
      /\ f \in Seq(RecordType) /\ e = Append(f, r) /\ \A n \in 1..Len(f) : WellFormed(f[n])
  BY <1>1, <1>2
<1>4. Recorded(e) \subseteq Int /\ Recorded(e) = Recorded(f) \cup HeldBy(r)
  BY <1>3, RecordedType, RecordedAppend
<1>5. Load(e) \in LoadType
  <2>1. Load(e) = Replay(Load(f), r) /\ Load(f) \in LoadType
    BY <1>1, <1>2, <1>3, LoadAppend DEF FileTyped
  <2> QED BY <2>1, ReplayType
<1>6. \A n \in DOMAIN e : WellFormed(e[n])
  BY <1>3
<1>7. written' \in [Holders -> SUBSET Int] /\ cursor' \in [Holders -> Nat] /\ tokens' \in [Holders -> Int]
  BY <1>1, <1>2, <1>3, <1>4 DEF FileTyped, Moves
<1>8. \A y \in Holders : cursor'[y] <= Len(e)
  BY <1>1, <1>2, <1>3 DEF FileTyped, Moves
<1>9. FileTyped'
  BY <1>2, <1>3, <1>5, <1>6, <1>7, <1>8 DEF FileTyped
<1>10. Once(e)
  <2>1. Once(f)
    BY <1>1, <1>2 DEF Indexed
  <2> SUFFICES ASSUME NEW i \in DOMAIN e, NEW j \in DOMAIN e, i < j, IsMessage(e[i]), IsMessage(e[j]),
                      e[i].messages = e[j].messages
               PROVE  \E k \in i..j : e[k].type = "clear"
    BY DEF Once
  <2>2. i \in 1..Len(f) /\ e[i] = f[i]
    BY <1>3
  <2>3. CASE j \in 1..Len(f)
    <3>1. i \in DOMAIN f /\ j \in DOMAIN f /\ e[i] = f[i] /\ e[j] = f[j]
      BY <1>3, <2>2, <2>3
    <3>2. PICK k \in i..j : f[k].type = "clear"
      BY <2>1, <3>1 DEF Once
    <3>3. k \in 1..Len(f) /\ e[k] = f[k]
      BY <1>3, <2>2, <2>3
    <3> QED BY <3>2, <3>3
  <2>4. CASE j = Len(f) + 1
    <3>1. f[i].messages[1] \notin v
      BY <1>3, <2>2, <2>4
    <3>2. ~Uncleared(f, i)
      BY <1>2, <2>2, <3>1 DEF Covers
    <3>3. PICK k \in i..Len(f) : f[k].type = "clear"
      BY <3>2 DEF Uncleared
    <3> QED BY <1>3, <2>2, <2>4, <3>3
  <2> QED BY <1>3, <2>3, <2>4
<1>11. ASSUME NEW y \in Holders
       PROVE  written'[y] \subseteq Recorded(e) /\ Covers(written'[y], e, cursor'[y])
  <2>1. CASE y = x
    BY <1>1, <1>2, <2>1 DEF Moves, FileTyped
  <2>2. CASE y # x
    <3>1. written'[y] = written[y] /\ cursor'[y] = cursor[y] /\ cursor[y] \in 0..Len(f)
      BY <1>1, <1>2, <2>2 DEF Moves, FileTyped
    <3>2. written[y] \subseteq Recorded(f) /\ Covers(written[y], f, cursor[y])
      BY <1>1, <1>2 DEF Indexed
    <3>3. Covers(written[y], Append(f, r), cursor[y])
      BY <1>3, <3>1, <3>2, CoversGrows
    <3> QED BY <1>3, <1>4, <3>1, <3>2, <3>3
  <2> QED BY <2>1, <2>2
<1>12. Indexed'
  BY <1>2, <1>10, <1>11 DEF Indexed
<1>13. TokensIn(e, 0) \in Spent'
  <2>1. TokensIn(e, 0) = IF r.type = "meta" THEN r.value ELSE TokensIn(f, 0)
    BY <1>3, TokensAppend
  <2>2. TokensIn(f, 0) \in Spent /\ (r.type # "meta" => Spent' = Spent)
    BY <1>1, <1>2 DEF Counted, Spent
  <2> QED BY <2>1, <2>2
<1>14. ASSUME NEW y \in Holders, NoCount(e, cursor'[y]) PROVE tokens'[y] \in Spent'
  <2>1. CASE y = x
    BY <1>1, <2>1 DEF Moves, FileTyped
  <2>2. CASE y # x
    <3>1. tokens'[y] = tokens[y] /\ cursor'[y] = cursor[y] /\ cursor[y] \in 0..Len(f)
      BY <1>1, <1>2, <2>2 DEF Moves, FileTyped
    <3>2. r.type # "meta" /\ NoCount(f, cursor[y])
      BY SMTT(60), <1>3, <1>14, <3>1 DEF NoCount
    <3>3. tokens[y] \in Spent /\ Spent' = Spent
      BY <1>1, <1>2, <3>2 DEF Counted, Spent
    <3> QED BY <3>1, <3>3
  <2> QED BY <2>1, <2>2
<1>15. Counted'
  BY <1>2, <1>13, <1>14 DEF Counted
<1> QED BY <1>9, <1>12, <1>15 DEF FileInv

LEMMA SpentTypes ==
  ASSUME FileInv
  PROVE  /\ Spent \subseteq Int /\ Recorded(log) \subseteq Int /\ TokensIn(log, 0) \in Spent
         /\ log \in Seq(RecordType) /\ Len(log) \in Nat /\ spent \in [written : Nat, failed : Nat]
         /\ \A n \in DOMAIN log : WellFormed(log[n])
         /\ acked \subseteq Recorded(log)
         /\ spent' = spent => Spent' = Spent
<1>1. FileTyped /\ Indexed /\ Counted /\ log \in Seq(RecordType)
  BY DEF FileInv, FileTyped
<1>2. Recorded(log) \subseteq Int
  BY <1>1, RecordedType
<1> QED BY <1>1, <1>2 DEF Spent, FileTyped, Indexed, Counted

\* A step that leaves the file and the indices alone.
LEMMA AsideStep ==
  ASSUME FileInv, UNCHANGED <<log, written, cursor, tokens, spent>>, acked' \subseteq Recorded(log)
  PROVE  FileInv'
<1>1. FileTyped /\ Indexed /\ Counted
  BY DEF FileInv
<1>2. FileTyped'
  BY <1>1 DEF FileTyped
<1>3. Indexed'
  BY <1>1 DEF Indexed
<1>4. Counted'
  BY <1>1 DEF Counted, Spent
<1> QED BY <1>2, <1>3, <1>4 DEF FileInv

\* A storage that has scanned, and appended nothing.
LEMMA ScanStep ==
  ASSUME FileInv, NEW x \in Holders, Moves(x, Scan(x).ids, Scan(x).tokens, Len(log)),
         log' = log, spent' = spent, acked' \subseteq Recorded(log)
  PROVE  FileInv'
<1>1. /\ Scan(x).ids \subseteq Recorded(log) /\ Covers(Scan(x).ids, log, Len(log))
      /\ Scan(x).tokens \in Spent
  BY ScanKnows
<1>2. /\ Scan(x).tokens \in Int /\ Len(log) \in 0..Len(log) /\ Scan(x).tokens \in Spent'
      /\ spent' \in [written : Nat, failed : Nat] /\ spent'.failed >= spent.failed
      /\ spent'.written = spent.written
  BY <1>1, SpentTypes
<1> QED BY <1>1, <1>2, KeepStep

\* A storage that has scanned, and appended a record that counts nothing.
LEMMA WriteStep ==
  ASSUME FileInv, NEW x \in Holders, NEW r \in RecordType, WellFormed(r), r.type # "meta",
         log' = Append(log, r), spent' = spent, acked' \subseteq Recorded(log'),
         IsMessage(r) => r.messages[1] \notin Scan(x).ids,
         NEW w, w = Scan(x).ids \cup HeldBy(r) \/ (w = {} /\ r.type = "clear"),
         Moves(x, w, Scan(x).tokens, Len(log) + 1)
  PROVE  FileInv'
<1> DEFINE v == Scan(x).ids
<1>1. v \subseteq Recorded(log) /\ Covers(v, log, Len(log)) /\ Scan(x).tokens \in Spent
  BY ScanKnows
<1>2. /\ Scan(x).tokens \in Int /\ Scan(x).tokens \in Spent' /\ log \in Seq(RecordType)
      /\ spent' \in [written : Nat, failed : Nat]
  BY <1>1, SpentTypes
<1>3. Recorded(log') = Recorded(log) \cup HeldBy(r)
  BY <1>2, RecordedAppend
<1>4. ASSUME IsMessage(r) PROVE r.messages[1] \in HeldBy(r)
  <2>1. PICK m \in Int : m > 0 /\ r.messages = <<m>>
    BY <1>4 DEF WellFormed
  <2>2. HeldBy(r) = {m} /\ r.messages[1] = m
    BY <1>4, <2>1, IdsOfOne DEF HeldBy, IsMessage
  <2> QED BY <2>2
<1>5. w \subseteq Recorded(log')
  BY <1>1, <1>3
<1>6. Covers(w, log', Len(log) + 1)
  BY <1>1, <1>2, <1>4, CoversGrows
<1> HIDE DEF v
<1>7. IF r.type = "meta" THEN r.value \in Spent' ELSE spent' = spent
  OBVIOUS
<1> QED BY <1>1, <1>2, <1>5, <1>6, <1>7, GrowStep DEF v
-----------------------------------------------------------------------------
\* Records as they are written.
LEMMA RecordTypesOf ==
  /\ \A m \in Int : m > 0 => MessageRecord(m) \in RecordType /\ WellFormed(MessageRecord(m))
                             /\ HeldBy(MessageRecord(m)) = {m} /\ MessageRecord(m).messages[1] = m
  /\ \A ms \in Seq(Entry) : Boundary(ms) \in RecordType /\ WellFormed(Boundary(ms))
                            /\ HeldBy(Boundary(ms)) = IdsOf(ms)
  /\ ClearBoundary \in RecordType /\ WellFormed(ClearBoundary) /\ HeldBy(ClearBoundary) = {}
  /\ \A c \in Checks, m \in Int : Rollback(c, m) \in RecordType /\ WellFormed(Rollback(c, m))
                                  /\ HeldBy(Rollback(c, m)) = {}
  /\ \A n \in Int : Metadata(n) \in RecordType /\ WellFormed(Metadata(n)) /\ HeldBy(Metadata(n)) = {}
  /\ \A c \in Checks, ms \in Seq(Entry) : ms # <<>> =>
       /\ Checkpoint(c, ms) \in RecordType /\ WellFormed(Checkpoint(c, ms))
       /\ HeldBy(Checkpoint(c, ms)) = {}
<1>0. <<>> \in Seq(Entry) /\ 0 \in Int
  OBVIOUS
<1>1. ASSUME NEW m \in Int, m > 0
      PROVE  /\ MessageRecord(m) \in RecordType /\ WellFormed(MessageRecord(m))
             /\ HeldBy(MessageRecord(m)) = {m} /\ MessageRecord(m).messages[1] = m
  <2>1. IdsOf(<<m>>) = {m} /\ <<m>> \in Seq(Entry)
    BY <1>1, IdsOfOne
  <2> QED BY <1>1, <2>1 DEF MessageRecord, Record, RecordType, RecordTypes, WellFormed, IsMessage, HeldBy
<1>2. ASSUME NEW ms \in Seq(Entry)
      PROVE  /\ Boundary(ms) \in RecordType /\ WellFormed(Boundary(ms))
             /\ HeldBy(Boundary(ms)) = IdsOf(ms)
  BY DEF Boundary, Record, RecordType, RecordTypes, WellFormed, IsMessage, HeldBy
<1>3. ClearBoundary \in RecordType /\ WellFormed(ClearBoundary) /\ HeldBy(ClearBoundary) = {}
  BY <1>0 DEF ClearBoundary, Record, RecordType, RecordTypes, WellFormed, IsMessage, HeldBy
<1>4. ASSUME NEW c \in Checks, NEW m \in Int
      PROVE  /\ Rollback(c, m) \in RecordType /\ WellFormed(Rollback(c, m)) /\ HeldBy(Rollback(c, m)) = {}
  BY <1>0 DEF Rollback, Record, RecordType, RecordTypes, WellFormed, IsMessage, HeldBy, Checks
<1>5. ASSUME NEW n \in Int
      PROVE  Metadata(n) \in RecordType /\ WellFormed(Metadata(n)) /\ HeldBy(Metadata(n)) = {}
  BY <1>0 DEF Metadata, Record, RecordType, RecordTypes, WellFormed, IsMessage, HeldBy
<1>6. ASSUME NEW c \in Checks, NEW ms \in Seq(Entry), ms # <<>>
      PROVE  /\ Checkpoint(c, ms) \in RecordType /\ WellFormed(Checkpoint(c, ms))
             /\ HeldBy(Checkpoint(c, ms)) = {}
  <2>1. PICK v : v = Id(Last(ms))
    OBVIOUS
  <2>2. Last(ms) = ms[Len(ms)] /\ Len(ms) \in DOMAIN ms
    BY <1>6 DEF Last
  <2>3. v \in Int
    BY <2>1, <2>2, IdsType
  <2>4. Checkpoint(c, ms) = Record("checkpoint", ms, c, v)
    BY <2>1 DEF Checkpoint
  <2> QED BY <2>3, <2>4 DEF Record, RecordType, RecordTypes, WellFormed, IsMessage, HeldBy, Checks
<1> QED BY <1>1, <1>2, <1>3, <1>4, <1>5, <1>6

\* The step that took a message id.
LEMMA AppendMessageStep ==
  ASSUME FileInv, NEW x \in Holders, NEW m \in Int, m > 0, AppendMessage(x, m), spent' = spent
  PROVE  FileInv'
<1>0. /\ log \in Seq(RecordType) /\ acked \subseteq Recorded(log) /\ written[x] \subseteq Recorded(log)
      /\ Scan(x).ids \subseteq Recorded(log)
  BY SpentTypes, ScanKnows DEF FileInv, Indexed
<1>1. CASE m \in written[x] /\ acked' = acked \union {m} /\ UNCHANGED <<log, written, cursor, tokens>>
  BY <1>0, <1>1, AsideStep
<1>2. CASE /\ m \in Scan(x).ids /\ log' = log /\ acked' = acked \union {m}
           /\ Moves(x, Scan(x).ids \union {m}, Scan(x).tokens, Len(log))
  <2>1. Scan(x).ids \union {m} = Scan(x).ids
    BY <1>2
  <2> QED BY <1>0, <1>2, <2>1, ScanStep
<1>3. CASE /\ m \notin Scan(x).ids /\ log' = Append(log, MessageRecord(m)) /\ acked' = acked \union {m}
           /\ Moves(x, Scan(x).ids \union {m}, Scan(x).tokens, Len(log) + 1)
  <2>1. PICK r : r = MessageRecord(m)
    OBVIOUS
  <2>2. r \in RecordType /\ WellFormed(r) /\ HeldBy(r) = {m} /\ r.messages[1] = m /\ r.type # "meta"
    BY <2>1, RecordTypesOf DEF MessageRecord, Record
  <2>3. acked' \subseteq Recorded(log')
    BY <1>0, <1>3, <2>1, <2>2, RecordedAppend
  <2> QED BY <1>3, <2>1, <2>2, <2>3, WriteStep
<1>4. CASE RecordFails(x, m)
  <2>1. Moves(x, Scan(x).ids, Scan(x).tokens, Len(log)) /\ UNCHANGED <<log, acked>>
    BY <1>4 DEF RecordFails, Moves, Scanned
  <2> QED BY <1>0, <2>1, ScanStep
<1> QED BY <1>1, <1>2, <1>3, <1>4 DEF AppendMessage, Moves, Appended, Scanned
-----------------------------------------------------------------------------
LEMMA OpenFile ==
  ASSUME FileInv, NEW x \in Holders, Open(x)
  PROVE  FileInv'
<1>1. /\ Moves(x, Recorded(log), TokensIn(log, 0), Len(log))
      /\ UNCHANGED <<log, acked, spent>>
  BY DEF Open, Moves
<1>2. TokensIn(log, 0) \in Spent' /\ TokensIn(log, 0) \in Int /\ Len(log) \in 0..Len(log)
      /\ Covers(Recorded(log), log, Len(log)) /\ acked' \subseteq Recorded(log)
      /\ spent' \in [written : Nat, failed : Nat] /\ spent'.failed >= spent.failed
  BY <1>1, SpentTypes, FileKnows
<1> QED BY <1>1, <1>2, KeepStep

LEMMA ReplaceFile ==
  ASSUME FileInv, NEW x \in Holders, NEW ms \in Seq(Entry), Replace(x, ms)
  PROVE  FileInv'
<1>0. log \in Seq(RecordType) /\ acked \subseteq Recorded(log)
  BY SpentTypes
<1>1. UNCHANGED <<acked, spent>>
  BY DEF Replace
<1>2. CASE /\ log' = Append(log, Boundary(ms))
           /\ Moves(x, Scan(x).ids \union IdsOf(ms), Scan(x).tokens, Len(log) + 1)
  <2>1. PICK r : r = Boundary(ms)
    OBVIOUS
  <2>2. r \in RecordType /\ WellFormed(r) /\ HeldBy(r) = IdsOf(ms) /\ r.type = "boundary"
    BY <2>1, RecordTypesOf DEF Boundary, Record
  <2>3. acked' \subseteq Recorded(log')
    BY <1>0, <1>1, <1>2, <2>1, <2>2, RecordedAppend
  <2>4. r.type # "meta" /\ ~IsMessage(r)
    BY <2>2 DEF IsMessage
  <2> QED BY <1>1, <1>2, <2>1, <2>2, <2>3, <2>4, WriteStep
<1>3. CASE log' = log /\ Moves(x, Scan(x).ids, Scan(x).tokens, Len(log))
  BY <1>0, <1>1, <1>3, ScanStep
<1> QED BY <1>2, <1>3 DEF Replace, Moves, Appended, Scanned

LEMMA ClearFile ==
  ASSUME FileInv, NEW x \in Holders, Clear(x)
  PROVE  FileInv'
<1>1. /\ log' = Append(log, ClearBoundary) /\ Moves(x, {}, Scan(x).tokens, Len(log) + 1)
      /\ UNCHANGED <<acked, spent>>
  BY DEF Clear, Moves, Appended
<1>2. PICK r : r = ClearBoundary
  OBVIOUS
<1>3. r \in RecordType /\ WellFormed(r) /\ HeldBy(r) = {} /\ r.type = "clear"
  BY <1>2, RecordTypesOf DEF ClearBoundary, Record
<1>4. acked' \subseteq Recorded(log')
  BY <1>1, <1>2, <1>3, RecordedAppend, SpentTypes
<1>5. r.type # "meta" /\ ~IsMessage(r)
  BY <1>3 DEF IsMessage
<1> QED BY <1>1, <1>2, <1>3, <1>4, <1>5, WriteStep

LEMMA FinishFile ==
  ASSUME FileInv, NEW x \in Holders, FinishCheckpoint(x), making[x] \in Checks, live[x] \in Seq(Entry),
         live[x] # <<>>
  PROVE  FileInv'
<1>0. log \in Seq(RecordType) /\ acked \subseteq Recorded(log)
  BY SpentTypes
<1>1. UNCHANGED <<acked, spent>>
  BY DEF FinishCheckpoint, history
<1>2. CASE /\ log' = Append(log, Checkpoint(making[x], live[x]))
           /\ Moves(x, Scan(x).ids, Scan(x).tokens, Len(log) + 1)
  <2>1. PICK r : r = Checkpoint(making[x], live[x])
    OBVIOUS
  <2>2. r \in RecordType /\ WellFormed(r) /\ HeldBy(r) = {} /\ r.type = "checkpoint"
    BY <2>1, RecordTypesOf DEF Checkpoint, Record
  <2>3. acked' \subseteq Recorded(log')
    BY <1>0, <1>1, <1>2, <2>1, <2>2, RecordedAppend
  <2>4. r.type # "meta" /\ ~IsMessage(r) /\ Scan(x).ids = Scan(x).ids \cup HeldBy(r)
    BY <2>2 DEF IsMessage
  <2> QED BY <1>1, <1>2, <2>1, <2>2, <2>3, <2>4, WriteStep
<1>3. CASE log' = log /\ Moves(x, Scan(x).ids, Scan(x).tokens, Len(log))
  BY <1>0, <1>1, <1>3, ScanStep
<1> QED BY <1>2, <1>3 DEF FinishCheckpoint, Moves, Appended, Scanned

LEMMA RollBackFile ==
  ASSUME FileInv, NEW x \in Holders, NEW c \in Checks, RollBack(x, c), row[c] \in Int
  PROVE  FileInv'
<1>1. /\ log' = Append(log, Rollback(c, row[c]))
      /\ Moves(x, Recorded(log'), TokensIn(log', 0), Len(log) + 1)
      /\ UNCHANGED <<acked, spent>>
  BY DEF RollBack, Moves, Appended
<1>2. PICK r : r = Rollback(c, row[c])
  OBVIOUS
<1>3. r \in RecordType /\ WellFormed(r) /\ HeldBy(r) = {} /\ r.type = "rollback" /\ ~IsMessage(r)
  BY <1>2, RecordTypesOf DEF Rollback, Record, IsMessage
<1>4. /\ log \in Seq(RecordType) /\ \A n \in DOMAIN log : WellFormed(log[n])
      /\ log' \in Seq(RecordType) /\ \A n \in DOMAIN log' : WellFormed(log'[n])
      /\ Len(log') = Len(log) + 1
  <2>1. log \in Seq(RecordType) /\ \A n \in DOMAIN log : WellFormed(log[n])
    BY SpentTypes
  <2> QED BY <1>1, <1>2, <1>3, <2>1
<1>5. Recorded(log') = Recorded(log) /\ TokensIn(log', 0) = TokensIn(log, 0)
  <2>1. Recorded(Append(log, r)) = Recorded(log)
    BY <1>3, <1>4, RecordedAppend
  <2>2. TokensIn(Append(log, r), 0) = TokensIn(log, 0)
    BY <1>3, <1>4, TokensAppend
  <2> QED BY <1>1, <1>2, <2>1, <2>2
<1>6. /\ acked' \subseteq Recorded(log') /\ TokensIn(log', 0) \in Int /\ TokensIn(log', 0) \in Spent'
      /\ spent' \in [written : Nat, failed : Nat] /\ Covers(Recorded(log), log, Len(log))
  BY <1>1, <1>4, <1>5, SpentTypes, FileKnows
<1>7. Covers(Recorded(log'), log', Len(log) + 1)
  BY <1>4, FileKnows
<1>8. IF r.type = "meta" THEN r.value \in Spent' ELSE spent' = spent
  BY <1>1, <1>3
<1> QED BY <1>1, <1>2, <1>3, <1>6, <1>7, <1>8, GrowStep

LEMMA TokensFile ==
  ASSUME FileInv, NEW x \in Holders, RecordTokens(x)
  PROVE  FileInv'
<1>1. PICK t : t = Scan(x).tokens
  OBVIOUS
<1>2. /\ t \in Spent /\ t \in Int /\ t + 1 \in Int /\ spent.written \in Nat /\ spent.failed \in Nat
      /\ t >= spent.written /\ t <= spent.written + spent.failed
      /\ log \in Seq(RecordType) /\ Len(log) \in Nat /\ spent \in [written : Nat, failed : Nat]
  BY <1>1, ScanKnows, SpentTypes DEF Spent
<1>3. Scan(x).ids \subseteq Recorded(log) /\ Covers(Scan(x).ids, log, Len(log))
  BY ScanKnows
<1>4. acked' = acked /\ acked \subseteq Recorded(log)
  BY SpentTypes DEF RecordTokens
<1>5. CASE /\ log' = Append(log, Metadata(t + 1)) /\ spent' = [spent EXCEPT !.written = @ + 1]
           /\ Moves(x, Scan(x).ids, t + 1, Len(log) + 1)
  <2>1. PICK r : r = Metadata(t + 1)
    OBVIOUS
  <2>2. r \in RecordType /\ WellFormed(r) /\ HeldBy(r) = {} /\ r.type = "meta" /\ r.value = t + 1
        /\ ~IsMessage(r)
    BY <1>2, <2>1, RecordTypesOf DEF Metadata, Record, IsMessage
  <2>3. Recorded(log') = Recorded(log)
    BY <1>2, <1>5, <2>1, <2>2, RecordedAppend
  <2>4. /\ spent' \in [written : Nat, failed : Nat] /\ spent'.written = spent.written + 1
        /\ spent'.failed = spent.failed
    BY <1>2, <1>5
  <2>5. t + 1 \in Spent'
    BY <1>2, <2>4 DEF Spent
  <2>6. Covers(Scan(x).ids, log', Len(log) + 1)
    BY <1>2, <1>3, <1>5, <2>1, <2>2, CoversGrows
  <2> QED BY <1>2, <1>3, <1>4, <1>5, <2>1, <2>2, <2>3, <2>4, <2>5, <2>6, GrowStep
<1>6. CASE /\ log' = log /\ spent' = [spent EXCEPT !.failed = @ + 1]
           /\ Moves(x, Scan(x).ids, t + 1, Len(log))
  <2>1. /\ spent' \in [written : Nat, failed : Nat] /\ spent'.written = spent.written
        /\ spent'.failed = spent.failed + 1 /\ spent'.failed >= spent.failed
    BY <1>2, <1>6
  <2>2. t + 1 \in Spent' /\ Len(log) \in 0..Len(log)
    BY <1>2, <2>1 DEF Spent
  <2> QED BY <1>2, <1>3, <1>4, <1>6, <2>1, <2>2, KeepStep
<1> QED BY <1>1, <1>5, <1>6 DEF RecordTokens, Moves, Appended, Scanned

LEMMA CrashFile ==
  ASSUME FileInv, NEW x \in Holders, HolderCrashes(x)
  PROVE  FileInv'
<1>1. Moves(x, {}, 0, 0) /\ UNCHANGED <<log, acked, spent>>
  BY DEF HolderCrashes, Moves, history
<1>2. PICK f : f = log
  OBVIOUS
<1>3. f \in Seq(RecordType) /\ Len(f) \in Nat /\ TokensIn(f, 0) \in Spent /\ Spent' = Spent
      /\ acked' \subseteq Recorded(f) /\ spent' \in [written : Nat, failed : Nat] /\ spent'.failed >= spent.failed
  BY <1>1, <1>2, SpentTypes
<1>4. ASSUME NoCount(f, 0) PROVE 0 \in Spent'
  <2>1. TokensIn(f, 0) = 0
    BY <1>3, <1>4, Tokens DEF NoCount
  <2> QED BY <1>3, <2>1
<1>5. Covers({}, f, 0) /\ {} \subseteq Recorded(f) /\ 0 \in 0..Len(f) /\ 0 \in Int
  BY <1>3 DEF Covers
<1> QED BY <1>1, <1>2, <1>3, <1>4, <1>5, KeepStep
-----------------------------------------------------------------------------
LEMMA FreshIds ==
  ASSUME Fresh # {}
  PROVE  /\ NewId \in MessageIds /\ NewId \in Int /\ NewId > 0
         /\ \A y \in Holders : NewId \notin IdsOf(live[y])
         /\ \A n \in DOMAIN log : NewId \notin IdsOf(log[n].messages)
<1>1. Fresh \in SUBSET Nat
  BY TranscriptAssumption DEF Fresh, MessageIds
<1>2. \E m \in Fresh : \A k \in Fresh : m <= k
  BY Zenon, <1>1, Least
<1>3. NewId \in Fresh
  BY Zenon, <1>2 DEF NewId
<1>4. /\ NewId \in MessageIds /\ \A y \in Holders : NewId \notin IdsOf(live[y])
      /\ \A n \in DOMAIN log : NewId \notin IdsOf(log[n].messages)
  BY Zenon, <1>3 DEF Fresh
<1>5. NewId \in Int /\ NewId > 0
  BY <1>4, TranscriptAssumption DEF MessageIds
<1> QED BY <1>4, <1>5

LEMMA PrunedType ==
  ASSUME NEW ms \in Seq(Entry)
  PROVE  /\ Pruned(ms) \in Seq(Entry) /\ Len(Pruned(ms)) = Len(ms) /\ IdsOf(Pruned(ms)) = IdsOf(ms)
         /\ \A n \in DOMAIN ms : Id(Pruned(ms)[n]) = Id(ms[n])
<1>1. ASSUME NEW n \in 1..Len(ms)
      PROVE  Pruned(ms)[n] \in Entry /\ Id(Pruned(ms)[n]) = Id(ms[n])
  <2>1. Id(ms[n]) \in Int /\ Id(ms[n]) > 0 /\ Pruned(ms)[n] = -Id(ms[n])
    BY IdsType DEF Pruned
  <2> QED BY <2>1 DEF Id, Entry
<1>2. Pruned(ms) = [n \in 1..Len(ms) |-> Pruned(ms)[n]]
  BY DEF Pruned
<1>3. Pruned(ms) \in Seq(Entry) /\ Len(Pruned(ms)) = Len(ms)
  <2>1. PICK g : g = Pruned(ms)
    OBVIOUS
  <2>2. g = [n \in 1..Len(ms) |-> g[n]] /\ \A n \in 1..Len(ms) : g[n] \in Entry
    BY <1>1, <1>2, <2>1
  <2>3. g \in Seq(Entry) /\ Len(g) = Len(ms)
    BY <2>2
  <2> QED BY <2>1, <2>3
<1>4. IdsOf(Pruned(ms)) = IdsOf(ms)
  BY <1>1, <1>3 DEF IdsOf
<1> QED BY <1>1, <1>3, <1>4

\* The ids of messages are positive numbers.
LEMMA Committed ==
  ASSUME SessionsTyped, NEW x \in Holders, Unwritten(x) # {}
  PROVE  LET n == CHOOSE k \in Unwritten(x) : \A j \in Unwritten(x) : k <= j
         IN  /\ n \in Unwritten(x) /\ n \in 1..Len(live[x]) /\ \A j \in Unwritten(x) : n <= j
             /\ Id(live[x][n]) \in Int /\ Id(live[x][n]) > 0
<1>1. live[x] \in Seq(Entry)
  BY DEF SessionsTyped
<1>2. Unwritten(x) \in SUBSET Nat /\ Unwritten(x) \subseteq 1..Len(live[x])
  BY <1>1 DEF Unwritten
<1>3. \E n \in Unwritten(x) : \A j \in Unwritten(x) : n <= j
  BY Zenon, <1>2, Least
<1>4. PICK n : n = CHOOSE k \in Unwritten(x) : \A j \in Unwritten(x) : k <= j
  OBVIOUS
<1>5. n \in Unwritten(x) /\ \A j \in Unwritten(x) : n <= j
  BY Zenon, <1>3, <1>4
<1>6. n \in 1..Len(live[x]) /\ n \in DOMAIN live[x]
  BY <1>1, <1>2, <1>5
<1>7. Id(live[x][n]) \in Int /\ Id(live[x][n]) > 0
  BY <1>1, <1>6, IdsType
<1> QED BY <1>4, <1>5, <1>6, <1>7

LEMMA CompactType ==
  ASSUME NEW ms \in Seq(Entry), NEW m \in Int, m > 0, NEW k \in 0..1, k < Len(ms)
  PROVE  <<m>> \o SubSeq(ms, Len(ms) - k + 1, Len(ms)) \in Seq(Entry)
<1>1. Len(ms) \in Nat /\ Len(ms) - k + 1 \in 1..Len(ms) + 1
  OBVIOUS
<1>2. SubSeq(ms, Len(ms) - k + 1, Len(ms)) \in Seq(Entry)
  BY <1>1, SubSeqProperties
<1>3. <<m>> \in Seq(Entry)
  BY IdsOfOne
<1> QED BY <1>2, <1>3, ConcatProperties

\* Every step keeps the file, its indices and the types.
LEMMA TranscriptGoesOn == TranscriptInv /\ [TranscriptNext]_transcriptVars => TranscriptInv'
<1> SUFFICES ASSUME TranscriptInv, [TranscriptNext]_transcriptVars PROVE TranscriptInv'
  OBVIOUS
<1>0. /\ FileInv /\ SessionsTyped /\ Making
      /\ acked \subseteq Recorded(log)
      /\ \A x \in Holders : live[x] \in Seq(Entry) /\ making[x] \in Checks \cup {None}
      /\ Load(log).active \in Seq(Entry)
  BY DEF TranscriptInv, FileInv, FileTyped, Indexed, SessionsTyped, LoadType
<1>1. CASE UNCHANGED transcriptVars
  <2>1. FileInv'
    BY <1>0, <1>1, AsideStep DEF transcriptVars, memory, history
  <2> QED BY <1>0, <1>1, <2>1 DEF TranscriptInv, SessionsTyped, Making, transcriptVars, memory, history
<1>2. ASSUME NEW x \in Holders, Open(x) PROVE TranscriptInv'
  <2>1. FileInv'
    BY <1>0, <1>2, OpenFile
  <2> QED BY <1>0, <1>2, <2>1 DEF TranscriptInv, SessionsTyped, Making, Open, Projection
<1>3. ASSUME NEW x \in Holders, Answer(x) PROVE TranscriptInv'
  <2>1. FileInv'
    BY <1>0, <1>3, AsideStep DEF Answer, history
  <2>2. Append(live[x], NewId) \in Seq(Entry) /\ Append(live[x], NewId) # <<>>
    <3>1. NewId \in Entry
      BY <1>3, FreshIds DEF Answer, Entry
    <3> QED BY <1>0, <3>1
  <2> QED BY <1>0, <1>3, <2>1, <2>2 DEF TranscriptInv, SessionsTyped, Making, Answer, history
<1>4. ASSUME NEW x \in Holders, Commit(x) PROVE TranscriptInv'
  <2>1. PICK m \in Int : m > 0 /\ AppendMessage(x, m)
    <3>1. Unwritten(x) # {}
      BY <1>4 DEF Commit
    <3> QED BY <1>0, <1>4, <3>1, Committed DEF Commit
  <2>2. FileInv'
    BY <1>0, <1>4, <2>1, AppendMessageStep DEF Commit
  <2>3. /\ UNCHANGED <<row, up, live, making, saved>> /\ turn' \subseteq turn
        /\ apart' \subseteq apart \cup Holders
    BY <1>4, <2>1 DEF Commit, AppendMessage, RecordFails, Diverges
  <2> QED BY <1>0, <2>2, <2>3 DEF TranscriptInv, SessionsTyped, Making
<1>5. ASSUME NEW x \in Holders, EndTurn(x) PROVE TranscriptInv'
  <2>1. IdsOf(live[x]) \subseteq Recorded(log)
    <3>1. IdsOf(live[x]) \subseteq written[x]
      BY <1>5 DEF EndTurn, Unwritten, IdsOf
    <3> QED BY <1>0, <3>1 DEF FileInv, Indexed
  <2>2. FileInv'
    BY <1>0, <1>5, <2>1, AsideStep DEF EndTurn
  <2> QED BY <1>0, <1>5, <2>2 DEF TranscriptInv, SessionsTyped, Making, EndTurn
<1>6. ASSUME NEW x \in Holders, NEW ms \in Seq(Entry), Replace(x, ms) PROVE TranscriptInv'
  <2>1. FileInv'
    BY <1>0, <1>6, ReplaceFile
  <2>2. making[x] = None /\ UNCHANGED <<row, up, turn, making, saved>> /\ live' = [live EXCEPT ![x] = ms]
        /\ apart' \subseteq apart \cup Holders
    BY <1>6 DEF Replace, MayWrite, Ready, Diverges
  <2> QED BY <1>0, <2>1, <2>2 DEF TranscriptInv, SessionsTyped, Making
<1>7. ASSUME NEW x \in Holders, Compact(x) PROVE TranscriptInv'
  <2>1. PICK k \in 0..1 : /\ k < Len(live[x])
                          /\ Replace(x, <<NewId>> \o SubSeq(live[x], Len(live[x]) - k + 1, Len(live[x])))
    BY <1>7 DEF Compact
  <2>2. NewId \in Int /\ NewId > 0
    BY <1>7, FreshIds DEF Compact
  <2> QED BY <1>0, <1>6, <2>1, <2>2, CompactType
<1>8. ASSUME NEW x \in Holders, Prune(x) PROVE TranscriptInv'
  BY <1>0, <1>6, <1>8, PrunedType DEF Prune
<1>9. ASSUME NEW x \in Holders, Clear(x) PROVE TranscriptInv'
  <2>1. FileInv'
    BY <1>0, <1>9, ClearFile
  <2>2. making[x] = None /\ UNCHANGED <<row, up, turn, making, saved>> /\ live' = [live EXCEPT ![x] = <<>>]
        /\ apart' \subseteq apart \cup Holders /\ <<>> \in Seq(Entry)
    BY <1>9 DEF Clear, MayWrite, Ready, Diverges
  <2> QED BY <1>0, <2>1, <2>2 DEF TranscriptInv, SessionsTyped, Making
<1>10. ASSUME NEW x \in Holders, FinishCheckpoint(x) PROVE TranscriptInv'
  <2>1. making[x] \in Checks /\ live[x] # <<>>
    BY <1>0, <1>10 DEF FinishCheckpoint, Making
  <2>2. FileInv'
    BY <1>0, <1>10, <2>1, FinishFile
  <2>3. row' \in [Checks -> Int \cup {None}]
    BY <1>0, <1>10 DEF FinishCheckpoint, SessionsTyped
  <2>4. making' = [making EXCEPT ![x] = None] /\ UNCHANGED <<up, turn, live, saved, apart>>
    BY <1>10 DEF FinishCheckpoint, history
  <2> QED BY <1>0, <2>2, <2>3, <2>4 DEF TranscriptInv, SessionsTyped, Making
<1>11. ASSUME NEW x \in Holders, RecordTokens(x) PROVE TranscriptInv'
  <2>1. FileInv'
    BY <1>0, <1>11, TokensFile
  <2> QED BY <1>0, <1>11, <2>1 DEF TranscriptInv, SessionsTyped, Making, RecordTokens
<1>12. ASSUME NEW x \in Holders, HolderCrashes(x) PROVE TranscriptInv'
  <2>1. FileInv'
    BY <1>0, <1>12, CrashFile
  <2>2. <<>> \in Seq(Entry)
    OBVIOUS
  <2> QED BY <1>0, <1>12, <2>1, <2>2 DEF TranscriptInv, SessionsTyped, Making, HolderCrashes, history
<1>13. ASSUME NEW x \in Holders, NEW m \in MessageIds, Say(x, m) PROVE TranscriptInv'
  <2>1. m \in Int /\ m > 0 /\ m \in Entry
    BY TranscriptAssumption DEF MessageIds, Entry
  <2>2. FileInv'
    BY <1>0, <1>13, <2>1, AppendMessageStep DEF Say
  <2>3. Append(live[x], m) \in Seq(Entry) /\ Append(live[x], m) # <<>>
    <3>1. PICK s, e : s = live[x] /\ e = m
      OBVIOUS
    <3>2. s \in Seq(Entry) /\ e \in Entry
      BY <1>0, <2>1, <3>1
    <3>3. Append(s, e) \in Seq(Entry)
      BY <3>2
    <3>4. Len(Append(s, e)) = Len(s) + 1 /\ Len(s) \in Nat
      BY <3>2
    <3>5. Append(s, e) # <<>>
      BY <3>4
    <3> QED BY <3>1, <3>3, <3>5
  <2>4. /\ UNCHANGED <<row, up, making, saved>> /\ turn' \subseteq turn \cup {x} /\ x \in up
        /\ live' = [live EXCEPT ![x] = Append(@, m)] /\ apart' \subseteq apart \cup Holders
    BY <1>13 DEF Say, AppendMessage, RecordFails, Diverges, MayWrite, Ready
  <2> QED BY <1>0, <2>2, <2>3, <2>4 DEF TranscriptInv, SessionsTyped, Making
<1>14. ASSUME NEW x \in Holders, NEW c \in Checks, StartCheckpoint(x, c) PROVE TranscriptInv'
  <2>1. FileInv'
    BY <1>0, <1>14, AsideStep DEF StartCheckpoint
  <2>2. Id(Last(live[x])) \in Int
    <3>1. Last(live[x]) = live[x][Len(live[x])] /\ Len(live[x]) \in DOMAIN live[x]
      BY <1>0, <1>14 DEF Last, StartCheckpoint
    <3> QED BY <1>0, <3>1, IdsType
  <2> QED BY <1>0, <1>14, <2>1, <2>2
          DEF TranscriptInv, SessionsTyped, Making, StartCheckpoint, MayWrite, Ready
<1>15. ASSUME NEW x \in Holders, NEW c \in Checks, RollBack(x, c) PROVE TranscriptInv'
  <2>1. row[c] \in Int /\ making[x] = None
    BY <1>0, <1>15 DEF RollBack, SessionsTyped, MayWrite, Ready
  <2>2. FileInv'
    BY <1>0, <1>15, <2>1, RollBackFile
  <2>3. Projection(log') \in Seq(Entry)
    BY <2>2 DEF FileInv, FileTyped, LoadType, Projection
  <2>4. /\ UNCHANGED <<row, up, turn, making, saved>> /\ apart' \subseteq apart \cup Holders
        /\ live' \in {live, [live EXCEPT ![x] = Projection(log')]}
    <3>1. live' = [live EXCEPT ![x] = IF row[c] \in IdsOf(Projection(log')) THEN Projection(log') ELSE @]
      BY <1>15 DEF RollBack
    <3>2. live' \in {live, [live EXCEPT ![x] = Projection(log')]}
      BY <1>0, <3>1 DEF SessionsTyped
    <3> QED BY <1>15, <3>2 DEF RollBack, Diverges
  <2> QED BY <1>0, <2>1, <2>2, <2>3, <2>4 DEF TranscriptInv, SessionsTyped, Making
<1> QED BY <1>1, <1>2, <1>3, <1>4, <1>5, <1>7, <1>8, <1>9, <1>10, <1>11, <1>12, <1>13, <1>14, <1>15 DEF TranscriptNext

LEMMA TranscriptBegins == TranscriptInit => TranscriptInv
<1> SUFFICES ASSUME TranscriptInit PROVE TranscriptInv
  OBVIOUS
<1>1. Load(log) = Nothing /\ log = <<>> /\ Len(log) = 0 /\ DOMAIN log = {}
  BY LoadNothing DEF TranscriptInit
<1>2. Nothing \in LoadType
  <2>1. <<>> \in Seq(Entry)
    OBVIOUS
  <2> QED BY <2>1 DEF Nothing, LoadType
<1>3. log \in Seq(RecordType)
  BY <1>1
<1>4. FileTyped
  BY <1>1, <1>2, <1>3 DEF FileTyped, TranscriptInit
<1>5. Indexed
  BY <1>1 DEF Indexed, TranscriptInit, Once, Covers
<1>6. Counted
  <2>1. TokensIn(log, 0) = 0
    BY <1>1, <1>3, Tokens
  <2> QED BY <2>1 DEF Counted, TranscriptInit, Spent
<1>7. SessionsTyped /\ Making
  <2>1. <<>> \in Seq(Entry)
    OBVIOUS
  <2> QED BY <2>1 DEF SessionsTyped, Making, TranscriptInit
<1> QED BY <1>4, <1>5, <1>6, <1>7 DEF TranscriptInv, FileInv

\* A message that append_message took stays in the transcript, none is recorded twice
\* without a clear between, and the token counter loses no record: by the file lock and
\* the scan that precedes each append, whoever wrote in between.
THEOREM MessagesAreKept == TranscriptSpec => []AcknowledgedIsKeptOnce
<1>1. TranscriptInv => AcknowledgedIsKeptOnce
  BY DEF TranscriptInv, FileInv, Indexed, Counted, Once, IsMessage, Spent, AcknowledgedIsKeptOnce
<1> QED BY <1>1, TranscriptBegins, TranscriptGoesOn, PTL DEF TranscriptSpec
-----------------------------------------------------------------------------
\* No message is in a conversation twice.
Distinct(ms) == \A i, j \in DOMAIN ms : Id(ms[i]) = Id(ms[j]) => i = j

\* A conversation begins with what the file has of it, and the rest is not recorded;
\* behind c there is nothing that changes a conversation.
Begins(f, c, ms, k) ==
  /\ k \in 0..Len(ms) /\ Len(Projection(f)) = k /\ \A n \in 1..k : Projection(f)[n] = ms[n]
  /\ \A n \in k + 1..Len(ms) : ms[n] > 0 /\ ms[n] \notin Recorded(f)
  /\ \A n \in c + 1..Len(f) : f[n].type \in {"checkpoint", "meta"}

LEMMA BeginsWhole ==
  ASSUME NEW f \in Seq(RecordType), NEW ms \in Seq(Entry), Projection(f) = ms
  PROVE  Begins(f, Len(f), ms, Len(ms))
BY DEF Begins

LEMMA WholeBegins ==
  ASSUME NEW f \in Seq(RecordType), Load(f) \in LoadType, NEW c, NEW ms \in Seq(Entry),
         Begins(f, c, ms, Len(ms))
  PROVE  Projection(f) = ms
<1>1. PICK p : p = Projection(f)
  OBVIOUS
<1>2. p \in Seq(Entry) /\ Len(p) = Len(ms) /\ \A n \in 1..Len(p) : p[n] = ms[n]
  BY <1>1 DEF Projection, LoadType, Begins
<1>3. p = ms
  BY <1>2, SeqEqual
<1> QED BY <1>1, <1>3

\* What a record that is no part of the conversation changes.
LEMMA LoadAside ==
  ASSUME NEW f \in Seq(RecordType), NEW r \in RecordType, r.type \in {"checkpoint", "meta"}
  PROVE  /\ Projection(Append(f, r)) = Projection(f) /\ Recorded(Append(f, r)) = Recorded(f)
<1>1. Load(Append(f, r)) = Replay(Load(f), r)
  BY LoadAppend
<1>2. Replay(Load(f), r).active = Load(f).active
  BY DEF Replay
<1>3. HeldBy(r) = {}
  BY DEF HeldBy
<1>4. Recorded(Append(f, r)) = Recorded(f)
  BY <1>3, RecordedAppend
<1> QED BY <1>1, <1>2, <1>4 DEF Projection

LEMMA BeginsAside ==
  ASSUME NEW f \in Seq(RecordType), NEW c \in Nat, c <= Len(f), NEW ms \in Seq(Entry), NEW k,
         Begins(f, c, ms, k)
  PROVE  /\ Begins(f, Len(f), ms, k)
         /\ \A r \in RecordType : r.type \in {"checkpoint", "meta"} =>
              Begins(Append(f, r), c, ms, k) /\ Begins(Append(f, r), Len(f) + 1, ms, k)
<1>1. Begins(f, Len(f), ms, k)
  BY DEF Begins
<1>2. ASSUME NEW r \in RecordType, r.type \in {"checkpoint", "meta"}
      PROVE  Begins(Append(f, r), c, ms, k) /\ Begins(Append(f, r), Len(f) + 1, ms, k)
  <2>1. PICK e : e = Append(f, r)
    OBVIOUS
  <2>2. /\ Len(e) = Len(f) + 1 /\ e[Len(f) + 1] = r /\ Len(f) \in Nat
        /\ \A n \in 1..Len(f) : e[n] = f[n]
    BY <2>1
  <2>3. Projection(e) = Projection(f) /\ Recorded(e) = Recorded(f)
    BY <1>2, <2>1, LoadAside
  <2>4. \A n \in c + 1..Len(e) : e[n].type \in {"checkpoint", "meta"}
    BY <1>2, <2>2 DEF Begins
  <2>5. \A n \in Len(e) + 1..Len(e) : e[n].type \in {"checkpoint", "meta"}
    BY <2>2
  <2>6. Begins(e, c, ms, k) /\ Begins(e, Len(e), ms, k)
    BY <2>3, <2>4, <2>5 DEF Begins
  <2> QED BY <2>1, <2>2, <2>6
<1> QED BY <1>1, <1>2

LEMMA BeginsAnswer ==
  ASSUME NEW f \in Seq(RecordType), NEW c, NEW ms \in Seq(Entry), NEW k, Begins(f, c, ms, k),
         NEW m \in Int, m > 0, m \notin Recorded(f)
  PROVE  Begins(f, c, Append(ms, m), k)
<1>1. PICK ns : ns = Append(ms, m)
  OBVIOUS
<1>2. /\ Len(ns) = Len(ms) + 1 /\ ns[Len(ms) + 1] = m /\ Len(ms) \in Nat
      /\ \A n \in 1..Len(ms) : ns[n] = ms[n]
  BY <1>1 DEF Entry
<1>3. Begins(f, c, ns, k)
  BY SMTT(60), <1>2 DEF Begins
<1> QED BY <1>1, <1>3

\* A message that is recorded.
LEMMA LoadMessage ==
  ASSUME NEW f \in Seq(RecordType), Load(f) \in LoadType, NEW m \in Int, m > 0
  PROVE  /\ Projection(Append(f, MessageRecord(m)))
              = IF m \in IdsOf(Projection(f)) THEN Projection(f) ELSE Append(Projection(f), m)
         /\ Recorded(Append(f, MessageRecord(m))) = Recorded(f) \cup {m}
<1>1. PICK r : r = MessageRecord(m)
  OBVIOUS
<1>2. r \in RecordType /\ HeldBy(r) = {m} /\ r.messages[1] = m /\ r.type = "message"
  BY <1>1, RecordTypesOf DEF MessageRecord, Record
<1>3. Load(Append(f, r)) = Replay(Load(f), r)
  BY <1>2, LoadAppend
<1>4. Replay(Load(f), r).active = AddMessage(Load(f), m)
  BY <1>2 DEF Replay, LoadType
<1> QED BY <1>1, <1>2, <1>3, <1>4, RecordedAppend DEF Projection, AddMessage

\* A new message is said, and the file had the whole conversation.
LEMMA BeginsSay ==
  ASSUME NEW f \in Seq(RecordType), Load(f) \in LoadType, NEW c, NEW ms \in Seq(Entry),
         Begins(f, c, ms, Len(ms)), NEW m \in Int, m > 0, m \notin IdsOf(ms)
  PROVE  Begins(Append(f, MessageRecord(m)), Len(f) + 1, Append(ms, m), Len(ms) + 1)
<1>1. PICK e, ns : e = Append(f, MessageRecord(m)) /\ ns = Append(ms, m)
  OBVIOUS
<1>2. e \in Seq(RecordType) /\ Len(e) = Len(f) + 1
  BY <1>1, RecordTypesOf
<1>3. ns \in Seq(Entry) /\ Len(ns) = Len(ms) + 1
  BY <1>1 DEF Entry
<1>4. Projection(f) = ms
  BY WholeBegins
<1>5. Projection(e) = ns
  BY <1>1, <1>4, LoadMessage
<1> QED BY <1>1, <1>2, <1>3, <1>5, BeginsWhole

\* The first message the index does not have is the next one, or is in the part that
\* the file has.
LEMMA BeginsCommit ==
  ASSUME NEW f \in Seq(RecordType), Load(f) \in LoadType, NEW c, NEW ms \in Seq(Entry), Distinct(ms),
         NEW k, Begins(f, c, ms, k), NEW n \in 1..Len(ms), n <= k + 1
  PROVE  \E j : Begins(Append(f, MessageRecord(Id(ms[n]))), Len(f) + 1, ms, j)
<1>1. PICK e, m, p : e = Append(f, MessageRecord(m)) /\ m = Id(ms[n]) /\ p = Projection(f)
  OBVIOUS
<1>2. m \in Int /\ m > 0 /\ k \in Nat /\ Len(ms) \in Nat
  BY <1>1, IdsType DEF Begins
<1>3. e \in Seq(RecordType) /\ Len(e) = Len(f) + 1 /\ Len(f) \in Nat
  BY <1>1, <1>2, RecordTypesOf
<1>4. /\ Recorded(e) = Recorded(f) \cup {m}
      /\ Projection(e) = IF m \in IdsOf(p) THEN p ELSE Append(p, m)
  BY <1>1, <1>2, LoadMessage
<1>5. p \in Seq(Entry) /\ Len(p) = k /\ k <= Len(ms) /\ \A i \in 1..k : p[i] = ms[i]
  BY <1>1 DEF Begins, LoadType, Projection
<1>6. ASSUME NEW i \in 1..Len(ms), i # n PROVE Id(ms[i]) # m
  BY <1>1, <1>6 DEF Distinct
<1>7. ASSUME NEW i \in k + 1..Len(ms) PROVE ms[i] > 0 /\ ms[i] \notin Recorded(f) /\ Id(ms[i]) = ms[i]
  <2>1. i \in 1..Len(ms) /\ ms[i] \in Entry
    BY <1>2
  <2>2. ms[i] > 0 /\ ms[i] \notin Recorded(f)
    BY DEF Begins
  <2> QED BY <2>1, <2>2 DEF Id, Entry
<1>8. CASE n <= k
  <2>1. m \in IdsOf(p)
    BY <1>1, <1>5, <1>8 DEF IdsOf
  <2>2. \A i \in k + 1..Len(ms) : ms[i] > 0 /\ ms[i] \notin Recorded(e)
    BY <1>2, <1>4, <1>6, <1>7, <1>8
  <2>3. Begins(e, Len(e), ms, k)
    BY <1>2, <1>3, <1>4, <1>5, <2>1, <2>2 DEF Begins
  <2> QED BY <1>1, <1>3, <2>3
<1>9. CASE n = k + 1
  <2>1. m \notin IdsOf(p)
    <3>1. ASSUME NEW i \in DOMAIN p PROVE Id(p[i]) # m
      <4>1. i \in 1..Len(ms) /\ i # n /\ p[i] = ms[i]
        BY <1>2, <1>5, <1>9
      <4> QED BY <1>6, <4>1
    <3> QED BY <3>1 DEF IdsOf
  <2>2. m = ms[n]
    BY <1>1, <1>7, <1>9
  <2>3. PICK q : q = Append(p, m)
    OBVIOUS
  <2>4. Len(q) = k + 1 /\ q[k + 1] = m /\ \A i \in 1..k : q[i] = ms[i]
    BY SMTT(60), <1>2, <1>5, <2>3 DEF Entry
  <2>5. \A i \in k + 2..Len(ms) : ms[i] > 0 /\ ms[i] \notin Recorded(e)
    <3> SUFFICES ASSUME NEW i \in k + 2..Len(ms) PROVE ms[i] > 0 /\ ms[i] \notin Recorded(e)
      OBVIOUS
    <3>1. i \in k + 1..Len(ms) /\ i \in 1..Len(ms) /\ i # n
      BY <1>2, <1>9
    <3> QED BY <1>4, <1>6, <1>7, <3>1
  <2>6. Projection(e) = q /\ k + 1 \in 0..Len(ms) /\ (k + 1) + 1 = k + 2
    BY <1>2, <1>4, <1>9, <2>1, <2>3
  <2>7. \A i \in 1..k + 1 : q[i] = ms[i]
    BY <1>2, <1>9, <2>2, <2>4
  <2>8. Begins(e, Len(e), ms, k + 1)
    BY <1>3, <2>4, <2>5, <2>6, <2>7 DEF Begins
  <2> QED BY <1>1, <1>3, <2>8
<1> QED BY <1>2, <1>8, <1>9
-----------------------------------------------------------------------------
LEMMA DistinctAppend ==
  ASSUME NEW ms \in Seq(Entry), Distinct(ms), NEW m \in Entry, Id(m) \notin IdsOf(ms)
  PROVE  Distinct(Append(ms, m))
<1>1. PICK ns : ns = Append(ms, m)
  OBVIOUS
<1>2. /\ Len(ns) = Len(ms) + 1 /\ ns[Len(ms) + 1] = m /\ Len(ms) \in Nat /\ DOMAIN ns = 1..Len(ms) + 1
      /\ \A n \in 1..Len(ms) : ns[n] = ms[n]
  BY <1>1
<1>3. \A n \in 1..Len(ms) : Id(ms[n]) # Id(m)
  BY DEF IdsOf
<1>4. Distinct(ns)
  <2> SUFFICES ASSUME NEW i \in 1..Len(ms) + 1, NEW j \in 1..Len(ms) + 1, Id(ns[i]) = Id(ns[j]) PROVE i = j
    BY <1>2 DEF Distinct
  <2>1. CASE i = Len(ms) + 1 /\ j # Len(ms) + 1
    <3>1. j \in 1..Len(ms)
      BY <1>2, <2>1
    <3> QED BY <1>2, <1>3, <2>1, <3>1
  <2>2. CASE j = Len(ms) + 1 /\ i # Len(ms) + 1
    <3>1. i \in 1..Len(ms)
      BY <1>2, <2>2
    <3> QED BY <1>2, <1>3, <2>2, <3>1
  <2>3. CASE i # Len(ms) + 1 /\ j # Len(ms) + 1
    <3>1. i \in 1..Len(ms) /\ j \in 1..Len(ms)
      BY <1>2, <2>3
    <3> QED BY <1>2, <3>1 DEF Distinct
  <2> QED BY <2>1, <2>2, <2>3
<1> QED BY <1>1, <1>4

LEMMA DistinctPart ==
  ASSUME NEW ms \in Seq(Entry), Distinct(ms), NEW a \in 1..Len(ms) + 1, NEW b \in 0..Len(ms)
  PROVE  /\ Distinct(SubSeq(ms, a, b)) /\ SubSeq(ms, a, b) \in Seq(Entry)
         /\ IdsOf(SubSeq(ms, a, b)) \subseteq IdsOf(ms)
<1>1. PICK ns : ns = SubSeq(ms, a, b)
  OBVIOUS
<1>2. Len(ms) \in Nat /\ \A n \in a..b : ms[n] \in Entry
  OBVIOUS
<1>3. ns \in Seq(Entry) /\ Len(ns) = (IF a <= b THEN b - a + 1 ELSE 0) /\ \A n \in 1..b - a + 1 : ns[n] = ms[a + n - 1]
  BY <1>1, <1>2, SubSeqProperties
<1>4. ASSUME NEW n \in DOMAIN ns PROVE a + n - 1 \in DOMAIN ms /\ n \in Nat /\ ns[n] = ms[a + n - 1]
  BY <1>2, <1>3
<1>5. Distinct(ns)
  <2> SUFFICES ASSUME NEW i \in DOMAIN ns, NEW j \in DOMAIN ns, Id(ns[i]) = Id(ns[j]) PROVE i = j
    BY DEF Distinct
  <2>1. a + i - 1 = a + j - 1
    BY <1>4 DEF Distinct
  <2> QED BY <1>4, <2>1
<1>6. IdsOf(ns) \subseteq IdsOf(ms)
  BY <1>4 DEF IdsOf
<1> QED BY <1>1, <1>3, <1>5, <1>6

LEMMA DistinctPruned ==
  ASSUME NEW ms \in Seq(Entry), Distinct(ms)
  PROVE  Distinct(Pruned(ms))
<1>1. DOMAIN Pruned(ms) = DOMAIN ms
  BY DEF Pruned
<1>2. \A n \in DOMAIN ms : Id(Pruned(ms)[n]) = Id(ms[n])
  BY PrunedType
<1> QED BY <1>1, <1>2 DEF Distinct

\* A summary and a tail of the conversation.
LEMMA DistinctCompact ==
  ASSUME NEW ms \in Seq(Entry), Distinct(ms), NEW m \in Int, m > 0, m \notin IdsOf(ms),
         NEW k \in 0..1, k < Len(ms)
  PROVE  Distinct(<<m>> \o SubSeq(ms, Len(ms) - k + 1, Len(ms)))
<1>1. PICK ns, qs : ns = SubSeq(ms, Len(ms) - k + 1, Len(ms)) /\ qs = <<m>> \o ns
  OBVIOUS
<1>2. Len(ms) - k + 1 \in 1..Len(ms) + 1 /\ Len(ms) \in 0..Len(ms)
  OBVIOUS
<1>3. ns \in Seq(Entry) /\ Distinct(ns) /\ IdsOf(ns) \subseteq IdsOf(ms)
  BY <1>1, <1>2, DistinctPart
<1>4. /\ Len(qs) = Len(ns) + 1 /\ qs[1] = m /\ Len(ns) \in Nat /\ DOMAIN qs = 1..Len(ns) + 1
      /\ \A n \in 2..Len(ns) + 1 : n - 1 \in DOMAIN ns /\ qs[n] = ns[n - 1]
  <2>1. <<m>> \in Seq(Entry) /\ Len(<<m>>) = 1 /\ <<m>>[1] = m
    BY IdsOfOne
  <2>2. /\ qs \in Seq(Entry) /\ Len(qs) = 1 + Len(ns)
        /\ \A n \in 1..1 + Len(ns) : qs[n] = IF n <= 1 THEN <<m>>[n] ELSE ns[n - 1]
    BY <1>1, <1>3, <2>1, ConcatProperties
  <2> QED BY <1>3, <2>1, <2>2
<1>5. Id(m) = m
  BY DEF Id
<1>6. \A n \in DOMAIN ns : Id(ns[n]) # m
  BY <1>3 DEF IdsOf
<1>7. Distinct(qs)
  <2> SUFFICES ASSUME NEW i \in 1..Len(ns) + 1, NEW j \in 1..Len(ns) + 1, Id(qs[i]) = Id(qs[j]) PROVE i = j
    BY <1>4 DEF Distinct
  <2>1. CASE i = 1 /\ j # 1
    BY <1>4, <1>5, <1>6, <2>1
  <2>2. CASE j = 1 /\ i # 1
    BY <1>4, <1>5, <1>6, <2>2
  <2>3. CASE i # 1 /\ j # 1
    <3>1. i - 1 \in DOMAIN ns /\ j - 1 \in DOMAIN ns /\ Id(ns[i - 1]) = Id(ns[j - 1])
      BY <1>4, <2>3
    <3> QED BY <1>3, <3>1 DEF Distinct
  <2> QED BY <2>1, <2>2, <2>3
<1> QED BY <1>1, <1>7

LEMMA UpToParts ==
  ASSUME NEW ms \in Seq(Entry), Distinct(ms), NEW m
  PROVE  /\ Distinct(UpTo(ms, m))
         /\ m \in IdsOf(ms) => m \in IdsOf(UpTo(ms, m))
         /\ m \notin IdsOf(ms) => UpTo(ms, m) = ms
<1>1. CASE m \in IdsOf(ms)
  <2>1. \E n \in DOMAIN ms : Id(ms[n]) = m
    BY <1>1 DEF IdsOf
  <2>2. PICK n : n = CHOOSE k \in DOMAIN ms : Id(ms[k]) = m
    OBVIOUS
  <2>3. n \in 1..Len(ms) /\ Id(ms[n]) = m /\ 1 \in 1..Len(ms) + 1 /\ n \in 0..Len(ms)
    BY <2>1, <2>2
  <2>4. PICK ns : ns = UpTo(ms, m)
    OBVIOUS
  <2>5. ns = SubSeq(ms, 1, n)
    BY <1>1, <2>2, <2>4 DEF UpTo
  <2>6. Distinct(ns)
    BY <2>3, <2>5, DistinctPart
  <2>7. Len(ns) = n /\ ns[n] = ms[n] /\ n \in DOMAIN ns
    BY <2>3, <2>5
  <2>8. m \in IdsOf(ns)
    BY <2>3, <2>7 DEF IdsOf
  <2> QED BY <1>1, <2>4, <2>6, <2>8
<1>2. CASE m \notin IdsOf(ms)
  BY <1>2 DEF UpTo
<1> QED BY <1>1, <1>2
-----------------------------------------------------------------------------
\* What a record makes of the conversation, and of those the checkpoints restore.
Restored(f, r) ==
  IF Load(f).restores[r.check] # None THEN Load(f).restores[r.check] ELSE UpTo(Projection(f), r.value)

LEMMA LoadRecord ==
  ASSUME NEW f \in Seq(RecordType), Load(f) \in LoadType, NEW r \in RecordType
  PROVE  /\ r.type = "boundary" => Projection(Append(f, r)) = r.messages
         /\ r.type = "clear" => Projection(Append(f, r)) = <<>>
         /\ r.type = "rollback" => Projection(Append(f, r)) = Restored(f, r)
         /\ r.type # "checkpoint" => Load(Append(f, r)).restores = Load(f).restores
         /\ r.type = "checkpoint" /\ r.messages # <<>> =>
              Load(Append(f, r)).restores = [Load(f).restores EXCEPT ![r.check] = r.messages]
<1>1. Load(Append(f, r)) = Replay(Load(f), r)
  BY LoadAppend
<1>2. r.type = "boundary" => Replay(Load(f), r).active = r.messages
  BY DEF Replay, LoadType
<1>3. r.type = "clear" => Replay(Load(f), r).active = <<>>
  BY DEF Replay, LoadType
<1>4. r.type = "rollback" => Replay(Load(f), r).active = Restored(f, r)
  BY DEF Replay, LoadType, Restored, Projection
<1>5. r.type # "checkpoint" => Replay(Load(f), r).restores = Load(f).restores
  BY DEF Replay, LoadType
<1>6. r.type = "checkpoint" /\ r.messages # <<>> =>
        Replay(Load(f), r).restores = [Load(f).restores EXCEPT ![r.check] = r.messages]
  BY DEF Replay, LoadType
<1> QED BY <1>1, <1>2, <1>3, <1>4, <1>5, <1>6 DEF Projection

LEMMA DistinctLoad ==
  ASSUME NEW f \in Seq(RecordType), Load(f) \in LoadType, Distinct(Projection(f)),
         NEW r \in RecordType, WellFormed(r), r.type = "boundary" => Distinct(r.messages),
         r.type = "rollback" /\ Load(f).restores[r.check] # None => Distinct(Load(f).restores[r.check])
  PROVE  Distinct(Projection(Append(f, r)))
<1>0. Projection(f) \in Seq(Entry)
  BY DEF Projection, LoadType
<1>1. CASE r.type = "message"
  <2>1. PICK m \in Int : m > 0 /\ r.messages = <<m>>
    BY <1>1 DEF WellFormed, IsMessage
  <2>2. m \in Entry /\ Id(m) = m
    BY <2>1 DEF Entry, Id
  <2>3. Projection(Append(f, r)) = IF m \in IdsOf(Projection(f)) THEN Projection(f) ELSE Append(Projection(f), m)
    <3>1. Load(Append(f, r)) = Replay(Load(f), r) /\ r.messages[1] = m
      BY <2>1, LoadAppend
    <3>2. Replay(Load(f), r).active = AddMessage(Load(f), m)
      BY <1>1, <3>1 DEF Replay, LoadType
    <3> QED BY <3>1, <3>2 DEF Projection, AddMessage
  <2> QED BY <1>0, <2>2, <2>3, DistinctAppend
<1>2. CASE r.type = "clear"
  <2>1. Distinct(<<>>)
    BY DEF Distinct
  <2> QED BY <1>2, <2>1, LoadRecord
<1>3. CASE r.type = "rollback"
  <2>1. Distinct(UpTo(Projection(f), r.value))
    BY <1>0, UpToParts
  <2> QED BY <1>3, <2>1, LoadRecord DEF Restored
<1>4. CASE r.type \in {"checkpoint", "meta"}
  BY <1>4, LoadAside
<1>5. CASE r.type = "boundary"
  BY <1>5, LoadRecord
<1> QED BY <1>1, <1>2, <1>3, <1>4, <1>5 DEF RecordType, RecordTypes
-----------------------------------------------------------------------------
\* The checkpoints whose marker is in the file, and what they restore.
HasMarker(f, c) == \E n \in DOMAIN f : f[n].type = "checkpoint" /\ f[n].check = c

Snapshots ==
  \A c \in Checks :
    /\ Load(log).restores[c] = IF HasMarker(log, c) THEN saved[c] ELSE None
    /\ HasMarker(log, c) \/ row[c] # None => saved[c] # None
    /\ saved[c] # None => saved[c] # <<>> /\ Distinct(saved[c])
    /\ row[c] # None => row[c] = Id(Last(saved[c]))

Pending == \A x \in Holders : making[x] # None => saved[making[x]] = live[x]

LEMMA MarkedAppend ==
  ASSUME NEW f \in Seq(RecordType), NEW r \in RecordType, NEW c
  PROVE  HasMarker(Append(f, r), c) <=> HasMarker(f, c) \/ (r.type = "checkpoint" /\ r.check = c)
<1>1. PICK e : e = Append(f, r)
  OBVIOUS
<1>2. DOMAIN e = DOMAIN f \cup {Len(f) + 1} /\ e[Len(f) + 1] = r /\ \A n \in DOMAIN f : e[n] = f[n]
  BY <1>1
<1>3. HasMarker(e, c) <=> HasMarker(f, c) \/ (r.type = "checkpoint" /\ r.check = c)
  BY <1>2 DEF HasMarker
<1> QED BY <1>1, <1>3

LEMMA NoneIsNoConversation == None \notin Seq(Entry)
<1> SUFFICES ASSUME None \in Seq(Entry) PROVE FALSE
  OBVIOUS
<1>1. \A n \in 1..Len(None) : None[n] \in Int
  BY DEF Entry
<1>2. None \in Seq(Int)
  BY <1>1
<1> QED BY <1>2, TranscriptAssumption

LEMMA SnapshotsKept ==
  ASSUME FileInv, Snapshots, UNCHANGED <<row, saved>>,
         \/ log' = log
         \/ \E r \in RecordType : log' = Append(log, r) /\ r.type # "checkpoint"
  PROVE  Snapshots'
<1>1. log \in Seq(RecordType) /\ Load(log) \in LoadType
  BY DEF FileInv, FileTyped
<1>2. CASE log' = log
  BY <1>2 DEF Snapshots
<1>3. ASSUME NEW r \in RecordType, log' = Append(log, r), r.type # "checkpoint" PROVE Snapshots'
  <2>1. PICK f, e : f = log /\ e = log'
    OBVIOUS
  <2>2. Load(e).restores = Load(f).restores
    BY <1>1, <1>3, <2>1, LoadRecord
  <2>3. \A c \in Checks : HasMarker(e, c) <=> HasMarker(f, c)
    BY <1>1, <1>3, <2>1, MarkedAppend
  <2>4. \A c \in Checks : /\ Load(e).restores[c] = IF HasMarker(e, c) THEN saved[c] ELSE None
                          /\ HasMarker(e, c) \/ row[c] # None => saved[c] # None
    BY <2>1, <2>2, <2>3 DEF Snapshots
  <2> QED BY <2>1, <2>4 DEF Snapshots
<1> QED BY <1>2, <1>3
-----------------------------------------------------------------------------
\* Conversations hold no message twice, in memory and in the file.
Faithful == Distinct(Projection(log)) /\ \A x \in Holders : Distinct(live[x])

\* A holder that writes alone has what the file has, and what it did not commit yet.
Follows(x) ==
  \E k \in Nat : Begins(log, cursor[x], live[x], k) /\ (x \notin turn => k = Len(live[x]))
Following == \A x \in up \ apart : Follows(x)

BackInv == TranscriptInv /\ Faithful /\ Snapshots /\ Pending /\ Following

\* The facts about the types that the steps below start from.
LEMMA BackTypes ==
  ASSUME TranscriptInv
  PROVE  /\ FileInv /\ log \in Seq(RecordType) /\ Load(log) \in LoadType /\ Len(log) \in Nat
         /\ Projection(log) \in Seq(Entry) /\ up \subseteq Holders /\ turn \subseteq up
         /\ \A n \in DOMAIN log : WellFormed(log[n])
         /\ \A x \in Holders : /\ live[x] \in Seq(Entry) /\ written[x] \subseteq Recorded(log)
                               /\ cursor[x] \in Nat /\ cursor[x] <= Len(log)
         /\ cursor \in [Holders -> Nat] /\ live \in [Holders -> Seq(Entry)]
BY DEF TranscriptInv, FileInv, FileTyped, Indexed, SessionsTyped, LoadType, Projection

\* What the others append, as long as it is no part of the conversation.
Aside == \/ log' = log
         \/ \E r \in RecordType : log' = Append(log, r) /\ r.type \in {"checkpoint", "meta"}

LEMMA FollowsOn ==
  ASSUME TranscriptInv, NEW y \in Holders, Follows(y), Aside, live'[y] = live[y],
         cursor'[y] \in {cursor[y], Len(log')}, y \notin turn' => y \notin turn
  PROVE  Follows(y)'
<1>1. PICK k \in Nat : Begins(log, cursor[y], live[y], k) /\ (y \notin turn => k = Len(live[y]))
  BY DEF Follows
<1>2. /\ log \in Seq(RecordType) /\ Len(log) \in Nat
      /\ live[y] \in Seq(Entry) /\ cursor[y] \in Nat /\ cursor[y] <= Len(log)
  BY BackTypes
<1>3. /\ Begins(log, Len(log), live[y], k)
      /\ \A r \in RecordType : r.type \in {"checkpoint", "meta"} =>
           /\ Begins(Append(log, r), cursor[y], live[y], k)
           /\ Begins(Append(log, r), Len(log) + 1, live[y], k)
  BY <1>1, <1>2, BeginsAside
<1>4. \A r \in RecordType : Len(Append(log, r)) = Len(log) + 1
  BY <1>2
<1>5. Begins(log', cursor'[y], live[y], k)
  BY <1>1, <1>3, <1>4 DEF Aside
<1> QED BY <1>1, <1>5 DEF Follows

LEMMA FollowsWhole ==
  ASSUME TranscriptInv', NEW x \in Holders, Projection(log') = live'[x], cursor'[x] = Len(log')
  PROVE  Follows(x)'
<1>1. log' \in Seq(RecordType) /\ live'[x] \in Seq(Entry)
  BY DEF TranscriptInv, FileInv, FileTyped, SessionsTyped
<1>2. Begins(log', cursor'[x], live'[x], Len(live'[x])) /\ Len(live'[x]) \in Nat
  BY <1>1, BeginsWhole
<1> QED BY <1>2 DEF Follows

\* One holder moves: the others no longer write alone, or what changes is aside.
LEMMA FollowingAlone ==
  ASSUME TranscriptInv', NEW x \in Holders, Holders \ {x} \subseteq apart',
         x \in up' \ apart' => Follows(x)'
  PROVE  Following'
<1>1. up' \subseteq Holders
  BY DEF TranscriptInv, SessionsTyped
<1>2. \A y \in up' \ apart' : y = x
  BY <1>1
<1> QED BY <1>2 DEF Following

LEMMA FollowingBeside ==
  ASSUME TranscriptInv, Following, NEW x \in Holders, Aside, x \in up' \ apart' => Follows(x)',
         up' \subseteq up \cup {x}, apart \subseteq apart' \cup {x},
         \A y \in Holders : y # x => /\ live'[y] = live[y] /\ cursor'[y] = cursor[y]
                                     /\ (y \notin turn' => y \notin turn)
  PROVE  Following'
<1>1. ASSUME NEW y \in up', y \notin apart', y # x PROVE Follows(y)'
  <2>1. y \in up \ apart /\ y \in Holders
    BY <1>1, BackTypes
  <2>2. Follows(y)
    BY <2>1 DEF Following
  <2> QED BY <1>1, <2>1, <2>2, FollowsOn
<1> QED BY <1>1 DEF Following

\* There is nothing to scan for a holder that writes alone.
LEMMA NothingToScan ==
  ASSUME TranscriptInv, NEW x \in Holders, Follows(x)
  PROVE  Scan(x).ids = written[x]
<1>1. \A n \in cursor[x] + 1..Len(log) : HeldBy(log[n]) = {}
  BY DEF Follows, Begins, HeldBy
<1> QED BY <1>1, ScanKnows, BackTypes

\* Once a conversation is committed, the file has it.
LEMMA Settled ==
  ASSUME TranscriptInv, NEW x \in Holders, Follows(x), Unwritten(x) = {}
  PROVE  Projection(log) = live[x] /\ Begins(log, cursor[x], live[x], Len(live[x]))
<1>1. PICK k \in Nat : Begins(log, cursor[x], live[x], k)
  BY DEF Follows
<1>2. /\ live[x] \in Seq(Entry) /\ written[x] \subseteq Recorded(log)
      /\ log \in Seq(RecordType) /\ Load(log) \in LoadType
  BY BackTypes
<1>3. k = Len(live[x])
  <2> SUFFICES ASSUME k # Len(live[x]) PROVE FALSE
    OBVIOUS
  <2>1. k + 1 \in k + 1..Len(live[x]) /\ k + 1 \in DOMAIN live[x]
    BY <1>1, <1>2 DEF Begins
  <2>2. live[x][k + 1] > 0 /\ live[x][k + 1] \notin Recorded(log) /\ live[x][k + 1] \in Int
    BY <1>1, <1>2, <2>1 DEF Begins, Entry
  <2>3. Id(live[x][k + 1]) = live[x][k + 1]
    BY <2>2 DEF Id
  <2>4. k + 1 \in Unwritten(x)
    BY <1>2, <2>1, <2>2, <2>3 DEF Unwritten
  <2> QED BY <2>4
<1> QED BY <1>1, <1>2, <1>3, WholeBegins

\* The file's conversation stays free of doubles.
LEMMA ProjectionKept ==
  ASSUME TranscriptInv, Faithful, Snapshots,
         \/ log' = log
         \/ \E r \in RecordType : /\ log' = Append(log, r) /\ WellFormed(r)
                                  /\ r.type = "boundary" => Distinct(r.messages)
  PROVE  Distinct(Projection(log'))
<1>1. CASE log' = log
  BY <1>1 DEF Faithful
<1>2. ASSUME NEW r \in RecordType, log' = Append(log, r), WellFormed(r),
             r.type = "boundary" => Distinct(r.messages)
      PROVE  Distinct(Projection(log'))
  <2>1. ASSUME r.type = "rollback", Load(log).restores[r.check] # None
        PROVE  Distinct(Load(log).restores[r.check])
    <3>1. r.check \in Checks
      BY <1>2, <2>1 DEF WellFormed
    <3> QED BY <2>1, <3>1 DEF Snapshots
  <2> QED BY <1>2, <2>1, DistinctLoad, BackTypes DEF Faithful
<1> QED BY <1>1, <1>2
-----------------------------------------------------------------------------
\* append_message, for a holder that does not have the message: it is there, or is
\* written, or fails.
LEMMA AppendCases ==
  ASSUME TranscriptInv, NEW x \in Holders, NEW m, AppendMessage(x, m), m \notin written[x]
  PROVE  /\ \A y \in Holders : y # x => cursor'[y] = cursor[y]
         /\ \/ m \in Scan(x).ids /\ log' = log /\ apart' = apart
            \/ /\ log' = Append(log, MessageRecord(m)) /\ apart' = apart \cup (Holders \ {x})
               /\ cursor'[x] = Len(log) + 1 /\ failures' = failures
            \/ log' = log /\ apart' = apart \cup {x}
BY BackTypes DEF AppendMessage, RecordFails, Appended, Scanned, Diverges

\* The conversation and the index after a message of a turn.
LEMMA MessageBack ==
  ASSUME BackInv, TranscriptInv', NEW x \in Holders, NEW m \in Int, m > 0, AppendMessage(x, m),
         m \notin written[x], UNCHANGED <<row, up, making, saved>>,
         \A y \in Holders : y # x => live'[y] = live[y] /\ (y \notin turn' => y \notin turn),
         \A y \in Holders : Distinct(live'[y]), \A y \in Holders : making[y] # None => live'[y] = live[y],
         x \in up \ apart /\ log' = Append(log, MessageRecord(m)) /\ cursor'[x] = Len(log) + 1
           /\ failures' = failures => Follows(x)'
  PROVE  BackInv'
<1>0. TranscriptInv /\ Faithful /\ Snapshots /\ Pending /\ Following
  BY DEF BackInv
<1>1. PICK r : r = MessageRecord(m)
  OBVIOUS
<1>2. r \in RecordType /\ WellFormed(r) /\ r.type = "message"
  BY <1>1, RecordTypesOf DEF MessageRecord, Record
<1>3. log' = log \/ log' = Append(log, r)
  BY <1>0, <1>1, AppendCases
<1>4. Distinct(Projection(log'))
  BY <1>0, <1>2, <1>3, ProjectionKept
<1>5. Faithful'
  BY <1>4 DEF Faithful
<1>6. Snapshots'
  BY <1>0, <1>2, <1>3, SnapshotsKept, BackTypes
<1>7. Pending'
  BY <1>0 DEF Pending
<1>8. Following'
  <2>1. CASE log' = log /\ m \in Scan(x).ids /\ apart' = apart
    <3>1. ASSUME x \in up' \ apart' PROVE FALSE
      <4>1. Follows(x)
        BY <1>0, <2>1, <3>1 DEF Following
      <4> QED BY <1>0, <2>1, <4>1, NothingToScan
    <3> QED BY <1>0, <2>1, <3>1, AppendCases, FollowingBeside DEF Aside
  <2>2. CASE log' = log /\ apart' = apart \cup {x}
    BY <1>0, <2>2, AppendCases, FollowingBeside DEF Aside
  <2>3. CASE /\ log' = Append(log, MessageRecord(m)) /\ apart' = apart \cup (Holders \ {x})
             /\ cursor'[x] = Len(log) + 1 /\ failures' = failures
    <3>1. x \in up' \ apart' => Follows(x)'
      BY <2>3
    <3> QED BY <2>3, <3>1, FollowingAlone
  <2> QED BY <1>0, <2>1, <2>2, <2>3, AppendCases
<1> QED BY <1>5, <1>6, <1>7, <1>8 DEF BackInv

LEMMA SayBack ==
  ASSUME BackInv, TranscriptInv', NEW x \in Holders, NEW m \in MessageIds, Say(x, m)
  PROVE  BackInv'
<1>0. TranscriptInv /\ Faithful /\ Snapshots /\ Pending /\ Following
  BY DEF BackInv
<1>1. /\ m \in Int /\ m > 0 /\ m \in Entry /\ Id(m) = m /\ m \notin written[x] /\ m \notin IdsOf(live[x])
      /\ making[x] = None /\ AppendMessage(x, m) /\ UNCHANGED <<row, up, making, saved>>
  BY TranscriptAssumption DEF MessageIds, Entry, Id, Say, MayWrite, Ready
<1>2. PICK ms : ms = live[x]
  OBVIOUS
<1>3. /\ live' = [live EXCEPT ![x] = Append(ms, m)] /\ ms \in Seq(Entry) /\ live \in [Holders -> Seq(Entry)]
      /\ Distinct(ms) /\ log \in Seq(RecordType) /\ Load(log) \in LoadType
  BY <1>0, <1>2, BackTypes DEF Say, Faithful
<1>4. Distinct(Append(ms, m))
  BY <1>1, <1>2, <1>3, DistinctAppend
<1>5. live'[x] = Append(ms, m) /\ \A y \in Holders : y # x => live'[y] = live[y]
  BY <1>3
<1>6. \A y \in Holders : Distinct(live'[y])
  BY <1>0, <1>4, <1>5 DEF Faithful
<1>7. \A y \in Holders : y # x => (y \notin turn' => y \notin turn)
  BY DEF Say
<1>8. ASSUME x \in up \ apart, log' = Append(log, MessageRecord(m)), cursor'[x] = Len(log) + 1
      PROVE  Follows(x)'
  <2>1. PICK k \in Nat : Begins(log, cursor[x], ms, k) /\ k = Len(ms)
    BY <1>0, <1>2, <1>8 DEF Following, Follows, Say
  <2>2. Begins(Append(log, MessageRecord(m)), Len(log) + 1, Append(ms, m), Len(ms) + 1)
    BY <1>1, <1>2, <1>3, <2>1, BeginsSay
  <2>3. Len(Append(ms, m)) = Len(ms) + 1 /\ Len(ms) \in Nat
    <3>1. PICK e : e = m
      OBVIOUS
    <3>2. Len(Append(ms, e)) = Len(ms) + 1 /\ Len(ms) \in Nat
      BY <1>3
    <3> QED BY <3>1, <3>2
  <2>4. Begins(log', cursor'[x], live'[x], Len(ms) + 1)
    BY <1>5, <1>8, <2>2
  <2> QED BY <1>5, <2>3, <2>4 DEF Follows
<1> QED BY <1>1, <1>5, <1>6, <1>7, <1>8, MessageBack

LEMMA CommitBack ==
  ASSUME BackInv, TranscriptInv', NEW x \in Holders, Commit(x)
  PROVE  BackInv'
<1>0. TranscriptInv /\ Faithful /\ Snapshots /\ Pending /\ Following
  BY DEF BackInv
<1>1. PICK ms, n : /\ ms = live[x] /\ n = CHOOSE k \in Unwritten(x) : \A j \in Unwritten(x) : k <= j
  OBVIOUS
<1>2. /\ Unwritten(x) # {} /\ AppendMessage(x, Id(ms[n])) /\ UNCHANGED <<row, up, making, saved, live>>
      /\ x \in turn
  BY <1>1 DEF Commit
<1>3. /\ n \in Unwritten(x) /\ n \in 1..Len(ms) /\ \A j \in Unwritten(x) : n <= j
      /\ Id(ms[n]) \in Int /\ Id(ms[n]) > 0
  BY <1>0, <1>1, <1>2, Committed DEF TranscriptInv
<1>4. /\ Id(ms[n]) \notin written[x] /\ ms \in Seq(Entry) /\ Distinct(ms) /\ written[x] \subseteq Recorded(log)
      /\ log \in Seq(RecordType) /\ Load(log) \in LoadType
  BY <1>0, <1>1, <1>3, BackTypes DEF Unwritten, Faithful
<1>5. \A y \in Holders : Distinct(live'[y]) /\ live'[y] = live[y]
  BY <1>0, <1>2 DEF Faithful
<1>6. \A y \in Holders : y # x => (y \notin turn' => y \notin turn)
  BY DEF Commit
<1>7. ASSUME x \in up \ apart, log' = Append(log, MessageRecord(Id(ms[n]))), cursor'[x] = Len(log) + 1,
             failures' = failures
      PROVE  Follows(x)'
  <2>1. PICK k \in Nat : Begins(log, cursor[x], ms, k)
    BY <1>0, <1>1, <1>7 DEF Following, Follows
  <2>2. n <= k + 1
    <3> SUFFICES ASSUME ~(n <= k + 1) PROVE FALSE
      OBVIOUS
    <3>1. k + 1 \in k + 1..Len(ms) /\ k + 1 \in DOMAIN ms
      BY <1>3, <1>4
    <3>2. ms[k + 1] > 0 /\ ms[k + 1] \notin Recorded(log) /\ ms[k + 1] \in Int
      BY <1>4, <2>1, <3>1 DEF Begins, Entry
    <3>3. Id(ms[k + 1]) = ms[k + 1]
      BY <3>2 DEF Id
    <3>4. k + 1 \in Unwritten(x)
      BY <1>1, <1>4, <3>1, <3>2, <3>3 DEF Unwritten
    <3> QED BY <1>3, <3>4
  <2>3. PICK j : Begins(Append(log, MessageRecord(Id(ms[n]))), Len(log) + 1, ms, j)
    BY <1>3, <1>4, <2>1, <2>2, BeginsCommit
  <2>4. j \in Nat /\ Begins(log', cursor'[x], live'[x], j)
    <3>1. j \in Nat
      BY <2>3 DEF Begins
    <3> QED BY <1>1, <1>5, <1>7, <2>3, <3>1
  <2>5. x \in turn'
    BY <1>2, <1>7 DEF Commit
  <2> QED BY <2>4, <2>5 DEF Follows
<1> QED BY <1>2, <1>3, <1>4, <1>5, <1>6, <1>7, MessageBack
-----------------------------------------------------------------------------
LEMMA OpenBack ==
  ASSUME BackInv, TranscriptInv', NEW x \in Holders, Open(x)
  PROVE  BackInv'
<1>0. TranscriptInv /\ Faithful /\ Snapshots /\ Pending /\ Following /\ Making
  BY DEF BackInv, TranscriptInv
<1>1. /\ UNCHANGED <<log, row, turn, making, saved>> /\ x \notin up /\ up' = up \cup {x} /\ apart' = apart \ {x}
      /\ live' = [live EXCEPT ![x] = Projection(log)] /\ cursor' = [cursor EXCEPT ![x] = Len(log)]
  BY DEF Open
<1>2. live'[x] = Projection(log') /\ cursor'[x] = Len(log')
  BY <1>0, <1>1, BackTypes
<1>3. \A y \in Holders : y # x => live'[y] = live[y] /\ cursor'[y] = cursor[y]
  BY <1>1
<1>4. Faithful'
  BY <1>0, <1>1, <1>2, <1>3 DEF Faithful
<1>5. Snapshots'
  BY <1>0, <1>1, SnapshotsKept, BackTypes
<1>6. Pending'
  BY <1>0, <1>1, <1>3 DEF Pending, Making
<1>7. Following'
  BY <1>0, <1>1, <1>2, <1>3, FollowsWhole, FollowingBeside DEF Aside
<1> QED BY <1>4, <1>5, <1>6, <1>7 DEF BackInv

LEMMA AnswerBack ==
  ASSUME BackInv, TranscriptInv', NEW x \in Holders, Answer(x)
  PROVE  BackInv'
<1>0. TranscriptInv /\ Faithful /\ Snapshots /\ Pending /\ Following
  BY DEF BackInv
<1>1. PICK ms, m : ms = live[x] /\ m = NewId
  OBVIOUS
<1>2. /\ UNCHANGED <<log, row, up, turn, cursor, making, saved, apart>> /\ x \in turn /\ making[x] = None
      /\ live' = [live EXCEPT ![x] = Append(ms, m)] /\ Fresh # {}
  BY <1>1 DEF Answer, Ready, history
<1>3. /\ m \in Int /\ m > 0 /\ m \notin IdsOf(ms) /\ m \in Entry /\ Id(m) = m
      /\ \A n \in DOMAIN log : m \notin IdsOf(log[n].messages)
  BY <1>1, <1>2, FreshIds DEF Entry, Id
<1>4. m \notin Recorded(log)
  BY <1>3, RecordedBy DEF HeldBy
<1>5. ms \in Seq(Entry) /\ Distinct(ms) /\ live \in [Holders -> Seq(Entry)] /\ log \in Seq(RecordType)
  BY <1>0, <1>1, BackTypes DEF Faithful
<1>6. live'[x] = Append(ms, m) /\ \A y \in Holders : y # x => live'[y] = live[y]
  BY <1>2, <1>5
<1>7. Distinct(Append(ms, m))
  BY <1>3, <1>5, DistinctAppend
<1>8. Faithful'
  BY <1>0, <1>2, <1>6, <1>7 DEF Faithful
<1>9. Snapshots'
  BY <1>0, <1>2, SnapshotsKept, BackTypes
<1>10. Pending'
  BY <1>0, <1>2, <1>6 DEF Pending
<1>11. ASSUME x \in up' \ apart' PROVE Follows(x)'
  <2>1. PICK k \in Nat : Begins(log, cursor[x], ms, k)
    BY <1>0, <1>1, <1>2, <1>11 DEF Following, Follows
  <2>2. Begins(log, cursor[x], Append(ms, m), k)
    BY <1>3, <1>4, <1>5, <2>1, BeginsAnswer
  <2>3. Begins(log', cursor'[x], live'[x], k)
    BY <1>2, <1>6, <2>2
  <2> QED BY <1>2, <2>3 DEF Follows
<1>12. Following'
  BY <1>0, <1>2, <1>6, <1>11, FollowingBeside DEF Aside
<1> QED BY <1>8, <1>9, <1>10, <1>12 DEF BackInv

LEMMA EndTurnBack ==
  ASSUME BackInv, TranscriptInv', NEW x \in Holders, EndTurn(x)
  PROVE  BackInv'
<1>0. TranscriptInv /\ Faithful /\ Snapshots /\ Pending /\ Following
  BY DEF BackInv
<1>1. /\ UNCHANGED <<log, row, up, live, cursor, making, saved, apart>> /\ turn' = turn \ {x}
      /\ Unwritten(x) = {}
  BY DEF EndTurn
<1>2. Faithful'
  BY <1>0, <1>1 DEF Faithful
<1>3. Snapshots'
  BY <1>0, <1>1, SnapshotsKept, BackTypes
<1>4. Pending'
  BY <1>0, <1>1 DEF Pending
<1>5. ASSUME x \in up' \ apart' PROVE Follows(x)'
  <2>1. Follows(x)
    BY <1>0, <1>1, <1>5 DEF Following
  <2>2. Begins(log', cursor'[x], live'[x], Len(live'[x])) /\ Len(live'[x]) \in Nat
    BY <1>0, <1>1, <2>1, Settled, BackTypes
  <2> QED BY <2>2 DEF Follows
<1>6. Following'
  BY <1>0, <1>1, <1>5, FollowingBeside DEF Aside
<1> QED BY <1>2, <1>3, <1>4, <1>6 DEF BackInv

LEMMA ReplaceBack ==
  ASSUME BackInv, TranscriptInv', NEW x \in Holders, NEW ms \in Seq(Entry), Distinct(ms), Replace(x, ms)
  PROVE  BackInv'
<1>0. TranscriptInv /\ Faithful /\ Snapshots /\ Pending /\ Following
  BY DEF BackInv
<1>1. UNCHANGED <<row, up, turn, making, saved>> /\ live' = [live EXCEPT ![x] = ms] /\ making[x] = None
  BY DEF Replace, MayWrite, Ready
<1>2. live'[x] = ms /\ \A y \in Holders : y # x => live'[y] = live[y]
  BY <1>0, <1>1, BackTypes
<1>3. PICK r : r = Boundary(ms)
  OBVIOUS
<1>4. r \in RecordType /\ WellFormed(r) /\ r.type = "boundary" /\ r.messages = ms
  BY <1>3, RecordTypesOf DEF Boundary, Record
<1>5. \/ /\ log' = Append(log, r) /\ cursor' = [cursor EXCEPT ![x] = Len(log) + 1]
         /\ apart' = apart \cup (Holders \ {x})
      \/ log' = log /\ cursor' = [cursor EXCEPT ![x] = Len(log)] /\ apart' = apart \cup {x}
  BY <1>3 DEF Replace, Appended, Scanned, Diverges
<1>6. Distinct(Projection(log'))
  BY <1>0, <1>4, <1>5, ProjectionKept
<1>7. Faithful'
  BY <1>0, <1>2, <1>6 DEF Faithful
<1>8. Snapshots'
  BY <1>0, <1>1, <1>4, <1>5, SnapshotsKept, BackTypes
<1>9. Pending'
  BY <1>0, <1>1, <1>2 DEF Pending
<1>10. CASE /\ log' = Append(log, r) /\ cursor' = [cursor EXCEPT ![x] = Len(log) + 1]
            /\ apart' = apart \cup (Holders \ {x})
  <2>1. Projection(log') = ms /\ cursor'[x] = Len(log')
    <3>1. log \in Seq(RecordType) /\ Load(log) \in LoadType /\ cursor \in [Holders -> Nat]
      BY <1>0, BackTypes
    <3>2. Projection(log') = ms
      BY <1>4, <1>10, <3>1, LoadRecord
    <3>3. Len(log') = Len(log) + 1 /\ cursor'[x] = Len(log) + 1
      BY <1>4, <1>10, <3>1
    <3> QED BY <3>2, <3>3
  <2>2. Follows(x)'
    BY <1>2, <2>1, FollowsWhole
  <2>3. Following'
    BY <1>10, <2>2, FollowingAlone
  <2> QED BY <1>7, <1>8, <1>9, <2>3 DEF BackInv
<1>11. CASE log' = log /\ cursor' = [cursor EXCEPT ![x] = Len(log)] /\ apart' = apart \cup {x}
  <2>1. Following'
    BY <1>0, <1>1, <1>2, <1>11, FollowingBeside DEF Aside
  <2> QED BY <1>7, <1>8, <1>9, <2>1 DEF BackInv
<1> QED BY <1>5, <1>10, <1>11

LEMMA ClearBack ==
  ASSUME BackInv, TranscriptInv', NEW x \in Holders, Clear(x)
  PROVE  BackInv'
<1>0. TranscriptInv /\ Faithful /\ Snapshots /\ Pending /\ Following
  BY DEF BackInv
<1>1. PICK r : r = ClearBoundary
  OBVIOUS
<1>2. r \in RecordType /\ WellFormed(r) /\ r.type = "clear"
  BY <1>1, RecordTypesOf DEF ClearBoundary, Record
<1>3. /\ UNCHANGED <<row, up, turn, making, saved>> /\ live' = [live EXCEPT ![x] = <<>>] /\ making[x] = None
      /\ log' = Append(log, r) /\ cursor' = [cursor EXCEPT ![x] = Len(log) + 1]
      /\ apart' = apart \cup (Holders \ {x})
  BY <1>1 DEF Clear, MayWrite, Ready, Appended, Diverges
<1>4. live'[x] = <<>> /\ \A y \in Holders : y # x => live'[y] = live[y]
  BY <1>0, <1>3, BackTypes
<1>5. Distinct(<<>>)
  BY DEF Distinct
<1>6. Distinct(Projection(log'))
  BY <1>0, <1>2, <1>3, ProjectionKept
<1>7. Faithful'
  BY <1>0, <1>4, <1>5, <1>6 DEF Faithful
<1>8. Snapshots'
  BY <1>0, <1>2, <1>3, SnapshotsKept, BackTypes
<1>9. Pending'
  BY <1>0, <1>3, <1>4 DEF Pending
<1>10. Projection(log') = <<>> /\ cursor'[x] = Len(log')
  <2>1. log \in Seq(RecordType) /\ Load(log) \in LoadType /\ cursor \in [Holders -> Nat]
    BY <1>0, BackTypes
  <2>2. Projection(log') = <<>>
    BY <1>2, <1>3, <2>1, LoadRecord
  <2>3. Len(log') = Len(log) + 1 /\ cursor'[x] = Len(log) + 1
    BY <1>2, <1>3, <2>1
  <2> QED BY <2>2, <2>3
<1>11. Following'
  BY <1>3, <1>4, <1>10, FollowsWhole, FollowingAlone
<1> QED BY <1>7, <1>8, <1>9, <1>11 DEF BackInv

LEMMA StartCheckpointBack ==
  ASSUME BackInv, TranscriptInv', NEW x \in Holders, NEW c \in Checks, StartCheckpoint(x, c)
  PROVE  BackInv'
<1>0. TranscriptInv /\ Faithful /\ Snapshots /\ Pending /\ Following
  BY DEF BackInv
<1>1. /\ UNCHANGED <<log, up, turn, live, cursor, apart>> /\ live[x] # <<>> /\ saved[c] = None
      /\ row' = [row EXCEPT ![c] = Id(Last(live[x]))] /\ making' = [making EXCEPT ![x] = c]
      /\ saved' = [saved EXCEPT ![c] = live[x]]
  BY DEF StartCheckpoint
<1>2. /\ live[x] \in Seq(Entry) /\ live[x] # None /\ Distinct(live[x])
      /\ \A y \in Holders : live[y] # None
      /\ row \in [Checks -> Int \cup {None}] /\ making \in [Holders -> Checks \cup {None}]
      /\ saved \in [Checks -> Seq(Entry) \cup {None}]
  BY <1>0, BackTypes, NoneIsNoConversation DEF Faithful, TranscriptInv, SessionsTyped
<1>3. Faithful'
  BY <1>0, <1>1 DEF Faithful
<1>4. ~HasMarker(log, c) /\ row[c] = None
  BY <1>0, <1>1 DEF Snapshots
<1>5. saved'[c] = live[x] /\ row'[c] = Id(Last(live[x])) /\ making'[x] = c
  BY <1>1, <1>2
<1>6. \A d \in Checks : d # c => saved'[d] = saved[d] /\ row'[d] = row[d]
  BY <1>1, <1>2
<1>7. ASSUME NEW d \in Checks
      PROVE  /\ Load(log').restores[d] = IF HasMarker(log', d) THEN saved'[d] ELSE None
             /\ HasMarker(log', d) \/ row'[d] # None => saved'[d] # None
             /\ saved'[d] # None => saved'[d] # <<>> /\ Distinct(saved'[d])
             /\ row'[d] # None => row'[d] = Id(Last(saved'[d]))
  <2>1. CASE d = c
    BY <1>0, <1>1, <1>2, <1>4, <1>5, <2>1 DEF Snapshots
  <2>2. CASE d # c
    BY <1>0, <1>1, <1>6, <2>2 DEF Snapshots
  <2> QED BY <2>1, <2>2
<1>8. Snapshots'
  BY <1>7 DEF Snapshots
<1>9. ASSUME NEW y \in Holders, making'[y] # None PROVE saved'[making'[y]] = live'[y]
  <2>1. CASE y = x
    BY <1>1, <1>5, <2>1
  <2>2. CASE y # x
    <3>1. making'[y] = making[y] /\ saved[making[y]] = live[y] /\ making[y] \in Checks
      BY <1>0, <1>1, <1>2, <1>9, <2>2 DEF Pending
    <3>2. making[y] # c
      BY <1>1, <1>2, <3>1
    <3> QED BY <1>1, <1>6, <3>1, <3>2
  <2> QED BY <2>1, <2>2
<1>10. Pending'
  BY <1>9 DEF Pending
<1>11. Following'
  BY <1>0, <1>1 DEF Following, Follows
<1> QED BY <1>3, <1>8, <1>10, <1>11 DEF BackInv

LEMMA FinishCheckpointBack ==
  ASSUME BackInv, TranscriptInv', NEW x \in Holders, FinishCheckpoint(x)
  PROVE  BackInv'
<1>0. TranscriptInv /\ Faithful /\ Snapshots /\ Pending /\ Following
  BY DEF BackInv
<1>1. PICK c, ms : c = making[x] /\ ms = live[x]
  OBVIOUS
<1>2. /\ UNCHANGED <<up, turn, live, saved, apart>> /\ c # None /\ making' = [making EXCEPT ![x] = None]
  BY <1>1 DEF FinishCheckpoint, history
<1>3. /\ c \in Checks /\ ms \in Seq(Entry) /\ ms # <<>> /\ saved[c] = ms /\ ms # None
      /\ row \in [Checks -> Int \cup {None}] /\ making \in [Holders -> Checks \cup {None}]
      /\ log \in Seq(RecordType) /\ Load(log) \in LoadType /\ cursor \in [Holders -> Nat]
  BY <1>0, <1>1, <1>2, BackTypes, NoneIsNoConversation DEF TranscriptInv, SessionsTyped, Making, Pending
<1>4. PICK r : r = Checkpoint(c, ms)
  OBVIOUS
<1>5. r \in RecordType /\ WellFormed(r) /\ r.type = "checkpoint" /\ r.check = c /\ r.messages = ms
  BY <1>3, <1>4, RecordTypesOf DEF Checkpoint, Record
<1>6. \/ log' = Append(log, r) /\ row' = row /\ cursor' = [cursor EXCEPT ![x] = Len(log) + 1]
      \/ /\ log' = log /\ cursor' = [cursor EXCEPT ![x] = Len(log)]
         /\ row' \in {row, [row EXCEPT ![c] = None]}
  BY <1>1, <1>4 DEF FinishCheckpoint, Appended, Scanned
<1>7. Distinct(Projection(log'))
  BY <1>0, <1>5, <1>6, ProjectionKept
<1>8. Faithful'
  BY <1>0, <1>2, <1>7 DEF Faithful
<1>9. Pending'
  <2>1. \A y \in Holders : making'[y] # None => making'[y] = making[y]
    BY <1>2, <1>3
  <2> QED BY <1>0, <1>2, <2>1 DEF Pending
<1>10. Following'
  <2>1. Aside
    BY <1>5, <1>6 DEF Aside
  <2>2. Len(log') = Len(log) + 1 \/ log' = log
    BY <1>3, <1>5, <1>6
  <2>3. cursor'[x] = Len(log') /\ \A y \in Holders : y # x => cursor'[y] = cursor[y]
    <3>1. CASE log' = Append(log, r) /\ cursor' = [cursor EXCEPT ![x] = Len(log) + 1]
      <4>1. Len(log') = Len(log) + 1
        BY <1>3, <1>5, <3>1
      <4> QED BY <1>3, <3>1, <4>1
    <3>2. CASE log' = log /\ cursor' = [cursor EXCEPT ![x] = Len(log)]
      BY <1>3, <3>2
    <3> QED BY <1>6, <3>1, <3>2
  <2>4. x \in up' \ apart' => Follows(x)'
    BY <1>0, <1>2, <2>1, <2>3, FollowsOn DEF Following
  <2> QED BY <1>0, <1>2, <2>1, <2>3, <2>4, FollowingBeside
<1>11. CASE log' = Append(log, r) /\ row' = row
  <2>1. PICK f, e : f = log /\ e = log'
    OBVIOUS
  <2>2. Load(e).restores = [Load(f).restores EXCEPT ![c] = ms]
    <3>1. f \in Seq(RecordType) /\ Load(f) \in LoadType /\ e = Append(f, r)
      BY <1>3, <1>11, <2>1
    <3>2. Load(Append(f, r)).restores = [Load(f).restores EXCEPT ![r.check] = r.messages]
      BY <1>3, <1>5, <3>1, LoadRecord
    <3> QED BY <1>5, <3>1, <3>2
  <2>3. \A d : HasMarker(e, d) <=> HasMarker(f, d) \/ d = c
    BY <1>3, <1>5, <1>11, <2>1, MarkedAppend
  <2>4. Load(f).restores \in [Checks -> Seq(Entry) \cup {None}]
    BY <1>3, <2>1 DEF LoadType
  <2>5. \A d \in Checks : /\ Load(e).restores[d] = IF HasMarker(e, d) THEN saved[d] ELSE None
                          /\ HasMarker(e, d) \/ row[d] # None => saved[d] # None
    BY <1>0, <1>3, <2>1, <2>2, <2>3, <2>4 DEF Snapshots
  <2>6. Snapshots'
    BY <1>0, <1>2, <1>11, <2>1, <2>5 DEF Snapshots
  <2> QED BY <1>8, <1>9, <1>10, <2>6 DEF BackInv
<1>12. CASE log' = log /\ row' \in {row, [row EXCEPT ![c] = None]}
  <2>1. \A d \in Checks : row'[d] # None => row'[d] = row[d]
    BY <1>3, <1>12
  <2>2. Snapshots'
    BY <1>0, <1>2, <1>12, <2>1 DEF Snapshots
  <2> QED BY <1>8, <1>9, <1>10, <2>2 DEF BackInv
<1> QED BY <1>6, <1>11, <1>12

LEMMA RecordTokensBack ==
  ASSUME BackInv, TranscriptInv', NEW x \in Holders, RecordTokens(x)
  PROVE  BackInv'
<1>0. TranscriptInv /\ Faithful /\ Snapshots /\ Pending /\ Following
  BY DEF BackInv
<1>1. PICK r : r = Metadata(Scan(x).tokens + 1)
  OBVIOUS
<1>2. r \in RecordType /\ WellFormed(r) /\ r.type = "meta"
  <2>1. Scan(x).tokens + 1 \in Int
    BY <1>0, ScanKnows, BackTypes, SpentTypes
  <2> QED BY <1>1, <2>1, RecordTypesOf DEF Metadata, Record
<1>3. /\ UNCHANGED <<row, up, turn, live, making, saved, apart>>
      /\ \/ log' = Append(log, r) /\ cursor' = [cursor EXCEPT ![x] = Len(log) + 1]
         \/ log' = log /\ cursor' = [cursor EXCEPT ![x] = Len(log)]
  BY <1>1 DEF RecordTokens, Appended, Scanned
<1>4. Distinct(Projection(log'))
  BY <1>0, <1>2, <1>3, ProjectionKept
<1>5. Faithful'
  BY <1>0, <1>3, <1>4 DEF Faithful
<1>6. Snapshots'
  BY <1>0, <1>2, <1>3, SnapshotsKept, BackTypes
<1>7. Pending'
  BY <1>0, <1>3 DEF Pending
<1>8. Following'
  <2>1. Aside
    BY <1>2, <1>3 DEF Aside
  <2>2. cursor'[x] = Len(log') /\ \A y \in Holders : y # x => cursor'[y] = cursor[y]
    <3>0. log \in Seq(RecordType) /\ cursor \in [Holders -> Nat]
      BY <1>0, BackTypes
    <3>1. CASE log' = Append(log, r) /\ cursor' = [cursor EXCEPT ![x] = Len(log) + 1]
      <4>1. Len(log') = Len(log) + 1
        BY <1>2, <3>0, <3>1
      <4> QED BY <3>0, <3>1, <4>1
    <3>2. CASE log' = log /\ cursor' = [cursor EXCEPT ![x] = Len(log)]
      BY <3>0, <3>2
    <3> QED BY <1>3, <3>1, <3>2
  <2>3. x \in up' \ apart' => Follows(x)'
    BY <1>0, <1>3, <2>1, <2>2, FollowsOn DEF Following
  <2> QED BY <1>0, <1>3, <2>1, <2>2, <2>3, FollowingBeside
<1> QED BY <1>5, <1>6, <1>7, <1>8 DEF BackInv

LEMMA CrashBack ==
  ASSUME BackInv, TranscriptInv', NEW x \in Holders, HolderCrashes(x)
  PROVE  BackInv'
<1>0. TranscriptInv /\ Faithful /\ Snapshots /\ Pending /\ Following
  BY DEF BackInv
<1>1. /\ UNCHANGED <<log, row, saved, apart>> /\ up' = up \ {x} /\ turn' = turn \ {x}
      /\ live' = [live EXCEPT ![x] = <<>>] /\ cursor' = [cursor EXCEPT ![x] = 0]
      /\ making' = [making EXCEPT ![x] = None]
  BY DEF HolderCrashes, history
<1>2. /\ live \in [Holders -> Seq(Entry)] /\ cursor \in [Holders -> Nat]
      /\ making \in [Holders -> Checks \cup {None}]
  BY <1>0, BackTypes DEF TranscriptInv, SessionsTyped
<1>3. /\ live'[x] = <<>> /\ making'[x] = None
      /\ \A y \in Holders : y # x => /\ live'[y] = live[y] /\ cursor'[y] = cursor[y] /\ making'[y] = making[y]
                                     /\ (y \notin turn' => y \notin turn)
  BY <1>1, <1>2
<1>4. Distinct(<<>>)
  BY DEF Distinct
<1>5. Faithful'
  BY <1>0, <1>1, <1>3, <1>4 DEF Faithful
<1>6. Snapshots'
  BY <1>0, <1>1, SnapshotsKept, BackTypes
<1>7. Pending'
  BY <1>0, <1>1, <1>3 DEF Pending
<1>8. Following'
  BY <1>0, <1>1, <1>3, FollowingBeside DEF Aside
<1> QED BY <1>5, <1>6, <1>7, <1>8 DEF BackInv

\* The checkpoint's last message is in the conversation that the rollback leaves, or
\* the conversation is as it was.
LEMMA RollBackRestores ==
  ASSUME BackInv, NEW c \in Checks, NEW m, row[c] = m, row[c] # None,
         NEW r \in RecordType, r.type = "rollback", r.check = c, r.value = m
  PROVE  LET p == Projection(Append(log, r))
         IN  /\ HasMarker(log, c) => p = saved[c] /\ m \in IdsOf(p)
             /\ m \notin IdsOf(p) => p = Projection(log)
             /\ Recorded(Append(log, r)) = Recorded(log)
<1>0. TranscriptInv /\ Faithful /\ Snapshots
  BY DEF BackInv
<1>1. PICK p, ms : p = Projection(Append(log, r)) /\ ms = Projection(log)
  OBVIOUS
<1>2. /\ log \in Seq(RecordType) /\ Load(log) \in LoadType /\ ms \in Seq(Entry) /\ Distinct(ms)
      /\ saved \in [Checks -> Seq(Entry) \cup {None}]
  BY <1>0, <1>1, BackTypes DEF Faithful, TranscriptInv, SessionsTyped
<1>3. p = IF Load(log).restores[c] # None THEN Load(log).restores[c] ELSE UpTo(ms, m)
  BY <1>1, <1>2, LoadRecord DEF Restored
<1>4. Recorded(Append(log, r)) = Recorded(log)
  <2>1. HeldBy(r) = {}
    BY DEF HeldBy
  <2> QED BY ZenonT(60), <1>2, <2>1, RecordedAppend
<1>5. CASE HasMarker(log, c)
  <2>1. /\ Load(log).restores[c] = saved[c] /\ saved[c] # None /\ saved[c] # <<>>
        /\ m = Id(Last(saved[c])) /\ saved[c] \in Seq(Entry)
    BY <1>0, <1>2, <1>5 DEF Snapshots
  <2>2. Len(saved[c]) \in DOMAIN saved[c] /\ Last(saved[c]) = saved[c][Len(saved[c])]
    BY <2>1 DEF Last
  <2>3. m \in IdsOf(saved[c])
    BY <2>1, <2>2, IdsType
  <2> QED BY <1>1, <1>3, <1>4, <2>1, <2>3
<1>6. CASE ~HasMarker(log, c)
  <2>1. p = UpTo(ms, m)
    BY <1>0, <1>3, <1>6 DEF Snapshots
  <2> QED BY <1>1, <1>2, <1>4, <1>6, <2>1, UpToParts
<1> QED BY <1>5, <1>6

LEMMA RollBackBack ==
  ASSUME BackInv, TranscriptInv', NEW x \in Holders, NEW c \in Checks, RollBack(x, c)
  PROVE  /\ BackInv'
         /\ HasMarker(log, c) => live'[x] = saved[c]
         /\ Last(log').check = c /\ \A y \in Holders : y # x => cursor'[y] = cursor[y]
<1>0. TranscriptInv /\ Faithful /\ Snapshots /\ Pending /\ Following
  BY DEF BackInv
<1>1. PICK m, r : m = row[c] /\ r = Rollback(c, m)
  OBVIOUS
<1>2. m \in Int /\ row[c] # None
  BY <1>0, <1>1 DEF RollBack, TranscriptInv, SessionsTyped
<1>3. r \in RecordType /\ WellFormed(r) /\ r.type = "rollback" /\ r.check = c /\ r.value = m
  BY <1>1, <1>2, RecordTypesOf DEF Rollback, Record
<1>4. PICK p : p = Projection(log')
  OBVIOUS
<1>5. /\ UNCHANGED <<row, up, turn, making, saved>> /\ making[x] = None
      /\ log' = Append(log, r) /\ cursor' = [cursor EXCEPT ![x] = Len(log) + 1]
      /\ apart' = apart \cup (Holders \ {x})
      /\ live' = [live EXCEPT ![x] = IF m \in IdsOf(p) THEN p ELSE @]
  BY <1>1, <1>4 DEF RollBack, MayWrite, Ready, Appended, Diverges
<1>6. /\ log \in Seq(RecordType) /\ cursor \in [Holders -> Nat] /\ live \in [Holders -> Seq(Entry)]
      /\ \A y \in Holders : Distinct(live[y])
  BY <1>0, BackTypes DEF Faithful
<1>7. /\ live'[x] = (IF m \in IdsOf(p) THEN p ELSE live[x])
      /\ \A y \in Holders : y # x => live'[y] = live[y] /\ cursor'[y] = cursor[y]
  BY <1>5, <1>6
<1>8. Len(log') = Len(log) + 1 /\ cursor'[x] = Len(log') /\ Last(log') = r
  <2>1. Len(log') = Len(log) + 1 /\ log'[Len(log) + 1] = r
    BY <1>3, <1>5, <1>6
  <2>2. cursor'[x] = Len(log) + 1
    BY <1>5, <1>6
  <2> QED BY <2>1, <2>2 DEF Last
<1>9. /\ HasMarker(log, c) => p = saved[c] /\ m \in IdsOf(p)
      /\ m \notin IdsOf(p) => p = Projection(log)
      /\ Recorded(log') = Recorded(log)
  BY <1>1, <1>2, <1>3, <1>4, <1>5, RollBackRestores
<1>10. Distinct(p)
  BY <1>0, <1>3, <1>4, <1>5, ProjectionKept
<1>11. Faithful'
  BY <1>4, <1>6, <1>7, <1>10 DEF Faithful
<1>12. Snapshots'
  BY <1>0, <1>3, <1>5, SnapshotsKept, BackTypes
<1>13. Pending'
  BY <1>0, <1>5, <1>7 DEF Pending
<1>14. Following'
  <2>1. CASE m \in IdsOf(p)
    <3>1. Follows(x)'
      BY <1>4, <1>7, <1>8, <2>1, FollowsWhole
    <3> QED BY <1>5, <3>1, FollowingAlone
  <2>2. CASE m \notin IdsOf(p)
    <3>1. ASSUME x \in up' \ apart' PROVE Follows(x)'
      <4>1. PICK k \in Nat : Begins(log, cursor[x], live[x], k) /\ (x \notin turn => k = Len(live[x]))
        BY <1>0, <1>5, <3>1 DEF Following, Follows
      <4>2. live'[x] = live[x] /\ Projection(log') = Projection(log)
        BY <1>4, <1>7, <1>9, <2>2
      <4>3. \A n \in cursor'[x] + 1..Len(log') : log'[n].type \in {"checkpoint", "meta"}
        <5>1. Len(log) \in Nat /\ cursor'[x] = Len(log) + 1 /\ Len(log') = Len(log) + 1
          BY <1>6, <1>8
        <5> QED BY <5>1
      <4>4. Begins(log', cursor'[x], live'[x], k)
        BY <1>9, <4>1, <4>2, <4>3 DEF Begins
      <4> QED BY <1>5, <4>1, <4>2, <4>4 DEF Follows
    <3> QED BY <1>5, <3>1, FollowingAlone
  <2> QED BY <2>1, <2>2
<1>15. BackInv'
  BY <1>11, <1>12, <1>13, <1>14 DEF BackInv
<1> QED BY <1>3, <1>7, <1>8, <1>9, <1>15
-----------------------------------------------------------------------------
\* What CheckpointsHold says of a step.
Restoring ==
  \A x \in Holders, c \in Checks :
    (/\ Len(log') = Len(log) + 1 /\ Last(log').type = "rollback"
     /\ Last(log').check = c /\ cursor'[x] = Len(log') /\ x \in up
     /\ cursor'[x] # cursor[x]
     /\ \E n \in DOMAIN log : log[n].type = "checkpoint" /\ log[n].check = c)
      => live'[x] = saved[c]

\* The other steps append no rollback.
LEMMA NoRollback ==
  ASSUME TranscriptInv, \/ log' = log
                        \/ \E r \in RecordType : log' = Append(log, r) /\ r.type # "rollback"
  PROVE  Restoring
<1>0. log \in Seq(RecordType) /\ Len(log) \in Nat
  BY BackTypes
<1>1. CASE log' = log
  <2>1. Len(log') # Len(log) + 1
    BY <1>0, <1>1
  <2> QED BY <2>1 DEF Restoring
<1>2. ASSUME NEW r \in RecordType, log' = Append(log, r), r.type # "rollback" PROVE Restoring
  <2>1. Last(log') = r
    <3>1. Len(log') = Len(log) + 1 /\ log'[Len(log) + 1] = r
      BY <1>0, <1>2
    <3> QED BY <3>1 DEF Last
  <2> QED BY <1>2, <2>1 DEF Restoring
<1> QED BY <1>1, <1>2

LEMMA RollBackHolds ==
  ASSUME BackInv, TranscriptInv', NEW x \in Holders, NEW c \in Checks, RollBack(x, c)
  PROVE  Restoring
<1>1. /\ HasMarker(log, c) => live'[x] = saved[c]
      /\ Last(log').check = c /\ \A y \in Holders : y # x => cursor'[y] = cursor[y]
  BY RollBackBack
<1> QED BY <1>1 DEF Restoring, HasMarker

LEMMA MessageRestores ==
  ASSUME TranscriptInv, NEW x \in Holders, NEW m \in Int, m > 0, AppendMessage(x, m)
  PROVE  Restoring
<1>1. MessageRecord(m) \in RecordType /\ MessageRecord(m).type # "rollback"
  BY RecordTypesOf DEF MessageRecord, Record
<1>2. log' = log \/ log' = Append(log, MessageRecord(m))
  BY DEF AppendMessage, RecordFails, Appended
<1> QED BY <1>1, <1>2, NoRollback

LEMMA ReplaceRestores ==
  ASSUME TranscriptInv, NEW x \in Holders, NEW ms \in Seq(Entry), Replace(x, ms)
  PROVE  Restoring
<1>1. Boundary(ms) \in RecordType /\ Boundary(ms).type # "rollback"
  BY RecordTypesOf DEF Boundary, Record
<1>2. log' = log \/ log' = Append(log, Boundary(ms))
  BY DEF Replace, Appended
<1> QED BY <1>1, <1>2, NoRollback

LEMMA ClearRestores ==
  ASSUME TranscriptInv, NEW x \in Holders, Clear(x)
  PROVE  Restoring
<1>1. ClearBoundary \in RecordType /\ ClearBoundary.type # "rollback"
  BY RecordTypesOf DEF ClearBoundary, Record
<1>2. log' = Append(log, ClearBoundary)
  BY DEF Clear, Appended
<1> QED BY <1>1, <1>2, NoRollback

LEMMA FinishRestores ==
  ASSUME TranscriptInv, NEW x \in Holders, FinishCheckpoint(x)
  PROVE  Restoring
<1>1. PICK c, ms : c = making[x] /\ ms = live[x]
  OBVIOUS
<1>2. c \in Checks /\ ms \in Seq(Entry) /\ ms # <<>>
  BY <1>1, BackTypes DEF TranscriptInv, SessionsTyped, Making, FinishCheckpoint
<1>3. Checkpoint(c, ms) \in RecordType /\ Checkpoint(c, ms).type # "rollback"
  BY <1>2, RecordTypesOf DEF Checkpoint, Record
<1>4. log' = log \/ log' = Append(log, Checkpoint(c, ms))
  BY <1>1 DEF FinishCheckpoint, Appended
<1> QED BY <1>3, <1>4, NoRollback

LEMMA TokensRestores ==
  ASSUME TranscriptInv, NEW x \in Holders, RecordTokens(x)
  PROVE  Restoring
<1>1. PICK n : n = Scan(x).tokens + 1
  OBVIOUS
<1>2. n \in Int
  BY <1>1, ScanKnows, BackTypes, SpentTypes
<1>3. Metadata(n) \in RecordType /\ Metadata(n).type # "rollback"
  BY <1>2, RecordTypesOf DEF Metadata, Record
<1>4. log' = log \/ log' = Append(log, Metadata(n))
  BY <1>1 DEF RecordTokens, Appended
<1> QED BY <1>3, <1>4, NoRollback
-----------------------------------------------------------------------------
\* Every step keeps what the file has of the conversations, and a rollback restores
\* what the checkpoint saved.
LEMMA BackStep ==
  BackInv /\ [TranscriptNext]_transcriptVars => BackInv' /\ Restoring
<1> SUFFICES ASSUME BackInv, [TranscriptNext]_transcriptVars PROVE BackInv' /\ Restoring
  OBVIOUS
<1>0. TranscriptInv /\ TranscriptInv' /\ Faithful
  BY TranscriptGoesOn DEF BackInv
<1>1. CASE UNCHANGED transcriptVars
  <2>1. Faithful' /\ Snapshots' /\ Pending' /\ Following'
    BY <1>1 DEF BackInv, Faithful, Snapshots, Pending, Following, Follows, transcriptVars, memory, history
  <2>2. Restoring
    BY <1>0, <1>1, NoRollback DEF transcriptVars
  <2> QED BY <1>0, <2>1, <2>2 DEF BackInv
<1>2. ASSUME NEW x \in Holders, Open(x) PROVE BackInv' /\ Restoring
  BY <1>0, <1>2, OpenBack, NoRollback DEF Open
<1>3. ASSUME NEW x \in Holders, Answer(x) PROVE BackInv' /\ Restoring
  BY <1>0, <1>3, AnswerBack, NoRollback DEF Answer
<1>4. ASSUME NEW x \in Holders, Commit(x) PROVE BackInv' /\ Restoring
  <2>1. PICK m \in Int : m > 0 /\ AppendMessage(x, m)
    <3>1. Unwritten(x) # {}
      BY <1>4 DEF Commit
    <3> QED BY <1>0, <1>4, <3>1, Committed DEF Commit, TranscriptInv
  <2> QED BY <1>0, <1>4, <2>1, CommitBack, MessageRestores
<1>5. ASSUME NEW x \in Holders, EndTurn(x) PROVE BackInv' /\ Restoring
  BY <1>0, <1>5, EndTurnBack, NoRollback DEF EndTurn
<1>6. ASSUME NEW x \in Holders, Compact(x) PROVE BackInv' /\ Restoring
  <2>1. PICK k \in 0..1 : /\ k < Len(live[x])
                          /\ Replace(x, <<NewId>> \o SubSeq(live[x], Len(live[x]) - k + 1, Len(live[x])))
    BY <1>6 DEF Compact
  <2>2. NewId \in Int /\ NewId > 0 /\ NewId \notin IdsOf(live[x])
    BY <1>6, FreshIds DEF Compact
  <2>3. live[x] \in Seq(Entry) /\ Distinct(live[x])
    BY <1>0, BackTypes DEF Faithful
  <2>4. PICK ms : ms = <<NewId>> \o SubSeq(live[x], Len(live[x]) - k + 1, Len(live[x]))
    OBVIOUS
  <2>5. ms \in Seq(Entry) /\ Distinct(ms)
    BY <2>1, <2>2, <2>3, <2>4, CompactType, DistinctCompact
  <2> QED BY <1>0, <2>1, <2>4, <2>5, ReplaceBack, ReplaceRestores
<1>7. ASSUME NEW x \in Holders, Prune(x) PROVE BackInv' /\ Restoring
  <2>1. live[x] \in Seq(Entry) /\ Distinct(live[x])
    BY <1>0, BackTypes DEF Faithful
  <2>2. Pruned(live[x]) \in Seq(Entry) /\ Distinct(Pruned(live[x]))
    BY <2>1, PrunedType, DistinctPruned
  <2> QED BY <1>0, <1>7, <2>2, ReplaceBack, ReplaceRestores DEF Prune
<1>8. ASSUME NEW x \in Holders, Clear(x) PROVE BackInv' /\ Restoring
  BY <1>0, <1>8, ClearBack, ClearRestores
<1>9. ASSUME NEW x \in Holders, FinishCheckpoint(x) PROVE BackInv' /\ Restoring
  BY <1>0, <1>9, FinishCheckpointBack, FinishRestores
<1>10. ASSUME NEW x \in Holders, RecordTokens(x) PROVE BackInv' /\ Restoring
  BY <1>0, <1>10, RecordTokensBack, TokensRestores
<1>11. ASSUME NEW x \in Holders, HolderCrashes(x) PROVE BackInv' /\ Restoring
  BY <1>0, <1>11, CrashBack, NoRollback DEF HolderCrashes
<1>12. ASSUME NEW x \in Holders, NEW m \in MessageIds, Say(x, m) PROVE BackInv' /\ Restoring
  <2>1. m \in Int /\ m > 0 /\ AppendMessage(x, m)
    BY <1>12, TranscriptAssumption DEF MessageIds, Say
  <2> QED BY <1>0, <1>12, <2>1, SayBack, MessageRestores
<1>13. ASSUME NEW x \in Holders, NEW c \in Checks, StartCheckpoint(x, c) PROVE BackInv' /\ Restoring
  BY <1>0, <1>13, StartCheckpointBack, NoRollback DEF StartCheckpoint
<1>14. ASSUME NEW x \in Holders, NEW c \in Checks, RollBack(x, c) PROVE BackInv' /\ Restoring
  BY <1>0, <1>14, RollBackBack, RollBackHolds
<1> QED BY <1>1, <1>2, <1>3, <1>4, <1>5, <1>6, <1>7, <1>8, <1>9, <1>10, <1>11, <1>12, <1>13, <1>14 DEF TranscriptNext

LEMMA BackInit == TranscriptInit => BackInv
<1> SUFFICES ASSUME TranscriptInit PROVE BackInv
  OBVIOUS
<1>1. TranscriptInv
  BY TranscriptBegins
<1>2. Load(log) = Nothing /\ DOMAIN log = {}
  BY LoadNothing DEF TranscriptInit
<1>3. Faithful
  BY <1>2 DEF Faithful, TranscriptInit, Nothing, Projection, Distinct
<1>4. Snapshots
  BY <1>2 DEF Snapshots, HasMarker, Nothing, TranscriptInit
<1>5. Pending /\ Following
  BY DEF Pending, Following, TranscriptInit
<1> QED BY <1>1, <1>3, <1>4, <1>5 DEF BackInv

LEMMA BackResumes == BackInv => ResumeMatchesLive
BY Settled, BackTypes DEF BackInv, Following, ResumeMatchesLive

\* The transcript of a session that wrote alone and without failures loads to the
\* conversation it has in memory once that is committed, and a rollback to a checkpoint
\* restores what was live when it was made (load_messages, rollback_to_checkpoint).
THEOREM TheFileGivesBack == TranscriptSpec => TranscriptGivesBack
<1>1. BackInv /\ [TranscriptNext]_transcriptVars =>
        [\A x \in Holders, c \in Checks :
           (/\ Len(log') = Len(log) + 1 /\ Last(log').type = "rollback"
            /\ Last(log').check = c /\ cursor'[x] = Len(log') /\ x \in up
            /\ cursor'[x] # cursor[x]
            /\ \E n \in DOMAIN log : log[n].type = "checkpoint" /\ log[n].check = c)
             => live'[x] = saved[c]]_transcriptVars
  BY BackStep DEF Restoring
<1>2. BackInv /\ [TranscriptNext]_transcriptVars => BackInv'
  BY BackStep
<1>3. TranscriptSpec => []ResumeMatchesLive
  BY <1>2, BackInit, BackResumes, PTL DEF TranscriptSpec
<1>4. TranscriptSpec => CheckpointsHold
  BY <1>1, <1>2, BackInit, PTL DEF TranscriptSpec, CheckpointsHold
<1> QED BY <1>3, <1>4 DEF TranscriptGivesBack
=============================================================================
