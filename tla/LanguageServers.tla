--------------------------- MODULE LanguageServers ---------------------------
(***************************************************************************)
(* The language servers of a session (core/lsp): the manager that starts   *)
(* one server per project and language, the client that keeps a document   *)
(* in step with it, and the tools that use them.  A Read touches the file  *)
(* in the background; an Edit touches it and waits a few seconds, all      *)
(* told, for what the server says of it (core/lsp/diagnostics.py).         *)
(*                                                                         *)
(* All calls are about one file, of which a call sees the servers of one   *)
(* key.  Servers are numbered in the order of the tasks that start them.   *)
(* A server is a foreign program: it may answer, refuse, exit, and stop    *)
(* reading or answering at any time.  The file is read in another process, *)
(* so the answers of two reads may come in either order.  Hover,           *)
(* definition and references are requests like `shutdown', and are not     *)
(* told from it; the requests that a server makes are left out.            *)
(***************************************************************************)
EXTENDS Integers, Sequences, FiniteSets, SequencesExt

CONSTANTS
  Keys,      \* root and server id
  Calls,     \* tool calls, each made once
  Edits,     \* those that edit the file
  MaxServers \* bound: servers that are started

BoundsOK ==
  /\ Keys # {} /\ IsFiniteSet(Calls) /\ Edits \subseteq Calls
  /\ 0 \notin Keys /\ MaxServers \in Nat /\ 0 \notin Calls

VARIABLES
  disk,      \* the text on disk, by number
  calls,     \* where each call is, the server it uses and the text it has read
  misled,    \* history: edits that reported diagnostics of an older text
  servers,   \* the servers, each with its start task and its client
  doomed,    \* start tasks a CancelledError is on its way to
  clients,   \* _clients: the server under a key, 0 if none
  broken,    \* _broken
  spawning,  \* _spawning: the start task under a key, 0 if none
  closing,   \* how far shutdown() of the manager is
  left,      \* keys it has not come to
  talks,     \* the server it talks to, 0 if none
  fence      \* history: servers started before shutdown()

tools   == <<disk, calls, misled>>
manager == <<clients, broken, spawning>>
ending  == <<closing, left, talks, fence>>
vars    == <<tools, servers, doomed, manager, ending>>

Starting == {"queued", "launching", "asking"}
Over == {"done", "timed out", "cancelled"}

\* round 1: the call touches the file; round 2: it collects diagnostics.
Call(k, stage, round, uses, text) ==
  [key |-> k, at |-> stage, round |-> round, uses |-> uses, text |-> text]

\* version 0: the document is not open.  queue: who has or waits for the
\* writer lock, with the message.  read: the documents written to the server.
\* told: the last of them it has published diagnostics for.  lost: a message of
\* a cancelled call was never written.
Server(k) ==
  [key |-> k, at |-> "queued", process |-> "none", version |-> 0, queue |-> <<>>,
   read |-> <<>>, told |-> 0, cut |-> FALSE, lost |-> FALSE]

Init ==
  /\ disk = 1 /\ calls = [c \in Calls |-> Call(0, "idle", 1, 0, 0)] /\ misled = {}
  /\ servers = <<>> /\ doomed = {}
  /\ clients = [k \in Keys |-> 0] /\ broken = {} /\ spawning = [k \in Keys |-> 0]
  /\ closing = "no" /\ left = {} /\ talks = 0 /\ fence = 0

-----------------------------------------------------------------------------
At(c) == calls[c].at
Goes(c, stage) == calls' = [calls EXCEPT ![c].at = stage]
Leaves(c, how) == calls' = [calls EXCEPT ![c] = Call(0, how, 0, 0, 0)]

\* What a call does behind its first round and its second, with a client of
\* the manager, and with a start to wait for.
Proceeds(c) ==
  IF c \in Edits /\ calls[c].round = 1
  THEN calls' = [calls EXCEPT ![c] = Call(@.key, "rooting", 2, 0, @.text)] ELSE Leaves(c, "done")
Uses(c, t) ==
  calls' = [calls EXCEPT ![c] = Call(@.key, IF @.round = 1 THEN "reading" ELSE "hearing", @.round, t, @.text)]
Awaits(c, t) == calls' = [calls EXCEPT ![c] = Call(@.key, "starting", @.round, t, @.text)]

\* A tool call begins; an edit has changed the file.
Begin(c, k) ==
  /\ At(c) = "idle" /\ closing = "no"
  /\ calls' = [calls EXCEPT ![c] = Call(k, "rooting", 1, 0, 0)]
  /\ disk' = IF c \in Edits THEN disk + 1 ELSE disk
  /\ UNCHANGED <<misled, servers, doomed, manager, ending>>

\* get_clients without the look at starts that are under way.
GetClientsEager(c) ==
  LET k == calls[c].key
      n == Len(servers) + 1
  IN /\ At(c) = "rooting"
     /\ \/ clients[k] # 0 /\ Uses(c, clients[k]) /\ UNCHANGED <<servers, spawning>>
        \/ clients[k] = 0 /\ k \in broken /\ Proceeds(c) /\ UNCHANGED <<servers, spawning>>
        \/ /\ clients[k] = 0 /\ k \notin broken /\ n <= MaxServers
           /\ servers' = Append(servers, Server(k)) /\ spawning' = [spawning EXCEPT ![k] = n]
           /\ Awaits(c, n)
     /\ UNCHANGED <<disk, misled, doomed, clients, broken, ending>>

\* get_clients has the project root: a client, a broken server, a start that
\* is under way, or a new one.
GetClients(c) ==
  LET k == calls[c].key
      n == Len(servers) + 1
  IN /\ At(c) = "rooting"
     /\ \/ clients[k] # 0 /\ Uses(c, clients[k]) /\ UNCHANGED <<servers, spawning>>
        \/ clients[k] = 0 /\ k \in broken /\ Proceeds(c) /\ UNCHANGED <<servers, spawning>>
        \/ /\ clients[k] = 0 /\ k \notin broken /\ spawning[k] # 0
           /\ Awaits(c, spawning[k]) /\ UNCHANGED <<servers, spawning>>
        \/ /\ clients[k] = 0 /\ k \notin broken /\ spawning[k] = 0 /\ n <= MaxServers
           /\ servers' = Append(servers, Server(k)) /\ spawning' = [spawning EXCEPT ![k] = n]
           /\ Awaits(c, n)
     /\ UNCHANGED <<disk, misled, doomed, clients, broken, ending>>

\* The start a call waited for is over.  One that was cancelled cancels the
\* call, whoever cancelled the start.
Started(c) ==
  /\ At(c) \in {"starting", "leaving"}
  /\ LET outcome == servers[calls[c].uses].at
     IN \/ At(c) = "leaving" /\ outcome \notin Starting /\ Leaves(c, "timed out")
        \/ At(c) = "starting" /\ outcome \in {"ready", "closed"} /\ Uses(c, calls[c].uses)
        \/ At(c) = "starting" /\ outcome = "failed" /\ Proceeds(c)
        \/ At(c) = "starting" /\ outcome = "cut" /\ Leaves(c, "cancelled")
  /\ UNCHANGED <<disk, misled, servers, doomed, manager, ending>>

\* The file is read; the text comes back later.  Neither the root nor the
\* text need be found.
Read(c) ==
  /\ At(c) = "reading" /\ calls[c].text = 0
  /\ calls' = [calls EXCEPT ![c].text = disk]
  /\ UNCHANGED <<disk, misled, servers, doomed, manager, ending>>
CannotRead(c) ==
  /\ \/ At(c) = "rooting" /\ Leaves(c, "done")
     \/ At(c) = "reading" /\ calls[c].text = 0 /\ Proceeds(c)
  /\ UNCHANGED <<disk, misled, servers, doomed, manager, ending>>

\* Whoever has the lock has written its message; the next one writes when it
\* gets the lock.
Written(s, q) ==
  IF q = <<>> \/ s.process # "running" \/ Head(q).by = 0 THEN [s EXCEPT !.queue = q]
  ELSE [s EXCEPT !.queue = q, !.read = Append(@, [v |-> Head(q).v, text |-> Head(q).text])]
Joined(s, e) ==
  IF s.queue = <<>> THEN Written(s, <<e>>) ELSE [s EXCEPT !.queue = Append(@, e)]

\* touch_file counts the version when the message can be written.
TouchLate(c) ==
  LET t == calls[c].uses
      s == servers[t]
      open == [s EXCEPT !.version = IF s.queue = <<>> THEN @ + 1 ELSE @]
  IN /\ At(c) = "reading" /\ calls[c].text # 0
     /\ IF s.at = "closed"
        THEN servers' = [servers EXCEPT ![t] = open] /\ Proceeds(c)
        ELSE /\ servers' = [servers EXCEPT ![t] = Joined(open, [by |-> c, v |-> s.version + 1, text |-> calls[c].text])]
             /\ Goes(c, "writing")
     /\ UNCHANGED <<disk, misled, doomed, manager, ending>>

\* touch_file of the client: didOpen is the message with version 1, and every
\* later one is a didChange with the full text.
Touch(c) ==
  LET t == calls[c].uses
      s == [servers[t] EXCEPT !.version = @ + 1]
  IN /\ At(c) = "reading" /\ calls[c].text # 0
     /\ IF s.at = "closed"
        THEN servers' = [servers EXCEPT ![t] = s] /\ Proceeds(c)
        ELSE /\ servers' = [servers EXCEPT ![t] = Joined(s, [by |-> c, v |-> s.version, text |-> calls[c].text])]
             /\ Goes(c, "writing")
     /\ UNCHANGED <<disk, misled, doomed, manager, ending>>

\* drain() returns or raises, and the lock goes to the next.
Drained(t) ==
  LET s == servers[t]
      c == Head(s.queue).by
  IN /\ s.queue # <<>>
     /\ servers' = [servers EXCEPT ![t] = Written(s, Tail(s.queue))]
     /\ IF c = 0 THEN UNCHANGED calls ELSE Proceeds(c)
     /\ closing' = IF c = 0 THEN IF s.process = "running" THEN "asking" ELSE "ending" ELSE closing
     /\ UNCHANGED <<disk, misled, doomed, manager, left, talks, fence>>

\* publishDiagnostics for a text it was given; _handle_notification
Publish(t) ==
  /\ servers[t].at = "ready" /\ servers[t].process = "running"
  /\ \E i \in DOMAIN servers[t].read :
       i > servers[t].told /\ servers' = [servers EXCEPT ![t].told = i]
  /\ UNCHANGED <<tools, doomed, manager, ending>>

\* wait_for_diagnostics: what there is, old or new, is returned when nothing
\* new came for a moment; without any it waits longer, but not for ever.
Hear(c) ==
  LET s == servers[calls[c].uses]
  IN /\ At(c) = "hearing" /\ Leaves(c, "done")
     /\ misled' = IF s.told # 0 /\ s.read[s.told].text < calls[c].text THEN misled \cup {c} ELSE misled
     /\ UNCHANGED <<disk, servers, doomed, manager, ending>>

\* The deadline guards the wait for diagnostics only.
TimesOutLate(c) ==
  /\ c \in Edits /\ At(c) = "hearing" /\ Leaves(c, "timed out")
  /\ UNCHANGED <<disk, misled, servers, doomed, manager, ending>>

\* The deadline of an edit, or its tool call is cancelled: so is what it waits
\* for, be it the start of a server.
TimesOut(c) ==
  /\ c \in Edits
  /\ \/ /\ At(c) \in {"rooting", "reading", "hearing"}
        /\ Leaves(c, "timed out") /\ UNCHANGED <<servers, doomed>>
     \/ /\ At(c) = "starting"
        /\ Goes(c, "leaving") /\ UNCHANGED servers
        /\ doomed' = doomed \cup {t \in {calls[c].uses} : servers[t].at \in Starting}
     \/ /\ At(c) = "writing"
        /\ LET s == servers[calls[c].uses]
           IN \E i \in DOMAIN s.queue :
                /\ s.queue[i].by = c
                /\ servers' = [servers EXCEPT ![calls[c].uses] =
                     IF i = 1 THEN Written(s, Tail(s.queue))
                     ELSE [s EXCEPT !.queue = RemoveAt(@, i), !.lost = TRUE]]
        /\ Leaves(c, "timed out") /\ UNCHANGED doomed
  /\ UNCHANGED <<disk, misled, manager, ending>>

-----------------------------------------------------------------------------
\* _start_client up to the request initialize.
Launch(t) ==
  /\ t \notin doomed
  /\ \/ servers[t].at = "queued" /\ servers' = [servers EXCEPT ![t].at = "launching"]
     \/ servers[t].at = "launching" /\ servers' = [servers EXCEPT ![t].at = "asking", ![t].process = "running"]
  /\ UNCHANGED <<tools, doomed, manager, ending>>

\* The start ends: in any case the key is no longer starting.
Ends(t, stage) ==
  /\ servers' = [servers EXCEPT ![t].at = stage]
  /\ spawning' = [spawning EXCEPT ![servers[t].key] = 0]
Answered(t) ==
  /\ t \notin doomed /\ servers[t].at = "asking" /\ servers[t].process = "running"
  /\ Ends(t, "ready")
  /\ clients' = [clients EXCEPT ![servers[t].key] = t]
  /\ UNCHANGED <<tools, doomed, broken, ending>>

\* The command cannot be run, or the server answers with an error.
Fails(t) ==
  /\ t \notin doomed
  /\ \/ servers[t].at = "launching"
     \/ servers[t].at = "asking" /\ servers[t].process = "running"
  /\ Ends(t, "failed") /\ broken' = broken \cup {servers[t].key}
  /\ UNCHANGED <<tools, doomed, clients, ending>>

\* CancelledError arrives.  A task that never ran has no finally to run, and
\* a server that was asked is left to itself.
Cut(t) ==
  /\ t \in doomed /\ doomed' = doomed \ {t}
  /\ servers' = [servers EXCEPT ![t].at = "cut", ![t].cut = TRUE]
  /\ spawning' = IF servers[t].at = "queued" THEN spawning ELSE [spawning EXCEPT ![servers[t].key] = 0]
  /\ UNCHANGED <<tools, clients, broken, ending>>

\* The process of a server ends.
Exit(t) ==
  /\ servers[t].process = "running"
  /\ servers' = [servers EXCEPT ![t].process = "gone"]
  /\ UNCHANGED <<tools, doomed, manager, ending>>

-----------------------------------------------------------------------------
Registered == {k \in Keys : clients[k] # 0}

\* Starts are left to themselves.
ShutdownIdle ==
  /\ closing = "no" /\ closing' = "next"
  /\ left' = Registered /\ fence' = Len(servers)
  /\ spawning' = [k \in Keys |-> 0]
  /\ UNCHANGED <<tools, servers, doomed, clients, broken, talks>>

\* shutdown() of the manager cancels the starts and takes one client after
\* the other.
Shutdown ==
  /\ closing = "no" /\ closing' = "next"
  /\ left' = Registered /\ fence' = Len(servers)
  /\ doomed' = doomed \cup {t \in {spawning[k] : k \in Keys} \ {0} : servers[t].at \in Starting}
  /\ spawning' = [k \in Keys |-> 0]
  /\ UNCHANGED <<tools, servers, clients, broken, talks>>

\* A client that was added meanwhile ends the iteration with an error.
Grown == \E k \in Registered : clients[k] > fence /\ servers[clients[k]].at = "ready"

AskToShutDown(k) ==
  /\ closing = "next" /\ k \in left /\ ~Grown
  /\ left' = left \ {k} /\ talks' = clients[k] /\ closing' = "writing"
  /\ servers' = [servers EXCEPT ![clients[k]] = Joined(@, [by |-> 0, v |-> 0, text |-> 0])]
  /\ UNCHANGED <<tools, doomed, manager, fence>>

\* The server has answered, and is told to exit.
AgreesToExit ==
  /\ closing = "asking" /\ servers[talks].process = "running"
  /\ closing' = "ending"
  /\ UNCHANGED <<tools, servers, doomed, manager, left, talks, fence>>

\* SIGTERM, and SIGKILL when it does not help.
Terminate ==
  /\ closing = "ending" /\ closing' = "next" /\ talks' = 0
  /\ servers' = [servers EXCEPT ![talks].at = "closed", ![talks].process = "gone"]
  /\ UNCHANGED <<tools, doomed, manager, left, fence>>

ShutdownDone ==
  /\ closing = "next" /\ (left = {} \/ Grown)
  /\ closing' = IF Grown THEN "raised" ELSE "done"
  /\ clients' = IF Grown THEN clients ELSE [k \in Keys |-> 0]
  /\ broken' = IF Grown THEN broken ELSE {}
  /\ UNCHANGED <<tools, servers, doomed, spawning, left, talks, fence>>

-----------------------------------------------------------------------------
CallStep(c) == GetClients(c) \/ Started(c) \/ Read(c) \/ Touch(c) \/ Hear(c)
StartStep(t) == Launch(t) \/ Cut(t)
Close == (\E k \in Keys : AskToShutDown(k)) \/ Terminate \/ ShutdownDone
Foreign(t) == Drained(t) \/ Publish(t) \/ Answered(t) \/ Fails(t) \/ Exit(t)

Next ==
  \/ \E c \in Calls : (\E k \in Keys : Begin(c, k)) \/ CallStep(c) \/ CannotRead(c) \/ TimesOut(c)
  \/ \E t \in DOMAIN servers : StartStep(t) \/ Foreign(t)
  \/ Shutdown \/ AgreesToExit \/ Close

Spec == Init /\ [][Next]_vars

\* The event loop runs what is ready, and time passes.  Nothing makes a server
\* read, answer or exit.
FairSpec ==
  /\ Spec
  /\ \A c \in Calls : WF_vars(CallStep(c)) /\ WF_vars(TimesOut(c))
  /\ WF_vars(\E t \in DOMAIN servers : StartStep(t) \/ (servers[t].process # "running" /\ Drained(t)))
  /\ WF_vars(Close)

-----------------------------------------------------------------------------
TypeOK ==
  /\ disk \in 1..Cardinality(Calls) + 1 /\ misled \subseteq Edits
  /\ \A c \in Calls :
       /\ At(c) \in {"idle", "rooting", "starting", "leaving", "reading", "writing", "hearing"} \cup Over
       /\ calls[c].key \in Keys \cup {0} /\ calls[c].round \in 0..2
       /\ calls[c].uses \in 0..Len(servers) /\ calls[c].text \in 0..disk
  /\ \A t \in DOMAIN servers :
       /\ servers[t].at \in Starting \cup {"ready", "failed", "cut", "closed"}
       /\ servers[t].process \in {"none", "running", "gone"} /\ servers[t].key \in Keys
       /\ \A e \in Range(servers[t].queue) : e.by \in Calls \cup {0}
       /\ \A e \in Range(servers[t].read) : e.text \in 1..disk
  /\ doomed \subseteq DOMAIN servers /\ broken \subseteq Keys
  /\ clients \in [Keys -> 0..Len(servers)] /\ spawning \in [Keys -> 0..Len(servers)]
  /\ closing \in {"no", "next", "writing", "asking", "ending", "done", "raised"}
  /\ left \subseteq Keys /\ talks \in 0..Len(servers) /\ fence \in 0..Len(servers)

\* Until the manager shuts down a key gets one server: neither calls that come
\* while it starts, nor its failure, nor its death make the manager start
\* another.  Only a start that was cancelled is made again.
OneStartPerKey ==
  closing = "no" =>
    \A t, u \in DOMAIN servers : t < u /\ servers[t].key = servers[u].key => servers[t].cut

\* A server is given didOpen first and then each version once, in order, also
\* when calls overlap: unless a call was cancelled that waited to write.
DocumentInStep ==
  \A t \in DOMAIN servers : ~servers[t].lost =>
    \A i \in DOMAIN servers[t].read : servers[t].read[i].v = i

\* When the manager has shut down, no server whose start had begun before is
\* in use or running, except those that no client stands for: their starts
\* were cancelled or failed.
ClosedServersEnd ==
  closing = "done" =>
    \A t \in 1..fence : servers[t].process = "running" => servers[t].at \in {"asking", "cut", "failed"}

\* The result of an edit comes, whatever the servers do.
EditsReturn == \A c \in Edits : []<>(At(c) \in {"idle"} \cup Over)

\* A language server that hangs does not hide the result of an edit: while the
\* session is open, no edit is cancelled by what others do with the server.
EditKeepsItsResult == \A c \in Edits : At(c) = "cancelled" => closing # "no"

\* A key has one server at a time.
OneServerPerKey ==
  \A t, u \in DOMAIN servers :
    t # u /\ servers[t].key = servers[u].key => "running" \notin {servers[t].process} \cap {servers[u].process}

\* What an edit reports is what the server says of the edited text.
ReportsAreCurrent == misled = {}

\* shutdown() ends.
ShutdownEnds == closing = "next" ~> closing \in {"done", "raised"}
=============================================================================
