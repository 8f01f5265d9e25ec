----------------------------- MODULE Transcript -----------------------------
(***************************************************************************)
(* The transcript of one session (core/session/storage.py): an append-only *)
(* JSONL file that the SessionStorage of several processes share, the      *)
(* checkpoint rows of session/meta_db.py, and the conversation a           *)
(* CoreSession keeps and writes through it (core/events.py).               *)
(*                                                                         *)
(* Every record is scanned for, decided on and appended under the          *)
(* session's lock (_session_lifecycle_lock) in one synchronous call: it is *)
(* one step.  A call that writes the index database and the file is two,   *)
(* with the steps of other processes between them.  The archive, titles    *)
(* and the other fields of the metadata are left out.                      *)
(***************************************************************************)
EXTENDS Integers, Sequences, FiniteSets, SequencesExt

CONSTANTS
  Holders,     \* processes that open the session
  Users,       \* bound: those whose user clears, makes checkpoints and rolls back
  MaxIds,      \* bound: message ids
  MaxLines,    \* bound: records
  MaxChecks,   \* bound: checkpoints
  MaxTokens,   \* bound: token records that are tried
  MaxFailures, \* bound: failed writes and crashes
  None

ASSUME TranscriptAssumption ==
  /\ None \notin Seq(Int)
  /\ MaxIds \in Nat \ {0} /\ MaxLines \in Nat /\ MaxChecks \in Nat
  /\ MaxTokens \in Nat /\ MaxFailures \in Nat /\ Users \subseteq Holders

VARIABLES
  log,     \* the transcript
  row,     \* the table checkpoints: the message a checkpoint ends with
  up,      \* the processes that have the session open
  turn,    \* the processes where a turn is running
  live,    \* CoreSession.messages
  written, \* _written_uuids
  cursor,  \* _scan_offset: the records a storage has seen
  tokens,  \* _meta_index["tokens_used"]
  making,  \* create_checkpoint between the row and the marker
  acked,   \* history: messages whose append_message returned
  saved,   \* history: what was live when a checkpoint was made
  spent,   \* history: token records that were written, and those that failed
  apart,   \* history: holders that do not write alone, or whose write failed
  failures

memory == <<up, turn, live, written, cursor, tokens, making>>
history == <<acked, saved, spent, apart>>
transcriptVars == <<log, row, memory, history, failures>>

MessageIds == 1..MaxIds
Checks == 1..MaxChecks

\* A message keeps its id when its tool output is pruned: m is written -m then.
Id(e) == IF e < 0 THEN -e ELSE e
IdsOf(ms) == {Id(ms[n]) : n \in DOMAIN ms}
Pruned(ms) == [n \in DOMAIN ms |-> -Id(ms[n])]

\* The records.
Record(type, ms, check, value) == [type |-> type, messages |-> ms, check |-> check, value |-> value]
MessageRecord(m) == Record("message", <<m>>, 0, 0)
Boundary(ms) == Record("boundary", ms, 0, 0)
ClearBoundary == Record("clear", <<>>, 0, 0)
Rollback(c, m) == Record("rollback", <<>>, c, m)
Metadata(n) == Record("meta", <<>>, 0, n)

\* Mutant: the marker does not hold the conversation.
MarkerWithout(c, ms) == Record("checkpoint", <<>>, c, Id(Last(ms)))

Checkpoint(c, ms) == Record("checkpoint", ms, c, Id(Last(ms)))

\* The ids that the records of a part of the transcript hold; checkpoint markers do
\* not count.
Recorded(f) == UNION {IdsOf(f[n].messages) : n \in {k \in DOMAIN f : f[k].type \in {"message", "boundary"}}}

\* load_messages: what the records so far make of the active conversation, and the
\* conversation each checkpoint restores.
Nothing == [active |-> <<>>, restores |-> [c \in Checks |-> None]]

\* The part of a conversation up to a message.
UpTo(ms, m) ==
  IF m \in IdsOf(ms) THEN SubSeq(ms, 1, CHOOSE n \in DOMAIN ms : Id(ms[n]) = m) ELSE ms

\* Mutant: a message that a rollback restored is added again.
AddAlways(p, m) == Append(p.active, m)

AddMessage(p, m) == IF m \in IdsOf(p.active) THEN p.active ELSE Append(p.active, m)

Replay(p, r) ==
  CASE r.type = "message"    -> [p EXCEPT !.active = AddMessage(p, r.messages[1])]
    [] r.type = "boundary"   -> [p EXCEPT !.active = r.messages]
    [] r.type = "clear"      -> [p EXCEPT !.active = <<>>]
    [] r.type = "checkpoint" -> [p EXCEPT !.restores[r.check] =
                                   IF r.messages = <<>> THEN p.active ELSE r.messages]
    [] r.type = "rollback"   -> [p EXCEPT !.active = IF p.restores[r.check] # None
                                                     THEN p.restores[r.check] ELSE UpTo(@, r.value)]
    [] OTHER -> p

Load(f) ==
  LET after[n \in 0..Len(f)] == IF n = 0 THEN Nothing ELSE Replay(after[n - 1], f[n])
  IN after[Len(f)]
Projection(f) == Load(f).active

\* The metadata is merged record by record: the last counter stands.
TokensIn(f, before) ==
  LET counts == {n \in DOMAIN f : f[n].type = "meta"}
  IN IF counts = {} THEN before ELSE f[Max(counts)].value

TranscriptInit ==
  /\ log = <<>>
  /\ row = [c \in Checks |-> None]
  /\ up = {} /\ turn = {}
  /\ live = [x \in Holders |-> <<>>]
  /\ written = [x \in Holders |-> {}]
  /\ cursor = [x \in Holders |-> 0]
  /\ tokens = [x \in Holders |-> 0]
  /\ making = [x \in Holders |-> None]
  /\ acked = {} /\ saved = [c \in Checks |-> None]
  /\ spent = [written |-> 0, failed |-> 0]
  /\ apart = {} /\ failures = 0

Ready(x) == x \in up /\ making[x] = None
MayWrite(x) == Ready(x) /\ Len(log) < MaxLines

\* Ids nobody has used.
Fresh == {m \in MessageIds : /\ \A x \in Holders : m \notin IdsOf(live[x])
                             /\ \A n \in DOMAIN log : m \notin IdsOf(log[n].messages)}
NewId == CHOOSE m \in Fresh : \A k \in Fresh : m <= k
-----------------------------------------------------------------------------
\* _scan_new_entries_locked and _apply_index_entries: what a storage knows after it
\* has read the records others appended.
Scan(x) ==
  LET tail == SubSeq(log, cursor[x] + 1, Len(log))
  IN [ids |-> written[x] \union Recorded(tail), tokens |-> TokensIn(tail, tokens[x])]

\* A record is appended; the index holds it and the cursor stands behind it.
Appended(x, r) ==
  /\ log' = Append(log, r)
  /\ cursor' = [cursor EXCEPT ![x] = Len(log) + 1]

\* A scan without an append.
Scanned(x) == cursor' = [cursor EXCEPT ![x] = Len(log)]

\* The others no longer hold the conversation the file has.
Diverges(x) == apart' = apart \union (Holders \ {x})

\* Mutant: the index holds a message before it is written.
RecordFailsIndexed(x, m) ==
  /\ failures < MaxFailures /\ failures' = failures + 1
  /\ written' = [written EXCEPT ![x] = Scan(x).ids \union {m}] /\ Scanned(x)
  /\ tokens' = [tokens EXCEPT ![x] = Scan(x).tokens]
  /\ apart' = apart \union {x}
  /\ UNCHANGED <<log, acked>>

\* append_message fails on the write: nothing is indexed but what was scanned.
RecordFails(x, m) ==
  /\ failures < MaxFailures /\ failures' = failures + 1
  /\ written' = [written EXCEPT ![x] = Scan(x).ids] /\ Scanned(x)
  /\ tokens' = [tokens EXCEPT ![x] = Scan(x).tokens]
  /\ apart' = apart \union {x}
  /\ UNCHANGED <<log, acked>>

\* append_message: a message that is indexed or was written meanwhile is skipped.
AppendMessage(x, m) ==
  \/ /\ m \in written[x]
     /\ acked' = acked \union {m}
     /\ UNCHANGED <<log, written, cursor, tokens, apart, failures>>
  \/ /\ m \notin written[x]
     /\ \/ /\ written' = [written EXCEPT ![x] = Scan(x).ids \union {m}]
           /\ tokens' = [tokens EXCEPT ![x] = Scan(x).tokens]
           /\ acked' = acked \union {m}
           /\ IF m \in Scan(x).ids THEN Scanned(x) /\ UNCHANGED <<log, apart>>
              ELSE Appended(x, MessageRecord(m)) /\ Diverges(x)
           /\ UNCHANGED failures
        \/ m \notin Scan(x).ids /\ RecordFails(x, m)
-----------------------------------------------------------------------------
\* resume: the session is loaded from the file.
Open(x) ==
  /\ x \notin up
  /\ up' = up \union {x}
  /\ live' = [live EXCEPT ![x] = Projection(log)]
  /\ written' = [written EXCEPT ![x] = Recorded(log)]
  /\ cursor' = [cursor EXCEPT ![x] = Len(log)]
  /\ tokens' = [tokens EXCEPT ![x] = TokensIn(log, 0)]
  /\ apart' = apart \ {x}
  /\ UNCHANGED <<log, row, turn, making, acked, saved, spent, failures>>

\* A turn begins: a user message, or a callback whose id another process may use
\* as well, is appended at once (_send_message_impl).
Say(x, m) ==
  /\ MayWrite(x) /\ x \notin turn
  /\ m \notin IdsOf(live[x]) \union written[x]
  /\ live' = [live EXCEPT ![x] = Append(@, m)]
  /\ AppendMessage(x, m)
  /\ turn' = IF failures' = failures THEN turn \union {x} ELSE turn
  /\ UNCHANGED <<row, up, making, saved, spent>>

\* The model answers: the message is in the conversation only.
Answer(x) ==
  /\ x \in turn /\ Ready(x) /\ Fresh # {}
  /\ live' = [live EXCEPT ![x] = Append(@, NewId)]
  /\ UNCHANGED <<log, row, up, turn, written, cursor, tokens, making, history, failures>>

\* _commit_query_projection appends the conversation in order: the next of it.  A
\* failed write ends the turn.
Unwritten(x) == {n \in DOMAIN live[x] : Id(live[x][n]) \notin written[x]}
Commit(x) ==
  /\ MayWrite(x) /\ x \in turn /\ Unwritten(x) # {}
  /\ LET n == CHOOSE k \in Unwritten(x) : \A j \in Unwritten(x) : k <= j
     IN AppendMessage(x, Id(live[x][n]))
  /\ turn' = IF failures' = failures THEN turn ELSE turn \ {x}
  /\ UNCHANGED <<row, up, live, making, saved, spent>>

\* The turn ends when append_message has returned for the whole conversation.
EndTurn(x) ==
  /\ Ready(x) /\ x \in turn /\ Unwritten(x) = {}
  /\ turn' = turn \ {x}
  /\ acked' = acked \union IdsOf(live[x])
  /\ UNCHANGED <<log, row, up, live, written, cursor, tokens, making, saved, spent, apart,
                 failures>>

\* A boundary replaces the conversation, which was committed before; a write that
\* fails leaves the conversation replaced in memory only.
Replace(x, ms) ==
  /\ MayWrite(x) /\ Unwritten(x) = {}
  /\ live' = [live EXCEPT ![x] = ms]
  /\ tokens' = [tokens EXCEPT ![x] = Scan(x).tokens]
  /\ \/ /\ Appended(x, Boundary(ms)) /\ Diverges(x)
        /\ written' = [written EXCEPT ![x] = Scan(x).ids \union IdsOf(ms)]
        /\ UNCHANGED failures
     \/ /\ failures < MaxFailures /\ failures' = failures + 1
        /\ written' = [written EXCEPT ![x] = Scan(x).ids] /\ Scanned(x)
        /\ apart' = apart \union {x}
        /\ UNCHANGED log
  /\ UNCHANGED <<row, up, turn, making, acked, saved, spent>>

\* append_compaction: a summary and a tail of the conversation.
Compact(x) ==
  /\ live[x] # <<>> /\ Fresh # {}
  /\ \E k \in 0..1 : k < Len(live[x]) /\
       Replace(x, <<NewId>> \o SubSeq(live[x], Len(live[x]) - k + 1, Len(live[x])))

\* append_projection: the messages with their tool output pruned.
Prune(x) == x \in Users /\ Pruned(live[x]) # live[x] /\ Replace(x, Pruned(live[x]))

\* clear_history, which clears the conversation after the boundary is written.
Clear(x) ==
  /\ x \in Users /\ MayWrite(x) /\ x \notin turn
  /\ Appended(x, ClearBoundary) /\ Diverges(x)
  /\ written' = [written EXCEPT ![x] = {}]
  /\ tokens' = [tokens EXCEPT ![x] = Scan(x).tokens]
  /\ live' = [live EXCEPT ![x] = <<>>]
  /\ UNCHANGED <<row, up, turn, making, acked, saved, spent, failures>>

\* create_checkpoint inserts the row.
StartCheckpoint(x, c) ==
  /\ x \in Users /\ MayWrite(x) /\ live[x] # <<>>
  /\ saved[c] = None /\ \A k \in 1..(c - 1) : saved[k] # None
  /\ row' = [row EXCEPT ![c] = Id(Last(live[x]))]
  /\ making' = [making EXCEPT ![x] = c]
  /\ saved' = [saved EXCEPT ![c] = live[x]]
  /\ UNCHANGED <<log, up, turn, live, written, cursor, tokens, acked, spent, apart, failures>>

\* The marker is appended, or the row is taken back, which may fail too.
FinishCheckpoint(x) ==
  /\ x \in up /\ making[x] # None
  /\ making' = [making EXCEPT ![x] = None]
  /\ written' = [written EXCEPT ![x] = Scan(x).ids]
  /\ tokens' = [tokens EXCEPT ![x] = Scan(x).tokens]
  /\ \/ /\ Appended(x, Checkpoint(making[x], live[x]))
        /\ UNCHANGED <<row, failures>>
     \/ /\ failures < MaxFailures /\ failures' = failures + 1
        /\ Scanned(x)
        /\ row' \in {row, [row EXCEPT ![making[x]] = None]}
        /\ UNCHANGED log
  /\ UNCHANGED <<up, turn, live, history>>

\* rollback_to_checkpoint and rollback: the marker is written and the conversation
\* loaded again; without the checkpoint's last message the call fails.
RollBack(x, c) ==
  /\ x \in Users /\ MayWrite(x) /\ row[c] # None
  /\ Appended(x, Rollback(c, row[c])) /\ Diverges(x)
  /\ written' = [written EXCEPT ![x] = Recorded(log')]
  /\ tokens' = [tokens EXCEPT ![x] = TokensIn(log', 0)]
  /\ live' = [live EXCEPT ![x] = IF row[c] \in IdsOf(Projection(log')) THEN Projection(log') ELSE @]
  /\ UNCHANGED <<row, up, turn, making, acked, saved, spent, failures>>

\* record_tokens: one more than the counter has after the scan; the memory has it
\* before the file, and keeps it when the write fails.
RecordTokens(x) ==
  /\ MayWrite(x) /\ spent.written + spent.failed < MaxTokens
  /\ written' = [written EXCEPT ![x] = Scan(x).ids]
  /\ tokens' = [tokens EXCEPT ![x] = Scan(x).tokens + 1]
  /\ \/ /\ Appended(x, Metadata(Scan(x).tokens + 1))
        /\ spent' = [spent EXCEPT !.written = @ + 1]
        /\ UNCHANGED failures
     \/ /\ failures < MaxFailures /\ failures' = failures + 1
        /\ Scanned(x)
        /\ spent' = [spent EXCEPT !.failed = @ + 1]
        /\ UNCHANGED log
  /\ UNCHANGED <<row, up, turn, live, making, acked, saved, apart>>

\* The process ends, anywhere.
HolderCrashes(x) ==
  /\ x \in up /\ failures < MaxFailures
  /\ failures' = failures + 1
  /\ up' = up \ {x} /\ turn' = turn \ {x}
  /\ live' = [live EXCEPT ![x] = <<>>]
  /\ written' = [written EXCEPT ![x] = {}]
  /\ cursor' = [cursor EXCEPT ![x] = 0]
  /\ tokens' = [tokens EXCEPT ![x] = 0]
  /\ making' = [making EXCEPT ![x] = None]
  /\ UNCHANGED <<log, row, history>>

TranscriptNext ==
  \E x \in Holders :
    \/ Open(x) \/ Answer(x) \/ Commit(x) \/ EndTurn(x) \/ Compact(x) \/ Prune(x) \/ Clear(x)
    \/ FinishCheckpoint(x) \/ RecordTokens(x) \/ HolderCrashes(x)
    \/ \E m \in MessageIds : Say(x, m)
    \/ \E c \in Checks : StartCheckpoint(x, c) \/ RollBack(x, c)

TranscriptSpec == TranscriptInit /\ [][TranscriptNext]_transcriptVars
-----------------------------------------------------------------------------
\* The conversation that is resumed is the one that was left: whatever messages,
\* compactions, prunings, clears, checkpoints and rollbacks came in whatever order,
\* the records of a session that wrote alone and without failures load to the
\* conversation it has in memory once that is committed (load_messages).
ResumeMatchesLive ==
  \A x \in up \ apart : Unwritten(x) = {} => Projection(log) = live[x]

\* A message append_message took is in the file for good, through failed writes,
\* retries, compactions and the writers of other processes; and no message is
\* recorded twice, even when two processes deliver the same callback, unless the
\* conversation was cleared between the two.  Nor is a token record lost to another
\* writer: the counter in the file is the number of records that were written, or
\* a few that failed on top (_commit_metadata_update).
AcknowledgedIsKeptOnce ==
  /\ acked \subseteq Recorded(log)
  /\ \A i, j \in DOMAIN log :
       (i < j /\ log[i].type = "message" /\ log[j].type = "message"
          /\ log[i].messages = log[j].messages)
         => \E k \in i..j : log[k].type = "clear"
  /\ TokensIn(log, 0) \in spent.written..(spent.written + spent.failed)

\* A rollback to a checkpoint whose marker is in the file restores the conversation
\* that was live when the checkpoint was made, compactions of other processes
\* between its two writes included (create_checkpoint).
CheckpointsHold ==
  [][\A x \in Holders, c \in Checks :
       (/\ Len(log') = Len(log) + 1 /\ Last(log').type = "rollback"
        /\ Last(log').check = c /\ cursor'[x] = Len(log') /\ x \in up
        /\ cursor'[x] # cursor[x]
        /\ \E n \in DOMAIN log : log[n].type = "checkpoint" /\ log[n].check = c)
         => live'[x] = saved[c]]_transcriptVars

\* Both: the records give back the conversation that was there, when the session
\* is resumed and when it is rolled back.
TranscriptGivesBack == []ResumeMatchesLive /\ CheckpointsHold
=============================================================================
