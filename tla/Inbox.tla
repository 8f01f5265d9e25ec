-------------------------------- MODULE Inbox --------------------------------
(***************************************************************************)
(* The message bus of a team (core/team/message_bus.py): one JSONL file    *)
(* per agent, written under a file lock (core/file_lock.py) by the bus of  *)
(* every process that has the team open, and in each bus a copy of it and  *)
(* a registration that comes and goes.                                     *)
(*                                                                         *)
(* A file is what its readable lines say: of each message nothing, that it *)
(* is unread, or that it was read.  The order of the lines is left out.    *)
(* A coroutine's step runs from one await to the next; a file operation    *)
(* runs in a worker thread, under the team's lock, and is one step.  The   *)
(* live queues are left out: nothing in the repository receives from them. *)
(***************************************************************************)
EXTENDS Integers, Sequences, FiniteSets, SequencesExt

CONSTANTS
  Buses,       \* the processes that have the team open
  Agents,      \* agent ids
  Ops,         \* bound: send and mark_read calls under way at a time
  MaxMessages, \* bound: messages and receipts that are ever made
  Changes,     \* bound: registrations and removals of each agent in each bus
  Recipients,  \* bound: the agents that others send to
  MaxFaults,   \* bound: failed file operations, cancellations and crashes
  Tearing,     \* whether a failed append may leave a part of its line
  NoOne        \* the sender "" or no message

ASSUME BoundsAssumption ==
  /\ MaxMessages \in Nat
  /\ Changes \in [Buses -> [Agents -> Nat]]
  /\ MaxFaults \in Nat /\ Tearing \in BOOLEAN /\ NoOne \notin Agents

VARIABLES
  file,       \* the inbox files
  torn,       \* the files that end in a part of a line
  epoch,      \* _registration_epochs
  registered, \* _registered
  inbox,      \* _inboxes
  locked,     \* _inbox_locks: the holder, then those who wait
  op,         \* the calls under way
  sent,       \* history: what each message is
  strayed,    \* history: messages given to another registration than the one meant
  erased,     \* history: messages whose files were deleted
  faults

vars == <<file, torn, epoch, registered, inbox, locked, op, sent, strayed,
          erased, faults>>

Ids == 1..MaxMessages

\* What a snapshot of an inbox knows of a message: 0 nothing, 1 unread, 2 read.
Empty == [i \in Ids |-> 0]
Merge(f, g) == [i \in Ids |-> IF f[i] > g[i] THEN f[i] ELSE g[i]]
Known(f) == {i \in Ids : f[i] # 0}
UnreadOf(f) == {i \in Ids : f[i] = 1}

NoMessage == [from |-> NoOne, to |-> NoOne, of |-> {}]
IsReceipt(i) == sent[i].of # {}
Unused == {i \in Ids : sent[i] = NoMessage}
NextId == Min(Unused)

Idle == [at |-> "idle", call |-> "send", bus |-> NoOne, agent |-> NoOne, epoch |-> 0,
         id |-> 0, reader |-> NoOne, which |-> {}, staged |-> Empty, due |-> {}, stopped |-> 0]

Init ==
  /\ file = [a \in Agents |-> Empty]
  /\ torn = {}
  /\ epoch = [b \in Buses |-> [a \in Agents |-> 0]]
  /\ registered = [b \in Buses |-> {}]
  /\ inbox = [b \in Buses |-> [a \in Agents |-> Empty]]
  /\ locked = [b \in Buses |-> [a \in Agents |-> <<>>]]
  /\ op = [o \in Ops |-> Idle]
  /\ sent = [i \in Ids |-> NoMessage]
  /\ strayed = {} /\ erased = {} /\ faults = 0

Current(b, a, e) == a \in registered[b] /\ epoch[b][a] = e

\* asyncio.Lock: first come, first served
Holds(o) == Head(locked[op[o].bus][op[o].agent]) = o
Waits(b, a, o) == [locked EXCEPT ![b][a] = Append(@, o)]
Leaves(o) == [locked EXCEPT ![op[o].bus][op[o].agent] = Remove(@, o)]

Goes(o, stage) == op' = [op EXCEPT ![o].at = stage]
Ends(o) == op' = [op EXCEPT ![o] = Idle]

\* A mark_read that has marked and tells the senders.
Telling(r, due) ==
  [Idle EXCEPT !.at = "receipts", !.call = "receipt", !.bus = r.bus, !.reader = r.reader,
               !.due = due]

\* What send returns to: its caller, or the loop over the receipts that are due.
Returns(o) == op' = [op EXCEPT ![o] = IF @.call = "receipt" THEN Telling(@, @.due) ELSE Idle]

\* _refresh_registered_inbox: what the file has is merged into the inbox.
Refresh(b, a) == inbox' = [inbox EXCEPT ![b][a] = Merge(@, file[a])]

RefreshIfRegistered(b, a) ==
  IF a \in registered[b] THEN Refresh(b, a) ELSE UNCHANGED inbox

\* _inject_fn
Injects(o) ==
  LET r == op[o]
  IN strayed' = IF Current(r.bus, r.agent, r.epoch) THEN strayed ELSE strayed \union {r.id}
-----------------------------------------------------------------------------
\* register_agent
Register(b, a) ==
  /\ a \notin registered[b] /\ epoch[b][a] < Changes[b][a]
  /\ registered' = [registered EXCEPT ![b] = @ \union {a}]
  /\ epoch' = [epoch EXCEPT ![b][a] = @ + 1]
  /\ inbox' = [inbox EXCEPT ![b][a] = file[a]]
  /\ UNCHANGED <<file, torn, locked, op, sent, strayed, erased, faults>>

\* unregister_agent
Unregister(b, a) ==
  /\ a \in registered[b] /\ epoch[b][a] < Changes[b][a]
  /\ registered' = [registered EXCEPT ![b] = @ \ {a}]
  /\ epoch' = [epoch EXCEPT ![b][a] = @ + 1]
  /\ inbox' = [inbox EXCEPT ![b][a] = Empty]
  /\ UNCHANGED <<file, torn, locked, op, sent, strayed, erased, faults>>

\* send, which takes the recipient's lock at once when it is free
Send(o, b, from, to) ==
  /\ op[o] = Idle /\ to \in registered[b] /\ to \in Recipients /\ from \notin Recipients /\ Unused # {}
  /\ op' = [op EXCEPT ![o] = [Idle EXCEPT !.at = IF locked[b][to] = <<>> THEN "appending" ELSE "waiting",
              !.bus = b, !.agent = to, !.epoch = epoch[b][to], !.id = NextId]]
  /\ sent' = [sent EXCEPT ![NextId] = [from |-> from, to |-> to, of |-> {}]]
  /\ locked' = Waits(b, to, o)
  /\ UNCHANGED <<file, torn, epoch, registered, inbox, strayed, erased, faults>>

\* The lock is acquired: a registration that has changed ends the call.
Enter(o) ==
  LET r == op[o]
  IN /\ r.at = "waiting" /\ r.call # "mark" /\ Holds(o)
     /\ IF Current(r.bus, r.agent, r.epoch)
        THEN Goes(o, "appending") /\ UNCHANGED locked
        ELSE Returns(o) /\ locked' = Leaves(o)
     /\ UNCHANGED <<file, torn, epoch, registered, inbox, sent, strayed, erased,
                    faults>>

\* Where a thread's end finds its coroutine: waiting for it, or cancelled once,
\* which drains the thread, or twice, which leaves it alone with the lock free.
ThreadEnds(o, stage) ==
  IF op[o].stopped = 0 THEN Goes(o, stage) /\ UNCHANGED locked
  ELSE Ends(o) /\ locked' = IF op[o].stopped = 1 THEN Leaves(o) ELSE locked

\* _append_line: a line after a part of one cannot be read.
AppendLine(o) ==
  LET r == op[o]
  IN /\ r.at = "appending"
     /\ file' = IF r.agent \in torn THEN file ELSE [file EXCEPT ![r.agent][r.id] = 1]
     /\ torn' = torn \ {r.agent}
     /\ ThreadEnds(o, "appended")
     /\ UNCHANGED <<epoch, registered, inbox, sent, strayed, erased, faults>>

\* Mutant: a failed append is taken for one that worked.
AppendSwallowed(o) ==
  LET r == op[o]
  IN /\ r.at = "appending" /\ faults < MaxFaults
     /\ faults' = faults + 1
     /\ ThreadEnds(o, "appended")
     /\ UNCHANGED <<file, torn, epoch, registered, inbox, sent, strayed, erased>>

AppendFails(o) ==
  LET r == op[o]
  IN /\ r.at = "appending" /\ faults < MaxFaults
     /\ faults' = faults + 1
     /\ torn' \in IF Tearing THEN {torn, torn \union {r.agent}} ELSE {torn}
     /\ ThreadEnds(o, "failed")
     /\ UNCHANGED <<file, epoch, registered, inbox, sent, strayed, erased>>

\* Without the durable write nothing of the message or acknowledgement is shown.
Fails(o) ==
  /\ op[o].at = "failed"
  /\ locked' = Leaves(o) /\ Returns(o)
  /\ UNCHANGED <<file, torn, epoch, registered, inbox, sent, strayed, erased,
                 faults>>

\* Mutant: the recipient is looked up again, its registration is not compared.
DeliverToAnyone(o) ==
  LET r == op[o]
  IN /\ r.at = "appended"
     /\ locked' = Leaves(o) /\ Returns(o)
     /\ IF r.agent \in registered[r.bus]
        THEN /\ inbox' = [inbox EXCEPT ![r.bus][r.agent] = Merge(@, [Empty EXCEPT ![r.id] = 1])]
             /\ Injects(o)
        ELSE UNCHANGED <<inbox, strayed>>
     /\ UNCHANGED <<file, torn, epoch, registered, sent, erased, faults>>

\* The line is written: the message goes to the inbox and the session of the
\* registration it was sent to, and send returns it; or it is left for the next one.
Deliver(o) ==
  LET r == op[o]
  IN /\ r.at = "appended"
     /\ locked' = Leaves(o) /\ Returns(o)
     /\ IF Current(r.bus, r.agent, r.epoch)
        THEN /\ inbox' = [inbox EXCEPT ![r.bus][r.agent] = Merge(@, [Empty EXCEPT ![r.id] = 1])]
             /\ Injects(o)
        ELSE RefreshIfRegistered(r.bus, r.agent) /\ UNCHANGED strayed
     /\ UNCHANGED <<file, torn, epoch, registered, sent, erased, faults>>
-----------------------------------------------------------------------------
\* mark_read up to its wait for the lock
Mark(o, b, a, which) ==
  /\ op[o] = Idle /\ a \in registered[b]
  /\ which = Ids \/ which \subseteq Known(inbox[b][a])
  /\ op' = [op EXCEPT ![o] = [Idle EXCEPT !.at = "waiting", !.call = "mark", !.bus = b,
              !.agent = a, !.reader = a, !.epoch = epoch[b][a], !.which = which]]
  /\ locked' = Waits(b, a, o)
  /\ UNCHANGED <<file, torn, epoch, registered, inbox, sent, strayed, erased,
                 faults>>

\* The senders that are told, as they are registered now; a receipt is not receipted.
Receipts(b, marked) ==
  {[to |-> a, epoch |-> epoch[b][a], ids |-> {i \in marked : sent[i].from = a /\ ~IsReceipt(i)}] :
     a \in {c \in registered[b] : \E i \in marked : sent[i].from = c /\ ~IsReceipt(i)}}

\* The lock is acquired: the inbox is brought up to date and the acknowledgement
\* staged on a copy of it.
Stage(o) ==
  LET r == op[o]
      now == Merge(inbox[r.bus][r.agent], file[r.agent])
      marked == UnreadOf(now) \intersect r.which
  IN /\ r.at = "waiting" /\ r.call = "mark" /\ Holds(o)
     /\ IF Current(r.bus, r.agent, r.epoch)
        THEN /\ Refresh(r.bus, r.agent)
             /\ op' = [op EXCEPT ![o].at = "writing", ![o].which = {},
                         ![o].staged = [i \in Ids |-> IF i \in marked THEN 2 ELSE now[i]],
                         ![o].due = Receipts(r.bus, marked)]
             /\ UNCHANGED locked
        ELSE Ends(o) /\ locked' = Leaves(o) /\ UNCHANGED <<inbox>>
     /\ UNCHANGED <<file, torn, epoch, registered, sent, strayed, erased, faults>>

\* Mutant: the copy replaces the file.
WriteCopy(o) ==
  LET r == op[o]
  IN /\ r.at = "writing"
     /\ file' = [file EXCEPT ![r.agent] = r.staged]
     /\ torn' = torn \ {r.agent}
     /\ ThreadEnds(o, "written")
     /\ UNCHANGED <<epoch, registered, inbox, sent, strayed, erased, faults>>

\* _write_content: the copy is merged with what the file has by now and replaces it.
WriteContent(o) ==
  LET r == op[o]
      merged == Merge(file[r.agent], r.staged)
  IN /\ r.at = "writing"
     /\ file' = [file EXCEPT ![r.agent] = merged]
     /\ torn' = torn \ {r.agent}
     /\ IF r.stopped = 0
        THEN op' = [op EXCEPT ![o].at = "written", ![o].staged = merged] /\ UNCHANGED locked
        ELSE ThreadEnds(o, "written")
     /\ UNCHANGED <<epoch, registered, inbox, sent, strayed, erased, faults>>

\* Mutant: the receipts do not ask whether the rewrite worked.
WriteSwallowed(o) ==
  /\ op[o].at = "writing" /\ faults < MaxFaults
  /\ faults' = faults + 1
  /\ IF op[o].stopped = 0
     THEN op' = [op EXCEPT ![o] = Telling(@, @.due)] /\ locked' = Leaves(o)
     ELSE ThreadEnds(o, "failed")
  /\ UNCHANGED <<file, torn, epoch, registered, inbox, sent, strayed, erased>>

WriteFails(o) ==
  /\ op[o].at = "writing" /\ faults < MaxFaults
  /\ faults' = faults + 1
  /\ ThreadEnds(o, "failed")
  /\ UNCHANGED <<file, torn, epoch, registered, inbox, sent, strayed, erased>>

\* The inbox becomes what was committed; a registration that has changed is only
\* brought up to date, and nobody is told.
Marked(o) ==
  LET r == op[o]
  IN /\ r.at = "written"
     /\ locked' = Leaves(o)
     /\ IF Current(r.bus, r.agent, r.epoch)
        THEN /\ inbox' = [inbox EXCEPT ![r.bus][r.agent] = r.staged]
             /\ op' = [op EXCEPT ![o] = Telling(r, r.due)]
        ELSE RefreshIfRegistered(r.bus, r.agent) /\ Ends(o)
     /\ UNCHANGED <<file, torn, epoch, registered, sent, strayed, erased, faults>>

\* The senders still to be told whose registration still exists.
Due(o) == IF Unused = {} THEN {} ELSE {d \in op[o].due : Current(op[o].bus, d.to, d.epoch)}

\* The next receipt is sent.
Receipt(o) ==
  LET r == op[o]
  IN /\ r.at = "receipts"
     /\ \E d \in Due(o) :
          /\ op' = [op EXCEPT ![o] = [r EXCEPT
                      !.at = IF locked[r.bus][d.to] = <<>> THEN "appending" ELSE "waiting",
                      !.agent = d.to, !.epoch = d.epoch, !.due = r.due \ {d}, !.id = NextId]]
          /\ sent' = [sent EXCEPT ![NextId] = [from |-> r.reader, to |-> d.to, of |-> d.ids]]
          /\ locked' = Waits(r.bus, d.to, o)
     /\ UNCHANGED <<file, torn, epoch, registered, inbox, strayed, erased, faults>>

MarkReturns(o) ==
  /\ op[o].at = "receipts" /\ Due(o) = {}
  /\ Ends(o)
  /\ UNCHANGED <<file, torn, epoch, registered, inbox, locked, sent, strayed, erased, faults>>
-----------------------------------------------------------------------------
\* get_unread, get_all
Get(b, a) ==
  /\ a \in registered[b]
  /\ Refresh(b, a)
  /\ UNCHANGED <<file, torn, epoch, registered, locked, op, sent, strayed, erased, faults>>

\* The task of a call is cancelled.  Where a thread works for it, the call waits
\* for the thread, or leaves it alone when it is cancelled again.
Cancel(o) ==
  /\ op[o].at # "idle" /\ op[o].stopped = 0 /\ faults < MaxFaults
  /\ faults' = faults + 1
  /\ IF op[o].at \in {"appending", "writing"}
     THEN \E n \in {1, 2} :
            /\ op' = [op EXCEPT ![o].stopped = n]
            /\ locked' = IF n = 2 THEN Leaves(o) ELSE locked
     ELSE /\ Ends(o)
          /\ locked' = IF op[o].at = "receipts" THEN locked ELSE Leaves(o)
  /\ UNCHANGED <<file, torn, epoch, registered, inbox, sent, strayed, erased>>

\* A process ends, with its threads.
Crash(b) ==
  /\ faults < MaxFaults
  /\ \E a \in Agents : epoch[b][a] # 0
  /\ faults' = faults + 1
  /\ epoch' = [epoch EXCEPT ![b] = [a \in Agents |-> 0]]
  /\ registered' = [registered EXCEPT ![b] = {}]
  /\ inbox' = [inbox EXCEPT ![b] = [a \in Agents |-> Empty]]
  /\ locked' = [locked EXCEPT ![b] = [a \in Agents |-> <<>>]]
  /\ op' = [o \in Ops |-> IF op[o].bus = b THEN Idle ELSE op[o]]
  /\ UNCHANGED <<file, torn, sent, strayed, erased>>

\* delete_team_inboxes, which the manager calls when it has unregistered the
\* members and holds the lock under which it calls this bus.
DeleteInboxes(b) ==
  /\ registered[b] = {} /\ \E a \in Agents : Known(file[a]) # {}
  /\ \A o \in Ops : op[o].bus = b => op[o].stopped = 2
  /\ erased' = erased \union UNION {Known(file[a]) : a \in Agents}
  /\ file' = [a \in Agents |-> Empty]
  /\ torn' = {}
  /\ UNCHANGED <<epoch, registered, inbox, locked, op, sent, strayed, faults>>

Steps(o) ==
  \/ Enter(o) \/ AppendLine(o) \/ AppendFails(o) \/ Fails(o) \/ Deliver(o)
  \/ Stage(o) \/ WriteContent(o) \/ WriteFails(o) \/ Marked(o)
  \/ Receipt(o) \/ MarkReturns(o)

Next ==
  \/ \E b \in Buses, a \in Agents :
       \/ Register(b, a) \/ Unregister(b, a) \/ Get(b, a)
       \/ \E o \in Ops, c \in Agents : Send(o, b, c, a)
       \/ \E o \in Ops, which \in {Ids} \union {{i} : i \in Ids} : Mark(o, b, a, which)
  \/ \E b \in Buses : Crash(b) \/ DeleteInboxes(b)
  \/ \E o \in Ops : Steps(o) \/ Cancel(o)

Spec == Init /\ [][Next]_vars
-----------------------------------------------------------------------------
Snapshot == [Ids -> 0..2]
Locking == {"waiting", "appending", "appended", "writing", "written", "failed"}
Stages == Locking \union {"idle", "receipts"}

\* Types, and a call is in the line for its lock exactly until it is done with it.
TypeOK ==
  /\ file \in [Agents -> Snapshot] /\ torn \subseteq Agents
  /\ \A b \in Buses, a \in Agents : epoch[b][a] \in 0..Changes[b][a]
  /\ registered \in [Buses -> SUBSET Agents]
  /\ inbox \in [Buses -> [Agents -> Snapshot]]
  /\ \A b \in Buses, a \in Agents :
       /\ locked[b][a] \in Seq(Ops) /\ IsInjective(locked[b][a])
       /\ ToSet(locked[b][a]) = {o \in Ops : /\ op[o].bus = b /\ op[o].agent = a
                                              /\ op[o].at \in Locking /\ op[o].stopped # 2}
       /\ a \notin registered[b] => inbox[b][a] = Empty
  /\ \A o \in Ops : op[o].at \in Stages /\ op[o].staged \in Snapshot
  /\ strayed \subseteq Ids /\ erased \subseteq Ids /\ faults \in 0..MaxFaults

\* A line that is on disk stays there and its acknowledgement never regresses,
\* whatever stale copies other buses write back; only deleting the inboxes of
\* the team takes it away (_merge_jsonl, _merge_json_line under the file lock).
FilesNeverForget ==
  [][\A a \in Agents, i \in Ids :
       file'[a][i] >= file[a][i] \/ i \in erased']_vars

\* What a bus shows of an inbox never runs ahead of the file: it has no message
\* and no acknowledgement that the next process to start would not find
\* (send, mark_read and refreshes of several buses and generations).
MemoryBehindDisk ==
  \A b \in Buses, a \in Agents, i \in Ids :
    inbox[b][a][i] <= file[a][i] \/ i \in erased

\* A receipt tells a sender only of messages whose acknowledgement is on disk, of
\* its own, and never of a receipt (mark_read, its failed rewrites included).
ReceiptsAreEarned ==
  \A r \in Ids : \A i \in sent[r].of :
    /\ file[sent[r].from][i] = 2 \/ i \in erased
    /\ sent[i].from = sent[r].to /\ sent[i].to = sent[r].from /\ sent[i].of = {}

\* A message reaches a session only in the registration it was sent to: an agent
\* that was removed and added again under the same id is not given what was meant
\* for its predecessor (the epochs of send and mark_read).
OldGenerationsStaySilent == strayed = {}

\* Both: nobody is shown or told what a restart would not find on disk.
DiskComesFirst == MemoryBehindDisk /\ ReceiptsAreEarned
=============================================================================
