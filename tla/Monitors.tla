------------------------------ MODULE Monitors ------------------------------
(***************************************************************************)
(* Background monitors (core/tools/monitor.py) and the dispatcher that     *)
(* gives their notifications to the model (core/events.py).  A monitor is  *)
(* a task that reads the lines of a child process; it ends with the        *)
(* process, by its timeout, by a stop, or with its session.                *)
(*                                                                         *)
(* A session is known by its generation, and `name' is the session id: the *)
(* same id may be resumed.  A notification is the number of a line, or End *)
(* for the message that the monitor ended.  A WebSocket monitor is one     *)
(* without a process.  asyncio.wait_for is taken as it is since Python     *)
(* 3.12: it never swallows a cancellation.                                 *)
(***************************************************************************)
EXTENDS Integers, Sequences, FiniteSets, Functions

CONSTANTS
  Monitors,       \* monitors that are started, each once
  Persistent,     \* those that have no timeout
  Names,          \* session ids
  MaxBatch,       \* notifications in one turn
  MaxLines,       \* bound: lines a monitor reads
  MaxGenerations, \* bound: lifecycles of the session
  MaxFaults       \* bound: stops, cancelled stops, compactions that fail

BoundsOK ==
  /\ IsFiniteSet(Monitors) /\ Persistent \subseteq Monitors /\ Names # {} /\ MaxBatch \in Nat \ {0}
  /\ {MaxLines, MaxGenerations, MaxFaults} \subseteq Nat

VARIABLES
  stage,      \* where the task of a monitor is suspended
  outcome,    \* the status it will report
  doomed,     \* a CancelledError is on its way to it
  process,    \* its child process
  status,     \* snapshot.status
  lines,      \* snapshot.sequence
  born,       \* the generation it was started in
  quiet,      \* suppress_notification
  callers,    \* stop_task calls that wait for it
  abandoned,  \* history: monitors of which such a call was cancelled
  settled,    \* history: monitors whose record such a call finished
  name,       \* CoreSession.session_id
  names,      \* history: session_id of each generation
  target,     \* the session resume is loading
  generation, \* _lifecycle_generation
  closing,    \* how far close() is: 0, the session, the monitors
  turn,       \* who holds the turn lock
  queue,      \* _monitor_notification_queue
  dispatcher, \* where _dispatch_monitor_notifications is
  batch,      \* what it took and has not settled
  given,      \* history: notifications given to the model
  used        \* faults so far

task    == <<stage, outcome, doomed, process, lines, born>>
record  == <<status, quiet, callers, abandoned, settled>>
session == <<name, names, target, generation, closing, turn>>
mail    == <<queue, dispatcher, batch, given>>
vars    == <<task, record, session, mail, used>>

End == 0
Final == {"completed", "failed", "stopped"}
Alive == {m \in Monitors : stage[m] \notin {"none", "done"}}

Init ==
  /\ stage = [m \in Monitors |-> "none"] /\ outcome = [m \in Monitors |-> "none"]
  /\ doomed = {} /\ process = [m \in Monitors |-> "none"]
  /\ status = [m \in Monitors |-> "none"] /\ lines = [m \in Monitors |-> 0]
  /\ born = [m \in Monitors |-> 0] /\ quiet = {}
  /\ callers = [m \in Monitors |-> 0] /\ abandoned = {} /\ settled = {}
  /\ name \in Names /\ names = <<name>> /\ target = name
  /\ generation = 1 /\ closing = 0 /\ turn = "free"
  /\ queue = <<>> /\ dispatcher = "none" /\ batch = <<>> /\ given = <<>>
  /\ used = 0

-----------------------------------------------------------------------------
\* The notification is queued and nobody is woken.
NotifyOnly(m, n) ==
  /\ UNCHANGED dispatcher
  /\ IF closing > 0 \/ names[born[m]] # name THEN UNCHANGED queue
     ELSE queue' = Append(queue, [m |-> m, n |-> n, generation |-> generation])

\* enqueue_monitor_notification
Notify(m, n) ==
  IF closing > 0 \/ names[born[m]] # name THEN UNCHANGED <<queue, dispatcher>>
  ELSE /\ queue' = Append(queue, [m |-> m, n |-> n, generation |-> generation])
       /\ dispatcher' = IF dispatcher = "none" THEN "waiting" ELSE dispatcher

\* _finish
Report(m, st) ==
  /\ status' = [status EXCEPT ![m] = st]
  /\ IF m \in quiet THEN UNCHANGED <<queue, dispatcher>> ELSE Notify(m, End)

\* The tool call Monitor in a turn of the session.
Start(m) ==
  /\ stage[m] = "none" /\ turn \in {"user", "monitor"} /\ closing = 0
  /\ stage' = [stage EXCEPT ![m] = "created"]
  /\ status' = [status EXCEPT ![m] = "running"]
  /\ born' = [born EXCEPT ![m] = generation]
  /\ UNCHANGED <<outcome, doomed, process, lines, quiet, callers, abandoned, settled, session, mail, used>>

Goes(m, from, to) ==
  /\ stage[m] = from /\ m \notin doomed
  /\ stage' = [stage EXCEPT ![m] = to]

Begin(m) ==
  /\ Goes(m, "created", "spawning")
  /\ UNCHANGED <<outcome, doomed, process, lines, born, record, session, mail, used>>

Spawned(m) ==
  /\ Goes(m, "spawning", "reading")
  /\ process' = [process EXCEPT ![m] = "running"]
  /\ UNCHANGED <<outcome, doomed, lines, born, record, session, mail, used>>

Line(m) ==
  /\ stage[m] = "reading" /\ m \notin doomed /\ lines[m] < MaxLines
  /\ lines' = [lines EXCEPT ![m] = @ + 1]
  /\ Notify(m, lines[m] + 1)
  /\ UNCHANGED <<stage, outcome, doomed, process, born, record, session, batch, given, used>>

EndOfOutput(m) ==
  /\ Goes(m, "reading", "exiting")
  /\ UNCHANGED <<outcome, doomed, process, lines, born, record, session, mail, used>>

\* The process ends by itself, or does as SIGTERM says.
Exit(m) ==
  /\ process[m] \in {"running", "dying"}
  /\ process' = [process EXCEPT ![m] = "gone"]
  /\ UNCHANGED <<stage, outcome, doomed, lines, born, record, session, mail, used>>

\* Into the finally clause of _run_source: a process that runs gets SIGTERM
\* and is waited for, otherwise the monitor is finished at once.
Leave(m, st) ==
  /\ outcome' = [outcome EXCEPT ![m] = st]
  /\ IF process[m] = "running"
     THEN /\ stage' = [stage EXCEPT ![m] = "terminating"]
          /\ process' = [process EXCEPT ![m] = "dying"]
          /\ UNCHANGED <<status, queue, dispatcher>>
     ELSE /\ stage' = [stage EXCEPT ![m] = "done"]
          /\ Report(m, st) /\ UNCHANGED process
  /\ UNCHANGED <<lines, born, quiet, callers, abandoned, settled, session, batch, given, used>>

\* The process was waited for, could not be spawned, or took too long.
Ends(m) ==
  /\ m \notin doomed /\ UNCHANGED doomed
  /\ \/ stage[m] = "exiting" /\ process[m] = "gone" /\ \E st \in {"completed", "failed"} : Leave(m, st)
     \/ stage[m] = "spawning" /\ Leave(m, "failed")
TimesOut(m) ==
  /\ m \notin doomed \cup Persistent /\ UNCHANGED doomed
  /\ stage[m] \in {"spawning", "reading", "exiting"} /\ Leave(m, "stopped")

\* SIGKILL, when two seconds were not enough.
Kill(m) ==
  /\ stage[m] = "terminating" /\ m \notin doomed /\ process[m] = "dying"
  /\ process' = [process EXCEPT ![m] = "gone"]
  /\ UNCHANGED <<stage, outcome, doomed, lines, born, record, session, mail, used>>

Terminated(m) ==
  /\ Goes(m, "terminating", "done") /\ process[m] = "gone"
  /\ Report(m, outcome[m])
  /\ UNCHANGED <<outcome, doomed, process, lines, born, quiet, callers, abandoned, settled, session,
                 batch, given, used>>

\* CancelledError arrives: a task that never ran is over, and one that waits
\* for its process is not going to wait, nor to finish the record.
Unwind(m) ==
  /\ m \in doomed /\ doomed' = doomed \ {m}
  /\ \/ /\ stage[m] \in {"created", "terminating"}
        /\ stage' = [stage EXCEPT ![m] = "done"]
        /\ UNCHANGED <<outcome, process, lines, born, record, session, mail, used>>
     \/ stage[m] \in {"spawning", "reading", "exiting"} /\ Leave(m, "stopped")

-----------------------------------------------------------------------------
\* stop_task cancels the task and waits for it.
Stop(m) ==
  /\ m \in Alive /\ used < MaxFaults
  /\ doomed' = doomed \cup {m} /\ callers' = [callers EXCEPT ![m] = @ + 1]
  /\ used' = used + 1
  /\ UNCHANGED <<stage, outcome, process, lines, born, status, quiet, abandoned, settled, session, mail>>

\* stop_task finishes the record whatever the task did.
StopReturnsAlways(m) ==
  /\ callers[m] > 0 /\ stage[m] = "done"
  /\ callers' = [callers EXCEPT ![m] = @ - 1]
  /\ Report(m, "stopped") /\ settled' = settled \cup {m}
  /\ UNCHANGED <<task, quiet, abandoned, session, batch, given, used>>

StopReturns(m) ==
  /\ callers[m] > 0 /\ stage[m] = "done"
  /\ callers' = [callers EXCEPT ![m] = @ - 1]
  /\ IF status[m] = "running" THEN Report(m, "stopped") /\ settled' = settled \cup {m}
     ELSE UNCHANGED <<status, queue, dispatcher, settled>>
  /\ UNCHANGED <<task, quiet, abandoned, session, batch, given, used>>

\* The caller is cancelled, and gather cancels the task once more.
StopCancelled(m) ==
  /\ callers[m] > 0 /\ m \in Alive /\ used < MaxFaults
  /\ callers' = [callers EXCEPT ![m] = @ - 1]
  /\ doomed' = doomed \cup {m} /\ abandoned' = abandoned \cup {m}
  /\ used' = used + 1
  /\ UNCHANGED <<stage, outcome, process, lines, born, status, quiet, settled, session, mail>>

\* cancel_session_now and MonitorManager.close
Cancelled(ms) ==
  /\ status' = [m \in Monitors |-> IF m \in ms THEN "stopped" ELSE status[m]]
  /\ quiet' = quiet \cup ms /\ doomed' = doomed \cup ms

Own == {m \in Alive : names[born[m]] = name}

-----------------------------------------------------------------------------
TurnBegins ==
  /\ turn = "free" /\ dispatcher # "locking" /\ closing = 0
  /\ turn' = "user"
  /\ dispatcher' = IF dispatcher = "none" /\ queue # <<>> THEN "waiting" ELSE dispatcher
  /\ UNCHANGED <<task, record, name, names, target, generation, closing, queue, batch, given, used>>

TurnEnds ==
  /\ turn = "user" /\ turn' = "free"
  /\ UNCHANGED <<task, record, name, names, target, generation, closing, mail, used>>

\* new_session: nobody holds the turn lock, but the dispatcher may be next.
NewSession ==
  /\ turn = "free" /\ closing = 0 /\ generation < MaxGenerations
  /\ generation' = generation + 1 /\ name' \in Names \ Range(names)
  /\ names' = Append(names, name')
  /\ Cancelled(Own) /\ queue' = <<>>
  /\ UNCHANGED <<stage, outcome, process, lines, born, callers, abandoned, settled, target, closing, turn,
                 dispatcher, batch, given, used>>

\* resume ends the old lifecycle first, and takes the new id when it has
\* waited for what it detached.
Resume(s) ==
  /\ turn = "free" /\ dispatcher # "locking" /\ closing = 0 /\ generation < MaxGenerations
  /\ turn' = "resume" /\ target' = s
  /\ generation' = generation + 1 /\ names' = Append(names, s)
  /\ Cancelled(Own)
  /\ UNCHANGED <<stage, outcome, process, lines, born, callers, abandoned, settled, name, closing, mail, used>>

Resumed ==
  /\ turn = "resume" /\ turn' = "free"
  /\ name' = target /\ queue' = <<>>
  /\ UNCHANGED <<task, record, names, target, generation, closing, dispatcher, batch, given, used>>

\* close() ends the turn and the dispatcher; the tools come last.
Close ==
  /\ closing = 0 /\ closing' = 1
  /\ turn' = "free" /\ queue' = <<>> /\ dispatcher' = "none" /\ batch' = <<>>
  /\ UNCHANGED <<task, record, name, names, target, generation, given, used>>

CloseMonitors ==
  /\ closing = 1 /\ closing' = 2
  /\ Cancelled(Alive)
  /\ UNCHANGED <<stage, outcome, process, lines, born, callers, abandoned, settled, name, names, target,
                 generation, turn, mail, used>>

-----------------------------------------------------------------------------
\* The dispatcher takes what has come within 50 ms.
Take ==
  /\ dispatcher = "waiting" /\ queue # <<>>
  /\ dispatcher' = "sleeping" /\ batch' = <<Head(queue)>> /\ queue' = Tail(queue)
  /\ UNCHANGED <<task, record, session, given, used>>

Collect ==
  /\ dispatcher = "sleeping"
  /\ LET n == IF Len(queue) < MaxBatch - 1 THEN Len(queue) ELSE MaxBatch - 1
     IN /\ batch' = batch \o SubSeq(queue, 1, n)
        /\ queue' = SubSeq(queue, n + 1, Len(queue))
  /\ dispatcher' = "grouping"
  /\ UNCHANGED <<task, record, session, given, used>>

\* The items of a list at some of its places, in order.
Picked(s, places) ==
  [k \in 1..Cardinality(places) |-> s[CHOOSE i \in places : Cardinality({j \in places : j <= i}) = k]]

\* The notifications of one lifecycle, and those of the others.
Group == Picked(batch, {i \in DOMAIN batch : batch[i].generation = Head(batch).generation})
Rest == Picked(batch, {i \in DOMAIN batch : batch[i].generation # Head(batch).generation})
Current == closing = 0 /\ Head(batch).generation = generation

NextGroup ==
  /\ dispatcher = "grouping"
  /\ dispatcher' = IF batch = <<>> THEN "waiting" ELSE IF Current THEN "locking" ELSE "grouping"
  /\ batch' = IF batch = <<>> \/ Current THEN batch ELSE Rest
  /\ UNCHANGED <<task, record, session, queue, given, used>>

\* It does not look again.
LockBlind ==
  /\ dispatcher = "locking" /\ turn = "free"
  /\ dispatcher' = "turn" /\ turn' = "monitor" /\ UNCHANGED batch
  /\ given' = given \o [i \in DOMAIN Group |-> [note |-> Group[i], at |-> generation]]
  /\ UNCHANGED <<task, record, name, names, target, generation, closing, queue, used>>

\* It has the turn lock, and looks again.
Lock ==
  /\ dispatcher = "locking" /\ turn = "free"
  /\ IF Current
     THEN /\ dispatcher' = "turn" /\ turn' = "monitor" /\ UNCHANGED batch
          /\ given' = given \o [i \in DOMAIN Group |-> [note |-> Group[i], at |-> generation]]
     ELSE dispatcher' = "grouping" /\ batch' = Rest /\ UNCHANGED <<turn, given>>
  /\ UNCHANGED <<task, record, name, names, target, generation, closing, queue, used>>

TurnDone ==
  /\ dispatcher = "turn" /\ dispatcher' = "grouping"
  /\ turn' = "free" /\ batch' = Rest
  /\ UNCHANGED <<task, record, name, names, target, generation, closing, queue, given, used>>

\* The compaction at the end of the turn raises, and the dispatcher is over.
Dies ==
  /\ dispatcher = "turn" /\ used < MaxFaults
  /\ dispatcher' = "none" /\ turn' = "free" /\ batch' = <<>> /\ used' = used + 1
  /\ UNCHANGED <<task, record, name, names, target, generation, closing, queue, given>>

-----------------------------------------------------------------------------
Running(m) ==
  Begin(m) \/ Spawned(m) \/ Ends(m) \/ Kill(m) \/ Terminated(m) \/ Unwind(m) \/ StopReturns(m)
Dispatch == Take \/ Collect \/ NextGroup \/ Lock \/ TurnDone
Turns == TurnEnds \/ Resumed \/ CloseMonitors

Next ==
  \/ \E m \in Monitors : \/ Start(m) \/ Running(m) \/ Line(m) \/ EndOfOutput(m) \/ Exit(m)
                         \/ TimesOut(m) \/ Stop(m) \/ StopCancelled(m)
  \/ TurnBegins \/ Turns \/ NewSession \/ \E s \in Names : Resume(s)
  \/ Close \/ Dispatch \/ Dies

Spec == Init /\ [][Next]_vars

\* The event loop runs what is ready, turns end, and close() goes on.  The lock
\* is given in the order of asking, so a turn that begins does not overtake the
\* dispatcher.  Nothing makes a process exit, print or close its output.
FairSpec ==
  /\ Spec /\ WF_vars(Dispatch) /\ WF_vars(Turns)
  /\ \A m \in Monitors : WF_vars(Running(m))

-----------------------------------------------------------------------------
TypeOK ==
  /\ stage \in [Monitors -> {"none", "created", "spawning", "reading", "exiting", "terminating", "done"}]
  /\ outcome \in [Monitors -> Final \cup {"none"}] /\ doomed \subseteq Monitors
  /\ process \in [Monitors -> {"none", "running", "dying", "gone"}]
  /\ status \in [Monitors -> Final \cup {"none", "running"}]
  /\ lines \in [Monitors -> 0..MaxLines] /\ born \in [Monitors -> 0..MaxGenerations]
  /\ quiet \subseteq Monitors /\ callers \in [Monitors -> Nat] /\ abandoned \subseteq Monitors
  /\ {name, target} \subseteq Names /\ names \in Seq(Names) /\ generation = Len(names)
  /\ closing \in 0..2 /\ turn \in {"free", "user", "resume", "monitor"}
  /\ dispatcher \in {"none", "waiting", "sleeping", "grouping", "locking", "turn"}
  /\ \A e \in Range(queue) \cup Range(batch) : e.m \in Monitors /\ e.n \in 0..MaxLines
  /\ used \in 0..MaxFaults

\* What the model heard of a monitor in the monitor's lifecycle.
Heard(m) == {i \in DOMAIN given : given[i].note.m = m /\ given[i].at = born[m]}
HeardBefore(m, i) == {given[j].note.n : j \in {j \in Heard(m) : j < i}}

\* The model hears the lines of a monitor in order, each once and none left out,
\* and that it ended at most once, behind its last line: whatever raced to end it.
HeardInOrder ==
  \A m \in Monitors : \A i \in Heard(m) :
    LET n == given[i].note.n
    IN \/ n = End /\ HeardBefore(m, i) = 1..lines[m]
       \/ n \in 1..lines[m] /\ HeardBefore(m, i) = 1..n - 1

\* What a monitor says reaches the lifecycle it was started in and no later one,
\* also when the same session id is resumed while the monitor unwinds.  Only a
\* stop_task that returns just behind the resume still says that it stopped it.
HeardInItsLifecycle ==
  \A i \in DOMAIN given :
    \/ given[i].at = born[given[i].note.m]
    \/ given[i].note.n = End /\ given[i].note.m \in settled

\* A monitor whose task is over has a final status, unless a stop is about to
\* write it or the caller of a stop was itself cancelled.
OverIsRecorded ==
  \A m \in Monitors \ abandoned :
    stage[m] = "done" /\ callers[m] = 0 => status[m] \in Final

\* Notifications do not stay in the queue: the session's turns take them, unless
\* the dispatcher died of a compaction.
QueueMovesOn == []<>(queue = <<>> \/ used > 0)

\* When the session is closed, every process of its monitors comes to an end:
\* a persistent monitor runs until TaskStop or session end.
NoProcessOutlivesSession ==
  closing = 2 ~> \A m \in Monitors : process[m] \in {"none", "gone"}
=============================================================================
