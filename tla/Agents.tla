------------------------------- MODULE Agents -------------------------------
(***************************************************************************)
(* The managed sub-agents of a conversation (core/agent_manager.py), and   *)
(* what CoreSession does to them when it changes sessions or closes        *)
(* (core/events.py).                                                       *)
(*                                                                         *)
(* An agent id names a run object: a snapshot that is written to disk, an  *)
(* asyncio task, and the events its waiters wait for.  A run is controlled *)
(* by several coroutines at once: its own task, spawn_agent, cancel_agent  *)
(* and send_input (one of the last two at a time, under control_lock), and *)
(* session switches, which disown every run and bring others from disk.    *)
(*                                                                         *)
(* One step is what runs between two awaits.  task.cancel() is a flag that *)
(* is thrown at the task's next step.                                      *)
(***************************************************************************)
EXTENDS Integers, FiniteSets

CONSTANTS
  Agents,          \* agent ids; an id is spawned once
  Copies,          \* bound: run objects of an id that exist at a time
  Sessions,        \* session ids
  MaxConcurrency,  \* agent_settings.max_concurrency
  MaxActive,       \* agent_settings.max_active_agents_per_run
  Steered,         \* bound: agents that are cancelled, continued, spawned without
                   \* a callback, or see a switch
  MaxEpoch,        \* bound: callback epochs of an agent
  MaxSwitches,     \* bound: session switches and restarts together
  Allowed,         \* what may happen around a resume that the properties exclude
  None

\* "close": the session is closed; "input": a send_input under way is cancelled;
\* "reload": the session itself is resumed while an input is being queued.
ASSUME AllowedAssumption == Allowed \subseteq {"close", "input", "reload"}
ASSUME LimitsAssumption ==
  /\ MaxConcurrency \in Nat \ {0} /\ MaxActive \in Nat
  /\ MaxEpoch \in Nat /\ MaxSwitches \in Nat
ASSUME FiniteAssumption ==
  /\ IsFiniteSet(Agents) /\ IsFiniteSet(Copies)
  /\ Copies # {} /\ Sessions # {}
ASSUME NoneAssumption == None \notin Sessions \union (Agents \X Copies)

VARIABLES
  session,   \* the manager's session id
  storage,   \* the session whose storage the manager's callbacks write to
  gen,       \* _session_generation, counted on over restarts
  life,      \* "open", "leaving" (the session is closing), then its manager:
             \* "closing", "draining" and "closed"
  resuming,  \* the resume that waits for detached tasks: its target or None
  loaded,    \* the snapshots it has loaded
  runOf,     \* _runs
  run,       \* the run objects
  disk,      \* the agent snapshots stored in each session
  outbox,    \* completions handed to the session's dispatcher
  known      \* history: whether spawn_agent has been called, and has returned

vars == <<session, storage, gen, life, resuming, loaded, runOf, run, disk, outbox, known>>
switchVars == <<session, storage, gen, life, resuming, loaded>>

Runs == Agents \X Copies
Terminal == {"completed", "failed", "stopped"}
Executing == {"starting", "querying", "ending", "handling", "releasing"}

\* woken: who set done_event; ctl: where cancel_agent or send_input is;
\* told: history, completions announced for this execution.
Blank ==
  [ses |-> None, gen |-> 0, status |-> "queued", woken |-> "no", detached |-> FALSE,
   tracked |-> FALSE, cb |-> "disabled", epoch |-> 0, start |-> FALSE,
   spawning |-> FALSE, phase |-> "none", hit |-> FALSE, ctl |-> "free", told |-> 0]

NoSnap == [status |-> "none", cb |-> "disabled", epoch |-> 0]
Nothing == [a \in Agents |-> NoSnap]

FreeCopy(a, rr) == CHOOSE o \in Runs : o[1] = a /\ rr[o] = Blank

Done(r) == r.woken # "no"
Live(r) == r.phase \notin {"none", "over"}
Woken(r, by) == IF Done(r) THEN r ELSE [r EXCEPT !.woken = by]

\* start_event.set(); task.cancel()
Cancelled(r) == [r EXCEPT !.start = TRUE, !.hit = Live(r)]

\* _is_current_run
Current(o) ==
  /\ life \in {"open", "leaving"} /\ ~run[o].detached
  /\ runOf[o[1]] = o
  /\ run[o].ses = session /\ run[o].gen = gen

\* list_agents, as it is written
Listed(rr) ==
  [a \in Agents |->
     LET r == rr[runOf[a]]
     IN IF runOf[a] # None /\ r.ses = session
        THEN [status |-> r.status, cb |-> r.cb, epoch |-> r.epoch] ELSE NoSnap]

\* _persist
Persisted(rr) == [disk EXCEPT ![storage] = Listed(rr)]
PersistedIf(p, rr) == IF p THEN Persisted(rr) ELSE disk

\* An object that nobody refers to is gone.
Swept(rr, map) ==
  [o \in Runs |->
     LET r == rr[o]
     IN IF map[o[1]] # o /\ ~Live(r) /\ r.ctl = "free" /\ ~r.spawning THEN Blank ELSE r]

Init ==
  /\ session = CHOOSE s \in Sessions : TRUE
  /\ storage = session
  /\ gen = 0 /\ life = "open" /\ resuming = None /\ loaded = Nothing
  /\ runOf = [a \in Agents |-> None]
  /\ run = [o \in Runs |-> Blank]
  /\ disk = [s \in Sessions |-> Nothing]
  /\ outbox = {}
  /\ known = [a \in Agents |-> "unborn"]

\* A step that changes one run object.
Set(o, r) == run' = Swept([run EXCEPT ![o] = r], runOf) /\ UNCHANGED runOf
-----------------------------------------------------------------------------
\* spawn_agent up to the delivery of its first state event: the slot is
\* reserved and the task created before anything is awaited.
Spawn(a, callback) ==
  LET active == {b \in Agents : runOf[b] # None /\ ~Done(run[runOf[b]])}
      o == FreeCopy(a, run)
  IN /\ life \in {"open", "leaving"} /\ resuming = None
     /\ known[a] = "unborn" /\ (a \in Steered \/ (gen = 0 /\ callback))
     /\ Cardinality(active) < MaxActive
     /\ runOf' = [runOf EXCEPT ![a] = o]
     /\ run' = [run EXCEPT ![o] =
          [Blank EXCEPT !.ses = session, !.gen = gen, !.spawning = TRUE, !.phase = "new",
                        !.cb = IF callback THEN "pending" ELSE "disabled"]]
     /\ known' = [known EXCEPT ![a] = "born"]
     /\ UNCHANGED <<switchVars, disk, outbox>>

\* The event was delivered, and the session is still the same.
SpawnReturns(o) ==
  LET r == [run[o] EXCEPT !.start = TRUE, !.spawning = FALSE]
  IN /\ run[o].spawning /\ Current(o)
     /\ Set(o, r)
     /\ disk' = Persisted([run EXCEPT ![o] = r])
     /\ known' = [known EXCEPT ![o[1]] = "returned"]
     /\ UNCHANGED <<switchVars, outbox>>

\* The caller is cancelled, or finds that the session has changed.
SpawnFails(o) ==
  LET r == Woken([Cancelled(run[o]) EXCEPT !.detached = TRUE, !.spawning = FALSE], "caller")
      map == IF runOf[o[1]] = o THEN [runOf EXCEPT ![o[1]] = None] ELSE runOf
  IN /\ run[o].spawning
     /\ runOf' = map
     /\ run' = Swept([run EXCEPT ![o] = r], map)
     /\ UNCHANGED <<switchVars, disk, outbox, known>>
-----------------------------------------------------------------------------
(* The task of a run.  Wherever run.cancelled is set the task is cancelled *)
(* too, so of the test after start_event.wait() only done_event decides.   *)

Ready(o, phase) == run[o].phase = phase /\ ~run[o].hit

Goto(o, phase) ==
  /\ Set(o, [run[o] EXCEPT !.phase = phase])
  /\ UNCHANGED <<switchVars, disk, outbox, known>>

Begin(o) == Ready(o, "new") /\ Goto(o, "parked")
Enter(o) ==
  /\ Ready(o, "parked") /\ run[o].start
  /\ Goto(o, IF Done(run[o]) THEN "over" ELSE "slot")

\* The holders of the semaphore.
Occupied == {p \in Runs : run[p].phase \in Executing}

\* The semaphore has room: _emit_state("running").
Acquire(o) ==
  /\ Ready(o, "slot")
  /\ Cardinality(Occupied) < MaxConcurrency
  /\ Set(o, [run[o] EXCEPT !.phase = "starting", !.status = "running"])
  /\ UNCHANGED <<switchVars, disk, outbox, known>>

\* A state event was delivered: _emit_state persists if the run is current.
Emitted(o) ==
  \E p \in {<<"starting", "querying">>, <<"ending", "releasing">>, <<"handling", "releasing">>} :
    /\ Ready(o, p[1])
    /\ Set(o, [run[o] EXCEPT !.phase = p[2]])
    /\ disk' = PersistedIf(Current(o), run)
    /\ UNCHANGED <<switchVars, outbox, known>>

\* The query loads a tool, which is persisted unless the run is disowned.
ToolsLoaded(o) ==
  /\ Ready(o, "querying") /\ ~run[o].detached
  /\ disk' = Persisted(run)
  /\ UNCHANGED <<switchVars, runOf, run, outbox, known>>

\* The query ends, ends with an error event, or raises.
QueryEnds(o) ==
  \E end \in {<<"completed", "ending">>, <<"failed", "ending">>, <<"failed", "handling">>} :
    /\ Ready(o, "querying")
    /\ Set(o, [run[o] EXCEPT !.status = end[1], !.phase = end[2]])
    /\ UNCHANGED <<switchVars, disk, outbox, known>>

\* done_event.set(); _emit_completion, which a session that is closing ignores.
Settled(o, r) ==
  LET owed == Current(o) /\ life = "open" /\ run[o].cb = "pending"
  IN /\ Set(o, [Woken(r, "run") EXCEPT !.told = IF owed THEN @ + 1 ELSE @])
     /\ outbox' = IF owed THEN outbox \union {<<o[1], run[o].epoch>>} ELSE outbox

Over(o) == [run[o] EXCEPT !.phase = "over", !.hit = FALSE]

\* _run_agent's finally: the release is awaited, and may be cancelled too.
Released(o) ==
  /\ run[o].phase = "releasing"
  /\ Settled(o, Over(o))
  /\ UNCHANGED <<switchVars, disk, known>>

\* _finalize_cancelled_run, once its state event is delivered.
Finalized(o) ==
  /\ Ready(o, "finalizing")
  /\ Settled(o, Over(o))
  /\ disk' = PersistedIf(Current(o), run)
  /\ UNCHANGED <<switchVars, known>>

\* A cancellation arrives.  A task that never ran ends without a word; one that
\* waits for its start or its slot, and one that runs, emit a last state.
Thrown(o) ==
  LET r == run[o]
      thrown == [r EXCEPT !.hit = FALSE]
  IN /\ r.hit /\ UNCHANGED <<switchVars, disk, known>>
     /\ \/ /\ \/ r.phase = "new"
              \/ r.phase \in {"parked", "slot"} /\ Done(r)
           /\ Set(o, Over(o)) /\ UNCHANGED outbox
        \/ /\ r.phase \in {"parked", "slot"} /\ ~Done(r)
           /\ Set(o, [thrown EXCEPT !.phase = "finalizing", !.status = "stopped"])
           /\ UNCHANGED outbox
        \/ /\ r.phase \in {"starting", "querying", "ending"}
           /\ Set(o, [thrown EXCEPT !.phase = "handling", !.status = "stopped"])
           /\ UNCHANGED outbox
        \/ /\ r.phase = "handling"
           /\ Set(o, [thrown EXCEPT !.phase = "releasing"]) /\ UNCHANGED outbox
        \/ r.phase = "finalizing" /\ Settled(o, Over(o))
-----------------------------------------------------------------------------
(* wait_agent, cancel_agent and send_input.                                *)

\* wait_agent, wait_any: the fence for a task that ended without its event.
Fence(o) ==
  /\ runOf[o[1]] = o /\ run[o].ses = session
  /\ run[o].phase = "over" /\ ~Done(run[o])
  /\ Set(o, Woken(run[o], "waiter"))
  /\ UNCHANGED <<switchVars, disk, outbox, known>>

\* The control lock is free, and the run is still the session's.
Controllable(o) == run[o].ctl = "free" /\ Current(o) /\ o[1] \in Steered

CancelAgent(o) ==
  /\ Controllable(o) /\ Live(run[o])
  /\ Set(o, [Cancelled(run[o]) EXCEPT !.ctl = "cancelling"])
  /\ UNCHANGED <<switchVars, disk, outbox, known>>

\* The caller of cancel_agent or send_input is cancelled while it awaits the
\* task: that cancels the task, again, and the caller's own exception is caught.
CallerCancelled(o) ==
  /\ run[o].ctl \in {"cancelling", "interrupting"} /\ Live(run[o]) /\ ~run[o].hit
  /\ Set(o, Cancelled(run[o]))
  /\ UNCHANGED <<switchVars, disk, outbox, known>>

\* Mutant: the run is settled though its task has done it.
CancelDoneAgain(o) ==
  /\ run[o].ctl = "cancelling" /\ ~Live(run[o])
  /\ Set(o, IF Current(o) THEN [run[o] EXCEPT !.ctl = "finalizing", !.status = "stopped"]
                          ELSE [run[o] EXCEPT !.ctl = "free"])
  /\ UNCHANGED <<switchVars, disk, outbox, known>>

\* The task has ended: one that never ran is settled here.
CancelDone(o) ==
  LET settle == Current(o) /\ ~Done(run[o])
  IN /\ run[o].ctl = "cancelling" /\ ~Live(run[o])
     /\ Set(o, IF settle THEN [run[o] EXCEPT !.ctl = "finalizing", !.status = "stopped"]
                         ELSE [run[o] EXCEPT !.ctl = "free"])
     /\ UNCHANGED <<switchVars, disk, outbox, known>>

\* Its event is delivered, or the caller is cancelled and nothing is persisted.
CancelFinalized(o) ==
  /\ run[o].ctl = "finalizing"
  /\ Settled(o, [run[o] EXCEPT !.ctl = "free"])
  /\ \E delivered \in BOOLEAN : disk' = PersistedIf(delivered /\ Current(o), run)
  /\ UNCHANGED <<switchVars, known>>

\* An agent that still owes its parent the result of its last run.
InDebt(r) == r.status \in Terminal /\ r.cb \in {"pending", "injected"}

Interrupt(o) ==
  /\ Controllable(o) /\ Live(run[o]) /\ ~InDebt(run[o])
  /\ run[o].cb # "disabled" => run[o].epoch < MaxEpoch
  /\ Set(o, [Cancelled(run[o]) EXCEPT !.ctl = "interrupting"])
  /\ UNCHANGED <<switchVars, disk, outbox, known>>

InterruptVoid(o) ==
  /\ run[o].ctl = "interrupting" /\ ~Live(run[o]) /\ ~Current(o)
  /\ Set(o, [run[o] EXCEPT !.ctl = "free"])
  /\ UNCHANGED <<switchVars, disk, outbox, known>>

\* The input is recorded, and the state event on its way.  again: the message
\* was recorded before, and its run ended without a reply.
SendInput(o, again) ==
  LET r == run[o]
      renewed == r.cb # "disabled" /\ ~again
  IN /\ Current(o) /\ ~Live(r)
     /\ \/ Controllable(o) /\ (again \/ ~InDebt(r))
        \/ r.ctl = "interrupting" /\ ~again
     /\ again => r.epoch > 0 /\ r.status \in {"failed", "stopped"}
     /\ renewed => r.epoch < MaxEpoch
     /\ Set(o, [r EXCEPT !.ctl = "queueing", !.woken = "no", !.told = 0, !.status = "queued",
                         !.start = FALSE, !.epoch = IF renewed THEN @ + 1 ELSE @,
                         !.cb = IF renewed THEN "pending" ELSE @])
     /\ UNCHANGED <<switchVars, disk, outbox, known>>

\* Mutant: the queued state is not persisted.
QueuedUnpersisted(o) ==
  LET r == [run[o] EXCEPT !.ctl = "free", !.start = TRUE]
  IN /\ run[o].ctl = "queueing"
     /\ Set(o, IF Current(o) THEN [r EXCEPT !.phase = "new"] ELSE Woken(r, "input"))
     /\ UNCHANGED <<switchVars, disk, outbox, known>>

\* The event is delivered: a new task, unless the session has changed.
Queued(o) ==
  LET r == [run[o] EXCEPT !.ctl = "free", !.start = TRUE]
  IN /\ run[o].ctl = "queueing"
     /\ Set(o, IF Current(o) THEN [r EXCEPT !.phase = "new"] ELSE Woken(r, "input"))
     /\ disk' = PersistedIf(Current(o), run)
     /\ UNCHANGED <<switchVars, outbox, known>>

\* The caller is cancelled; _persist is called whatever the session is.
QueueFails(o) ==
  LET r == Woken([run[o] EXCEPT !.ctl = "free", !.start = TRUE], "input")
      rr == [run EXCEPT ![o] = IF r.detached THEN r ELSE [r EXCEPT !.status = "stopped"]]
  IN /\ run[o].ctl = "queueing"
     /\ resuming = None \/ "input" \in Allowed
     /\ Set(o, rr[o]) /\ disk' = Persisted(rr)
     /\ UNCHANGED <<switchVars, outbox, known>>
-----------------------------------------------------------------------------
(* What the session's dispatcher does with a completion: it marks it       *)
(* injected before, and delivered after, the parent's turn, and drops it   *)
(* when that turn fails.                                                   *)

Dispatch(d) ==
  LET o == runOf[d[1]]
      mark(from, to) ==
        /\ o # None /\ run[o].cb = from /\ run[o].ses = session /\ run[o].epoch = d[2]
        /\ Set(o, [run[o] EXCEPT !.cb = to])
        /\ disk' = Persisted([run EXCEPT ![o].cb = to])
  IN /\ life = "open" /\ resuming = None
     /\ \/ mark("pending", "injected") /\ UNCHANGED outbox
        \/ mark("injected", "delivered") /\ outbox' = outbox \ {d}
        \/ outbox' = outbox \ {d} /\ UNCHANGED <<run, runOf, disk>>
     /\ UNCHANGED <<switchVars, known>>
-----------------------------------------------------------------------------
(* Session switches.                                                       *)

\* Mutant: the runs are disowned, and their tasks left to themselves.
AbandonedRunning(rr) ==
  [o \in Runs |->
     LET r == rr[o]
     IN IF runOf[o[1]] # o \/ Done(r) THEN r
        ELSE [Woken([r EXCEPT !.start = TRUE], "switch") EXCEPT
                !.detached = TRUE, !.tracked = Live(r),
                !.status = IF @ \in Terminal THEN @ ELSE "stopped"]]

\* abandon_active_agents, which persists if it changes anything.
Abandoned(rr) ==
  [o \in Runs |->
     LET r == rr[o]
     IN IF runOf[o[1]] # o \/ Done(r) THEN r
        ELSE [Woken(Cancelled(r), "switch") EXCEPT
                !.detached = TRUE, !.tracked = Live(r),
                !.status = IF @ \in Terminal THEN @ ELSE "stopped"]]
AbandonedDisk == PersistedIf(Abandoned(run) # run, Abandoned(run))

\* restore_snapshots: what it does to the runs it drops ...
Dropped(rr) ==
  [o \in Runs |->
     LET r == rr[o]
     IN IF runOf[o[1]] # o THEN r
        ELSE LET w == Woken(r, "switch")
             IN IF Live(r)
                THEN [Cancelled(w) EXCEPT !.detached = TRUE, !.tracked = TRUE, !.cb = "disabled"]
                ELSE w]

\* ... and what it makes of the snapshots of session s.
Ended(n) == IF n.status \in {"queued", "running"} THEN [n EXCEPT !.status = "stopped"] ELSE n

Restored(s, g, snaps, rr) ==
  LET map == [a \in Agents |-> IF snaps[a] = NoSnap THEN None ELSE FreeCopy(a, rr)]
      written == [a \in Agents |-> Ended(snaps[a])]
  IN /\ \A a \in Agents : \E o \in Runs : o[1] = a /\ rr[o] = Blank
     /\ runOf' = map
     /\ run' = [o \in Runs |->
          IF map[o[1]] # o THEN rr[o]
          ELSE [Blank EXCEPT !.ses = s, !.gen = g, !.woken = "restore", !.cb = snaps[o[1]].cb,
                             !.status = written[o[1]].status, !.epoch = snaps[o[1]].epoch]]
     /\ disk' = IF written = snaps THEN disk ELSE [disk EXCEPT ![s] = written]
     /\ outbox' = {d \in Agents \X (0..MaxEpoch) :
                     snaps[d[1]].cb \in {"pending", "injected"} /\ snaps[d[1]].epoch = d[2]}

Nobody == [a \in Agents |-> None]

MaySwitch == gen < MaxSwitches /\ \A a \in Agents \ Steered : known[a] = "unborn"

\* CoreSession.new_session, which awaits nothing.
NewSession(s) ==
  /\ life = "open" /\ resuming = None /\ MaySwitch
  /\ s # session /\ disk[s] = Nothing
  /\ runOf' = Nobody
  /\ run' = Swept(Dropped(Abandoned(run)), Nobody)
  /\ disk' = AbandonedDisk
  /\ session' = s /\ storage' = s /\ gen' = gen + 1 /\ outbox' = {}
  /\ UNCHANGED <<life, resuming, loaded, known>>

\* CoreSession.resume, up to the wait for the tasks it has disowned: the
\* snapshots are read first; the storage is still that of the old session.
ResumeBegin(s) ==
  /\ life = "open" /\ resuming = None /\ MaySwitch
  /\ \/ s # session \/ "reload" \in Allowed
     \/ \A o \in Runs : runOf[o[1]] = o => run[o].ctl # "queueing"
  /\ loaded' = disk[s] /\ resuming' = s
  /\ run' = Abandoned(run)
  /\ disk' = AbandonedDisk
  /\ session' = s /\ gen' = gen + 1 /\ outbox' = {}
  /\ UNCHANGED <<storage, life, runOf, known>>

\* Mutant: the disowned tasks are not waited for.
ResumeEndsEarly ==
  /\ resuming # None
  /\ Restored(session, gen, loaded, Swept(Dropped(run), Nobody))
  /\ storage' = session /\ resuming' = None /\ loaded' = Nothing
  /\ UNCHANGED <<session, gen, life, known>>

\* No disowned task is left: the storage is switched and the snapshots restored.
ResumeEnds ==
  /\ resuming # None
  /\ \A o \in Runs : run[o].tracked => ~Live(run[o])
  /\ Restored(session, gen, loaded, Swept(Dropped(run), Nobody))
  /\ storage' = session /\ resuming' = None /\ loaded' = Nothing
  /\ UNCHANGED <<session, gen, life, known>>

\* The process ends, at any moment, and another one resumes session s.
Restart(s) ==
  /\ MaySwitch
  /\ Restored(s, gen + 1, disk[s], [o \in Runs |-> Blank])
  /\ session' = s /\ storage' = s /\ gen' = gen + 1
  /\ life' = "open" /\ resuming' = None /\ loaded' = Nothing
  /\ UNCHANGED known
-----------------------------------------------------------------------------
(* CoreSession.close and AgentManager.close.                               *)

\* The session is closed to everybody else: its resume and its dispatcher are
\* cancelled first.
Close ==
  /\ life = "open" /\ (resuming = None \/ "close" \in Allowed)
  /\ life' = "leaving" /\ resuming' = None /\ loaded' = Nothing /\ outbox' = {}
  /\ UNCHANGED <<session, storage, gen, runOf, run, disk, known>>

CloseManager ==
  /\ life = "leaving" /\ life' = "closing"
  /\ UNCHANGED <<session, storage, gen, resuming, loaded, runOf, run, disk, outbox, known>>

\* Mutant: close cancels the tasks but does not own them.
CloseMarksForgetting ==
  LET Marked(o) ==
        LET r == run[o]
        IN CASE runOf[o[1]] = o /\ ~Done(r) /\ Live(r) -> [Cancelled(r) EXCEPT !.detached = TRUE]
             [] runOf[o[1]] = o /\ ~Live(r) -> Woken(r, "close")
             [] OTHER -> [r EXCEPT !.hit = @ \/ (r.tracked /\ Live(r))]
  IN /\ life = "closing" /\ life' = "draining"
     /\ run' = [o \in Runs |-> Marked(o)]
     /\ UNCHANGED <<session, storage, gen, resuming, loaded, runOf, disk, outbox, known>>

\* _close_impl cancels the tasks of the runs that are not done, and the tasks
\* that were disowned before.
CloseMarks ==
  LET Marked(o) ==
        LET r == run[o]
        IN CASE runOf[o[1]] = o /\ ~Done(r) /\ Live(r) ->
                  [Cancelled(r) EXCEPT !.detached = TRUE, !.tracked = TRUE]
             [] runOf[o[1]] = o /\ ~Live(r) -> Woken(r, "close")
             [] OTHER -> [r EXCEPT !.hit = @ \/ (r.tracked /\ Live(r))]
  IN /\ life = "closing" /\ life' = "draining"
     /\ run' = [o \in Runs |-> Marked(o)]
     /\ UNCHANGED <<session, storage, gen, resuming, loaded, runOf, disk, outbox, known>>

\* They have ended: what is left is settled, and everything persisted.
CloseDone ==
  LET Closed(o) ==
        LET r == run[o]
        IN IF runOf[o[1]] # o \/ Done(r) THEN r
           ELSE [Woken(r, "close") EXCEPT !.status = IF r.tracked THEN "stopped" ELSE @]
      rr == [o \in Runs |-> Closed(o)]
  IN /\ life = "draining" /\ life' = "closed"
     /\ \A o \in Runs : run[o].tracked => ~Live(run[o])
     /\ run' = rr /\ disk' = Persisted(rr)
     /\ UNCHANGED <<session, storage, gen, resuming, loaded, runOf, outbox, known>>
-----------------------------------------------------------------------------
TaskStep(o) ==
  \/ Begin(o) \/ Enter(o) \/ Acquire(o) \/ Emitted(o) \/ Released(o) \/ Finalized(o) \/ Thrown(o)

\* What a coroutine that controls the run does when its await is over.
CallerStep(o) ==
  \/ SpawnReturns(o) \/ SpawnFails(o) \/ CancelDone(o) \/ CancelFinalized(o)
  \/ InterruptVoid(o) \/ (run[o].ctl = "interrupting" /\ SendInput(o, FALSE))
  \/ Queued(o) \/ QueueFails(o)

CloseStep == CloseManager \/ CloseMarks \/ CloseDone

Next ==
  \/ \E a \in Agents, callback \in BOOLEAN : Spawn(a, callback)
  \/ \E o \in Runs :
       \/ SpawnReturns(o) \/ SpawnFails(o)
       \/ Begin(o) \/ Enter(o) \/ Acquire(o) \/ Emitted(o) \/ ToolsLoaded(o) \/ QueryEnds(o)
       \/ Released(o) \/ Finalized(o) \/ Thrown(o)
       \/ Fence(o) \/ CancelAgent(o) \/ CallerCancelled(o) \/ CancelDone(o) \/ CancelFinalized(o)
       \/ Interrupt(o) \/ InterruptVoid(o) \/ \E again \in BOOLEAN : SendInput(o, again)
       \/ Queued(o) \/ QueueFails(o)
  \/ \E d \in outbox : Dispatch(d)
  \/ \E s \in Sessions : NewSession(s) \/ ResumeBegin(s) \/ Restart(s)
  \/ ResumeEnds
  \/ Close \/ CloseManager \/ CloseMarks \/ CloseDone

Spec == Init /\ [][Next]_vars

\* A task that is scheduled runs, an event is delivered and an await returns in
\* the end; a query that nobody cancels may go on for ever.
Fairness ==
  /\ \A o \in Runs : WF_vars(TaskStep(o)) /\ WF_vars(CallerStep(o))
  /\ WF_vars(ResumeEnds) /\ WF_vars(CloseStep)
FairSpec == Spec /\ Fairness
-----------------------------------------------------------------------------
Snap ==
  [status : {"queued", "running"} \union Terminal,
   cb : {"disabled", "pending", "injected", "delivered"}, epoch : 0..MaxEpoch] \union {NoSnap}
Run == [ses : Sessions \union {None}, gen : 0..MaxSwitches,
        status : {"queued", "running"} \union Terminal,
        woken : {"no", "run", "caller", "waiter", "input", "switch", "restore", "close"},
        detached : BOOLEAN, tracked : BOOLEAN,
        cb : {"disabled", "pending", "injected", "delivered"}, epoch : 0..MaxEpoch,
        start : BOOLEAN, spawning : BOOLEAN,
        phase : {"none", "new", "parked", "slot", "finalizing", "over"} \union Executing,
        hit : BOOLEAN, ctl : {"free", "cancelling", "finalizing", "interrupting", "queueing"},
        told : Nat]

Types ==
  /\ session \in Sessions /\ storage \in Sessions /\ gen \in 0..MaxSwitches
  /\ life \in {"open", "leaving", "closing", "draining", "closed"}
  /\ resuming \in Sessions \union {None} /\ loaded \in [Agents -> Snap]
  /\ runOf \in [Agents -> Runs \union {None}]
  /\ \A a \in Agents : runOf[a] # None => runOf[a][1] = a
  /\ run \in [Runs -> Run]
  /\ disk \in [Sessions -> [Agents -> Snap]]
  /\ outbox \subseteq Agents \X (0..MaxEpoch)
  /\ known \in [Agents -> {"unborn", "born", "returned"}]

\* Type correctness, and never more agents execute than the semaphore admits,
\* whatever is cancelled, disowned or closed (agent_manager.py, _run_agent).
TypeOK == Types /\ Cardinality(Occupied) <= MaxConcurrency

\* An object somebody may hold.
Held(o) == run[o].ses # None

\* A waiter is not forgotten: when a run's task has ended, and no spawn, cancel,
\* input or close is under way for it, its done event is set, also if its task was
\* cancelled before it ever ran (agent_manager.py, _run_agent_guarded never enters).
WaitersAreWoken ==
  life \notin {"closing", "draining"} => \A o \in Runs :
    Held(o) /\ ~Live(run[o]) /\ run[o].ctl = "free" /\ ~run[o].spawning => Done(run[o])

\* An end that its own task or canceller settled, in the session that still owns
\* the run, is terminal and its callback has been handed over, once
\* (_finalize_cancelled_run, _run_agent's finally, _emit_completion).
EndsAreAnnounced ==
  \A o \in Runs :
    /\ run[o].told <= 1
    /\ (run[o].woken = "run" /\ run[o].ctl = "free" /\ ~Live(run[o]) /\ Current(o) /\ life = "open") =>
         /\ run[o].status \in Terminal
         /\ run[o].cb = "pending" => run[o].told = 1

\* Both: a run that ended is settled for those who wait and for the parent.
EndsAreSettled == WaitersAreWoken /\ EndsAreAnnounced

\* What an agent that spawn_agent has returned hands over survives a crash: its
\* snapshot on disk still owes that callback or the one of a later input (_persist
\* before _emit_completion, mark_callback_injected and restore_snapshots).
DebtsAreOnDisk ==
  \A d \in outbox :
    LET o == runOf[d[1]]
        n == disk[session][d[1]]
    IN (o # None /\ known[d[1]] = "returned" /\ run[o].epoch = d[2]) =>
         n.epoch >= d[2] /\ n.cb \in {"pending", "injected"}

\* An agent is executed by one task at a time, also when its session has been
\* left and resumed while the old task was unwinding (wait_for_detached_agents);
\* a run whose spawn failed is nobody's agent.
OneExecutor ==
  LET executors(a) == {o \in Runs : /\ o[1] = a /\ run[o].woken # "caller"
                                    /\ run[o].phase \in Executing \union {"slot", "finalizing"}}
  IN \A a \in Agents : Cardinality(executors(a)) <= 1

\* When close returns nobody waits, and no task executes or could come to, but
\* those of spawns that failed, which are unwinding (AgentManager._close_impl owns
\* the tasks of its runs and those that a session switch has disowned).
ClosedIsQuiet ==
  life = "closed" =>
    \A o \in Runs :
      /\ runOf[o[1]] = o => Done(run[o])
      /\ Live(run[o]) => run[o].woken = "caller" \/ (run[o].phase \in {"new", "parked"} /\ Done(run[o]))

\* Nothing of what an agent owes its session is lost on disk: the debts are there, and
\* no agent that spawn_agent has returned is ever dropped from the snapshots of its
\* session, whatever switches, closes and crashes happen.
ResultsSurvive ==
  [][/\ DebtsAreOnDisk'
     /\ \A s \in Sessions, a \in Agents :
          (known[a] = "returned" /\ disk[s][a].status # "none") => disk'[s][a].status # "none"]_vars

\* A resume that waits for disowned tasks ends: nothing keeps them alive, neither
\* the semaphore nor a cancellation that was swallowed.
SwitchesEnd == resuming # None ~> resuming = None

\* Both: tasks of an agent neither overlap nor outlive the manager.
TasksAreFenced == OneExecutor /\ ClosedIsQuiet
=============================================================================
