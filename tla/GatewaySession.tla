----------------------------- MODULE GatewaySession -----------------------------
(***************************************************************************)
(* The life of one session id in the gateway.  Requests resolve the id to  *)
(* the CoreSession object installed for it and start work on that object:  *)
(* session operations (awaited by their handler), turns and plans (left    *)
(* running under an operation id that clients can interrupt) and streams   *)
(* (gRPC handlers that hold a lease).  Meanwhile the id can be archived,   *)
(* resumed as another object, and the gateway stopped and started again.   *)
(* Closing an object fences the id, cancels and drains the work, waits for *)
(* the leases, and only then closes the object.                            *)
(*                                                                         *)
(* Source: gateway/task_registry.py, session_registry.py, routes/session.py,*)
(* routes/event.py, grpc/server.py, server.py.                             *)
(*                                                                         *)
(* The code between two awaits is one action.  The registry lock guards    *)
(* such sections, so it matters only while session_status holds it across  *)
(* a call to the model provider ("held").                                  *)
(***************************************************************************)
EXTENDS Naturals

CONSTANTS
  Objects,       \* CoreSession objects made for the id
  Tasks,         \* asyncio tasks working for the session
  Ops,           \* operation ids
  Interrupters,  \* interrupt requests; each uses a claim object of its own
  Allowed,       \* which disturbances may happen
  Nothing

\* "lock": a status request holds the registry lock across an await; "owner":
\* the connection that owns a turn goes away, or switches sessions;
\* "interrupter": the request that interrupts a turn is itself cancelled.
ASSUME AllowedAssumption == Allowed \subseteq {"lock", "owner", "interrupter"}
ASSUME NothingAssumption == Nothing \notin Objects \union Tasks \union Interrupters
ASSUME DistinctAssumption == Tasks \intersect Interrupters = {}
                             /\ "archive" \notin Objects \union {Nothing}

VARIABLES
  installed,  \* app.state.sessions: the object of the id
  closing,    \* the id is in closing_sessions
  server,     \* the gateway: "running" -> "closing" -> "stopped" -> "running"
  stopping,   \* the object in _stop_impl's list of pending closes
  phase,      \* where each object is
  loader,     \* who holds the load lock: an object being resumed, or "archive"
  held,       \* the registry lock is held by a waiting status request
  task,       \* the tasks
  owner,      \* operation_tasks: who owns each operation id
  leases,     \* the handlers counted in session_leases
  intr,       \* the interrupt requests
  excused     \* history: turns whose owner, or whose interrupter, went away

sessionVars == <<installed, closing, server, stopping, phase, loader, held>>
workVars == <<task, owner, leases, intr, excused>>
gatewayVars == <<sessionVars, workVars>>

NoTask == [state |-> "free", obj |-> Nothing, kind |-> "none", flagged |-> FALSE,
           terminals |-> 0]

Idle == [task |-> Nothing, op |-> Nothing]

SessionInit ==
  /\ installed = Nothing
  /\ closing = FALSE
  /\ server = "running"
  /\ stopping = Nothing
  /\ phase = [o \in Objects |-> "unused"]
  /\ loader = Nothing
  /\ held = FALSE
  /\ task = [t \in Tasks |-> NoTask]
  /\ owner = [x \in Ops |-> Nothing]
  /\ leases = {}
  /\ intr = [i \in Interrupters |-> Idle]
  /\ excused = {}

-----------------------------------------------------------------------------
(* Tasks.                                                                  *)

Active(t) == task[t].state \in {"live", "cancelled", "releasing"}

\* publish(..., source=obj): the bus drops events of an object that is no
\* longer the id's.  The task is flagged either way.
Terminated(r) ==
  [r EXCEPT !.flagged = TRUE, !.terminals = IF installed = r.obj THEN @ + 1 ELSE @]

Ended(r) == [r EXCEPT !.state = "ended"]

\* task.cancel(), on a task that waits for the registry lock in session_lease's
\* finally block: it dies there, and its lease stays counted.
Cancelled(r) ==
  CASE r.state = "live" -> [r EXCEPT !.state = "cancelled"]
    [] r.state = "releasing" -> Ended(r)
    [] OTHER -> r

\* The registry lock can be taken.  asyncio.Lock is fair: a request that comes
\* while a handler waits to release its lease queues behind it.
LockFree == ~held /\ \A t \in Tasks : task[t].state # "releasing"

\* Mutant: work is admitted on whatever object was resolved before.
AdmittedUnchecked(o) == LockFree /\ server = "running" /\ phase[o] # "unused"

\* Admission, under the registry lock.
Admitted(o) == LockFree /\ server = "running" /\ ~closing /\ installed = o

Started(t, o, kind) ==
  task' = [task EXCEPT ![t] = [NoTask EXCEPT !.state = "live", !.obj = o, !.kind = kind]]

\* run_session_operation
StartOperation(t, o) ==
  /\ task[t].state = "free" /\ Admitted(o)
  /\ Started(t, o, "operation")
  /\ UNCHANGED <<owner, leases, intr, excused, sessionVars>>

\* Sending a message or executing a plan: create_task and track_task.
StartTurn(t, o, x) ==
  /\ task[t].state = "free" /\ Admitted(o)
  /\ owner[x] = Nothing
  /\ Started(t, o, "turn")
  /\ owner' = [owner EXCEPT ![x] = t]
  /\ UNCHANGED <<leases, intr, excused, sessionVars>>

\* session_lease, entry.
StartStream(t, o) ==
  /\ task[t].state = "free" /\ Admitted(o)
  /\ Started(t, o, "stream")
  /\ leases' = leases \union {t}
  /\ UNCHANGED <<owner, intr, excused, sessionVars>>

\* session_lease, exit: releasing the lease needs the registry lock.
LeaveStream(t) ==
  IF LockFree
  THEN task' = [task EXCEPT ![t] = Ended(@)] /\ leases' = leases \ {t}
  ELSE task' = [task EXCEPT ![t].state = "releasing"] /\ UNCHANGED leases

\* A task's done callback frees its operation id, unless an interrupt owns it.
FreeOps(t) == [x \in Ops |-> IF owner[x] = t THEN Nothing ELSE owner[x]]

\* A task ends by itself; a turn publishes its terminal event first.
End(t) ==
  /\ task[t].state = "live"
  /\ IF task[t].kind = "stream"
     THEN LeaveStream(t)
     ELSE /\ task' = [task EXCEPT ![t] =
               Ended(IF @.kind = "turn" THEN Terminated(@) ELSE @)]
          /\ UNCHANGED leases
  /\ owner' = FreeOps(t)
  /\ UNCHANGED <<intr, excused, sessionVars>>

\* A cancelled task unwinds; a turn whose clean-up raises reports the error
\* with a terminal event of its own.
Unwind(t) ==
  /\ task[t].state = "cancelled"
  /\ \/ task[t].kind = "stream" /\ LeaveStream(t)
     \/ task[t].kind # "stream" /\ task' = [task EXCEPT ![t] = Ended(@)] /\ UNCHANGED leases
     \/ /\ task[t].kind = "turn"
        /\ task' = [task EXCEPT ![t] = Ended(Terminated(@))] /\ UNCHANGED leases
  /\ owner' = FreeOps(t)
  /\ UNCHANGED <<intr, excused, sessionVars>>

Release(t) ==
  /\ task[t].state = "releasing" /\ ~held
  /\ task' = [task EXCEPT ![t] = Ended(@)]
  /\ leases' = leases \ {t}
  /\ UNCHANGED <<owner, intr, excused, sessionVars>>

\* The request or connection that owns the task goes away: its handler, or
\* cancel_owner_tasks, or the session switch of a WebSocket cancels it.
Leave(t) ==
  /\ task[t].state \in {"live", "releasing"}
  /\ task[t].kind = "turn" => "owner" \in Allowed
  /\ task' = [task EXCEPT ![t] = Cancelled(@)]
  /\ excused' = IF task[t].kind = "turn" THEN excused \union {t} ELSE excused
  /\ UNCHANGED <<owner, leases, intr, sessionVars>>

-----------------------------------------------------------------------------
(* Interrupting an operation by its id.                                    *)

\* cancel_operation_task: take the id over and cancel the task.
Interrupt(i, x) ==
  /\ intr[i] = Idle
  /\ LockFree /\ server = "running" /\ ~closing /\ installed # Nothing
  /\ owner[x] \in Tasks
  /\ intr' = [intr EXCEPT ![i] = [task |-> owner[x], op |-> x]]
  /\ task' = [task EXCEPT ![owner[x]] = Cancelled(@)]
  /\ owner' = [owner EXCEPT ![x] = i]
  /\ UNCHANGED <<leases, excused, sessionVars>>

\* release_operation_claim
ClaimReleased(i) ==
  [owner EXCEPT ![intr[i].op] = IF @ = i THEN Nothing ELSE @]

\* Mutant: the terminal event is published without asking whether the task did.
ReportAlways(i) ==
  LET t == intr[i].task
  IN /\ t # Nothing
     /\ task[t].state = "ended"
     /\ task' = [task EXCEPT ![t] = Terminated(@)]
     /\ owner' = ClaimReleased(i)
     /\ intr' = [intr EXCEPT ![i] = Idle]
     /\ UNCHANGED <<leases, excused, sessionVars>>

\* The cancelled task is done: publish its terminal event unless it did so
\* itself, and release the id.
Report(i) ==
  LET t == intr[i].task
  IN /\ t # Nothing
     /\ task[t].state = "ended"
     /\ task' = [task EXCEPT ![t] = IF @.flagged THEN @ ELSE Terminated(@)]
     /\ owner' = ClaimReleased(i)
     /\ intr' = [intr EXCEPT ![i] = Idle]
     /\ UNCHANGED <<leases, excused, sessionVars>>

\* The interrupting request was cancelled: it waits for the task all the same
\* and releases the id, but publishes nothing.
Abandon(i) ==
  LET t == intr[i].task
  IN /\ "interrupter" \in Allowed
     /\ t # Nothing
     /\ task[t].state = "ended"
     /\ owner' = ClaimReleased(i)
     /\ intr' = [intr EXCEPT ![i] = Idle]
     /\ excused' = excused \union {t}
     /\ UNCHANGED <<task, leases, sessionVars>>

-----------------------------------------------------------------------------
(* Creating and resuming.                                                  *)

\* The new-session routes: the id is fresh, nobody else can name it.
Create(o) ==
  /\ LockFree /\ server = "running" /\ loader = Nothing
  /\ \A p \in Objects : phase[p] = "unused"
  /\ installed' = o
  /\ phase' = [phase EXCEPT ![o] = "open"]
  /\ UNCHANGED <<closing, server, stopping, loader, held, workVars>>

\* Mutant: resume does not look at closing_sessions before loading.
ResumeUnfenced(o) ==
  /\ phase[o] = "unused" /\ loader = Nothing
  /\ LockFree /\ server = "running" /\ installed = Nothing
  /\ loader' = o
  /\ phase' = [phase EXCEPT ![o] = "loading"]
  /\ UNCHANGED <<installed, closing, server, stopping, held, workVars>>

\* The resume routes, under the load lock, for an id that is not installed.
Resume(o) ==
  /\ phase[o] = "unused" /\ loader = Nothing
  /\ LockFree /\ server = "running" /\ ~closing /\ installed = Nothing
  /\ loader' = o
  /\ phase' = [phase EXCEPT ![o] = "loading"]
  /\ UNCHANGED <<installed, closing, server, stopping, held, workVars>>

\* Loaded: install the object, unless the id or the gateway was fenced.
Install(o) ==
  /\ phase[o] = "loading" /\ LockFree
  /\ IF server = "running" /\ ~closing /\ installed = Nothing
     THEN installed' = o /\ loader' = Nothing /\ phase' = [phase EXCEPT ![o] = "open"]
     ELSE phase' = [phase EXCEPT ![o] = "discarded"] /\ UNCHANGED <<installed, loader>>
  /\ UNCHANGED <<closing, server, stopping, held, workVars>>

LoadFails(o) ==
  /\ phase[o] = "loading"
  /\ phase' = [phase EXCEPT ![o] = "discarded"]
  /\ UNCHANGED <<installed, closing, server, stopping, loader, held, workVars>>

\* Close the object that was not installed, still under the load lock.
Discard(o) ==
  /\ phase[o] = "discarded"
  /\ phase' = [phase EXCEPT ![o] = "closed"]
  /\ loader' = Nothing
  /\ UNCHANGED <<installed, closing, server, stopping, held, workVars>>

-----------------------------------------------------------------------------
(* Archiving, stopping and cleaning up.                                    *)

\* Under the load lock, fence the id.
BeginArchive ==
  /\ loader = Nothing /\ LockFree /\ ~closing
  /\ loader' = "archive"
  /\ closing' = TRUE
  /\ UNCHANGED <<installed, server, stopping, phase, held, workVars>>

\* The archive flag could not be stored.
FailArchive ==
  /\ loader = "archive" /\ LockFree
  /\ loader' = Nothing
  /\ closing' = FALSE
  /\ UNCHANGED <<installed, server, stopping, phase, held, workVars>>

\* Remove the object; when there is none (any more), drop the fence.
CommitArchive ==
  /\ loader = "archive" /\ LockFree
  /\ loader' = Nothing
  /\ installed' = Nothing
  /\ IF installed = Nothing
     THEN closing' = FALSE /\ UNCHANGED phase
     ELSE phase' = [phase EXCEPT ![installed] = "removed"] /\ UNCHANGED closing
  /\ UNCHANGED <<server, stopping, held, workVars>>

\* _stop_impl: fence the gateway and the session, and empty the registry.
Stop ==
  /\ server = "running" /\ LockFree
  /\ server' = "closing"
  /\ stopping' = installed
  /\ installed' = Nothing
  /\ IF installed = Nothing
     THEN UNCHANGED <<closing, phase>>
     ELSE closing' = TRUE /\ phase' = [phase EXCEPT ![installed] = "removed"]
  /\ UNCHANGED <<loader, held, workVars>>

Stopped ==
  /\ server = "closing"
  /\ stopping # Nothing => phase[stopping] = "closed"
  /\ server' = "stopped"
  /\ stopping' = Nothing
  /\ UNCHANGED <<installed, closing, phase, loader, held, workVars>>

\* start waits for the previous stop.
Start ==
  /\ server = "stopped" /\ LockFree
  /\ server' = "running"
  /\ UNCHANGED <<installed, closing, stopping, phase, loader, held, workVars>>

\* Mutant: streams are left to end by themselves.
CleanupSparesStreams(o) ==
  /\ phase[o] = "removed"
  /\ phase' = [phase EXCEPT ![o] = "draining"]
  /\ closing' = TRUE
  /\ task' = [t \in Tasks |->
                IF task[t].kind = "stream" THEN task[t] ELSE Cancelled(task[t])]
  /\ UNCHANGED <<installed, server, stopping, loader, held, owner, leases, intr, excused>>

\* cleanup_session: fence the id, cancel what is registered.
Cleanup(o) ==
  /\ phase[o] = "removed"
  /\ phase' = [phase EXCEPT ![o] = "draining"]
  /\ closing' = TRUE
  /\ task' = [t \in Tasks |-> Cancelled(task[t])]
  /\ UNCHANGED <<installed, server, stopping, loader, held, owner, leases, intr, excused>>

\* cancel_session_tasks is done when every registered task is; it frees the
\* operation ids, interrupters' claims included.
Drained(o) ==
  /\ phase[o] = "draining"
  /\ \A t \in Tasks : ~Active(t)
  /\ phase' = [phase EXCEPT ![o] = "drained"]
  /\ owner' = [x \in Ops |-> Nothing]
  /\ UNCHANGED <<installed, closing, server, stopping, loader, held, task, leases, intr, excused>>

\* wait_session_leases, then CoreSession.close begins.
Close(o) ==
  /\ phase[o] = "drained"
  /\ leases = {} /\ LockFree
  /\ phase' = [phase EXCEPT ![o] = "closing"]
  /\ UNCHANGED <<installed, closing, server, stopping, loader, held, workVars>>

\* The object is closed: drop the fence.
CloseReturns(o) ==
  /\ phase[o] = "closing"
  /\ phase' = [phase EXCEPT ![o] = "closed"]
  /\ closing' = FALSE
  /\ UNCHANGED <<installed, server, stopping, loader, held, workVars>>

-----------------------------------------------------------------------------
\* session_status awaits the provider's answer under the registry lock.
Hold ==
  /\ "lock" \in Allowed /\ LockFree /\ installed # Nothing /\ ~closing
  /\ held' = TRUE
  /\ UNCHANGED <<installed, closing, server, stopping, phase, loader, workVars>>

Unhold ==
  /\ held
  /\ held' = FALSE
  /\ UNCHANGED <<installed, closing, server, stopping, phase, loader, workVars>>

TaskStep(t) == Unwind(t) \/ Release(t)

CleanupStep(o) == Discard(o) \/ Cleanup(o) \/ Drained(o) \/ Close(o) \/ CloseReturns(o)

SessionNext ==
  \/ \E t \in Tasks, o \in Objects :
       \/ StartOperation(t, o) \/ StartStream(t, o)
       \/ \E x \in Ops : StartTurn(t, o, x)
  \/ \E t \in Tasks : End(t) \/ Leave(t) \/ TaskStep(t)
  \/ \E i \in Interrupters :
       \/ Report(i) \/ Abandon(i)
       \/ \E x \in Ops : Interrupt(i, x)
  \/ \E o \in Objects :
       Create(o) \/ Resume(o) \/ Install(o) \/ LoadFails(o) \/ CleanupStep(o)
  \/ BeginArchive \/ FailArchive \/ CommitArchive
  \/ Stop \/ Stopped \/ Start
  \/ Hold \/ Unhold

SessionSpec == SessionInit /\ [][SessionNext]_gatewayVars

\* The event loop runs what is ready: cancelled tasks unwind, clean-ups and
\* interrupts go on, a provider answers or times out.  Nothing obliges a turn
\* to end by itself, a client to leave, or anyone to archive or stop.
FairSessionSpec ==
  /\ SessionSpec
  /\ \A t \in Tasks : WF_gatewayVars(TaskStep(t))
  /\ \A i \in Interrupters : WF_gatewayVars(Report(i) \/ Abandon(i))
  /\ \A o \in Objects : WF_gatewayVars(CleanupStep(o))
  /\ WF_gatewayVars(Unhold)
-----------------------------------------------------------------------------
TaskType ==
  [state : {"free", "live", "cancelled", "releasing", "ended"},
   obj : Objects \union {Nothing}, kind : {"none", "operation", "turn", "stream"},
   flagged : BOOLEAN, terminals : Nat]

Phases ==
  {"unused", "loading", "discarded", "open", "removed", "draining", "drained",
   "closing", "closed"}

\* The type of every variable; the registry holds the one object that is open.
SessionTypeOK ==
  /\ installed \in Objects \union {Nothing}
  /\ closing \in BOOLEAN /\ held \in BOOLEAN
  /\ server \in {"running", "closing", "stopped"}
  /\ stopping \in Objects \union {Nothing}
  /\ phase \in [Objects -> Phases]
  /\ \A o \in Objects : phase[o] = "open" <=> installed = o
  /\ loader \in Objects \union {Nothing, "archive"}
  /\ task \in [Tasks -> TaskType]
  /\ owner \in [Ops -> Tasks \union Interrupters \union {Nothing}]
  /\ leases \in SUBSET Tasks
  /\ intr \in [Interrupters -> [task : Tasks \union {Nothing}, op : Ops \union {Nothing}]]

Alive(o) == phase[o] \notin {"unused", "closed"}

\* At most one CoreSession object exists for an id, from the moment one begins
\* to load the transcript until it has closed it, whatever archives, resumes,
\* stops and restarts overlap: closing fences the id until the very end.
OneObjectPerSession == \A o, p \in Objects : Alive(o) /\ Alive(p) => o = p

\* When CoreSession.close begins, no operation, turn or stream still works on
\* the object, however the requests were resolved, admitted and cancelled.
NoWorkOnClosedSession ==
  \A t \in Tasks : Active(t) => phase[task[t].obj] \notin {"drained", "closing", "closed"}

\* An operation id names one task: a late interrupt of a former operation
\* never frees, or shares, the id of a later one.
OperationsAreUnique ==
  \A t \in Tasks : Active(t) /\ task[t].kind = "turn" =>
    \/ \E x \in Ops : owner[x] = t
    \/ \E i \in Interrupters : intr[i].task = t /\ owner[intr[i].op] = i

\* A turn has at most one terminal event, whoever races to publish it: the
\* task, its error handler, the interrupters.
OneTerminalEvent == \A t \in Tasks : task[t].terminals <= 1

\* README: "every admitted operation finishes with exactly one turn_complete
\* event".  Once a turn is over and no interrupt of it is under way, its
\* session's clients have had that event, if the session is still there.
TurnsComplete ==
  \A t \in Tasks :
    (/\ task[t].kind = "turn" /\ task[t].state = "ended"
     /\ installed = task[t].obj
     /\ \A i \in Interrupters : intr[i].task # t) => task[t].terminals = 1

\* The same, unless the connection that owned the turn, or the request that
\* interrupted it, was cancelled: no race of the task, its error handler and
\* interrupters that stay leaves the clients waiting.
AnnouncedUnlessAbandoned ==
  \A t \in Tasks :
    (/\ task[t].kind = "turn" /\ task[t].state = "ended" /\ t \notin excused
     /\ installed = task[t].obj
     /\ \A i \in Interrupters : intr[i].task # t) => task[t].terminals = 1

\* README: "exactly one", for the turns that nobody abandons.
ExactlyOneTerminalEvent == OneTerminalEvent /\ AnnouncedUnlessAbandoned

\* Archiving or stopping closes the session in the end, unless a handler was
\* cancelled while it waited for the registry lock to give its lease back.
CleanupsEnd ==
  \A o \in Objects :
    phase[o] = "removed" ~> (phase[o] = "closed" \/ \E t \in leases : task[t].state = "ended")
=============================================================================
