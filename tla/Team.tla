-------------------------------- MODULE Team --------------------------------
(***************************************************************************)
(* A team of agents (core/team/manager.py): membership, message delivery,  *)
(* the mirror of the agents' states, shutdown and close.  The team has one *)
(* name; a runtime is one incarnation of it.  Agent ids are never used     *)
(* twice.  The agent manager is modelled as far as TeamManager sees it,    *)
(* from agent_manager.py; the message bus as its commit of a message.      *)
(*                                                                         *)
(* membership_lock, task_lock and _teams_lock are never held over an await *)
(* that suspends, so what they cover is one step.  bus_lock, spawn_lock,   *)
(* the delivery locks and the control lock of a run are held over awaits;  *)
(* an event sink is an await that may suspend and be cancelled.            *)
(***************************************************************************)
EXTENDS Integers, Sequences, FiniteSets

CONSTANTS
  Agents,       \* ids of agents spawned as teammates
  MaxTeammates, \* TeamConfig.max_teammates
  MaxTries,     \* failed deliveries before a waiter gives up (5)
  MaxRuntimes,  \* bound: teams ever created
  MaxMessages,  \* bound: messages ever sent
  MaxInputs,    \* bound: inputs given to teammates past the team, faults included
  MaxFaults,    \* bound: cancelled callers, failed spawns, shutdowns asked by a teammate,
                \* inputs included
  Recipients,   \* bound: the agents that are written to, given input and removed
  None

ASSUME BoundsAssumption ==
  /\ MaxTeammates \in Nat \ {0} /\ MaxTries \in Nat \ {0}
  /\ MaxRuntimes \in Nat /\ MaxMessages \in Nat /\ MaxInputs \in Nat /\ MaxFaults \in Nat
  /\ Recipients \subseteq Agents /\ None \notin Agents

VARIABLES
  current,  \* _teams: the runtime under the name, 0 if none
  created,  \* runtimes made so far
  shutting, \* the name is in _shutting_down
  cleanup,  \* where _finish_shutdown is, and the teammates it has to cancel
  caller,   \* the teammate whose tool called shutdown_team
  manager,  \* "open", "closing" or "closed"
  member,   \* runtime.teammates: the runtime an agent belongs to, 0 if none
  mirror,   \* TeammateInfo.state
  adding,   \* add_teammate calls, and the runtime each was made for
  removal,  \* remove_teammate calls
  message,  \* send_message calls
  to,       \* and their recipients
  pending,  \* _pending_messages
  waiter,   \* _pending_delivery_tasks, and their failed attempts
  watcher,  \* _teammate_watch_tasks
  run,      \* AgentManager: the run of each agent
  outside,  \* an AgentSendInput call holds the run's control lock
  inbox,    \* history: messages committed for each agent, in order
  prompts,  \* history: messages each agent was given, in order
  used      \* faults and inputs so far

team == <<current, created, shutting, cleanup, caller, manager>>
roster == <<member, mirror, adding, removal>>
mail == <<message, to, pending, inbox, prompts>>
tasks == <<waiter, watcher>>
agent == <<run, outside>>
vars == <<team, roster, mail, tasks, agent, used>>

Runtimes == 1..MaxRuntimes
Messages == 1..MaxMessages

Init ==
  /\ current = 0 /\ created = 0 /\ shutting = FALSE /\ caller = None /\ manager = "open"
  /\ cleanup = [at |-> "none", left |-> {}]
  /\ member = [a \in Agents |-> 0]
  /\ mirror = [a \in Agents |-> "none"]
  /\ adding = [a \in Agents |-> [at |-> "none", to |-> 0]]
  /\ removal = [a \in Agents |-> "none"]
  /\ message = [m \in Messages |-> "none"]
  /\ to = [m \in Messages |-> None]
  /\ pending = [a \in Agents |-> <<>>]
  /\ waiter = [a \in Agents |-> [at |-> "none", tries |-> 0]]
  /\ watcher = [a \in Agents |-> "none"]
  /\ run = [a \in Agents |-> "none"]
  /\ outside = [a \in Agents |-> FALSE]
  /\ inbox = [a \in Agents |-> <<>>]
  /\ prompts = [a \in Agents |-> <<>>]
  /\ used = [faults |-> 0, inputs |-> 0]

\* The checks made under membership_lock.
IsActive(r) == r # 0 /\ r = current /\ ~shutting
Belongs(a) == member[a] # 0 /\ IsActive(member[a])
Teammates(r) == {a \in Agents : member[a] = r}

Faulty == used.faults + used.inputs < MaxFaults
Fault == used' = [used EXCEPT !.faults = @ + 1]

\* bus_lock is held from the commit of a message to the end of its injection.
BusFree == \A m \in Messages : message[m] \notin {"committed", "injecting"}

\* spawn_lock
SpawnFree(r) == \A a \in Agents : ~(adding[a].at = "spawning" /\ adding[a].to = r)

\* The delivery lock of an agent.
DeliveryFree(a) ==
  /\ \A m \in Messages : ~(message[m] = "injecting" /\ to[m] = a)
  /\ waiter[a].at \notin {"blocked", "sending"}
-----------------------------------------------------------------------------
(* The agent manager, as TeamManager uses it.  A run is "queued" while the
   event that announces it is emitted and its task does not exist yet,
   "fenced" if a wait_agent call set its event meanwhile, "created" once it
   has a task, "live" when it has announced itself, "ending" when it has
   announced its end, and "over". *)

HasTask(a) == run[a] \in {"created", "live", "ending"}

\* wait_agent returns; it sets the event of a run whose last task is over.
CanWait(a) == run[a] \in {"queued", "fenced", "over"}
Fenced(a) == IF run[a] = "queued" THEN "fenced" ELSE run[a]

\* The task send_input creates; one that finds its event set ends at once.
TaskCreated(a) == IF run[a] = "queued" THEN "created" ELSE "over"

\* handle_agent_event for queued and running, and _ensure_teammate_watcher.
Busy(a) ==
  IF Belongs(a)
  THEN /\ mirror' = [mirror EXCEPT ![a] = "busy"]
       /\ watcher' = [watcher EXCEPT ![a] = IF @ = "none" THEN "waiting" ELSE @]
  ELSE UNCHANGED <<mirror, watcher>>

\* The running event, once a spawn has returned.
RunStarts(a) ==
  /\ run[a] = "created" /\ adding[a].at # "spawning"
  /\ run' = [run EXCEPT ![a] = "live"]
  /\ Busy(a)
  /\ UNCHANGED <<team, member, adding, removal, mail, waiter, outside, used>>

\* The event of the end; a teammate that waits for the shutdown it asked for does not end.
RunEnds(a) ==
  /\ run[a] \in {"created", "live"} /\ adding[a].at # "spawning" /\ caller # a
  /\ run' = [run EXCEPT ![a] = "ending"]
  /\ mirror' = IF Belongs(a) THEN [mirror EXCEPT ![a] = "ready"] ELSE mirror
  /\ UNCHANGED <<team, member, adding, removal, mail, tasks, outside, used>>

\* _ensure_pending_delivery
Armed(a) == IF waiter[a].at = "none" THEN [at |-> "start", tries |-> 0] ELSE waiter[a]

\* handle_agent_event resumes for the end, and the run sets its event.
RunSettles(a) ==
  /\ run[a] = "ending"
  /\ run' = [run EXCEPT ![a] = "over"]
  /\ waiter' = IF pending[a] # <<>> THEN [waiter EXCEPT ![a] = Armed(a)] ELSE waiter
  /\ UNCHANGED <<team, roster, mail, watcher, outside, used>>

\* Somebody else gives a teammate input, AgentSendInput.
Input(a) ==
  /\ used.faults + used.inputs < MaxInputs /\ a \in Recipients /\ Belongs(a) /\ run[a] = "over" /\ ~outside[a]
  /\ adding[a].at = "added"
  /\ used' = [used EXCEPT !.inputs = @ + 1]
  /\ run' = [run EXCEPT ![a] = "queued"]
  /\ outside' = [outside EXCEPT ![a] = TRUE]
  /\ Busy(a)
  /\ UNCHANGED <<team, member, adding, removal, mail, waiter>>

InputTaken(a) ==
  /\ outside[a]
  /\ run' = [run EXCEPT ![a] = TaskCreated(a)]
  /\ outside' = [outside EXCEPT ![a] = FALSE]
  /\ UNCHANGED <<team, roster, mail, tasks, used>>

\* The control lock of the run is free.
Controllable(a) == ~outside[a] /\ run[a] \notin {"queued", "fenced"}

\* cancel_agent has nothing left to wait for.
Stopped(a) == Controllable(a) /\ run[a] \in {"none", "over"}

\* _cancel_agent_tasks: send_input of a cancelled waiter settles the run it queued.
Swept(S) ==
  /\ pending' = [a \in Agents |-> IF a \in S THEN <<>> ELSE pending[a]]
  /\ waiter' = [a \in Agents |-> IF a \in S THEN [at |-> "none", tries |-> 0] ELSE waiter[a]]
  /\ watcher' = [a \in Agents |-> IF a \in S THEN "none" ELSE watcher[a]]
  /\ run' = [a \in Agents |-> IF a \in S /\ waiter[a].at = "sending" THEN "over" ELSE run[a]]
-----------------------------------------------------------------------------
(* Membership *)

Create ==
  /\ manager # "closed" /\ current = 0 /\ created < MaxRuntimes
  /\ created' = created + 1 /\ current' = created + 1
  /\ UNCHANGED <<shutting, cleanup, caller, manager, roster, mail, tasks, agent, used>>

Add(a) ==
  /\ current # 0 /\ adding[a].at = "none"
  /\ adding' = [adding EXCEPT ![a] = [at |-> "queued", to |-> current]]
  /\ UNCHANGED <<team, member, mirror, removal, mail, tasks, agent, used>>

\* Mutant: a full team takes one more.
ReserveOneMore(a) ==
  /\ adding[a].at = "queued" /\ SpawnFree(adding[a].to)
  /\ LET ok == IsActive(adding[a].to) /\ Cardinality(Teammates(adding[a].to)) <= MaxTeammates
     IN /\ adding' = [adding EXCEPT ![a].at = IF ok THEN "spawning" ELSE "failed"]
        /\ run' = IF ok THEN [run EXCEPT ![a] = "created"] ELSE run
  /\ UNCHANGED <<team, member, mirror, removal, mail, tasks, outside, used>>

\* add_teammate has spawn_lock, reserves a place and spawns.
Reserve(a) ==
  /\ adding[a].at = "queued" /\ SpawnFree(adding[a].to)
  /\ LET ok == IsActive(adding[a].to) /\ Cardinality(Teammates(adding[a].to)) < MaxTeammates
     IN /\ adding' = [adding EXCEPT ![a].at = IF ok THEN "spawning" ELSE "failed"]
        /\ run' = IF ok THEN [run EXCEPT ![a] = "created"] ELSE run
  /\ UNCHANGED <<team, member, mirror, removal, mail, tasks, outside, used>>

\* spawn_agent raises: it has cancelled and forgotten the run.
SpawnFails(a) ==
  /\ adding[a].at = "spawning" /\ Faulty /\ Fault
  /\ adding' = [adding EXCEPT ![a].at = "failed"]
  /\ run' = [run EXCEPT ![a] = "none"]
  /\ UNCHANGED <<team, member, mirror, removal, mail, tasks, outside>>

\* spawn_agent returned: the agent becomes a teammate unless the team went away.
Register(a) ==
  /\ adding[a].at = "spawning"
  /\ IF IsActive(adding[a].to)
     THEN /\ adding' = [adding EXCEPT ![a].at = "emitting"]
          /\ member' = [member EXCEPT ![a] = adding[a].to]
          /\ mirror' = [mirror EXCEPT ![a] = "busy"]
     ELSE adding' = [adding EXCEPT ![a].at = "undoing"] /\ UNCHANGED <<member, mirror>>
  /\ UNCHANGED <<team, removal, mail, tasks, agent, used>>

\* The state event is out; the watcher is armed.
Added(a) ==
  /\ adding[a].at = "emitting"
  /\ adding' = [adding EXCEPT ![a].at = "added"]
  /\ watcher' = IF Belongs(a) /\ watcher[a] = "none"
                THEN [watcher EXCEPT ![a] = "waiting"] ELSE watcher
  /\ UNCHANGED <<team, member, mirror, removal, mail, waiter, agent, used>>

AddCancelled(a) ==
  /\ adding[a].at = "emitting" /\ Faulty /\ Fault
  /\ adding' = [adding EXCEPT ![a].at = "undoing"]
  /\ UNCHANGED <<team, member, mirror, removal, mail, tasks, agent>>

\* _rollback_teammate takes the agent off the team and stops its tasks.
Undo(a) ==
  /\ adding[a].at = "undoing" /\ BusFree
  /\ adding' = [adding EXCEPT ![a].at = "stopping"]
  /\ member' = [member EXCEPT ![a] = 0]
  /\ mirror' = [mirror EXCEPT ![a] = "shutdown"]
  /\ Swept({a})
  /\ UNCHANGED <<team, removal, message, to, inbox, prompts, outside, used>>

Undone(a) ==
  /\ adding[a].at = "stopping" /\ Stopped(a)
  /\ adding' = [adding EXCEPT ![a].at = "failed"]
  /\ UNCHANGED <<team, member, mirror, removal, mail, tasks, agent, used>>

AskRemoval(a) ==
  /\ current # 0 /\ a \in Recipients /\ removal[a] = "none" /\ member[a] = current
  /\ removal' = [removal EXCEPT ![a] = "asked"]
  /\ UNCHANGED <<team, member, mirror, adding, mail, tasks, agent, used>>

\* Mutant: the agent's own tasks are left to end by themselves.
RemoveUnswept(a) ==
  /\ removal[a] = "asked" /\ BusFree
  /\ IF Belongs(a)
     THEN /\ removal' = [removal EXCEPT ![a] = "stopping"]
          /\ member' = [member EXCEPT ![a] = 0]
          /\ mirror' = [mirror EXCEPT ![a] = "shutdown"]
          /\ UNCHANGED <<pending, waiter, watcher, run>>
     ELSE /\ removal' = [removal EXCEPT ![a] = "refused"]
          /\ UNCHANGED <<member, mirror, pending, waiter, watcher, run>>
  /\ UNCHANGED <<team, adding, message, to, inbox, prompts, outside, used>>

\* remove_teammate has both locks; it stops the tasks and cancels the agent.
RemoveMember(a) ==
  /\ removal[a] = "asked" /\ BusFree
  /\ IF Belongs(a)
     THEN /\ removal' = [removal EXCEPT ![a] = "stopping"]
          /\ member' = [member EXCEPT ![a] = 0]
          /\ mirror' = [mirror EXCEPT ![a] = "shutdown"]
          /\ Swept({a})
     ELSE /\ removal' = [removal EXCEPT ![a] = "refused"]
          /\ UNCHANGED <<member, mirror, pending, waiter, watcher, run>>
  /\ UNCHANGED <<team, adding, message, to, inbox, prompts, outside, used>>

Removed(a) ==
  /\ removal[a] = "stopping" /\ Stopped(a)
  /\ removal' = [removal EXCEPT ![a] = "done"]
  /\ UNCHANGED <<team, member, mirror, adding, mail, tasks, agent, used>>

\* The caller is cancelled before cancel_agent was called.
RemoveCancelled(a) ==
  /\ removal[a] = "stopping" /\ Faulty /\ Fault
  /\ removal' = [removal EXCEPT ![a] = "cancelled"]
  /\ UNCHANGED <<team, member, mirror, adding, mail, tasks, agent>>
-----------------------------------------------------------------------------
(* Shutdown *)

\* shutdown_team reserves the name and starts the cleanup.
Shutdown(who) ==
  /\ current # 0 /\ ~shutting
  /\ shutting' = TRUE /\ caller' = who
  /\ cleanup' = [at |-> "begun", left |-> {}]
  /\ UNCHANGED <<current, created, manager, roster, mail, tasks, agent>>

ShutdownFromOutside == Shutdown(None) /\ UNCHANGED used

\* A teammate calls TeamShutdown for its own team, and waits for the cleanup.
ShutdownFromInside(a) == run[a] = "live" /\ Belongs(a) /\ Shutdown(a) /\ Faulty /\ Fault

Mark ==
  /\ cleanup.at = "begun"
  /\ cleanup' = [at |-> "spawns", left |-> Teammates(current)]
  /\ mirror' = [a \in Agents |-> IF member[a] = current THEN "shutdown" ELSE mirror[a]]
  /\ UNCHANGED <<current, created, shutting, caller, manager, member, adding, removal, mail, tasks, agent, used>>

\* No spawn is under way; deliveries and watchers are stopped.
Sweep ==
  /\ cleanup.at = "spawns" /\ SpawnFree(current)
  /\ cleanup' = [cleanup EXCEPT !.at = "cancels"]
  /\ Swept(cleanup.left)
  /\ UNCHANGED <<current, created, shutting, caller, manager, roster, message, to, inbox, prompts, outside, used>>

\* cancel_agent of one teammate returns.
Cancel(a) ==
  /\ cleanup.at = "cancels" /\ a \in cleanup.left /\ Stopped(a)
  /\ cleanup' = [cleanup EXCEPT !.left = @ \ {a}]
  /\ UNCHANGED <<current, created, shutting, caller, manager, roster, mail, tasks, agent, used>>

\* With bus_lock: a second sweep, and nobody is a teammate any more.
Dissolve ==
  /\ cleanup.at = "cancels" /\ cleanup.left = {} /\ BusFree
  /\ cleanup' = [cleanup EXCEPT !.at = "files"]
  /\ member' = [a \in Agents |-> IF member[a] = current THEN 0 ELSE member[a]]
  /\ Swept(Teammates(current))
  /\ UNCHANGED <<current, created, shutting, caller, manager, mirror, adding, removal, message, to, inbox, prompts, outside, used>>

\* Mutant: the name stays reserved.
ShutdownEndsReserved ==
  /\ cleanup.at = "files"
  /\ cleanup' = [at |-> "none", left |-> {}]
  /\ current' = 0 /\ caller' = None
  /\ UNCHANGED <<shutting, created, manager, roster, mail, tasks, agent, used>>

\* The inbox files are deleted and the name is free.
ShutdownEnds ==
  /\ cleanup.at = "files"
  /\ cleanup' = [at |-> "none", left |-> {}]
  /\ current' = 0 /\ shutting' = FALSE /\ caller' = None
  /\ UNCHANGED <<created, manager, roster, mail, tasks, agent, used>>

Close ==
  /\ manager = "open"
  /\ manager' = "closing"
  /\ UNCHANGED <<current, created, shutting, cleanup, caller, roster, mail, tasks, agent, used>>

CloseShutsDown == manager = "closing" /\ Shutdown(None) /\ UNCHANGED used

\* close: no team, no cleanup, and the orphan waiters are swept.
Closed ==
  /\ manager = "closing" /\ current = 0
  /\ manager' = "closed"
  /\ Swept({a \in Agents : adding[a].at # "none"})
  /\ UNCHANGED <<current, created, shutting, cleanup, caller, roster, message, to, inbox, prompts, outside, used>>
-----------------------------------------------------------------------------
(* Messages *)

\* send_message, broadcast and send_cross_team authorize under membership_lock.
Send(m, a) ==
  /\ message[m] = "none" /\ \A n \in Messages : n < m => message[n] # "none"
  /\ a \in Recipients /\ Belongs(a)
  /\ message' = [message EXCEPT ![m] = "allowed"]
  /\ to' = [to EXCEPT ![m] = a]
  /\ UNCHANGED <<team, roster, pending, inbox, prompts, tasks, agent, used>>

\* With bus_lock the recipient is looked up again and the message is appended.
Commit(m) ==
  /\ message[m] = "allowed" /\ BusFree
  /\ LET a == to[m] IN
       IF Belongs(a)
       THEN /\ message' = [message EXCEPT ![m] = "committed"]
            /\ inbox' = [inbox EXCEPT ![a] = Append(@, m)]
       ELSE message' = [message EXCEPT ![m] = "refused"] /\ UNCHANGED inbox
  /\ UNCHANGED <<team, roster, to, pending, prompts, tasks, agent, used>>

\* send_input to an agent without a task: the prompt is stored, the run announced.
Given(a, ms) ==
  /\ prompts' = [prompts EXCEPT ![a] = @ \o ms]
  /\ run' = [run EXCEPT ![a] = "queued"]
  /\ Busy(a)

\* Mutant: a message that finds the agent idle does not look at what waits.
InjectOvertaking(m) ==
  LET a == to[m] IN
  /\ message[m] = "committed" /\ DeliveryFree(a) /\ Controllable(a)
  /\ IF ~Belongs(a)
     THEN /\ message' = [message EXCEPT ![m] = "sent"]
          /\ pending' = [pending EXCEPT ![a] = <<>>]
          /\ UNCHANGED <<waiter, watcher, mirror, prompts, run>>
     ELSE IF HasTask(a)
     THEN /\ message' = [message EXCEPT ![m] = "sent"]
          /\ pending' = [pending EXCEPT ![a] = Append(@, m)]
          /\ waiter' = [waiter EXCEPT ![a] = Armed(a)]
          /\ UNCHANGED <<watcher, mirror, prompts, run>>
     ELSE /\ message' = [message EXCEPT ![m] = "injecting"]
          /\ Given(a, <<m>>)
          /\ UNCHANGED <<pending, waiter>>
  /\ UNCHANGED <<team, member, adding, removal, to, inbox, outside, used>>

\* _deliver_or_queue has the delivery lock and calls send_input without interrupting.
Inject(m) ==
  LET a == to[m] IN
  /\ message[m] = "committed" /\ DeliveryFree(a) /\ Controllable(a)
  /\ IF ~Belongs(a)
     THEN /\ message' = [message EXCEPT ![m] = "sent"]
          /\ pending' = [pending EXCEPT ![a] = <<>>]
          /\ UNCHANGED <<waiter, watcher, mirror, prompts, run>>
     ELSE IF pending[a] # <<>> \/ HasTask(a)
     THEN /\ message' = [message EXCEPT ![m] = "sent"]
          /\ pending' = [pending EXCEPT ![a] = Append(@, m)]
          /\ waiter' = [waiter EXCEPT ![a] = Armed(a)]
          /\ UNCHANGED <<watcher, mirror, prompts, run>>
     ELSE /\ message' = [message EXCEPT ![m] = "injecting"]
          /\ Given(a, <<m>>)
          /\ UNCHANGED <<pending, waiter>>
  /\ UNCHANGED <<team, member, adding, removal, to, inbox, outside, used>>

\* send_input returned.
Injected(m) ==
  LET a == to[m] IN
  /\ message[m] = "injecting"
  /\ message' = [message EXCEPT ![m] = "sent"]
  /\ run' = [run EXCEPT ![a] = TaskCreated(a)]
  /\ Busy(a)
  /\ UNCHANGED <<team, member, adding, removal, to, pending, inbox, prompts, waiter, outside, used>>

\* The sender is cancelled while the queued event is emitted: send_input settles the run.
SendCancelled(m) ==
  /\ message[m] = "injecting" /\ Faulty /\ Fault
  /\ message' = [message EXCEPT ![m] = "sent"]
  /\ run' = [run EXCEPT ![to[m]] = "over"]
  /\ UNCHANGED <<team, roster, to, pending, inbox, prompts, tasks, outside>>
-----------------------------------------------------------------------------
(* The tasks of a teammate *)

Ended == [at |-> "none", tries |-> 0]

\* _wait_and_deliver_pending looks at its team and starts to wait for the run.
WaiterLooks(a) ==
  /\ waiter[a].at = "start"
  /\ IF Belongs(a) /\ pending[a] # <<>>
     THEN waiter' = [waiter EXCEPT ![a].at = "waiting"] /\ UNCHANGED pending
     ELSE waiter' = [waiter EXCEPT ![a] = Ended] /\ pending' = [pending EXCEPT ![a] = <<>>]
  /\ UNCHANGED <<team, roster, message, to, inbox, prompts, watcher, agent, used>>

\* It woke, has the delivery lock, and asks for the control lock of the run.
WaiterWakes(a) ==
  /\ waiter[a].at = "waiting" /\ CanWait(a) /\ DeliveryFree(a)
  /\ IF pending[a] = <<>>
     THEN waiter' = [waiter EXCEPT ![a] = Ended] /\ UNCHANGED <<run, prompts, mirror, watcher>>
     ELSE IF outside[a]
     THEN /\ waiter' = [waiter EXCEPT ![a].at = "blocked"]
          /\ run' = [run EXCEPT ![a] = Fenced(a)]
          /\ UNCHANGED <<prompts, mirror, watcher>>
     ELSE /\ waiter' = [waiter EXCEPT ![a].at = "sending"]
          /\ Given(a, pending[a])
  /\ UNCHANGED <<team, member, adding, removal, message, to, pending, inbox, outside, used>>

\* Mutant: the first failed delivery is the last.
RefusedForGood(a) ==
  /\ waiter[a].at = "blocked" /\ ~outside[a]
  /\ waiter' = [waiter EXCEPT ![a] = Ended]
  /\ UNCHANGED <<team, roster, mail, watcher, agent, used>>

\* The other input got there first: send_input finds a task.
WaiterRefused(a) ==
  /\ waiter[a].at = "blocked" /\ ~outside[a]
  /\ waiter' = [waiter EXCEPT ![a] =
       IF @.tries + 1 >= MaxTries THEN Ended ELSE [at |-> "start", tries |-> @.tries + 1]]
  /\ UNCHANGED <<team, roster, mail, watcher, agent, used>>

\* send_input returned: the batch is delivered.
Deliver(a) ==
  /\ waiter[a].at = "sending"
  /\ waiter' = [waiter EXCEPT ![a] = Ended]
  /\ pending' = [pending EXCEPT ![a] = <<>>]
  /\ run' = [run EXCEPT ![a] = TaskCreated(a)]
  /\ Busy(a)
  /\ UNCHANGED <<team, member, adding, removal, message, to, inbox, prompts, outside, used>>

\* _watch_teammate woke and finds no task: a busy teammate becomes ready.
Watch(a) ==
  /\ watcher[a] = "waiting" /\ CanWait(a)
  /\ run' = [run EXCEPT ![a] = Fenced(a)]
  /\ IF Belongs(a) /\ mirror[a] = "busy"
     THEN mirror' = [mirror EXCEPT ![a] = "ready"] /\ watcher' = [watcher EXCEPT ![a] = "emitting"]
     ELSE watcher' = [watcher EXCEPT ![a] = "none"] /\ UNCHANGED mirror
  /\ UNCHANGED <<team, member, adding, removal, mail, waiter, outside, used>>

\* The ready event is out; the watcher ends, or goes on for a new run.
WatchEnds(a) ==
  /\ watcher[a] = "emitting"
  /\ watcher' = [watcher EXCEPT ![a] = IF Belongs(a) /\ HasTask(a) THEN "waiting" ELSE "none"]
  /\ UNCHANGED <<team, roster, mail, waiter, agent, used>>
-----------------------------------------------------------------------------
Membership(a) ==
  \/ Add(a) \/ Reserve(a) \/ SpawnFails(a) \/ Register(a) \/ Added(a) \/ AddCancelled(a)
  \/ Undo(a) \/ Undone(a) \/ AskRemoval(a) \/ RemoveMember(a) \/ Removed(a) \/ RemoveCancelled(a)

Execution(a) == RunStarts(a) \/ RunEnds(a) \/ RunSettles(a) \/ InputTaken(a)
Waits(a) == WaiterLooks(a) \/ WaiterWakes(a) \/ WaiterRefused(a) \/ Deliver(a)
Watches(a) == Watch(a) \/ WatchEnds(a)

Mail(m) ==
  \/ \E a \in Agents : Send(m, a)
  \/ Commit(m) \/ Inject(m) \/ Injected(m) \/ SendCancelled(m)

Teardown ==
  \/ ShutdownFromOutside \/ (\E a \in Agents : ShutdownFromInside(a) \/ Cancel(a))
  \/ Mark \/ Sweep \/ Dissolve \/ ShutdownEnds \/ Close \/ CloseShutsDown \/ Closed

Next ==
  \/ Create \/ Teardown
  \/ \E a \in Agents : Membership(a) \/ Execution(a) \/ Input(a) \/ Waits(a) \/ Watches(a)
  \/ \E m \in Messages : Mail(m)

Spec == Init /\ [][Next]_vars

(* The event loop runs what can run, and every run ends: its model answers,
   fails or is cancelled. *)
Fairness ==
  /\ \A a \in Agents :
       /\ WF_vars(Reserve(a)) /\ WF_vars(Register(a)) /\ WF_vars(Added(a)) /\ WF_vars(Undo(a))
       /\ WF_vars(Undone(a)) /\ WF_vars(RemoveMember(a)) /\ WF_vars(Removed(a))
       /\ WF_vars(Execution(a)) /\ WF_vars(Waits(a)) /\ WF_vars(Watches(a)) /\ WF_vars(Cancel(a))
  /\ \A m \in Messages : WF_vars(Commit(m)) /\ WF_vars(Inject(m)) /\ WF_vars(Injected(m))
  /\ WF_vars(Mark) /\ WF_vars(Sweep) /\ WF_vars(Dissolve) /\ WF_vars(ShutdownEnds)
  /\ WF_vars(CloseShutsDown) /\ WF_vars(Closed)

FairSpec == Spec /\ Fairness
-----------------------------------------------------------------------------
AddType == [at : {"none", "queued", "spawning", "emitting", "added", "undoing", "stopping", "failed"},
            to : 0..MaxRuntimes]
WaitType == [at : {"none", "start", "waiting", "blocked", "sending"}, tries : 0..MaxTries]
RunType == {"none", "queued", "fenced", "created", "live", "ending", "over"}

\* Every variable keeps its type, and a message that was authorized has a recipient.
TypeOK ==
  /\ current \in 0..MaxRuntimes /\ created \in 0..MaxRuntimes /\ shutting \in BOOLEAN
  /\ manager \in {"open", "closing", "closed"} /\ caller \in Agents \union {None}
  /\ cleanup \in [at : {"none", "begun", "spawns", "cancels", "files"}, left : SUBSET Agents]
  /\ member \in [Agents -> 0..MaxRuntimes]
  /\ mirror \in [Agents -> {"none", "busy", "ready", "shutdown"}]
  /\ adding \in [Agents -> AddType]
  /\ removal \in [Agents -> {"none", "asked", "stopping", "done", "refused", "cancelled"}]
  /\ message \in [Messages -> {"none", "allowed", "committed", "injecting", "sent", "refused"}]
  /\ to \in [Messages -> Agents \union {None}]
  /\ \A m \in Messages : message[m] # "none" => to[m] \in Agents
  /\ waiter \in [Agents -> WaitType]
  /\ watcher \in [Agents -> {"none", "waiting", "emitting"}]
  /\ run \in [Agents -> RunType]
  /\ outside \in [Agents -> BOOLEAN]
  /\ pending \in [Agents -> Seq(Messages)]
  /\ inbox \in [Agents -> Seq(Messages)]
  /\ prompts \in [Agents -> Seq(Messages)]

\* Those who are on the team of a runtime, or being spawned for it.
Places(r) == Teammates(r) \union {a \in Agents : adding[a].at = "spawning" /\ adding[a].to = r}

\* max_teammates holds over the await of a spawn (add_teammate counts before it,
\* under spawn_lock).
RosterFits == \A r \in Runtimes : Cardinality(Places(r)) <= MaxTeammates

\* A call that will stop the agent, or decide that it must be stopped, is under
\* way; or the caller of remove_teammate was cancelled in the middle of it.
InHand(a) ==
  \/ adding[a].at \in {"spawning", "undoing", "stopping"}
  \/ removal[a] \in {"stopping", "cancelled"}

\* A run belongs to a teammate of the current team or somebody is about to
\* stop it: spawning, removal, rollback and shutdown leave no orphan behind
\* and no message restarts an agent that was taken off its team.  (A caller
\* cancelled inside remove_teammate does leave one.)
NoOrphans ==
  \A a \in Agents : run[a] \notin {"none", "over"} => (member[a] # 0 /\ member[a] = current) \/ InHand(a)

\* i comes before j in the sequence s.
Before(s, i, j) == \E p, q \in DOMAIN s : p < q /\ s[p] = i /\ s[q] = j

\* What an agent is given are messages committed for it, each once and in the
\* order of the inbox, whether injected directly or in a batch.
DeliveredInOrder ==
  \A a \in Agents : \A k \in DOMAIN prompts[a] :
    /\ \E p \in DOMAIN inbox[a] : inbox[a][p] = prompts[a][k]
    /\ \A j \in DOMAIN prompts[a] : j < k =>
         prompts[a][j] # prompts[a][k] /\ Before(inbox[a], prompts[a][j], prompts[a][k])

\* TeamStatus shows a teammate as busy while it works: neither a watcher that
\* wakes late nor a new run behind it leaves it ready.
WorkersAreBusy ==
  \A a \in Agents : run[a] = "live" /\ Belongs(a) => mirror[a] = "busy"

\* What a team says of its agents is what they do, and they are no more than it may have.
TeamKnowsItsRuns == NoOrphans /\ WorkersAreBusy /\ RosterFits

\* Idle teammates wake: when the injection of a message into an idle teammate
\* returns, the teammate has a task that will work on it (README.md:1652).
AutoWake ==
  [][\A m \in Messages : message[m] = "injecting" /\ message'[m] = "sent" /\ UNCHANGED used
        => run'[to[m]] = "created"]_vars

\* Buffered messages reach the teammate or are given up with it: a delivery
\* that another input overtakes is tried again (it is given up after MaxTries
\* failures, more than the inputs there are).
BatchesAreDelivered == \A a \in Recipients : []<>(pending[a] = <<>>)

\* A shutdown that no teammate waits for ends, whatever was being spawned,
\* sent, removed or watched.
ShutdownsEnd == []<>(~shutting \/ caller # None)

\* Both: what the team has begun, a delivery or a shutdown, comes to its end.
TeamMovesOn == BatchesAreDelivered /\ ShutdownsEnd
=============================================================================
