# CrabCode: TLA+ verification project

CrabCode is an AI coding assistant: a Python asyncio engine (`packages/core`)
that runs conversation turns against a language model and tools, a gateway
(`packages/gateway`) that serves sessions over HTTP/SSE, WebSocket, gRPC and
ACP, a terminal client, a code-search index, a debugger tool, and desktop and
editor front ends. Almost everything that is hard about it is concurrency:
several asyncio tasks share one session object, several sessions share one
gateway, several *processes* share one SQLite database and one inbox directory,
and each of them may be cancelled, closed, replaced or killed at any `await`.

This directory models those parts in TLA+, checks the models with TLC on small
instances and proves the invariants that matter most with TLAPS.

Source paths below are relative to `src/packages/core/crabcode_core` (core) and
`src/packages/gateway/crabcode_gateway` (gateway).

## 1. Inventory

### 1.1 Components, their state and their operations

| component | source | state | operations |
|---|---|---|---|
| Gateway event bus | gateway/event_bus.py | subscribers with bounded queues, session tombstones, session owners | subscribe, publish, register/close session, close_all, SSE and WebSocket loops |
| Gateway task registry | gateway/task_registry.py, session_registry.py | running session operations, leases, "closing" fences | claim, track, lease, cancel, cleanup |
| Gateway routes | gateway/routes/*.py | none of their own: they compose the two above with CoreSession | create, resume, archive, send, interrupt, ... |
| Schedules | core/schedule/{manager,store,timing,models}.py | SQLite rows shared by processes: schedule, lease, run history; per process: timers and tasks | create, pause, resume, cancel, trigger, claim, renew, release, recover |
| Conversation session | core/events.py (CoreSession) | lifecycle generation, transcript, pending input, turn lock, callbacks | send, queue, steer, interrupt, new, resume, close, permission and choice replies |
| Agent manager | core/agent_manager.py | runs of sub-agents, their tasks, snapshots, callback state | spawn, wait, cancel, send_input, restore, close |
| Agent callbacks | core/agent_manager.py, events.py | durable delivery state of each finished agent's result | pending, injected, delivered, recover |
| Team runtime | core/team/manager.py, models.py, recovery.py | teams, members, task board, watchers, pending deliveries | create, add, remove, send, broadcast, shut down, recover |
| Team message bus | core/team/message_bus.py, inbox.py, file_lock.py | one durable JSONL inbox per agent plus an in-memory mirror, registration epochs | register, send, mark_read, receive, merge on persist, load |
| Query loop | core/query/loop.py | messages of the turn, tool calls in flight | stream model, run tools, compact, retry |
| Session storage | core/session/{storage,meta_db}.py | transcript JSONL, metadata database | append, project, load, compact markers |
| Peer runtime | core/peer/runtime.py | messages between sessions of one workspace | send, enqueue, dispatch |
| Permissions | core/permissions/*.py | rules, pending requests | evaluate, ask, reply |
| Plan executor | core/plan/executor.py | step graph, step results | run ready steps, fail, resume |
| Snapshots | core/snapshot/*.py | shadow git repository, tracked files | snapshot, revert, prune |
| Background monitors | core/tools/monitor.py | child processes, their output buffers | start, notify, stop |
| LSP | core/lsp/*.py | language servers, pending requests | start, request, restart |
| Search index | packages/search | vector store, background builder | index, update, query |
| Debugger | packages/debugger | DAP sessions, processes | launch, step, read memory |
| Model adapters | core/api/*.py | none: protocol translation | stream |
| Terminal client | packages/cli | screen state | prompt, render |
| Front ends | packages/desktop, packages/vscode, packages/computer-use | UI state | - |

### 1.2 How the components interact

- A **front end** talks to a gateway route. The route resolves the session id to
  the `CoreSession` installed for it, under the registry lock of
  `session_registry.py`, and registers the work it starts with the **task
  registry**: an operation, a turn with an operation id, or a lease.
- The **CoreSession** runs turns through the **query loop**, which calls a model
  adapter and tools. Whatever it has to say is a `CoreEvent`, tagged with the
  session id and the lifecycle generation, which some gateway task publishes on
  the **event bus** any number of awaits later.
- Tools start more actors in the same event loop: sub-agents (**agent manager**),
  teams (**team runtime** over the **message bus**), **monitors**, **schedules**.
  Each ends by a callback into the session, which turns it into a background turn
  under the same turn lock as the user's.
- Processes share state through the file system only: the **schedule** database
  (SQLite), the **inboxes** of the message bus and the peers (JSONL under a file
  lock), the transcripts and the metadata database (**session storage**).

### 1.3 What is hard about it

1. *State read before an await and used after it*: an object resolved by a route, a
   lifecycle generation captured by a notification, an abort flag cleared at the
   start of a turn, a row read before a job was executed.
2. *Cancellation at every await*: of a producer, of the consumer that waits for it, of
   the clean-up that waits for both.
3. *Fences*: an id or an object that is being closed must refuse new work while the old
   work is cancelled and drained, and must open again exactly once.
4. *Bounded queues and limits* with a policy about what may be dropped.
5. *Crashes and several processes*: leases, heartbeats and recovery.
6. *Things that must happen in the end*: a turn has its terminal event, a waiter of a
   closed queue wakes, a due job runs, a close finishes.

### 1.4 What makes each component correct

| component | must hold |
|---|---|
| Event bus | control events reach each open stream in order and without a gap; a closed lifecycle's events are delivered to nobody; closed streams end |
| Task registry, routes | one object per id; no work on a closed object; one terminal event per turn; clean-up ends |
| Schedules | one execution per occurrence; an executor holds the lease; outcomes are final; due jobs run |
| Conversation session | accepted input is used once, in order, by its own run; queries exclude each other; interrupts and close end the run |
| Agent manager, callbacks | a waiter is woken once its run is over and not before; runs of a replaced session do not act; each result is delivered once |
| Message bus | disk forgets nothing, memory does not run ahead of it, receipts are earned, a successor under an old id is given nothing |
| Peers | a message is read once and in its own session, its sender is told the truth, no wakeup is lost |
| Team runtime | no run without an owner; messages are given in order, each once; a working teammate is shown as busy; buffered messages move on; shutdown ends |
| Query loop | every request pairs each call with its result; no call runs twice, or against the user's answer; a query ends within its retry budget |
| Plan executor | a step runs after its dependencies and at most once; a failure stops what depends on it; a cancelled plan leaves no agent behind |
| Monitors | lines are heard in order, once, in the lifecycle they were started in; the queue moves on; no process outlives the session |
| Language servers | one server per project and language; it sees every version in order; an edit returns whatever the server does; shutdown leaves none |
| Session storage | what is loaded is what was live; what was acknowledged is there once; a rollback restores what the checkpoint saw |

The hazards behind this list, each with its line in the source and the properties
that look at it, are in `PROJECT.json` under `hazards`.

## 2. Plan

Modules in order of importance. The first thirteen are written.

| # | module | models | abstract specification | proved | to prove |
|---|---|---|---|---|---|
| 1 | EventBus | gateway/event_bus.py and its callers | ControlStream, per subscriber | invariants, refinement | - |
| 2 | Schedule | core/schedule | - | leases, one execution, records, limits | - |
| 3 | GatewaySession | task registry and routes | - | fence, ids, exactly one terminal event | - |
| 4 | Turns | CoreSession's turns | - | ownership and order of input, exclusion | - |
| 5 | QueryLoop | query/loop.py within a turn | - | - | - (recursive, section 7) |
| 6 | Agents | agent_manager.py and the session switches of events.py | - | types, WaitersAreWoken, EndsAreSettled, TasksAreFenced, ResultsSurvive | - |
| 7 | Inbox | team/message_bus.py, inbox.py, file_lock.py | - | DiskComesFirst, FilesNeverForget, OldGenerationsStaySilent | - |
| 8 | Team | team/manager.py | - | types, TeamKnowsItsRuns, DeliveredInOrder | - |
| 9 | Peer | peer/runtime.py and its use by events.py | - | types, MessagesArriveOnceAtHome, SendersKnowTheTruth | - |
| 10 | Transcript | session/storage.py, meta_db.py and the writes of events.py | - | AcknowledgedIsKeptOnce, TranscriptGivesBack | - |
| 11 | PlanExecutor | plan/executor.py, plan/types.py | - | StepsRunOnceInOrder, PlansEndClean | - |
| 12 | Monitors | tools/monitor.py and its dispatcher in events.py | - | NotesAreTrue | - |
| 13 | LanguageServers | lsp/client.py, manager.py, diagnostics.py | - | ServersKeepStep | - |
| 14 | Callbacks | the completion dispatcher of events.py over Agents | an outbox: each result once | | |
| 15 | GatewayFleet | several session ids over one registry lock | GatewaySession, per id | | |

How the modules fit together. Each abstracts its neighbours to what they do to it, and the
neighbour's module says that they do no more:

- GatewaySession takes a turn for a task that ends or is cancelled; Turns takes the gateway
  for callers that are cancelled or close their stream; QueryLoop takes both for `Prompt` and
  `Interrupt`, and is the inside of the one `query` of Turns.
- EventBus takes all of them for events that are emitted now and published later.
- Agents takes the session for its switches and its closing, and a callback turn, which is a
  notification of Turns, for the two marks it leaves on a snapshot.
- Team takes the agent manager for the part of a run that TeamManager sees (`run[a]`, a
  quotient of the phases of Agents) and the bus of Inbox for the commit of a message.
- PlanExecutor and LanguageServers are used by the tools of a turn, which QueryLoop calls and may
  cancel; the agents of a plan are those of Agents. The dispatcher of Monitors takes the turn
  lock of Turns. MCServices runs these three as alternatives.
- QueryLoop's `stored` is what Transcript's `Projection` loads; `Committed` there is `Commit`
  here. Peer's `TakeInTurn` is the guidance of kind "peer" that `LoopHead` drains.

## 3. Modules

Common conventions. The engine is asyncio, so *one action is what the event loop
executes without suspension*; an await that can really suspend is a control point
between two actions. Where several processes are involved (Schedule, Inbox, Peer, Transcript),
what one SQLite transaction or one file lock covers is indivisible, and every process may die
between two such steps. Definitions
commented as mutants are variants of the definition that follows them, each with a
plausible bug; no specification uses them (see section 5).

### 3.1 EventBus (gateway/event_bus.py)

| state | code |
|---|---|
| `sourceOf`, `invalidated` | `_session_sources`, `_invalidated_sessions` |
| `sub[st]` | the `_Subscriber` of a transport: scope, membership, `_BoundedEventQueue`, handshake, `_closed`, `overflowed` |
| `reader[st]`, `hand[st]` | where `sse_stream` / `ws_stream` is, and the item it popped |
| `objId`, `objGen` | `CoreSession.session_id`, `_lifecycle_generation` |
| `inflight` | events emitted by an object and not yet published |
| `gateway` | `app.state.gateway_closing` |
| `retired`, `offered`, `handed` | history, for the properties only |

A queue is a *set* of items with growing positions, as `_BoundedEventQueue`'s
`OrderedDict` is: eviction takes from its middle without moving the rest. Operators
that mirror the methods of a subscriber map the record before to the record after
(`Pushed`, `Closed`, `Dropped`, `Unsubscribed`); the actions mirror `register_session`,
`close_session`, `subscribe`, `publish`, `close_all`, the two halves of
`GatewayServer._stop_impl`, and the steps of a transport loop including the
heartbeat's cancelled read. `Publish` takes an event emitted any time before, passes
the id resolved then or the object's id of now, with or without a source, as the
callers do.

**ControlStream** is what one subscriber is promised: control events are handed over
oldest first, and until the stream ends the only ones that disappear are all the
pending ones of a session that changed hands. `CS(st)` in EventBus is the refinement
mapping: `pending` is the set of control events in the queue, `open` is `~closed`, and
the life of a session is its owner and whether it is a tombstone.

### 3.2 Schedule (core/schedule)

| state | code |
|---|---|
| `row[j]` | the `schedules` row: status, `next_run` (`due`), `run_count`, `claimed_by`, `claimed_until` (`live`) |
| `runs` | the `schedule_runs` rows |
| `up[m]` | a `ScheduleManager`: not started, polling, closing, closed, its process dead |
| `tasks`, `active` | running `_execute_claimed_job` tasks; `_active_tasks` |

Times are abstracted to what the statements ask: `next_run` is NULL, future or passed, a
lease is live or expired. `Claim`, `TriggerJob`, `Begin`, `Finish`, `Unwind`, `Stop`,
`Stopped`, `Start` with its recovery, and the user's `CreateJob`, `PauseJob`,
`ResumeJob`, `CancelJob` are the manager's methods; `Expire`, `FallDue` and `Crash` are
the clock and the operating system. The constant `Allowed` says what may happen to a
job *while it is executed*: edits through another process (`"edit elsewhere"`), through
this one (`"edit here"`), a suspended machine (`"suspend"`). A lease is the execution
timeout and a minute more, so without suspension it outlives its execution: `Expire`
says so.

### 3.3 GatewaySession (gateway/task_registry.py, session_registry.py, routes)

| state | code |
|---|---|
| `installed`, `closing` | `app.state.sessions[id]`, membership in `closing_sessions` |
| `server`, `stopping` | `gateway_closing`, the pending closes of `_stop_impl` |
| `phase[o]` | the CoreSession object: loading, open, removed, draining, drained, closing, closed |
| `loader`, `held` | who holds the load lock; the registry lock is held across an await |
| `task[t]` | a task registered for the session: operation, turn or stream |
| `owner`, `intr` | `operation_tasks`, the interrupt requests and their claims |
| `leases` | `session_leases` |

A section under the registry lock is one action, since nothing else can see its middle,
except that `session_status` holds the lock across a provider call (`Hold`/`Unhold`),
when nobody else can be admitted or release a lease. Clean-up is the sequence
`Cleanup` (cancel), `Drained`, `Close` (leases gone), `CloseReturns` (fence lifted). `Allowed`
switches the three disturbances "lock", "owner", "interrupter".

### 3.4 Turns (core/events.py)

| state | code |
|---|---|
| `life`, `gen` | `_closing`/`_closed` and the progress of `_close_impl`; `_lifecycle_generation` |
| `lock` | `_turn_lock` |
| `accepting` | `_foreground_turn_active` together with `_accepts_queued_follow_ups` |
| `abort` | `_abort_controller` |
| `followups`, `steering` | `_queued_follow_ups`, `_steering_messages` |
| `pc[c]` | the await or yield a run or a notification is suspended at |
| `query[c]` | its producer task |
| `taken[r]` | input taken from a queue whose event is being yielded |

`pc` follows `send_message` and `_send_message_impl`: waiting (turn lock), prologue
(`initialize`), peer (`ensure_peer_runtime`), prepare (hook, context window), query,
terminal (the last event of a turn), applying and starting (the yields of
`SteeringAppliedEvent` and `QueuedMessageStartedEvent`), cancelling, leaving (closing the
inner stream), releasing. `owner`, `removed`, `log`, `interrupted`, `ended` are history.

### 3.5 Agents (core/agent_manager.py, session switches of core/events.py)

| state | code |
|---|---|
| `session`, `gen` | `AgentManager._session_id`, `_session_generation` |
| `storage` | the session whose `SessionStorage` the persistence callback writes to: during a resume it is not yet `session` |
| `resuming`, `loaded` | a `_resume_session` that waits for detached tasks, and the snapshots it has read |
| `life` | `CoreSession._closed` ("leaving"), `AgentManager._closed` and the steps of its `_close_impl` |
| `runOf`, `run` | `_runs` and the `_AgentRun` objects, also those only a task or a caller still holds |
| `disk` | the agent snapshots of each session |
| `outbox` | `_agent_completion_queue` and what the dispatcher has not finished with |

A run record holds the snapshot's status, callback state and epoch, `detached`, membership
in `_detached_tasks` (`tracked`), who set `done_event` (`woken`), the task and where it is
suspended (`phase`), a cancellation that its next step will throw (`hit`), and which
coroutine holds its `control_lock` and where that one is suspended (`ctl`).
Phases: new (never stepped), parked (`start_event.wait()`), slot (the semaphore), starting,
querying, ending, handling (state events before, after and in the handlers of a query),
releasing (the `finally`), finalizing (`_finalize_cancelled_run`), over. `Thrown` is a
cancellation arriving at each of them: one that arrives before the first step ends the task
without running any handler. The session switches are `NewSession`, which is synchronous,
`ResumeBegin` / `ResumeEnds` around `wait_for_detached_agents`, `Restart` (a crash at any
moment, and another process), and the closing steps. `Dispatch` stands for the dispatcher's
calls of `mark_callback_injected` and `mark_callback_delivered`. `Allowed` admits a close
("close") or a cancelled `send_input` ("input") while a resume waits, and a session that
resumes itself while an input is being queued ("reload"); section 8 says what they do.

### 3.6 Inbox (core/team/message_bus.py, inbox.py, file_lock.py)

| state | code |
|---|---|
| `file[a]`, `torn` | the JSONL file of an agent, as what its readable lines say of each message (nothing, unread, read); files that end in a part of a line |
| `inbox[b][a]`, `registered[b]`, `epoch[b]` | `_inboxes`, `_registered`, `_registration_epochs` of the bus of one process |
| `locked[b][a]` | `_inbox_locks`: the call that holds it and those that wait |
| `op[o]` | a `send` or `mark_read` under way and where it is suspended |
| `sent`, `strayed`, `erased` | history |

A file operation runs in a worker thread under the team's file lock and is one step; its
caller may be cancelled while the thread goes on (`Cancel`, `op[o].stopped`). `Send`, `Enter`,
`AppendLine`, `Deliver` are the parts of `send`; `Mark`, `Stage`, `WriteContent`, `Marked`,
`Receipt` those of `mark_read`, whose rewrite merges the bus's copy into the file
(`Merge`: a message never goes back). `Register` and `Unregister` change the epoch a call
compares before it touches memory. `Tearing` lets a failed append leave a part of its line.

### 3.7 Peer (core/peer/runtime.py and its use by core/events.py)

| state | code |
|---|---|
| `record`, `socket` | the registry directory: one file per session, and the socket files |
| `runtime[r]` | a `PeerRuntime`: binding, open, draining, closed |
| `host[h]` | a `CoreSession` in its own process: closing, session, generation, `_peer_runtime` |
| `removing[h]` | a record this host has read and is about to unlink |
| `queue`, `available`, `entering`, `held` | `_peer_notification_queue` and its event, `enqueue_peer_message` calls that wait for the event of their message, `_held_peer_messages` |
| `turn`, `task` | the turn lock; `_dispatch_peer_notifications` |
| `message` | the sends under way and what their senders were told |

`Send` connects to the runtime a record names; `Receive` is the receiver's handler (throttle,
policy, queue or hold), `Acknowledged` and `Unreached` are the two ends of the sender's wait,
between which the receiver may still answer. `Decide` is the user's answer to a held message.
A queued message leaves by a turn that takes it at a loop boundary (`TakeInTurn`) or by the
dispatcher (`DispatcherWakes`, `Dispatch`), which waits for an event, then for the turn lock,
and looks at the session's lifecycle again. `Switch`, `Close` and `Crash` come anywhere.

### 3.8 Transcript (core/session/storage.py, meta_db.py, the writes of core/events.py)

| state | code |
|---|---|
| `log` | the JSONL transcript: messages, compaction and clear boundaries, checkpoints, rollbacks, metadata |
| `row[c]` | the `checkpoints` table |
| `live[x]`, `turn` | `CoreSession.messages` of a process; whether it is in a turn |
| `written`, `cursor`, `tokens` | `_written_uuids`, `_scan_offset`, `_meta_index["tokens_used"]` of its storage |
| `making[x]` | `create_checkpoint` between the row and the marker |
| `acked`, `saved`, `spent`, `apart` | history |

`Load` is `load_messages`: a recursive function that applies `Replay` to one record after the other, with the
active conversation and what each checkpoint would restore; `Recorded` is what the index holds of a part of the file. Every write first scans what other processes appended
(`Scan`). A message is a number; its pruned form has the same id and the negative sign.
`ResumeMatchesLive` compares `Projection(log)` with the conversation in memory whenever that
is committed, for sessions that wrote alone and without failures, since two processes that
hold one session open do not see each other's turns until they load it again.

### 3.9 Team (core/team/manager.py)

| state | code |
|---|---|
| `current`, `shutting`, `cleanup`, `manager` | `_teams[id]`, `_shutting_down`, where `_finish_shutdown` is, `close` |
| `member`, `mirror` | `runtime.teammates` and the state TeamStatus shows of each |
| `adding`, `removal`, `message`, `to` | `add_teammate`, `remove_teammate` and `send_message` calls and where they are |
| `pending`, `waiter`, `watcher` | `_pending_messages`, `_pending_delivery_tasks`, `_teammate_watch_tasks` |
| `run`, `outside` | the agent's run as TeamManager sees it: none, queued, fenced, created, live, ending, over; an input given past the team |
| `inbox`, `prompts` | history: what was committed for an agent, what it was given |

`membership_lock` is never held over a suspension, so what it covers is one step; `bus_lock`,
`spawn_lock`, the delivery locks and a run's control lock are (`BusFree`, `SpawnFree`,
`DeliveryFree`). A message is committed to the inbox (`Commit`) and then injected into an idle
recipient or buffered (`Inject`), and a waiter delivers what was buffered when the recipient
is idle (`WaiterLooks` to `Deliver`). The watcher mirrors the end of a run (`Watch`). Adding
has a rollback for every await (`AddCancelled`, `Undo`, `Undone`); the shutdown marks, sweeps
and cancels in steps, between which spawns, removals and injections go on.

### 3.10 QueryLoop (core/query/loop.py)

| state | code |
|---|---|
| `messages`, `stored` | `params.messages`, the live projection; what a restart loads |
| `content`, `done`, `text`, `itemAware` | `assistant_content`, `completed_content_count`, `current_text`, `item_aware_stream` |
| `pc` | where the loop is suspended: head, preflight, stream, stopped (after `message_stop`), decide, ask (`permission_queue.get()`), run (`_run_tools`); idle between queries |
| `retrying`, `retries`, `counts` | `pending_stream_retry`, the retry state, `turn_count` and its like |
| `at`, `approved`, `stage` | the call that is decided about, `approved_blocks`, each call in `_run_tools` |
| `answers`, `buffered` | `permission_queue`, `buffered_permission_responses` |
| `guidance` | steering and peer messages that wait |
| `executed`, `asked`, `given`, `failures`, `cut` | history |

A message is its kind, the calls it makes or answers and a uuid. `Prompt` appends the user's
message and repairs the history (`Repaired`: results are moved behind their calls, missing
ones made); `LoopHead`, `Compact`, `Send` prepare a request; the chunks fill `content`;
`Exhausted`, `EndTurn`, `Empty`, `Fail`, `Overflow` are its ends. A failed stream keeps the
items that were complete, commits them as a response, runs their calls and replays. The
provider may make a new call, or repeat the id of one it has made before, also in one
response. `Duplicate`, `Replay`, `Refuse`, `Allow`, `AskUser` and `Hear` decide about each call;
`CallTool`, `StopTool`, `ToolReturns`, `SafeReported` run them, the safe ones together. At every
await the query can be cancelled (`Interrupt`, which closes the calls the code's handlers
close there) and the process can end (`Restart`).

### 3.11 PlanExecutor (core/plan/executor.py)

| state | code |
|---|---|
| `deps`, `status`, `held`, `verdict` | the plan: `depends_on`, `PlanStep.status`, whether `agent_id` is set, `ExecutionPlan.status` |
| `results` | `step_results` |
| `execution`, `producer` | where `execute` and its `_producer` task are |
| `tasks`, `pending`, `watched` | the step tasks with their agents, `pending_tasks`, what `asyncio.wait` was given |
| `doomed`, `cancels` | tasks a `CancelledError` is on its way to; how often the consumer was cancelled |

A plan may be any graph, cyclic ones included, and new or left over from an earlier execution.
`Execute` validates it and resets stale statuses; `Produce` is one round of the producer, which
launches the ready steps and cancels the ones that cannot run. A step task waits for the
semaphore (`CanStart`, first come, first served), spawns an agent and waits for it; `Unwind` and
`AgentCancelled` are what a cancellation does at each await. `Cancel` and `CancelAgain` cancel the
consumer, the second time in its own clean-up.

### 3.12 Monitors (core/tools/monitor.py and the dispatcher of core/events.py)

| state | code |
|---|---|
| `stage`, `outcome`, `doomed`, `process`, `lines` | the task of a monitor, its child process, the number of its last line |
| `status`, `quiet`, `callers` | `snapshot.status`, `suppress_notification`, the `stop_task` calls that wait |
| `name`, `generation`, `closing`, `turn` | session id and lifecycle generation, how far `close` is, who has the turn lock |
| `queue`, `dispatcher`, `batch` | `_monitor_notification_queue`, `_dispatch_monitor_notifications` and what it took |
| `given` | history: what the model was given, and in which generation |

A monitor ends with its process, by its timeout, by `stop_task`, or with its session; several of
these may meet (`Leave` into the `finally` clause, `StopReturns`, `Unwind`). `NewSession`,
`Resume` and `Close` end the monitors of the old lifecycle without waiting for them, and the
dispatcher, which waited for the turn lock meanwhile, looks again at the generation of its
batch (`Lock`).

### 3.13 LanguageServers (core/lsp)

| state | code |
|---|---|
| `clients`, `broken`, `spawning` | `_clients`, `_broken`, `_spawning` of the manager |
| `servers` | each start task with its client: stage, process, document version, the writer lock's queue, what was written to it, what it published |
| `calls`, `disk` | the Read and Edit calls and where they are; the file's text |
| `doomed`, `closing`, `left`, `talks` | cancelled starts; `shutdown` of the manager and where it is |

A server is a foreign program, which may answer, refuse, hang and exit. `GetClients` finds or
starts one, `Touch` sends didOpen or didChange under the writer lock (`Written`, `Drained`),
`Hear` is `wait_for_diagnostics`, and `TimesOut` is the deadline of an edit, which cancels
whatever the edit waits for, the start of a server included (`Cut`).

### 3.14 MCServices

PlanExecutor, Monitors and LanguageServers have no state in common and no step together. So that one
run explores all three, MCServices instantiates each, and the variable `part`, chosen
initially, says whose behaviour it is: the others keep their initial state. The fairness of a
part is that of its module, asked for in its own behaviours only. The state space is the sum of
the three and not their product.

## 4. Runs

| run | bounds | what it checks and shows |
|---|---|---|
| bus_streams | 1 session id, 2 objects, 1 stream, queue of 1, 2 events, 1 lifecycle change | a closed lifecycle's events are never buffered for anybody, however late they are published; a closed stream holds the end marker only and ends; shutdown leaves no stream open; each stream refines ControlStream; a control event moves on although heartbeats cancel the pending read without end |
| schedule_jobs | 2 managers, a recurring job and a one-shot, MaxRuns 2, 1 concurrent job, 2 occurrences, 2 disturbances (crashes and edits), `Allowed = {}` | one execution per occurrence; both limits hold; a running record has somebody who will finish it; outcomes are final; a due job is executed while some manager polls |
| gateway_sessions | 3 objects of one id, 2 tasks, 1 operation id, 2 interrupts, every disturbance | one object per id, no work on a closed object, exactly one terminal event unless the turn was abandoned, clean-up ends |
| gateway_owner_leaves | 2 objects, 2 tasks, 1 id, 1 interrupt, `{"owner"}` | finding: a turn without a terminal event |
| turns_run | 1 run, 1 notification, 3 inputs, queues of 2, 1 new session | accepted input is used once, in order, by its own run; queries exclude each other and the teardown; interrupted runs end; close settles |
| agents | 2 agents and 2 sessions, 1 execution slot, 1 callback epoch after the first, 1 switch or crash; one agent is controlled and sees the switch, the other, which always owes its result, only competes for the slot (`Steered`); `Allowed = {}` | an ended run has woken its waiters and announced its end once; one executor per agent; close leaves nobody executing or waiting; debts and agents stay on disk; a resume ends |
| inbox_files | 2 buses, 2 agents of whom one is written to, 2 calls at a time (symmetric), 2 messages, 1 fault, up to 3 registrations | disk forgets nothing; memory never runs ahead of it; receipts tell of what is on disk; nothing reaches a successor |
| peer_inbox | 2 hosts, 2 sessions, 3 runtimes, 2 messages, queue of 1, 1 fault; one host sends, the other's user acts | a message is read once, at home; answers are true and records have owners; no wakeup is lost |
| transcript_file | 2 processes, 3 messages, 4 records, 1 checkpoint, 2 token records, 1 fault | what is resumed is what was left; acknowledged messages and tokens are there once; rollbacks restore |
| team_members | 2 agents, 1 teammate at a time, 1 team, 2 messages, and 1 input past the team or 1 fault | no orphan and no hidden work; messages in order, each once; batches move on; shutdowns end |
| queries | 2 prompts, 2 requests, 2 call ids (one of a safe tool), responses of 2 items, 1 retry, 1 continuation, 2 turns, 2 events (cancellations, restarts, compactions, guidance, other answers, replays, failures), hooks that print | requests pair calls and results; a call runs once and with leave; a query ends within its budget |
| services | plans: 3 steps and every graph over them, concurrency 2, 4 step tasks, 2 cancellations; monitors: 1 with a timeout, 2 session ids, 3 lifecycles, 2 lines, batches of 2, 2 faults; servers: 2 keys, 2 calls of which one edits, 3 servers | a plan is refused exactly for a cycle; steps run in order, once; nothing of a plan goes on after it and its summary is true; every plan ends; the model hears a monitor's lines in order and in their lifecycle; notifications move on; one server per key sees every version in order and ends with the manager; an edit returns |

Why these bounds are enough for the question asked:

- **Bus.** One subscriber never reads or writes another's queue, so one stream is
  enough; two objects are needed for an id to change hands, and a full queue (the second
  event finds it) for eviction and overflow. Several sessions and longer queues, where the
  evicted item is chosen among several, are left to the theorems, which hold for any
  number of sessions and any capacity. `MaxEvents` and `MaxGen` bound the events ever
  emitted and the lifecycle changes.
- **Schedule.** One manager that holds a lease or dies, one that recovers or claims. Two
  occurrences, so that a second claim of one job can meet the first. `MaxOcc` bounds the
  occurrences that fall due, `MaxDisturb` crashes, restarts and user edits together.
  The theorems hold for any number of managers.
- **Gateway.** Three objects: one closing, one loading and one to follow. Two
  interrupts race for one turn and its successor on the same id.
- **Turns.** A run contends for the lock with a notification; three inputs with
  queues of two reach the limit, promotion between the queues and the input that
  arrives during the last look at them. `MaxGen` bounds `new_session`. That several runs
  exclude each other and keep their input apart is proved for any number.
- **Agents.** A control operation concerns one run, so one agent is controlled; the second
  makes the semaphore a limit. Two objects of an id (`Copies`): the one a switch has
  disowned and the one it restores. One switch suffices to disown, restore and announce
  again; with the second agent left out, two switches were explored as well (1.9 million
  states). `MaxEpoch` bounds the inputs that renew a callback, `MaxSwitches` switches and
  crashes.
- **Inbox.** The hazards are between two calls on one inbox, of one bus or of two: two calls, two
  buses. A message and its receipt, or two messages of one inbox, are two messages. Three
  registrations are one, its removal, and the successor's.
- **Peer.** Three runtimes: the sender's, the receiver's and the one after its switch. A queue
  of one is full with the second message. One fault: a timeout, a failed start or a crash.
- **Transcript.** Four records hold a message, a boundary or clear, a marker and a rollback in
  any order; the third message id is one the second process writes. One checkpoint: markers
  are independent of each other.
- **Team.** A second agent takes the place of the first, under `MaxTeammates = 1`. Two messages
  can be out of order, one input can overtake. One incarnation of the team: a run knows its
  team by number, and what survives it is an orphan in the next one as well.
- **QueryLoop.** Two prompts, so that a history that was cut short is repaired; two requests, so
  that a request follows results, a replay or guidance; two calls, so that one is open while
  the other is answered, repeated or safe. Two events: a cancellation and guidance, say. With two calls and
  three events the state space exceeds what a run can explore; with one call and responses of
  one item the two invariants also hold for four requests, four events and three prompts, which is
  where `cut` (section 8) matters.

- **Plans.** Three steps make a chain, a fork, a join and every cycle; two places, so that a step
  waits for one. With one place two ready steps wait, which is what section 8 describes. The
  second cancellation interrupts the clean-up of the first.
- **Monitors.** One monitor with a timeout races exit, timeout, stop and session change; two
  lines fill a batch; three lifecycles resume the first id again. A persistent monitor
  behaves like one whose timeout does not come.
- **Language servers.** One key for each of two calls, or one for both; an edit and a read overlap
  on one document. The third server is the one started after a start was cancelled.

A run takes a few properties and not one each for every conjunct: where two concern one mechanism
they are checked as one (`StreamsMoveOn`, `RecordsAreTrue`, `StopsAreHeeded`, `TasksAreFenced`,
`DiskComesFirst`, `TranscriptGivesBack`, `TeamMovesOn` and those of MCServices), and their parts
keep their names and comments in the modules.

All runs set `CHECK_DEADLOCK FALSE`: each of these systems stops when the bounded events,
objects, tasks or runs are used up, and a closed session or gateway has nothing left
to do. That nobody waits for ever is what the liveness properties say.

## 5. Mutants

Every property of every passing run has a mutant in `PROJECT.json`, one that is made of several
parts more than one: a variant of a
definition that models code, with a bug of the kind that code could have (the fence
is not asked, the sentinel is not pushed, a lease of another manager is released, a
follow-up stays in its queue when promoted, ...). The run finds the property violated when
the definition is replaced by its variant. They are the definitions commented
"Mutant" beside the definition they vary; nothing uses them in the specifications.

## 6. Fairness

All fairness is weak and only of steps the event loop, the clock or an ended wait
must take:

- **EventBus**: `ReaderStep` of each stream. A transport loop is a task that is ready
  whenever its queue is not empty or its waiter was woken. Not fair: publishing,
  heartbeats, disconnects. A heartbeat may therefore cancel the pending read every time,
  and the property holds because the next read finds the item in the queue.
- **Schedule**: `Stopped` (stop gathers cancelled tasks), `Claim` of each manager (its loop
  polls at least every 30 seconds), `Expire` (time passes), and some task's step
  (executions run under `asyncio.wait_for`). Not fair: restarts, crashes, users.
- **GatewaySession**: each task's unwinding, each interrupt's next step, each
  clean-up's next step, and the end of the provider call under the lock, which has a
  timeout. Not fair: turns ending by themselves, clients leaving, archive, stop.
- **Turns**: each caller's next step and its producer's (`WatchAbort`, `Unwind`), the
  cancellation of notification tasks while the session drains, and the steps of
  `_close_impl`. Not fair: `QueryEnds` (a model may never answer), users, `Close`.

- **QueryLoop**: the loop's next step (a stream ends or times out, a tool returns) and the
  user's answer to the prompt that waits. Not fair: prompts, cancellations, restarts,
  guidance, other answers. `QueriesEnd` therefore needs that answer, and says that it is
  heard whatever other answers stand before it in the queue.
- **Inbox** and **Transcript** have safety properties only: nothing in them waits.
- **Peer**: what the event loop and the event sink go on with, the end of a turn, and strong
  fairness of `Dispatch`, which needs the turn lock that users keep taking: asyncio's locks
  are first come, first served. Not fair: users, timeouts, crashes.
- **Team**: each task and each suspended call, and every run ends: its model answers, fails or
  is cancelled, and QueryLoop's `QueriesEnd` says that a query does not go on for ever. Not
  fair: users, callers' cancellations, failures.
- **PlanExecutor**: the generator and its producer, the step tasks, and the ends of agents, whose
  runs are bounded by turns and retries (QueryLoop). Not fair: cancellations.
- **Monitors**: the dispatcher, the ends of turns, and each monitor's own steps. Not fair: a process
  that exits, prints or closes its output, users, `close`.
- **LanguageServers**: the next step of each call and its deadline, the steps of a start that need no
  server, and shutdown. Not fair: anything a server does.
- **Agents**: each task's next step, each suspended caller's next step (an event that is
  delivered, a task that has ended), the end of a resume whose tasks have ended, and the
  closing steps. Not fair: `QueryEnds`, so that `SwitchesEnd` says that the cancellation,
  and not the model's answer, ends a disowned run.

## 7. Proofs

All theorems hold for every value of the constants that satisfies the named assumptions
of the modules (finite sets where cardinalities are taken, bounds that are natural
numbers, `None` outside the sets). TLC evaluates these assumptions in every run.

**Gateway_proofs, the bus.** `Capacity`, `MaxEvents` and the numbers of sessions, objects and
streams are arbitrary. The invariant `IInv` adds to the properties: every subscriber record
is sound, and begun exactly when its loop runs (`Subs`); the id of a retired lifecycle is a
tombstone or bound to another object, which is why `publish` refuses its late events
(`Fenced`); after the sweep nobody is registered (`Shut`); and published events are among
those emitted, with the ones in flight still to come (`Counted`), which bounds the
positions in a queue. The methods of a subscriber come first, as lemmas about `Pushed`,
`Closed`, `Dropped` and `Unsubscribed`. Theorems `TypeCorrect`,
`ClosedLifecyclesStayClosed`, `ClosedSubscribersAreEmpty`, `ShutdownIsComplete`.

It ends with the refinement, `NoGaps`: EventBus implements ControlStream for every
subscriber. The initial states map to initial states; there is one lemma per action, which
shows that its step is, for each stream, a step of `CSNext` or leaves the mapped variables
unchanged. The invariant is `IInv` together with `Numbered`: positions are distinct within a queue and not above the
number of events published, so a new event is the youngest of each queue. The difficult step is `Publish` into a
full queue: the evicted item is an ordinary event, or else the stream closes.

**Schedule_proofs.** Assumes `Allowed = {}`, a hypothesis of the theorems; without it
they are false, as section 8 says. `LInv`: types; a manager's
`_active_tasks` names exactly its tasks, and run numbers are not reused (`Known`); a live
task's manager is up and holds a live lease of the job, and what is cancelled belongs to a
manager that stops (`Covered`); a job that does not exist is leased to nobody (`Unborn`).
`LeasesCover`, and from it `OccurrencesRunOnce`: two live executions of an occurrence
would both hold the one lease. Its first conjunct is `TypeCorrect`.

`RecordsHold` adds `Records`: a run record has a number that was given out, its own, and the
record of a live execution is running. So recovery, which fails the records of jobs that
nobody holds a lease of, never fails that of a live execution; and `_finish_job`, which writes
the outcome of an execution, finds no other outcome there. `LimitsHold` adds the counts, for a
finite set of jobs. `Places`: what a manager executes on its own account is in its
`_active_tasks`, so the places it gave out bound the executions; `BusyJobs` and `Counts`: an
executed job is active or in error, and a recurring job that may run has a run left, so the
count of an execution that ends does not pass the limit of the job.

**Gateway_proofs, the sessions.** The same module extends GatewaySession, which shares no state with EventBus and whose
specification is `SessionSpec`. With every disturbance. `GInv`: while an object is cleaned up
the id is fenced, by the closing mark or by the gateway's own closing, and an object that loads holds the load lock (`Fence`); at most one
object is alive; active tasks work on an object that is open or draining (`WorkIsHere`);
only a task that is over is flagged as reported, and an unflagged one has no terminal event
(`Flags`, from which `OneTerminalEvent`); an interrupt under way names the operation it took
over (`Claims`); operation ids are unique.

`TurnsAreTold` is the whole of `ExactlyOneTerminalEvent`. That a turn which is over was told at least once,
if its session is still there and nobody abandoned it, needs `Told`, about the way there: a task that is flagged
as reported has had its event; and one that is cancelled or over and not flagged is in the hands of
an interrupt, which will publish it. Tasks work only on objects that were installed, so an object that
is installed later finds no turn that is over.

**Turns_proofs.** `IInv` is `CInv /\ DInv`, each conjunct a named part. `CInv` is about
control: who holds the lock (`LockInv`), which query may be alive (`QueryInv`), what an
interrupt did to the abort flag (`AbortInv`, `LateInv`), that an ended run is over
(`EndedInv`). `DInv` is about input: pending input belongs to the run that accepts it
(`PendingInv`, `OwnedInv`), taken input to the run that took it (`TakenInv`), nothing is
forgotten by the run that keeps it (`KeptInv`, `EndUsed`). Control does not depend on data,
so it is proved first and used by the second induction. A step lemma per action, and under
it one per conjunct the action can disturb.

`UsedInOrder` and `InputIsUsed` need a third induction, `OInv`, on top of these. An input is in one
place, the queue of the run that accepted it, the inputs taken by a run or those left over
(`InOnePlace`); inputs are numbered as they are accepted (`Numbered`), the pending follow-ups are in that
order, and after every follow-up that was used (`InOrder`); and the follow-up that a run has taken and
announces, during which others are queued and promoted, comes between (`NextUp`).

**Agents_proofs.** Any number of agents, sessions and run objects; any `Allowed`, but for
`ResultsKept`, whose hypothesis is `Allowed = {}`. `Inv` is
the types and `Unborn`: an agent that was never spawned has no run, no snapshot and only
blank objects, so that a spawn finds a free object. With it `TypeCorrect`, whose second half
is the semaphore: only `Acquire` adds a holder, and it asks first. `WaitersWake` needs what
the property does not say. `InHand`: a run whose event is not set is the one its id names
(so that every switch and close finds it), belongs to the session while that is open, and
has a live task or a control operation that will settle it; and only `cancel_agent` and an
interrupting `send_input`, which settle it themselves, cancel its task, which may end
without a word. A general lemma (`SetStep`, `SetInHand`) serves the steps that change one
run, and the switches and the close have lemmas of their own.

`RunsAreSettled` and `OneTaskAtATime` rest on a second invariant, `Ruled`, which uses `Inv` and `InHand`
and is about the runs whatever their session does. For each run (`Sane`, `Paid`, `Past`): it is announced
at most once, and not before its execution is over; its status is then terminal; a task at work whose
event is set is tracked, or belongs to a spawn that failed; an execution that its own task or canceller
settled, in the session that owns the run, has announced what it owed; and what a resume or a
close that waits has already made of the runs. For each two runs of an agent (`Alone`): at most one task works,
and it is the one the agent's id names. The steps of one run change one record, so lemmas about a
record (`ChangeRuled`, `SetRuled`, `MoveRuled`, `SettledRuled`, `ControlRuled`) serve them; a
resume and a close change all records (`LeftRuled`, `RestoredRuled`). That nobody works when a
resume has ended is the difficult part: the tasks it detached are tracked, and the resume waits until the
tracked ones are dead.

`ResultsKept` (`ResultsSurvive`) adds a third invariant, `Stored`, about the disk. The manager writes the list of
its agents whole, so the question is whether that list is ever the wrong one. While no resume waits, the runs
that the ids name are the session's and nobody has disowned them (`Ours`), and the session has a snapshot of
a returned agent exactly when its id names a run; while one waits, what it has read owes what is on disk
(`Listing`). The epoch and callback of a snapshot are those of the run, except during an input, whose new epoch is
written with the "queued" state and of which nothing can be announced before (`Written`). What waits for
the dispatcher is owed by the run, or is older (`Due`). `Spawned` and `Marked` say that an agent has one spawn
under way and that whoever is tracked or failed to spawn was disowned, so that a late
`ToolsLoaded` does not write while a resume waits. With any member in `Allowed` the property is false (section 8).

**Inbox_proofs.** Any number of teams, processes, generations and messages. `DiskFirst` and `NeverForget`
assume `Tearing = FALSE`, a hypothesis of the theorems: a failed append leaves no part of a line. With
tearing they are false, as section 8 says. `Silent` assumes nothing. The invariant `Inv`
says what a file holds of the messages sent and erased (`World`), what a process remembers of a file
(`Memory`) and what a call in progress has learnt of it (`Calls`). The first two are constant-level
operators of (file, messages, erased), and `Later` relates such a world to what may become of it:
lines are added, receipts are merged, erasures stay. What a call knows stays true in every later world,
so one lemma (per kind of knowledge) carries the calls in progress over the steps of all others.
The proof uses the file lock and the merging of receipts only: the locks of the bus
objects play no part in it, though the code takes them.

The same module extends Transcript, which shares no state with Inbox and whose specification is `TranscriptSpec`:
any number of processes, messages, records, checkpoints and faults. `None` is no sequence of integers
(`TranscriptAssumption`), or a conversation could be taken for a missing one. `Load` is a recursive function: that it is what
its definition says, and so that a record which is appended is applied to what the file loaded to before (`LoadAppend`), is an
induction made of a least counterexample, and everything else follows one record at a time.

`MessagesAreKept` needs `TranscriptInv`: what a storage has indexed is recorded, and covers every message before its
cursor that no clear follows (`Covers`). Since a scan precedes each append under the lock, what it appends is not there yet,
whoever wrote in between; and a storage that has seen all token records has their number (`Counted`).

`TheFileGivesBack` (`TranscriptGivesBack`) adds `BackInv`. A conversation of a process that writes alone is equal to the file's only
when it is committed, so the invariant says how far the file is behind (`Begins`): what the file loads to is a beginning of the
conversation in memory, the rest is not recorded, and outside a turn there is no rest. Behind the cursor there are only markers and
token records, which change no conversation. `Snapshots`: what a checkpoint whose marker is in the file restores is what was live
when it was made, and the row of a checkpoint names the last message of that. No conversation, in memory or in
the file, holds a message twice (`Faithful`), so cutting it behind a message is cutting it at one place.

**Team_proofs.** Any number of agents, incarnations of the team, messages, inputs and faults; it assumes
only that the bounds are natural numbers. `CInv` is the types and `Ctl`, which is about control. A run that
is announced and has no task yet is in the hands of exactly one input, injection or waiter, which holds
the control lock and will make the task (`Control`); at most one message is handed over at a time, under
bus_lock (`OneMoves`). An agent that is off the team has no waiter and no message that waits, so nothing
restarts it (`Place`). How far a shutdown has come with each teammate (`Leaving`): after it has waited
for spawn_lock every teammate is one it will cancel, and those it has cancelled stay at rest. With these,
`Manned` and `Shown`, which are `NoOrphans` and `WorkersAreBusy` for one agent, are inductive. `InHand`
names the only calls that may have a run outside the team; the one that was cancelled in
`remove_teammate` is among them, as section 8 says. `Fits` is `RosterFits` with the finiteness of the
places: the agents need not be finite, so their number is the number of places given out, and
it is right to count the teammates only before a spawn because spawn_lock admits one at a time.

`GivenInOrder` adds `DInv`, about data. For each agent (`Mailed`): the inbox has no message twice; what was given
and what waits are each in the order of the inbox; what waits comes after what was given, except while
the waiter is giving it; and a committed message that was not yet injected is the last of its inbox, since bus_lock
is held from the one to the other. Lemmas about `Before` and appended or concatenated sequences carry
the steps.

**Peer_proofs.** Any number of hosts, sessions, runtimes, messages and faults, and any length of a queue or a
batch; it assumes only that the bounds are natural numbers and that `None` is none of the other values. `RInv`
is the types and the registry. A record names a published runtime of its session (`Recorded`); the runtime a
host uses is its own and open (`Used`), and it starts one at a time, when it uses none (`OneStarts`); what
it is about to unlink is the path of the runtime it read there (`Read`), so it never unlinks the socket of
another session. `MInv` is about messages, on top of `RInv`. In a queue each message was accepted, is there once
and was not shown (`QueueInv`); a held one is there once and was not accepted (`HeldInv`). For each message
(`MessageInv`): one that nobody has decided about is nowhere; what was delivered was accepted; what was refused
is nowhere. And all that there is of a message is at the one host it was sent to (`Home`, `NothingGoesAstray`).
`ArriveOnce` and `TruthIsTold` follow. The actions change a queue in three ways, by appending, by dropping a
prefix, and by emptying it, and one lemma for each says what then is where.

**Services_proofs.** Of what a session starts, the language servers (module LanguageServers, as `L`): any number of
keys, calls and servers, under the assumptions of MCServices. The invariant `Inv` has the types and, beside the property,
three groups of facts. *Who answers for a server* (`Owned`): until `shutdown` a server that was not cancelled is the one its key
has in `_spawning` while it starts, in `_clients` when it is ready, and its key is broken when it failed. So a call that finds
none of the three may start another, and `OneStartPerKey` is inductive. *What a document's versions are* (`Documents`):
the entries that wait for the writer lock carry, one after the other, the versions that follow what the server has read,
the request to shut down, which may be among them once, carries none, and the counter is at the last of them. A message that is
cancelled there marks the server (`lost`) and ends the claim; that one call has one message and waits for it (`Locks`, `Writers`)
is needed to say which. *How far a shutdown is*: the starts it found are all doomed (`Begun`), the client it
talks to was ready (`Spoken`), and a ready server of before is still its key's, which no later server has, and on the list
or being talked to (`Listed`); when it is done none is left (`Finished`).

`NotesHold` is about the monitors (module Monitors, as `M`): any number of monitors, session ids, lifecycles, lines and faults, and
any size of a batch. `NotesAreTrue` speaks of what the model was given, and is not inductive: what it will be given waits in
the queue, in the batch, or in both. So `MonitorInv` is about one list, `Stream`: what was given, what the dispatcher holds
and has not given, what is queued. Most steps of the dispatcher leave that list as it is; a monitor appends to it; a group of another
lifecycle is cut out behind what was given; and a new lifecycle or a close drops the end of it. `Truthful`: every entry is of its
monitor's lifecycle, or the last word of a stop, and an entry that says `End` is of a task that is over and has a final status,
which is why nothing more comes. `Ordered`: the entries of a monitor are right one after the other, all of them and completely
for a monitor of the session's lifecycle, and those that were given for any other; of the others what waits may have lost its
beginning, and is never given. That rests on `Mail`: what waits is in the order of the lifecycles, so the group of
the first entry is a prefix of the batch, and none of another lifecycle is between it and the queue. `Lifecycles` says that a
monitor which can still speak, one that runs and is not `quiet`, was started in the session's lifecycle, while `resume`
has not yet taken the new id too; `Records`, that whoever ends a task sees to its record. There is one lemma for each way the
list changes (`Quietly`, `Speaks`, `Forgets`, `Clears`, `Gives`), on lemmas about the entries of a monitor in a list
that is appended to or cut.

`StepsHold` and `PlansHold` are about the plan executor (module PlanExecutor, as `P`): plans of any size and shape, any concurrency,
failures and cancellations. They have a hypothesis, `[]OneWaits`: no more than `Concurrency + 1` tasks are under way at a time,
so that when all places are taken one step waits at most. Without it both are false, as section 8 says. `SmallPlansFit` proves
that every plan with at most `Concurrency + 1` steps meets it, and so does the plan of the run. `CyclesAreRefused`, that exactly the plans
with a cycle are refused, has no hypothesis. `PlanInv`: a task that is under way is the one under its step's id, its status says
how far it is, and all it depends on has been completed (`PlanKnown`); while nobody cancelled it the producer watches it, and
a step that is "running" has such a task (`PlanTasks`, `PlanSteps`). The point is the producer's next round, in which a step that is
still "pending" would be launched again: it comes when a watched task has ended, so that no more than `Concurrency` are left
(`PlanFits`), and as whoever can have a place has taken it, none is queued (`NobodyWaits`). So no step is launched twice, and the
test for failed dependencies in executor.py:156-160 never finds one, since `get_ready_steps` takes only steps whose dependencies
were completed (`ReadyOnes`). `ValidIffAcyclic` is the correctness of Kahn's algorithm in `validate_dag`. Its rounds are a
recursive function; that it is what its definition says (`Rounds`), that it has come to rest after as many
rounds as there are steps (`Settles`), and the two directions, by the first round that visits a step of a cycle and by an unvisited step
that needs least, are inductions made of least counterexamples (`Least`), since the library's induction theorems cannot be used.

Only model-checked:

- liveness, which is beyond the prover's reach, as is ENABLED;
- `TurnsComplete` (GatewaySession), which is violated;
- `RequestsPaired` and `CallsRunOnceWithLeave` (QueryLoop), which are about the flattening of a conversation,
  a recursive operator.

No module with a theorem has a recursive operator.

## 8. Where code and documentation disagree

The run *gateway_owner_leaves* states what the repository says and is violated by what the code
does: turns of a WebSocket that leaves have no terminal event (gateway/task_registry.py:530;
`PROJECT.json` quotes the line that promises one).

Others are in the models and excluded by a constant or by no property. Each can be seen with
TLC by changing the constant, or by adding the property to the run's configuration (for the last three
modules, to a configuration of the module itself, with its `FairSpec`):

- *Schedules, edits elsewhere* (core/schedule/store.py:165): saving a job clears its lease for
  every writer, so a pause and resume in a second process lets an occurrence run twice
  (`Allowed = {"edit elsewhere"}`, `OneExecutionPerOccurrence`). With `{"suspend"}`: a lease is
  wall-clock time, an execution timeout monotonic time.
- *Gateway, a leaked lease* (gateway/task_registry.py:612): a handler cancelled while it waits
  for the registry lock leaves its lease counted; `CleanupsEnd` excuses it. An interrupting
  request that is cancelled (task_registry.py:345) is the second way to a turn without a
  terminal event (`Abandon`).
- *Turns, a lost interrupt* (core/events.py:3156): the abort controller is cleared after
  awaits, and an interrupt that came during them is gone. `InterruptsAreHeard` states
  README.md:238, "Interrupt current turn".
- *Agents, input that is never executed* (agent_manager.py:697): while the "queued" event of a new
  input is delivered, the run's task is still the old, finished one. A `wait_agent` that
  arrives then sets the *new* run's `done_event`; the new task finds it set (line 1374) and
  ends without running. In a team the watcher does this by itself, since it is armed by that
  very event: `AutoWake` in Team states README.md:1652, "auto-wake for idle agents". The comment
  at 780-782 says that without the fence "a stale task that missed its final callback could
  wake waiters for the new run"; that is what the fence does here.
- *Agents, a wrong list written during a resume*: `_close_impl` and a cancelled `send_input` call
  `_persist` while the manager has the new session id and the storage is the old one, so either
  writes an empty list over the old session's snapshots (`Allowed = {"close"}` or `{"input"}`,
  `ResultsSurvive`).
- *Agents, snapshots read too early* (core/events.py:4662): `_resume_session` reads the snapshots before
  `abandon_active_agents` (4717) writes the last ones. When a session resumes itself (the comment at 4719-4721
  foresees that) while a `send_input` has begun a new epoch and not yet written it, the old snapshot is
  restored over the new one and announces the old epoch; a second resume that reads before this is
  written hands over a debt the disk no longer has (`Allowed = {"reload"}`, `ResultsSurvive`; it takes
  `MaxSwitches = 2` and every agent in `Steered`).
- *Agents*: `send_input` cancelled during its "queued" event (837-851) leaves a run "stopped" with its
  callback pending, which refuses further input until a resume; `send_input` restarts a
  finished agent without asking `max_active_agents_per_run`; a spawn that fails after another
  agent's event persisted the snapshots is restored as "stopped".
- *Inbox, a torn line* (team/message_bus.py:565): a failed append leaves a part of a line, the next
  append continues it, and a message that was reported as sent is unreadable
  (`Tearing = TRUE`, `MemoryBehindDisk`).
- *Peers, a record that goes for ever* (peer/runtime.py:506): an acknowledgement that comes too late
  makes the sender unlink the record of a receiver that lives, and nothing publishes it again:
  the session cannot be found until it restarts its runtime.
- *Teams*: a teammate that shuts down its own team waits for a cleanup that waits for the teammate
  (manager.py:225; `ShutdownsEnd` is about other callers). A caller of `remove_teammate` that
  is cancelled between the membership and the run leaves the run without an owner
  (manager.py:443; `NoOrphans` excuses it). `close` may return while a rollback still stops a
  run (manager.py:257).
- *Query loop*: when a response that repeats an answered call id is cancelled before the loop
  answers it again (loop.py:2144, any await from there to the next call), the call has no result
  next to it for ever, since the repair and `_append_missing_tool_results` look for any result of that
  id; `RequestsPaired` speaks of the first message that makes a call. Worse, a compaction that
  keeps the repetition and drops the first call with its result (compact.py:232 cuts between user
  messages) leaves a call without any result: the next request is sent like that, and if the
  provider repeats the id once more, the tool runs a second time, or with an answer that was given
  the first time. The history variable `cut` names the calls this happened to, and `RequestsPaired` and
  `CallsRunOnceWithLeave` speak of the others; with `cut` taken out of them TLC refutes both
  with one call, responses of one item, three requests and three events (the repetition takes a
  steering message, then the cancellation and the compaction). An error event after an overflow resets the retry budget, an
  exception does not (2016, 1961), hence the bound of `QueriesEnd`.
- *Query loop, hooks* (core/query/loop.py:720): what a tool hook prints is appended as a user message
  between the call and its result, and sent like that (`ResultsComeFirst`).
- *Plans, a step that waits* (core/plan/executor.py:155): a step keeps the status "pending" while its
  task waits for the semaphore, so the next round of the producer launches it again and forgets
  the first task. Two agents do the step, and a cancellation does not reach the forgotten one:
  `Concurrency = 1` violates `EachStepOnce` and `NothingLeftRunning`, which states the comment
  at executor.py:237, "Stop and await every in-flight step before the caller can close the
  session-owned AgentManager/resources."
- *Monitors, a process that stays* (core/tools/monitor.py:251): a monitor that is cancelled while it
  waits for its terminated process never escalates to SIGKILL, so a process that ignores SIGTERM
  lives on: `NoProcessOutlivesSession` with `Persistent` all monitors states monitor.py:468,
  "Run until TaskStop or session end."
- *Language servers, an edit that is cancelled* (core/lsp/diagnostics.py:79): the deadline of one edit
  cancels the start task that others wait for, and their edits raise CancelledError although
  the comment there says that a hanging server must not hide the result of an edit
  (`EditKeepsItsResult`, `Edits = {1, 2}`).
- *Language servers, others*: a start that is cancelled after its process runs leaves the process
  to itself, as does a failed `initialize`, so that two servers of a key may run
  (core/lsp/manager.py:16, `OneServerPerKey`); diagnostics of an older text may be reported for
  a newer one (`ReportsAreCurrent`); a server that leaves the request `shutdown` unanswered, and
  one that exits before it answered, are waited for without a limit, since pending requests are
  not failed at the end of its output (`ShutdownEnds`), for which reason one that exits
  before it answers `initialize` is never marked broken either (manager.py:9); a start that is cancelled before it ran stays in
  `_spawning`; a didOpen is lost when its call is cancelled while it waits for the writer lock.

Met while reading and outside the models: `_finish_job` writes the status of a row it read
before, so that a pause made meanwhile is undone; `_stop_impl` awaits the HTTP server's
shutdown before it closes the bus, although open event streams are what that shutdown waits
for.

## 9. What is not modelled, and why

- *Gateway*: the parts of the routes that only read or convert, several session ids at once
  (the registry lock is shared, the state per id is not), a crash of the gateway (nothing of
  its registry or bus persists). The archive handler whose cancellation falls into its wait for
  the registry lock after the flag was stored.
- *Schedules*: windows between two SQLite statements of *different* processes in `_finish_job`.
- *events.py*: what is not in Turns, QueryLoop, Peer, Transcript or Agents: choices, plans, skills,
  model switching, and manual compaction at the end of a turn.
- *Agents*: depth and model checks of a spawn, permission and choice routing, transcripts and
  partial output, disk writes that fail (they are logged and retried by the next one).
- *Inbox*: the order of lines, and the live queues with the asynchronous receive, which nothing
  in the repository calls.
- *Peers*: the throttle's windows (it may refuse anything at any time), address forms, senders that
  are always allowed, frames that are rejected, an event sink that raises.
- *Transcripts*: archives, forks, titles and other metadata, agents' transcripts, path layouts,
  search.
- *Teams*: roles, tasks and plans, results and status views, recovery after a restart.
- *Query loop*: thinking blocks, usage and token counts (whether a request fits is a choice),
  the reasons of a verdict, connection retries without a bound and the transport fallback, which
  no adapter takes, responses cut short by a limit (they end like `EndTurn`), the tools
  Checkpoint and Revert, which edit the projection, and the loops of sub-agents, whose
  generator is closed at a yield. Answers and guidance arrive in the states where the loop reads
  them, which reaches the same conversations as arriving earlier.
- *Plans*: the events, approval and editing of a plan, and its storage between executions, of which an
  execution sees what is left in the steps.
- *Monitors*: WebSocket sources beyond their being a monitor without a process, throttling of output
  volume, the text of a notification.
- *Language servers*: several files, a call that uses several servers, hover, definition and
  references, the requests a server makes, didClose, and the replacement of the manager when the
  project changes.
- Planned: the callback dispatcher and several sessions of a gateway (section 2).
- Not planned: model adapters, snapshots, the debugger and the search index (clients of external processes: almost all of them is I/O), prompts,
  permission rules (a sequential pure function of configuration), the terminal client and the
  front ends (user interfaces in several languages).
