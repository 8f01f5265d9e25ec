----------------------------- MODULE MCServices -----------------------------
(***************************************************************************)
(* What a session starts besides its turns: the steps of a plan (module    *)
(* PlanExecutor), monitors (Monitors) and language servers                 *)
(* (LanguageServers).  They have no state in common, so a behaviour is one *)
(* of the three, `part' says of which, and the others stay as they were.   *)
(***************************************************************************)
EXTENDS Integers, Sequences, FiniteSets

CONSTANTS
  Steps, Concurrency, MaxTasks, MaxCancels,                            \* PlanExecutor
  Monitors, Persistent, Names, MaxBatch, MaxLines, MaxGenerations, MaxFaults, \* Monitors
  Keys, Calls, Edits, MaxServers                                       \* LanguageServers

VARIABLES
  part,
  \* PlanExecutor
  deps, status, held, results, verdict, execution, producer, watched, tasks, pending,
  doomed, cancels,
  \* Monitors
  stage, outcome, doomedMonitors, process, monitorStatus, lines, born, quiet, callers, abandoned,
  settled, name, names, target, generation, sessionClosing, turn, queue, dispatcher, batch,
  given, used,
  \* LanguageServers
  disk, calls, misled, servers, doomedStarts, clients, broken, spawning, closing, left, talks,
  fence

planVars == <<deps, status, held, results, verdict, execution, producer, watched, tasks,
              pending, doomed, cancels>>
monitorVars == <<stage, outcome, doomedMonitors, process, monitorStatus, lines, born, quiet, callers,
                 abandoned, settled, name, names, target, generation, sessionClosing, turn, queue,
                 dispatcher, batch, given, used>>
serverVars == <<disk, calls, misled, servers, doomedStarts, clients, broken, spawning, closing,
                left, talks, fence>>
vars == <<part, planVars, monitorVars, serverVars>>

P == INSTANCE PlanExecutor
M == INSTANCE Monitors WITH status <- monitorStatus, doomed <- doomedMonitors, closing <- sessionClosing
L == INSTANCE LanguageServers WITH doomed <- doomedStarts

ASSUME BoundsAssumption == P!BoundsOK /\ M!BoundsOK /\ L!BoundsOK

Init ==
  /\ part \in {"plans", "monitors", "servers"}
  /\ P!Init /\ M!Init /\ L!Init
  /\ part # "plans" => \A s \in Steps : deps[s] = {} /\ status[s] = "pending"
  /\ part # "monitors" => name = CHOOSE n \in Names : TRUE

Next ==
  \/ /\ part = "plans" /\ P!Next
     /\ UNCHANGED <<part, monitorVars, serverVars>>
  \/ /\ part = "monitors" /\ M!Next
     /\ UNCHANGED <<part, planVars, serverVars>>
  \/ /\ part = "servers" /\ L!Next
     /\ UNCHANGED <<part, planVars, monitorVars>>

\* Each part with its own fairness (FairSpec of the three modules).
PlanFairness ==
  /\ WF_planVars(part = "plans" /\ P!Executor)
  /\ WF_planVars(part = "plans" /\ \E t \in DOMAIN tasks : P!TaskStep(t))
  /\ WF_planVars(part = "plans" /\ \E t \in DOMAIN tasks : P!AgentEnds(t))

MonitorFairness ==
  /\ WF_monitorVars(part = "monitors" /\ M!Dispatch)
  /\ WF_monitorVars(part = "monitors" /\ M!Turns)
  /\ \A m \in Monitors : WF_monitorVars(part = "monitors" /\ M!Running(m))

ServerFairness ==
  /\ \A c \in Calls :
       /\ WF_serverVars(part = "servers" /\ L!CallStep(c))
       /\ WF_serverVars(part = "servers" /\ L!TimesOut(c))
  /\ WF_serverVars(part = "servers" /\ \E t \in DOMAIN servers :
                     L!StartStep(t) \/ (servers[t].process # "running" /\ L!Drained(t)))
  /\ WF_serverVars(part = "servers" /\ L!Close)

Spec ==
  /\ Init /\ [][Next]_vars
  /\ PlanFairness /\ MonitorFairness /\ ServerFairness
-----------------------------------------------------------------------------
\* A plan is refused exactly if a step needs itself; otherwise no step is given to
\* two agents, nor to one before all it depends on has been completed (validate_dag,
\* _producer), as long as at most one ready step waits for the semaphore.
StepsRunOnceInOrder == P!RefusesExactlyCycles /\ P!EachStepOnce /\ P!DependenciesFirst

\* When execute() is over, nothing of the plan goes on behind the caller's back, and
\* the summary is true: completed if every step is, and a step that did not run had
\* a dependency that kept it from it.
PlansEndClean == P!NothingLeftRunning /\ P!SummaryIsJust

\* Every execution of a plan ends, also when steps fail and when it is cancelled.
PlanEnds == P!PlanEnds

\* The model hears each line of a monitor once, in order, in the lifecycle it was
\* started in, and that it ended at most once; and the record of a monitor that is
\* over says how (_finish, stop_task, _dispatch_monitor_notifications).
NotesAreTrue == M!HeardInOrder /\ M!HeardInItsLifecycle /\ M!OverIsRecorded

\* Notifications do not stay in the queue while the dispatcher can be started.
QueueMovesOn == M!QueueMovesOn

\* One server is started per key however calls, failures and exits fall, it is told
\* every version of the document in order, and it ends with the manager
\* (get_clients, touch_file, shutdown).
ServersKeepStep == L!OneStartPerKey /\ L!DocumentInStep /\ L!ClosedServersEnd

\* The result of an edit comes, whatever the servers do (collect_and_format_diagnostics).
EditsReturn == L!EditsReturn
=============================================================================
