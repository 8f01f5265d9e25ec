---------------------------- MODULE PlanExecutor ----------------------------
(***************************************************************************)
(* The plan executor (core/plan/executor.py): it runs the steps of a plan  *)
(* as sub-agents, each behind the steps it depends on, and at most         *)
(* Concurrency at a time.  The executor is a generator that starts one     *)
(* producer task, which starts one task per step; the consumer of the      *)
(* generator may be cancelled.                                             *)
(*                                                                         *)
(* Steps are numbered in the order of plan.steps.  A task that waits for   *)
(* the semaphore is first come, first served, so tasks are numbered in the *)
(* order of their creation.  A task that got the semaphore runs before the *)
(* producer hears that another one ended: asyncio wakes the waiter of a    *)
(* semaphore one turn of the loop earlier.  The agents are those of module *)
(* Agents: a cancelled spawn leaves none behind, and a call that cancels   *)
(* one returns when it has ended.                                          *)
(***************************************************************************)
EXTENDS Integers, Sequences, FiniteSets

CONSTANTS
  Steps,       \* plan.steps, by position
  Concurrency, \* max_concurrency
  MaxTasks,    \* bound: step tasks
  MaxCancels   \* bound: times the consumer is cancelled

BoundsOK ==
  /\ Steps \subseteq Nat \ {0} /\ IsFiniteSet(Steps)
  /\ Concurrency \in Nat \ {0} /\ MaxTasks \in Nat /\ MaxCancels \in Nat

VARIABLES
  deps,      \* depends_on
  status,    \* PlanStep.status
  held,      \* PlanStep.agent_id is set
  results,   \* step_results
  verdict,   \* ExecutionPlan.status
  execution, \* where execute() is
  producer,  \* where _producer is
  watched,   \* the tasks it waits for
  tasks,     \* the step tasks, each with its agent
  pending,   \* pending_tasks: the task under the id of a step, 0 if none
  doomed,    \* tasks a CancelledError is on its way to
  cancels    \* times the consumer was cancelled

plan    == <<deps, status, held, results, verdict>>
control == <<execution, producer, watched, cancels>>
work    == <<tasks, pending, doomed>>
vars    == <<plan, control, work>>

Task(s) == [step |-> s, at |-> "queued", agent |-> "none"]

\* A plan is new, or comes back with what an earlier execution left in it.
Init ==
  /\ deps \in [Steps -> SUBSET Steps]
  /\ \E left \in [Steps -> {<<"pending", FALSE>>, <<"failed", FALSE>>,
                            <<"completed", TRUE>>, <<"cancelled", TRUE>>}] :
       /\ status = [s \in Steps |-> left[s][1]]
       /\ held = [s \in Steps |-> left[s][2]]
  /\ results = [s \in Steps |-> "none"] /\ verdict = "pending"
  /\ execution = "new" /\ producer = "none" /\ watched = {}
  /\ tasks = <<>> /\ pending = [s \in Steps |-> 0] /\ doomed = {} /\ cancels = 0

-----------------------------------------------------------------------------
\* validate_dag without its last round.
VisitedShort == LET visit[n \in Nat] ==
                      IF n = 0 THEN {}
                      ELSE {s \in Steps : deps[s] \subseteq visit[n - 1]}
                IN visit[Cardinality(Steps) - 1]

\* validate_dag: Kahn's algorithm visits what depends on visited steps only.
Visited == LET visit[n \in Nat] ==
                 IF n = 0 THEN {}
                 ELSE {s \in Steps : deps[s] \subseteq visit[n - 1]}
           IN visit[Cardinality(Steps)]

Valid == Visited = Steps

Busy == {t \in DOMAIN tasks : tasks[t].at \in {"spawning", "waiting", "cancelling"}}
Queued == {t \in DOMAIN tasks \ doomed : tasks[t].at = "queued"}
CanStart(t) ==
  /\ t \in Queued /\ \A u \in Queued : t <= u
  /\ Cardinality(Busy) < Concurrency

\* pending_tasks keeps the tasks that are done.
LiveStale == {t \in DOMAIN tasks : pending[tasks[t].step] = t}

\* The tasks under pending_tasks that are not done.
Live == {t \in DOMAIN tasks : pending[tasks[t].step] = t /\ tasks[t].at # "ended"}

\* A step is ready when its dependencies are over, whatever came of them.
ReadyAnyway == {s \in Steps : status[s] = "pending"
                              /\ \A d \in deps[s] : status[d] \notin {"pending", "running"}}

Ready == {s \in Steps : status[s] = "pending"
                        /\ \A d \in deps[s] : status[d] = "completed"}
\* Dependencies that failed in this execution.
Barred == {s \in Ready : \E d \in deps[s] : results[d] = "bad"}
Launching == Ready \ Barred

\* The task of a step that is launched now: in the order of plan.steps.
Place(s) == Len(tasks) + Cardinality({r \in Launching : r <= s})

SetTask(t, at, agent) == tasks' = [tasks EXCEPT ![t].at = at, ![t].agent = agent]
SetAt(t, at) == SetTask(t, at, tasks[t].agent)

\* The steps that still run when the generator ends.
Swept == [s \in Steps |-> IF status[s] = "running" THEN "cancelled" ELSE status[s]]

-----------------------------------------------------------------------------
\* execute() up to its first event: stale statuses are reset.
Execute ==
  /\ execution = "new"
  /\ IF Valid
     THEN /\ execution' = "running" /\ producer' = "new" /\ verdict' = "running"
          /\ status' = [s \in Steps |-> IF held[s] THEN status[s] ELSE "pending"]
     ELSE execution' = "rejected" /\ UNCHANGED <<producer, verdict, status>>
  /\ UNCHANGED <<deps, held, results, watched, cancels, work>>

\* One round of _producer: the ready steps get tasks, and it waits for the
\* first of the tasks to end; without any, what is left cannot run.
Produce ==
  /\ \/ producer = "new"
     \/ producer = "waiting" /\ \E t \in watched : tasks[t].at = "ended"
  /\ \A t \in DOMAIN tasks : ~CanStart(t)
  /\ LET last == Len(tasks) + Cardinality(Launching)
         all == [t \in 1..last |-> IF t \in DOMAIN tasks THEN tasks[t]
                                   ELSE Task(CHOOSE s \in Launching : Place(s) = t)]
         kept == [s \in Steps |-> IF s \in Launching THEN Place(s)
                                  ELSE IF pending[s] \in Live THEN pending[s] ELSE 0]
         active == {kept[s] : s \in Steps} \ {0}
         stuck == {s \in Steps : status[s] = "pending"} \ Barred
         off == IF active = {} THEN Barred \cup stuck ELSE Barred
     IN /\ last <= MaxTasks
        /\ tasks' = all /\ pending' = kept /\ watched' = active
        /\ producer' = IF active = {} THEN "ended" ELSE "waiting"
        /\ status' = [s \in Steps |-> IF s \in off THEN "cancelled" ELSE status[s]]
        /\ results' = [s \in Steps |-> IF s \in off THEN "bad" ELSE results[s]]
  /\ UNCHANGED <<deps, held, verdict, execution, cancels, doomed>>

\* The summary does not count cancelled steps.
FinishLenient ==
  /\ execution = "running" /\ producer = "ended"
  /\ execution' = "over"
  /\ status' = Swept
  /\ verdict' = IF \E s \in Steps : Swept[s] = "failed" THEN "failed" ELSE "completed"
  /\ UNCHANGED <<deps, held, results, producer, watched, cancels, work>>

\* The consumer takes the sentinel: the summary.
Finish ==
  /\ execution = "running" /\ producer = "ended"
  /\ execution' = "over"
  /\ status' = Swept
  /\ verdict' = IF \E s \in Steps : Swept[s] \in {"failed", "cancelled"} THEN "failed" ELSE "completed"
  /\ UNCHANGED <<deps, held, results, producer, watched, cancels, work>>

\* The consumer is cancelled while it waits for an event: the producer ends,
\* and the tasks it knows of are cancelled.
Cancel ==
  /\ execution = "running" /\ cancels < MaxCancels
  /\ execution' = "stopping" /\ producer' = "ended" /\ doomed' = Live
  /\ cancels' = cancels + 1
  /\ UNCHANGED <<plan, watched, tasks, pending>>

\* A second cancellation while it waits for them is passed on to them.
CancelAgain ==
  /\ execution \in {"stopping", "aborting"} /\ Live # {} /\ cancels < MaxCancels
  /\ execution' = "aborting" /\ doomed' = Live
  /\ cancels' = cancels + 1
  /\ UNCHANGED <<plan, producer, watched, tasks, pending>>

\* The tasks are cancelled and not awaited.
StoppedAtOnce ==
  /\ execution \in {"stopping", "aborting"}
  /\ execution' = "over"
  /\ status' = IF execution = "stopping" THEN Swept ELSE status
  /\ UNCHANGED <<deps, held, results, verdict, producer, watched, cancels, work>>

\* All of them have ended; the cancellation goes on to the caller.
Stopped ==
  /\ execution \in {"stopping", "aborting"} /\ Live = {}
  /\ execution' = "over"
  /\ status' = IF execution = "stopping" THEN Swept ELSE status
  /\ UNCHANGED <<deps, held, results, verdict, producer, watched, cancels, work>>

-----------------------------------------------------------------------------
Start(t) ==
  /\ CanStart(t)
  /\ SetAt(t, "spawning")
  /\ status' = [status EXCEPT ![tasks[t].step] = "running"]
  /\ UNCHANGED <<deps, held, results, verdict, control, pending, doomed>>

Spawned(t) ==
  /\ tasks[t].at = "spawning" /\ t \notin doomed
  /\ SetTask(t, "waiting", "running")
  /\ held' = [held EXCEPT ![tasks[t].step] = TRUE]
  /\ UNCHANGED <<deps, status, results, verdict, control, pending, doomed>>

\* The step ends with the outcome, and the semaphore is released.
Settle(t, outcome) ==
  /\ SetAt(t, "ended")
  /\ status' = [status EXCEPT ![tasks[t].step] = outcome]
  /\ results' = [results EXCEPT ![tasks[t].step] = IF outcome = "completed" THEN "ok" ELSE "bad"]
  /\ UNCHANGED <<deps, held, verdict, control, pending, doomed>>

\* spawn_agent raises: no session, too many agents, an unknown model.
SpawnFails(t) ==
  /\ tasks[t].at = "spawning" /\ t \notin doomed
  /\ Settle(t, "failed")

\* wait_agent returns: the snapshot of an agent that ended, or None.
Answered(t) ==
  /\ tasks[t].at = "waiting" /\ t \notin doomed
  /\ tasks[t].agent \in {"completed", "failed"}
  /\ Settle(t, tasks[t].agent)

\* The agent ends by itself, or somebody cancels it.
AgentEnds(t) ==
  /\ tasks[t].agent = "running"
  /\ \E outcome \in {"completed", "failed"} : SetTask(t, tasks[t].at, outcome)
  /\ UNCHANGED <<plan, control, pending, doomed>>

\* CancelledError arrives: before the semaphore the step is as it was, in
\* spawn_agent there is no agent yet, in wait_agent it is cancelled, and in
\* cancel_agent the handler is left.
Unwind(t) ==
  /\ t \in doomed
  /\ doomed' = doomed \ {t}
  /\ SetAt(t, IF tasks[t].at = "waiting" THEN "cancelling" ELSE "ended")
  /\ status' = IF tasks[t].at = "spawning" THEN [status EXCEPT ![tasks[t].step] = "cancelled"]
               ELSE status
  /\ UNCHANGED <<deps, held, results, verdict, control, pending>>

\* cancel_agent returned: the agent has ended.
AgentCancelled(t) ==
  /\ tasks[t].at = "cancelling" /\ t \notin doomed
  /\ SetTask(t, "ended", IF tasks[t].agent = "running" THEN "failed" ELSE tasks[t].agent)
  /\ status' = [status EXCEPT ![tasks[t].step] = "cancelled"]
  /\ UNCHANGED <<deps, held, results, verdict, control, pending, doomed>>

TaskStep(t) ==
  Start(t) \/ Spawned(t) \/ SpawnFails(t) \/ Answered(t) \/ Unwind(t) \/ AgentCancelled(t)

Executor == Execute \/ Produce \/ Finish \/ Stopped

Next ==
  \/ Executor \/ Cancel \/ CancelAgain
  \/ \E t \in DOMAIN tasks : TaskStep(t) \/ AgentEnds(t)

Spec == Init /\ [][Next]_vars

\* The loop runs what is ready, calls to the agents return, and agents end:
\* a run is bounded by its turns and retries (QueryLoop).
FairSpec ==
  /\ Spec /\ WF_vars(Executor)
  /\ WF_vars(\E t \in DOMAIN tasks : TaskStep(t))
  /\ WF_vars(\E t \in DOMAIN tasks : AgentEnds(t))

-----------------------------------------------------------------------------
TypeOK ==
  /\ deps \in [Steps -> SUBSET Steps] /\ held \in [Steps -> BOOLEAN]
  /\ status \in [Steps -> {"pending", "running", "completed", "failed", "cancelled"}]
  /\ results \in [Steps -> {"none", "ok", "bad"}]
  /\ verdict \in {"pending", "running", "completed", "failed"}
  /\ execution \in {"new", "rejected", "running", "stopping", "aborting", "over"}
  /\ producer \in {"none", "new", "waiting", "ended"}
  /\ tasks \in Seq([step : Steps, at : {"queued", "spawning", "waiting", "cancelling", "ended"},
                    agent : {"none", "running", "completed", "failed"}])
  /\ Len(tasks) <= MaxTasks /\ pending \in [Steps -> 0..Len(tasks)]
  /\ watched \subseteq DOMAIN tasks /\ doomed \subseteq DOMAIN tasks
  /\ cancels \in 0..MaxCancels

\* What a step needs, directly or through others.
Needs(s) ==
  LET reach[n \in Nat] ==
        IF n = 0 THEN deps[s] ELSE reach[n - 1] \cup UNION {deps[d] : d \in reach[n - 1]}
  IN reach[Cardinality(Steps)]

\* A plan is refused if and only if a step needs itself: a cycle that is let
\* through, or a plan refused without one, shows here.
RefusesExactlyCycles ==
  execution # "new" => (execution = "rejected" <=> \E s \in Steps : s \in Needs(s))

\* No agent works on a step before each step it depends on has been completed.
DependenciesFirst ==
  \A t \in Busy : \A d \in deps[tasks[t].step] : status[d] = "completed"

\* No step is given to two tasks, and so to two agents, in one execution.  It
\* holds while at most one ready step waits for the semaphore: such a step is
\* still pending, and the producer launches it again in its next round.
EachStepOnce ==
  \A t, u \in DOMAIN tasks : tasks[t].step = tasks[u].step => t = u

\* When the generator has ended, with its plan or because it was cancelled (once:
\* a second time interrupts its clean-up), no task of a step and no agent of the
\* plan goes on behind the caller's back.
NothingLeftRunning ==
  execution = "over" /\ cancels <= 1 => \A t \in DOMAIN tasks : tasks[t].at = "ended" /\ tasks[t].agent # "running"

\* The summary tells what happened: the plan is completed if each step is, and
\* otherwise every step that did not run had a dependency that kept it from it.
SummaryIsJust ==
  execution = "over" /\ verdict # "running" =>
    /\ verdict = "completed" <=> \A s \in Steps : status[s] = "completed"
    /\ \A s \in Steps :
         /\ status[s] \in {"completed", "failed", "cancelled"}
         /\ status[s] = "cancelled" /\ ~held[s] => \E d \in deps[s] : status[d] # "completed"

\* Every execution ends, also when steps fail and when it is cancelled.
PlanEnds == []<>(execution \in {"new", "rejected", "over"})
=============================================================================
