------------------------------- MODULE Schedule -------------------------------
(***************************************************************************)
(* Scheduled jobs.  Every chat session, the gateway itself and every other *)
(* CrabCode process has a ScheduleManager of its own; all of them poll one *)
(* SQLite table and use the lease in a job's row so that one occurrence is *)
(* executed by one of them.  A manager can be suspended, closed or killed  *)
(* at any time, and users edit jobs through any manager, also while        *)
(* another one executes them.                                              *)
(*                                                                         *)
(* Source: core/schedule/manager.py, store.py, models.py, timing.py.       *)
(*                                                                         *)
(* A synchronous method of a manager is one action: managers of one        *)
(* process share its event loop.  Timestamps are abstracted to what is     *)
(* asked of them: next_run is NULL, in the future or passed; a lease is    *)
(* live or expired.                                                        *)
(***************************************************************************)
EXTENDS Integers, FiniteSets

CONSTANTS
  Managers,       \* ScheduleManager objects, each with an owner id of its own
  Jobs,           \* job ids
  Recurring,      \* the cron and interval jobs; the others run once
  MaxRuns,        \* max_runs of every job
  MaxConcurrent,  \* settings.max_concurrent_jobs
  Allowed,        \* what may happen to a job that is being executed
  MaxOcc,         \* bound: occurrences of a job
  MaxDisturb,     \* bound: edits, triggers, stops and crashes
  None

ASSUME JobsAssumption == Recurring \subseteq Jobs
ASSUME LimitsAssumption ==
  MaxRuns \in Nat \ {0} /\ MaxConcurrent \in Nat \ {0} /\ MaxOcc \in Nat
  /\ MaxDisturb \in Nat
ASSUME NoneAssumption == None \notin Managers
\* "edit elsewhere": users pause, resume or delete a job through a manager
\* that is not executing it; "edit here": through the one that is; "suspend":
\* the machine sleeps, which the wall clock of the leases sees and the
\* monotonic clock of the execution timeouts does not.
ASSUME AllowedAssumption ==
  Allowed \subseteq {"edit elsewhere", "edit here", "suspend"}

VARIABLES
  row,      \* the schedules table
  runs,     \* the schedule_runs table; "by" is history, the code does not keep it
  up,       \* each manager: "new", "up", "stopping", "down" or "crashed"
  tasks,    \* asyncio tasks running _execute_claimed_job
  active,   \* _active_tasks: the task each manager knows for each job, or 0
  nextRun,  \* the next run id
  disturb   \* edits, triggers, stops and crashes so far

vars == <<row, runs, up, tasks, active, nextRun, disturb>>

Absent == [status |-> "absent", due |-> "never", occ |-> 0, count |-> 0,
           holder |-> None, live |-> FALSE]

Init ==
  /\ row = [j \in Jobs |-> Absent]
  /\ runs = {}
  /\ up = [m \in Managers |-> "new"]
  /\ tasks = {}
  /\ active = [m \in Managers |-> [j \in Jobs |-> 0]]
  /\ nextRun = 1
  /\ disturb = 0

-----------------------------------------------------------------------------
(* The store.                                                              *)

Exists(j) == row[j].status \notin {"absent", "deleted"}

\* Mutant: the lease of a row is not looked at.
FreeAlways(r) == TRUE

\* Mutant: only a released lease is free, an expired one is not.
FreeReleased(r) == r.holder = None

\* claimed_until IS NULL OR claimed_until <= now
Free(r) == r.holder = None \/ ~r.live

\* The WHERE clause of claim_due_schedules.
Claimable(r) ==
  r.status = "active" /\ r.due = "now" /\ r.count < MaxRuns /\ Free(r)

Leased(r, m) == [r EXCEPT !.holder = m, !.live = TRUE]

\* upsert_schedule: any edit of the row also clears its lease.
Written(r) == [r EXCEPT !.holder = None, !.live = FALSE]

\* release_claim: only the owner's.
Released(r, m) == IF r.holder = m THEN Written(r) ELSE r

\* Mutant: recovery does not look at the status of a run.
FailedAll(J) == {[r EXCEPT !.status = IF r.job \in J THEN "failed" ELSE @] : r \in runs}

\* Rows of the runs table that are still "running" for the jobs J become
\* "failed": _recover_job_runs, and get_stale_running_runs in start().
Failed(J) ==
  {[r EXCEPT !.status = IF r.job \in J /\ @ = "running" THEN "failed" ELSE @] :
     r \in runs}

\* update_run
RunSet(id, status) ==
  {[r EXCEPT !.status = IF r.run = id THEN status ELSE @] : r \in runs}

-----------------------------------------------------------------------------
(* Who may disturb an execution.                                           *)

Live(t) == t.phase \in {"created", "running"}

\* The restriction of the user's edits of job j through manager m.
MayEdit(m, j) ==
  \A t \in tasks : t.job = j =>
    IF t.mgr = m THEN "edit here" \in Allowed ELSE "edit elsewhere" \in Allowed

Disturb == disturb < MaxDisturb /\ disturb' = disturb + 1

\* _forget_task, for tasks that ended: an entry that has been replaced stays.
Forget(ids) ==
  [m \in Managers |-> [j \in Jobs |->
     IF active[m][j] \in ids THEN 0 ELSE active[m][j]]]

\* task.cancel() on the tasks with the given ids: one that has not run yet
\* never will; one in the executor unwinds through its finally blocks.
CancelTasks(ids) ==
  LET hit == {t \in tasks : t.run \in ids}
      begun == {t \in hit : t.phase # "created"}
  IN /\ tasks' = (tasks \ hit) \union {[t EXCEPT !.phase = "cancelling"] : t \in begun}
     /\ active' = Forget({t.run : t \in hit \ begun})

-----------------------------------------------------------------------------
(* Manager life cycle.                                                     *)

\* start: fail the runs whose lease is gone, then poll.
Start(m) ==
  /\ up[m] \in {"new", "down"}
  /\ up' = [up EXCEPT ![m] = "up"]
  /\ runs' = Failed({j \in Jobs : Free(row[j])})
  /\ UNCHANGED <<row, tasks, active, nextRun, disturb>>

\* close and reconfigure: cancel the loop and every task the manager knows.
Stop(m) ==
  LET ids == {active[m][j] : j \in Jobs} \ {0}
  IN /\ up[m] = "up"
     /\ Disturb
     /\ up' = [up EXCEPT ![m] = "stopping"]
     /\ CancelTasks(ids)
     /\ UNCHANGED <<row, runs, nextRun>>

\* The tasks have ended: release_all_claims.
Stopped(m) ==
  /\ up[m] = "stopping"
  /\ \A j \in Jobs : active[m][j] = 0
  /\ up' = [up EXCEPT ![m] = "down"]
  /\ row' = [j \in Jobs |-> Released(row[j], m)]
  /\ UNCHANGED <<runs, tasks, active, nextRun, disturb>>

\* The process dies: rows, leases and run records stay as they are.
Crash(m) ==
  /\ up[m] \in {"up", "stopping"}
  /\ Disturb
  /\ up' = [up EXCEPT ![m] = "crashed"]
  /\ tasks' = {t \in tasks : t.mgr # m}
  /\ active' = [active EXCEPT ![m] = [j \in Jobs |-> 0]]
  /\ UNCHANGED <<row, runs, nextRun>>

\* claimed_until passes.  An execution is given its timeout and a minute more,
\* so a lease outlives it unless the machine slept in between.
Expire(j) ==
  /\ row[j].holder # None /\ row[j].live
  /\ \/ \A t \in tasks : ~(t.job = j /\ t.mgr = row[j].holder /\ Live(t))
     \/ "suspend" \in Allowed
  /\ row' = [row EXCEPT ![j].live = FALSE]
  /\ UNCHANGED <<runs, up, tasks, active, nextRun, disturb>>

\* next_run passes.
FallDue(j) ==
  /\ row[j].due = "later" /\ row[j].occ <= MaxOcc
  /\ row' = [row EXCEPT ![j].due = "now"]
  /\ UNCHANGED <<runs, up, tasks, active, nextRun, disturb>>

-----------------------------------------------------------------------------
(* The user's operations, through any manager.                             *)

CreateJob(m, j) ==
  /\ up[m] = "up"
  /\ row[j].status = "absent"
  /\ \E status \in {"active", "paused"} :
       row' = [row EXCEPT ![j] = [Absent EXCEPT !.status = status, !.due = "later",
                                                !.occ = 1]]
  /\ UNCHANGED <<runs, up, tasks, active, nextRun, disturb>>

\* pause_job: cancel the local task, if this manager has one, and write.
PauseJob(m, j) ==
  /\ up[m] = "up" /\ row[j].status \in {"active", "paused"} /\ MayEdit(m, j)
  /\ Disturb
  /\ row' = [row EXCEPT ![j] = Written([@ EXCEPT !.status = "paused"])]
  /\ CancelTasks({active[m][j]})
  /\ UNCHANGED <<runs, up, nextRun>>

\* A recurring job gets a new next_run, a one-shot its absolute time again.
Resumed(r, j) ==
  IF j \in Recurring
  THEN [r EXCEPT !.status = "active", !.due = "later", !.occ = r.occ + 1]
  ELSE [r EXCEPT !.status = "active",
                 !.due = IF r.due = "later" THEN "later" ELSE "now"]

\* resume_job: whatever the status was, unless completed.
ResumeJob(m, j) ==
  /\ up[m] = "up" /\ Exists(j) /\ row[j].status # "completed" /\ MayEdit(m, j)
  /\ Disturb
  /\ row' = [row EXCEPT ![j] = Written(Resumed(@, j))]
  /\ UNCHANGED <<runs, up, tasks, active, nextRun>>

\* cancel_job: delete the row and its runs.
CancelJob(m, j) ==
  /\ up[m] = "up" /\ Exists(j) /\ MayEdit(m, j)
  /\ Disturb
  /\ row' = [row EXCEPT ![j] = [Absent EXCEPT !.status = "deleted"]]
  /\ runs' = {r \in runs : r.job # j}
  /\ CancelTasks({active[m][j]})
  /\ UNCHANGED <<up, nextRun>>

-----------------------------------------------------------------------------
(* Claiming.                                                               *)

Task(id, m, j, manual) ==
  [run |-> id, mgr |-> m, job |-> j, occ |-> row[j].occ, manual |-> manual,
   retry |-> row[j].status = "error", phase |-> "created"]

\* Lease job j to m, fail its orphaned runs and create the task.
Launch(m, j, manual) ==
  /\ row' = [row EXCEPT ![j] = Leased(@, m)]
  /\ runs' = Failed({j})
  /\ tasks' = tasks \union {Task(nextRun, m, j, manual)}
  /\ active' = [active EXCEPT ![m][j] = nextRun]
  /\ nextRun' = nextRun + 1

\* The loop claims due jobs while it has capacity: claim_due_schedules takes
\* several in one transaction, here one after the other.
Claim(m, j) ==
  /\ up[m] = "up" /\ Claimable(row[j])
  /\ Cardinality({k \in Jobs : active[m][k] # 0}) < MaxConcurrent
  /\ Launch(m, j, FALSE)
  /\ UNCHANGED <<up, disturb>>

\* trigger_job: now, also a job that ended in an error, whatever the capacity.
TriggerJob(m, j) ==
  /\ up[m] = "up" /\ row[j].status \in {"active", "error"} /\ Free(row[j])
  /\ Disturb
  /\ Launch(m, j, TRUE)
  /\ UNCHANGED up

-----------------------------------------------------------------------------
(* _execute_claimed_job.                                                   *)

\* The task's first step: record the run and renew the lease, if still ours.
\* With the job deleted, the foreign key refuses the record and the task dies.
Begin(t) ==
  /\ t.phase = "created"
  /\ IF Exists(t.job)
     THEN /\ tasks' = (tasks \ {t}) \union {[t EXCEPT !.phase = "running"]}
          /\ runs' = runs \union
               {[run |-> t.run, job |-> t.job, by |-> t.mgr, status |-> "running"]}
          /\ row' = [row EXCEPT ![t.job].live = @ \/ row[t.job].holder = t.mgr]
          /\ UNCHANGED active
     ELSE tasks' = tasks \ {t} /\ active' = Forget({t.run}) /\ UNCHANGED <<row, runs>>
  /\ UNCHANGED <<up, nextRun, disturb>>

\* Mutant: max_runs is compared with the count before this run.
FinishedOneMore(r, t, success) ==
  LET counted == [r EXCEPT !.count = @ + 1]
      again == [counted EXCEPT !.due = "later", !.occ = @ + 1, !.status = "active"]
  IN IF r.count >= MaxRuns
     THEN {[counted EXCEPT !.due = "never", !.status = "completed"]}
     ELSE {IF t.manual THEN counted ELSE again}

\* What _finish_job makes of the current row: a set, since the next run of a
\* cron expression may not exist.
Finished(r, t, success) ==
  LET counted == [r EXCEPT !.count = @ + 1]
      full == counted.count >= MaxRuns
      over(status) == [counted EXCEPT !.due = "never", !.status = status]
      again == [counted EXCEPT !.due = "later", !.occ = @ + 1, !.status = "active"]
  IN CASE t.job \notin Recurring -> {over(IF success THEN "completed" ELSE "error")}
       [] t.job \in Recurring /\ full -> {over("completed")}
       [] t.job \in Recurring /\ ~full /\ t.manual ->
            {IF success /\ t.retry THEN again ELSE counted}
       [] OTHER -> {again, over("error")}

\* The executor returned, raised or timed out: _finish_job writes the run,
\* then the row, which it reads again.
Finish(t, success) ==
  /\ t.phase = "running"
  /\ tasks' = tasks \ {t}
  /\ active' = Forget({t.run})
  /\ runs' = RunSet(t.run, IF success THEN "success" ELSE "failed")
  /\ IF Exists(t.job)
     THEN \E r \in Finished(row[t.job], t, success) :
            row' = [row EXCEPT ![t.job] = Written(r)]
     ELSE UNCHANGED row
  /\ UNCHANGED <<up, nextRun, disturb>>

\* Mutant: the handler of a cancelled task leaves its run record behind.
UnwindUnrecorded(t) ==
  /\ t.phase = "cancelling"
  /\ tasks' = tasks \ {t}
  /\ active' = Forget({t.run})
  /\ row' = [row EXCEPT ![t.job] = Released(@, t.mgr)]
  /\ UNCHANGED <<runs, up, nextRun, disturb>>

\* The cancelled executor has unwound: fail the run, release the lease.
Unwind(t) ==
  /\ t.phase = "cancelling"
  /\ tasks' = tasks \ {t}
  /\ active' = Forget({t.run})
  /\ runs' = RunSet(t.run, "failed")
  /\ row' = [row EXCEPT ![t.job] = Released(@, t.mgr)]
  /\ UNCHANGED <<up, nextRun, disturb>>

TaskStep(t) == Begin(t) \/ Unwind(t) \/ (\E success \in BOOLEAN : Finish(t, success))

-----------------------------------------------------------------------------
Next ==
  \/ \E m \in Managers : Start(m) \/ Stop(m) \/ Stopped(m) \/ Crash(m)
  \/ \E j \in Jobs : Expire(j) \/ FallDue(j)
  \/ \E m \in Managers, j \in Jobs :
       \/ CreateJob(m, j) \/ PauseJob(m, j) \/ ResumeJob(m, j) \/ CancelJob(m, j)
       \/ Claim(m, j) \/ TriggerJob(m, j)
  \/ \E t \in tasks : TaskStep(t)

Spec == Init /\ [][Next]_vars

\* Loops poll at least every 30 seconds, executions are bounded by a timeout,
\* clocks advance, and a manager that is asked to stop stops.
FairSpec ==
  /\ Spec
  /\ \A m \in Managers : WF_vars(Stopped(m)) /\ WF_vars(\E j \in Jobs : Claim(m, j))
  /\ \A j \in Jobs : WF_vars(Expire(j))
  /\ WF_vars(\E t \in tasks : TaskStep(t))
-----------------------------------------------------------------------------
TaskType ==
  [run : Nat, mgr : Managers, job : Jobs, occ : Nat, manual : BOOLEAN,
   retry : BOOLEAN, phase : {"created", "running", "cancelling"}]

RowType ==
  [status : {"absent", "active", "paused", "completed", "error", "deleted"},
   due : {"later", "now", "never"}, occ : Nat, count : Nat,
   holder : Managers \union {None}, live : BOOLEAN]

RunType ==
  [run : Nat, job : Jobs, by : Managers, status : {"running", "success", "failed"}]

\* The type of every variable.
TypeOK ==
  /\ row \in [Jobs -> RowType]
  /\ \A r \in runs : r \in RunType
  /\ up \in [Managers -> {"new", "up", "stopping", "down", "crashed"}]
  /\ \A t \in tasks : t \in TaskType
  /\ active \in [Managers -> [Jobs -> Nat]]
  /\ nextRun \in Nat
  /\ disturb \in 0..MaxDisturb

\* claim_due_schedules: processes share the table "without executing the same
\* occurrence", in parallel.
OneExecutionPerOccurrence ==
  \A t, u \in tasks :
    (Live(t) /\ Live(u) /\ t.job = u.job /\ t.occ = u.occ) => t = u

\* An execution is covered by a live lease of its own manager from the claim
\* to the end, through expiry, restarts and other managers' recovery.
ExecutorsHoldTheLease ==
  \A t \in tasks : Live(t) => row[t.job].holder = t.mgr /\ row[t.job].live

\* A run record still "running" belongs to a task that will finish it, or to
\* a process that died: no edit, stop or expiry makes a manager forget one.
RunningRecordsAreOwned ==
  \A r \in runs : r.status = "running" =>
    (\E t \in tasks : t.run = r.run) \/ up[r.by] = "crashed"

\* Recovery fails only orphans: an outcome, once recorded, is never replaced.
OutcomesAreFinal ==
  [][\A r \in runs : r.status # "running" =>
       \A after \in runs' : after.run = r.run => after = r]_vars

\* Both limits hold, whatever is cancelled, finished, triggered and started at the
\* same time: max_concurrent_jobs for what a manager has claimed by polling, and
\* max_runs for a recurring job's runs, scheduled and manual together.
LimitsRespected ==
  /\ \A m \in Managers :
       Cardinality({t \in tasks : t.mgr = m /\ ~t.manual}) <= MaxConcurrent
  /\ \A j \in Recurring : row[j].count <= MaxRuns

\* A job that is due is executed in the end, whatever died holding its lease:
\* it stops being due, or active, as long as some manager keeps polling.
DueJobsRun ==
  \A j \in Jobs :
    (row[j].status = "active" /\ row[j].due = "now" /\ row[j].count < MaxRuns)
    ~> (row[j].status # "active" \/ row[j].due # "now"
        \/ \A m \in Managers : up[m] # "up")

\* The records tell the truth: a running one is owned by the task that finishes it,
\* and an outcome stands (_finish_job, _recover_job_runs).
RecordsAreTrue == []RunningRecordsAreOwned /\ OutcomesAreFinal
=============================================================================
