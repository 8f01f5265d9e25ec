---------------------------- MODULE Schedule_proofs ----------------------------
(***************************************************************************)
(* Proofs about the schedule leases, for every number of managers and jobs *)
(* and every limit, as long as nobody edits a job while it executes and no *)
(* machine sleeps during an execution (Allowed = {}).                      *)
(***************************************************************************)
EXTENDS Schedule, FiniteSetTheorems, TLAPS

\* Each task is the one its manager knows for its job, under its own number.
Known ==
  /\ \A m \in Managers, j \in Jobs : active[m][j] < nextRun
  /\ \A t \in tasks : t.run # 0 /\ t.run < nextRun
  /\ \A t, u \in tasks : t.run = u.run => t = u
  /\ \A t \in tasks, m \in Managers, j \in Jobs :
       active[m][j] = t.run <=> m = t.mgr /\ j = t.job

\* A task executes under its manager's lease while the manager is up; what a
\* stopping manager still has is being cancelled.
Covered ==
  \A t \in tasks :
    IF Live(t) THEN /\ up[t.mgr] = "up"
                    /\ row[t.job].holder = t.mgr /\ row[t.job].live
               ELSE up[t.mgr] = "stopping"

\* A job that was never created is leased to nobody.
Unborn == \A j \in Jobs : row[j].status = "absent" => row[j].holder = None

LInv == TypeOK /\ nextRun # 0 /\ Known /\ Covered /\ Unborn

LEMMA InitLInv == Init => LInv
<1> SUFFICES ASSUME Init PROVE LInv
  OBVIOUS
<1>1. Absent \in RowType
  BY DEF Absent, RowType
<1>2. TypeOK
  BY <1>1, LimitsAssumption DEF Init, TypeOK
<1> QED BY <1>2 DEF Init, LInv, Known, Covered, Unborn, Absent

\* An edit of a job that nothing executes.
LEMMA EditStep ==
  ASSUME LInv, NEW j \in Jobs, NEW r \in RowType, row' = [row EXCEPT ![j] = r],
         r.status # "absent" \/ r.holder = None,
         \A t \in tasks : t.job = j => ~Live(t),
         UNCHANGED <<up, tasks, active, nextRun>>,
         disturb' \in 0..MaxDisturb, \A x \in runs' : x \in RunType
  PROVE  LInv'
<1>1. TypeOK'
  BY DEF LInv, TypeOK
<1>2. Known' /\ nextRun' # 0
  BY DEF LInv, Known
<1>3. Covered'
  BY DEF LInv, Covered, TypeOK, Live
<1>4. Unborn'
  BY DEF LInv, TypeOK, Unborn
<1> QED BY <1>1, <1>2, <1>3, <1>4 DEF LInv

\* Cancelling the tasks a manager knows for a job that has none is nothing.
LEMMA CancelNothing ==
  ASSUME LInv, NEW m \in Managers, NEW j \in Jobs, \A t \in tasks : t.job # j,
         CancelTasks({active[m][j]})
  PROVE  tasks' = tasks /\ active' = active
<1>1. {t \in tasks : t.run \in {active[m][j]}} = {}
  BY DEF LInv, Known
<1>2. tasks' = tasks /\ active' = Forget({})
  BY <1>1 DEF CancelTasks
<1>3. active' = active
  BY <1>2 DEF Forget, LInv, TypeOK
<1> QED BY <1>2, <1>3

LEMMA NoEdit ==
  ASSUME Allowed = {}, NEW m \in Managers, NEW j \in Jobs, MayEdit(m, j)
  PROVE  \A t \in tasks : t.job # j
  BY DEF MayEdit

LEMMA DisturbType == ASSUME LInv, Disturb PROVE disturb' \in 0..MaxDisturb
  BY LimitsAssumption DEF LInv, TypeOK, Disturb

\* The rows the user's operations write.
LEMMA RowTypes ==
  ASSUME LInv, NEW j \in Jobs
  PROVE  /\ row[j] \in RowType
         /\ \A r \in RowType, m \in Managers :
              Written(r) \in RowType /\ Released(r, m) \in RowType /\ Leased(r, m) \in RowType
<1>1. row[j] \in RowType
  BY DEF LInv, TypeOK
<1>2. ASSUME NEW r \in RowType, NEW m \in Managers
      PROVE  Written(r) \in RowType /\ Released(r, m) \in RowType /\ Leased(r, m) \in RowType
  BY DEF RowType, Written, Released, Leased
<1> QED BY <1>1, <1>2

LEMMA UserSteps ==
  ASSUME LInv, Allowed = {}, NEW m \in Managers, NEW j \in Jobs,
         CreateJob(m, j) \/ PauseJob(m, j) \/ ResumeJob(m, j) \/ CancelJob(m, j)
  PROVE  LInv'
<1>0. row[j] \in RowType /\ row \in [Jobs -> RowType]
      /\ \A x \in runs : x \in RunType
  BY DEF LInv, TypeOK
<1>1. CASE CreateJob(m, j)
  <2>1. PICK status \in {"active", "paused"} :
          row' = [row EXCEPT ![j] = [Absent EXCEPT !.status = status, !.due = "later",
                                                   !.occ = 1]]
    BY <1>1 DEF CreateJob
  <2> DEFINE r == [Absent EXCEPT !.status = status, !.due = "later", !.occ = 1]
  <2>2. r \in RowType /\ r.status # "absent"
    BY DEF Absent, RowType
  <2>3. \A t \in tasks : t.job = j => ~Live(t)
    BY <1>1, NoneAssumption DEF CreateJob, LInv, Covered, Unborn, TypeOK, TaskType
  <2>4. disturb' \in 0..MaxDisturb
    BY <1>1 DEF CreateJob, LInv, TypeOK
  <2> HIDE DEF r
  <2> QED BY <1>0, <1>1, <2>1, <2>2, <2>3, <2>4, EditStep DEF CreateJob, r
<1>2. CASE PauseJob(m, j)
  <2> DEFINE r == Written([row[j] EXCEPT !.status = "paused"])
  <2>1. r \in RowType /\ r.status # "absent" /\ row' = [row EXCEPT ![j] = r]
    BY <1>0, <1>2 DEF RowType, Written, PauseJob
  <2>2. \A t \in tasks : t.job # j
    BY <1>2, NoEdit DEF PauseJob
  <2>3. tasks' = tasks /\ active' = active
    BY <1>2, <2>2, CancelNothing DEF PauseJob
  <2>4. disturb' \in 0..MaxDisturb
    BY <1>2, DisturbType DEF PauseJob
  <2> HIDE DEF r
  <2> QED BY <1>0, <1>2, <2>1, <2>2, <2>3, <2>4, EditStep DEF PauseJob
<1>3. CASE ResumeJob(m, j)
  <2> DEFINE r == Written(Resumed(row[j], j))
  <2>0. Resumed(row[j], j) \in RowType /\ Resumed(row[j], j).status = "active"
    <3> DEFINE due == IF row[j].due = "later" THEN "later" ELSE "now"
               q == [row[j] EXCEPT !.status = "active", !.due = due]
               occ == row[j].occ + 1
               p == [row[j] EXCEPT !.status = "active", !.due = "later", !.occ = occ]
    <3>1. due \in {"later", "now"} /\ occ \in Nat
      BY <1>0 DEF RowType
    <3> HIDE DEF due, occ
    <3>2. q \in RowType /\ q.status = "active"
      BY <1>0, <3>1 DEF RowType
    <3>3. p \in RowType /\ p.status = "active"
      BY <1>0, <3>1 DEF RowType
    <3>4. Resumed(row[j], j) = IF j \in Recurring THEN p ELSE q
      BY DEF Resumed, due, occ
    <3> QED BY <3>2, <3>3, <3>4
  <2>1. r \in RowType /\ r.status # "absent"
    BY <2>0 DEF RowType, Written
  <2>2. row' = [row EXCEPT ![j] = r]
    BY <1>0, <1>3 DEF ResumeJob
  <2>3. \A t \in tasks : t.job # j
    BY <1>3, NoEdit DEF ResumeJob
  <2>4. disturb' \in 0..MaxDisturb
    BY <1>3, DisturbType DEF ResumeJob
  <2> HIDE DEF r
  <2> QED BY <1>0, <1>3, <2>1, <2>2, <2>3, <2>4, EditStep DEF ResumeJob
<1>4. CASE CancelJob(m, j)
  <2> DEFINE r == [Absent EXCEPT !.status = "deleted"]
  <2>1. r \in RowType /\ r.status # "absent" /\ row' = [row EXCEPT ![j] = r]
    BY <1>4 DEF Absent, RowType, CancelJob
  <2>2. \A t \in tasks : t.job # j
    BY <1>4, NoEdit DEF CancelJob
  <2>3. tasks' = tasks /\ active' = active
    BY <1>4, <2>2, CancelNothing DEF CancelJob
  <2>4. disturb' \in 0..MaxDisturb
    BY <1>4, DisturbType DEF CancelJob
  <2>5. \A x \in runs' : x \in RunType
    BY <1>0, <1>4 DEF CancelJob
  <2> HIDE DEF r
  <2> QED BY <1>4, <2>1, <2>2, <2>3, <2>4, <2>5, EditStep DEF CancelJob
<1> QED BY <1>1, <1>2, <1>3, <1>4

\* Launch creates the only live task of a job whose lease was free.
LEMMA LaunchStep ==
  ASSUME LInv, NEW m \in Managers, NEW j \in Jobs, NEW manual \in BOOLEAN,
         up[m] = "up", Free(row[j]), row[j].status # "absent", Launch(m, j, manual),
         UNCHANGED up, disturb' \in 0..MaxDisturb
  PROVE  LInv'
<1> DEFINE n == Task(nextRun, m, j, manual)
<1>0. /\ row \in [Jobs -> RowType] /\ row[j] \in RowType /\ nextRun \in Nat
      /\ active \in [Managers -> [Jobs -> Nat]]
      /\ \A t \in tasks : t \in TaskType
  BY DEF LInv, TypeOK
<1>1. n \in TaskType /\ n.run = nextRun /\ n.mgr = m /\ n.job = j /\ Live(n)
  BY <1>0 DEF Task, TaskType, RowType, Live
<1>2. /\ row' = [row EXCEPT ![j] = Leased(row[j], m)] /\ Leased(row[j], m) \in RowType
      /\ Leased(row[j], m).holder = m /\ Leased(row[j], m).live
      /\ Leased(row[j], m).status = row[j].status
      /\ tasks' = tasks \union {n} /\ nextRun' = nextRun + 1
      /\ active' = [active EXCEPT ![m][j] = nextRun]
  BY <1>0 DEF Launch, Leased, RowType
<1> HIDE DEF n
<1>3. \A t \in tasks : t.job = j => ~Live(t)
  BY NoneAssumption, <1>0 DEF LInv, Covered, Free, TaskType
<1>4. \A t \in tasks : ~(t.mgr = m /\ t.job = j)
  BY <1>3 DEF LInv, Covered
<1>5. TypeOK'
  <2>1. \A x \in runs' : x \in RunType
    BY DEF LInv, TypeOK, Launch, Failed, RunType
  <2> QED BY <1>0, <1>1, <1>2, <2>1 DEF LInv, TypeOK
<1>6. Known' /\ nextRun' # 0
  <2>1. \A t \in tasks : t.run < nextRun /\ t.run \in Nat /\ t.run # 0
        /\ t.mgr \in Managers /\ t.job \in Jobs
    BY <1>0 DEF LInv, Known, TaskType
  <2>2. \A t \in tasks' : t.run # 0 /\ t.run < nextRun'
    BY <1>0, <1>1, <1>2, <2>1 DEF LInv
  <2>3. \A t, u \in tasks' : t.run = u.run => t = u
    BY <1>1, <1>2, <2>1 DEF LInv, Known
  <2>4. ASSUME NEW t \in tasks', NEW k \in Managers, NEW i \in Jobs
        PROVE  active'[k][i] = t.run <=> k = t.mgr /\ i = t.job
    <3>1. active'[k][i] = IF k = m /\ i = j THEN nextRun ELSE active[k][i]
      BY <1>0, <1>2
    <3>2. CASE t = n
      <4>1. active[k][i] < nextRun /\ active[k][i] \in Nat
        BY <1>0 DEF LInv, Known
      <4> QED BY <3>1, <3>2, <1>0, <1>1, <4>1
    <3>3. CASE t \in tasks
      BY <3>1, <3>3, <2>1, <1>4 DEF LInv, Known
    <3> QED BY <3>2, <3>3, <1>2
  <2>5. \A k \in Managers, i \in Jobs : active'[k][i] < nextRun'
    BY <1>0, <1>2 DEF LInv, Known
  <2> QED BY <1>0, <1>2, <2>2, <2>3, <2>4, <2>5 DEF Known, LInv
<1>7. Covered'
  BY <1>0, <1>1, <1>2, <1>3 DEF LInv, Covered, TaskType
<1>8. Unborn'
  BY <1>0, <1>2 DEF LInv, Unborn
<1> QED BY <1>5, <1>6, <1>7, <1>8 DEF LInv

\* Tasks change phase or end, and their managers forget only those that end.
LEMMA KnownStep ==
  ASSUME LInv, active' \in [Managers -> [Jobs -> Nat]], nextRun' = nextRun,
         \A k \in Managers, i \in Jobs : active'[k][i] \in {0, active[k][i]},
         \A t \in tasks' : /\ active'[t.mgr][t.job] = t.run
                           /\ \E u \in tasks : t.run = u.run /\ t.mgr = u.mgr /\ t.job = u.job,
         \A t, u \in tasks' : t.run = u.run => t = u
  PROVE  Known'
<1>0. nextRun \in Nat /\ nextRun # 0 /\ active \in [Managers -> [Jobs -> Nat]]
      /\ \A t \in tasks : t \in TaskType
  BY DEF LInv, TypeOK
<1>1. \A t \in tasks' : t.run # 0 /\ t.run < nextRun'
  BY DEF LInv, Known
<1>2. \A k \in Managers, i \in Jobs : active'[k][i] < nextRun'
  BY <1>0 DEF LInv, Known
<1>3. ASSUME NEW t \in tasks', NEW k \in Managers, NEW i \in Jobs
      PROVE  active'[k][i] = t.run <=> k = t.mgr /\ i = t.job
  <2>1. PICK u \in tasks : t.run = u.run /\ t.mgr = u.mgr /\ t.job = u.job
    OBVIOUS
  <2>2. ASSUME active'[k][i] = t.run PROVE k = t.mgr /\ i = t.job
    BY <1>1, <2>1, <2>2 DEF LInv, Known
  <2> QED BY <2>2
<1> QED BY <1>1, <1>2, <1>3 DEF Known

LEMMA ForgetType ==
  ASSUME LInv, NEW ids
  PROVE  /\ Forget(ids) \in [Managers -> [Jobs -> Nat]]
         /\ \A k \in Managers, i \in Jobs :
              Forget(ids)[k][i] = IF active[k][i] \in ids THEN 0 ELSE active[k][i]
  BY DEF LInv, TypeOK, Forget

LEMMA StartStep == ASSUME LInv, NEW m \in Managers, Start(m) PROVE LInv'
<1> USE DEF Start
<1>1. TypeOK'
  <2>1. \A x \in runs' : x \in RunType
    BY DEF LInv, TypeOK, Failed, RunType
  <2> QED BY <2>1 DEF LInv, TypeOK
<1>2. Known' /\ nextRun' # 0 /\ Unborn'
  BY DEF LInv, Known, Unborn
<1>3. Covered'
  BY DEF LInv, Covered, TypeOK, TaskType, Live
<1> QED BY <1>1, <1>2, <1>3 DEF LInv

\* Stopping a manager leaves it without live tasks.
LEMMA StopStep == ASSUME LInv, NEW m \in Managers, Stop(m) PROVE LInv'
<1> DEFINE ids == {active[m][j] : j \in Jobs} \ {0}
           hit == {t \in tasks : t.run \in ids}
           begun == {t \in hit : t.phase # "created"}
           Cancelled(t) == [t EXCEPT !.phase = "cancelling"]
           ended == {t.run : t \in hit \ begun}
<1>0. \A t \in tasks : t \in TaskType /\ t.mgr \in Managers /\ t.job \in Jobs
  BY DEF LInv, TypeOK, TaskType
<1>1. /\ tasks' = (tasks \ hit) \union {Cancelled(t) : t \in begun}
      /\ active' = Forget(ended)
      /\ up' = [up EXCEPT ![m] = "stopping"]
      /\ UNCHANGED <<row, runs, nextRun>>
  BY DEF Stop, CancelTasks
<1>2. \A t \in tasks : t \in hit <=> t.mgr = m
  BY <1>0 DEF LInv, Known
<1>3. \A t \in begun : /\ Cancelled(t) \in TaskType /\ Cancelled(t).run = t.run
                       /\ Cancelled(t).mgr = t.mgr /\ Cancelled(t).job = t.job
                       /\ ~Live(Cancelled(t))
  BY <1>0 DEF TaskType, Live
<1> HIDE DEF Cancelled
<1>4. ASSUME NEW t \in tasks'
      PROVE  /\ t \in TaskType
             /\ \E u \in tasks : t.run = u.run /\ t.mgr = u.mgr /\ t.job = u.job
                  /\ u.run \notin ended
             /\ t \in tasks \/ t \in {Cancelled(u) : u \in begun}
  <2>1. CASE t \in tasks \ hit
    BY <2>1, <1>0 DEF LInv, Known
  <2>2. CASE t \in {Cancelled(u) : u \in begun}
    BY <2>2, <1>3 DEF LInv, Known
  <2> QED BY <2>1, <2>2, <1>1
<1>5. TypeOK'
  <2>1. active' \in [Managers -> [Jobs -> Nat]]
    BY <1>1, ForgetType
  <2>2. disturb' \in 0..MaxDisturb
    BY DisturbType DEF Stop
  <2> QED BY <1>1, <1>4, <2>1, <2>2 DEF LInv, TypeOK
<1>6. Known'
  <2>1. active' \in [Managers -> [Jobs -> Nat]]
        /\ \A k \in Managers, i \in Jobs :
             active'[k][i] = IF active[k][i] \in ended THEN 0 ELSE active[k][i]
    <3> HIDE DEF ended
    <3> QED BY <1>1, ForgetType
  <2>2. \A k \in Managers, i \in Jobs : active'[k][i] \in {0, active[k][i]}
    BY <2>1
  <2>3. ASSUME NEW t \in tasks'
        PROVE  active'[t.mgr][t.job] = t.run
    BY <1>0, <1>4, <2>1 DEF LInv, Known
  <2>4. ASSUME NEW t \in tasks', NEW u \in tasks', t.run = u.run
        PROVE  t = u
    BY <1>1, <1>3, <2>4 DEF LInv, Known
  <2> HIDE DEF ended
  <2> QED BY <1>1, <1>4, <2>1, <2>2, <2>3, <2>4, KnownStep
<1>7. Covered'
  <2> SUFFICES ASSUME NEW t \in tasks'
               PROVE  IF Live(t) THEN /\ up'[t.mgr] = "up"
                                      /\ row'[t.job].holder = t.mgr /\ row'[t.job].live
                                 ELSE up'[t.mgr] = "stopping"
    BY DEF Covered
  <2>0. up \in [Managers -> {"new", "up", "stopping", "down", "crashed"}]
    BY DEF LInv, TypeOK
  <2>1. CASE t \in tasks \ hit
    BY <2>0, <2>1, <1>0, <1>1, <1>2 DEF LInv, Covered
  <2>2. CASE t \in {Cancelled(u) : u \in begun}
    BY <2>0, <2>2, <1>1, <1>2, <1>3
  <2> QED BY <2>1, <2>2, <1>1
<1>8. nextRun' # 0 /\ Unborn'
  BY <1>1 DEF LInv, Unborn
<1> QED BY <1>5, <1>6, <1>7, <1>8 DEF LInv

\* Releasing m's claims when m has no task touches no lease that covers one.
LEMMA StoppedStep == ASSUME LInv, NEW m \in Managers, Stopped(m) PROVE LInv'
<1> USE DEF Stopped
<1>0. /\ \A t \in tasks : t \in TaskType /\ t.mgr \in Managers /\ t.job \in Jobs
      /\ \A j \in Jobs : row[j] \in RowType
  BY DEF LInv, TypeOK, TaskType
<1>1. \A t \in tasks : t.mgr # m
  BY <1>0 DEF LInv, Known
<1>2. \A j \in Jobs : /\ row'[j] \in RowType /\ row'[j].status = row[j].status
                      /\ row[j].holder # m => row'[j] = row[j]
                      /\ row'[j].holder \in {None, row[j].holder}
  BY ZenonT(60), <1>0 DEF Released, Written, RowType
<1>3. TypeOK'
  BY <1>2 DEF LInv, TypeOK
<1>4. Known' /\ nextRun' # 0
  BY DEF LInv, Known
<1>5. Covered'
  BY <1>0, <1>1, <1>2 DEF LInv, Covered, TypeOK, Live
<1>6. Unborn'
  BY <1>2 DEF LInv, Unborn
<1> QED BY <1>3, <1>4, <1>5, <1>6 DEF LInv

LEMMA CrashStep == ASSUME LInv, NEW m \in Managers, Crash(m) PROVE LInv'
<1> USE DEF Crash
<1>0. \A t \in tasks : t \in TaskType /\ t.mgr \in Managers /\ t.job \in Jobs
  BY DEF LInv, TypeOK, TaskType
<1>1. TypeOK'
  <2>1. disturb' \in 0..MaxDisturb
    BY DisturbType
  <2> QED BY <2>1 DEF LInv, TypeOK
<1>2. Known'
  <2>1. active' \in [Managers -> [Jobs -> Nat]]
    BY <1>1 DEF TypeOK
  <2>2. \A k \in Managers, i \in Jobs : active'[k][i] \in {0, active[k][i]}
    BY DEF LInv, TypeOK
  <2>3. \A t \in tasks' : active'[t.mgr][t.job] = t.run
    BY <1>0 DEF LInv, Known, TypeOK
  <2>4. \A t, u \in tasks' : t.run = u.run => t = u
    BY DEF LInv, Known
  <2> QED BY <2>1, <2>2, <2>3, <2>4, KnownStep
<1>3. Covered'
  BY <1>0 DEF LInv, Covered, TypeOK, Live
<1>4. nextRun' # 0 /\ Unborn'
  BY DEF LInv, Unborn
<1> QED BY <1>1, <1>2, <1>3, <1>4 DEF LInv

\* Without suspension only the leases of dead executions expire.
LEMMA TimeSteps ==
  ASSUME LInv, Allowed = {}, NEW j \in Jobs, Expire(j) \/ FallDue(j)
  PROVE  LInv'
<1>0. /\ \A t \in tasks : t \in TaskType /\ t.job \in Jobs
      /\ row \in [Jobs -> RowType]
  BY DEF LInv, TypeOK, TaskType
<1>1. /\ row' \in [Jobs -> RowType] /\ \A i \in Jobs \ {j} : row'[i] = row[i]
      /\ row'[j].holder = row[j].holder /\ row'[j].status = row[j].status
      /\ FallDue(j) => row'[j].live = row[j].live
      /\ UNCHANGED <<runs, up, tasks, active, nextRun, disturb>>
  <2> DEFINE e == [row[j] EXCEPT !.live = FALSE]
             d == [row[j] EXCEPT !.due = "now"]
  <2>1. /\ e \in RowType /\ e.holder = row[j].holder /\ e.status = row[j].status
        /\ d \in RowType /\ d.holder = row[j].holder /\ d.status = row[j].status
        /\ d.live = row[j].live
    BY <1>0, ZenonT(40) DEF RowType
  <2>2. /\ Expire(j) => row' = [row EXCEPT ![j] = e]
        /\ FallDue(j) => row' = [row EXCEPT ![j] = d]
    BY <1>0 DEF Expire, FallDue
  <2>3. UNCHANGED <<runs, up, tasks, active, nextRun, disturb>>
    BY DEF Expire, FallDue
  <2> HIDE DEF e, d
  <2>4. CASE Expire(j)
    <3>1. ~FallDue(j) \/ row'[j].live = row[j].live
      BY <1>0, <2>1, <2>2
    <3> QED BY <1>0, <2>1, <2>2, <2>3, <2>4, <3>1
  <2>5. CASE FallDue(j)
    BY <1>0, <2>1, <2>2, <2>3, <2>5
  <2> QED BY <2>4, <2>5
<1>2. \A t \in tasks : t.job = j /\ Live(t) => row'[j].live
  BY <1>1 DEF Expire, LInv, Covered
<1>3. TypeOK'
  BY <1>1 DEF LInv, TypeOK
<1>4. Known' /\ nextRun' # 0 /\ Unborn'
  BY <1>1 DEF LInv, Known, Unborn
<1>5. Covered'
  BY <1>0, <1>1, <1>2 DEF LInv, Covered, Live
<1> QED BY <1>3, <1>4, <1>5 DEF LInv

\* A task ends and its job's row is left alone.
LEMMA EndStep ==
  ASSUME LInv, NEW t \in tasks, tasks' = tasks \ {t}, active' = Forget({t.run}),
         UNCHANGED <<row, up, nextRun, disturb>>, \A x \in runs' : x \in RunType
  PROVE  LInv'
<1>0. /\ \A u \in tasks : u \in TaskType /\ u.mgr \in Managers /\ u.job \in Jobs
      /\ active' \in [Managers -> [Jobs -> Nat]]
      /\ \A k \in Managers, i \in Jobs :
           active'[k][i] = IF active[k][i] \in {t.run} THEN 0 ELSE active[k][i]
  BY ForgetType DEF LInv, TypeOK, TaskType
<1>1. Known'
  <2>1. ASSUME NEW u \in tasks' PROVE active'[u.mgr][u.job] = u.run
    <3>1. u \in tasks /\ u # t
      OBVIOUS
    <3>2. u.run # t.run /\ active[u.mgr][u.job] = u.run
      BY <1>0, <3>1 DEF LInv, Known
    <3> QED BY <1>0, <3>1, <3>2
  <2>2. \A u, w \in tasks' : u.run = w.run => u = w
    BY DEF LInv, Known
  <2>3. \A k \in Managers, i \in Jobs : active'[k][i] \in {0, active[k][i]}
    BY <1>0
  <2> QED BY <1>0, <2>1, <2>2, <2>3, KnownStep
<1>2. TypeOK'
  BY <1>0 DEF LInv, TypeOK
<1>3. Covered' /\ nextRun' # 0 /\ Unborn'
  BY DEF LInv, Covered, Unborn, Live
<1> QED BY <1>1, <1>2, <1>3 DEF LInv

\* A task ends and its job's row is written, when no other live task needs it.
LEMMA EndWriteStep ==
  ASSUME LInv, NEW t \in tasks, tasks' = tasks \ {t}, active' = Forget({t.run}),
         NEW r \in RowType, row' = [row EXCEPT ![t.job] = r],
         r.status # "absent" \/ r.holder = None,
         Live(t) \/ \A u \in tasks : u.job = t.job => ~Live(u),
         UNCHANGED <<up, nextRun, disturb>>, \A x \in runs' : x \in RunType
  PROVE  LInv'
<1>0. /\ \A u \in tasks : u \in TaskType /\ u.mgr \in Managers /\ u.job \in Jobs
      /\ active' \in [Managers -> [Jobs -> Nat]] /\ row \in [Jobs -> RowType]
      /\ \A k \in Managers, i \in Jobs :
           active'[k][i] = IF active[k][i] \in {t.run} THEN 0 ELSE active[k][i]
  BY ForgetType DEF LInv, TypeOK, TaskType
<1>1. Known'
  <2>1. ASSUME NEW u \in tasks' PROVE active'[u.mgr][u.job] = u.run
    <3>1. u \in tasks /\ u # t
      OBVIOUS
    <3>2. u.run # t.run /\ active[u.mgr][u.job] = u.run
      BY <1>0, <3>1 DEF LInv, Known
    <3> QED BY <1>0, <3>1, <3>2
  <2>2. \A u, w \in tasks' : u.run = w.run => u = w
    BY DEF LInv, Known
  <2>3. \A k \in Managers, i \in Jobs : active'[k][i] \in {0, active[k][i]}
    BY <1>0
  <2> QED BY <1>0, <2>1, <2>2, <2>3, KnownStep
<1>2. TypeOK'
  BY <1>0 DEF LInv, TypeOK
<1>3. \A u \in tasks' : Live(u) => u.job # t.job
  <2> SUFFICES ASSUME NEW u \in tasks', Live(u), u.job = t.job PROVE FALSE
    OBVIOUS
  <2>1. Live(t)
    OBVIOUS
  <2>2. u.mgr = t.mgr
    BY <2>1 DEF LInv, Covered
  <2>3. u.run = t.run
    BY <1>0, <2>2 DEF LInv, Known
  <2> QED BY <2>3 DEF LInv, Known
<1>4. Covered'
  BY <1>0, <1>3 DEF LInv, Covered, Live
<1>5. nextRun' # 0 /\ Unborn'
  BY <1>0 DEF LInv, Unborn
<1> QED BY <1>1, <1>2, <1>4, <1>5 DEF LInv

\* What a finished run makes of its job's row.
LEMMA FinishedType ==
  ASSUME NEW r \in RowType, r.status # "absent", NEW t \in TaskType,
         NEW success \in BOOLEAN, NEW f \in Finished(r, t, success)
  PROVE  f \in RowType /\ f.status # "absent"
<1> DEFINE count == r.count + 1
           occ == r.occ + 1
           counted == [r EXCEPT !.count = count]
           over(status) == [counted EXCEPT !.due = "never", !.status = status]
           again == [counted EXCEPT !.due = "later", !.occ = occ, !.status = "active"]
<1>1. count \in Nat /\ occ \in Nat
  BY DEF RowType
<1> HIDE DEF count, occ
<1>2. /\ counted \in RowType /\ counted.status # "absent"
  BY <1>1 DEF RowType
<1>3. again \in RowType /\ again.status # "absent"
  BY <1>1, <1>2 DEF RowType
<1>4. \A status \in {"completed", "error"} :
        over(status) \in RowType /\ over(status).status # "absent"
  BY <1>2 DEF RowType
<1>5. f \in {counted, again, over("completed"), over("error")}
  BY DEF Finished, count, occ
<1> QED BY <1>2, <1>3, <1>4, <1>5

LEMMA BeginStep == ASSUME LInv, NEW t \in tasks, Begin(t) PROVE LInv'
<1> DEFINE begun == [t EXCEPT !.phase = "running"]
<1>0. /\ \A u \in tasks : u \in TaskType /\ u.mgr \in Managers /\ u.job \in Jobs
      /\ row \in [Jobs -> RowType] /\ row[t.job] \in RowType
      /\ \A x \in runs : x \in RunType
      /\ t.phase = "created" /\ Live(t) /\ UNCHANGED <<up, nextRun, disturb>>
  BY DEF LInv, TypeOK, TaskType, Begin, Live
<1>1. /\ begun \in TaskType /\ begun.run = t.run /\ begun.mgr = t.mgr
      /\ begun.job = t.job /\ Live(begun)
  BY <1>0 DEF TaskType, Live
<1>2. CASE Exists(t.job)
  <2> DEFINE r == [row[t.job] EXCEPT !.live = row[t.job].live \/ row[t.job].holder = t.mgr]
  <2>1. /\ tasks' = (tasks \ {t}) \union {begun} /\ active' = active
        /\ row' = [row EXCEPT ![t.job] = r]
        /\ runs' = runs \union
             {[run |-> t.run, job |-> t.job, by |-> t.mgr, status |-> "running"]}
    BY <1>0, <1>2 DEF Begin
  <2>2. r \in RowType /\ r.holder = row[t.job].holder /\ r.status = row[t.job].status
        /\ (row[t.job].live => r.live)
    BY <1>0 DEF RowType
  <2> HIDE DEF r, begun
  <2>3. TypeOK'
    <3>1. [run |-> t.run, job |-> t.job, by |-> t.mgr, status |-> "running"] \in RunType
      BY <1>0 DEF RunType, TaskType
    <3> QED BY <1>0, <1>1, <2>1, <2>2, <3>1 DEF LInv, TypeOK
  <2>4. Known' /\ nextRun' # 0
    BY <1>0, <1>1, <2>1 DEF LInv, Known
  <2>5. Covered'
    BY <1>0, <1>1, <2>1, <2>2 DEF LInv, Covered
  <2>6. Unborn'
    BY <1>0, <2>1, <2>2 DEF LInv, Unborn
  <2> QED BY <2>3, <2>4, <2>5, <2>6 DEF LInv
<1>3. CASE ~Exists(t.job)
  <2>1. tasks' = tasks \ {t} /\ active' = Forget({t.run}) /\ UNCHANGED <<row, runs>>
    BY <1>3 DEF Begin
  <2> QED BY <2>1, <1>0, EndStep
<1> QED BY <1>2, <1>3

LEMMA FinishStep ==
  ASSUME LInv, NEW t \in tasks, NEW success \in BOOLEAN, Finish(t, success)
  PROVE  LInv'
<1>0. /\ t \in TaskType /\ t.job \in Jobs /\ row \in [Jobs -> RowType]
      /\ row[t.job] \in RowType /\ Live(t)
      /\ UNCHANGED <<up, nextRun, disturb>>
      /\ tasks' = tasks \ {t} /\ active' = Forget({t.run})
  BY DEF LInv, TypeOK, TaskType, Finish, Live
<1>1. \A x \in runs' : x \in RunType
  BY DEF LInv, TypeOK, Finish, RunSet, RunType
<1>2. CASE Exists(t.job)
  <2>1. PICK r \in Finished(row[t.job], t, success) :
          row' = [row EXCEPT ![t.job] = Written(r)]
    BY <1>2 DEF Finish
  <2>2. r \in RowType /\ r.status # "absent"
    BY <1>0, <1>2, FinishedType DEF Exists
  <2>3. Written(r) \in RowType /\ Written(r).status # "absent"
    BY <2>2 DEF Written, RowType
  <2> QED BY <1>0, <1>1, <2>1, <2>3, EndWriteStep
<1>3. CASE ~Exists(t.job)
  <2>1. UNCHANGED row
    BY <1>3 DEF Finish
  <2> QED BY <1>0, <1>1, <2>1, EndStep
<1> QED BY <1>2, <1>3

\* The lease a cancelled task releases on its way out covers no live task: its
\* manager is stopping.
LEMMA UnwindStep == ASSUME LInv, NEW t \in tasks, Unwind(t) PROVE LInv'
<1>0. /\ t \in TaskType /\ t.job \in Jobs /\ row \in [Jobs -> RowType]
      /\ row[t.job] \in RowType /\ ~Live(t) /\ up[t.mgr] = "stopping"
      /\ UNCHANGED <<up, nextRun, disturb>>
      /\ tasks' = tasks \ {t} /\ active' = Forget({t.run})
      /\ row' = [row EXCEPT ![t.job] = Released(row[t.job], t.mgr)]
  BY DEF LInv, TypeOK, TaskType, Unwind, Live, Covered
<1>1. \A x \in runs' : x \in RunType
  BY DEF LInv, TypeOK, Unwind, RunSet, RunType
<1>2. CASE row[t.job].holder = t.mgr
  <2> DEFINE r == Written(row[t.job])
  <2>1. r \in RowType /\ r.status = row[t.job].status /\ r.holder = None
    BY <1>0 DEF Written, RowType
  <2>2. row' = [row EXCEPT ![t.job] = r]
    BY <1>0, <1>2 DEF Released
  <2>3. \A u \in tasks : u.job = t.job => ~Live(u)
    BY <1>0, <1>2 DEF LInv, Covered
  <2> HIDE DEF r
  <2> QED BY <1>0, <1>1, <2>1, <2>2, <2>3, EndWriteStep
<1>3. CASE row[t.job].holder # t.mgr
  <2>1. row' = row
    BY <1>0, <1>3 DEF Released
  <2> QED BY <1>0, <1>1, <2>1, EndStep
<1> QED BY <1>2, <1>3

LEMMA NextLInv == ASSUME Allowed = {}, LInv, [Next]_vars PROVE LInv'
<1>1. ASSUME NEW m \in Managers, Start(m) \/ Stop(m) \/ Stopped(m) \/ Crash(m)
      PROVE  LInv'
  BY <1>1, StartStep, StopStep, StoppedStep, CrashStep
<1>2. ASSUME NEW j \in Jobs, Expire(j) \/ FallDue(j) PROVE LInv'
  BY <1>2, TimeSteps
<1>3. ASSUME NEW m \in Managers, NEW j \in Jobs,
             CreateJob(m, j) \/ PauseJob(m, j) \/ ResumeJob(m, j) \/ CancelJob(m, j)
      PROVE  LInv'
  BY <1>3, UserSteps
<1>4. ASSUME NEW m \in Managers, NEW j \in Jobs, Claim(m, j) PROVE LInv'
  <2>1. /\ up[m] = "up" /\ Free(row[j]) /\ row[j].status # "absent"
        /\ Launch(m, j, FALSE) /\ UNCHANGED up
    BY <1>4 DEF Claim, Claimable
  <2>2. disturb' \in 0..MaxDisturb
    BY <1>4 DEF Claim, LInv, TypeOK
  <2> QED BY <2>1, <2>2, LaunchStep
<1>5. ASSUME NEW m \in Managers, NEW j \in Jobs, TriggerJob(m, j) PROVE LInv'
  <2>1. /\ up[m] = "up" /\ Free(row[j]) /\ row[j].status # "absent"
        /\ Launch(m, j, TRUE) /\ UNCHANGED up
    BY <1>5 DEF TriggerJob
  <2>2. disturb' \in 0..MaxDisturb
    BY <1>5, DisturbType DEF TriggerJob
  <2> QED BY <2>1, <2>2, LaunchStep
<1>6. ASSUME NEW t \in tasks, TaskStep(t) PROVE LInv'
  BY <1>6, BeginStep, UnwindStep, FinishStep DEF TaskStep
<1>7. CASE UNCHANGED vars
  BY <1>7 DEF vars, LInv, TypeOK, Known, Covered, Unborn, Live
<1> QED BY <1>1, <1>2, <1>3, <1>4, <1>5, <1>6, <1>7 DEF Next

-----------------------------------------------------------------------------

\* Whatever crashes, stops, expires and restarts: an execution is covered by a
\* live lease of its own manager until it ends.
THEOREM LeasesCover ==
  ASSUME Allowed = {}
  PROVE  Spec => []ExecutorsHoldTheLease
<1>1. Init => LInv
  BY InitLInv
<1>2. LInv /\ [Next]_vars => LInv'
  BY NextLInv
<1>3. LInv => ExecutorsHoldTheLease
  BY DEF LInv, Covered, ExecutorsHoldTheLease
<1> QED BY <1>1, <1>2, <1>3, PTL DEF Spec

\* claim_due_schedules' promise, for any number of processes: one occurrence
\* of a job is executed by one task at a time.
THEOREM OccurrencesRunOnce ==
  ASSUME Allowed = {}
  PROVE  Spec => []OneExecutionPerOccurrence
<1>1. Init => LInv
  BY InitLInv
<1>2. LInv /\ [Next]_vars => LInv'
  BY NextLInv
<1>3. LInv => OneExecutionPerOccurrence
  <2> SUFFICES ASSUME LInv, NEW t \in tasks, NEW u \in tasks,
                      Live(t), Live(u), t.job = u.job
               PROVE  t = u
    BY DEF OneExecutionPerOccurrence
  <2>1. t.mgr = u.mgr /\ t.mgr \in Managers /\ t.job \in Jobs
    BY DEF LInv, Covered, TypeOK, TaskType
  <2>2. active[t.mgr][t.job] = t.run /\ active[t.mgr][t.job] = u.run
    BY <2>1 DEF LInv, Known
  <2> QED BY <2>2 DEF LInv, Known
<1> QED BY <1>1, <1>2, <1>3, PTL DEF Spec
-----------------------------------------------------------------------------
(* The run records.                                                        *)

\* A record has a number that was given out, and is the only one of it.  The
\* record of a task appears with its first step, and is running while the task
\* is live; a cancelled task's may have been failed by another manager.
Records ==
  /\ \A r \in runs : r.run < nextRun
  /\ \A r, s \in runs : r.run = s.run => r = s
  /\ \A t \in tasks, r \in runs : r.run = t.run =>
       /\ t.phase # "created" /\ r.job = t.job /\ r.by = t.mgr
       /\ IF Live(t) THEN r.status = "running" ELSE r.status \in {"running", "failed"}
  /\ RunningRecordsAreOwned

\* What a step may not do to an outcome.
Stands ==
  \A r \in runs : r.status # "running" => \A after \in runs' : after.run = r.run => after = r

\* A record when those of the jobs J are failed.
Recovered(r, J) == [r EXCEPT !.status = IF r.job \in J /\ r.status = "running" THEN "failed" ELSE r.status]

LEMMA RecoveredFacts ==
  ASSUME NEW r \in RunType, NEW J
  PROVE  /\ Recovered(r, J) \in RunType
         /\ Recovered(r, J).run = r.run /\ Recovered(r, J).job = r.job /\ Recovered(r, J).by = r.by
         /\ r.status # "running" \/ r.job \notin J => Recovered(r, J) = r
         /\ Recovered(r, J).status \in {r.status, "failed"}
  BY DEF Recovered, RunType

LEMMA FailedIsRecovered == ASSUME NEW J PROVE Failed(J) = {Recovered(r, J) : r \in runs}
  BY DEF Failed, Recovered

LEMMA UnchangedIsRecovered ==
  ASSUME LInv PROVE runs = {Recovered(r, {}) : r \in runs}
<1>1. \A r \in runs : Recovered(r, {}) = r
  BY RecoveredFacts DEF LInv, TypeOK
<1> QED BY <1>1

\* Steps that record no run: records are failed or deleted, none of a live task;
\* tasks are created, cancelled, or end with their manager.
LEMMA RecordsStep ==
  ASSUME LInv, Records, NEW J, runs' \subseteq {Recovered(r, J) : r \in runs},
         nextRun' \in Nat, nextRun' >= nextRun,
         \A t \in tasks' :
           \/ t.run >= nextRun
           \/ \E u \in tasks :
                /\ t.run = u.run /\ t.job = u.job /\ t.mgr = u.mgr
                /\ u.phase = "created" => t.phase = "created"
                /\ t.phase = "created" => u.phase = "created"
                /\ Live(t) => Live(u) /\ t.job \notin J,
         \A u \in tasks : \/ u.phase = "created" \/ up'[u.mgr] = "crashed"
                          \/ \E t \in tasks' : t.run = u.run,
         \A k \in Managers : up[k] = "crashed" => up'[k] = "crashed"
  PROVE  Records' /\ Stands
<1>0. /\ nextRun \in Nat /\ \A r \in runs : r \in RunType
      /\ \A t \in tasks : t \in TaskType
  BY DEF LInv, TypeOK
<1>1. ASSUME NEW x \in runs'
      PROVE  \E r \in runs : x = Recovered(r, J) /\ x.run = r.run /\ r \in RunType
  BY <1>0, RecoveredFacts
<1>2. \A x \in runs' : x.run < nextRun'
  BY <1>0, <1>1 DEF Records, RunType
<1>3. \A x, y \in runs' : x.run = y.run => x = y
  BY <1>1 DEF Records
<1>4. ASSUME NEW t \in tasks', NEW x \in runs', x.run = t.run
      PROVE  /\ t.phase # "created" /\ x.job = t.job /\ x.by = t.mgr
             /\ IF Live(t) THEN x.status = "running" ELSE x.status \in {"running", "failed"}
  <2>1. PICK r \in runs : x = Recovered(r, J) /\ x.run = r.run /\ r \in RunType
    BY <1>1
  <2>2. r.run < nextRun /\ r.run \in Nat
    BY <2>1 DEF Records, RunType
  <2>3. PICK u \in tasks : /\ t.run = u.run /\ t.job = u.job /\ t.mgr = u.mgr
                           /\ t.phase = "created" => u.phase = "created"
                           /\ Live(t) => Live(u) /\ t.job \notin J
    BY <1>0, <1>4, <2>1, <2>2
  <2>4. /\ u.phase # "created" /\ r.job = u.job /\ r.by = u.mgr
        /\ IF Live(u) THEN r.status = "running" ELSE r.status \in {"running", "failed"}
    BY <1>4, <2>1, <2>3 DEF Records
  <2>5. /\ x.job = r.job /\ x.by = r.by /\ x.status \in {r.status, "failed"}
        /\ r.job \notin J => x = r
    BY <2>1, RecoveredFacts
  <2> QED BY <2>3, <2>4, <2>5
<1>5. RunningRecordsAreOwned'
  <2> SUFFICES ASSUME NEW x \in runs', x.status = "running"
               PROVE  (\E t \in tasks' : t.run = x.run) \/ up'[x.by] = "crashed"
    BY DEF RunningRecordsAreOwned
  <2>1. PICK r \in runs : x = Recovered(r, J) /\ x.run = r.run /\ r \in RunType
    BY <1>1
  <2>2. r.status = "running" /\ x.by = r.by /\ r.by \in Managers
    BY <2>1, RecoveredFacts DEF RunType
  <2>3. CASE up[r.by] = "crashed"
    BY <2>2, <2>3
  <2>4. ASSUME NEW u \in tasks, u.run = r.run
        PROVE  (\E t \in tasks' : t.run = x.run) \/ up'[x.by] = "crashed"
    <3>1. u.phase # "created" /\ r.by = u.mgr
      BY <2>4 DEF Records
    <3> QED BY <2>1, <2>2, <2>4, <3>1
  <2> QED BY <2>2, <2>3, <2>4 DEF Records, RunningRecordsAreOwned
<1>6. Stands
  <2> SUFFICES ASSUME NEW r \in runs, r.status # "running", NEW x \in runs', x.run = r.run
               PROVE  x = r
    BY DEF Stands
  <2>1. PICK s \in runs : x = Recovered(s, J) /\ x.run = s.run
    BY <1>1
  <2>2. s = r
    BY <2>1 DEF Records
  <2> QED BY <1>0, <2>1, <2>2, RecoveredFacts
<1> QED BY <1>2, <1>3, <1>4, <1>5, <1>6 DEF Records

\* The task of a free job is not live, so recovery fails no record of one.
LEMMA FreeIsIdle ==
  ASSUME LInv, NEW t \in tasks, Live(t) PROVE ~Free(row[t.job])
  BY NoneAssumption DEF LInv, Covered, Free, TypeOK, TaskType

LEMMA QuietStep ==
  ASSUME LInv, Records, runs' = runs, tasks' = tasks, nextRun' = nextRun,
         \A k \in Managers : up[k] = "crashed" => up'[k] = "crashed"
  PROVE  Records' /\ Stands
<1>1. \A r \in runs : r.by \in Managers
  BY DEF LInv, TypeOK, RunType
<1>2. RunningRecordsAreOwned'
  BY <1>1 DEF Records, RunningRecordsAreOwned
<1> QED BY <1>2 DEF Records, Stands, Live

LEMMA ManagerRecords ==
  ASSUME LInv, Records, NEW m \in Managers, Start(m) \/ Stop(m) \/ Stopped(m) \/ Crash(m)
  PROVE  Records' /\ Stands
<1>0. /\ nextRun' = nextRun /\ nextRun \in Nat
      /\ up \in [Managers -> {"new", "up", "stopping", "down", "crashed"}]
      /\ \A t \in tasks : t \in TaskType /\ t.mgr \in Managers /\ t.job \in Jobs
  BY DEF LInv, TypeOK, TaskType, Start, Stop, Stopped, Crash
<1>1. \A k \in Managers : up[k] = "crashed" => up'[k] = "crashed"
  BY <1>0 DEF Start, Stop, Stopped, Crash
<1>2. runs = {Recovered(r, {}) : r \in runs}
  BY UnchangedIsRecovered
<1>3. CASE Start(m)
  <2> DEFINE J == {j \in Jobs : Free(row[j])}
  <2>1. runs' = {Recovered(r, J) : r \in runs} /\ tasks' = tasks
    BY <1>3, FailedIsRecovered DEF Start
  <2>2. \A t \in tasks : Live(t) => t.job \notin J
    BY FreeIsIdle
  <2> HIDE DEF J
  <2> QED BY <1>0, <1>1, <2>1, <2>2, RecordsStep
<1>4. CASE Stopped(m)
  <2>1. runs' = runs /\ tasks' = tasks
    BY <1>4 DEF Stopped
  <2> QED BY <1>0, <1>1, <2>1, QuietStep
<1>5. CASE Crash(m)
  <2>1. runs' = runs /\ tasks' = {t \in tasks : t.mgr # m} /\ up'[m] = "crashed"
    BY <1>0, <1>5 DEF Crash
  <2>2. runs' \subseteq {Recovered(r, {}) : r \in runs} /\ \A t \in tasks' : t \in tasks
    BY <1>2, <2>1
  <2>3. \A u \in tasks : up'[u.mgr] = "crashed" \/ \E t \in tasks' : t.run = u.run
    BY <2>1
  <2> QED BY <1>0, <1>1, <2>2, <2>3, RecordsStep
<1>6. CASE Stop(m)
  <2> DEFINE hit == {t \in tasks : t.run \in {active[m][j] : j \in Jobs} \ {0}}
             begun == {t \in hit : t.phase # "created"}
             Cancelled(t) == [t EXCEPT !.phase = "cancelling"]
  <2>1. runs' = runs /\ tasks' = (tasks \ hit) \union {Cancelled(t) : t \in begun}
    BY <1>6 DEF Stop, CancelTasks
  <2>2. \A t \in begun : /\ Cancelled(t).run = t.run /\ Cancelled(t).job = t.job
                         /\ Cancelled(t).mgr = t.mgr /\ Cancelled(t).phase = "cancelling"
    BY <1>0 DEF TaskType
  <2> HIDE DEF Cancelled
  <2>3. ASSUME NEW t \in tasks'
        PROVE  \E u \in tasks : /\ t.run = u.run /\ t.job = u.job /\ t.mgr = u.mgr
                                /\ u.phase = "created" => t.phase = "created"
                                /\ t.phase = "created" => u.phase = "created"
                                /\ Live(t) => Live(u)
    <3>1. CASE t \in tasks
      BY <3>1
    <3>2. CASE t \in {Cancelled(u) : u \in begun}
      BY <3>2, <2>2 DEF Live
    <3> QED BY <2>1, <3>1, <3>2
  <2>4. ASSUME NEW u \in tasks, u.phase # "created" PROVE \E t \in tasks' : t.run = u.run
    <3>1. CASE u \in hit
      BY <2>1, <2>2, <2>4, <3>1
    <3>2. CASE u \notin hit
      BY <2>1, <3>2
    <3> QED BY <3>1, <3>2
  <2> HIDE DEF hit, begun
  <2> QED BY <1>0, <1>1, <1>2, <2>1, <2>3, <2>4, RecordsStep
<1> QED BY <1>3, <1>4, <1>5, <1>6


LEMMA UserRecords ==
  ASSUME LInv, Records, Allowed = {}, NEW m \in Managers, NEW j \in Jobs,
         CreateJob(m, j) \/ PauseJob(m, j) \/ ResumeJob(m, j) \/ CancelJob(m, j)
  PROVE  Records' /\ Stands
<1>0. nextRun' = nextRun /\ nextRun \in Nat /\ up' = up
  BY DEF LInv, TypeOK, CreateJob, PauseJob, ResumeJob, CancelJob
<1>1. CASE CreateJob(m, j) \/ ResumeJob(m, j)
  BY <1>0, <1>1, QuietStep DEF CreateJob, ResumeJob
<1>2. CASE PauseJob(m, j)
  <2>1. tasks' = tasks
    BY <1>2, NoEdit, CancelNothing DEF PauseJob
  <2> QED BY <1>0, <1>2, <2>1, QuietStep DEF PauseJob
<1>3. CASE CancelJob(m, j)
  <2>1. tasks' = tasks
    BY <1>3, NoEdit, CancelNothing DEF CancelJob
  <2>2. runs' \subseteq {Recovered(r, {}) : r \in runs}
    BY <1>3, UnchangedIsRecovered DEF CancelJob
  <2>3. \A t \in tasks' : \E u \in tasks : t = u
    BY <2>1
  <2> QED BY <1>0, <2>1, <2>2, <2>3, RecordsStep
<1> QED BY <1>1, <1>2, <1>3

LEMMA LaunchRecords ==
  ASSUME LInv, Records, NEW m \in Managers, NEW j \in Jobs, NEW manual \in BOOLEAN,
         Free(row[j]), Launch(m, j, manual), UNCHANGED up
  PROVE  Records' /\ Stands
<1> DEFINE n == Task(nextRun, m, j, manual)
<1>0. nextRun \in Nat /\ nextRun' = nextRun + 1 /\ tasks' = tasks \union {n}
      /\ n.run = nextRun
  BY DEF LInv, TypeOK, Launch, Task
<1>1. runs' = {Recovered(r, {j}) : r \in runs}
  BY FailedIsRecovered DEF Launch
<1>2. \A t \in tasks : Live(t) => t.job \notin {j}
  BY FreeIsIdle
<1> HIDE DEF n
<1>3. ASSUME NEW t \in tasks'
      PROVE  \/ t.run >= nextRun
             \/ \E u \in tasks : /\ t.run = u.run /\ t.job = u.job /\ t.mgr = u.mgr
                                 /\ u.phase = "created" => t.phase = "created"
                                 /\ t.phase = "created" => u.phase = "created"
                                 /\ Live(t) => Live(u) /\ t.job \notin {j}
  <2>1. CASE t \in tasks
    BY <2>1, <1>2
  <2>2. CASE t = n
    BY <2>2, <1>0
  <2> QED BY <2>1, <2>2, <1>0
<1>4. /\ runs' \subseteq {Recovered(r, {j}) : r \in runs}
      /\ \A u \in tasks : \E t \in tasks' : t.run = u.run
      /\ nextRun' \in Nat /\ nextRun' >= nextRun
  BY <1>0, <1>1
<1> QED BY <1>3, <1>4, RecordsStep

\* The first step of a task makes its record.
LEMMA BeginRecords == ASSUME LInv, Records, NEW t \in tasks, Begin(t) PROVE Records' /\ Stands
<1> DEFINE n == [run |-> t.run, job |-> t.job, by |-> t.mgr, status |-> "running"]
           begun == [t EXCEPT !.phase = "running"]
<1>0. /\ t \in TaskType /\ t.phase = "created" /\ nextRun' = nextRun /\ up' = up /\ nextRun \in Nat
      /\ \A r \in runs : r.run # t.run
  BY DEF LInv, TypeOK, Begin, Records
<1>1. CASE Exists(t.job)
  <2>1. tasks' = (tasks \ {t}) \union {begun} /\ runs' = runs \union {n}
    BY <1>1 DEF Begin
  <2>2. /\ n.run = t.run /\ n.job = t.job /\ n.by = t.mgr /\ n.status = "running"
        /\ begun.run = t.run /\ begun.job = t.job /\ begun.mgr = t.mgr /\ begun.phase = "running"
    BY <1>0 DEF TaskType
  <2>3. t.run < nextRun /\ \A u \in tasks : u # t => u.run # t.run
    BY DEF LInv, Known
  <2> HIDE DEF n, begun
  <2>4. \A r \in runs' : r.run < nextRun'
    BY <1>0, <2>1, <2>2, <2>3 DEF Records
  <2>5. \A r, s \in runs' : r.run = s.run => r = s
    BY <1>0, <2>1, <2>2 DEF Records
  <2>6. ASSUME NEW u \in tasks', NEW r \in runs', r.run = u.run
        PROVE  /\ u.phase # "created" /\ r.job = u.job /\ r.by = u.mgr
               /\ IF Live(u) THEN r.status = "running" ELSE r.status \in {"running", "failed"}
    <3>1. CASE u = begun
      BY <1>0, <2>1, <2>2, <2>6, <3>1
    <3>2. CASE u \in tasks \ {t}
      BY <2>1, <2>2, <2>3, <2>6, <3>2 DEF Records
    <3> QED BY <2>1, <3>1, <3>2
  <2>7. RunningRecordsAreOwned'
    <3> SUFFICES ASSUME NEW r \in runs', r.status = "running"
                 PROVE  (\E u \in tasks' : u.run = r.run) \/ up'[r.by] = "crashed"
      BY DEF RunningRecordsAreOwned
    <3>1. CASE r = n
      BY <2>1, <2>2, <3>1
    <3>2. CASE r \in runs
      BY <1>0, <2>1, <3>2 DEF Records, RunningRecordsAreOwned
    <3> QED BY <2>1, <3>1, <3>2
  <2>8. Stands
    BY <1>0, <2>1, <2>2 DEF Stands, Records
  <2> QED BY <2>4, <2>5, <2>6, <2>7, <2>8 DEF Records
<1>2. CASE ~Exists(t.job)
  <2>1. tasks' = tasks \ {t} /\ runs' = runs
    BY <1>2 DEF Begin
  <2>2. runs' \subseteq {Recovered(r, {}) : r \in runs}
    BY <2>1, UnchangedIsRecovered
  <2>3. \A u \in tasks' : \E w \in tasks : u = w
    BY <2>1
  <2>4. \A u \in tasks : u.phase = "created" \/ \E w \in tasks' : w.run = u.run
    BY <1>0, <2>1
  <2> QED BY <1>0, <2>2, <2>3, <2>4, RecordsStep
<1> QED BY <1>1, <1>2

\* Ending a task settles its record, which no other task has.
LEMMA EndRecords ==
  ASSUME LInv, Records, NEW t \in tasks, NEW status \in {"success", "failed"},
         t.phase = "running" \/ (t.phase = "cancelling" /\ status = "failed"),
         tasks' = tasks \ {t}, runs' = RunSet(t.run, status), UNCHANGED <<up, nextRun>>
  PROVE  Records' /\ Stands
<1> DEFINE Ended(r) == [r EXCEPT !.status = IF r.run = t.run THEN status ELSE r.status]
<1>0. \A r \in runs : r \in RunType
  BY DEF LInv, TypeOK
<1>1. \A r \in runs : /\ Ended(r).run = r.run /\ Ended(r).job = r.job /\ Ended(r).by = r.by
                      /\ r.run # t.run => Ended(r) = r
                      /\ r.run = t.run => Ended(r).status = status
                      /\ r.status = status => Ended(r) = r
  BY <1>0 DEF RunType
<1>2. runs' = {Ended(r) : r \in runs}
  BY DEF RunSet
<1> HIDE DEF Ended
<1>3. \A u \in tasks' : u \in tasks /\ u.run # t.run
  BY DEF LInv, Known
<1>4. \A x \in runs' : x.run < nextRun'
  BY <1>1, <1>2 DEF Records
<1>5. \A x, y \in runs' : x.run = y.run => x = y
  BY <1>1, <1>2 DEF Records
<1>6. ASSUME NEW u \in tasks', NEW x \in runs', x.run = u.run
      PROVE  /\ u.phase # "created" /\ x.job = u.job /\ x.by = u.mgr
             /\ IF Live(u) THEN x.status = "running" ELSE x.status \in {"running", "failed"}
  <2>1. x \in runs
    BY <1>1, <1>2, <1>3, <1>6
  <2> QED BY <1>3, <1>6, <2>1 DEF Records
<1>7. RunningRecordsAreOwned'
  <2> SUFFICES ASSUME NEW x \in runs', x.status = "running"
               PROVE  (\E u \in tasks' : u.run = x.run) \/ up'[x.by] = "crashed"
    BY DEF RunningRecordsAreOwned
  <2>1. x \in runs /\ x.run # t.run
    BY <1>1, <1>2
  <2> QED BY <2>1 DEF Records, RunningRecordsAreOwned
<1>8. Stands
  <2> SUFFICES ASSUME NEW r \in runs, r.status # "running", NEW x \in runs', x.run = r.run
               PROVE  x = r
    BY DEF Stands
  <2>1. x = Ended(r)
    BY <1>1, <1>2 DEF Records
  <2>2. r.run = t.run => r.status = status
    BY DEF Records, Live
  <2> QED BY <1>1, <2>1, <2>2
<1> QED BY <1>4, <1>5, <1>6, <1>7, <1>8 DEF Records

LEMMA NextRecords == ASSUME Allowed = {}, LInv, Records, [Next]_vars PROVE Records' /\ Stands
<1>1. ASSUME NEW m \in Managers, Start(m) \/ Stop(m) \/ Stopped(m) \/ Crash(m)
      PROVE  Records' /\ Stands
  BY <1>1, ManagerRecords
<1>2. ASSUME NEW j \in Jobs, Expire(j) \/ FallDue(j) PROVE Records' /\ Stands
  BY <1>2, QuietStep DEF Expire, FallDue
<1>3. ASSUME NEW m \in Managers, NEW j \in Jobs,
             CreateJob(m, j) \/ PauseJob(m, j) \/ ResumeJob(m, j) \/ CancelJob(m, j)
      PROVE  Records' /\ Stands
  BY <1>3, UserRecords
<1>4. ASSUME NEW m \in Managers, NEW j \in Jobs, Claim(m, j) \/ TriggerJob(m, j)
      PROVE  Records' /\ Stands
  <2>1. PICK manual \in BOOLEAN : Launch(m, j, manual)
    BY <1>4 DEF Claim, TriggerJob
  <2>2. Free(row[j]) /\ UNCHANGED up
    BY <1>4 DEF Claim, TriggerJob, Claimable
  <2> QED BY <2>1, <2>2, LaunchRecords
<1>5. ASSUME NEW t \in tasks, TaskStep(t) PROVE Records' /\ Stands
  <2>1. CASE Begin(t)
    BY <2>1, BeginRecords
  <2>2. CASE Unwind(t)
    BY <2>2, EndRecords DEF Unwind
  <2>3. ASSUME NEW success \in BOOLEAN, Finish(t, success) PROVE Records' /\ Stands
    <3> DEFINE status == IF success THEN "success" ELSE "failed"
    <3>1. status \in {"success", "failed"}
      OBVIOUS
    <3>2. t.phase = "running" /\ tasks' = tasks \ {t} /\ runs' = RunSet(t.run, status)
          /\ UNCHANGED <<up, nextRun>>
      BY <2>3 DEF Finish
    <3> HIDE DEF status
    <3> QED BY <3>1, <3>2, EndRecords
  <2> QED BY <1>5, <2>1, <2>2, <2>3 DEF TaskStep
<1>6. CASE UNCHANGED vars
  BY <1>6, QuietStep DEF vars
<1> QED BY <1>1, <1>2, <1>3, <1>4, <1>5, <1>6 DEF Next

-----------------------------------------------------------------------------
(* The limits.                                                             *)

\* The jobs a manager executes on its own account.
BusyJobs(m) == {t.job : t \in {u \in tasks : u.mgr = m /\ ~u.manual}}
Places == \A m \in Managers : Cardinality(BusyJobs(m)) <= MaxConcurrent

\* While a recurring job may run once more it has a run left, and a job that is
\* executed is one that may run.
Counts ==
  /\ \A j \in Recurring :
       /\ row[j].count <= MaxRuns
       /\ row[j].status \in {"active", "paused", "error"} => row[j].count < MaxRuns
  /\ \A t \in tasks : Live(t) => row[t.job].status \in {"active", "error"}

\* Steps after which a manager has no task it did not have.
LEMMA PlacesStep ==
  ASSUME IsFiniteSet(Jobs), LInv, Places,
         \A t \in tasks' : ~t.manual =>
           \E u \in tasks : t.job = u.job /\ t.mgr = u.mgr /\ ~u.manual
  PROVE  Places'
<1> SUFFICES ASSUME NEW m \in Managers PROVE Cardinality(BusyJobs(m)') <= MaxConcurrent
  BY DEF Places
<1>1. BusyJobs(m)' \subseteq BusyJobs(m) /\ BusyJobs(m) \subseteq Jobs
  BY DEF BusyJobs, LInv, TypeOK, TaskType
<1>2. IsFiniteSet(BusyJobs(m))
  BY <1>1, FS_Subset
<1>3. /\ Cardinality(BusyJobs(m)') <= Cardinality(BusyJobs(m))
      /\ Cardinality(BusyJobs(m)') \in Nat /\ Cardinality(BusyJobs(m)) \in Nat
  BY <1>1, <1>2, FS_Subset, FS_CardinalityType
<1> QED BY <1>3, LimitsAssumption DEF Places

LEMMA LaunchPlaces ==
  ASSUME IsFiniteSet(Jobs), LInv, Places, NEW m \in Managers, NEW j \in Jobs,
         Cardinality({k \in Jobs : active[m][k] # 0}) < MaxConcurrent, Launch(m, j, FALSE)
  PROVE  Places'
<1> DEFINE n == Task(nextRun, m, j, FALSE)
           known == {k \in Jobs : active[m][k] # 0}
<1>0. tasks' = tasks \union {n} /\ n.job = j /\ n.mgr = m
      /\ \A t \in tasks : t \in TaskType
  BY DEF Launch, Task, LInv, TypeOK
<1> HIDE DEF n
<1> SUFFICES ASSUME NEW k \in Managers PROVE Cardinality(BusyJobs(k)') <= MaxConcurrent
  BY DEF Places
<1>1. BusyJobs(k) \subseteq Jobs
  BY DEF BusyJobs, LInv, TypeOK, TaskType
<1>2. CASE k # m
  <2>1. BusyJobs(k)' = BusyJobs(k)
    BY <1>0, <1>2 DEF BusyJobs
  <2> QED BY <2>1 DEF Places
<1>3. CASE k = m
  <2>1. BusyJobs(m)' \subseteq known \union {j}
    BY <1>0 DEF BusyJobs, LInv, Known, TaskType
  <2>2. IsFiniteSet(known)
    BY FS_Subset
  <2> HIDE DEF known
  <2>3. /\ IsFiniteSet(known \union {j}) /\ Cardinality(known) \in Nat
        /\ Cardinality(known \union {j}) <= Cardinality(known) + 1
    <3>1. Cardinality(known) \in Nat
      BY <2>2, FS_CardinalityType
    <3>2. /\ IsFiniteSet(known \union {j})
          /\ Cardinality(known \union {j}) = IF j \in known THEN Cardinality(known)
                                             ELSE Cardinality(known) + 1
      BY <2>2, FS_AddElement, Zenon
    <3> QED BY <3>1, <3>2
  <2>4. /\ Cardinality(BusyJobs(m)') <= Cardinality(known \union {j})
        /\ Cardinality(BusyJobs(m)') \in Nat /\ Cardinality(known \union {j}) \in Nat
    BY <2>1, <2>3, FS_Subset, FS_CardinalityType
  <2> QED BY <1>3, <2>3, <2>4, LimitsAssumption DEF known
<1> QED BY <1>2, <1>3

\* Steps that change neither a job's status nor its count, nor begin an execution.
LEMMA CountsStep ==
  ASSUME LInv, Counts,
         \A j \in Jobs : row'[j].count = row[j].count /\ row'[j].status = row[j].status,
         \A t \in tasks' : Live(t) => \E u \in tasks : Live(u) /\ u.job = t.job
  PROVE  Counts'
<1>1. \A t \in tasks : t.job \in Jobs
  BY DEF LInv, TypeOK, TaskType
<1> QED BY <1>1, JobsAssumption DEF Counts, Live

\* A job that nothing executes is edited.
LEMMA CountsEdit ==
  ASSUME LInv, Counts, NEW j \in Jobs, NEW r \in RowType, row' = [row EXCEPT ![j] = r],
         j \in Recurring => /\ r.count <= MaxRuns
                            /\ r.status \in {"active", "paused", "error"} => r.count < MaxRuns,
         \A t \in tasks' : Live(t) => t \in tasks /\ t.job # j
  PROVE  Counts'
<1>1. row \in [Jobs -> RowType] /\ \A t \in tasks : t.job \in Jobs
  BY DEF LInv, TypeOK, TaskType
<1>2. \A i \in Jobs : row'[i] = IF i = j THEN r ELSE row[i]
  BY <1>1
<1> QED BY <1>1, <1>2, JobsAssumption DEF Counts, Live

LEMMA UserCounts ==
  ASSUME LInv, Counts, Allowed = {}, NEW m \in Managers, NEW j \in Jobs,
         CreateJob(m, j) \/ PauseJob(m, j) \/ ResumeJob(m, j) \/ CancelJob(m, j)
  PROVE  Counts'
<1>0. row[j] \in RowType /\ row \in [Jobs -> RowType] /\ 0 < MaxRuns /\ MaxRuns \in Nat
  BY LimitsAssumption DEF LInv, TypeOK
<1>1. CASE CreateJob(m, j)
  <2>1. PICK status \in {"active", "paused"} :
          row' = [row EXCEPT ![j] = [Absent EXCEPT !.status = status, !.due = "later",
                                                   !.occ = 1]]
    BY <1>1 DEF CreateJob
  <2> DEFINE r == [Absent EXCEPT !.status = status, !.due = "later", !.occ = 1]
  <2>2. r \in RowType /\ r.count = 0
    BY DEF Absent, RowType
  <2>3. \A t \in tasks' : Live(t) => t \in tasks /\ t.job # j
    BY <1>1, NoneAssumption DEF CreateJob, LInv, Covered, Unborn, TypeOK, TaskType
  <2>4. r.count <= MaxRuns /\ r.count < MaxRuns /\ row' = [row EXCEPT ![j] = r]
    BY <1>0, <2>1, <2>2
  <2> HIDE DEF r
  <2> QED BY <2>2, <2>3, <2>4, CountsEdit
<1>2. CASE PauseJob(m, j)
  <2> DEFINE r == Written([row[j] EXCEPT !.status = "paused"])
  <2>1. r \in RowType /\ r.count = row[j].count /\ row' = [row EXCEPT ![j] = r]
        /\ row[j].status \in {"active", "paused"}
    BY <1>0, <1>2 DEF RowType, Written, PauseJob
  <2>2. \A t \in tasks : t.job # j
    BY <1>2, NoEdit DEF PauseJob
  <2>3. tasks' = tasks
    BY <1>2, <2>2, CancelNothing DEF PauseJob
  <2> HIDE DEF r
  <2> QED BY <2>1, <2>2, <2>3, CountsEdit DEF Counts
<1>3. CASE ResumeJob(m, j)
  <2> DEFINE r == Written(Resumed(row[j], j))
  <2>1. Resumed(row[j], j) \in RowType /\ Resumed(row[j], j).count = row[j].count
    <3> DEFINE due == IF row[j].due = "later" THEN "later" ELSE "now"
               q == [row[j] EXCEPT !.status = "active", !.due = due]
               occ == row[j].occ + 1
               p == [row[j] EXCEPT !.status = "active", !.due = "later", !.occ = occ]
    <3>1. due \in {"later", "now"} /\ occ \in Nat
      BY <1>0 DEF RowType
    <3> HIDE DEF due, occ
    <3>2. q \in RowType /\ q.count = row[j].count
      BY <1>0, <3>1 DEF RowType
    <3>3. p \in RowType /\ p.count = row[j].count
      BY <1>0, <3>1 DEF RowType
    <3>4. Resumed(row[j], j) = IF j \in Recurring THEN p ELSE q
      BY DEF Resumed, due, occ
    <3> QED BY <3>2, <3>3, <3>4
  <2>2. r \in RowType /\ r.count = row[j].count
    BY <2>1 DEF RowType, Written
  <2>3. row' = [row EXCEPT ![j] = r] /\ tasks' = tasks
    BY <1>0, <1>3 DEF ResumeJob
  <2>4. \A t \in tasks : t.job # j
    BY <1>3, NoEdit DEF ResumeJob
  <2>5. row[j].status \in {"active", "paused", "error"}
    BY <1>0, <1>3 DEF ResumeJob, Exists, RowType
  <2> HIDE DEF r
  <2> QED BY <2>2, <2>3, <2>4, <2>5, CountsEdit DEF Counts
<1>4. CASE CancelJob(m, j)
  <2> DEFINE r == [Absent EXCEPT !.status = "deleted"]
  <2>1. r \in RowType /\ r.count = 0 /\ row' = [row EXCEPT ![j] = r]
    BY <1>4 DEF Absent, RowType, CancelJob
  <2>2. \A t \in tasks : t.job # j
    BY <1>4, NoEdit DEF CancelJob
  <2>3. tasks' = tasks
    BY <1>4, <2>2, CancelNothing DEF CancelJob
  <2> HIDE DEF r
  <2>4. r.count <= MaxRuns /\ r.count < MaxRuns
    BY <1>0, <2>1
  <2>5. \A t \in tasks' : Live(t) => t \in tasks /\ t.job # j
    BY <2>2, <2>3
  <2> QED BY <2>1, <2>4, <2>5, CountsEdit
<1> QED BY <1>1, <1>2, <1>3, <1>4

\* A live task is the only one of its job.
LEMMA OnlyLive ==
  ASSUME LInv, NEW t \in tasks, NEW u \in tasks, Live(t), Live(u), t.job = u.job
  PROVE  t = u
<1>1. t.mgr = u.mgr /\ t.mgr \in Managers /\ t.job \in Jobs
  BY DEF LInv, Covered, TypeOK, TaskType
<1> QED BY <1>1 DEF LInv, Known

\* The last run completes a recurring job.
LEMMA FinishedCount ==
  ASSUME NEW r \in RowType, NEW t \in TaskType, t.job \in Recurring, r.count < MaxRuns,
         NEW success \in BOOLEAN, NEW f \in Finished(r, t, success)
  PROVE  /\ Written(f).count <= MaxRuns
         /\ Written(f).status \in {"active", "paused", "error"} => Written(f).count < MaxRuns
<1> DEFINE count == r.count + 1
           occ == r.occ + 1
           counted == [r EXCEPT !.count = count]
           over(status) == [counted EXCEPT !.due = "never", !.status = status]
           again == [counted EXCEPT !.due = "later", !.occ = occ, !.status = "active"]
<1>1. count \in Nat /\ occ \in Nat /\ count <= MaxRuns /\ MaxRuns \in Nat
  BY LimitsAssumption DEF RowType
<1>2. /\ f.count = count
      /\ count >= MaxRuns => f.status = "completed"
  <2>1. counted.count = count
    BY DEF RowType
  <2>2. CASE count >= MaxRuns
    <3>1. f = over("completed")
      BY <2>1, <2>2 DEF Finished
    <3> HIDE DEF count
    <3> QED BY <3>1 DEF RowType
  <2>3. CASE ~(count >= MaxRuns)
    <3>1. f \in {counted, again, over("error")}
      BY <2>1, <2>3 DEF Finished
    <3> HIDE DEF count
    <3>2. \A x \in {counted, again, over("error")} : x.count = count
      BY DEF RowType
    <3> QED BY <2>3, <3>1, <3>2
  <2> QED BY <2>2, <2>3
<1>3. Written(f).count = f.count /\ Written(f).status = f.status
  <2>1. f \in {counted, again, over("completed"), over("error")}
    BY DEF Finished
  <2> HIDE DEF count, occ
  <2> QED BY <2>1, <1>1 DEF Written, RowType
<1> HIDE DEF count
<1> QED BY <1>1, <1>2, <1>3

LEMMA FinishCounts ==
  ASSUME LInv, Counts, NEW t \in tasks, NEW success \in BOOLEAN, Finish(t, success)
  PROVE  Counts'
<1>0. /\ t \in TaskType /\ t.job \in Jobs /\ row \in [Jobs -> RowType]
      /\ row[t.job] \in RowType /\ Live(t) /\ tasks' = tasks \ {t}
  BY DEF LInv, TypeOK, TaskType, Finish, Live
<1>1. \A u \in tasks' : Live(u) => u \in tasks /\ u.job # t.job
  BY <1>0, OnlyLive
<1>2. CASE Exists(t.job)
  <2>1. PICK f \in Finished(row[t.job], t, success) :
          row' = [row EXCEPT ![t.job] = Written(f)]
    BY <1>2 DEF Finish
  <2>2. Written(f) \in RowType
    <3>1. f \in RowType
      BY <1>0, <1>2, FinishedType DEF Exists
    <3> QED BY <3>1 DEF Written, RowType
  <2>3. t.job \in Recurring => row[t.job].count < MaxRuns
    BY <1>0 DEF Counts
  <2>4. t.job \in Recurring =>
          /\ Written(f).count <= MaxRuns
          /\ Written(f).status \in {"active", "paused", "error"} => Written(f).count < MaxRuns
    BY <1>0, <2>3, FinishedCount
  <2> QED BY <1>0, <1>1, <2>1, <2>2, <2>4, CountsEdit
<1>3. CASE ~Exists(t.job)
  <2>1. row' = row
    BY <1>3 DEF Finish
  <2> QED BY <1>0, <2>1, CountsStep
<1> QED BY <1>2, <1>3

\* The manager's steps change no status and no count, and begin nothing.
LEMMA ManagerLimits ==
  ASSUME IsFiniteSet(Jobs), LInv, Places, Counts, NEW m \in Managers,
         Start(m) \/ Stop(m) \/ Stopped(m) \/ Crash(m)
  PROVE  Places' /\ Counts'
<1>0. /\ row \in [Jobs -> RowType] /\ \A t \in tasks : t \in TaskType
  BY DEF LInv, TypeOK
<1>1. \A j \in Jobs : row'[j].count = row[j].count /\ row'[j].status = row[j].status
  <2>1. CASE Stopped(m)
    BY <1>0, <2>1 DEF Stopped, Released, Written, RowType
  <2> QED BY <2>1 DEF Start, Stop, Crash
<1>2. ASSUME NEW t \in tasks'
      PROVE  \E u \in tasks : /\ t.job = u.job /\ t.mgr = u.mgr /\ t.manual = u.manual
                              /\ Live(t) => Live(u)
  <2>1. CASE Stop(m)
    <3> DEFINE begun == {u \in tasks : u.run \in {active[m][j] : j \in Jobs} \ {0}
                                       /\ u.phase # "created"}
               Cancelled(u) == [u EXCEPT !.phase = "cancelling"]
    <3>1. t \in tasks \/ \E u \in begun : t = Cancelled(u)
      BY <2>1 DEF Stop, CancelTasks
    <3>2. \A u \in begun : /\ Cancelled(u).job = u.job /\ Cancelled(u).mgr = u.mgr
                           /\ Cancelled(u).manual = u.manual /\ ~Live(Cancelled(u))
      BY <1>0 DEF TaskType, Live
    <3> HIDE DEF Cancelled
    <3> QED BY <3>1, <3>2
  <2>2. CASE ~Stop(m)
    BY <2>2 DEF Start, Stopped, Crash
  <2> QED BY <2>1, <2>2
<1> QED BY <1>1, <1>2, PlacesStep, CountsStep

LEMMA LaunchCounts ==
  ASSUME LInv, Counts, NEW m \in Managers, NEW j \in Jobs, NEW manual \in BOOLEAN,
         row[j].status \in {"active", "error"}, Launch(m, j, manual)
  PROVE  Counts'
<1>0. row \in [Jobs -> RowType] /\ row[j] \in RowType /\ \A t \in tasks : t.job \in Jobs
  BY DEF LInv, TypeOK, TaskType
<1>1. \A i \in Jobs : row'[i].count = row[i].count /\ row'[i].status = row[i].status
  BY <1>0 DEF Launch, Leased, RowType
<1>2. \A t \in tasks' : t \in tasks \/ t.job = j
  BY DEF Launch, Task
<1> QED BY <1>0, <1>1, <1>2, JobsAssumption DEF Counts, Live

LEMMA NextLimits ==
  ASSUME IsFiniteSet(Jobs), Allowed = {}, LInv, Places, Counts, [Next]_vars
  PROVE  Places' /\ Counts'
<1>1. ASSUME NEW m \in Managers, Start(m) \/ Stop(m) \/ Stopped(m) \/ Crash(m)
      PROVE  Places' /\ Counts'
  BY <1>1, ManagerLimits
<1>2. ASSUME NEW j \in Jobs, Expire(j) \/ FallDue(j) PROVE Places' /\ Counts'
  <2>1. \A i \in Jobs : row'[i].count = row[i].count /\ row'[i].status = row[i].status
    <3> DEFINE e == [row[j] EXCEPT !.live = FALSE]
               d == [row[j] EXCEPT !.due = "now"]
    <3>1. /\ row[j] \in RowType /\ row \in [Jobs -> RowType]
          /\ row' = [row EXCEPT ![j] = e] \/ row' = [row EXCEPT ![j] = d]
      BY <1>2 DEF Expire, FallDue, LInv, TypeOK
    <3>2. /\ e.count = row[j].count /\ e.status = row[j].status
          /\ d.count = row[j].count /\ d.status = row[j].status
      BY <3>1 DEF RowType
    <3> HIDE DEF e, d
    <3> QED BY <3>1, <3>2
  <2>2. tasks' = tasks
    BY <1>2 DEF Expire, FallDue
  <2> QED BY <2>1, <2>2, PlacesStep, CountsStep
<1>3. ASSUME NEW m \in Managers, NEW j \in Jobs,
             CreateJob(m, j) \/ PauseJob(m, j) \/ ResumeJob(m, j) \/ CancelJob(m, j)
      PROVE  Places' /\ Counts'
  <2>1. tasks' = tasks
    BY <1>3, NoEdit, CancelNothing DEF CreateJob, PauseJob, ResumeJob, CancelJob
  <2> QED BY <1>3, <2>1, PlacesStep, UserCounts
<1>4. ASSUME NEW m \in Managers, NEW j \in Jobs, Claim(m, j) PROVE Places' /\ Counts'
  BY <1>4, LaunchPlaces, LaunchCounts DEF Claim, Claimable
<1>5. ASSUME NEW m \in Managers, NEW j \in Jobs, TriggerJob(m, j) PROVE Places' /\ Counts'
  <2>1. Launch(m, j, TRUE) /\ row[j].status \in {"active", "error"}
    BY <1>5 DEF TriggerJob
  <2>2. \A t \in tasks' : t \in tasks \/ t.manual
    BY <2>1 DEF Launch, Task
  <2> QED BY <2>1, <2>2, PlacesStep, LaunchCounts
<1>6. ASSUME NEW t \in tasks, TaskStep(t) PROVE Places' /\ Counts'
  <2>0. t \in TaskType /\ row \in [Jobs -> RowType] /\ t.job \in Jobs
    BY DEF LInv, TypeOK, TaskType
  <2>1. CASE Begin(t)
    <3> DEFINE begun == [t EXCEPT !.phase = "running"]
    <3>1. /\ begun.job = t.job /\ begun.mgr = t.mgr /\ begun.manual = t.manual /\ Live(t)
          /\ \A u \in tasks' : u \in tasks \/ u = begun
      BY <2>0, <2>1 DEF Begin, TaskType, Live
    <3>2. \A j \in Jobs : row'[j].count = row[j].count /\ row'[j].status = row[j].status
      BY <2>0, <2>1 DEF Begin, RowType
    <3> HIDE DEF begun
    <3> QED BY <3>1, <3>2, PlacesStep, CountsStep
  <2>2. CASE Unwind(t)
    <3>1. \A j \in Jobs : row'[j].count = row[j].count /\ row'[j].status = row[j].status
      BY <2>0, <2>2 DEF Unwind, Released, Written, RowType
    <3>2. \A u \in tasks' : u \in tasks
      BY <2>2 DEF Unwind
    <3> QED BY <3>1, <3>2, PlacesStep, CountsStep
  <2>3. ASSUME NEW success \in BOOLEAN, Finish(t, success) PROVE Places' /\ Counts'
    <3>1. \A u \in tasks' : u \in tasks
      BY <2>3 DEF Finish
    <3> QED BY <2>3, <3>1, PlacesStep, FinishCounts
  <2> QED BY <1>6, <2>1, <2>2, <2>3 DEF TaskStep
<1>7. CASE UNCHANGED vars
  BY <1>7, PlacesStep, CountsStep DEF vars
<1> QED BY <1>1, <1>2, <1>3, <1>4, <1>5, <1>6, <1>7 DEF Next

\* A manager has at most one task of a job, so it has as many as it has busy jobs.
LEMMA PlacesCount ==
  ASSUME IsFiniteSet(Jobs), LInv, NEW m \in Managers
  PROVE  /\ Cardinality({t \in tasks : t.mgr = m /\ ~t.manual}) <= Cardinality(BusyJobs(m))
         /\ Cardinality({t \in tasks : t.mgr = m /\ ~t.manual}) \in Nat
         /\ Cardinality(BusyJobs(m)) \in Nat
<1> DEFINE busy == {t \in tasks : t.mgr = m /\ ~t.manual}
           f == [t \in busy |-> t.job]
<1>1. BusyJobs(m) \subseteq Jobs /\ \A t \in tasks : t.job \in Jobs /\ t.mgr \in Managers
  BY DEF BusyJobs, LInv, TypeOK, TaskType
<1>2. IsFiniteSet(BusyJobs(m))
  BY <1>1, FS_Subset
<1>3. \A t, u \in busy : t.job = u.job => t = u
  <2> SUFFICES ASSUME NEW t \in busy, NEW u \in busy, t.job = u.job PROVE t = u
    OBVIOUS
  <2>1. active[m][t.job] = t.run /\ active[m][t.job] = u.run
    BY <1>1 DEF LInv, Known
  <2> QED BY ZenonT(60), <2>1 DEF LInv, Known
<1>4. f \in Injection(busy, BusyJobs(m))
  BY <1>3 DEF Injection, IsInjective, BusyJobs
<1> HIDE DEF f, busy
<1>5. IsFiniteSet(busy) /\ Cardinality(busy) <= Cardinality(BusyJobs(m))
  BY <1>2, <1>4, FS_Injection
<1>6. Cardinality(busy) \in Nat /\ Cardinality(BusyJobs(m)) \in Nat
  BY <1>2, <1>5, FS_CardinalityType
<1> QED BY <1>5, <1>6 DEF busy

-----------------------------------------------------------------------------

\* The types, for any number of managers and jobs.
THEOREM TypeCorrect ==
  ASSUME Allowed = {}
  PROVE  Spec => []TypeOK
<1>1. LInv => TypeOK
  BY DEF LInv
<1> QED BY <1>1, InitLInv, NextLInv, PTL DEF Spec

\* Run records tell the truth whatever stops, crashes and recovers: a running one
\* belongs to a task that will finish it or to a process that died, and an outcome
\* is never replaced (_finish_job, _recover_job_runs, start).
THEOREM RecordsHold ==
  ASSUME Allowed = {}
  PROVE  Spec => RecordsAreTrue
<1>1. Init => LInv /\ Records
  <2>1. Init => Records
    BY DEF Init, Records, RunningRecordsAreOwned
  <2> QED BY <2>1, InitLInv
<1>2. LInv /\ Records /\ [Next]_vars => LInv' /\ Records' /\ Stands
  BY NextLInv, NextRecords
<1>3. LInv /\ Records => RunningRecordsAreOwned
  BY DEF Records
<1>4. Stands => [\A r \in runs : r.status # "running" =>
                   \A after \in runs' : after.run = r.run => after = r]_vars
  BY DEF Stands
<1> QED BY <1>1, <1>2, <1>3, <1>4, PTL DEF Spec, RecordsAreTrue, OutcomesAreFinal

\* max_concurrent_jobs and max_runs are never exceeded, for any number of
\* managers, triggers, crashes and restarts (claim_due_schedules, _finish_job).
THEOREM LimitsHold ==
  ASSUME Allowed = {}, IsFiniteSet(Jobs)
  PROVE  Spec => []LimitsRespected
<1>1. Init => LInv /\ Places /\ Counts
  <2> SUFFICES ASSUME Init PROVE Places /\ Counts
    BY InitLInv
  <2>1. \A m \in Managers : BusyJobs(m) = {}
    BY DEF Init, BusyJobs
  <2>2. Places
    BY <2>1, FS_EmptySet, LimitsAssumption DEF Places
  <2>3. Counts
    BY LimitsAssumption, JobsAssumption DEF Init, Counts, Absent
  <2> QED BY <2>2, <2>3
<1>2. (LInv /\ Places /\ Counts) /\ [Next]_vars => (LInv /\ Places /\ Counts)'
  BY NextLInv, NextLimits
<1>3. LInv /\ Places /\ Counts => LimitsRespected
  <2> SUFFICES ASSUME LInv, Places, Counts, NEW m \in Managers
               PROVE  Cardinality({t \in tasks : t.mgr = m /\ ~t.manual}) <= MaxConcurrent
    BY DEF LimitsRespected, Counts
  <2> DEFINE busy == {t \in tasks : t.mgr = m /\ ~t.manual}
  <2>1. /\ Cardinality(busy) <= Cardinality(BusyJobs(m))
        /\ Cardinality(busy) \in Nat /\ Cardinality(BusyJobs(m)) \in Nat
    BY PlacesCount
  <2>2. Cardinality(BusyJobs(m)) <= MaxConcurrent
    BY DEF Places
  <2> QED BY <2>1, <2>2, LimitsAssumption
<1> QED BY <1>1, <1>2, <1>3, PTL DEF Spec
=============================================================================
