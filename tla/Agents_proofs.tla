---------------------------- MODULE Agents_proofs ----------------------------
(***************************************************************************)
(* Proofs about the managed agents of a conversation, for any number of    *)
(* agents, sessions and run objects and any limit of the semaphore.        *)
(***************************************************************************)
EXTENDS Agents, FiniteSetTheorems, TLAPS

\* An agent that was never spawned has left no trace.
Unborn ==
  \A a \in Agents : known[a] = "unborn" =>
    /\ runOf[a] = None
    /\ \A c \in Copies : run[<<a, c>>] = Blank
    /\ loaded[a] = NoSnap
    /\ \A s \in Sessions : disk[s][a] = NoSnap

Inv == Types /\ Unborn

\* What a step may make of the disk: the snapshots of some runs, or nothing.
Saved(rrs) == disk' = disk \/ \E rr \in rrs : disk' = Persisted(rr)

USE DEF Runs
-----------------------------------------------------------------------------
(* Facts about the operators.                                              *)

LEMMA BlankRun == Blank \in Run
BY LimitsAssumption DEF Blank, Run

LEMMA NoSnapSnap == NoSnap \in Snap
BY DEF Snap

\* The holders of the semaphore are counted.
LEMMA OccupiedFinite ==
  /\ IsFiniteSet(Occupied) /\ Cardinality(Occupied) \in Nat
<1>1. IsFiniteSet(Runs)
  BY FiniteAssumption, FS_Product
<1>2. Occupied \in SUBSET Runs
  BY DEF Occupied
<1> QED BY <1>1, <1>2, FS_Subset, FS_CardinalityType

\* An object stays as it is, or is gone.
LEMMA SweptRuns ==
  ASSUME NEW rr \in [Runs -> Run], NEW map
  PROVE  /\ Swept(rr, map) \in [Runs -> Run]
         /\ \A o \in Runs : Swept(rr, map)[o] \in {rr[o], Blank}
BY BlankRun DEF Swept

\* The list of the agents is a list of snapshots; one without a run is not in it.
LEMMA ListedSnaps ==
  ASSUME Types, NEW rr \in [Runs -> Run]
  PROVE  /\ Listed(rr) \in [Agents -> Snap]
         /\ \A a \in Agents : runOf[a] = None => Listed(rr)[a] = NoSnap
<1>1. ASSUME NEW a \in Agents, runOf[a] # None
      PROVE  [status |-> rr[runOf[a]].status, cb |-> rr[runOf[a]].cb,
              epoch |-> rr[runOf[a]].epoch] \in Snap
  <2>1. rr[runOf[a]] \in Run
    BY <1>1 DEF Types
  <2> QED BY <2>1 DEF Run, Snap
<1> QED BY <1>1, NoSnapSnap DEF Listed

\* Persisting writes snapshots, and nothing of an agent that was never spawned.
LEMMA SavedDisk ==
  ASSUME Inv, Saved([Runs -> Run])
  PROVE  /\ disk' \in [Sessions -> [Agents -> Snap]]
         /\ \A a \in Agents : known[a] = "unborn" => \A s \in Sessions : disk'[s][a] = NoSnap
<1>1. CASE disk' = disk
  BY <1>1 DEF Inv, Types, Unborn
<1>2. CASE \E rr \in [Runs -> Run] : disk' = Persisted(rr)
  <2>1. PICK rr \in [Runs -> Run] : disk' = [disk EXCEPT ![storage] = Listed(rr)]
    BY Zenon, <1>2 DEF Persisted
  <2>2. Listed(rr) \in [Agents -> Snap]
        /\ \A a \in Agents : runOf[a] = None => Listed(rr)[a] = NoSnap
    BY Zenon, ListedSnaps DEF Inv
  <2> QED BY <2>1, <2>2 DEF Inv, Types, Unborn
<1> QED BY <1>1, <1>2 DEF Saved
-----------------------------------------------------------------------------
(* What most steps do: one run that is not blank changes, and no other.    *)

\* Such a step keeps the types, and takes nothing new into the semaphore.
LEMMA SetStep ==
  ASSUME Inv, NEW o \in Runs, NEW r \in Run, run[o] # Blank, Set(o, r),
         UNCHANGED switchVars, Saved([Runs -> Run]),
         outbox' \subseteq Agents \X (0..MaxEpoch),
         known' \in [Agents -> {"unborn", "born", "returned"}],
         \A a \in Agents : known'[a] = "unborn" => known[a] = "unborn"
  PROVE  Inv' /\ Occupied' \subseteq Occupied \union (IF r.phase \in Executing THEN {o} ELSE {})
<1> DEFINE rr == [run EXCEPT ![o] = r]
<1>1. rr \in [Runs -> Run] /\ rr[o] = r /\ \A p \in Runs : p # o => rr[p] = run[p]
  BY DEF Inv, Types
<1>2. run' = Swept(rr, runOf) /\ runOf' = runOf
  BY DEF Set
<1> HIDE DEF rr
<1>3. run' \in [Runs -> Run] /\ \A p \in Runs : run'[p] \in {rr[p], Blank}
  BY Zenon, <1>1, <1>2, SweptRuns
<1>4. Types'
  BY <1>2, <1>3, SavedDisk DEF Inv, Types, switchVars
<1>5. Unborn'
  <2> SUFFICES ASSUME NEW a \in Agents, known'[a] = "unborn"
               PROVE  /\ runOf'[a] = None
                      /\ \A c \in Copies : run'[<<a, c>>] = Blank
                      /\ loaded'[a] = NoSnap
                      /\ \A s \in Sessions : disk'[s][a] = NoSnap
    BY DEF Unborn
  <2>1. known[a] = "unborn"
    OBVIOUS
  <2>2. \A c \in Copies : <<a, c>> # o /\ run[<<a, c>>] = Blank
    BY <2>1 DEF Inv, Unborn
  <2>3. \A c \in Copies : run'[<<a, c>>] = Blank
    BY <2>2, <1>1, <1>3
  <2> QED BY <2>1, <2>3, <1>2, SavedDisk DEF Inv, Unborn, switchVars
<1>6. Occupied' \subseteq Occupied \union (IF r.phase \in Executing THEN {o} ELSE {})
  BY <1>1, <1>3 DEF Occupied, Executing, Blank
<1> QED BY <1>4, <1>5, <1>6 DEF Inv

\* A step that takes nothing into the semaphore keeps its limit.
LEMMA SlotsKept ==
  ASSUME Cardinality(Occupied) <= MaxConcurrency, Occupied' \subseteq Occupied
  PROVE  Cardinality(Occupied') <= MaxConcurrency
<1>1. Cardinality(Occupied') <= Cardinality(Occupied) /\ IsFiniteSet(Occupied')
  BY OccupiedFinite, FS_Subset
<1>2. Cardinality(Occupied') \in Nat
  BY <1>1, FS_CardinalityType
<1> QED BY <1>1, <1>2, OccupiedFinite, LimitsAssumption

\* The step of a task, or of a coroutine that controls a run, which the
\* semaphore is not asked for.
LEMMA SetKept ==
  ASSUME Inv, Cardinality(Occupied) <= MaxConcurrency,
         NEW o \in Runs, NEW r \in Run, run[o] # Blank, Set(o, r),
         r.phase \in Executing => run[o].phase \in Executing,
         UNCHANGED switchVars, Saved([Runs -> Run]),
         outbox' \subseteq Agents \X (0..MaxEpoch),
         known' \in [Agents -> {"unborn", "born", "returned"}],
         \A a \in Agents : known'[a] = "unborn" => known[a] = "unborn"
  PROVE  Inv' /\ TypeOK'
<1>1. Inv' /\ Occupied' \subseteq Occupied \union (IF r.phase \in Executing THEN {o} ELSE {})
  BY Zenon, SetStep
<1>2. Occupied' \subseteq Occupied
  BY <1>1 DEF Occupied
<1>3. Cardinality(Occupied') <= MaxConcurrency
  BY <1>2, SlotsKept
<1> QED BY <1>1, <1>3 DEF TypeOK, Inv
-----------------------------------------------------------------------------
(* The steps of a run's task.                                              *)

USE DEF Terminal, Executing

\* Saving once, saving or not, or leaving the disk alone.
LEMMA SavedForms ==
  ASSUME Inv,
         \/ UNCHANGED disk
         \/ \E rr \in [Runs -> Run] : disk' = Persisted(rr)
         \/ \E p \in BOOLEAN : disk' = PersistedIf(p, run)
  PROVE  Saved([Runs -> Run])
BY DEF Saved, PersistedIf, Inv, Types

\* done_event.set() and the completion keep the types.
LEMMA SettledStep ==
  ASSUME Inv, Cardinality(Occupied) <= MaxConcurrency,
         NEW o \in Runs, NEW r \in Run, run[o] # Blank, Settled(o, r),
         r.phase \in Executing => run[o].phase \in Executing,
         UNCHANGED <<switchVars, known>>, Saved([Runs -> Run])
  PROVE  Inv' /\ TypeOK'
<1> DEFINE w == Woken(r, "run")
           q(n) == [w EXCEPT !.told = IF n THEN @ + 1 ELSE @]
<1>1. w \in Run /\ w.phase = r.phase
  BY DEF Woken, Done, Run
<1>2. \A n \in BOOLEAN : q(n) \in Run /\ q(n).phase = r.phase
  BY <1>1 DEF Run
<1>3. PICK n \in BOOLEAN : Set(o, q(n))
  BY Zenon DEF Settled
<1>4. outbox' \subseteq Agents \X (0..MaxEpoch)
  BY DEF Settled, Inv, Types, Run
<1> HIDE DEF q
<1>5. known' \in [Agents -> {"unborn", "born", "returned"}] /\ known' = known
  BY DEF Inv, Types
<1> QED BY Zenon, <1>2, <1>3, <1>4, <1>5, SetKept DEF switchVars

LEMMA TaskSteps ==
  ASSUME Inv, Cardinality(Occupied) <= MaxConcurrency, NEW o \in Runs,
         \/ Begin(o) \/ Enter(o) \/ Emitted(o) \/ ToolsLoaded(o) \/ QueryEnds(o)
         \/ Released(o) \/ Finalized(o) \/ Thrown(o)
  PROVE  Inv' /\ TypeOK'
<1>0. run[o] \in Run /\ run \in [Runs -> Run]
      /\ outbox \subseteq Agents \X (0..MaxEpoch)
      /\ known \in [Agents -> {"unborn", "born", "returned"}]
  BY DEF Inv, Types
<1> DEFINE over == Over(o)
<1>o. over \in Run /\ over.phase = "over"
  BY ZenonT(60), <1>0 DEF Over, Run
<1>g. ASSUME NEW phase \in {"parked", "over", "slot", "querying", "releasing"},
             run[o] # Blank, Set(o, [run[o] EXCEPT !.phase = phase]),
             phase \in Executing => run[o].phase \in Executing,
             UNCHANGED <<switchVars, outbox, known>>, Saved([Runs -> Run])
      PROVE  Inv' /\ TypeOK'
  <2> DEFINE r == [run[o] EXCEPT !.phase = phase]
  <2>1. r \in Run /\ r.phase = phase
    BY <1>0 DEF Run
  <2> HIDE DEF r
  <2>2. Set(o, r)
    BY <1>g DEF r
  <2> QED BY Zenon, <1>0, <1>g, <2>1, <2>2, SetKept
<1>1. CASE Begin(o) \/ Enter(o)
  <2>1. run[o] # Blank /\ Saved([Runs -> Run])
    BY <1>1, SavedForms DEF Begin, Enter, Ready, Goto, Blank
  <2> QED BY <1>1, <1>g, <2>1 DEF Begin, Enter, Goto
<1>2. CASE Emitted(o)
  <2>1. run[o] # Blank
    BY <1>2 DEF Emitted, Ready, Blank
  <2>2. Saved([Runs -> Run])
    BY Zenon, <1>2, SavedForms, Current(o) \in BOOLEAN DEF Emitted, Current
  <2> QED BY <1>2, <1>g, <2>1, <2>2 DEF Emitted, Ready
<1>3. CASE ToolsLoaded(o)
  <2>1. Saved([Runs -> Run])
    BY Zenon, <1>0, <1>3, SavedForms DEF ToolsLoaded
  <2>2. Inv'
    BY <1>3, <2>1, SavedDisk DEF ToolsLoaded, Inv, Types, Unborn, switchVars
  <2>3. Occupied' = Occupied
    BY <1>3 DEF ToolsLoaded, Occupied
  <2> QED BY <2>2, <2>3 DEF TypeOK, Inv
<1>4. CASE QueryEnds(o)
  <2>1. PICK end \in {<<"completed", "ending">>, <<"failed", "ending">>, <<"failed", "handling">>} :
          /\ Ready(o, "querying")
          /\ Set(o, [run[o] EXCEPT !.status = end[1], !.phase = end[2]])
    BY Zenon, <1>4 DEF QueryEnds
  <2> DEFINE r == [run[o] EXCEPT !.status = end[1], !.phase = end[2]]
  <2>r. end[1] \in {"completed", "failed"} /\ end[2] \in {"ending", "handling"}
    BY <2>1
  <2>s. \A status \in {"completed", "failed"}, phase \in {"ending", "handling"} :
          [run[o] EXCEPT !.status = status, !.phase = phase] \in Run
    BY ZenonT(60), <1>0 DEF Run
  <2>2. r \in Run
    BY Zenon, <2>r, <2>s
  <2>q. run[o].phase = "querying" /\ run[o] # Blank /\ Set(o, r)
    BY <2>1 DEF Ready, Blank
  <2> HIDE DEF r
  <2>3. Saved([Runs -> Run]) /\ UNCHANGED <<switchVars, outbox, known>>
    BY <1>4, SavedForms DEF QueryEnds
  <2> QED BY Zenon, <1>0, <2>2, <2>3, <2>q, SetKept
<1>5. CASE Released(o)
  <2>1. run[o] # Blank /\ Saved([Runs -> Run]) /\ Settled(o, over) /\ UNCHANGED <<switchVars, known>>
    BY <1>5, SavedForms DEF Released, Blank
  <2> QED BY Zenon, <1>o, <2>1, SettledStep
<1>6. CASE Finalized(o)
  <2>1. run[o] # Blank /\ Settled(o, over) /\ UNCHANGED <<switchVars, known>>
    BY <1>6 DEF Finalized, Ready, Blank
  <2>2. Saved([Runs -> Run])
    BY Zenon, <1>6, SavedForms, Current(o) \in BOOLEAN DEF Finalized, Current
  <2> QED BY Zenon, <1>o, <2>1, <2>2, SettledStep
<1>7. CASE Thrown(o)
  <2> DEFINE thrown(phase, status) ==
        [run[o] EXCEPT !.hit = FALSE, !.phase = phase, !.status = status]
  <2>1. run[o] # Blank /\ Saved([Runs -> Run]) /\ UNCHANGED <<switchVars, known>>
    BY <1>7, SavedForms DEF Thrown, Blank
  <2>2. \A phase \in {"finalizing", "handling", "releasing"}, status \in {"stopped", run[o].status} :
          thrown(phase, status) \in Run /\ thrown(phase, status).phase = phase
    BY ZenonT(60), <1>0 DEF Run
  <2>3. CASE Settled(o, over)
    BY Zenon, <1>o, <2>1, <2>3, SettledStep
  <2>4. CASE Set(o, over) /\ UNCHANGED outbox
    BY Zenon, <1>0, <1>o, <2>1, <2>4, SetKept
  <2>5. CASE /\ UNCHANGED outbox
             /\ \E phase \in {"finalizing", "handling", "releasing"},
                   status \in {"stopped", run[o].status} :
                  /\ phase # "finalizing" => run[o].phase \in Executing
                  /\ Set(o, thrown(phase, status))
    <3>1. PICK phase \in {"finalizing", "handling", "releasing"},
               status \in {"stopped", run[o].status} :
            /\ phase # "finalizing" => run[o].phase \in Executing
            /\ Set(o, thrown(phase, status))
      BY Zenon, <2>5
    <3>2. thrown(phase, status) \in Run /\ thrown(phase, status).phase = phase
      BY Zenon, <2>2
    <3> HIDE DEF thrown
    <3> QED BY Zenon, <1>0, <2>1, <2>5, <3>1, <3>2, SetKept
  <2>6. \/ Settled(o, over)
        \/ Set(o, over) /\ UNCHANGED outbox
        \/ /\ UNCHANGED outbox
           /\ \E phase \in {"finalizing", "handling", "releasing"},
                 status \in {"stopped", run[o].status} :
                /\ phase # "finalizing" => run[o].phase \in Executing
                /\ Set(o, thrown(phase, status))
    BY ZenonT(60), <1>0, <1>7 DEF Thrown, Run
  <2> QED BY <2>3, <2>4, <2>5, <2>6
<1> QED BY <1>1, <1>2, <1>3, <1>4, <1>5, <1>6, <1>7

\* The only step that takes a run into the semaphore asks it.
LEMMA AcquireStep ==
  ASSUME Inv, NEW o \in Runs, Acquire(o)
  PROVE  Inv' /\ TypeOK'
<1> DEFINE r == [run[o] EXCEPT !.phase = "starting", !.status = "running"]
<1>0. run[o] \in Run
  BY DEF Inv, Types
<1>r. r \in Run
  BY ZenonT(60), <1>0 DEF Run
<1>1. run[o] # Blank /\ Set(o, r)
  BY DEF Acquire, Ready, Blank
<1>2. /\ Saved([Runs -> Run]) /\ UNCHANGED <<switchVars, outbox, known>>
      /\ Cardinality(Occupied) < MaxConcurrency
  BY SavedForms DEF Acquire
<1> HIDE DEF r
<1>3. Inv' /\ Occupied' \subseteq Occupied \union {o}
  BY Zenon, <1>1, <1>2, <1>r, SetStep DEF Inv, Types
<1>4. /\ IsFiniteSet(Occupied \union {o})
      /\ Cardinality(Occupied \union {o}) <= Cardinality(Occupied) + 1
  BY SMTT(60), OccupiedFinite, FS_AddElement
<1>5. IsFiniteSet(Occupied') /\ Cardinality(Occupied') <= Cardinality(Occupied \union {o})
  BY <1>3, <1>4, FS_Subset
<1>6. Cardinality(Occupied') \in Nat /\ Cardinality(Occupied \union {o}) \in Nat
  BY <1>4, <1>5, FS_CardinalityType
<1>7. Cardinality(Occupied') <= MaxConcurrency
  BY <1>2, <1>4, <1>5, <1>6, OccupiedFinite, LimitsAssumption
<1> QED BY <1>3, <1>7 DEF TypeOK, Inv
-----------------------------------------------------------------------------
(* The steps of the coroutines that control a run.                         *)

\* A run of the session is one that was spawned.
LEMMA CurrentRun ==
  ASSUME Inv, NEW o \in Runs, Current(o)
  PROVE  run[o] # Blank
BY NoneAssumption DEF Inv, Types, Current, Blank

LEMMA SpawningRun ==
  ASSUME NEW o \in Runs, run[o].spawning
  PROVE  run[o] # Blank
<1>1. ~Blank.spawning
  BY Zenon DEF Blank
<1> QED BY <1>1

LEMMA SpawnSteps ==
  ASSUME Inv, Cardinality(Occupied) <= MaxConcurrency,
         \/ \E a \in Agents, callback \in BOOLEAN : Spawn(a, callback)
         \/ \E o \in Runs : SpawnReturns(o) \/ SpawnFails(o)
  PROVE  Inv' /\ TypeOK'
<1>1. CASE \E a \in Agents, callback \in BOOLEAN : Spawn(a, callback)
  <2>1. PICK a \in Agents, callback \in BOOLEAN : Spawn(a, callback)
    BY <1>1
  <2> DEFINE o == FreeCopy(a, run)
             r == [Blank EXCEPT !.ses = session, !.gen = gen, !.spawning = TRUE, !.phase = "new",
                                !.cb = IF callback THEN "pending" ELSE "disabled"]
  <2>2. o \in Runs /\ o[1] = a
    <3>1. \E c \in Copies : run[<<a, c>>] = Blank
      BY Zenon, <2>1, FiniteAssumption DEF Spawn, Inv, Unborn
    <3>2. \E p \in Runs : p[1] = a /\ run[p] = Blank
      BY <3>1
    <3> QED BY <3>2 DEF FreeCopy
  <2>3. r \in Run /\ r.phase = "new"
    <3>1. Blank \in Run /\ session \in Sessions /\ gen \in 0..MaxSwitches
          /\ (IF callback THEN "pending" ELSE "disabled") \in {"pending", "disabled"}
      BY BlankRun DEF Inv, Types
    <3> QED BY ZenonT(60), <3>1 DEF Run
  <2>4. /\ runOf' = [runOf EXCEPT ![a] = o] /\ run' = [run EXCEPT ![o] = r]
        /\ known' = [known EXCEPT ![a] = "born"] /\ UNCHANGED <<switchVars, disk, outbox>>
    BY Zenon, <2>1 DEF Spawn
  <2> HIDE DEF o, r
  <2>5. Types'
    BY <2>2, <2>3, <2>4 DEF Inv, Types, switchVars
  <2>6. Unborn'
    BY <2>2, <2>3, <2>4 DEF Inv, Types, Unborn, switchVars
  <2>7. Occupied' \subseteq Occupied
    BY <2>2, <2>3, <2>4 DEF Inv, Types, Occupied
  <2> QED BY <2>5, <2>6, <2>7, SlotsKept DEF Inv, TypeOK
<1>2. CASE \E o \in Runs : SpawnReturns(o)
  <2>1. PICK o \in Runs : SpawnReturns(o)
    BY <1>2
  <2> DEFINE r == [run[o] EXCEPT !.start = TRUE, !.spawning = FALSE]
  <2>0. run[o] \in Run
    BY DEF Inv, Types
  <2>2. r \in Run /\ r.phase = run[o].phase
    BY Zenon, <2>0 DEF Run
  <2>b. run[o] # Blank
    BY Zenon, <2>1, SpawningRun DEF SpawnReturns
  <2>3. Set(o, r) /\ disk' = Persisted([run EXCEPT ![o] = r]) /\ UNCHANGED <<switchVars, outbox>>
    BY Zenon, <2>1 DEF SpawnReturns
  <2>4. /\ known' \in [Agents -> {"unborn", "born", "returned"}]
        /\ \A a \in Agents : known'[a] = "unborn" => known[a] = "unborn"
    BY Zenon, <2>1 DEF SpawnReturns, Inv, Types
  <2> HIDE DEF r
  <2>5. Saved([Runs -> Run])
    BY Zenon, <2>2, <2>3 DEF Saved, Inv, Types
  <2> QED BY Zenon, <2>2, <2>3, <2>4, <2>5, <2>b, SetKept DEF Inv, Types
<1>3. CASE \E o \in Runs : SpawnFails(o)
  <2>1. PICK o \in Runs : SpawnFails(o)
    BY <1>3
  <2> DEFINE c == [Cancelled(run[o]) EXCEPT !.detached = TRUE, !.spawning = FALSE]
             r == Woken(c, "caller")
             rr == [run EXCEPT ![o] = r]
             map == IF runOf[o[1]] = o THEN [runOf EXCEPT ![o[1]] = None] ELSE runOf
  <2>2. run[o] \in Run /\ run[o] # Blank
    BY Zenon, <2>1, SpawningRun DEF SpawnFails, Inv, Types
  <2>3. c \in Run /\ c.phase = run[o].phase
    BY ZenonT(60), <2>2 DEF Cancelled, Live, Run
  <2> HIDE DEF c
  <2>4. r \in Run /\ r.phase = run[o].phase
    BY <2>3 DEF Woken, Done, Run
  <2>5. runOf' = map /\ run' = Swept(rr, map) /\ UNCHANGED <<switchVars, disk, outbox, known>>
    BY Zenon, <2>1 DEF SpawnFails, c
  <2>6. map \in [Agents -> Runs \union {None}] /\ \A a \in Agents : map[a] \in {runOf[a], None}
    BY DEF Inv, Types
  <2> HIDE DEF r, map
  <2>7. rr \in [Runs -> Run] /\ rr[o] = r /\ \A p \in Runs : p # o => rr[p] = run[p]
    BY <2>4 DEF Inv, Types
  <2> HIDE DEF rr
  <2>8. run' \in [Runs -> Run] /\ \A p \in Runs : run'[p] \in {rr[p], Blank}
    BY Zenon, <2>5, <2>7, SweptRuns
  <2>9. Types'
    BY <2>5, <2>6, <2>8 DEF Inv, Types, switchVars
  <2>10. Unborn'
    BY <2>2, <2>5, <2>6, <2>7, <2>8 DEF Inv, Unborn, switchVars
  <2>11. Occupied' \subseteq Occupied
    BY <2>4, <2>7, <2>8 DEF Occupied, Blank
  <2> QED BY <2>9, <2>10, <2>11, SlotsKept DEF Inv, TypeOK
<1> QED BY <1>1, <1>2, <1>3

\* Cancelling a run, and waking its waiters, keep its type and its place.
LEMMA RunForms ==
  ASSUME NEW r \in Run, NEW by \in {"run", "caller", "waiter", "input", "switch", "restore", "close"}
  PROVE  /\ Woken(r, by) \in Run /\ Woken(r, by).phase = r.phase
         /\ Woken(r, by).cb = r.cb /\ Woken(r, by).epoch = r.epoch
         /\ Cancelled(r) \in Run /\ Cancelled(r).phase = r.phase
<1>1. [r EXCEPT !.woken = by] \in Run
  BY DEF Run
<1>2. \A hit \in BOOLEAN : [r EXCEPT !.start = TRUE, !.hit = hit] \in Run
  BY Zenon DEF Run
<1>3. Woken(r, by) \in Run /\ Cancelled(r) \in Run
  BY Zenon, <1>1, <1>2 DEF Woken, Cancelled, Live
<1>4. Woken(r, by).phase = r.phase /\ Woken(r, by).cb = r.cb /\ Woken(r, by).epoch = r.epoch
  BY DEF Woken, Run
<1>5. Cancelled(r).phase = r.phase
  BY DEF Cancelled, Run
<1> QED BY <1>3, <1>4, <1>5

\* A run of which one control field changes is a run in the same place.
LEMMA ControlForms ==
  ASSUME NEW r \in Run,
         NEW ctl \in {"free", "cancelling", "finalizing", "interrupting", "queueing"}
  PROVE  /\ [r EXCEPT !.ctl = ctl] \in Run /\ [r EXCEPT !.ctl = ctl].phase = r.phase
         /\ [r EXCEPT !.ctl = ctl, !.status = "stopped"] \in Run
         /\ [r EXCEPT !.ctl = ctl, !.status = "stopped"].phase = r.phase
         /\ [r EXCEPT !.ctl = ctl, !.start = TRUE] \in Run
         /\ [r EXCEPT !.ctl = ctl, !.start = TRUE].phase = r.phase
         /\ [r EXCEPT !.phase = "new"] \in Run /\ [r EXCEPT !.phase = "new"].phase = "new"
         /\ [r EXCEPT !.status = "stopped"] \in Run
         /\ [r EXCEPT !.status = "stopped"].phase = r.phase
<1>1. [r EXCEPT !.ctl = ctl] \in Run /\ [r EXCEPT !.ctl = ctl].phase = r.phase
  BY DEF Run
<1>c. \A c \in Run : [c EXCEPT !.status = "stopped"] \in Run
  BY DEF Run
<1>d. \A c \in Run : [c EXCEPT !.start = TRUE] \in Run
  BY ZenonT(60) DEF Run
<1>2. [[r EXCEPT !.ctl = ctl] EXCEPT !.status = "stopped"] \in Run
  BY Zenon, <1>1, <1>c
<1>3. [[r EXCEPT !.ctl = ctl] EXCEPT !.start = TRUE] \in Run
  BY Zenon, <1>1, <1>d
<1>6. /\ [r EXCEPT !.ctl = ctl, !.status = "stopped"].phase = r.phase
      /\ [r EXCEPT !.ctl = ctl, !.start = TRUE].phase = r.phase
  BY DEF Run
<1>4. [r EXCEPT !.phase = "new"] \in Run /\ [r EXCEPT !.phase = "new"].phase = "new"
  BY DEF Run
<1>5. [r EXCEPT !.status = "stopped"] \in Run /\ [r EXCEPT !.status = "stopped"].phase = r.phase
  BY DEF Run
<1> QED BY <1>1, <1>2, <1>3, <1>4, <1>5, <1>6

LEMMA BusyRun ==
  ASSUME NEW o \in Runs, run[o].phase # "none" \/ run[o].ctl # "free"
  PROVE  run[o] # Blank
BY DEF Blank

LEMMA ControlSteps ==
  ASSUME Inv, Cardinality(Occupied) <= MaxConcurrency, NEW o \in Runs,
         \/ Fence(o) \/ CancelAgent(o) \/ CallerCancelled(o) \/ CancelDone(o)
         \/ CancelFinalized(o) \/ Interrupt(o) \/ InterruptVoid(o)
  PROVE  Inv' /\ TypeOK'
<1>0. run[o] \in Run /\ run \in [Runs -> Run] /\ Current(o) \in BOOLEAN
      /\ outbox \subseteq Agents \X (0..MaxEpoch)
      /\ known \in [Agents -> {"unborn", "born", "returned"}]
  BY DEF Inv, Types, Current
<1>b. run[o] # Blank
  <2>1. CASE Fence(o)
    BY <2>1, BusyRun DEF Fence
  <2>2. CASE CancelAgent(o) \/ Interrupt(o)
    BY <2>2, CurrentRun DEF CancelAgent, Interrupt, Controllable
  <2>3. CASE CallerCancelled(o) \/ CancelDone(o) \/ CancelFinalized(o) \/ InterruptVoid(o)
    <3>1. run[o].ctl # "free"
      BY <2>3 DEF CallerCancelled, CancelDone, CancelFinalized, InterruptVoid
    <3> QED BY <3>1, BusyRun
  <2> QED BY <2>1, <2>2, <2>3
<1>g. ASSUME NEW r \in Run, r.phase = run[o].phase, Set(o, r),
             UNCHANGED <<switchVars, disk, outbox, known>>
      PROVE  Inv' /\ TypeOK'
  <2>1. Saved([Runs -> Run])
    BY <1>g DEF Saved
  <2> QED BY Zenon, <1>0, <1>b, <1>g, <2>1, SetKept
<1>1. CASE Fence(o)
  <2> DEFINE r == Woken(run[o], "waiter")
  <2>1. r \in Run /\ r.phase = run[o].phase
    BY <1>0, RunForms
  <2>2. Set(o, r) /\ UNCHANGED <<switchVars, disk, outbox, known>>
    BY <1>1 DEF Fence
  <2> HIDE DEF r
  <2> QED BY <1>g, <2>1, <2>2
<1>2. CASE CancelAgent(o) \/ CallerCancelled(o) \/ Interrupt(o)
  <2> DEFINE c == Cancelled(run[o])
  <2>1. c \in Run /\ c.phase = run[o].phase
    BY <1>0, RunForms
  <2> HIDE DEF c
  <2>2. \A ctl \in {"cancelling", "interrupting"} :
          [c EXCEPT !.ctl = ctl] \in Run /\ [c EXCEPT !.ctl = ctl].phase = run[o].phase
    <3> TAKE ctl \in {"cancelling", "interrupting"}
    <3>1. ctl \in {"free", "cancelling", "finalizing", "interrupting", "queueing"}
      OBVIOUS
    <3> QED BY ZenonT(60), <2>1, <3>1, ControlForms
  <2>3. /\ Set(o, c) \/ \E ctl \in {"cancelling", "interrupting"} : Set(o, [c EXCEPT !.ctl = ctl])
        /\ UNCHANGED <<switchVars, disk, outbox, known>>
    BY <1>2 DEF CancelAgent, CallerCancelled, Interrupt, c
  <2> QED BY Zenon, <1>g, <2>1, <2>2, <2>3
<1>3. CASE CancelDone(o) \/ InterruptVoid(o)
  <2>1. \A ctl \in {"free", "finalizing"} :
          /\ [run[o] EXCEPT !.ctl = ctl] \in Run /\ [run[o] EXCEPT !.ctl = ctl].phase = run[o].phase
          /\ [run[o] EXCEPT !.ctl = ctl, !.status = "stopped"] \in Run
          /\ [run[o] EXCEPT !.ctl = ctl, !.status = "stopped"].phase = run[o].phase
    BY ZenonT(60), <1>0, ControlForms
  <2>2. /\ \/ Set(o, [run[o] EXCEPT !.ctl = "free"])
           \/ Set(o, [run[o] EXCEPT !.ctl = "finalizing", !.status = "stopped"])
        /\ UNCHANGED <<switchVars, disk, outbox, known>>
    BY <1>3 DEF CancelDone, InterruptVoid
  <2> QED BY Zenon, <1>g, <2>1, <2>2
<1>4. CASE CancelFinalized(o)
  <2> DEFINE r == [run[o] EXCEPT !.ctl = "free"]
  <2>1. r \in Run /\ r.phase = run[o].phase
    BY Zenon, <1>0, ControlForms
  <2>2. Settled(o, r) /\ UNCHANGED <<switchVars, known>>
    BY <1>4 DEF CancelFinalized
  <2>3. PICK delivered \in BOOLEAN : disk' = PersistedIf(delivered /\ Current(o), run)
    BY <1>4 DEF CancelFinalized
  <2>4. Saved([Runs -> Run])
    BY <1>0, <2>3, SavedForms
  <2> HIDE DEF r
  <2> QED BY Zenon, <1>b, <2>1, <2>2, <2>4, SettledStep
<1> QED BY <1>1, <1>2, <1>3, <1>4

LEMMA InputSteps ==
  ASSUME Inv, Cardinality(Occupied) <= MaxConcurrency, NEW o \in Runs,
         (\E again \in BOOLEAN : SendInput(o, again)) \/ Queued(o) \/ QueueFails(o)
  PROVE  Inv' /\ TypeOK'
<1>0. run[o] \in Run /\ run \in [Runs -> Run] /\ Current(o) \in BOOLEAN
      /\ outbox \subseteq Agents \X (0..MaxEpoch)
      /\ known \in [Agents -> {"unborn", "born", "returned"}]
  BY DEF Inv, Types, Current
<1>b. run[o] # Blank
  <2>1. CASE \E again \in BOOLEAN : SendInput(o, again)
    BY Zenon, <2>1, CurrentRun DEF SendInput
  <2>2. CASE Queued(o) \/ QueueFails(o)
    BY SMTT(60), <2>2, BusyRun DEF Queued, QueueFails
  <2> QED BY <2>1, <2>2
<1> DEFINE r == [run[o] EXCEPT !.ctl = "free", !.start = TRUE]
<1>r. r \in Run /\ r.phase = run[o].phase
  BY Zenon, <1>0, ControlForms
<1> DEFINE w == Woken(r, "input")
<1>w. w \in Run /\ w.phase = run[o].phase
  BY Zenon, <1>r, RunForms
<1>1. CASE \E again \in BOOLEAN : SendInput(o, again)
  <2>1. PICK again \in BOOLEAN : SendInput(o, again)
    BY <1>1
  <2> DEFINE renewed == run[o].cb # "disabled" /\ ~again
             epoch == IF renewed THEN run[o].epoch + 1 ELSE run[o].epoch
             cb == IF renewed THEN "pending" ELSE run[o].cb
             q == [run[o] EXCEPT !.ctl = "queueing", !.woken = "no", !.told = 0, !.status = "queued",
                                 !.start = FALSE, !.epoch = epoch, !.cb = cb]
  <2>2. renewed => run[o].epoch < MaxEpoch
    BY Zenon, <2>1 DEF SendInput
  <2>3. epoch \in 0..MaxEpoch /\ cb \in {"disabled", "pending", "injected", "delivered"}
    BY <1>0, <2>2, LimitsAssumption DEF Run
  <2>4. Set(o, q) /\ UNCHANGED <<switchVars, disk, outbox, known>>
    BY ZenonT(60), <2>1 DEF SendInput
  <2> HIDE DEF epoch, cb
  <2> DEFINE q0 == [run[o] EXCEPT !.ctl = "queueing"]
             q1 == [q0 EXCEPT !.woken = "no"]
             q2 == [q1 EXCEPT !.told = 0, !.status = "queued"]
             q3 == [q2 EXCEPT !.start = FALSE, !.epoch = epoch]
  <2>0. q0 \in Run /\ q0.phase = run[o].phase
    BY Zenon, <1>0, ControlForms
  <2> HIDE DEF q0
  <2>a. q1 \in Run /\ q1.phase = run[o].phase
    BY <2>0 DEF Run
  <2> HIDE DEF q1
  <2>b. q2 \in Run /\ q2.phase = run[o].phase
    BY Zenon, <2>a DEF Run
  <2> HIDE DEF q2
  <2>c. q3 \in Run /\ q3.phase = run[o].phase
    BY Zenon, <2>b, <2>3 DEF Run
  <2> HIDE DEF q3
  <2>d. [q3 EXCEPT !.cb = cb] \in Run /\ [q3 EXCEPT !.cb = cb].phase = run[o].phase
    BY <2>c, <2>3 DEF Run
  <2>5. q \in Run /\ q.phase = run[o].phase
    BY <2>d DEF q0, q1, q2, q3
  <2> HIDE DEF q
  <2>6. Saved([Runs -> Run])
    BY <2>4 DEF Saved
  <2> QED BY Zenon, <1>0, <1>b, <2>4, <2>5, <2>6, SetKept
<1>2. CASE Queued(o)
  <2>1. [r EXCEPT !.phase = "new"] \in Run /\ [r EXCEPT !.phase = "new"].phase = "new"
    BY Zenon, <1>r, ControlForms
  <2>2. /\ Set(o, [r EXCEPT !.phase = "new"]) \/ Set(o, w)
        /\ UNCHANGED <<switchVars, outbox, known>>
    BY <1>2 DEF Queued
  <2>3. Saved([Runs -> Run])
    BY <1>0, <1>2, SavedForms DEF Queued
  <2> HIDE DEF r, w
  <2> QED BY Zenon, <1>0, <1>b, <1>w, <2>1, <2>2, <2>3, SetKept
<1>3. CASE QueueFails(o)
  <2> DEFINE q == IF w.detached THEN w ELSE [w EXCEPT !.status = "stopped"]
             rr == [run EXCEPT ![o] = q]
  <2>s. [w EXCEPT !.status = "stopped"] \in Run /\ [w EXCEPT !.status = "stopped"].phase = w.phase
    BY Zenon, <1>w, ControlForms
  <2> HIDE DEF w
  <2>1. q \in Run /\ q.phase = run[o].phase
    <3>1. CASE w.detached
      BY <1>w, <3>1
    <3>2. CASE ~w.detached
      BY <1>w, <2>s, <3>2
    <3> QED BY <3>1, <3>2
  <2>2. rr[o] = q /\ rr \in [Runs -> Run]
    BY <1>0, <2>1
  <2>3. Set(o, rr[o]) /\ disk' = Persisted(rr) /\ UNCHANGED <<switchVars, outbox, known>>
    BY <1>3 DEF QueueFails, w
  <2> HIDE DEF q, rr
  <2>4. Saved([Runs -> Run])
    BY <2>2, <2>3 DEF Saved
  <2> QED BY Zenon, <1>0, <1>b, <2>1, <2>2, <2>3, <2>4, SetKept
<1> QED BY <1>1, <1>2, <1>3

\* The dispatcher marks a run, or drops a completion.
LEMMA DispatchStep ==
  ASSUME Inv, Cardinality(Occupied) <= MaxConcurrency, NEW d \in outbox, Dispatch(d)
  PROVE  Inv' /\ TypeOK'
<1>0. /\ run \in [Runs -> Run] /\ d[1] \in Agents
      /\ outbox' \subseteq Agents \X (0..MaxEpoch) /\ UNCHANGED <<switchVars, known>>
      /\ known \in [Agents -> {"unborn", "born", "returned"}]
  BY DEF Inv, Types, Dispatch
<1> DEFINE o == runOf[d[1]]
<1>1. ASSUME NEW from \in {"pending", "injected"}, NEW to \in {"injected", "delivered"},
             o # None, run[o].cb = from, Set(o, [run[o] EXCEPT !.cb = to]),
             disk' = Persisted([run EXCEPT ![o].cb = to])
      PROVE  Inv' /\ TypeOK'
  <2> DEFINE r == [run[o] EXCEPT !.cb = to]
  <2>1. o \in Runs /\ run[o] \in Run
    BY <1>0, <1>1 DEF Inv, Types
  <2>2. r \in Run /\ r.phase = run[o].phase
    BY <2>1 DEF Run
  <2>3. run[o] # Blank
    BY <1>1 DEF Blank
  <2>4. [run EXCEPT ![o].cb = to] = [run EXCEPT ![o] = r]
    OBVIOUS
  <2> HIDE DEF r
  <2>5. Saved([Runs -> Run])
    BY Zenon, <1>0, <1>1, <2>2, <2>4 DEF Saved
  <2>6. Set(o, r)
    BY <1>1 DEF r
  <2> HIDE DEF o
  <2> QED BY Zenon, <1>0, <2>1, <2>2, <2>3, <2>5, <2>6, SetKept
<1>2. CASE UNCHANGED <<run, runOf, disk>>
  <2>1. Inv' /\ Occupied' = Occupied
    BY <1>0, <1>2 DEF Inv, Types, Unborn, Occupied, switchVars
  <2> QED BY <2>1 DEF TypeOK, Inv
<1> QED BY <1>1, <1>2 DEF Dispatch
-----------------------------------------------------------------------------
(* Session switches.                                                       *)

\* The runs that are disowned stay where they are; the others stay as they are.
LEMMA AbandonedRuns ==
  ASSUME Inv
  PROVE  /\ Abandoned(run) \in [Runs -> Run]
         /\ \A o \in Runs : /\ Abandoned(run)[o].phase = run[o].phase
                            /\ runOf[o[1]] # o => Abandoned(run)[o] = run[o]
<1> SUFFICES ASSUME NEW o \in Runs
             PROVE  /\ Abandoned(run)[o] \in Run /\ Abandoned(run)[o].phase = run[o].phase
                    /\ runOf[o[1]] # o => Abandoned(run)[o] = run[o]
  BY Zenon DEF Abandoned
<1> DEFINE w == Woken(Cancelled(run[o]), "switch")
           t == Live(run[o])
           n == IF w.status \in Terminal THEN w.status ELSE "stopped"
           w1 == [w EXCEPT !.detached = TRUE]
           w2 == [w1 EXCEPT !.tracked = t]
           w3 == [w2 EXCEPT !.status = n]
<1>1. run[o] \in Run /\ Cancelled(run[o]) \in Run /\ Cancelled(run[o]).phase = run[o].phase
  BY RunForms DEF Inv, Types
<1>2. w \in Run /\ w.phase = run[o].phase
  BY <1>1, RunForms
<1>3. t \in BOOLEAN /\ n \in {"queued", "running"} \union Terminal
  BY DEF Live
<1> HIDE DEF t
<1>4. Abandoned(run)[o] = IF runOf[o[1]] # o \/ Done(run[o]) THEN run[o] ELSE w3
  BY DEF Abandoned, t, Inv, Types
<1> HIDE DEF w, n
<1>5. w1 \in Run /\ w1.phase = run[o].phase
  BY Zenon, <1>2 DEF Run
<1> HIDE DEF w1
<1>6. w2 \in Run /\ w2.phase = run[o].phase
  BY <1>3, <1>5 DEF Run
<1> HIDE DEF w2
<1>7. w3 \in Run /\ w3.phase = run[o].phase
  BY <1>3, <1>6 DEF Run
<1> HIDE DEF w3
<1> QED BY <1>1, <1>4, <1>7

\* So it is with the runs that are dropped.
LEMMA DroppedRuns ==
  ASSUME Inv, NEW rr \in [Runs -> Run]
  PROVE  /\ Dropped(rr) \in [Runs -> Run]
         /\ \A o \in Runs : /\ Dropped(rr)[o].phase = rr[o].phase
                            /\ runOf[o[1]] # o => Dropped(rr)[o] = rr[o]
<1> SUFFICES ASSUME NEW o \in Runs
             PROVE  /\ Dropped(rr)[o] \in Run /\ Dropped(rr)[o].phase = rr[o].phase
                    /\ runOf[o[1]] # o => Dropped(rr)[o] = rr[o]
  BY Zenon DEF Dropped
<1> DEFINE w == Woken(rr[o], "switch")
           c == Cancelled(w)
           c1 == [c EXCEPT !.detached = TRUE]
           c2 == [c1 EXCEPT !.tracked = TRUE]
           c3 == [c2 EXCEPT !.cb = "disabled"]
<1>1. w \in Run /\ w.phase = rr[o].phase
  BY RunForms
<1> HIDE DEF w
<1>2. c \in Run /\ c.phase = rr[o].phase
  BY <1>1, RunForms
<1>4. Dropped(rr)[o] = IF runOf[o[1]] # o THEN rr[o] ELSE IF Live(rr[o]) THEN c3 ELSE w
  BY DEF Dropped, w
<1> HIDE DEF c
<1>5. c1 \in Run /\ c1.phase = rr[o].phase
  BY Zenon, <1>2 DEF Run
<1> HIDE DEF c1
<1>6. c2 \in Run /\ c2.phase = rr[o].phase
  BY Zenon, <1>5 DEF Run
<1> HIDE DEF c2
<1>7. c3 \in Run /\ c3.phase = rr[o].phase
  BY <1>6 DEF Run
<1> HIDE DEF c3
<1> QED BY <1>1, <1>4, <1>7

\* Snapshots become runs that do not execute.
LEMMA RestoredRuns ==
  ASSUME Inv, NEW s \in Sessions, NEW g \in 0..MaxSwitches, NEW snaps \in [Agents -> Snap],
         NEW rr \in [Runs -> Run], Restored(s, g, snaps, rr)
  PROVE  /\ runOf' \in [Agents -> Runs \union {None}]
         /\ \A a \in Agents : runOf'[a] # None => runOf'[a][1] = a
         /\ run' \in [Runs -> Run]
         /\ disk' \in [Sessions -> [Agents -> Snap]]
         /\ outbox' \subseteq Agents \X (0..MaxEpoch)
         /\ \A o \in Runs : run'[o].phase \in Executing => rr[o].phase \in Executing
         /\ \A a \in Agents :
              known[a] = "unborn" /\ snaps[a] = NoSnap =>
                /\ runOf'[a] = None
                /\ \A c \in Copies : rr[<<a, c>>] = Blank => run'[<<a, c>>] = Blank
                /\ \A t \in Sessions : disk'[t][a] = NoSnap
<1> DEFINE map == [a \in Agents |-> IF snaps[a] = NoSnap THEN None ELSE FreeCopy(a, rr)]
           written == [a \in Agents |-> Ended(snaps[a])]
           new(o) == [Blank EXCEPT !.ses = s, !.gen = g, !.woken = "restore", !.cb = snaps[o[1]].cb,
                                   !.status = written[o[1]].status, !.epoch = snaps[o[1]].epoch]
<1>1. /\ \A a \in Agents : \E o \in Runs : o[1] = a /\ rr[o] = Blank
      /\ runOf' = map
      /\ run' = [o \in Runs |-> IF map[o[1]] # o THEN rr[o] ELSE new(o)]
      /\ disk' = disk \/ disk' = [disk EXCEPT ![s] = written]
      /\ outbox' \subseteq Agents \X (0..MaxEpoch)
  BY Zenon DEF Restored
<1>2. \A a \in Agents : FreeCopy(a, rr) \in Runs /\ FreeCopy(a, rr)[1] = a
  <2> TAKE a \in Agents
  <2>1. \E o \in Runs : o[1] = a /\ rr[o] = Blank
    BY Zenon, <1>1
  <2> QED BY <2>1 DEF FreeCopy
<1>3. /\ map \in [Agents -> Runs \union {None}]
      /\ \A a \in Agents : /\ map[a] # None => map[a][1] = a /\ snaps[a] # NoSnap
                           /\ snaps[a] = NoSnap => map[a] = None
  BY <1>2
<1>4. \A a \in Agents : Ended(snaps[a]) \in Snap /\ (snaps[a] = NoSnap => Ended(snaps[a]) = NoSnap)
  <2> SUFFICES ASSUME NEW a \in Agents
               PROVE  Ended(snaps[a]) \in Snap /\ (snaps[a] = NoSnap => Ended(snaps[a]) = NoSnap)
    OBVIOUS
  <2>1. snaps[a] \in Snap
    OBVIOUS
  <2>2. CASE snaps[a] = NoSnap
    BY <2>1, <2>2 DEF Ended, NoSnap
  <2>3. CASE snaps[a] # NoSnap
    <3>1. [snaps[a] EXCEPT !.status = "stopped"] \in Snap
      BY <2>1, <2>3 DEF Snap
    <3> QED BY <2>1, <2>3, <3>1 DEF Ended
  <2> QED BY <2>2, <2>3
<1>5. written \in [Agents -> Snap] /\ \A a \in Agents : snaps[a] = NoSnap => written[a] = NoSnap
  BY <1>4
<1>6. disk' \in [Sessions -> [Agents -> Snap]]
      /\ \A a \in Agents : known[a] = "unborn" /\ snaps[a] = NoSnap =>
           \A t \in Sessions : disk'[t][a] = NoSnap
  <2> HIDE DEF map, written, new
  <2>0. disk \in [Sessions -> [Agents -> Snap]]
        /\ \A a \in Agents : known[a] = "unborn" => \A t \in Sessions : disk[t][a] = NoSnap
    BY DEF Inv, Types, Unborn
  <2>1. CASE disk' = disk
    BY <2>0, <2>1
  <2>2. CASE disk' = [disk EXCEPT ![s] = written]
    BY <1>5, <2>0, <2>2
  <2> QED BY <1>1, <2>1, <2>2
<1>7. \A o \in Runs : map[o[1]] = o => new(o) \in Run /\ new(o).phase = "none"
  <2> SUFFICES ASSUME NEW o \in Runs, map[o[1]] = o
               PROVE  new(o) \in Run /\ new(o).phase = "none"
    BY Zenon
  <2> DEFINE n == snaps[o[1]]
             m == written[o[1]].status
             b1 == [Blank EXCEPT !.ses = s, !.gen = g]
             b2 == [b1 EXCEPT !.woken = "restore", !.cb = n.cb]
             b3 == [b2 EXCEPT !.status = m]
             b4 == [b3 EXCEPT !.epoch = n.epoch]
  <2>1. n \in Snap /\ n # NoSnap
    BY <1>3, NoneAssumption
  <2>2. /\ n.cb \in {"disabled", "pending", "injected", "delivered"} /\ n.epoch \in 0..MaxEpoch
        /\ n.status \in {"queued", "running"} \union Terminal
    BY <2>1 DEF Snap
  <2>3. m \in {"queued", "running"} \union Terminal
    BY <2>1, <2>2 DEF Ended, Snap
  <2>4. new(o) = b4
    OBVIOUS
  <2> HIDE DEF n, m, new
  <2>5. b1 \in Run /\ b1.phase = "none"
    BY ZenonT(60), BlankRun DEF Run, Blank
  <2> HIDE DEF b1
  <2>6. b2 \in Run /\ b2.phase = "none"
    BY ZenonT(60), <2>2, <2>5 DEF Run
  <2> HIDE DEF b2
  <2>7. b3 \in Run /\ b3.phase = "none"
    BY <2>3, <2>6 DEF Run
  <2> HIDE DEF b3
  <2>8. b4 \in Run /\ b4.phase = "none"
    BY <2>2, <2>7 DEF Run
  <2> HIDE DEF b4
  <2> QED BY <2>4, <2>8
<1> HIDE DEF map, written, new
<1>8. run' \in [Runs -> Run]
  BY <1>1, <1>7
<1>9. \A o \in Runs : run'[o].phase \in Executing => rr[o].phase \in Executing
  BY <1>1, <1>7
<1>10. \A a \in Agents : snaps[a] = NoSnap =>
         /\ runOf'[a] = None
         /\ \A c \in Copies : run'[<<a, c>>] = rr[<<a, c>>]
  BY <1>1, <1>3, NoneAssumption
<1>11. \A a \in Agents :
         known[a] = "unborn" /\ snaps[a] = NoSnap =>
           /\ runOf'[a] = None
           /\ \A c \in Copies : rr[<<a, c>>] = Blank => run'[<<a, c>>] = Blank
           /\ \A t \in Sessions : disk'[t][a] = NoSnap
  BY <1>6, <1>10
<1>12. /\ runOf' \in [Agents -> Runs \union {None}]
       /\ \A a \in Agents : runOf'[a] # None => runOf'[a][1] = a
  BY <1>1, <1>3
<1>13. outbox' \subseteq Agents \X (0..MaxEpoch)
  BY <1>1
<1> QED BY <1>6, <1>8, <1>9, <1>11, <1>12, <1>13

\* The runs that are abandoned, dropped and swept, as a new session leaves them.
LEMMA LeftRuns ==
  ASSUME Inv, NEW rr \in [Runs -> Run],
         \A o \in Runs : /\ rr[o].phase = run[o].phase
                         /\ runOf[o[1]] # o => rr[o] = run[o]
  PROVE  /\ Swept(Dropped(rr), Nobody) \in [Runs -> Run]
         /\ \A o \in Runs : Swept(Dropped(rr), Nobody)[o].phase \in Executing => run[o].phase \in Executing
         /\ \A a \in Agents : known[a] = "unborn" =>
              \A c \in Copies : Swept(Dropped(rr), Nobody)[<<a, c>>] = Blank
<1>1. /\ Dropped(rr) \in [Runs -> Run]
      /\ \A o \in Runs : /\ Dropped(rr)[o].phase = run[o].phase
                         /\ runOf[o[1]] # o => Dropped(rr)[o] = run[o]
  <2>1. /\ Dropped(rr) \in [Runs -> Run]
        /\ \A o \in Runs : /\ Dropped(rr)[o].phase = rr[o].phase
                           /\ runOf[o[1]] # o => Dropped(rr)[o] = rr[o]
    BY Zenon, DroppedRuns
  <2> QED BY <2>1
<1>2. /\ Swept(Dropped(rr), Nobody) \in [Runs -> Run]
      /\ \A o \in Runs : Swept(Dropped(rr), Nobody)[o] \in {Dropped(rr)[o], Blank}
  BY Zenon, <1>1, SweptRuns
<1>3. \A o \in Runs : Swept(Dropped(rr), Nobody)[o].phase \in Executing => run[o].phase \in Executing
  BY <1>1, <1>2 DEF Blank
<1>4. \A a \in Agents : known[a] = "unborn" =>
        \A c \in Copies : Dropped(rr)[<<a, c>>] = Blank
  BY <1>1, NoneAssumption DEF Inv, Unborn
<1> QED BY <1>2, <1>3, <1>4

LEMMA SwitchSteps ==
  ASSUME Inv, Cardinality(Occupied) <= MaxConcurrency,
         \/ ResumeEnds
         \/ \E s \in Sessions : NewSession(s) \/ ResumeBegin(s) \/ Restart(s)
  PROVE  Inv' /\ TypeOK'
<1>0. /\ Abandoned(run) \in [Runs -> Run]
      /\ \A o \in Runs : /\ Abandoned(run)[o].phase = run[o].phase
                         /\ runOf[o[1]] # o => Abandoned(run)[o] = run[o]
  BY AbandonedRuns
<1>d. AbandonedDisk \in {disk, Persisted(Abandoned(run))}
  BY DEF AbandonedDisk, PersistedIf
<1>1. CASE \E s \in Sessions : NewSession(s)
  <2>1. PICK s \in Sessions : NewSession(s)
    BY <1>1
  <2>2. /\ runOf' = Nobody /\ run' = Swept(Dropped(Abandoned(run)), Nobody)
        /\ session' = s /\ storage' = s /\ gen' = gen + 1 /\ outbox' = {}
        /\ UNCHANGED <<life, resuming, loaded, known>> /\ gen < MaxSwitches
    BY <2>1 DEF NewSession, MaySwitch
  <2>3. Saved([Runs -> Run])
    BY <1>0, <1>d, <2>1 DEF NewSession, Saved
  <2>4. /\ run' \in [Runs -> Run]
        /\ \A o \in Runs : run'[o].phase \in Executing => run[o].phase \in Executing
        /\ \A a \in Agents : known[a] = "unborn" => \A c \in Copies : run'[<<a, c>>] = Blank
    BY Zenon, <1>0, <2>2, LeftRuns
  <2>5. gen' \in 0..MaxSwitches
    BY <2>2, LimitsAssumption DEF Inv, Types
  <2>6. Types'
    BY <2>2, <2>3, <2>4, <2>5, SavedDisk DEF Inv, Types, Nobody
  <2>7. Unborn'
    BY <2>2, <2>3, <2>4, SavedDisk DEF Inv, Unborn, Nobody
  <2>8. Occupied' \subseteq Occupied
    BY <2>4 DEF Occupied
  <2> QED BY <2>6, <2>7, <2>8, SlotsKept DEF Inv, TypeOK
<1>2. CASE \E s \in Sessions : ResumeBegin(s)
  <2>1. PICK s \in Sessions : ResumeBegin(s)
    BY <1>2
  <2>2. /\ loaded' = disk[s] /\ resuming' = s /\ run' = Abandoned(run)
        /\ session' = s /\ gen' = gen + 1 /\ outbox' = {}
        /\ UNCHANGED <<storage, life, runOf, known>> /\ gen < MaxSwitches
    BY <2>1 DEF ResumeBegin, MaySwitch
  <2>3. Saved([Runs -> Run])
    BY <1>0, <1>d, <2>1 DEF ResumeBegin, Saved
  <2>4. gen' \in 0..MaxSwitches
    BY <2>2, LimitsAssumption DEF Inv, Types
  <2>5. \A a \in Agents : known[a] = "unborn" => \A c \in Copies : run'[<<a, c>>] = Blank
    BY <1>0, <2>2, NoneAssumption DEF Inv, Unborn
  <2>6. Types'
    BY <1>0, <2>2, <2>3, <2>4, SavedDisk DEF Inv, Types
  <2>7. Unborn'
    BY <2>2, <2>3, <2>5, SavedDisk DEF Inv, Unborn
  <2>8. Occupied' \subseteq Occupied
    BY <1>0, <2>2 DEF Occupied
  <2> QED BY <2>6, <2>7, <2>8, SlotsKept DEF Inv, TypeOK
<1>g. ASSUME NEW s \in Sessions, NEW g \in 0..MaxSwitches, NEW snaps \in [Agents -> Snap],
             NEW rr \in [Runs -> Run], Restored(s, g, snaps, rr),
             \A a \in Agents : known[a] = "unborn" =>
               snaps[a] = NoSnap /\ \A c \in Copies : rr[<<a, c>>] = Blank,
             \A o \in Runs : rr[o].phase \in Executing => run[o].phase \in Executing,
             session' = s, storage' = s, gen' = g, resuming' = None, loaded' = Nothing,
             life' \in {life, "open"}, UNCHANGED known
      PROVE  Inv' /\ TypeOK'
  <2>1. /\ runOf' \in [Agents -> Runs \union {None}]
        /\ \A a \in Agents : runOf'[a] # None => runOf'[a][1] = a
        /\ run' \in [Runs -> Run]
        /\ disk' \in [Sessions -> [Agents -> Snap]]
        /\ outbox' \subseteq Agents \X (0..MaxEpoch)
        /\ \A o \in Runs : run'[o].phase \in Executing => rr[o].phase \in Executing
        /\ \A a \in Agents :
             known[a] = "unborn" /\ snaps[a] = NoSnap =>
               /\ runOf'[a] = None
               /\ \A c \in Copies : rr[<<a, c>>] = Blank => run'[<<a, c>>] = Blank
               /\ \A t \in Sessions : disk'[t][a] = NoSnap
    BY ZenonT(60), <1>g, RestoredRuns
  <2>2. Nothing \in [Agents -> Snap] /\ \A a \in Agents : Nothing[a] = NoSnap
    BY NoSnapSnap DEF Nothing
  <2>3. Types'
    BY <1>g, <2>1, <2>2 DEF Inv, Types
  <2>4. Unborn'
    BY <1>g, <2>1, <2>2 DEF Unborn
  <2>5. Occupied' \subseteq Occupied
    BY <1>g, <2>1 DEF Occupied
  <2> QED BY <2>3, <2>4, <2>5, SlotsKept DEF Inv, TypeOK
<1>3. CASE ResumeEnds
  <2> DEFINE rr == Swept(Dropped(run), Nobody)
  <2>1. /\ rr \in [Runs -> Run]
        /\ \A o \in Runs : rr[o].phase \in Executing => run[o].phase \in Executing
        /\ \A a \in Agents : known[a] = "unborn" => \A c \in Copies : rr[<<a, c>>] = Blank
    BY Zenon, LeftRuns DEF Inv, Types
  <2>2. /\ Restored(session, gen, loaded, rr)
        /\ storage' = session /\ resuming' = None /\ loaded' = Nothing
        /\ UNCHANGED <<session, gen, life, known>>
    BY <1>3 DEF ResumeEnds
  <2>3. /\ session \in Sessions /\ gen \in 0..MaxSwitches /\ loaded \in [Agents -> Snap]
        /\ \A a \in Agents : known[a] = "unborn" => loaded[a] = NoSnap
    BY DEF Inv, Types, Unborn
  <2> HIDE DEF rr
  <2> QED BY <1>g, <2>1, <2>2, <2>3
<1>4. CASE \E s \in Sessions : Restart(s)
  <2>1. PICK s \in Sessions : Restart(s)
    BY <1>4
  <2> DEFINE rr == [o \in Runs |-> Blank]
  <2>2. /\ rr \in [Runs -> Run]
        /\ \A o \in Runs : rr[o].phase \in Executing => run[o].phase \in Executing
        /\ \A a \in Agents : \A c \in Copies : rr[<<a, c>>] = Blank
    BY BlankRun DEF Blank
  <2>3. /\ Restored(s, gen + 1, disk[s], rr) /\ gen < MaxSwitches
        /\ session' = s /\ storage' = s /\ gen' = gen + 1
        /\ life' = "open" /\ resuming' = None /\ loaded' = Nothing
        /\ UNCHANGED known
    BY <2>1 DEF Restart, MaySwitch
  <2>4. /\ gen + 1 \in 0..MaxSwitches /\ disk[s] \in [Agents -> Snap]
        /\ \A a \in Agents : known[a] = "unborn" => disk[s][a] = NoSnap
    BY <2>3, LimitsAssumption DEF Inv, Types, Unborn
  <2> HIDE DEF rr
  <2> QED BY <1>g, <2>2, <2>3, <2>4
<1> QED BY <1>1, <1>2, <1>3, <1>4
-----------------------------------------------------------------------------
(* Close.                                                                  *)

LEMMA CloseSteps ==
  ASSUME Inv, Cardinality(Occupied) <= MaxConcurrency,
         Close \/ CloseManager \/ CloseMarks \/ CloseDone
  PROVE  Inv' /\ TypeOK'
<1>g. ASSUME UNCHANGED <<session, storage, gen, runOf, known>>, Saved([Runs -> Run]),
             run' \in [Runs -> Run],
             \A o \in Runs : /\ run'[o].phase = run[o].phase
                             /\ run[o] = Blank /\ runOf[o[1]] # o => run'[o] = Blank,
             life' \in {"leaving", "closing", "draining", "closed"},
             \/ resuming' = None /\ loaded' = Nothing
             \/ UNCHANGED <<resuming, loaded>>,
             outbox' \subseteq Agents \X (0..MaxEpoch)
      PROVE  Inv' /\ TypeOK'
  <2>1. Nothing \in [Agents -> Snap] /\ \A a \in Agents : Nothing[a] = NoSnap
    BY NoSnapSnap DEF Nothing
  <2>2. Types'
    BY <1>g, <2>1, SavedDisk DEF Inv, Types
  <2>3. Unborn'
    BY <1>g, <2>1, SavedDisk, NoneAssumption DEF Inv, Unborn
  <2>4. Occupied' \subseteq Occupied
    BY <1>g DEF Occupied
  <2> QED BY <2>2, <2>3, <2>4, SlotsKept DEF Inv, TypeOK
<1>0. run \in [Runs -> Run] /\ outbox \subseteq Agents \X (0..MaxEpoch)
  BY DEF Inv, Types
<1>1. CASE Close \/ CloseManager
  <2>1. Saved([Runs -> Run]) /\ UNCHANGED run
    BY <1>1 DEF Close, CloseManager, Saved
  <2> QED BY <1>0, <1>1, <1>g, <2>1 DEF Close, CloseManager
<1>2. CASE CloseMarks
  <2>1. ASSUME NEW o \in Runs
        PROVE  /\ run'[o] \in Run /\ run'[o].phase = run[o].phase
               /\ run[o] = Blank /\ runOf[o[1]] # o => run'[o] = Blank
    <3> DEFINE r == run[o]
               c == Cancelled(r)
               c1 == [c EXCEPT !.detached = TRUE]
               w == Woken(r, "close")
               b == r.hit \/ (r.tracked /\ Live(r))
    <3>1. r \in Run
      BY <1>0
    <3>2. run'[o] \in {[c1 EXCEPT !.tracked = TRUE], w, [r EXCEPT !.hit = b]}
          /\ (runOf[o[1]] # o => run'[o] = [r EXCEPT !.hit = b])
      BY Zenon, <1>2 DEF CloseMarks
    <3>3. c \in Run /\ c.phase = r.phase /\ w \in Run /\ w.phase = r.phase
      BY <3>1, RunForms
    <3>4. b \in BOOLEAN
      BY <3>1 DEF Run, Live
    <3>4b. Blank.hit = FALSE /\ Blank.tracked = FALSE
      BY Zenon DEF Blank
    <3>5. r = Blank => b = FALSE
      BY <3>4b
    <3> HIDE DEF c, b, w, r
    <3>6. c1 \in Run /\ c1.phase = r.phase
      BY Zenon, <3>3 DEF Run
    <3> HIDE DEF c1
    <3>7. [c1 EXCEPT !.tracked = TRUE] \in Run /\ [c1 EXCEPT !.tracked = TRUE].phase = r.phase
      BY Zenon, <3>6 DEF Run
    <3>8. [r EXCEPT !.hit = b] \in Run /\ [r EXCEPT !.hit = b].phase = r.phase
      BY <3>1, <3>4 DEF Run
    <3>9. [Blank EXCEPT !.hit = FALSE] = Blank
      BY <3>4b, BlankRun DEF Run
    <3> QED BY Zenon, <3>2, <3>3, <3>5, <3>7, <3>8, <3>9 DEF r
  <2>2. /\ UNCHANGED <<session, storage, gen, resuming, loaded, runOf, disk, outbox, known>>
        /\ life' = "draining" /\ run' = [o \in Runs |-> run'[o]]
    BY Zenon, <1>2 DEF CloseMarks
  <2>3. run' \in [Runs -> Run]
    BY <2>1, <2>2
  <2>4. Saved([Runs -> Run])
    BY <2>2 DEF Saved
  <2> QED BY <1>0, <1>g, <2>1, <2>2, <2>3, <2>4
<1>3. CASE CloseDone
  <2>1. ASSUME NEW o \in Runs
        PROVE  /\ run'[o] \in Run /\ run'[o].phase = run[o].phase
               /\ run[o] = Blank /\ runOf[o[1]] # o => run'[o] = Blank
    <3> DEFINE r == run[o]
               w == Woken(r, "close")
               n == IF r.tracked THEN "stopped" ELSE w.status
    <3>1. r \in Run /\ w \in Run /\ w.phase = r.phase
      BY <1>0, RunForms
    <3>2. run'[o] = IF runOf[o[1]] # o \/ Done(r) THEN r ELSE [w EXCEPT !.status = n]
      BY <1>3 DEF CloseDone
    <3>3. n \in {"stopped", w.status}
      OBVIOUS
    <3> HIDE DEF w, n, r
    <3>4. n \in {"queued", "running"} \union Terminal
      BY <3>1, <3>3 DEF Run
    <3>5. [w EXCEPT !.status = n] \in Run /\ [w EXCEPT !.status = n].phase = r.phase
      BY <3>1, <3>4 DEF Run
    <3> QED BY <3>1, <3>2, <3>5 DEF r
  <2>2. /\ UNCHANGED <<session, storage, gen, resuming, loaded, runOf, outbox, known>>
        /\ life' = "closed" /\ run' = [o \in Runs |-> run'[o]] /\ disk' = Persisted(run')
    BY <1>3 DEF CloseDone
  <2>3. run' \in [Runs -> Run]
    BY <2>1, <2>2
  <2>4. Saved([Runs -> Run])
    BY <2>2, <2>3 DEF Saved
  <2> QED BY <1>0, <1>g, <2>1, <2>2, <2>3, <2>4
<1> QED BY <1>1, <1>2, <1>3
-----------------------------------------------------------------------------
LEMMA InitInv == Init => Inv /\ TypeOK
<1> SUFFICES ASSUME Init PROVE Inv /\ TypeOK
  OBVIOUS
<1>1. session \in Sessions
  BY FiniteAssumption DEF Init
<1>2. /\ Nothing \in [Agents -> Snap] /\ \A a \in Agents : Nothing[a] = NoSnap
      /\ [o \in Runs |-> Blank] \in [Runs -> Run]
  BY NoSnapSnap, BlankRun DEF Nothing
<1>3. Types /\ Unborn
  BY <1>1, <1>2, LimitsAssumption DEF Init, Types, Unborn
<1>4. Occupied = {}
  BY DEF Init, Occupied, Blank
<1>5. Cardinality(Occupied) <= MaxConcurrency
  BY <1>4, FS_EmptySet, LimitsAssumption
<1> QED BY <1>3, <1>5 DEF Inv, TypeOK

LEMMA StepInv == Inv /\ TypeOK /\ [Next]_vars => Inv' /\ TypeOK'
<1> SUFFICES ASSUME Inv, TypeOK, [Next]_vars PROVE Inv' /\ TypeOK'
  OBVIOUS
<1>0. Cardinality(Occupied) <= MaxConcurrency
  BY DEF TypeOK
<1>1. CASE UNCHANGED vars
  BY <1>1 DEF vars, Inv, Types, Unborn, TypeOK, Occupied
<1>2. CASE Next
  BY <1>0, <1>2, SpawnSteps, TaskSteps, AcquireStep, ControlSteps, InputSteps, DispatchStep,
     SwitchSteps, CloseSteps DEF Next
<1> QED BY <1>1, <1>2

\* Types, and the limit of the semaphore: however tasks are cancelled, disowned,
\* restored and closed, no more agents execute at a time than max_concurrency
\* (agent_manager.py, _run_agent), for any number of agents and sessions.
THEOREM TypeCorrect == Spec => []TypeOK
<1>1. Init => Inv /\ TypeOK
  BY InitInv
<1>2. Inv /\ TypeOK /\ [Next]_vars => (Inv /\ TypeOK)'
  BY StepInv
<1> QED BY <1>1, <1>2, PTL DEF Spec
-----------------------------------------------------------------------------
(* Waiters are woken.  A run whose event is not set is the one its id      *)
(* names, belongs to the session, and is in somebody's hands: its task     *)
(* lives, or a cancel or an input is under way and will settle it.  Only   *)
(* these two cancel the task of such a run, which may end without a word.  *)

InHand(o, r) ==
  /\ r.hit => Live(r)
  /\ (r.ses # None /\ ~Done(r)) =>
       /\ runOf[o[1]] = o /\ life # "closed"
       /\ life \in {"open", "leaving"} =>
            /\ ~r.detached /\ r.ses = session /\ r.gen = gen
            /\ r.hit => r.ctl \in {"cancelling", "interrupting"}
            /\ Live(r) \/ r.ctl # "free"

WakeInv == \A o \in Runs : InHand(o, run[o])

LEMMA BlankInHand == ASSUME NEW o PROVE InHand(o, Blank)
<1>1. Blank.ses = None
  BY DEF Blank
<1>2. ~Blank.hit
  BY Zenon DEF Blank
<1> QED BY <1>1, <1>2 DEF InHand

\* It suffices that the run that changes is in somebody's hands.
LEMMA SetInHand ==
  ASSUME Inv, WakeInv, NEW o \in Runs, NEW r, Set(o, r), InHand(o, r),
         UNCHANGED switchVars
  PROVE  WakeInv'
<1> DEFINE rr == [run EXCEPT ![o] = r]
<1>1. rr[o] = r /\ \A p \in Runs : p # o => rr[p] = run[p]
  BY DEF Inv, Types
<1>2. run' = Swept(rr, runOf) /\ runOf' = runOf
  BY DEF Set
<1> HIDE DEF rr
<1>3. \A p \in Runs : run'[p] \in {rr[p], Blank}
  BY <1>2 DEF Swept
<1>4. \A p \in Runs : InHand(p, rr[p]) /\ InHand(p, Blank)
  BY <1>1, BlankInHand DEF WakeInv
<1>5. \A p \in Runs : InHand(p, run'[p])
  BY <1>3, <1>4
<1> QED BY <1>2, <1>5 DEF WakeInv, InHand, switchVars

\* A run that is done is in nobody's hands.
LEMMA DoneInHand ==
  ASSUME NEW o \in Runs, NEW r, Done(r), r.hit => Live(r)
  PROVE  InHand(o, r)
BY DEF InHand

\* The same run, owned as it was and its task alive, is in somebody's hands.
Same(r, q) == /\ q.ses = r.ses /\ q.gen = r.gen /\ q.woken = r.woken
              /\ q.detached = r.detached /\ q.ctl = r.ctl

LEMMA LiveInHand ==
  ASSUME NEW o \in Runs, NEW r \in Run, NEW q \in Run, InHand(o, r), Same(r, q),
         Live(q), q.hit => r.hit
  PROVE  InHand(o, q)
BY DEF InHand, Same, Done

\* A task that was alive, and not cancelled, moves to another place.
LEMMA MovedInHand ==
  ASSUME NEW o \in Runs, NEW r \in Run, InHand(o, r), ~r.hit,
         NEW phase \in {"parked", "slot", "starting", "querying", "ending", "handling", "releasing"},
         NEW status \in {"queued", "running"} \union Terminal
  PROVE  /\ InHand(o, [r EXCEPT !.phase = phase])
         /\ InHand(o, [r EXCEPT !.phase = phase, !.status = status])
<1> DEFINE q == [r EXCEPT !.phase = phase]
<1>1. q \in Run /\ q.phase = phase
  BY DEF Run
<1>2. Same(r, q) /\ ~q.hit
  BY DEF Same, Run
<1>3. Live(q)
  BY <1>1 DEF Live
<1>4. InHand(o, q)
  BY Zenon, <1>1, <1>2, <1>3, LiveInHand
<1> HIDE DEF q
<1> DEFINE p == [q EXCEPT !.status = status]
<1>5. p \in Run /\ p.phase = phase
  BY <1>1 DEF Run
<1>6. Same(q, p) /\ ~p.hit
  BY <1>1, <1>2 DEF Same, Run
<1>7. Live(p)
  BY <1>5 DEF Live
<1>8. InHand(o, p)
  BY Zenon, <1>1, <1>4, <1>5, <1>6, <1>7, LiveInHand
<1> QED BY <1>4, <1>8 DEF q

\* An event that is set stays so.
LEMMA WokenDone ==
  ASSUME NEW r \in Run, NEW by \in {"run", "caller", "waiter", "input", "switch", "restore", "close"}
  PROVE  /\ Done(Woken(r, by)) /\ Woken(r, by).hit = r.hit /\ Live(Woken(r, by)) = Live(r)
         /\ Cancelled(r).hit => Live(Cancelled(r))
<1>1. Done(Woken(r, by))
  BY DEF Done, Woken, Run
<1>2. Woken(r, by).hit = r.hit
  BY DEF Done, Woken, Run
<1>3. Live(Woken(r, by)) = Live(r)
  BY RunForms DEF Live
<1>4. Cancelled(r).hit = Live(r)
  BY DEF Cancelled, Run
<1>5. Live(Cancelled(r)) = Live(r)
  BY RunForms DEF Live
<1> QED BY <1>1, <1>2, <1>3, <1>4, <1>5

LEMMA WakeTasks ==
  ASSUME Inv, WakeInv, NEW o \in Runs,
         \/ Begin(o) \/ Enter(o) \/ Acquire(o) \/ Emitted(o) \/ ToolsLoaded(o) \/ QueryEnds(o)
  PROVE  WakeInv'
<1>0. run[o] \in Run /\ InHand(o, run[o])
  BY DEF Inv, Types, WakeInv
<1>1. ASSUME ~run[o].hit, UNCHANGED switchVars,
             \E phase \in {"parked", "slot", "starting", "querying", "ending", "handling", "releasing"} :
               \/ Set(o, [run[o] EXCEPT !.phase = phase])
               \/ \E status \in {"queued", "running"} \union Terminal :
                    Set(o, [run[o] EXCEPT !.phase = phase, !.status = status])
      PROVE  WakeInv'
  <2>1. PICK phase \in {"parked", "slot", "starting", "querying", "ending", "handling", "releasing"} :
               \/ Set(o, [run[o] EXCEPT !.phase = phase])
               \/ \E status \in {"queued", "running"} \union Terminal :
                    Set(o, [run[o] EXCEPT !.phase = phase, !.status = status])
    BY Zenon, <1>1
  <2>2. \A status \in {"queued", "running"} \union Terminal :
          /\ InHand(o, [run[o] EXCEPT !.phase = phase])
          /\ InHand(o, [run[o] EXCEPT !.phase = phase, !.status = status])
    BY Zenon, <1>0, <1>1, MovedInHand
  <2>3. CASE Set(o, [run[o] EXCEPT !.phase = phase])
    BY <1>1, <2>2, <2>3, SetInHand
  <2>4. ASSUME NEW status \in {"queued", "running"} \union Terminal,
               Set(o, [run[o] EXCEPT !.phase = phase, !.status = status])
        PROVE  WakeInv'
    <3> DEFINE r == [run[o] EXCEPT !.phase = phase, !.status = status]
    <3>1. Set(o, r) /\ InHand(o, r)
      BY Zenon, <2>2, <2>4
    <3> HIDE DEF r
    <3> QED BY <1>1, <3>1, SetInHand
  <2> QED BY <2>1, <2>3, <2>4
<1>2. CASE Begin(o)
  BY <1>1, <1>2 DEF Begin, Ready, Goto
<1>3. CASE Enter(o)
  <2>1. CASE Done(run[o])
    <3> DEFINE r == [run[o] EXCEPT !.phase = "over"]
    <3>1. Set(o, r) /\ UNCHANGED switchVars /\ ~run[o].hit
      BY <1>3, <2>1 DEF Enter, Ready, Goto
    <3>2. Done(r) /\ ~r.hit
      BY <1>0, <2>1, <3>1 DEF Done, Run
    <3> QED BY Zenon, <3>1, <3>2, DoneInHand, SetInHand
  <2>2. CASE ~Done(run[o])
    BY <1>1, <1>3, <2>2 DEF Enter, Ready, Goto
  <2> QED BY <2>1, <2>2
<1>4. CASE Acquire(o)
  BY <1>1, <1>4 DEF Acquire, Ready
<1>5. CASE Emitted(o)
  BY <1>1, <1>5 DEF Emitted, Ready
<1>6. CASE ToolsLoaded(o)
  BY <1>6 DEF ToolsLoaded, WakeInv, InHand, switchVars
<1>7. CASE QueryEnds(o)
  <2>1. PICK end \in {<<"completed", "ending">>, <<"failed", "ending">>, <<"failed", "handling">>} :
          Set(o, [run[o] EXCEPT !.status = end[1], !.phase = end[2]])
    BY Zenon, <1>7 DEF QueryEnds
  <2>2. end[1] \in {"completed", "failed"} /\ end[2] \in {"ending", "handling"}
    BY <2>1
  <2>3. \E phase \in {"ending", "handling"}, status \in {"completed", "failed"} :
          Set(o, [run[o] EXCEPT !.phase = phase, !.status = status])
    <3>1. [run[o] EXCEPT !.status = end[1], !.phase = end[2]]
            = [run[o] EXCEPT !.phase = end[2], !.status = end[1]]
      BY Zenon, <1>0 DEF Run
    <3> QED BY Zenon, <2>1, <2>2, <3>1
  <2> QED BY Zenon, <1>1, <1>7, <2>3 DEF QueryEnds, Ready
<1> QED BY <1>2, <1>3, <1>4, <1>5, <1>6, <1>7

LEMMA SettledInHand ==
  ASSUME Inv, WakeInv, NEW o \in Runs, NEW r \in Run, r.hit => Live(r), Settled(o, r),
         UNCHANGED switchVars
  PROVE  WakeInv'
<1> DEFINE w == Woken(r, "run")
           q(n) == [w EXCEPT !.told = IF n THEN @ + 1 ELSE @]
<1>1. w \in Run /\ Done(w) /\ (w.hit => Live(w))
  BY Zenon, RunForms, WokenDone
<1> HIDE DEF w
<1>2. \A n \in BOOLEAN : Done(q(n)) /\ q(n).hit = w.hit /\ Live(q(n)) = Live(w)
  BY <1>1 DEF Run, Done, Live
<1>3. PICK n \in BOOLEAN : Set(o, q(n))
  BY Zenon DEF Settled, w
<1> HIDE DEF q
<1> QED BY <1>1, <1>2, <1>3, DoneInHand, SetInHand

LEMMA WakeEnds ==
  ASSUME Inv, WakeInv, NEW o \in Runs, Released(o) \/ Finalized(o) \/ Thrown(o)
  PROVE  WakeInv'
<1>0. run[o] \in Run /\ InHand(o, run[o])
  BY DEF Inv, Types, WakeInv
<1> DEFINE over == Over(o)
<1>1. over \in Run /\ ~over.hit /\ over.phase = "over"
  BY ZenonT(60), <1>0 DEF Over, Run
<1>2. UNCHANGED switchVars
  BY DEF Released, Finalized, Thrown
<1>3. CASE Settled(o, over)
  BY <1>1, <1>2, <1>3, SettledInHand
<1>4. CASE Thrown(o) /\ Set(o, over) /\ (run[o].phase # "new" => Done(run[o]))
  <2>1. InHand(o, over)
    <3>1. CASE Done(run[o])
      <4>1. Done(over)
        BY <1>0, <3>1 DEF Over, Done, Run
      <4> QED BY <1>1, <4>1, DoneInHand
    <3>2. CASE ~Done(run[o])
      <4>1. Same(run[o], over)
        BY <1>0 DEF Same, Over, Run
      <4>2. run[o].hit
        BY <1>4 DEF Thrown
      <4>3. life \in {"open", "leaving"} /\ run[o].ses # None => run[o].ctl # "free"
        BY <1>0, <3>2, <4>2 DEF InHand
      <4> HIDE DEF over
      <4> QED BY <1>0, <1>1, <3>2, <4>1, <4>3 DEF InHand, Same, Done
    <3> QED BY <3>1, <3>2
  <2> QED BY <1>2, <1>4, <2>1, SetInHand
<1>5. CASE Thrown(o) /\ \E phase \in {"finalizing", "handling", "releasing"} :
             \/ Set(o, [run[o] EXCEPT !.hit = FALSE, !.phase = phase])
             \/ Set(o, [run[o] EXCEPT !.hit = FALSE, !.phase = phase, !.status = "stopped"])
  <2> DEFINE h == [run[o] EXCEPT !.hit = FALSE]
             q(phase) == [h EXCEPT !.phase = phase]
             s(phase) == [q(phase) EXCEPT !.status = "stopped"]
  <2>1. h \in Run /\ ~h.hit /\ Same(run[o], h)
    BY Zenon, <1>0 DEF Run, Same
  <2> HIDE DEF h
  <2>2. PICK phase \in {"finalizing", "handling", "releasing"} : Set(o, q(phase)) \/ Set(o, s(phase))
    BY Zenon, <1>5 DEF h
  <2>3. q(phase) \in Run /\ ~q(phase).hit /\ Same(run[o], q(phase)) /\ q(phase).phase = phase
    BY <2>1 DEF Run, Same
  <2> HIDE DEF q
  <2>4. s(phase) \in Run /\ ~s(phase).hit /\ Same(run[o], s(phase)) /\ s(phase).phase = phase
    BY <2>3 DEF Run, Same
  <2> HIDE DEF s
  <2>5. Live(q(phase)) /\ Live(s(phase))
    BY <2>3, <2>4 DEF Live
  <2>6. InHand(o, q(phase)) /\ InHand(o, s(phase))
    BY <1>0, <2>3, <2>4, <2>5, LiveInHand
  <2> QED BY <1>2, <2>2, <2>6, SetInHand
<1>6. Thrown(o) =>
        \/ Settled(o, over)
        \/ Set(o, over) /\ (run[o].phase # "new" => Done(run[o]))
        \/ \E phase \in {"finalizing", "handling", "releasing"} :
             \/ Set(o, [run[o] EXCEPT !.hit = FALSE, !.phase = phase])
             \/ Set(o, [run[o] EXCEPT !.hit = FALSE, !.phase = phase, !.status = "stopped"])
  BY DEF Thrown
<1>7. Released(o) \/ Finalized(o) => Settled(o, over)
  BY DEF Released, Finalized
<1> QED BY <1>3, <1>4, <1>5, <1>6, <1>7

LEMMA WakeSpawns ==
  ASSUME Inv, WakeInv,
         \/ \E a \in Agents, callback \in BOOLEAN : Spawn(a, callback)
         \/ \E o \in Runs : SpawnReturns(o) \/ SpawnFails(o)
  PROVE  WakeInv'
<1>1. CASE \E a \in Agents, callback \in BOOLEAN : Spawn(a, callback)
  <2>1. PICK a \in Agents, callback \in BOOLEAN : Spawn(a, callback)
    BY <1>1
  <2> DEFINE o == FreeCopy(a, run)
             cb == IF callback THEN "pending" ELSE "disabled"
             r == [Blank EXCEPT !.ses = session, !.gen = gen, !.spawning = TRUE, !.phase = "new",
                                !.cb = cb]
  <2>2. o \in Runs /\ o[1] = a
    <3>1. \E c \in Copies : run[<<a, c>>] = Blank
      BY Zenon, <2>1, FiniteAssumption DEF Spawn, Inv, Unborn
    <3>2. \E p \in Runs : p[1] = a /\ run[p] = Blank
      BY <3>1
    <3> QED BY <3>2 DEF FreeCopy
  <2>3. /\ runOf' = [runOf EXCEPT ![a] = o] /\ run' = [run EXCEPT ![o] = r]
        /\ UNCHANGED switchVars /\ life \in {"open", "leaving"}
        /\ known[a] = "unborn"
    BY Zenon, <2>1 DEF Spawn
  <2>4. Blank.hit = FALSE /\ Blank.detached = FALSE
    BY Zenon DEF Blank
  <2> HIDE DEF cb
  <2>5. r.hit = FALSE /\ r.detached = FALSE /\ r.ses = session /\ r.gen = gen /\ r.phase = "new"
    BY <2>4, BlankRun DEF Run
  <2>6. Live(r)
    BY <2>5 DEF Live
  <2> HIDE DEF o, r
  <2>7. SUFFICES ASSUME NEW p \in Runs PROVE InHand(p, run[p])'
    BY DEF WakeInv
  <2>8. CASE p = o
    <3>1. run'[p] = r /\ runOf'[p[1]] = p
      BY <2>2, <2>3, <2>8 DEF Inv, Types
    <3> QED BY <2>3, <2>5, <2>6, <3>1 DEF InHand, switchVars
  <2>9. CASE p # o /\ p[1] = a
    <3>1. run'[p] = Blank
      BY <2>2, <2>3, <2>9 DEF Inv, Types, Unborn
    <3>2. Blank.ses = None
      BY DEF Blank
    <3> QED BY <3>1, <3>2, <2>4 DEF InHand
  <2>10. CASE p # o /\ p[1] # a
    <3>1. run'[p] = run[p] /\ runOf'[p[1]] = runOf[p[1]]
      BY <2>2, <2>3, <2>10 DEF Inv, Types
    <3>2. InHand(p, run[p])
      BY DEF WakeInv
    <3> QED BY <2>3, <3>1, <3>2 DEF InHand, switchVars
  <2> QED BY <2>8, <2>9, <2>10
<1>2. CASE \E o \in Runs : SpawnReturns(o)
  <2>1. PICK o \in Runs : SpawnReturns(o)
    BY <1>2
  <2> DEFINE r == [run[o] EXCEPT !.start = TRUE, !.spawning = FALSE]
  <2>2. Set(o, r) /\ UNCHANGED switchVars
    BY Zenon, <2>1 DEF SpawnReturns
  <2>3. run[o] \in Run /\ InHand(o, run[o])
    BY DEF Inv, Types, WakeInv
  <2>4. Same(run[o], r) /\ r.hit = run[o].hit /\ r.phase = run[o].phase
    BY <2>3 DEF Same, Run
  <2> HIDE DEF r
  <2>5. InHand(o, r)
    BY <2>3, <2>4 DEF InHand, Same, Live, Done
  <2> QED BY <2>2, <2>5, SetInHand
<1>3. CASE \E o \in Runs : SpawnFails(o)
  <2>1. PICK o \in Runs : SpawnFails(o)
    BY <1>3
  <2> DEFINE c == Cancelled(run[o])
             d == [c EXCEPT !.detached = TRUE, !.spawning = FALSE]
             r == Woken(d, "caller")
             rr == [run EXCEPT ![o] = r]
             map == IF runOf[o[1]] = o THEN [runOf EXCEPT ![o[1]] = None] ELSE runOf
  <2>2. run[o] \in Run /\ o[1] \in Agents
    BY DEF Inv, Types
  <2>3. c \in Run /\ (c.hit => Live(c))
    BY Zenon, <2>2, RunForms, WokenDone
  <2> HIDE DEF c
  <2>4. d \in Run
    BY Zenon, <2>3 DEF Run
  <2>5. d.hit = c.hit /\ d.phase = c.phase
    BY <2>3 DEF Run
  <2> HIDE DEF d
  <2>6. Done(r) /\ (r.hit => Live(r))
    BY <2>3, <2>4, <2>5, WokenDone DEF Live
  <2>7. runOf' = map /\ run' = Swept(rr, map) /\ UNCHANGED switchVars
    BY Zenon, <2>1 DEF SpawnFails, c, d
  <2>8. rr[o] = r /\ \A p \in Runs : p # o => rr[p] = run[p]
    BY DEF Inv, Types
  <2>9. \A p \in Runs : run'[p] \in {rr[p], Blank}
    BY <2>7 DEF Swept
  <2>10. \A a \in Agents : map[a] = runOf[a] \/ runOf[a] = o
    BY <2>2 DEF Inv, Types
  <2> HIDE DEF rr, map, r
  <2>11. ASSUME NEW p \in Runs, p # o PROVE InHand(p, run[p])'
    <3>1. InHand(p, run[p]) /\ InHand(p, Blank)
      BY BlankInHand DEF WakeInv
    <3>2. run'[p] \in {run[p], Blank} /\ (runOf'[p[1]] = runOf[p[1]] \/ runOf[p[1]] # p)
      BY <2>7, <2>8, <2>9, <2>10, <2>11
    <3>3. Blank.ses = None
      BY DEF Blank
    <3>4. CASE run'[p] = Blank
      BY <3>1, <3>3, <3>4 DEF InHand, Live
    <3>5. CASE run'[p] = run[p]
      BY <2>7, <3>1, <3>2, <3>5 DEF InHand, switchVars, Live, Done
    <3> QED BY <3>2, <3>4, <3>5
  <2>12. InHand(o, run[o])'
    <3>1. run'[o] = r \/ run'[o] = Blank
      BY <2>8, <2>9
    <3>2. InHand(o, r) /\ InHand(o, Blank) /\ Blank.ses = None
      BY Zenon, <2>6, DoneInHand, BlankInHand DEF Blank
    <3>3. CASE run'[o] = r
      BY <2>6, <3>3 DEF InHand
    <3>4. CASE run'[o] = Blank
      BY <3>2, <3>4 DEF InHand
    <3> QED BY <3>1, <3>3, <3>4
  <2> QED BY <2>11, <2>12 DEF WakeInv
<1> QED BY <1>1, <1>2, <1>3

LEMMA WakeControls ==
  ASSUME Inv, WakeInv, NEW o \in Runs,
         \/ Fence(o) \/ CancelAgent(o) \/ CallerCancelled(o) \/ CancelDone(o)
         \/ CancelFinalized(o) \/ Interrupt(o) \/ InterruptVoid(o)
  PROVE  WakeInv'
<1>0. run[o] \in Run /\ InHand(o, run[o])
  BY DEF Inv, Types, WakeInv
<1>1. CASE Fence(o)
  <2> DEFINE r == Woken(run[o], "waiter")
  <2>1. Done(r) /\ r.hit = run[o].hit /\ Live(r) = Live(run[o])
    BY <1>0, WokenDone
  <2>2. Set(o, r) /\ UNCHANGED switchVars
    BY <1>1 DEF Fence
  <2> HIDE DEF r
  <2>3. InHand(o, r)
    BY <1>0, <2>1, DoneInHand DEF InHand
  <2> QED BY <2>2, <2>3, SetInHand
<1>2. CASE CancelAgent(o) \/ Interrupt(o) \/ CallerCancelled(o)
  <2> DEFINE c == Cancelled(run[o])
             r(ctl) == [c EXCEPT !.ctl = ctl]
  <2>1. c \in Run /\ (c.hit => Live(c)) /\ c.phase = run[o].phase
    BY Zenon, <1>0, RunForms, WokenDone
  <2>2. c.ses = run[o].ses /\ c.gen = run[o].gen /\ c.woken = run[o].woken
        /\ c.detached = run[o].detached /\ c.ctl = run[o].ctl
    BY <1>0 DEF Cancelled, Run
  <2> HIDE DEF c
  <2>3. ASSUME NEW ctl \in {"cancelling", "interrupting"} PROVE InHand(o, r(ctl))
    <3>1. r(ctl).hit = c.hit /\ r(ctl).phase = c.phase /\ r(ctl).ctl = ctl
      BY <2>1 DEF Run
    <3>2. r(ctl).ses = run[o].ses /\ r(ctl).gen = run[o].gen /\ r(ctl).woken = run[o].woken
          /\ r(ctl).detached = run[o].detached
      BY <2>1, <2>2 DEF Run
    <3> HIDE DEF r
    <3> QED BY <1>0, <2>1, <3>1, <3>2 DEF InHand, Done, Live
  <2>4. run[o].ctl \in {"cancelling", "interrupting"} => InHand(o, c)
    BY <1>0, <2>1, <2>2 DEF InHand, Done, Live
  <2>5. /\ UNCHANGED switchVars
        /\ \/ \E ctl \in {"cancelling", "interrupting"} : Set(o, r(ctl))
           \/ Set(o, c) /\ run[o].ctl \in {"cancelling", "interrupting"}
    BY <1>2 DEF CancelAgent, Interrupt, CallerCancelled, c
  <2> HIDE DEF r
  <2> QED BY <2>3, <2>4, <2>5, SetInHand
<1>3. CASE CancelDone(o) \/ InterruptVoid(o)
  <2> DEFINE f == [run[o] EXCEPT !.ctl = "free"]
             g == [run[o] EXCEPT !.ctl = "finalizing", !.status = "stopped"]
  <2>1. /\ UNCHANGED switchVars /\ ~Live(run[o])
        /\ \/ Set(o, f) /\ (Done(run[o]) \/ ~Current(o))
           \/ Set(o, g)
    BY <1>3 DEF CancelDone, InterruptVoid
  <2>2. /\ f.ses = run[o].ses /\ f.gen = run[o].gen /\ f.woken = run[o].woken
        /\ f.detached = run[o].detached /\ f.phase = run[o].phase /\ f.hit = run[o].hit
    BY <1>0 DEF Run
  <2>3. /\ g.ses = run[o].ses /\ g.gen = run[o].gen /\ g.woken = run[o].woken
        /\ g.detached = run[o].detached /\ g.phase = run[o].phase /\ g.hit = run[o].hit
        /\ g.ctl = "finalizing"
    BY <1>0 DEF Run
  <2> HIDE DEF f, g
  <2>4. InHand(o, g)
    BY <1>0, <2>1, <2>3 DEF InHand, Done, Live
  <2>5. Done(run[o]) \/ ~Current(o) => InHand(o, f)
    BY <1>0, <2>1, <2>2 DEF InHand, Done, Live, Current
  <2> QED BY <2>1, <2>4, <2>5, SetInHand
<1>4. CASE CancelFinalized(o)
  <2> DEFINE f == [run[o] EXCEPT !.ctl = "free"]
  <2>0. f \in Run
    BY Zenon, <1>0, ControlForms
  <2>1. f.hit = run[o].hit /\ f.phase = run[o].phase
    BY <1>0 DEF Run
  <2>2. Settled(o, f) /\ UNCHANGED switchVars
    BY <1>4 DEF CancelFinalized
  <2> HIDE DEF f
  <2>3. f.hit => Live(f)
    BY <1>0, <2>1 DEF InHand, Live
  <2> QED BY SMTT(60), <2>0, <2>1, <2>2, <2>3, SettledInHand
<1> QED BY <1>1, <1>2, <1>3, <1>4

LEMMA WakeInputs ==
  ASSUME Inv, WakeInv, NEW o \in Runs,
         (\E again \in BOOLEAN : SendInput(o, again)) \/ Queued(o) \/ QueueFails(o)
  PROVE  WakeInv'
<1>0. run[o] \in Run /\ InHand(o, run[o])
  BY DEF Inv, Types, WakeInv
<1>1. CASE \E again \in BOOLEAN : SendInput(o, again)
  <2>1. PICK again \in BOOLEAN : SendInput(o, again)
    BY <1>1
  <2> DEFINE renewed == run[o].cb # "disabled" /\ ~again
             epoch == IF renewed THEN run[o].epoch + 1 ELSE run[o].epoch
             cb == IF renewed THEN "pending" ELSE run[o].cb
             q == [run[o] EXCEPT !.ctl = "queueing", !.woken = "no", !.told = 0, !.status = "queued",
                                 !.start = FALSE, !.epoch = epoch, !.cb = cb]
  <2>2. Set(o, q) /\ UNCHANGED switchVars /\ Current(o) /\ ~Live(run[o])
    BY Zenon, <2>1 DEF SendInput
  <2> HIDE DEF epoch, cb
  <2>3. /\ q.ses = run[o].ses /\ q.gen = run[o].gen /\ q.detached = run[o].detached
        /\ q.phase = run[o].phase /\ q.hit = run[o].hit /\ q.ctl = "queueing"
    BY <1>0 DEF Run
  <2> HIDE DEF q
  <2>4. InHand(o, q)
    BY <1>0, <2>2, <2>3 DEF InHand, Current, Live
  <2> QED BY <2>2, <2>4, SetInHand
<1>2. CASE Queued(o)
  <2> DEFINE r == [run[o] EXCEPT !.ctl = "free", !.start = TRUE]
             n == [r EXCEPT !.phase = "new"]
             w == Woken(r, "input")
  <2>1. /\ UNCHANGED switchVars /\ run[o].ctl = "queueing"
        /\ (Set(o, n) /\ Current(o)) \/ Set(o, w)
    BY SMTT(60), <1>2 DEF Queued
  <2>2. r \in Run
    BY Zenon, <1>0, ControlForms
  <2>3. /\ r.ses = run[o].ses /\ r.gen = run[o].gen /\ r.woken = run[o].woken
        /\ r.detached = run[o].detached /\ r.phase = run[o].phase /\ r.hit = run[o].hit
    BY <1>0 DEF Run
  <2> HIDE DEF r
  <2>4. /\ n.ses = r.ses /\ n.gen = r.gen /\ n.woken = r.woken
        /\ n.detached = r.detached /\ n.phase = "new" /\ n.hit = r.hit
    BY <2>2 DEF Run
  <2>5. InHand(o, w)
    <3>1. Done(w) /\ w.hit = r.hit /\ Live(w) = Live(r)
      BY <2>2, WokenDone
    <3> HIDE DEF w
    <3>2. r.hit => Live(r)
      BY <1>0, <2>3 DEF InHand, Live
    <3> QED BY <3>1, <3>2, DoneInHand
  <2> HIDE DEF n, w
  <2>6. Current(o) => InHand(o, n)
    BY <1>0, <2>1, <2>3, <2>4 DEF InHand, Current, Live, Done
  <2> QED BY <2>1, <2>5, <2>6, SetInHand
<1>3. CASE QueueFails(o)
  <2> DEFINE r == [run[o] EXCEPT !.ctl = "free", !.start = TRUE]
             w == Woken(r, "input")
             s == [w EXCEPT !.status = "stopped"]
  <2>0. run \in [Runs -> Run]
    BY DEF Inv, Types
  <2>1. UNCHANGED switchVars /\ (Set(o, w) \/ Set(o, s))
    BY <1>3, <2>0 DEF QueueFails
  <2>2. r \in Run
    BY Zenon, <1>0, ControlForms
  <2>3. r.phase = run[o].phase /\ r.hit = run[o].hit
    BY <1>0 DEF Run
  <2> HIDE DEF r
  <2>4. w \in Run /\ Done(w) /\ w.hit = r.hit /\ Live(w) = Live(r)
    BY <2>2, WokenDone, RunForms
  <2> HIDE DEF w
  <2>5. s.woken = w.woken /\ s.hit = w.hit /\ s.phase = w.phase
    BY <2>4 DEF Run
  <2> HIDE DEF s
  <2>6. r.hit => Live(r)
    BY <1>0, <2>3 DEF InHand, Live
  <2>7. InHand(o, w) /\ InHand(o, s)
    BY <2>4, <2>5, <2>6, DoneInHand DEF Done, Live
  <2> QED BY <2>1, <2>7, SetInHand
<1> QED BY <1>1, <1>2, <1>3

LEMMA WakeDispatch ==
  ASSUME Inv, WakeInv, NEW d \in outbox, Dispatch(d)
  PROVE  WakeInv'
<1> DEFINE o == runOf[d[1]]
<1>0. d[1] \in Agents /\ UNCHANGED switchVars
  BY DEF Inv, Types, Dispatch
<1>1. ASSUME NEW to \in {"injected", "delivered"}, o # None, Set(o, [run[o] EXCEPT !.cb = to])
      PROVE  WakeInv'
  <2> DEFINE r == [run[o] EXCEPT !.cb = to]
  <2>1. o \in Runs /\ run[o] \in Run
    BY <1>0, <1>1 DEF Inv, Types
  <2>2. InHand(o, run[o])
    BY <2>1 DEF WakeInv
  <2>3. Same(run[o], r) /\ r.hit = run[o].hit /\ r.phase = run[o].phase
    BY <2>1 DEF Same, Run
  <2>4. Set(o, r)
    BY <1>1
  <2> HIDE DEF r, o
  <2>5. InHand(o, r)
    BY <2>2, <2>3 DEF InHand, Same, Live, Done
  <2> QED BY <1>0, <2>1, <2>4, <2>5, SetInHand
<1>2. CASE UNCHANGED <<run, runOf>>
  BY <1>0, <1>2 DEF WakeInv, InHand, switchVars, Live, Done
<1> QED BY <1>1, <1>2 DEF Dispatch

\* After a switch every run is done.
LEMMA AllDone ==
  ASSUME \A o \in Runs : (run'[o].hit => Live(run'[o])) /\ (run'[o].ses # None => Done(run'[o]))
  PROVE  WakeInv'
<1> SUFFICES ASSUME NEW o \in Runs PROVE InHand(o, run[o])'
  BY DEF WakeInv
<1> QED BY DEF InHand, Live, Done

\* What abandoning and dropping do to a run whose end is not announced.
LEMMA SwitchDone ==
  ASSUME Inv, WakeInv, NEW o \in Runs
  PROVE  /\ Done(Abandoned(run)[o]) \/ Abandoned(run)[o].ses = None
         /\ Abandoned(run)[o].hit => Live(Abandoned(run)[o])
<1>0. run[o] \in Run /\ InHand(o, run[o])
  BY DEF Inv, Types, WakeInv
<1> DEFINE c == Cancelled(run[o])
           w == Woken(c, "switch")
           t == Live(run[o])
           n == IF w.status \in Terminal THEN w.status ELSE "stopped"
           w1 == [w EXCEPT !.detached = TRUE, !.tracked = t]
           w2 == [w1 EXCEPT !.status = n]
<1>1. Abandoned(run)[o] = IF runOf[o[1]] # o \/ Done(run[o]) THEN run[o] ELSE w2
  BY <1>0 DEF Abandoned
<1>2. c \in Run /\ (c.hit => Live(c))
  BY <1>0, RunForms, WokenDone
<1> HIDE DEF c
<1>3. w \in Run /\ Done(w) /\ (w.hit => Live(w))
  BY Zenon, <1>2, RunForms, WokenDone
<1>4. t \in BOOLEAN
  BY DEF Live
<1> HIDE DEF w, t, n
<1>5. w1 \in Run
  BY Zenon, <1>3, <1>4 DEF Run
<1>6. w1.woken = w.woken /\ w1.hit = w.hit /\ w1.phase = w.phase
  BY <1>3 DEF Run
<1> HIDE DEF w1
<1>7. w2.woken = w1.woken /\ w2.hit = w1.hit /\ w2.phase = w1.phase
  BY <1>5 DEF Run
<1> HIDE DEF w2
<1>8. Done(w2) /\ (w2.hit => Live(w2))
  BY <1>3, <1>6, <1>7 DEF Done, Live
<1> QED BY <1>0, <1>1, <1>8 DEF InHand

LEMMA DropDone ==
  ASSUME NEW o \in Runs, NEW rr \in [Runs -> Run], rr[o].hit => Live(rr[o]),
         runOf[o[1]] # o => Done(rr[o]) \/ rr[o].ses = None
  PROVE  /\ Done(Dropped(rr)[o]) \/ Dropped(rr)[o].ses = None
         /\ Dropped(rr)[o].hit => Live(Dropped(rr)[o])
<1> DEFINE w == Woken(rr[o], "switch")
           c == Cancelled(w)
           c1 == [c EXCEPT !.detached = TRUE, !.tracked = TRUE]
           c2 == [c1 EXCEPT !.cb = "disabled"]
<1>1. Dropped(rr)[o] = IF runOf[o[1]] # o THEN rr[o] ELSE IF Live(rr[o]) THEN c2 ELSE w
  BY DEF Dropped
<1>2. w \in Run /\ Done(w) /\ (w.hit => Live(w))
  BY Zenon, RunForms, WokenDone
<1> HIDE DEF w
<1>3. c \in Run /\ (c.hit => Live(c))
  BY <1>2, RunForms, WokenDone
<1>4. c.woken = w.woken
  BY <1>2 DEF Cancelled, Run
<1> HIDE DEF c
<1>5. c1 \in Run
  BY Zenon, <1>3 DEF Run
<1>6. c1.woken = c.woken /\ c1.hit = c.hit /\ c1.phase = c.phase
  BY <1>3 DEF Run
<1> HIDE DEF c1
<1>7. c2.woken = c1.woken /\ c2.hit = c1.hit /\ c2.phase = c1.phase
  BY <1>5 DEF Run
<1> HIDE DEF c2
<1>8. Done(c2) /\ (c2.hit => Live(c2))
  BY <1>2, <1>3, <1>4, <1>6, <1>7 DEF Done, Live
<1> QED BY <1>1, <1>2, <1>8

\* Nobody waits for the run r.
Quiet(r) == (Done(r) \/ r.ses = None) /\ (r.hit => Live(r))

LEMMA QuietBlank == Quiet(Blank)
<1>1. Blank.ses = None
  BY DEF Blank
<1>2. ~Blank.hit
  BY Zenon DEF Blank
<1> QED BY <1>1, <1>2 DEF Quiet

LEMMA QuietRestored ==
  ASSUME NEW s, NEW g, NEW snaps, NEW rr, Restored(s, g, snaps, rr),
         \A o \in Runs : Quiet(rr[o])
  PROVE  WakeInv'
<1> SUFFICES ASSUME NEW o \in Runs PROVE Quiet(run'[o])
  BY AllDone DEF Quiet
<1> DEFINE map == [a \in Agents |-> IF snaps[a] = NoSnap THEN None ELSE FreeCopy(a, rr)]
           written == [a \in Agents |-> Ended(snaps[a])]
           cb == snaps[o[1]].cb
           status == written[o[1]].status
           epoch == snaps[o[1]].epoch
           new == [Blank EXCEPT !.ses = s, !.gen = g, !.woken = "restore", !.cb = cb,
                                !.status = status, !.epoch = epoch]
<1>1. run'[o] = IF map[o[1]] # o THEN rr[o] ELSE new
  BY Zenon DEF Restored
<1> HIDE DEF map, cb, status, epoch
<1>2. Blank.hit = FALSE
  BY Zenon DEF Blank
<1>3. new.woken = "restore" /\ new.hit = FALSE
  BY <1>2, BlankRun DEF Run
<1> HIDE DEF new
<1>4. Quiet(new)
  BY <1>3 DEF Quiet, Done
<1> QED BY <1>1, <1>4

LEMMA WakeSwitches ==
  ASSUME Inv, WakeInv,
         \/ ResumeEnds
         \/ \E s \in Sessions : NewSession(s) \/ ResumeBegin(s) \/ Restart(s)
  PROVE  WakeInv'
<1>0. /\ Abandoned(run) \in [Runs -> Run]
      /\ \A o \in Runs : Quiet(Abandoned(run)[o])
  BY AbandonedRuns, SwitchDone DEF Quiet
<1>d. ASSUME NEW rr \in [Runs -> Run],
             \A o \in Runs : /\ rr[o].hit => Live(rr[o])
                             /\ runOf[o[1]] # o => Done(rr[o]) \/ rr[o].ses = None
      PROVE  \A o \in Runs : Quiet(Swept(Dropped(rr), Nobody)[o])
  <2>1. \A o \in Runs : Quiet(Dropped(rr)[o])
    BY Zenon, <1>d, DropDone DEF Quiet
  <2>2. \A o \in Runs : Swept(Dropped(rr), Nobody)[o] \in {Dropped(rr)[o], Blank}
    BY DEF Swept
  <2> QED BY <2>1, <2>2, QuietBlank
<1>1. CASE \E s \in Sessions : NewSession(s)
  <2>1. run' = Swept(Dropped(Abandoned(run)), Nobody)
    BY <1>1 DEF NewSession
  <2>2. \A o \in Runs : Quiet(run'[o])
    BY Zenon, <1>0, <1>d, <2>1 DEF Quiet
  <2> QED BY <2>2, AllDone DEF Quiet
<1>2. CASE \E s \in Sessions : ResumeBegin(s)
  <2>1. run' = Abandoned(run)
    BY <1>2 DEF ResumeBegin
  <2>2. \A o \in Runs : Quiet(run'[o])
    BY <1>0, <2>1
  <2> QED BY <2>2, AllDone DEF Quiet
<1>3. CASE ResumeEnds
  <2>1. \A o \in Runs : /\ run[o].hit => Live(run[o])
                        /\ runOf[o[1]] # o => Done(run[o]) \/ run[o].ses = None
    BY DEF WakeInv, InHand
  <2>2. \A o \in Runs : Quiet(Swept(Dropped(run), Nobody)[o])
    BY Zenon, <1>d, <2>1 DEF Inv, Types
  <2>3. Restored(session, gen, loaded, Swept(Dropped(run), Nobody))
    BY <1>3 DEF ResumeEnds
  <2> QED BY <2>2, <2>3, QuietRestored
<1>4. CASE \E s \in Sessions : Restart(s)
  <2>1. PICK s \in Sessions : Restored(s, gen + 1, disk[s], [o \in Runs |-> Blank])
    BY <1>4 DEF Restart
  <2>2. \A o \in Runs : Quiet([p \in Runs |-> Blank][o])
    BY QuietBlank
  <2> QED BY <2>1, <2>2, QuietRestored
<1> QED BY <1>1, <1>2, <1>3, <1>4

LEMMA WakeCloses ==
  ASSUME Inv, WakeInv, Close \/ CloseManager \/ CloseMarks \/ CloseDone
  PROVE  WakeInv'
<1>0. ASSUME NEW o \in Runs PROVE run[o] \in Run /\ InHand(o, run[o])
  BY DEF Inv, Types, WakeInv
<1>1. CASE Close \/ CloseManager
  BY <1>1 DEF Close, CloseManager, WakeInv, InHand, Live, Done
<1>2. CASE CloseMarks
  <2>1. /\ UNCHANGED <<session, gen, runOf>> /\ life' = "draining"
    BY Zenon, <1>2 DEF CloseMarks
  <2>2. SUFFICES ASSUME NEW o \in Runs
                 PROVE  /\ run'[o].hit => Live(run'[o])
                        /\ (run'[o].ses # None /\ ~Done(run'[o])) => runOf[o[1]] = o
    BY <2>1 DEF WakeInv, InHand, Live, Done
  <2> DEFINE r == run[o]
             c == Cancelled(r)
             c1 == [c EXCEPT !.detached = TRUE, !.tracked = TRUE]
             w == Woken(r, "close")
             b == r.hit \/ (r.tracked /\ Live(r))
             h == [r EXCEPT !.hit = b]
  <2>3. /\ run'[o] \in {c1, w, h}
        /\ runOf[o[1]] # o => run'[o] = h
    BY Zenon, <1>2 DEF CloseMarks
  <2>4. r \in Run /\ InHand(o, r)
    BY <1>0
  <2>5. c \in Run /\ (c.hit => Live(c)) /\ Done(w) /\ (w.hit => Live(w))
    BY Zenon, <2>4, RunForms, WokenDone DEF InHand
  <2>6. b \in BOOLEAN /\ (b => Live(r))
    BY <2>4 DEF InHand, Live, Run
  <2> HIDE DEF r, c, w, b
  <2>7. c1.hit = c.hit /\ c1.phase = c.phase
    BY <2>5 DEF Run
  <2>8. h.hit = b /\ h.phase = r.phase /\ h.ses = r.ses /\ h.woken = r.woken
    BY <2>4 DEF Run
  <2> HIDE DEF c1, h
  <2>9. (c1.hit => Live(c1)) /\ (h.hit => Live(h))
    BY <2>5, <2>6, <2>7, <2>8 DEF Live
  <2>10. runOf[o[1]] # o => Done(h) \/ h.ses = None
    BY <2>4, <2>8 DEF InHand, Done
  <2> QED BY <2>3, <2>5, <2>9, <2>10
<1>3. CASE CloseDone
  <2> SUFFICES ASSUME NEW o \in Runs PROVE Quiet(run'[o])
    BY AllDone DEF Quiet
  <2> DEFINE r == run[o]
             w == Woken(r, "close")
             n == IF r.tracked THEN "stopped" ELSE w.status
             s == [w EXCEPT !.status = n]
  <2>1. run'[o] = IF runOf[o[1]] # o \/ Done(r) THEN r ELSE s
    BY <1>3 DEF CloseDone
  <2>2. r \in Run /\ InHand(o, r)
    BY <1>0
  <2>3. w \in Run /\ Done(w) /\ (w.hit => Live(w))
    BY Zenon, <2>2, RunForms, WokenDone DEF InHand
  <2> HIDE DEF r, w, n
  <2>4. s.woken = w.woken /\ s.hit = w.hit /\ s.phase = w.phase
    BY <2>3 DEF Run
  <2> HIDE DEF s
  <2>5. Quiet(s)
    BY <2>3, <2>4 DEF Quiet, Done, Live
  <2>6. runOf[o[1]] # o \/ Done(r) => Quiet(r)
    BY <2>2 DEF Quiet, InHand
  <2> QED BY <2>1, <2>5, <2>6
<1> QED BY <1>1, <1>2, <1>3

LEMMA StepWake == Inv /\ WakeInv /\ [Next]_vars => WakeInv'
<1> SUFFICES ASSUME Inv, WakeInv, [Next]_vars PROVE WakeInv'
  OBVIOUS
<1>1. CASE UNCHANGED vars
  BY <1>1 DEF vars, WakeInv, InHand, Live, Done
<1>2. CASE Next
  BY <1>2, WakeSpawns, WakeTasks, WakeEnds, WakeControls, WakeInputs, WakeDispatch,
     WakeSwitches, WakeCloses DEF Next
<1> QED BY <1>1, <1>2

\* A waiter is not forgotten: when a run's task has ended and nobody controls it
\* any more, its event is set, however its task was cancelled and whatever the
\* session did meanwhile (agent_manager.py: wait_agent waits for done_event).
THEOREM WaitersWake == Spec => []WaitersAreWoken
<1>1. Init => Inv /\ TypeOK /\ WakeInv
  <2>1. Init => WakeInv
    BY BlankInHand DEF Init, WakeInv
  <2> QED BY <2>1, InitInv
<1>2. Inv /\ TypeOK /\ WakeInv /\ [Next]_vars => (Inv /\ TypeOK /\ WakeInv)'
  BY StepInv, StepWake
<1>3. Inv /\ WakeInv => WaitersAreWoken
  BY DEF Inv, Types, WakeInv, InHand, WaitersAreWoken, Held
<1> QED BY <1>1, <1>2, <1>3, PTL DEF Spec
-----------------------------------------------------------------------------
(* Ends are settled, and tasks are fenced.  What is true of a run whatever *)
(* its session does: its completion is announced at most once, and not     *)
(* before its execution is over, with a status that says how it ended; and *)
(* a task that goes on after its run was settled by others is one that a   *)
(* resume or a close waits for, or that of a spawn that failed.            *)

Acts(r) == r.phase \in Executing \union {"slot", "finalizing"}

Sane(r) ==
  /\ Live(r) => r.ses # None
  /\ r.told \in {0, 1}
  /\ r.ctl \in {"finalizing", "queueing"} => ~Live(r)
  /\ Live(r) \/ r.ctl \in {"finalizing", "queueing"} \/ ~Done(r) => r.told = 0 /\ r.woken # "run"
  /\ \/ r.phase \in {"ending", "handling", "releasing", "finalizing"}
     \/ r.ctl = "finalizing" \/ r.woken = "run"
     => r.status \in Terminal
  /\ Acts(r) /\ Done(r) => r.woken = "caller" \/ r.tracked

\* An execution that its own task or canceller settled in the session that owns
\* the run has announced the completion it owed.
Paid(o, r) ==
  /\ r.woken = "run" /\ r.cb = "pending" /\ life = "open"
  /\ ~r.detached /\ runOf[o[1]] = o /\ r.ses = session /\ r.gen = gen
  => r.told = 1

\* What a resume that waits, and a close, have made of the runs there are.
Past(r) ==
  r.ses # None =>
    /\ r.gen <= gen
    /\ resuming # None => Done(r) /\ r.gen < gen
    /\ life = "draining" /\ Live(r) /\ ~Done(r) => r.tracked
    /\ life = "closed" => Done(r) /\ (r.tracked => ~Live(r))

\* The task of the run o is at work, and not unwinding from a failed spawn.
Works(r) == Acts(r) /\ r.woken # "caller"

\* No two tasks of an agent are at work, and none but that of the run the
\* agent's id names, if it names one.
Alone(o, p) ==
  o # p /\ o[1] = p[1] /\ Works(run[o]) => runOf[o[1]] # p /\ ~Works(run[p])

Ruled ==
  /\ \A o \in Runs : Sane(run[o]) /\ Paid(o, run[o]) /\ Past(run[o])
  /\ \A o, p \in Runs : Alone(o, p)
  /\ \A o \in Runs : runOf[o[1]] = o => run[o].ses # None
  /\ resuming # None => life = "open"

LEMMA BlankRuled ==
  /\ Sane(Blank) /\ Past(Blank) /\ ~Works(Blank) /\ Blank.ses = None
  /\ Blank.woken = "no" /\ ~Blank.detached /\ ~Blank.tracked /\ Blank.told = 0
  /\ Blank.ctl = "free" /\ Blank.phase = "none"
<1>1. /\ Blank.ses = None /\ Blank.woken = "no" /\ Blank.told = 0 /\ Blank.ctl = "free"
      /\ Blank.phase = "none"
  BY DEF Blank
<1>2. ~Blank.detached /\ ~Blank.tracked
  BY Zenon DEF Blank
<1>3. ~Live(Blank) /\ ~Done(Blank) /\ ~Acts(Blank)
  BY <1>1 DEF Live, Done, Acts
<1> QED BY <1>1, <1>2, <1>3 DEF Sane, Past, Works

\* What a run may become in a step that changes it alone.
Follows(o, r, q) ==
  /\ q.ses = r.ses /\ q.gen = r.gen
  /\ Sane(q) /\ Past(q)
  /\ Works(q) => Works(r) \/ runOf[o[1]] = o

\* Such a step keeps the rules, also when it takes the run from its agent's id.
LEMMA ChangeRuled ==
  ASSUME Inv, Ruled, NEW o \in Runs, NEW q, Follows(o, run[o], q),
         NEW map, run' = Swept([run EXCEPT ![o] = q], map), runOf' = map,
         (map = runOf /\ Paid(o, q)) \/ (runOf[o[1]] = o /\ map = [runOf EXCEPT ![o[1]] = None]),
         UNCHANGED switchVars
  PROVE  Ruled'
<1> DEFINE rr == [run EXCEPT ![o] = q]
<1>1. rr[o] = q /\ \A p \in Runs : p # o => rr[p] = run[p]
  BY DEF Inv, Types
<1>2. \A p \in Runs : Swept(rr, map)[p] \in {rr[p], Blank} /\ (map[p[1]] = p => Swept(rr, map)[p] = rr[p])
  BY DEF Swept
<1>3. /\ \A p \in Runs : map[p[1]] = runOf[p[1]] \/ map[p[1]] = None
      /\ \A p \in Runs : map[p[1]] = p => runOf[p[1]] = p
      /\ map[o[1]] = o => Paid(o, q)
  <2>1. CASE map = runOf /\ Paid(o, q)
    BY <2>1
  <2>2. CASE runOf[o[1]] = o /\ map = [runOf EXCEPT ![o[1]] = None]
    <3>1. \A p \in Runs : map[p[1]] = IF p[1] = o[1] THEN None ELSE runOf[p[1]]
      BY <2>2 DEF Inv, Types
    <3>2. \A p \in Runs : p # None
      BY NoneAssumption
    <3> QED BY <3>1, <3>2
  <2> QED BY <2>1, <2>2
<1> HIDE DEF rr
<1>4. \A p \in Runs : run'[p] \in {rr[p], Blank} /\ (map[p[1]] = p => run'[p] = rr[p])
  BY <1>2 DEF rr
<1>5. \A p \in Runs : /\ Sane(rr[p]) /\ Past(rr[p])
                      /\ runOf[p[1]] = p => rr[p].ses # None
                      /\ map[p[1]] = p => Paid(p, rr[p])
                      /\ Works(rr[p]) => Works(run[p]) \/ (p = o /\ runOf[o[1]] = o)
  BY <1>1, <1>3 DEF Ruled, Follows
<1>6. \A p \in Runs : Sane(run'[p])
  BY <1>4, <1>5, BlankRuled
<1>7. (\A p \in Runs : Past(run[p]))'
  <2>1. \A p \in Runs : Past(run'[p])
    BY <1>4, <1>5, BlankRuled
  <2> QED BY <2>1 DEF Past, switchVars, Live, Done
<1>8. (\A p \in Runs : Paid(p, run[p]))'
  <2>1. \A p \in Runs : map[p[1]] = p => Paid(p, run'[p])
    BY <1>4, <1>5
  <2> QED BY <1>3, <2>1 DEF Paid, switchVars
<1>9. \A p \in Runs : Works(run'[p]) => Works(run[p]) \/ (p = o /\ runOf[o[1]] = o)
  BY <1>4, <1>5, BlankRuled
<1>10. ASSUME NEW p \in Runs, NEW s \in Runs, p # s, p[1] = s[1], Works(run'[p])
       PROVE  runOf'[p[1]] # s /\ ~Works(run'[s])
  <2>1. Alone(p, s) /\ Alone(s, p)
    BY DEF Ruled
  <2>2. runOf[p[1]] # s /\ ~Works(run[s])
    BY <1>9, <1>10, <2>1 DEF Alone
  <2>3. ~Works(run'[s])
    BY <1>9, <1>10, <2>2
  <2>4. map[p[1]] # s
    BY <1>3, <1>10, <2>2
  <2> QED BY <2>3, <2>4
<1>11. \A p \in Runs : runOf'[p[1]] = p => run'[p].ses # None
  BY <1>3, <1>4, <1>5
<1>12. (\A p \in Runs : Sane(run[p]))'
  BY <1>6 DEF Sane, Acts, Live, Done
<1>13. (\A p, s \in Runs : Alone(p, s))'
  BY ZenonT(60), <1>10 DEF Alone, Works, Acts
<1>14. (resuming # None => life = "open")'
  BY DEF Ruled, switchVars
<1> QED BY <1>7, <1>8, <1>11, <1>12, <1>13, <1>14 DEF Ruled

LEMMA SetRuled ==
  ASSUME Inv, Ruled, NEW o \in Runs, NEW q, Set(o, q), Follows(o, run[o], q), Paid(o, q),
         UNCHANGED switchVars
  PROVE  Ruled'
BY ChangeRuled DEF Set

\* Fields that most steps leave alone.
Kept(r, q) ==
  /\ q.ses = r.ses /\ q.gen = r.gen /\ q.woken = r.woken /\ q.detached = r.detached
  /\ q.tracked = r.tracked /\ q.cb = r.cb /\ q.told = r.told

LEMMA KeptPast ==
  ASSUME NEW o, NEW r, NEW q, Kept(r, q), Past(r), Paid(o, r), Live(q) => Live(r)
  PROVE  Past(q) /\ Paid(o, q)
BY DEF Kept, Past, Paid, Done

\* The task of a run goes on, or ends.
LEMMA MoveRuled ==
  ASSUME Inv, WakeInv, Ruled, NEW o \in Runs, NEW q, Set(o, q), UNCHANGED switchVars,
         Kept(run[o], q), Live(run[o]), q.ctl = run[o].ctl,
         q.phase \in {"parked", "slot", "finalizing", "over"} \union Executing,
         q.phase \in {"ending", "handling", "releasing", "finalizing"} => q.status \in Terminal,
         Acts(q) => Acts(run[o]) \/ ~Done(run[o])
  PROVE  Ruled'
<1>1. /\ Sane(run[o]) /\ Past(run[o]) /\ Paid(o, run[o])
      /\ Live(run[o]) /\ ~Done(run[o]) => runOf[o[1]] = o
  BY DEF Ruled, WakeInv, InHand, Sane
<1>2. Past(q) /\ Paid(o, q)
  BY <1>1, KeptPast
<1>3. Sane(q)
  BY <1>1 DEF Sane, Kept, Acts, Live, Done
<1>4. Works(q) => Works(run[o]) \/ runOf[o[1]] = o
  BY <1>1 DEF Works, Kept
<1>5. Follows(o, run[o], q)
  BY <1>2, <1>3, <1>4 DEF Follows, Kept
<1> QED BY <1>2, <1>5, SetRuled

\* The rules are about the runs, their ids and the session.
LEMMA SameRuled ==
  ASSUME Ruled, UNCHANGED <<switchVars, run, runOf>>
  PROVE  Ruled'
BY DEF Ruled, Sane, Paid, Past, Alone, Works, Acts, Live, Done, switchVars

\* A task moves to another place, or takes another status there.
Moved(r, q, phase, status) ==
  Kept(r, q) /\ q.ctl = r.ctl /\ q.phase = phase /\ q.status = status

LEMMA Moves ==
  ASSUME NEW r \in Run, NEW phase, NEW status
  PROVE  /\ Moved(r, [r EXCEPT !.phase = phase], phase, r.status)
         /\ Moved(r, [r EXCEPT !.phase = phase, !.status = status], phase, status)
         /\ Moved(r, [r EXCEPT !.status = status, !.phase = phase], phase, status)
         /\ Moved(r, [r EXCEPT !.hit = FALSE, !.phase = phase], phase, r.status)
         /\ Moved(r, [r EXCEPT !.hit = FALSE, !.phase = phase, !.status = status], phase, status)
         /\ Moved(r, [r EXCEPT !.phase = phase, !.hit = FALSE], phase, r.status)
<1>1. Moved(r, [r EXCEPT !.phase = phase], phase, r.status)
  BY DEF Moved, Kept, Run
<1>2. Moved(r, [r EXCEPT !.phase = phase, !.status = status], phase, status)
  BY DEF Moved, Kept, Run
<1>3. Moved(r, [r EXCEPT !.status = status, !.phase = phase], phase, status)
  BY DEF Moved, Kept, Run
<1>4. Moved(r, [r EXCEPT !.hit = FALSE, !.phase = phase], phase, r.status)
  BY DEF Moved, Kept, Run
<1>5. Moved(r, [r EXCEPT !.hit = FALSE, !.phase = phase, !.status = status], phase, status)
  BY DEF Moved, Kept, Run
<1>6. Moved(r, [r EXCEPT !.phase = phase, !.hit = FALSE], phase, r.status)
  BY DEF Moved, Kept, Run
<1> QED BY <1>1, <1>2, <1>3, <1>4, <1>5, <1>6

LEMMA RuledTasks ==
  ASSUME Inv, WakeInv, Ruled, NEW o \in Runs,
         \/ Begin(o) \/ Enter(o) \/ Acquire(o) \/ Emitted(o) \/ ToolsLoaded(o) \/ QueryEnds(o)
  PROVE  Ruled'
<1>0. run[o] \in Run /\ Sane(run[o])
  BY DEF Inv, Types, Ruled
<1>g. ASSUME NEW q, NEW phase \in {"parked", "slot", "finalizing", "over"} \union Executing, NEW status,
             Set(o, q), UNCHANGED switchVars, Moved(run[o], q, phase, status), Live(run[o]),
             phase \in {"ending", "handling", "releasing", "finalizing"} => status \in Terminal,
             phase \in Executing \union {"slot", "finalizing"} => Acts(run[o]) \/ ~Done(run[o])
      PROVE  Ruled'
  BY <1>g, MoveRuled DEF Moved, Acts
<1>1. CASE Begin(o)
  <2> DEFINE q == [run[o] EXCEPT !.phase = "parked"]
  <2>1. Set(o, q) /\ UNCHANGED switchVars /\ Live(run[o])
    BY SMTT(60), <1>1 DEF Begin, Ready, Goto, Live
  <2>2. Moved(run[o], q, "parked", run[o].status)
    BY <1>0, Moves
  <2> HIDE DEF q
  <2> QED BY <1>g, <2>1, <2>2
<1>2. CASE Enter(o)
  <2> DEFINE phase == IF Done(run[o]) THEN "over" ELSE "slot"
             q == [run[o] EXCEPT !.phase = phase]
  <2>1. Set(o, q) /\ UNCHANGED switchVars /\ Live(run[o])
    BY SMTT(60), <1>2 DEF Enter, Ready, Goto, Live
  <2>2. Moved(run[o], q, phase, run[o].status)
    BY <1>0, Moves
  <2> HIDE DEF q
  <2> QED BY <1>g, <2>1, <2>2
<1>3. CASE Acquire(o)
  <2> DEFINE q == [run[o] EXCEPT !.phase = "starting", !.status = "running"]
  <2>1. Set(o, q) /\ UNCHANGED switchVars /\ Live(run[o]) /\ Acts(run[o])
    BY SMTT(60), <1>3 DEF Acquire, Ready, Live, Acts
  <2>2. Moved(run[o], q, "starting", "running")
    BY <1>0, Moves
  <2> HIDE DEF q
  <2> QED BY <1>g, <2>1, <2>2
<1>4. CASE Emitted(o)
  <2>1. PICK p \in {<<"starting", "querying">>, <<"ending", "releasing">>, <<"handling", "releasing">>} :
          run[o].phase = p[1] /\ Set(o, [run[o] EXCEPT !.phase = p[2]])
    BY <1>4 DEF Emitted, Ready
  <2> DEFINE q == [run[o] EXCEPT !.phase = p[2]]
  <2>2. UNCHANGED switchVars /\ Live(run[o]) /\ Acts(run[o]) /\ Set(o, q)
    BY SMTT(60), <1>4, <2>1 DEF Emitted, Live, Acts
  <2>3. Moved(run[o], q, p[2], run[o].status)
    BY <1>0, Moves
  <2>4. p[2] = "releasing" => run[o].status \in Terminal
    BY <1>0, <2>1 DEF Sane
  <2> HIDE DEF q
  <2> QED BY <1>g, <2>1, <2>2, <2>3, <2>4
<1>5. CASE QueryEnds(o)
  <2>1. PICK end \in {<<"completed", "ending">>, <<"failed", "ending">>, <<"failed", "handling">>} :
          Ready(o, "querying") /\ Set(o, [run[o] EXCEPT !.status = end[1], !.phase = end[2]])
    BY <1>5 DEF QueryEnds
  <2> DEFINE q == [run[o] EXCEPT !.status = end[1], !.phase = end[2]]
  <2>2. UNCHANGED switchVars /\ Live(run[o]) /\ Acts(run[o]) /\ Set(o, q)
    BY <1>5, <2>1 DEF QueryEnds, Ready, Live, Acts
  <2>3. Moved(run[o], q, end[2], end[1])
    BY <1>0, Moves
  <2> HIDE DEF q
  <2> QED BY <1>g, <2>1, <2>2, <2>3
<1>6. CASE ToolsLoaded(o)
  <2>1. UNCHANGED <<switchVars, run, runOf>>
    BY <1>6 DEF ToolsLoaded
  <2> QED BY <2>1, SameRuled
<1> QED BY <1>1, <1>2, <1>3, <1>4, <1>5, <1>6

\* Who settles a run says how it ended, and pays the parent if he has to.
LEMMA SettledRuled ==
  ASSUME Inv, WakeInv, Ruled, NEW o \in Runs, NEW r \in Run, Settled(o, r),
         UNCHANGED switchVars, Kept(run[o], r), r.status = run[o].status,
         ~Live(r), r.ctl \notin {"finalizing", "queueing"},
         Live(run[o]) \/ run[o].ctl = "finalizing",
         run[o].status \in Terminal
  PROVE  Ruled'
<1> DEFINE owed == Current(o) /\ life = "open" /\ run[o].cb = "pending"
           w == Woken(r, "run")
           told == IF owed THEN w.told + 1 ELSE w.told
           q == [w EXCEPT !.told = told]
<1>0. Sane(run[o]) /\ Past(run[o]) /\ run[o].told = 0 /\ run[o].woken # "run"
  BY DEF Ruled, Sane
<1>1. Set(o, q)
  BY Zenon DEF Settled
<1>2. /\ w \in Run /\ w.ses = r.ses /\ w.gen = r.gen /\ w.detached = r.detached
      /\ w.tracked = r.tracked /\ w.cb = r.cb /\ w.told = r.told
      /\ w.phase = r.phase /\ w.ctl = r.ctl /\ w.status = r.status
  <2>1. w \in Run
    BY RunForms
  <2> QED BY <2>1 DEF Woken, Run
<1>3. w.woken = IF Done(r) THEN r.woken ELSE "run"
  BY DEF Woken, Run
<1> HIDE DEF w, told
<1>4. /\ q.ses = r.ses /\ q.gen = r.gen /\ q.detached = r.detached
      /\ q.tracked = r.tracked /\ q.cb = r.cb
      /\ q.phase = r.phase /\ q.ctl = r.ctl /\ q.status = r.status
  BY <1>2 DEF Run
<1>5. q.woken = (IF Done(r) THEN r.woken ELSE "run") /\ q.told = told
  BY <1>2, <1>3 DEF Run
<1> HIDE DEF q
<1>6. told = IF owed THEN 1 ELSE 0
  BY <1>0, <1>2 DEF told, Kept
<1> HIDE DEF owed
<1>7. Sane(q)
  <2>1. Done(q) /\ ~Live(q) /\ ~Acts(q)
    BY <1>4, <1>5 DEF Done, Live, Acts
  <2> QED BY <1>4, <1>5, <1>6, <2>1 DEF Sane
<1>8. Past(q)
  BY <1>0, <1>4, <1>5 DEF Past, Kept, Done, Live
<1>9. Paid(o, q)
  BY <1>0, <1>4, <1>5, <1>6 DEF Paid, Kept, Current, owed, Done
<1>10. Follows(o, run[o], q)
  BY <1>4, <1>7, <1>8 DEF Follows, Kept, Works, Acts, Live
<1> QED BY <1>1, <1>9, <1>10, SetRuled

LEMMA RuledEnds ==
  ASSUME Inv, WakeInv, Ruled, NEW o \in Runs, Released(o) \/ Finalized(o) \/ Thrown(o)
  PROVE  Ruled'
<1>0. run[o] \in Run /\ Sane(run[o]) /\ InHand(o, run[o])
  BY SMTT(60) DEF Inv, Types, Ruled, WakeInv
<1> DEFINE over == Over(o)
<1>1. Moved(run[o], over, "over", run[o].status)
  BY <1>0, Moves DEF Over
<1>2. over \in Run
  BY ZenonT(60), <1>0 DEF Over, Run
<1>3. UNCHANGED switchVars
  BY DEF Released, Finalized, Thrown
<1> HIDE DEF over
<1>4. CASE Settled(o, over) /\ run[o].phase \in {"releasing", "finalizing"}
  <2>1. Live(run[o]) /\ ~Live(over) /\ run[o].status \in Terminal
    BY <1>0, <1>1, <1>4 DEF Live, Moved, Sane
  <2>2. over.ctl \notin {"finalizing", "queueing"} /\ over.status = run[o].status /\ Kept(run[o], over)
    BY <1>0, <1>1, <2>1 DEF Moved, Sane
  <2> QED BY <1>2, <1>3, <1>4, <2>1, <2>2, SettledRuled
<1>5. CASE Set(o, over) /\ Live(run[o])
  BY <1>1, <1>3, <1>5, MoveRuled DEF Moved, Acts
<1>g. ASSUME NEW q, NEW phase \in {"finalizing", "handling", "releasing"}, NEW status \in Terminal,
             Set(o, q), Moved(run[o], q, phase, status), Live(run[o]),
             Acts(run[o]) \/ ~Done(run[o])
      PROVE  Ruled'
  BY <1>3, <1>g, MoveRuled DEF Moved, Acts
<1>6. CASE /\ Thrown(o) /\ run[o].phase \in {"parked", "slot"} /\ ~Done(run[o])
           /\ Set(o, [run[o] EXCEPT !.hit = FALSE, !.phase = "finalizing", !.status = "stopped"])
  <2> DEFINE q == [run[o] EXCEPT !.hit = FALSE, !.phase = "finalizing", !.status = "stopped"]
  <2>1. Moved(run[o], q, "finalizing", "stopped")
    BY <1>0, Moves
  <2>2. Set(o, q) /\ Live(run[o])
    BY <1>6 DEF Live
  <2> HIDE DEF q
  <2> QED BY <1>6, <1>g, <2>1, <2>2
<1>7. CASE /\ run[o].phase \in {"starting", "querying", "ending"}
           /\ Set(o, [run[o] EXCEPT !.hit = FALSE, !.phase = "handling", !.status = "stopped"])
  <2> DEFINE q == [run[o] EXCEPT !.hit = FALSE, !.phase = "handling", !.status = "stopped"]
  <2>1. Moved(run[o], q, "handling", "stopped")
    BY <1>0, Moves
  <2>2. Set(o, q) /\ Live(run[o]) /\ Acts(run[o])
    BY <1>7 DEF Live, Acts
  <2> HIDE DEF q
  <2> QED BY SMTT(60), <1>g, <2>1, <2>2
<1>8. CASE /\ run[o].phase = "handling"
           /\ Set(o, [run[o] EXCEPT !.hit = FALSE, !.phase = "releasing"])
  <2> DEFINE q == [run[o] EXCEPT !.hit = FALSE, !.phase = "releasing"]
  <2>1. Moved(run[o], q, "releasing", run[o].status) /\ run[o].status \in Terminal
    BY <1>0, <1>8, Moves DEF Sane
  <2>2. Set(o, q) /\ Live(run[o]) /\ Acts(run[o])
    BY <1>8 DEF Live, Acts
  <2> HIDE DEF q
  <2> QED BY SMTT(60), <1>g, <2>1, <2>2
<1>9. Released(o) \/ Finalized(o) => Settled(o, over) /\ run[o].phase \in {"releasing", "finalizing"}
  BY DEF Released, Finalized, Ready, over
<1>10. Thrown(o) =>
         \/ Set(o, over) /\ Live(run[o])
         \/ /\ run[o].phase \in {"parked", "slot"} /\ ~Done(run[o])
            /\ Set(o, [run[o] EXCEPT !.hit = FALSE, !.phase = "finalizing", !.status = "stopped"])
         \/ /\ run[o].phase \in {"starting", "querying", "ending"}
            /\ Set(o, [run[o] EXCEPT !.hit = FALSE, !.phase = "handling", !.status = "stopped"])
         \/ /\ run[o].phase = "handling"
            /\ Set(o, [run[o] EXCEPT !.hit = FALSE, !.phase = "releasing"])
         \/ run[o].phase = "finalizing" /\ Settled(o, over)
  BY <1>0 DEF Thrown, InHand, over
<1> QED BY <1>4, <1>5, <1>6, <1>7, <1>8, <1>9, <1>10

\* Somebody takes control of a run, or leaves it.
LEMMA ControlRuled ==
  ASSUME Inv, Ruled, NEW o \in Runs, NEW q, Set(o, q), UNCHANGED switchVars,
         Kept(run[o], q), q.phase = run[o].phase, q.status = run[o].status,
         q.ctl \in {run[o].ctl, "free", "cancelling", "interrupting"}
  PROVE  Ruled'
<1>1. Sane(run[o]) /\ Past(run[o]) /\ Paid(o, run[o])
  BY DEF Ruled
<1>2. Live(q) = Live(run[o]) /\ Done(q) = Done(run[o]) /\ Acts(q) = Acts(run[o])
  BY DEF Live, Done, Acts, Kept
<1>3. Past(q) /\ Paid(o, q)
  BY <1>1, <1>2, KeptPast
<1>4. Sane(q)
  BY <1>1, <1>2 DEF Sane, Kept
<1>5. Follows(o, run[o], q)
  BY <1>2, <1>3, <1>4 DEF Follows, Kept, Works
<1> QED BY <1>3, <1>5, SetRuled

\* What Woken and Cancelled leave alone.
LEMMA WokenFields ==
  ASSUME NEW r \in Run, NEW by \in {"run", "caller", "waiter", "input", "switch", "restore", "close"}
  PROVE  LET w == Woken(r, by)
         IN /\ w \in Run /\ w.ses = r.ses /\ w.gen = r.gen /\ w.detached = r.detached
            /\ w.tracked = r.tracked /\ w.cb = r.cb /\ w.told = r.told
            /\ w.phase = r.phase /\ w.ctl = r.ctl /\ w.status = r.status
            /\ w.woken = IF Done(r) THEN r.woken ELSE by
<1>1. Woken(r, by) \in Run
  BY RunForms
<1> QED BY <1>1 DEF Woken, Run

LEMMA CancelledFields ==
  ASSUME NEW r \in Run
  PROVE  /\ Cancelled(r) \in Run /\ Kept(r, Cancelled(r))
         /\ Cancelled(r).phase = r.phase /\ Cancelled(r).ctl = r.ctl
         /\ Cancelled(r).status = r.status
<1>1. Cancelled(r) \in Run
  BY RunForms
<1> QED BY <1>1 DEF Cancelled, Kept, Run

LEMMA RuledControls ==
  ASSUME Inv, WakeInv, Ruled, NEW o \in Runs,
         \/ SpawnReturns(o)
         \/ Fence(o) \/ CancelAgent(o) \/ CallerCancelled(o) \/ CancelDone(o)
         \/ CancelFinalized(o) \/ Interrupt(o) \/ InterruptVoid(o)
  PROVE  Ruled'
<1>0. run[o] \in Run /\ Sane(run[o]) /\ Past(run[o])
  BY DEF Inv, Types, Ruled
<1>1. CASE SpawnReturns(o)
  <2> DEFINE q == [run[o] EXCEPT !.start = TRUE, !.spawning = FALSE]
  <2>1. Set(o, q) /\ UNCHANGED switchVars
    BY Zenon, <1>1 DEF SpawnReturns
  <2>2. Kept(run[o], q) /\ q.phase = run[o].phase /\ q.status = run[o].status /\ q.ctl = run[o].ctl
    BY <1>0 DEF Kept, Run
  <2> HIDE DEF q
  <2> QED BY <2>1, <2>2, ControlRuled
<1>2. CASE Fence(o)
  <2> DEFINE q == Woken(run[o], "waiter")
  <2>1. Set(o, q) /\ UNCHANGED switchVars /\ ~Live(run[o]) /\ ~Done(run[o])
    BY <1>2 DEF Fence, Live
  <2>2. /\ q.ses = run[o].ses /\ q.gen = run[o].gen /\ q.tracked = run[o].tracked
        /\ q.told = run[o].told /\ q.phase = run[o].phase /\ q.ctl = run[o].ctl
        /\ q.status = run[o].status /\ q.woken = "waiter"
    BY <1>0, <2>1, WokenFields
  <2> HIDE DEF q
  <2>3. Done(q) /\ ~Live(q) /\ ~Acts(q) /\ ~Acts(run[o])
    BY <2>1, <2>2 DEF Done, Live, Acts
  <2>4. Sane(q) /\ Past(q) /\ Paid(o, q)
    BY <1>0, <2>1, <2>2, <2>3 DEF Sane, Past, Paid
  <2>5. Follows(o, run[o], q)
    BY <2>2, <2>3, <2>4 DEF Follows, Works
  <2> QED BY <2>1, <2>4, <2>5, SetRuled
<1>3. CASE CancelAgent(o) \/ Interrupt(o) \/ CallerCancelled(o)
  <2> DEFINE c == Cancelled(run[o])
             r(ctl) == [c EXCEPT !.ctl = ctl]
  <2>1. c \in Run /\ Kept(run[o], c) /\ c.phase = run[o].phase /\ c.status = run[o].status
        /\ c.ctl = run[o].ctl
    BY <1>0, CancelledFields
  <2>2. /\ UNCHANGED switchVars
        /\ Set(o, c) \/ \E ctl \in {"cancelling", "interrupting"} : Set(o, r(ctl))
    BY <1>3 DEF CancelAgent, Interrupt, CallerCancelled
  <2> HIDE DEF c
  <2>3. ASSUME NEW ctl \in {"cancelling", "interrupting"}
        PROVE  /\ Kept(run[o], r(ctl)) /\ r(ctl).phase = run[o].phase
               /\ r(ctl).status = run[o].status /\ r(ctl).ctl = ctl
    BY <2>1 DEF Kept, Run
  <2> HIDE DEF r
  <2> QED BY <2>1, <2>2, <2>3, ControlRuled
<1>4. CASE CancelDone(o) \/ InterruptVoid(o)
  <2> DEFINE f == [run[o] EXCEPT !.ctl = "free"]
             g == [run[o] EXCEPT !.ctl = "finalizing", !.status = "stopped"]
  <2>1. /\ UNCHANGED switchVars /\ ~Live(run[o])
        /\ Set(o, f) \/ (Set(o, g) /\ ~Done(run[o]))
    BY <1>4 DEF CancelDone, InterruptVoid
  <2>2. Kept(run[o], f) /\ f.phase = run[o].phase /\ f.status = run[o].status /\ f.ctl = "free"
    BY <1>0 DEF Kept, Run
  <2>3. Kept(run[o], g) /\ g.phase = run[o].phase /\ g.status = "stopped" /\ g.ctl = "finalizing"
    BY <1>0 DEF Kept, Run
  <2> HIDE DEF f, g
  <2>4. CASE Set(o, f)
    BY <2>1, <2>2, <2>4, ControlRuled
  <2>5. CASE Set(o, g) /\ ~Done(run[o])
    <3>1. ~Live(g) /\ ~Acts(g) /\ Done(g) = Done(run[o])
      BY <2>1, <2>3 DEF Live, Acts, Done, Kept
    <3>2. Sane(g)
      BY <1>0, <2>3, <2>5, <3>1 DEF Sane, Kept
    <3>3. Past(g) /\ Paid(o, g)
      BY <2>3, <3>1, KeptPast DEF Ruled
    <3>4. Follows(o, run[o], g)
      BY <2>3, <3>1, <3>2, <3>3 DEF Follows, Kept, Works
    <3> QED BY <2>1, <2>5, <3>3, <3>4, SetRuled
  <2> QED BY <2>1, <2>4, <2>5
<1>5. CASE CancelFinalized(o)
  <2> DEFINE f == [run[o] EXCEPT !.ctl = "free"]
  <2>1. Settled(o, f) /\ UNCHANGED switchVars /\ run[o].ctl = "finalizing"
    BY <1>5 DEF CancelFinalized
  <2>2. f \in Run
    BY Zenon, <1>0, ControlForms
  <2>3. Kept(run[o], f) /\ f.phase = run[o].phase /\ f.status = run[o].status /\ f.ctl = "free"
    BY <1>0 DEF Kept, Run
  <2> HIDE DEF f
  <2>4. ~Live(f) /\ run[o].status \in Terminal
    BY <1>0, <2>1, <2>3 DEF Sane, Live
  <2> QED BY <2>1, <2>2, <2>3, <2>4, SettledRuled
<1> QED BY <1>1, <1>2, <1>3, <1>4, <1>5

LEMMA RuledSpawnFails ==
  ASSUME Inv, WakeInv, Ruled, NEW o \in Runs, SpawnFails(o)
  PROVE  Ruled'
<1>0. run[o] \in Run /\ Sane(run[o]) /\ Past(run[o])
  BY DEF Inv, Types, Ruled
<1> DEFINE c == Cancelled(run[o])
           d == [c EXCEPT !.detached = TRUE, !.spawning = FALSE]
           q == Woken(d, "caller")
           map == IF runOf[o[1]] = o THEN [runOf EXCEPT ![o[1]] = None] ELSE runOf
<1>1. run' = Swept([run EXCEPT ![o] = q], map) /\ runOf' = map /\ UNCHANGED switchVars
  BY Zenon DEF SpawnFails
<1>2. c \in Run /\ Kept(run[o], c) /\ c.phase = run[o].phase /\ c.ctl = run[o].ctl
      /\ c.status = run[o].status
  BY <1>0, CancelledFields
<1> HIDE DEF c
<1>3. d \in Run
  BY Zenon, <1>2 DEF Run
<1>4. /\ d.ses = run[o].ses /\ d.gen = run[o].gen /\ d.tracked = run[o].tracked
      /\ d.told = run[o].told /\ d.phase = run[o].phase /\ d.ctl = run[o].ctl
      /\ d.status = run[o].status /\ d.woken = run[o].woken /\ d.detached = TRUE
  BY <1>2 DEF Kept, Run
<1> HIDE DEF d
<1>5. /\ q.ses = run[o].ses /\ q.gen = run[o].gen /\ q.tracked = run[o].tracked
      /\ q.told = run[o].told /\ q.phase = run[o].phase /\ q.ctl = run[o].ctl
      /\ q.status = run[o].status /\ q.detached = TRUE
      /\ q.woken = IF Done(run[o]) THEN run[o].woken ELSE "caller"
  BY <1>3, <1>4, WokenFields DEF Done
<1> HIDE DEF q
<1>6. Done(q) /\ Live(q) = Live(run[o]) /\ Acts(q) = Acts(run[o])
  BY <1>5 DEF Done, Live, Acts
<1>7. Sane(q)
  BY <1>0, <1>5, <1>6 DEF Sane
<1>8. Past(q) /\ Paid(o, q)
  BY <1>0, <1>5, <1>6 DEF Past, Paid
<1>9. Works(q) => Works(run[o])
  BY <1>5, <1>6 DEF Works, Done
<1>10. Follows(o, run[o], q)
  BY <1>5, <1>7, <1>8, <1>9 DEF Follows
<1> QED BY <1>1, <1>8, <1>10, ChangeRuled

LEMMA RuledSpawn ==
  ASSUME Inv, Ruled, NEW a \in Agents, NEW callback \in BOOLEAN, Spawn(a, callback)
  PROVE  Ruled'
<1> DEFINE o == FreeCopy(a, run)
           cb == IF callback THEN "pending" ELSE "disabled"
           q == [Blank EXCEPT !.ses = session, !.gen = gen, !.spawning = TRUE, !.phase = "new",
                              !.cb = cb]
<1>1. o \in Runs /\ o[1] = a
  <2>1. \E c \in Copies : run[<<a, c>>] = Blank
    BY Zenon, FiniteAssumption DEF Spawn, Inv, Unborn
  <2>2. \E p \in Runs : p[1] = a /\ run[p] = Blank
    BY <2>1
  <2> QED BY <2>2 DEF FreeCopy
<1>2. /\ runOf' = [runOf EXCEPT ![a] = o] /\ run' = [run EXCEPT ![o] = q]
      /\ UNCHANGED switchVars /\ life \in {"open", "leaving"} /\ resuming = None
      /\ known[a] = "unborn"
  BY Zenon DEF Spawn
<1> HIDE DEF cb
<1>3. /\ q.ses = session /\ q.gen = gen /\ q.phase = "new" /\ q.woken = "no" /\ q.told = 0
      /\ q.ctl = "free"
  BY BlankRun, BlankRuled DEF Run
<1> HIDE DEF o, q
<1>4. run'[o] = q /\ \A p \in Runs : p # o => run'[p] = run[p]
  BY <1>1, <1>2 DEF Inv, Types
<1>5. runOf'[a] = o /\ \A b \in Agents : b # a => runOf'[b] = runOf[b]
  BY <1>1, <1>2 DEF Inv, Types
<1>6. \A p \in Runs : p[1] = a => run[p] = Blank
  BY <1>2 DEF Inv, Unborn
<1>7. Live(q) /\ ~Done(q) /\ ~Acts(q) /\ q.ses # None
  BY <1>3, NoneAssumption DEF Live, Done, Acts, Inv, Types
<1>8. Sane(q) /\ Past(q) /\ ~Works(q)
  BY <1>2, <1>3, <1>7 DEF Sane, Past, Works, Inv, Types
<1>9. \A p \in Runs : Sane(run'[p]) /\ Past(run'[p]) /\ (Works(run'[p]) => Works(run[p]) /\ p[1] # a)
  BY <1>4, <1>6, <1>8, BlankRuled DEF Ruled
<1>10. (\A p \in Runs : Sane(run[p]))'
  BY <1>9 DEF Sane, Acts, Live, Done
<1>11. (\A p \in Runs : Past(run[p]))'
  BY <1>2, <1>9 DEF Past, Live, Done, switchVars
<1>12. (\A p \in Runs : Paid(p, run[p]))'
  <2>1. ASSUME NEW p \in Runs, p # o, runOf'[p[1]] = p
        PROVE  Paid(p, run'[p]) /\ runOf[p[1]] = p
    BY <1>1, <1>4, <1>5, <2>1 DEF Ruled
  <2> QED BY <1>2, <1>3, <1>4, <2>1 DEF Paid, switchVars
<1>13. (\A p, s \in Runs : Alone(p, s))'
  <2> SUFFICES ASSUME NEW p \in Runs, NEW s \in Runs, p # s, p[1] = s[1], Works(run'[p])
               PROVE  runOf'[p[1]] # s /\ ~Works(run'[s])
    BY DEF Alone, Works, Acts
  <2>1. Works(run[p]) /\ p[1] # a
    BY <1>9
  <2>2. runOf[p[1]] # s /\ ~Works(run[s])
    BY <2>1 DEF Ruled, Alone
  <2> QED BY <1>5, <1>9, <2>1, <2>2
<1>14. (\A p \in Runs : runOf[p[1]] = p => run[p].ses # None)'
  <2> SUFFICES ASSUME NEW p \in Runs, runOf'[p[1]] = p PROVE run'[p].ses # None
    OBVIOUS
  <2>1. CASE p = o
    BY <1>4, <1>7, <2>1
  <2>2. CASE p # o
    BY <1>4, <1>5, <2>2, <1>1 DEF Ruled
  <2> QED BY <2>1, <2>2
<1>15. (resuming # None => life = "open")'
  BY <1>2 DEF switchVars
<1> QED BY <1>10, <1>11, <1>12, <1>13, <1>14, <1>15 DEF Ruled

\* Who owns a run that is his session's knows that nothing has ended it.
LEMMA CurrentOpen ==
  ASSUME Inv, Ruled, NEW o \in Runs, Current(o)
  PROVE  resuming = None /\ life \in {"open", "leaving"} /\ run[o].ses # None
BY DEF Ruled, Past, Current, Inv, Types

LEMMA RuledInputs ==
  ASSUME Inv, WakeInv, Ruled, NEW o \in Runs,
         (\E again \in BOOLEAN : SendInput(o, again)) \/ Queued(o) \/ QueueFails(o)
  PROVE  Ruled'
<1>0. run[o] \in Run /\ Sane(run[o]) /\ Past(run[o]) /\ run \in [Runs -> Run]
  BY DEF Inv, Types, Ruled
<1>1. CASE \E again \in BOOLEAN : SendInput(o, again)
  <2>1. PICK again \in BOOLEAN : SendInput(o, again)
    BY <1>1
  <2> DEFINE renewed == run[o].cb # "disabled" /\ ~again
             epoch == IF renewed THEN run[o].epoch + 1 ELSE run[o].epoch
             cb == IF renewed THEN "pending" ELSE run[o].cb
             q == [run[o] EXCEPT !.ctl = "queueing", !.woken = "no", !.told = 0, !.status = "queued",
                                 !.start = FALSE, !.epoch = epoch, !.cb = cb]
  <2>2. Set(o, q) /\ UNCHANGED switchVars /\ Current(o) /\ ~Live(run[o])
    BY Zenon, <2>1 DEF SendInput
  <2> HIDE DEF epoch, cb
  <2>3. /\ q.ses = run[o].ses /\ q.gen = run[o].gen /\ q.tracked = run[o].tracked
        /\ q.phase = run[o].phase /\ q.ctl = "queueing" /\ q.woken = "no" /\ q.told = 0
    BY <1>0 DEF Run
  <2> HIDE DEF q
  <2>4. ~Live(q) /\ ~Done(q) /\ ~Acts(q)
    BY <2>2, <2>3 DEF Live, Done, Acts
  <2>5. Sane(q)
    BY <2>3, <2>4 DEF Sane, Live
  <2>6. Past(q) /\ Paid(o, q)
    BY <1>0, <2>2, <2>3, CurrentOpen DEF Past, Paid
  <2>7. Follows(o, run[o], q)
    BY <2>3, <2>4, <2>5, <2>6 DEF Follows, Works
  <2> QED BY <2>2, <2>6, <2>7, SetRuled
<1> DEFINE r == [run[o] EXCEPT !.ctl = "free", !.start = TRUE]
           w == Woken(r, "input")
           s == [w EXCEPT !.status = "stopped"]
<1>2. r \in Run
  BY Zenon, <1>0, ControlForms
<1>3. Kept(run[o], r) /\ r.phase = run[o].phase /\ r.ctl = "free" /\ r.status = run[o].status
  BY <1>0 DEF Kept, Run
<1> HIDE DEF r
<1>4. /\ w \in Run /\ w.ses = r.ses /\ w.gen = r.gen
      /\ w.tracked = r.tracked /\ w.told = r.told
      /\ w.phase = r.phase /\ w.ctl = r.ctl /\ w.status = r.status
      /\ w.woken = IF Done(r) THEN r.woken ELSE "input"
  BY <1>2, WokenFields
<1> HIDE DEF w
<1>5. /\ s.ses = w.ses /\ s.gen = w.gen
      /\ s.tracked = w.tracked /\ s.told = w.told
      /\ s.phase = w.phase /\ s.ctl = w.ctl /\ s.status = "stopped"
      /\ s.woken = w.woken
  BY <1>4 DEF Run
<1> HIDE DEF s
<1>6. ASSUME run[o].ctl = "queueing", NEW q \in {w, s}, Set(o, q), UNCHANGED switchVars
      PROVE  Ruled'
  <2>1. /\ q.ses = run[o].ses /\ q.gen = run[o].gen /\ q.tracked = run[o].tracked
        /\ q.told = run[o].told /\ q.phase = run[o].phase /\ q.ctl = "free"
        /\ q.woken = IF Done(run[o]) THEN run[o].woken ELSE "input"
    BY <1>3, <1>4, <1>5, <1>6 DEF Kept, Done
  <2>2. ~Live(run[o]) /\ run[o].told = 0 /\ run[o].woken # "run"
    BY <1>0, <1>6 DEF Sane
  <2>3. ~Live(q) /\ Done(q) /\ ~Acts(q)
    BY <2>1, <2>2 DEF Live, Done, Acts
  <2>4. Sane(q)
    BY <2>1, <2>2, <2>3 DEF Sane, Live
  <2>5. Past(q) /\ Paid(o, q)
    BY <1>0, <2>1, <2>2, <2>3 DEF Past, Paid
  <2>6. Follows(o, run[o], q)
    BY <2>1, <2>3, <2>4, <2>5 DEF Follows, Works
  <2> QED BY <1>6, <2>5, <2>6, SetRuled
<1>7. CASE Queued(o)
  <2> DEFINE n == [r EXCEPT !.phase = "new"]
  <2>1. /\ UNCHANGED switchVars /\ run[o].ctl = "queueing"
        /\ (Set(o, n) /\ Current(o)) \/ Set(o, w)
    BY SMTT(60), <1>7 DEF Queued, r, w
  <2>2. Kept(r, n) /\ n.phase = "new" /\ n.ctl = "free" /\ n.status = r.status
    BY <1>2, <1>3 DEF Kept, Run
  <2> HIDE DEF n
  <2>3. CASE Set(o, w)
    BY <1>6, <2>1, <2>3
  <2>4. CASE Set(o, n) /\ Current(o)
    <3>1. /\ n.ses = run[o].ses /\ n.gen = run[o].gen /\ n.tracked = run[o].tracked
          /\ n.told = run[o].told /\ n.woken = run[o].woken
      BY <1>3, <2>2 DEF Kept
    <3>2. n.told = 0 /\ n.woken # "run" /\ ~Acts(n) /\ n.ses # None
      BY <1>0, <2>1, <2>2, <2>4, <3>1, CurrentOpen DEF Sane, Acts
    <3>3. Sane(n)
      BY <2>2, <3>1, <3>2 DEF Sane
    <3>4. Past(n) /\ Paid(o, n)
      BY <1>0, <2>4, <3>1, <3>2, CurrentOpen DEF Past, Paid
    <3>5. Follows(o, run[o], n)
      BY <3>1, <3>2, <3>3, <3>4 DEF Follows, Works
    <3> QED BY <2>1, <2>4, <3>4, <3>5, SetRuled
  <2> QED BY <2>1, <2>3, <2>4
<1>8. CASE QueueFails(o)
  <2>1. UNCHANGED switchVars /\ run[o].ctl = "queueing" /\ (Set(o, w) \/ Set(o, s))
    BY <1>0, <1>8 DEF QueueFails, r, w, s
  <2> QED BY <1>6, <2>1
<1> QED BY <1>1, <1>7, <1>8

LEMMA RuledDispatch ==
  ASSUME Inv, Ruled, NEW d \in outbox, Dispatch(d)
  PROVE  Ruled'
<1> DEFINE o == runOf[d[1]]
<1>0. d[1] \in Agents /\ UNCHANGED switchVars
  BY DEF Inv, Types, Dispatch
<1>1. ASSUME NEW to \in {"injected", "delivered"}, o # None, Set(o, [run[o] EXCEPT !.cb = to])
      PROVE  Ruled'
  <2> DEFINE q == [run[o] EXCEPT !.cb = to]
  <2>1. o \in Runs /\ run[o] \in Run
    BY <1>0, <1>1 DEF Inv, Types
  <2>2. Set(o, q)
    BY <1>1
  <2>3. /\ q.ses = run[o].ses /\ q.gen = run[o].gen /\ q.tracked = run[o].tracked
        /\ q.told = run[o].told /\ q.phase = run[o].phase /\ q.ctl = run[o].ctl
        /\ q.woken = run[o].woken /\ q.status = run[o].status /\ q.cb # "pending"
    BY <2>1 DEF Run
  <2> HIDE DEF q, o
  <2>4. Sane(run[o]) /\ Past(run[o])
    BY <2>1 DEF Ruled
  <2>5. Live(q) = Live(run[o]) /\ Done(q) = Done(run[o]) /\ Acts(q) = Acts(run[o])
    BY <2>3 DEF Live, Done, Acts
  <2>6. Sane(q) /\ Past(q) /\ Paid(o, q)
    BY <2>3, <2>4, <2>5 DEF Sane, Past, Paid
  <2>7. Follows(o, run[o], q)
    BY <2>3, <2>5, <2>6 DEF Follows, Works
  <2> QED BY <1>0, <2>1, <2>2, <2>6, <2>7, SetRuled
<1>2. CASE UNCHANGED <<run, runOf>>
  BY <1>0, <1>2, SameRuled
<1> QED BY <1>1, <1>2 DEF Dispatch

\* What is left of the rules of the runs when their ids name nobody, or when the
\* session that owned them is no more.
LEMMA LeftRuled ==
  ASSUME Inv, Ruled, NEW rr, NEW map, run' = rr, runOf' = map,
         \A o \in Runs : /\ Sane(rr[o]) /\ (Works(rr[o]) => Works(run[o]))
                         /\ map[o[1]] \in {runOf[o[1]], None}
                         /\ map[o[1]] = o => rr[o].ses # None,
         (\A o \in Runs : Past(run[o]))',
         life' # "open" \/ (\A o \in Runs : map[o[1]] = o => rr[o].gen # gen'),
         resuming' # None => life' = "open"
  PROVE  Ruled'
<1>1. (\A o \in Runs : Sane(run[o]))'
  BY DEF Sane, Acts, Live, Done
<1>2. (\A o \in Runs : Paid(o, run[o]))'
  BY DEF Paid
<1>3. (\A o, p \in Runs : Alone(o, p))'
  <2> SUFFICES ASSUME NEW o \in Runs, NEW p \in Runs, o # p, o[1] = p[1], Works(rr[o])
               PROVE  map[o[1]] # p /\ ~Works(rr[p])
    BY DEF Alone, Works, Acts
  <2>1. runOf[o[1]] # p /\ ~Works(run[p])
    BY DEF Ruled, Alone
  <2>2. p # None
    BY NoneAssumption
  <2> QED BY <2>1, <2>2
<1>4. (\A o \in Runs : runOf[o[1]] = o => run[o].ses # None)'
  OBVIOUS
<1> QED BY <1>1, <1>2, <1>3, <1>4 DEF Ruled

\* What abandoning does to a run: nothing, or its event is set and its task owned.
LEMMA AbandonedFields ==
  ASSUME Inv, Ruled, NEW o \in Runs
  PROVE  LET r == run[o]
             b == Abandoned(run)[o]
         IN /\ Sane(b) /\ b.ses = r.ses /\ b.gen = r.gen /\ b.phase = r.phase
            /\ Works(b) => Works(r)
<1> DEFINE r == run[o]
           c == Cancelled(r)
           w == Woken(c, "switch")
           t == Live(r)
           n == IF w.status \in Terminal THEN w.status ELSE "stopped"
           w1 == [w EXCEPT !.detached = TRUE, !.tracked = t]
           w2 == [w1 EXCEPT !.status = n]
<1>0. r \in Run /\ Sane(r)
  BY DEF Inv, Types, Ruled
<1>1. Abandoned(run)[o] = IF runOf[o[1]] # o \/ Done(r) THEN r ELSE w2
  BY <1>0 DEF Abandoned
<1>2. c \in Run /\ Kept(r, c) /\ c.phase = r.phase /\ c.ctl = r.ctl
  BY <1>0, CancelledFields
<1> HIDE DEF c
<1>3. /\ w \in Run /\ w.ses = r.ses /\ w.gen = r.gen /\ w.told = r.told /\ w.phase = r.phase
      /\ w.ctl = r.ctl /\ w.woken = IF Done(r) THEN r.woken ELSE "switch"
  BY <1>2, WokenFields DEF Kept, Done
<1>4. t \in BOOLEAN /\ n \in Terminal
  BY DEF Live
<1> HIDE DEF w, t, n
<1>5. /\ w1.ses = r.ses /\ w1.gen = r.gen /\ w1.told = r.told /\ w1.phase = r.phase
      /\ w1.ctl = r.ctl /\ w1.woken = w.woken
  BY <1>3 DEF Run
<1>6. w1.tracked = t
  BY <1>3 DEF Run
<1>7. w1 \in Run
  BY Zenon, <1>3, <1>4 DEF Run
<1> HIDE DEF w1
<1>8. /\ w2.ses = r.ses /\ w2.gen = r.gen /\ w2.told = r.told /\ w2.phase = r.phase
      /\ w2.ctl = r.ctl /\ w2.woken = w.woken /\ w2.status = n
  BY <1>5, <1>7 DEF Run
<1>9. w2.tracked = t
  BY <1>6, <1>7 DEF Run
<1> HIDE DEF w2
<1>10. ASSUME ~Done(r)
       PROVE  Sane(w2) /\ (Works(w2) => Works(r))
  <2>1. Live(w2) = Live(r) /\ Acts(w2) = Acts(r) /\ (Acts(r) => Live(r)) /\ w2.woken = "switch"
    BY <1>3, <1>8, <1>10 DEF Live, Acts
  <2>2. r.told = 0 /\ r.woken # "run" /\ r.woken # "caller"
    BY <1>0, <1>10 DEF Sane, Done
  <2>3. Acts(w2) => w2.tracked
    BY <1>9, <2>1 DEF t
  <2>4. Works(w2) => Works(r)
    BY <2>1, <2>2 DEF Works
  <2>5. Sane(w2)
    BY <1>0, <1>4, <1>8, <2>1, <2>2, <2>3 DEF Sane
  <2> QED BY <2>4, <2>5
<1> QED BY <1>0, <1>1, <1>8, <1>10

\* So it is with dropping.
LEMMA DroppedFields ==
  ASSUME NEW rr \in [Runs -> Run], NEW o \in Runs, Sane(rr[o])
  PROVE  LET r == rr[o]
             b == Dropped(rr)[o]
         IN /\ Sane(b) /\ b.ses = r.ses /\ b.gen = r.gen /\ b.phase = r.phase
            /\ Works(b) => Works(r)
<1> DEFINE r == rr[o]
           w == Woken(r, "switch")
           c == Cancelled(w)
           c1 == [c EXCEPT !.detached = TRUE, !.tracked = TRUE]
           c2 == [c1 EXCEPT !.cb = "disabled"]
<1>1. Dropped(rr)[o] = IF runOf[o[1]] # o THEN r ELSE IF Live(r) THEN c2 ELSE w
  BY DEF Dropped
<1>2. /\ w \in Run /\ w.ses = r.ses /\ w.gen = r.gen /\ w.tracked = r.tracked /\ w.told = r.told
      /\ w.phase = r.phase /\ w.ctl = r.ctl /\ w.status = r.status
      /\ w.woken = IF Done(r) THEN r.woken ELSE "switch"
  BY WokenFields
<1> HIDE DEF w
<1>3. c \in Run /\ Kept(w, c) /\ c.phase = w.phase /\ c.ctl = w.ctl /\ c.status = w.status
  BY <1>2, CancelledFields
<1> HIDE DEF c
<1>4. /\ c1.ses = c.ses /\ c1.gen = c.gen /\ c1.told = c.told /\ c1.phase = c.phase
      /\ c1.ctl = c.ctl /\ c1.status = c.status /\ c1.woken = c.woken /\ c1.tracked = TRUE
  BY <1>3 DEF Run
<1>5. c1 \in Run
  BY Zenon, <1>3 DEF Run
<1> HIDE DEF c1
<1>6. /\ c2.ses = c1.ses /\ c2.gen = c1.gen /\ c2.told = c1.told /\ c2.phase = c1.phase
      /\ c2.ctl = c1.ctl /\ c2.status = c1.status /\ c2.woken = c1.woken /\ c2.tracked = c1.tracked
  BY <1>5 DEF Run
<1> HIDE DEF c2, r
<1>7. ASSUME NEW b \in {w, c2}, b = c2 \/ ~Live(r)
      PROVE  /\ Sane(b) /\ b.ses = r.ses /\ b.gen = r.gen /\ b.phase = r.phase
             /\ Works(b) => Works(r)
  <2>1. /\ b.ses = r.ses /\ b.gen = r.gen /\ b.told = r.told /\ b.phase = r.phase
        /\ b.ctl = r.ctl /\ b.status = r.status
        /\ b.woken = IF Done(r) THEN r.woken ELSE "switch"
        /\ b.tracked = TRUE \/ ~Live(r)
    BY <1>2, <1>3, <1>4, <1>6, <1>7 DEF Kept
  <2>2. Live(b) = Live(r) /\ Acts(b) = Acts(r) /\ (Acts(r) => Live(r)) /\ Done(b)
    BY <2>1 DEF Live, Acts, Done
  <2>3. Works(b) => Works(r)
    BY <2>1, <2>2 DEF Works, Done
  <2>4. Sane(r)
    BY DEF r
  <2>5. ~Done(r) => r.told = 0
    BY <2>4 DEF Sane
  <2>6. Sane(b)
    BY <2>1, <2>2, <2>4, <2>5 DEF Sane
  <2> QED BY <2>1, <2>3, <2>6
<1>8. Sane(r)
  BY DEF r
<1> QED BY <1>1, <1>7, <1>8 DEF r

\* After snapshots were restored the runs are those, or belong to nobody.
LEMMA RestoredRuled ==
  ASSUME Inv, NEW s \in Sessions, NEW g \in Nat, NEW snaps \in [Agents -> Snap],
         NEW rr, Restored(s, g, snaps, rr),
         session' = s, gen' = g, life' = "open", resuming' = None,
         \A o \in Runs : Sane(rr[o]) /\ ~Works(rr[o]) /\ (rr[o].ses # None => rr[o].gen <= g)
  PROVE  Ruled'
<1> DEFINE map == [a \in Agents |-> IF snaps[a] = NoSnap THEN None ELSE FreeCopy(a, rr)]
           written == [a \in Agents |-> Ended(snaps[a])]
           new(o) == [Blank EXCEPT !.ses = s, !.gen = g, !.woken = "restore", !.cb = snaps[o[1]].cb,
                        !.status = written[o[1]].status, !.epoch = snaps[o[1]].epoch]
<1>1. runOf' = map /\ \A o \in Runs : run'[o] = IF map[o[1]] # o THEN rr[o] ELSE new(o)
  BY Zenon DEF Restored
<1>2. ASSUME NEW o \in Runs
      PROVE  /\ new(o).ses = s /\ new(o).gen = g /\ new(o).woken = "restore" /\ new(o).told = 0
             /\ new(o).ctl = "free" /\ new(o).phase = "none"
  <2> DEFINE cb == snaps[o[1]].cb
             status == written[o[1]].status
             epoch == snaps[o[1]].epoch
             b == [Blank EXCEPT !.ses = s, !.gen = g, !.woken = "restore", !.cb = cb,
                        !.status = status, !.epoch = epoch]
  <2> HIDE DEF cb, status, epoch
  <2>1. /\ b.ses = s /\ b.gen = g /\ b.woken = "restore" /\ b.told = 0
        /\ b.ctl = "free" /\ b.phase = "none"
    BY BlankRun, BlankRuled DEF Run
  <2> QED BY <2>1 DEF cb, status, epoch
<1> HIDE DEF map, new
<1>3. ASSUME NEW o \in Runs
      PROVE  /\ Sane(new(o)) /\ ~Works(new(o)) /\ Done(new(o)) /\ new(o).ses # None
  <2>1. ~Live(new(o)) /\ ~Acts(new(o)) /\ Done(new(o))
    BY <1>2 DEF Live, Acts, Done
  <2> QED BY <1>2, <2>1, NoneAssumption DEF Sane, Works
<1>4. \A o \in Runs : /\ Sane(run'[o]) /\ ~Works(run'[o])
                      /\ run'[o].ses # None => run'[o].gen <= g
                      /\ runOf'[o[1]] = o => run'[o].ses # None /\ run'[o].woken = "restore"
  BY <1>1, <1>2, <1>3
<1>5. (\A o \in Runs : Sane(run[o]))'
  BY <1>4 DEF Sane, Acts, Live, Done
<1>6. (\A o \in Runs : Past(run[o]))'
  BY <1>4 DEF Past
<1>7. (\A o \in Runs : Paid(o, run[o]))'
  BY <1>4 DEF Paid
<1>8. (\A o, p \in Runs : Alone(o, p))'
  BY <1>4 DEF Alone, Works, Acts
<1>9. (\A o \in Runs : runOf[o[1]] = o => run[o].ses # None)'
  BY <1>4
<1> QED BY <1>5, <1>6, <1>7, <1>8, <1>9 DEF Ruled

LEMMA RuledSwitches ==
  ASSUME Inv, WakeInv, Ruled,
         \/ ResumeEnds
         \/ \E s \in Sessions : NewSession(s) \/ ResumeBegin(s) \/ Restart(s)
  PROVE  Ruled'
<1>0. /\ run \in [Runs -> Run] /\ gen \in Nat /\ gen + 1 \in Nat
      /\ disk \in [Sessions -> [Agents -> Snap]] /\ loaded \in [Agents -> Snap]
      /\ session \in Sessions /\ runOf \in [Agents -> Runs \union {None}]
  BY DEF Inv, Types
<1>a. /\ Abandoned(run) \in [Runs -> Run]
      /\ \A o \in Runs : LET b == Abandoned(run)[o]
                         IN /\ Sane(b) /\ b.ses = run[o].ses /\ b.gen = run[o].gen
                            /\ Works(b) => Works(run[o])
  BY AbandonedRuns, AbandonedFields
<1>1. CASE \E s \in Sessions : NewSession(s)
  <2>1. /\ run' = Swept(Dropped(Abandoned(run)), Nobody) /\ runOf' = Nobody
        /\ life' = "open" /\ resuming' = None /\ gen' = gen + 1
    BY <1>1 DEF NewSession
  <2>2. \A o \in Runs : LET b == Dropped(Abandoned(run))[o]
                        IN /\ Sane(b) /\ b.ses = run[o].ses /\ b.gen = run[o].gen
                           /\ Works(b) => Works(run[o])
    BY ZenonT(60), <1>a, DroppedFields
  <2>3. \A o \in Runs : run'[o] \in {Dropped(Abandoned(run))[o], Blank}
    BY <2>1 DEF Swept
  <2>4. \A o \in Runs : /\ Sane(run'[o]) /\ (Works(run'[o]) => Works(run[o]))
                        /\ run'[o].ses # None => run'[o].gen <= gen
    BY <2>2, <2>3, BlankRuled DEF Ruled, Past
  <2>5. \A o \in Runs : Nobody[o[1]] = None /\ o # None
    BY NoneAssumption DEF Nobody
  <2>6. (\A o \in Runs : Past(run[o]))'
    <3>1. \A o \in Runs : run'[o].ses # None => run[o].gen \in Nat \/ run'[o].gen <= gen
      BY <2>4
    <3>2. \A o \in Runs : run'[o].ses # None => run'[o].gen <= gen + 1
      BY <1>0, <2>2, <2>3, <2>4, BlankRuled DEF Run
    <3> QED BY <2>1, <3>2 DEF Past
  <2> QED BY <2>1, <2>4, <2>5, <2>6, LeftRuled
<1>2. CASE \E s \in Sessions : ResumeBegin(s)
  <2>1. /\ run' = Abandoned(run) /\ UNCHANGED runOf
        /\ life' = "open" /\ gen' = gen + 1
    BY <1>2 DEF ResumeBegin
  <2>2. \A o \in Runs : run[o].ses # None => run[o].gen <= gen /\ run[o].gen \in Nat
    BY <1>0 DEF Ruled, Past, Run
  <2>3. (\A o \in Runs : Past(run[o]))'
    <3>1. \A o \in Runs : run'[o].ses # None => Done(run'[o]) /\ run'[o].gen < gen + 1 /\ run'[o].gen <= gen + 1
      BY <1>0, <1>a, <2>1, <2>2, SwitchDone
    <3> QED BY <2>1, <3>1 DEF Past, Done
  <2>4. \A o \in Runs : runOf[o[1]] = o => run'[o].ses # None /\ run'[o].gen # gen'
    BY <1>0, <1>a, <2>1, <2>2 DEF Ruled
  <2> QED BY <1>0, <1>a, <2>1, <2>3, <2>4, LeftRuled
<1>3. CASE ResumeEnds
  <2>1. /\ Restored(session, gen, loaded, Swept(Dropped(run), Nobody))
        /\ resuming # None /\ resuming' = None /\ UNCHANGED <<session, gen, life>>
        /\ \A o \in Runs : run[o].tracked => ~Live(run[o])
    BY <1>3 DEF ResumeEnds
  <2>2. life' = "open"
    BY <2>1 DEF Ruled
  <2>3. \A o \in Runs : ~Works(run[o])
    <3> SUFFICES ASSUME NEW o \in Runs, Works(run[o]) PROVE FALSE
      OBVIOUS
    <3>1. Sane(run[o]) /\ Past(run[o]) /\ Live(run[o])
      BY DEF Ruled, Works, Acts, Live
    <3> QED BY <2>1, <3>1 DEF Sane, Past, Works
  <2>4. \A o \in Runs : LET b == Dropped(run)[o]
                        IN Sane(b) /\ b.ses = run[o].ses /\ b.gen = run[o].gen /\ ~Works(b)
    BY ZenonT(60), <1>0, <2>3, DroppedFields DEF Ruled
  <2> DEFINE rr == Swept(Dropped(run), Nobody)
  <2>5. \A o \in Runs : rr[o] \in {Dropped(run)[o], Blank}
    BY DEF Swept
  <2> HIDE DEF rr
  <2>6. \A o \in Runs : Sane(rr[o]) /\ ~Works(rr[o]) /\ (rr[o].ses # None => rr[o].gen <= gen)
    BY <2>4, <2>5, BlankRuled DEF Ruled, Past
  <2> QED BY <1>0, <2>1, <2>2, <2>6, RestoredRuled DEF rr
<1>4. CASE \E s \in Sessions : Restart(s)
  <2>1. PICK s \in Sessions : Restart(s)
    BY <1>4
  <2> DEFINE rr == [o \in Runs |-> Blank]
  <2>2. /\ Restored(s, gen + 1, disk[s], rr)
        /\ session' = s /\ gen' = gen + 1 /\ life' = "open" /\ resuming' = None
    BY <2>1 DEF Restart
  <2>3. \A o \in Runs : Sane(rr[o]) /\ ~Works(rr[o]) /\ (rr[o].ses # None => rr[o].gen <= gen + 1)
    BY BlankRuled
  <2> HIDE DEF rr
  <2> QED BY <1>0, <2>2, <2>3, RestoredRuled
<1> QED BY <1>1, <1>2, <1>3, <1>4

LEMMA RuledCloses ==
  ASSUME Inv, WakeInv, Ruled, Close \/ CloseManager \/ CloseMarks \/ CloseDone
  PROVE  Ruled'
<1>0. ASSUME NEW o \in Runs
      PROVE  run[o] \in Run /\ InHand(o, run[o]) /\ Sane(run[o]) /\ Past(run[o])
  BY DEF Inv, Types, WakeInv, Ruled
<1>1. CASE Close \/ CloseManager
  <2>1. /\ life' \in {"leaving", "closing"} /\ UNCHANGED <<gen, runOf, run>>
        /\ resuming' = None
    BY <1>1 DEF Close, CloseManager, Ruled
  <2>2. (\A o \in Runs : Past(run[o]))'
    BY <1>0, <2>1 DEF Past
  <2> QED BY <2>1, <2>2, LeftRuled DEF Ruled
<1>2. CASE CloseMarks
  <2>1. /\ life' = "draining" /\ UNCHANGED <<gen, runOf>> /\ resuming' = None
    BY <1>2 DEF CloseMarks, Ruled
  <2>2. ASSUME NEW o \in Runs
        PROVE  /\ Sane(run'[o]) /\ (Works(run'[o]) => Works(run[o]))
               /\ run'[o].ses = run[o].ses /\ run'[o].gen = run[o].gen
               /\ Live(run'[o]) /\ ~Done(run'[o]) /\ run'[o].ses # None => run'[o].tracked
    <3> DEFINE r == run[o]
               c == Cancelled(r)
               c1 == [c EXCEPT !.detached = TRUE, !.tracked = TRUE]
               w == Woken(r, "close")
               b == r.hit \/ (r.tracked /\ Live(r))
               h == [r EXCEPT !.hit = b]
    <3>1. \/ run'[o] = c1 /\ ~Done(r)
          \/ run'[o] = w /\ ~Live(r)
          \/ run'[o] = h /\ (runOf[o[1]] # o \/ Done(r))
      BY <1>2 DEF CloseMarks
    <3>2. r \in Run /\ InHand(o, r) /\ Sane(r)
      BY <1>0
    <3>3. c \in Run /\ Kept(r, c) /\ c.phase = r.phase /\ c.ctl = r.ctl /\ c.status = r.status
      BY <3>2, CancelledFields
    <3>4. /\ w.ses = r.ses /\ w.gen = r.gen /\ w.tracked = r.tracked /\ w.told = r.told
          /\ w.phase = r.phase /\ w.ctl = r.ctl /\ w.status = r.status
          /\ w.woken = IF Done(r) THEN r.woken ELSE "close"
      BY <3>2, WokenFields
    <3> HIDE DEF r, c, w, b
    <3>5. /\ h.ses = r.ses /\ h.gen = r.gen /\ h.tracked = r.tracked /\ h.told = r.told
          /\ h.phase = r.phase /\ h.ctl = r.ctl /\ h.status = r.status /\ h.woken = r.woken
      BY <3>2 DEF Run
    <3>6. /\ c1.ses = r.ses /\ c1.gen = r.gen /\ c1.told = r.told
          /\ c1.phase = r.phase /\ c1.ctl = r.ctl /\ c1.status = r.status /\ c1.woken = r.woken
      BY <3>3 DEF Run, Kept
    <3>7. c1.tracked = TRUE
      BY <3>3 DEF Run
    <3> HIDE DEF c1, h
    <3> SUFFICES ASSUME NEW q, q = run'[o]
                 PROVE  /\ Sane(q) /\ (Works(q) => Works(r)) /\ q.ses = r.ses /\ q.gen = r.gen
                        /\ Live(q) /\ ~Done(q) /\ q.ses # None => q.tracked
      BY DEF r
    <3>8. CASE q = c1
      BY <3>2, <3>6, <3>7, <3>8 DEF Sane, Works, Acts, Live, Done
    <3>9. CASE q = w /\ ~Live(r)
      <4>1. ~Live(q) /\ ~Acts(q) /\ Done(q)
        BY <3>4, <3>9 DEF Live, Acts, Done
      <4>2. ~Done(r) => r.told = 0
        BY <3>2 DEF Sane
      <4> QED BY <3>2, <3>4, <3>9, <4>1, <4>2 DEF Sane, Works
    <3>10. CASE q = h /\ (runOf[o[1]] # o \/ Done(r))
      BY <3>2, <3>5, <3>10 DEF Sane, Works, Acts, Live, Done, InHand
    <3> QED BY <3>1, <3>8, <3>9, <3>10
  <2>3. (\A o \in Runs : Past(run[o]))'
    BY <1>0, <2>1, <2>2 DEF Past, Live, Done
  <2> QED BY <2>1, <2>2, <2>3, LeftRuled DEF Ruled
<1>3. CASE CloseDone
  <2>1. /\ life' = "closed" /\ UNCHANGED <<gen, runOf>> /\ resuming' = None /\ life = "draining"
        /\ \A o \in Runs : run[o].tracked => ~Live(run[o])
    BY <1>3 DEF CloseDone, Ruled
  <2>2. ASSUME NEW o \in Runs
        PROVE  /\ Sane(run'[o]) /\ (Works(run'[o]) => Works(run[o]))
               /\ run'[o].ses = run[o].ses /\ run'[o].gen = run[o].gen
               /\ run'[o].ses # None => Done(run'[o])
               /\ run'[o].tracked => ~Live(run'[o])
    <3> DEFINE r == run[o]
               w == Woken(r, "close")
               n == IF r.tracked THEN "stopped" ELSE w.status
               s == [w EXCEPT !.status = n]
    <3>1. run'[o] = IF runOf[o[1]] # o \/ Done(r) THEN r ELSE s
      BY <1>3 DEF CloseDone
    <3>2. r \in Run /\ InHand(o, r) /\ Sane(r) /\ Past(r)
      BY <1>0
    <3>3. /\ w \in Run /\ w.ses = r.ses /\ w.gen = r.gen /\ w.tracked = r.tracked /\ w.told = r.told
          /\ w.phase = r.phase /\ w.ctl = r.ctl /\ w.status = r.status
          /\ w.woken = IF Done(r) THEN r.woken ELSE "close"
      BY <3>2, WokenFields
    <3>4. r.tracked => ~Live(r)
      BY <2>1
    <3> HIDE DEF r, w, n
    <3>5. /\ s.ses = r.ses /\ s.gen = r.gen /\ s.tracked = r.tracked /\ s.told = r.told
          /\ s.phase = r.phase /\ s.ctl = r.ctl /\ s.status = n /\ s.woken = w.woken
      BY <3>3 DEF Run
    <3> HIDE DEF s
    <3> SUFFICES ASSUME NEW q, q = run'[o]
                 PROVE  /\ Sane(q) /\ (Works(q) => Works(r)) /\ q.ses = r.ses /\ q.gen = r.gen
                        /\ q.ses # None => Done(q)
                        /\ q.tracked => ~Live(q)
      BY DEF r
    <3>6. CASE q = r /\ (runOf[o[1]] # o \/ Done(r))
      BY <3>2, <3>4, <3>6 DEF InHand
    <3>7. CASE q = s /\ ~Done(r)
      <4>1. Done(q) /\ Live(q) = Live(r) /\ Acts(q) = Acts(r) /\ q.woken = "close" /\ (Acts(r) => Live(r))
        BY <3>3, <3>5, <3>7 DEF Live, Acts, Done
      <4>2. r.told = 0 /\ r.woken = "no"
        BY <3>2, <3>7 DEF Sane, Done
      <4>3. ~Live(r)
        BY <2>1, <3>2, <3>4, <3>7 DEF Past, Sane
      <4>4. r.ctl = "finalizing" => q.status \in Terminal
        BY <3>2, <3>3, <3>5, <3>7 DEF Sane, n
      <4>5. Sane(q)
        BY <3>2, <3>5, <3>7, <4>1, <4>2, <4>3, <4>4 DEF Sane, Live
      <4> QED BY <3>5, <3>7, <4>1, <4>3, <4>5 DEF Works
    <3> QED BY <3>1, <3>6, <3>7
  <2>3. (\A o \in Runs : Past(run[o]))'
    BY <1>0, <2>1, <2>2 DEF Past, Live, Done
  <2> QED BY <2>1, <2>2, <2>3, LeftRuled DEF Ruled
<1> QED BY <1>1, <1>2, <1>3

LEMMA StepRuled == Inv /\ WakeInv /\ Ruled /\ [Next]_vars => Ruled'
<1> SUFFICES ASSUME Inv, WakeInv, Ruled, [Next]_vars PROVE Ruled'
  OBVIOUS
<1>1. CASE UNCHANGED vars
  BY <1>1, SameRuled DEF vars, switchVars
<1>2. CASE Next
  BY <1>2, RuledSpawn, RuledSpawnFails, RuledTasks, RuledEnds, RuledControls, RuledInputs,
     RuledDispatch, RuledSwitches, RuledCloses DEF Next
<1> QED BY <1>1, <1>2

LEMMA InitRuled == Init => Ruled
<1> SUFFICES ASSUME Init PROVE Ruled
  OBVIOUS
<1>1. \A o \in Runs : run[o] = Blank /\ runOf[o[1]] # o
  BY NoneAssumption DEF Init
<1>2. resuming = None
  BY DEF Init
<1> QED BY <1>1, <1>2, BlankRuled DEF Ruled, Paid, Alone

LEMMA Settles == Inv /\ WakeInv /\ Ruled => EndsAreSettled
<1> SUFFICES ASSUME Inv, WakeInv, Ruled PROVE EndsAreSettled
  OBVIOUS
<1>1. WaitersAreWoken
  BY DEF Inv, Types, WakeInv, InHand, WaitersAreWoken, Held
<1>2. EndsAreAnnounced
  <2> SUFFICES ASSUME NEW o \in Runs
               PROVE  /\ run[o].told <= 1
                      /\ (run[o].woken = "run" /\ run[o].ctl = "free" /\ ~Live(run[o]) /\ Current(o)
                            /\ life = "open") =>
                           /\ run[o].status \in Terminal
                           /\ run[o].cb = "pending" => run[o].told = 1
    BY DEF EndsAreAnnounced
  <2>1. Sane(run[o]) /\ Paid(o, run[o])
    BY DEF Ruled
  <2> QED BY <2>1 DEF Sane, Paid, Current
<1> QED BY <1>1, <1>2 DEF EndsAreSettled

LEMMA Fences == Inv /\ Ruled => TasksAreFenced
<1> SUFFICES ASSUME Inv, Ruled PROVE TasksAreFenced
  OBVIOUS
<1>1. OneExecutor
  <2> SUFFICES ASSUME NEW a \in Agents
               PROVE  Cardinality({o \in Runs : o[1] = a /\ Works(run[o])}) <= 1
    BY DEF OneExecutor, Works, Acts
  <2> DEFINE E == {o \in Runs : o[1] = a /\ Works(run[o])}
  <2>1. \A o, p \in E : o = p
    BY DEF Ruled, Alone
  <2> HIDE DEF E
  <2>2. E = {} \/ \E o : E = {o}
    BY <2>1
  <2>3. ASSUME E = {} PROVE Cardinality(E) <= 1
    <3>1. Cardinality(E) = 0
      BY <2>3, FS_EmptySet
    <3> QED BY <3>1
  <2>4. ASSUME NEW o, E = {o} PROVE Cardinality(E) <= 1
    <3>1. Cardinality(E) = 1
      BY <2>4, FS_Singleton
    <3> QED BY <3>1
  <2>5. Cardinality(E) <= 1
    BY <2>2, <2>3, <2>4
  <2> QED BY <2>5 DEF E
<1>2. ClosedIsQuiet
  <2> SUFFICES ASSUME life = "closed", NEW o \in Runs
               PROVE  /\ runOf[o[1]] = o => Done(run[o])
                      /\ Live(run[o]) =>
                           \/ run[o].woken = "caller"
                           \/ run[o].phase \in {"new", "parked"} /\ Done(run[o])
    BY DEF ClosedIsQuiet
  <2>1. Sane(run[o]) /\ Past(run[o]) /\ run[o] \in Run
    BY DEF Ruled, Inv, Types
  <2>2. runOf[o[1]] = o => Done(run[o])
    BY <2>1 DEF Ruled, Past
  <2>3. ASSUME Live(run[o])
        PROVE  \/ run[o].woken = "caller"
               \/ run[o].phase \in {"new", "parked"} /\ Done(run[o])
    <3>1. Done(run[o]) /\ ~run[o].tracked
      BY <2>1, <2>3 DEF Sane, Past
    <3>2. Acts(run[o]) => run[o].woken = "caller"
      BY <2>1, <3>1 DEF Sane
    <3>3. run[o].phase \in {"new", "parked"} \/ Acts(run[o])
      BY <2>1, <2>3 DEF Live, Acts, Run
    <3> QED BY <3>1, <3>2, <3>3
  <2> QED BY <2>2, <2>3
<1> QED BY <1>1, <1>2 DEF TasksAreFenced

LEMMA AllInvariant == Spec => [](Inv /\ WakeInv /\ Ruled)
<1>1. Init => Inv /\ TypeOK /\ WakeInv /\ Ruled
  <2>1. Init => WakeInv
    BY BlankInHand DEF Init, WakeInv
  <2> QED BY <2>1, InitInv, InitRuled
<1>2. Inv /\ TypeOK /\ WakeInv /\ Ruled /\ [Next]_vars => (Inv /\ TypeOK /\ WakeInv /\ Ruled)'
  BY StepInv, StepWake, StepRuled
<1> QED BY <1>1, <1>2, PTL DEF Spec

\* A run that ended is settled for those who wait for it and for the agent that is
\* owed its result: whatever is cancelled, disowned or closed, its event is set, and
\* the completion is announced once by whoever settled it, with a status that says
\* how it ended (agent_manager.py: _run_agent's finally, _finalize_cancelled_run,
\* cancel_agent, _emit_completion).
THEOREM RunsAreSettled == Spec => []EndsAreSettled
BY AllInvariant, Settles, PTL

\* An agent is executed by one task at a time, also across a resume of the session
\* that left it, and no task outlives the manager but those of spawns that failed
\* (events.py: resume waits for detached tasks; agent_manager.py: _close_impl).
THEOREM OneTaskAtATime == Spec => []TasksAreFenced
BY AllInvariant, Fences, PTL
-----------------------------------------------------------------------------
(* What agents owe survives.  The manager keeps the list of the agents in  *)
(* its session and writes all of it: so what a session has on disk of the  *)
(* agents that were returned is what the manager has in its runs, or, while*)
(* a resume waits, what that has read; but for an input that is on its way *)
(* to its agent, of which nothing is announced yet.                        *)

\* A run that is tracked, or whose spawn failed, is disowned.
Marked(r) == r.tracked \/ r.woken = "caller" => r.detached

\* A completion that waits for the session is the last one the run owes, or older.
Due(a, r, box) ==
  \A d \in box : d[1] = a =>
    d[2] <= r.epoch /\ (d[2] = r.epoch => r.cb \in {"pending", "injected"})

\* The snapshot n is that of the run, or the run has an input on its way.
Written(a, n, r, box) ==
  \/ n.epoch = r.epoch /\ n.cb = r.cb
  \/ r.ctl = "queueing" /\ r.cb = "pending" /\ \A d \in box : d[1] = a => d[2] # r.epoch

\* Two snapshots owe the same, or neither is there.
Alike(n, m) == (n.status = "none" <=> m.status = "none") /\ n.epoch = m.epoch /\ n.cb = m.cb

\* An agent has one spawn under way, and was not returned before it ends.
Spawned ==
  \A o, p \in Runs : run[o].spawning =>
    known[o[1]] = "born" /\ (run[p].spawning /\ p[1] = o[1] => p = o)

\* The runs that the ids name are the session's; nobody has disowned them while it is open.
Ours ==
  resuming = None =>
    /\ storage = session
    /\ \A o \in Runs : runOf[o[1]] = o =>
         /\ run[o].ses = session
         /\ life \in {"open", "leaving"} => ~run[o].detached /\ run[o].gen = gen

\* Completions wait for a session that is open, and for agents that were spawned.
Waiting ==
  /\ life # "open" \/ resuming # None => outbox = {}
  /\ \A d \in outbox : known[d[1]] # "unborn"

\* The session's snapshots are those of its runs, or those a resume has read.
Listing ==
  \A a \in Agents : known[a] = "returned" =>
    /\ resuming = None => (runOf[a] # None <=> disk[session][a].status # "none")
    /\ resuming # None => Alike(loaded[a], disk[session][a])

Debts ==
  life = "open" /\ resuming = None =>
    \A o \in Runs : runOf[o[1]] = o =>
      /\ Due(o[1], run[o], outbox)
      /\ known[o[1]] = "returned" => Written(o[1], disk[session][o[1]], run[o], outbox)

Stored == (\A o \in Runs : Marked(run[o])) /\ Spawned /\ Ours /\ Waiting /\ Listing /\ Debts

\* No agent that was returned is dropped from the snapshots of a session.
Remembered ==
  \A s \in Sessions, a \in Agents :
    (known[a] = "returned" /\ disk[s][a].status # "none") => disk'[s][a].status # "none"

LEMMA SameDisk == disk' = disk => Remembered
BY DEF Remembered

\* Persisting writes what the runs of the session are.
LEMMA Saves ==
  ASSUME Inv, Stored, resuming = None, NEW rr \in [Runs -> Run],
         \A o \in Runs : rr[o].ses = run[o].ses, disk' = Persisted(rr)
  PROVE  /\ \A o \in Runs : runOf[o[1]] = o =>
              LET n == disk'[session][o[1]]
              IN n.status # "none" /\ n.epoch = rr[o].epoch /\ n.cb = rr[o].cb
         /\ \A a \in Agents : runOf[a] # None <=> disk'[session][a].status # "none"
         /\ \A s \in Sessions : s # session => disk'[s] = disk[s]
         /\ Remembered
<1>0. /\ session \in Sessions /\ storage = session
      /\ disk \in [Sessions -> [Agents -> Snap]]
      /\ runOf \in [Agents -> Runs \union {None}]
      /\ \A a \in Agents : runOf[a] # None => runOf[a][1] = a
      /\ \A o \in Runs : runOf[o[1]] = o => run[o].ses = session
  BY DEF Inv, Types, Stored, Ours
<1>1. \A a \in Agents : runOf[a] = None => Listed(rr)[a].status = "none"
  BY DEF Listed, NoSnap
<1>2. ASSUME NEW o \in Runs, runOf[o[1]] = o
      PROVE  LET n == Listed(rr)[o[1]]
             IN n.status # "none" /\ n.epoch = rr[o].epoch /\ n.cb = rr[o].cb
  <2>1. /\ Listed(rr)[o[1]] = [status |-> rr[o].status, cb |-> rr[o].cb, epoch |-> rr[o].epoch]
    BY <1>0, <1>2, NoneAssumption DEF Listed
  <2>2. rr[o].status # "none"
    BY DEF Run
  <2> QED BY <2>1, <2>2
<1>3. disk' = [disk EXCEPT ![session] = Listed(rr)]
  BY <1>0 DEF Persisted
<1>4. \A a \in Agents : runOf[a] # None => runOf[a] \in Runs /\ runOf[runOf[a][1]] = runOf[a]
  BY <1>0
<1>5. \A a \in Agents : runOf[a] # None <=> Listed(rr)[a].status # "none"
  BY <1>0, <1>1, <1>2, <1>4
<1> HIDE DEF Stored
<1>6. Remembered
  BY <1>0, <1>3, <1>5 DEF Remembered, Stored, Listing
<1> QED BY <1>0, <1>2, <1>3, <1>5, <1>6

LEMMA BlankMarked == Marked(Blank) /\ ~Blank.spawning
<1>1. ~Blank.tracked /\ Blank.woken = "no" /\ ~Blank.spawning
  BY Zenon DEF Blank
<1> QED BY <1>1 DEF Marked

\* What a run may become in a step that changes it alone.
Tidy(r, q) ==
  /\ q.ses = r.ses /\ q.gen = r.gen /\ (q.detached <=> r.detached)
  /\ Marked(q) /\ (q.spawning => r.spawning)

\* The step persists, with the run o as q.
Writes(o, q) ==
  /\ resuming = None
  /\ \E rr \in [Runs -> Run] :
       /\ disk' = Persisted(rr)
       /\ \A p \in Runs : rr[p].ses = run[p].ses
       /\ \A p \in Runs : p # o => rr[p].epoch = run[p].epoch /\ rr[p].cb = run[p].cb
       /\ rr[o].epoch = q.epoch /\ rr[o].cb = q.cb

\* Such a step keeps what is stored, also when it returns the agent it has spawned.
LEMMA SetStored ==
  ASSUME Inv, Stored, NEW o \in Runs, NEW q \in Run, Set(o, q), UNCHANGED switchVars,
         Tidy(run[o], q),
         \/ UNCHANGED <<disk, known>>
         \/ Writes(o, q) /\ UNCHANGED known
         \/ /\ Writes(o, q) /\ known' = [known EXCEPT ![o[1]] = "returned"]
            /\ runOf[o[1]] = o /\ run[o].spawning /\ ~q.spawning,
         \A d \in outbox' : d \in outbox \/ (d[1] = o[1] /\ runOf[o[1]] = o),
         life # "open" \/ resuming # None => outbox' = {},
         (life = "open" /\ resuming = None /\ runOf[o[1]] = o) =>
           /\ Due(o[1], q, outbox')
           /\ ~Writes(o, q) /\ known[o[1]] = "returned" =>
                Written(o[1], disk[session][o[1]], q, outbox')
  PROVE  Stored' /\ Remembered
<1> DEFINE u == [run EXCEPT ![o] = q]
<1>0. /\ run \in [Runs -> Run] /\ runOf \in [Agents -> Runs \union {None}]
      /\ \A a \in Agents : runOf[a] # None => runOf[a] \in Runs /\ runOf[a][1] = a
      /\ known \in [Agents -> {"unborn", "born", "returned"}]
      /\ outbox \subseteq Agents \X (0..MaxEpoch) /\ o[1] \in Agents
      /\ UNCHANGED <<session, storage, gen, life, resuming, loaded>>
  BY DEF Inv, Types, switchVars
<1>1. u[o] = q /\ \A p \in Runs : p # o => u[p] = run[p]
  BY <1>0
<1>2. /\ runOf' = runOf
      /\ \A p \in Runs : run'[p] \in {u[p], Blank} /\ (runOf[p[1]] = p => run'[p] = u[p])
  BY DEF Set, Swept
<1> HIDE DEF u
<1>3. \A p \in Runs : Marked(run'[p]) /\ (run'[p].spawning => run[p].spawning)
  BY <1>1, <1>2, BlankMarked DEF Stored, Tidy
<1>4. \A p \in Runs : runOf[p[1]] = p =>
        /\ p # o => run'[p] = run[p]
        /\ p = o => run'[p] = q
  BY <1>1, <1>2
<1>5. Spawned'
  <2>1. CASE UNCHANGED known
    BY <1>3, <2>1 DEF Stored, Spawned
  <2>2. CASE /\ known' = [known EXCEPT ![o[1]] = "returned"]
             /\ runOf[o[1]] = o /\ run[o].spawning /\ ~q.spawning
    <3>1. run'[o] = q
      BY <1>4, <2>2
    <3>2. \A p \in Runs : run'[p].spawning => run[p].spawning /\ p[1] # o[1]
      BY <1>3, <2>2, <3>1 DEF Stored, Spawned
    <3>3. \A p \in Runs : p[1] # o[1] => known'[p[1]] = known[p[1]]
      BY <1>0, <2>2
    <3> QED BY <1>3, <3>2, <3>3 DEF Stored, Spawned
  <2> QED BY <2>1, <2>2
<1>6. Ours'
  BY <1>0, <1>2, <1>4 DEF Stored, Ours, Tidy
<1>7. \A a \in Agents : known'[a] = "returned" =>
        known[a] = "returned" \/ (a = o[1] /\ Writes(o, q) /\ runOf[a] # None)
  BY <1>0, NoneAssumption
<1>8. \A a \in Agents : known'[a] = "unborn" => known[a] = "unborn"
  BY <1>0
<1>9. Waiting'
  <2>1. runOf[o[1]] = o => known[o[1]] # "unborn"
    BY <1>0, NoneAssumption DEF Inv, Unborn
  <2> QED BY <1>0, <1>8, <2>1 DEF Stored, Waiting
<1>10. ASSUME UNCHANGED disk, ~Writes(o, q), \A a \in Agents : known'[a] = "returned" => known[a] = "returned"
       PROVE  Listing' /\ Debts' /\ Remembered
  <2>1. Listing'
    BY <1>0, <1>2, <1>10 DEF Stored, Listing, Alike
  <2>2. Debts'
    <3> SUFFICES ASSUME life = "open", resuming = None, NEW p \in Runs, runOf[p[1]] = p
                 PROVE  /\ Due(p[1], run'[p], outbox')
                        /\ known'[p[1]] = "returned" =>
                             Written(p[1], disk[session][p[1]], run'[p], outbox')
      BY <1>0, <1>2, <1>10 DEF Debts
    <3>1. CASE p = o
      BY <1>0, <1>4, <1>10, <3>1
    <3>2. CASE p # o
      <4>1. run'[p] = run[p] /\ p[1] \in Agents
        BY <1>4, <3>2
      <4>2. \A d \in outbox' : d[1] = p[1] => d \in outbox
        BY <3>2
      <4>3. /\ Due(p[1], run[p], outbox)
            /\ known[p[1]] = "returned" => Written(p[1], disk[session][p[1]], run[p], outbox)
        BY DEF Stored, Debts
      <4> QED BY <1>10, <4>1, <4>2, <4>3 DEF Due, Written
    <3> QED BY <3>1, <3>2
  <2> QED BY <1>10, <2>1, <2>2, SameDisk
<1>11. ASSUME Writes(o, q)
       PROVE  Listing' /\ Debts' /\ Remembered
  <2>1. PICK rr \in [Runs -> Run] :
          /\ disk' = Persisted(rr)
          /\ \A p \in Runs : rr[p].ses = run[p].ses
          /\ \A p \in Runs : p # o => rr[p].epoch = run[p].epoch /\ rr[p].cb = run[p].cb
          /\ rr[o].epoch = q.epoch /\ rr[o].cb = q.cb
    BY <1>11 DEF Writes
  <2>2. resuming = None
    BY <1>11 DEF Writes
  <2>3. /\ \A p \in Runs : runOf[p[1]] = p =>
              LET n == disk'[session][p[1]]
              IN n.status # "none" /\ n.epoch = rr[p].epoch /\ n.cb = rr[p].cb
        /\ \A a \in Agents : runOf[a] # None <=> disk'[session][a].status # "none"
        /\ Remembered
    BY <2>1, <2>2, Saves
  <2>4. Listing'
    BY <1>0, <1>2, <2>2, <2>3 DEF Listing
  <2>5. Debts'
    <3> SUFFICES ASSUME life = "open", NEW p \in Runs, runOf[p[1]] = p
                 PROVE  /\ Due(p[1], run'[p], outbox')
                        /\ Written(p[1], disk'[session][p[1]], run'[p], outbox')
      BY <1>0, <1>2 DEF Debts
    <3>1. Written(p[1], disk'[session][p[1]], run'[p], outbox')
      BY <1>4, <2>1, <2>3 DEF Written
    <3>2. Due(p[1], run'[p], outbox')
      <4>1. CASE p = o
        BY <1>4, <2>2, <4>1
      <4>2. CASE p # o
        <5>1. run'[p] = run[p]
          BY <1>4, <4>2
        <5>2. \A d \in outbox' : d[1] = p[1] => d \in outbox
          BY <4>2
        <5>3. Due(p[1], run[p], outbox)
          BY <2>2 DEF Stored, Debts
        <5> QED BY <5>1, <5>2, <5>3 DEF Due
      <4> QED BY <4>1, <4>2
    <3> QED BY <3>1, <3>2
  <2> QED BY <2>3, <2>4, <2>5
<1>12. Listing' /\ Debts' /\ Remembered
  BY <1>10, <1>11
<1>13. (\A p \in Runs : Marked(run[p]))'
  BY <1>3 DEF Marked
<1> QED BY <1>5, <1>6, <1>9, <1>12, <1>13 DEF Stored

\* A run that goes on as whose it was and owing what it owed.
Plain(r, q) ==
  /\ q \in Run /\ q.ses = r.ses /\ q.gen = r.gen /\ (q.detached <=> r.detached)
  /\ (q.tracked => r.tracked) /\ (q.woken = "caller" => r.woken = "caller")
  /\ (q.spawning => r.spawning) /\ q.epoch = r.epoch /\ q.cb = r.cb

LEMMA PlainPhase ==
  ASSUME NEW r \in Run,
         NEW phase \in {"none", "new", "parked", "slot", "finalizing", "over"} \union Executing
  PROVE  Plain(r, [r EXCEPT !.phase = phase]) /\ [r EXCEPT !.phase = phase].ctl = r.ctl
BY DEF Plain, Run

LEMMA PlainStatus ==
  ASSUME NEW r \in Run, NEW status \in {"queued", "running"} \union Terminal
  PROVE  Plain(r, [r EXCEPT !.status = status]) /\ [r EXCEPT !.status = status].ctl = r.ctl
BY DEF Plain, Run

LEMMA PlainHit ==
  ASSUME NEW r \in Run
  PROVE  Plain(r, [r EXCEPT !.hit = FALSE]) /\ [r EXCEPT !.hit = FALSE].ctl = r.ctl
<1>1. [r EXCEPT !.hit = FALSE] \in Run
  BY Zenon DEF Run
<1> QED BY <1>1 DEF Plain, Run

LEMMA PlainStart ==
  ASSUME NEW r \in Run
  PROVE  Plain(r, [r EXCEPT !.start = TRUE]) /\ [r EXCEPT !.start = TRUE].ctl = r.ctl
<1>1. [r EXCEPT !.start = TRUE] \in Run
  BY Zenon DEF Run
<1> QED BY <1>1 DEF Plain, Run

LEMMA PlainTold ==
  ASSUME NEW r \in Run, NEW told \in Nat
  PROVE  Plain(r, [r EXCEPT !.told = told]) /\ [r EXCEPT !.told = told].ctl = r.ctl
BY DEF Plain, Run

LEMMA PlainCtl ==
  ASSUME NEW r \in Run,
         NEW ctl \in {"free", "cancelling", "finalizing", "interrupting", "queueing"}
  PROVE  Plain(r, [r EXCEPT !.ctl = ctl]) /\ [r EXCEPT !.ctl = ctl].ctl = ctl
BY DEF Plain, Run

LEMMA PlainWoken ==
  ASSUME NEW r \in Run, NEW by \in {"run", "waiter", "input", "switch", "close"}
  PROVE  Plain(r, Woken(r, by)) /\ Woken(r, by).ctl = r.ctl
<1>1. Woken(r, by) \in Run
  BY RunForms
<1> QED BY <1>1 DEF Plain, Woken, Run

LEMMA PlainCancelled ==
  ASSUME NEW r \in Run
  PROVE  Plain(r, Cancelled(r)) /\ Cancelled(r).ctl = r.ctl
<1>1. Cancelled(r) \in Run
  BY RunForms
<1> QED BY <1>1 DEF Plain, Cancelled, Run

LEMMA PlainRun == ASSUME NEW r, NEW q, Plain(r, q) PROVE q \in Run
BY DEF Plain

LEMMA PlainTwice ==
  ASSUME NEW r, NEW q, NEW t, Plain(r, q), Plain(q, t)
  PROVE  Plain(r, t)
BY DEF Plain

\* A run that goes on, and what it announces, keep what is stored.
LEMMA PlainStored ==
  ASSUME Inv, Ruled, Stored, NEW o \in Runs, NEW q, Set(o, q), Plain(run[o], q),
         UNCHANGED <<switchVars, known>>,
         UNCHANGED disk \/ (resuming = None /\ disk' = Persisted(run)),
         run[o].ctl = "queueing" => q.ctl = "queueing" \/ disk' = Persisted(run) \/ ~Current(o),
         \/ UNCHANGED outbox
         \/ /\ outbox' = outbox \union {<<o[1], run[o].epoch>>}
            /\ Current(o) /\ life = "open" /\ run[o].cb = "pending" /\ run[o].ctl # "queueing"
  PROVE  Stored' /\ Remembered
<1>0. run \in [Runs -> Run] /\ q \in Run /\ Marked(run[o]) /\ run[o].epoch \in Nat
      /\ outbox \subseteq Agents \X (0..MaxEpoch)
  BY DEF Inv, Types, Stored, Plain, Run
<1>1. Tidy(run[o], q)
  BY <1>0 DEF Plain, Tidy, Marked
<1>2. UNCHANGED disk \/ Writes(o, q)
  BY <1>0 DEF Writes, Plain
<1>3. \A d \in outbox' : d \in outbox \/ (d[1] = o[1] /\ runOf[o[1]] = o)
  BY DEF Current
<1>4. life # "open" \/ resuming # None => outbox' = {}
  BY CurrentOpen DEF Stored, Waiting
<1>5. ASSUME life = "open", resuming = None, runOf[o[1]] = o
      PROVE  /\ Due(o[1], q, outbox')
             /\ ~Writes(o, q) /\ known[o[1]] = "returned" =>
                  Written(o[1], disk[session][o[1]], q, outbox')
  <2>1. /\ Due(o[1], run[o], outbox) /\ Current(o)
        /\ known[o[1]] = "returned" => Written(o[1], disk[session][o[1]], run[o], outbox)
    BY <1>5 DEF Stored, Debts, Ours, Current
  <2>2. Due(o[1], q, outbox')
    BY <1>0, <2>1 DEF Due, Plain
  <2>3. ASSUME ~Writes(o, q), known[o[1]] = "returned"
        PROVE  Written(o[1], disk[session][o[1]], q, outbox')
    <3>1. CASE disk[session][o[1]].epoch = run[o].epoch /\ disk[session][o[1]].cb = run[o].cb
      BY <3>1 DEF Written, Plain
    <3>2. CASE ~(disk[session][o[1]].epoch = run[o].epoch /\ disk[session][o[1]].cb = run[o].cb)
      <4>1. /\ run[o].ctl = "queueing" /\ run[o].cb = "pending"
            /\ \A d \in outbox : d[1] = o[1] => d[2] # run[o].epoch
        BY <2>1, <2>3, <3>2 DEF Written
      <4>2. UNCHANGED outbox
        BY <4>1
      <4>3. CASE q.ctl = "queueing"
        BY <4>1, <4>2, <4>3 DEF Written, Plain
      <4>4. disk' # Persisted(run)
        BY <1>0, <1>5, <2>3 DEF Writes, Plain
      <4> QED BY <2>1, <4>1, <4>3, <4>4
    <3> QED BY <3>1, <3>2
  <2> QED BY <2>2, <2>3
<1> QED BY <1>0, <1>1, <1>2, <1>3, <1>4, <1>5, SetStored

\* The runs are written again, or completions are dropped.
LEMMA SameStored ==
  ASSUME Inv, Stored, UNCHANGED <<switchVars, runOf, run, known>>, outbox' \subseteq outbox,
         UNCHANGED disk \/ (resuming = None /\ disk' = Persisted(run))
  PROVE  Stored' /\ Remembered
<1>0. /\ run \in [Runs -> Run] /\ outbox \subseteq Agents \X (0..MaxEpoch)
      /\ UNCHANGED <<session, storage, gen, life, resuming, loaded>>
  BY DEF Inv, Types, switchVars
<1>1. (\A o \in Runs : Marked(run[o]))' /\ Spawned' /\ Ours' /\ Waiting'
  BY <1>0 DEF Stored, Marked, Spawned, Ours, Waiting
<1>2. CASE UNCHANGED disk
  <2>1. Listing'
    BY <1>0, <1>2 DEF Stored, Listing, Alike
  <2>2. Debts'
    BY <1>0, <1>2 DEF Stored, Debts, Due, Written
  <2> QED BY <1>1, <1>2, <2>1, <2>2, SameDisk DEF Stored
<1>3. CASE resuming = None /\ disk' = Persisted(run)
  <2>1. /\ \A o \in Runs : runOf[o[1]] = o =>
              LET n == disk'[session][o[1]]
              IN n.status # "none" /\ n.epoch = run[o].epoch /\ n.cb = run[o].cb
        /\ \A a \in Agents : runOf[a] # None <=> disk'[session][a].status # "none"
        /\ Remembered
    BY <1>0, <1>3, Saves
  <2>2. Listing'
    BY <1>0, <1>3, <2>1 DEF Listing
  <2>3. Debts'
    BY <1>0, <1>3, <2>1 DEF Stored, Debts, Due, Written
  <2> QED BY <1>1, <2>1, <2>2, <2>3 DEF Stored
<1> QED BY <1>2, <1>3

\* A run that is persisted because it is current is not persisted while a resume waits.
LEMMA PersistsOwn ==
  ASSUME Inv, Ruled, NEW o \in Runs, NEW p, p => Current(o), disk' = PersistedIf(p, run)
  PROVE  UNCHANGED disk \/ (resuming = None /\ disk' = Persisted(run))
BY CurrentOpen DEF PersistedIf

\* An end that is settled announces what the run owes.
LEMMA SettledStored ==
  ASSUME Inv, Ruled, Stored, NEW o \in Runs, NEW q, Settled(o, q), Plain(run[o], q),
         q.told \in Nat, UNCHANGED <<switchVars, known>>, run[o].ctl # "queueing",
         UNCHANGED disk \/ (resuming = None /\ disk' = Persisted(run))
  PROVE  Stored' /\ Remembered
<1> DEFINE w == Woken(q, "run")
           owed == Current(o) /\ life = "open" /\ run[o].cb = "pending"
           n == IF owed THEN w.told + 1 ELSE w.told
           t == [w EXCEPT !.told = n]
<1>1. Plain(run[o], w) /\ w \in Run
  BY PlainWoken, PlainTwice, PlainRun
<1>2. n \in Nat
  BY <1>1 DEF Run
<1>3. Set(o, t) /\ outbox' = IF owed THEN outbox \union {<<o[1], run[o].epoch>>} ELSE outbox
  BY Zenon DEF Settled
<1> HIDE DEF w, n
<1>4. Plain(run[o], t)
  BY <1>1, <1>2, PlainTold, PlainTwice
<1> HIDE DEF t
<1> QED BY <1>3, <1>4, PlainStored

LEMMA StoredTasks ==
  ASSUME Inv, Ruled, Stored, NEW o \in Runs,
         \/ Begin(o) \/ Enter(o) \/ Acquire(o) \/ Emitted(o) \/ ToolsLoaded(o) \/ QueryEnds(o)
         \/ Released(o) \/ Finalized(o) \/ Thrown(o)
  PROVE  Stored' /\ Remembered
<1>0. run[o] \in Run /\ run \in [Runs -> Run] /\ Sane(run[o]) /\ Past(run[o]) /\ Marked(run[o])
  BY DEF Inv, Types, Ruled, Stored
<1>g. ASSUME NEW q, Set(o, q), Plain(run[o], q), q.ctl = run[o].ctl,
             UNCHANGED <<switchVars, outbox, known>>,
             UNCHANGED disk \/ (resuming = None /\ disk' = Persisted(run))
      PROVE  Stored' /\ Remembered
  BY <1>g, PlainStored
<1>p. ASSUME NEW phase \in {"parked", "over", "slot", "starting", "querying", "ending", "handling",
                            "releasing", "finalizing"},
             NEW status \in {"queued", "running"} \union Terminal
      PROVE  LET a == [run[o] EXCEPT !.phase = phase]
                 b == [run[o] EXCEPT !.phase = phase, !.status = status]
                 c == [run[o] EXCEPT !.status = status, !.phase = phase]
                 d == [run[o] EXCEPT !.hit = FALSE, !.phase = phase]
                 e == [run[o] EXCEPT !.hit = FALSE, !.phase = phase, !.status = status]
                 f == [run[o] EXCEPT !.phase = phase, !.hit = FALSE]
             IN \A q \in {a, b, c, d, e, f} : Plain(run[o], q) /\ q.ctl = run[o].ctl
  <2>1. ASSUME NEW r \in Run
        PROVE  /\ LET q == [r EXCEPT !.phase = phase] IN Plain(r, q) /\ q.ctl = r.ctl /\ q \in Run
               /\ LET q == [r EXCEPT !.status = status] IN Plain(r, q) /\ q.ctl = r.ctl /\ q \in Run
               /\ LET q == [r EXCEPT !.hit = FALSE] IN Plain(r, q) /\ q.ctl = r.ctl /\ q \in Run
    BY Zenon, PlainPhase, PlainStatus, PlainHit, PlainRun
  <2> DEFINE r == run[o]
             a == [r EXCEPT !.phase = phase]
             s == [r EXCEPT !.status = status]
             h == [r EXCEPT !.hit = FALSE]
             d == [h EXCEPT !.phase = phase]
  <2>2. /\ Plain(r, a) /\ a.ctl = r.ctl /\ a \in Run
        /\ Plain(r, s) /\ s.ctl = r.ctl /\ s \in Run
        /\ Plain(r, h) /\ h.ctl = r.ctl /\ h \in Run
    BY <1>0, <2>1
  <2>3. Plain(r, d) /\ d.ctl = r.ctl /\ d \in Run
    BY <2>1, <2>2, PlainTwice
  <2>4. LET b == [a EXCEPT !.status = status] IN Plain(r, b) /\ b.ctl = r.ctl
    BY <2>1, <2>2, PlainTwice
  <2>5. LET c == [s EXCEPT !.phase = phase] IN Plain(r, c) /\ c.ctl = r.ctl
    BY <2>1, <2>2, PlainTwice
  <2>6. LET e == [d EXCEPT !.status = status] IN Plain(r, e) /\ e.ctl = r.ctl
    BY <2>1, <2>3, PlainTwice
  <2>7. LET f == [a EXCEPT !.hit = FALSE] IN Plain(r, f) /\ f.ctl = r.ctl
    BY <2>1, <2>2, PlainTwice
  <2> QED BY <2>2, <2>3, <2>4, <2>5, <2>6, <2>7
<1>1. CASE Begin(o) \/ Enter(o) \/ Acquire(o)
  BY <1>1, <1>g, <1>p DEF Begin, Enter, Acquire, Goto
<1>2. CASE Emitted(o)
  <2>1. PICK p \in {<<"starting", "querying">>, <<"ending", "releasing">>, <<"handling", "releasing">>} :
          /\ Set(o, [run[o] EXCEPT !.phase = p[2]])
          /\ disk' = PersistedIf(Current(o), run)
          /\ UNCHANGED <<switchVars, outbox, known>>
    BY Zenon, <1>2 DEF Emitted
  <2>2. PICK phase \in {"querying", "releasing"} : Set(o, [run[o] EXCEPT !.phase = phase])
    BY <2>1
  <2>3. LET q == [run[o] EXCEPT !.phase = phase] IN Plain(run[o], q) /\ q.ctl = run[o].ctl
    BY <1>0, PlainPhase
  <2>4. UNCHANGED disk \/ (resuming = None /\ disk' = Persisted(run))
    BY <2>1, PersistsOwn
  <2> QED BY <1>g, <2>1, <2>2, <2>3, <2>4
<1>3. CASE ToolsLoaded(o)
  <2>1. resuming = None
    BY <1>0, <1>3 DEF ToolsLoaded, Ready, Sane, Past, Marked, Acts, Live
  <2> QED BY <1>3, <2>1, SameStored DEF ToolsLoaded
<1>4. CASE QueryEnds(o)
  <2>1. PICK end \in {<<"completed", "ending">>, <<"failed", "ending">>, <<"failed", "handling">>} :
          /\ Set(o, [run[o] EXCEPT !.status = end[1], !.phase = end[2]])
          /\ UNCHANGED <<switchVars, disk, outbox, known>>
    BY Zenon, <1>4 DEF QueryEnds
  <2> DEFINE status == end[1]
             phase == end[2]
  <2>2. /\ status \in Terminal /\ phase \in {"ending", "handling"}
        /\ Set(o, [run[o] EXCEPT !.status = status, !.phase = phase])
    BY <2>1
  <2> HIDE DEF status, phase
  <2>3. LET q == [run[o] EXCEPT !.status = status, !.phase = phase]
        IN Plain(run[o], q) /\ q.ctl = run[o].ctl
    BY ZenonT(60), <1>p, <2>2
  <2> QED BY <1>g, <2>1, <2>2, <2>3
<1>o. Plain(run[o], Over(o)) /\ Over(o).ctl = run[o].ctl /\ Over(o).told \in Nat
  <2>1. "stopped" \in Terminal
    OBVIOUS
  <2>2. Plain(run[o], Over(o)) /\ Over(o).ctl = run[o].ctl
    BY <1>p, <2>1 DEF Over
  <2> QED BY <2>2 DEF Plain, Run
<1>5. CASE Released(o)
  BY <1>0, <1>5, <1>o, SettledStored DEF Released, Sane, Live
<1>6. CASE Finalized(o)
  BY <1>0, <1>6, <1>o, SettledStored, PersistsOwn DEF Finalized, Ready, Sane, Live
<1>7. CASE Thrown(o)
  <2>1. UNCHANGED <<switchVars, disk, known>>
    BY <1>7 DEF Thrown
  <2>2. CASE run[o].phase = "finalizing" /\ Settled(o, Over(o))
    BY <1>0, <1>o, <2>1, <2>2, SettledStored DEF Sane, Live
  <2>3. CASE Set(o, Over(o)) /\ UNCHANGED outbox
    BY <1>g, <1>o, <2>1, <2>3
  <2>4. CASE ~((run[o].phase = "finalizing" /\ Settled(o, Over(o))) \/ (Set(o, Over(o)) /\ UNCHANGED outbox))
    <3>1. \E phase \in {"finalizing", "handling", "releasing"} :
            /\ UNCHANGED outbox
            /\ \/ Set(o, [run[o] EXCEPT !.hit = FALSE, !.phase = phase])
               \/ Set(o, [run[o] EXCEPT !.hit = FALSE, !.phase = phase, !.status = "stopped"])
      BY <1>7, <2>4 DEF Thrown
    <3> QED BY ZenonT(60), <1>g, <1>p, <2>1, <3>1
  <2> QED BY <2>2, <2>3, <2>4
<1> QED BY <1>1, <1>2, <1>3, <1>4, <1>5, <1>6, <1>7

LEMMA StoredControls ==
  ASSUME Inv, Ruled, Stored, NEW o \in Runs,
         \/ Fence(o) \/ CancelAgent(o) \/ CallerCancelled(o) \/ CancelDone(o) \/ CancelFinalized(o)
         \/ Interrupt(o) \/ InterruptVoid(o) \/ Queued(o)
  PROVE  Stored' /\ Remembered
<1>0. run[o] \in Run /\ run \in [Runs -> Run] /\ Sane(run[o])
  BY DEF Inv, Types, Ruled
<1>g. ASSUME NEW q, Set(o, q), Plain(run[o], q), run[o].ctl # "queueing" \/ q.ctl = run[o].ctl,
             UNCHANGED <<switchVars, disk, outbox, known>>
      PROVE  Stored' /\ Remembered
  BY <1>g, PlainStored
<1>1. CASE Fence(o)
  BY <1>0, <1>1, <1>g, PlainWoken DEF Fence
<1>2. CASE CallerCancelled(o)
  BY <1>0, <1>2, <1>g, PlainCancelled DEF CallerCancelled
<1>3. CASE CancelAgent(o) \/ Interrupt(o)
  <2>1. PICK ctl \in {"cancelling", "interrupting"} : Set(o, [Cancelled(run[o]) EXCEPT !.ctl = ctl])
    BY <1>3 DEF CancelAgent, Interrupt
  <2>2. Plain(run[o], [Cancelled(run[o]) EXCEPT !.ctl = ctl])
    BY <1>0, PlainCancelled, PlainRun, PlainCtl, PlainTwice
  <2> QED BY <1>3, <1>g, <2>1, <2>2 DEF CancelAgent, Interrupt, Controllable
<1>4. ASSUME NEW ctl \in {"free", "finalizing"}
      PROVE  LET q == [run[o] EXCEPT !.ctl = ctl] IN Plain(run[o], q) /\ q \in Run
  BY <1>0, PlainCtl, PlainRun
<1>5. CASE InterruptVoid(o)
  BY <1>4, <1>5, <1>g DEF InterruptVoid
<1>6. CASE CancelDone(o)
  <2>1. Plain(run[o], [run[o] EXCEPT !.ctl = "finalizing", !.status = "stopped"])
    <3> DEFINE q == [run[o] EXCEPT !.ctl = "finalizing"]
    <3>1. Plain(run[o], [q EXCEPT !.status = "stopped"])
      BY <1>4, PlainStatus, PlainTwice
    <3> QED BY <3>1
  <2> QED BY <1>4, <1>6, <1>g, <2>1 DEF CancelDone
<1>7. CASE CancelFinalized(o)
  <2>1. /\ Settled(o, [run[o] EXCEPT !.ctl = "free"]) /\ run[o].ctl = "finalizing"
        /\ UNCHANGED <<switchVars, known>>
    BY <1>7 DEF CancelFinalized
  <2>2. PICK delivered \in BOOLEAN : disk' = PersistedIf(delivered /\ Current(o), run)
    BY <1>7 DEF CancelFinalized
  <2>3. UNCHANGED disk \/ (resuming = None /\ disk' = Persisted(run))
    BY <2>2, PersistsOwn
  <2>4. [run[o] EXCEPT !.ctl = "free"].told \in Nat
    BY <1>4 DEF Run
  <2> QED BY <1>4, <2>1, <2>3, <2>4, SettledStored
<1>8. CASE Queued(o)
  <2> DEFINE f == [run[o] EXCEPT !.ctl = "free"]
             r == [f EXCEPT !.start = TRUE]
             q == IF Current(o) THEN [r EXCEPT !.phase = "new"] ELSE Woken(r, "input")
  <2>1. Plain(run[o], r) /\ r \in Run
    BY <1>4, PlainStart, PlainTwice, PlainRun
  <2>2. Set(o, q) /\ disk' = PersistedIf(Current(o), run) /\ UNCHANGED <<switchVars, outbox, known>>
    BY <1>8 DEF Queued
  <2> HIDE DEF r
  <2>3. Plain(run[o], q)
    BY <2>1, PlainPhase, PlainWoken, PlainTwice
  <2>4. UNCHANGED disk \/ (resuming = None /\ disk' = Persisted(run))
    BY <2>2, PersistsOwn
  <2>5. disk' = Persisted(run) \/ ~Current(o)
    BY <2>2 DEF PersistedIf
  <2> HIDE DEF q
  <2> QED BY <2>2, <2>3, <2>4, <2>5, PlainStored
<1> QED BY <1>1, <1>2, <1>3, <1>5, <1>6, <1>7, <1>8

LEMMA StoredReturns ==
  ASSUME Inv, Ruled, Stored, NEW o \in Runs, SpawnReturns(o)
  PROVE  Stored' /\ Remembered
<1> DEFINE q == [run[o] EXCEPT !.start = TRUE, !.spawning = FALSE]
           rr == [run EXCEPT ![o] = q]
<1>0. run[o] \in Run /\ run \in [Runs -> Run] /\ Marked(run[o])
  BY DEF Inv, Types, Stored
<1>1. q \in Run /\ ~q.spawning
  BY Zenon, <1>0 DEF Run
<1>2. /\ q.ses = run[o].ses /\ q.gen = run[o].gen /\ q.detached = run[o].detached
      /\ q.tracked = run[o].tracked /\ q.woken = run[o].woken
      /\ q.epoch = run[o].epoch /\ q.cb = run[o].cb
  BY <1>0 DEF Run
<1>3. /\ Set(o, q) /\ UNCHANGED <<switchVars, outbox>> /\ disk' = Persisted(rr)
      /\ run[o].spawning /\ Current(o) /\ known' = [known EXCEPT ![o[1]] = "returned"]
  BY DEF SpawnReturns
<1> HIDE DEF q
<1>4. rr \in [Runs -> Run] /\ rr[o] = q /\ \A p \in Runs : p # o => rr[p] = run[p]
  BY <1>0, <1>1
<1> HIDE DEF rr
<1>5. resuming = None /\ runOf[o[1]] = o
  BY <1>3, CurrentOpen DEF Current
<1>6. Writes(o, q)
  BY <1>2, <1>3, <1>4, <1>5 DEF Writes
<1>7. Tidy(run[o], q)
  BY <1>0, <1>1, <1>2 DEF Tidy, Marked
<1>8. life = "open" => Due(o[1], q, outbox')
  BY <1>2, <1>3, <1>5 DEF Stored, Debts, Due
<1>9. life # "open" \/ resuming # None => outbox' = {}
  BY <1>3 DEF Stored, Waiting
<1> QED BY <1>1, <1>3, <1>5, <1>6, <1>7, <1>8, <1>9, SetStored

\* An input starts a new epoch, which nothing has announced, or repeats the last.
LEMMA StoredSendInput ==
  ASSUME Inv, Ruled, Stored, NEW o \in Runs, NEW again \in BOOLEAN, SendInput(o, again)
  PROVE  Stored' /\ Remembered
<1> DEFINE renewed == run[o].cb # "disabled" /\ ~again
           epoch == IF renewed THEN run[o].epoch + 1 ELSE run[o].epoch
           cb == IF renewed THEN "pending" ELSE run[o].cb
           q0 == [run[o] EXCEPT !.ctl = "queueing", !.woken = "no", !.told = 0, !.status = "queued"]
           q1 == [q0 EXCEPT !.start = FALSE]
           q2 == [q1 EXCEPT !.epoch = epoch]
           q == [q2 EXCEPT !.cb = cb]
<1>0. run[o] \in Run /\ run \in [Runs -> Run] /\ Marked(run[o]) /\ run[o].epoch \in Nat
      /\ outbox \subseteq Agents \X (0..MaxEpoch)
  BY DEF Inv, Types, Stored, Run
<1>1. /\ Set(o, q) /\ UNCHANGED <<switchVars, disk, outbox, known>>
      /\ Current(o) /\ run[o].ctl # "queueing"
      /\ renewed => run[o].epoch < MaxEpoch
  BY ZenonT(60) DEF SendInput, Controllable
<1>2. /\ epoch \in 0..MaxEpoch /\ cb \in {"disabled", "pending", "injected", "delivered"}
      /\ \/ epoch = run[o].epoch + 1 /\ cb = "pending"
         \/ epoch = run[o].epoch /\ cb = run[o].cb
  BY <1>0, <1>1, LimitsAssumption DEF Run
<1> HIDE DEF renewed, epoch, cb
<1>3. /\ q0 \in Run /\ q0.ses = run[o].ses /\ q0.gen = run[o].gen /\ q0.detached = run[o].detached
      /\ q0.tracked = run[o].tracked /\ q0.spawning = run[o].spawning /\ q0.woken = "no"
      /\ q0.ctl = "queueing"
  <2> DEFINE a == [run[o] EXCEPT !.ctl = "queueing"]
             b == [a EXCEPT !.woken = "no"]
  <2>1. a \in Run
    BY <1>0 DEF Run
  <2> HIDE DEF a
  <2>2. b \in Run
    BY <2>1 DEF Run
  <2> HIDE DEF b
  <2>3. [b EXCEPT !.told = 0, !.status = "queued"] \in Run
    BY Zenon, <2>2 DEF Run
  <2>4. q0 \in Run
    BY <2>3 DEF a, b
  <2> QED BY <1>0, <2>4 DEF Run
<1> HIDE DEF q0
<1>4. q1 \in Run
  BY Zenon, <1>3 DEF Run
<1>5. /\ q1.ses = q0.ses /\ q1.gen = q0.gen /\ q1.detached = q0.detached /\ q1.ctl = q0.ctl
      /\ q1.tracked = q0.tracked /\ q1.spawning = q0.spawning /\ q1.woken = q0.woken
  BY <1>3 DEF Run
<1> HIDE DEF q1
<1>6. q2 \in Run
  BY <1>2, <1>4 DEF Run
<1>7. /\ q2.ses = q1.ses /\ q2.gen = q1.gen /\ q2.detached = q1.detached /\ q2.ctl = q1.ctl
      /\ q2.tracked = q1.tracked /\ q2.spawning = q1.spawning /\ q2.woken = q1.woken
      /\ q2.epoch = epoch
  BY <1>4 DEF Run
<1> HIDE DEF q2
<1>8. q \in Run
  BY <1>2, <1>6 DEF Run
<1>9. /\ q.ses = q2.ses /\ q.gen = q2.gen /\ q.detached = q2.detached /\ q.ctl = q2.ctl
      /\ q.tracked = q2.tracked /\ q.spawning = q2.spawning /\ q.woken = q2.woken
      /\ q.epoch = q2.epoch /\ q.cb = cb
  BY <1>6 DEF Run
<1> HIDE DEF q
<1>10. Tidy(run[o], q)
  BY <1>0, <1>3, <1>5, <1>7, <1>9 DEF Tidy, Marked
<1>11. ASSUME life = "open", resuming = None
       PROVE  /\ Due(o[1], q, outbox')
              /\ known[o[1]] = "returned" => Written(o[1], disk[session][o[1]], q, outbox')
  <2>1. /\ Due(o[1], run[o], outbox) /\ UNCHANGED outbox
        /\ known[o[1]] = "returned" => Written(o[1], disk[session][o[1]], run[o], outbox)
    BY <1>1, <1>11 DEF Stored, Debts, Current
  <2>2. q.epoch = epoch /\ q.cb = cb /\ q.ctl = "queueing"
    BY <1>3, <1>5, <1>7, <1>9
  <2>3. \A d \in outbox : d[2] \in Nat
    BY <1>0
  <2>4. CASE epoch = run[o].epoch + 1 /\ cb = "pending"
    BY <1>0, <2>1, <2>2, <2>3, <2>4 DEF Due, Written
  <2>5. CASE epoch = run[o].epoch /\ cb = run[o].cb
    BY <1>1, <2>1, <2>2, <2>5 DEF Due, Written
  <2> QED BY <1>2, <2>4, <2>5
<1>12. life # "open" \/ resuming # None => outbox' = {}
  BY <1>1 DEF Stored, Waiting
<1> QED BY <1>1, <1>8, <1>10, <1>11, <1>12, SetStored

\* An input that fails writes the epoch it has started.
LEMMA StoredQueueFails ==
  ASSUME Inv, Ruled, Stored, Allowed = {}, NEW o \in Runs, QueueFails(o)
  PROVE  Stored' /\ Remembered
<1> DEFINE f == [run[o] EXCEPT !.ctl = "free"]
           g == [f EXCEPT !.start = TRUE]
           r == Woken(g, "input")
           q == IF r.detached THEN r ELSE [r EXCEPT !.status = "stopped"]
           rr == [run EXCEPT ![o] = q]
<1>0. run[o] \in Run /\ run \in [Runs -> Run] /\ Marked(run[o])
  BY DEF Inv, Types, Stored
<1>1. Plain(run[o], f) /\ f \in Run
  BY <1>0, PlainCtl, PlainRun
<1>2. Plain(f, g) /\ g \in Run
  BY <1>1, PlainStart, PlainRun
<1>3. Set(o, rr[o]) /\ disk' = Persisted(rr) /\ UNCHANGED <<switchVars, outbox, known>>
      /\ resuming = None
  BY DEF QueueFails
<1> HIDE DEF f, g
<1>4. Plain(g, r) /\ r \in Run
  BY <1>2, PlainWoken, PlainRun
<1> HIDE DEF r
<1>5. Plain(r, q) /\ q \in Run
  <2>1. Plain(r, r)
    BY <1>4 DEF Plain
  <2>2. Plain(r, [r EXCEPT !.status = "stopped"])
    BY <1>4, PlainStatus
  <2> QED BY <2>1, <2>2, PlainRun
<1> HIDE DEF q
<1>6. Plain(run[o], q)
  BY <1>1, <1>2, <1>4, <1>5, PlainTwice
<1>7. rr \in [Runs -> Run] /\ rr[o] = q /\ \A p \in Runs : p # o => rr[p] = run[p]
  BY <1>0, <1>5
<1> HIDE DEF rr
<1>8. Writes(o, q)
  BY <1>3, <1>6, <1>7 DEF Writes, Plain
<1>9. Tidy(run[o], q)
  BY <1>0, <1>6 DEF Tidy, Marked, Plain
<1>10. life = "open" /\ runOf[o[1]] = o => Due(o[1], q, outbox')
  BY <1>3, <1>6 DEF Stored, Debts, Due, Plain
<1>11. life # "open" \/ resuming # None => outbox' = {}
  BY <1>3 DEF Stored, Waiting
<1> QED BY <1>3, <1>5, <1>7, <1>8, <1>9, <1>10, <1>11, SetStored

\* What the dispatcher marks is written, and what it has delivered waits no more.
LEMMA StoredDispatch ==
  ASSUME Inv, Stored, NEW d \in outbox, Dispatch(d)
  PROVE  Stored' /\ Remembered
<1> DEFINE o == runOf[d[1]]
<1>0. /\ run \in [Runs -> Run] /\ d[1] \in Agents /\ outbox \subseteq Agents \X (0..MaxEpoch)
      /\ UNCHANGED <<switchVars, known>> /\ life = "open" /\ resuming = None
  BY DEF Inv, Types, Dispatch
<1>1. CASE UNCHANGED <<run, runOf, disk>> /\ outbox' = outbox \ {d}
  <2>1. outbox' \subseteq outbox
    BY <1>1
  <2> QED BY <1>0, <1>1, <2>1, SameStored
<1>2. ASSUME NEW to \in {"injected", "delivered"}, o # None, run[o].epoch = d[2],
             Set(o, [run[o] EXCEPT !.cb = to]), disk' = Persisted([run EXCEPT ![o].cb = to]),
             \/ to = "injected" /\ UNCHANGED outbox
             \/ outbox' = outbox \ {d}
      PROVE  Stored' /\ Remembered
  <2> DEFINE q == [run[o] EXCEPT !.cb = to]
             rr == [run EXCEPT ![o] = q]
  <2>1. o \in Runs /\ run[o] \in Run /\ o[1] = d[1] /\ runOf[o[1]] = o
    BY <1>0, <1>2 DEF Inv, Types
  <2>2. /\ q \in Run /\ q.ses = run[o].ses /\ q.gen = run[o].gen /\ q.detached = run[o].detached
        /\ q.tracked = run[o].tracked /\ q.spawning = run[o].spawning /\ q.woken = run[o].woken
        /\ q.epoch = run[o].epoch /\ q.cb = to
    BY <2>1 DEF Run
  <2>3. disk' = Persisted(rr) /\ Set(o, q)
    BY <1>2
  <2> HIDE DEF q, o
  <2>4. rr \in [Runs -> Run] /\ rr[o] = q /\ \A p \in Runs : p # o => rr[p] = run[p]
    BY <1>0, <2>1, <2>2
  <2> HIDE DEF rr
  <2>5. Writes(o, q)
    BY <1>0, <2>2, <2>3, <2>4 DEF Writes
  <2>6. Tidy(run[o], q)
    BY <2>1, <2>2 DEF Stored, Tidy, Marked
  <2>7. Due(o[1], q, outbox')
    <3>1. Due(o[1], run[o], outbox)
      BY <1>0, <2>1 DEF Stored, Debts
    <3>2. ASSUME NEW e \in outbox', e[1] = o[1]
          PROVE  e[2] <= q.epoch /\ (e[2] = q.epoch => q.cb \in {"pending", "injected"})
      <4>1. e \in outbox /\ e[2] <= run[o].epoch
        BY <1>2, <3>1, <3>2 DEF Due
      <4>2. CASE to = "injected"
        BY <2>2, <4>1, <4>2
      <4>3. CASE outbox' = outbox \ {d}
        <5>1. e[2] # run[o].epoch
          BY <1>0, <1>2, <2>1, <3>2, <4>1, <4>3
        <5> QED BY <2>2, <4>1, <5>1
      <4> QED BY <1>2, <4>2, <4>3
    <3> QED BY <3>2 DEF Due
  <2>8. \A e \in outbox' : e \in outbox
    BY <1>2
  <2> QED BY <1>0, <2>1, <2>2, <2>3, <2>5, <2>6, <2>7, <2>8, SetStored
<1> QED BY <1>0, <1>1, <1>2 DEF Dispatch

\* An agent that is spawned owes nothing yet, and was not returned.
LEMMA StoredSpawn ==
  ASSUME Inv, Ruled, Stored, NEW a \in Agents, NEW callback \in BOOLEAN, Spawn(a, callback)
  PROVE  Stored' /\ Remembered
<1> DEFINE o == FreeCopy(a, run)
           cb == IF callback THEN "pending" ELSE "disabled"
           q == [Blank EXCEPT !.ses = session, !.gen = gen, !.spawning = TRUE, !.phase = "new",
                              !.cb = cb]
<1>0. /\ run \in [Runs -> Run] /\ runOf \in [Agents -> Runs \union {None}]
      /\ known \in [Agents -> {"unborn", "born", "returned"}]
      /\ outbox \subseteq Agents \X (0..MaxEpoch)
  BY DEF Inv, Types
<1>1. o \in Runs /\ o[1] = a
  <2>1. \E c \in Copies : run[<<a, c>>] = Blank
    BY Zenon, FiniteAssumption DEF Spawn, Inv, Unborn
  <2>2. \E p \in Runs : p[1] = a /\ run[p] = Blank
    BY <2>1
  <2> QED BY <2>2 DEF FreeCopy
<1>2. /\ runOf' = [runOf EXCEPT ![a] = o] /\ run' = [run EXCEPT ![o] = q]
      /\ known' = [known EXCEPT ![a] = "born"]
      /\ UNCHANGED <<switchVars, disk, outbox>> /\ resuming = None
      /\ known[a] = "unborn"
  BY Zenon DEF Spawn
<1> HIDE DEF cb
<1>3. q.ses = session /\ q.gen = gen /\ q.woken = "no"
  BY BlankRun, BlankRuled DEF Run
<1>4. ~q.detached /\ ~q.tracked
  <2> DEFINE b == [Blank EXCEPT !.ses = session, !.gen = gen, !.phase = "new", !.cb = cb]
  <2>1. b.detached = Blank.detached /\ b.tracked = Blank.tracked
    BY BlankRun DEF Run
  <2>2. q.detached = Blank.detached /\ q.tracked = Blank.tracked
    BY BlankRun DEF Run
  <2> QED BY <2>2, BlankRuled
<1> HIDE DEF o, q
<1>5. run'[o] = q /\ \A p \in Runs : p # o => run'[p] = run[p]
  BY <1>0, <1>1, <1>2
<1>6. runOf'[a] = o /\ \A b \in Agents : b # a => runOf'[b] = runOf[b]
  BY <1>0, <1>1, <1>2
<1>7. known'[a] = "born" /\ \A b \in Agents : b # a => known'[b] = known[b]
  BY <1>0, <1>2
<1>8. \A p \in Runs : p[1] = a => ~run[p].spawning
  BY <1>2, BlankMarked DEF Inv, Unborn
<1>9. UNCHANGED <<session, storage, gen, life, resuming, loaded, disk, outbox>>
  BY <1>2 DEF switchVars
<1>10. (\A p \in Runs : Marked(run[p]))'
  BY <1>3, <1>4, <1>5 DEF Stored, Marked
<1>11. Spawned'
  BY <1>1, <1>5, <1>7, <1>8 DEF Stored, Spawned
<1>12. \A p \in Runs : p # o /\ runOf'[p[1]] = p => p[1] # a /\ runOf[p[1]] = p /\ run'[p] = run[p]
  BY <1>5, <1>6
<1>13. Ours'
  BY <1>2, <1>3, <1>4, <1>5, <1>9, <1>12 DEF Stored, Ours
<1>14. \A d \in outbox : d[1] # a /\ d[1] \in Agents
  BY <1>0, <1>2 DEF Stored, Waiting
<1>15. Waiting'
  BY <1>7, <1>9, <1>14 DEF Stored, Waiting
<1>16. Listing'
  BY <1>2, <1>6, <1>7, <1>9 DEF Stored, Listing
<1>17. Debts'
  <2> SUFFICES ASSUME life = "open", NEW p \in Runs, runOf'[p[1]] = p
               PROVE  /\ Due(p[1], run'[p], outbox)
                      /\ known'[p[1]] = "returned" =>
                           Written(p[1], disk[session][p[1]], run'[p], outbox)
    BY <1>9 DEF Debts
  <2>1. CASE p = o
    BY <1>1, <1>7, <1>14, <2>1 DEF Due
  <2>2. CASE p # o
    BY <1>2, <1>7, <1>12, <2>2 DEF Stored, Debts
  <2> QED BY <2>1, <2>2
<1> QED BY <1>9, <1>10, <1>11, <1>13, <1>15, <1>16, <1>17, SameDisk DEF Stored

\* A spawn that fails gives up its id, which is that of an agent nobody was returned.
LEMMA StoredSpawnFails ==
  ASSUME Inv, Ruled, Stored, NEW o \in Runs, SpawnFails(o)
  PROVE  Stored' /\ Remembered
<1> DEFINE c == Cancelled(run[o])
           d == [c EXCEPT !.detached = TRUE, !.spawning = FALSE]
           q == Woken(d, "caller")
           map == IF runOf[o[1]] = o THEN [runOf EXCEPT ![o[1]] = None] ELSE runOf
           u == [run EXCEPT ![o] = q]
<1>0. /\ run \in [Runs -> Run] /\ runOf \in [Agents -> Runs \union {None}]
  BY DEF Inv, Types
<1>1. /\ run' = Swept(u, map) /\ runOf' = map /\ UNCHANGED <<switchVars, disk, outbox, known>>
      /\ run[o].spawning
  BY Zenon DEF SpawnFails
<1>2. c \in Run
  BY <1>0, RunForms
<1> HIDE DEF c
<1>3. d \in Run
  BY Zenon, <1>2 DEF Run
<1>4. d.detached = TRUE /\ d.spawning = FALSE
  BY <1>2 DEF Run
<1> HIDE DEF d
<1>5. q.detached = TRUE /\ q.spawning = FALSE
  BY <1>3, <1>4 DEF Woken, Run
<1> HIDE DEF q
<1>6. u[o] = q /\ \A p \in Runs : p # o => u[p] = run[p]
  BY <1>0
<1> HIDE DEF u
<1>7. \A p \in Runs : run'[p] \in {u[p], Blank} /\ (map[p[1]] = p => run'[p] = u[p])
  BY <1>1 DEF Swept
<1>8. /\ map[o[1]] # o
      /\ \A p \in Runs : map[p[1]] = p => runOf[p[1]] = p
  <2>1. \A p \in Runs : p # None /\ p[1] \in Agents
    BY NoneAssumption
  <2> QED BY <1>0, <2>1
<1>9. \A b \in Agents : known[b] = "returned" => map[b] = runOf[b]
  <2>1. known[o[1]] = "born"
    BY <1>1 DEF Stored, Spawned
  <2> QED BY <1>0, <2>1
<1> HIDE DEF map
<1>10. \A p \in Runs : map[p[1]] = p => run'[p] = run[p] /\ runOf[p[1]] = p
  BY <1>6, <1>7, <1>8
<1>11. \A p \in Runs : Marked(run'[p]) /\ (run'[p].spawning => run[p].spawning)
  <2>1. Marked(q)
    BY <1>5 DEF Marked
  <2> QED BY <1>5, <1>6, <1>7, <2>1, BlankMarked DEF Stored
<1>12. UNCHANGED <<session, storage, gen, life, resuming, loaded, disk, outbox, known>>
  BY <1>1 DEF switchVars
<1>13. (\A p \in Runs : Marked(run[p]))'
  BY <1>11 DEF Marked
<1>14. Spawned'
  BY <1>11, <1>12 DEF Stored, Spawned
<1>15. Ours'
  BY <1>1, <1>10, <1>12 DEF Stored, Ours
<1>16. Waiting'
  BY <1>12 DEF Stored, Waiting
<1>17. Listing'
  BY <1>1, <1>9, <1>12 DEF Stored, Listing, Alike
<1>18. Debts'
  BY <1>1, <1>10, <1>12 DEF Stored, Debts
<1> QED BY <1>12, <1>13, <1>14, <1>15, <1>16, <1>17, <1>18, SameDisk DEF Stored

\* What abandoning and dropping leave of a run.
LEMMA AbandonedOwes ==
  ASSUME Inv, NEW o \in Runs, Marked(run[o])
  PROVE  LET r == run[o]
             b == Abandoned(run)[o]
         IN /\ b.ses = r.ses /\ b.epoch = r.epoch /\ b.cb = r.cb
            /\ Marked(b) /\ (b.spawning <=> r.spawning)
<1> DEFINE r == run[o]
           c == Cancelled(r)
           w == Woken(c, "switch")
           t == Live(r)
           n == IF w.status \in Terminal THEN w.status ELSE "stopped"
           w1 == [w EXCEPT !.detached = TRUE, !.tracked = t]
           w2 == [w1 EXCEPT !.status = n]
<1>0. r \in Run
  BY DEF Inv, Types
<1>1. Abandoned(run)[o] = IF runOf[o[1]] # o \/ Done(r) THEN r ELSE w2
  BY <1>0 DEF Abandoned
<1>2. Plain(r, c) /\ c \in Run
  BY <1>0, PlainCancelled, PlainRun
<1>3. c.spawning = r.spawning
  BY <1>0 DEF Cancelled, Run
<1> HIDE DEF c
<1>4. w \in Run /\ w.ses = c.ses /\ w.epoch = c.epoch /\ w.cb = c.cb /\ w.spawning = c.spawning
  <2>1. w \in Run
    BY <1>2, RunForms
  <2> QED BY <1>2, <2>1 DEF Woken, Run
<1>5. t \in BOOLEAN
  BY DEF Live
<1> HIDE DEF w, t, n
<1>6. w1 \in Run
  BY Zenon, <1>4, <1>5 DEF Run
<1>7. /\ w1.ses = w.ses /\ w1.epoch = w.epoch /\ w1.cb = w.cb /\ w1.spawning = w.spawning
      /\ w1.detached = TRUE
  BY <1>4 DEF Run
<1> HIDE DEF w1
<1>8. /\ w2.ses = w.ses /\ w2.epoch = w.epoch /\ w2.cb = w.cb /\ w2.spawning = w.spawning
      /\ w2.detached = TRUE
  BY <1>6, <1>7 DEF Run
<1> HIDE DEF w2
<1> QED BY <1>1, <1>2, <1>3, <1>4, <1>8 DEF Plain, Marked

LEMMA DroppedOwes ==
  ASSUME Inv, NEW rr \in [Runs -> Run], NEW o \in Runs, Marked(rr[o])
  PROVE  LET b == Dropped(rr)[o] IN Marked(b) /\ (b.spawning <=> rr[o].spawning)
<1> DEFINE r == rr[o]
           w == Woken(r, "switch")
           c == Cancelled(w)
           c1 == [c EXCEPT !.detached = TRUE, !.tracked = TRUE]
           c2 == [c1 EXCEPT !.cb = "disabled"]
<1>1. Dropped(rr)[o] = IF runOf[o[1]] # o THEN r ELSE IF Live(r) THEN c2 ELSE w
  BY DEF Dropped
<1>2. Plain(r, w) /\ w \in Run
  BY PlainWoken, PlainRun
<1>3. w.spawning = r.spawning
  BY DEF Woken, Run
<1>4. Marked(w)
  BY <1>2 DEF Plain, Marked
<1> HIDE DEF w
<1>5. c \in Run /\ c.spawning = w.spawning
  <2>1. c \in Run
    BY <1>2, RunForms
  <2> QED BY <1>2, <2>1 DEF Cancelled, Run
<1> HIDE DEF c
<1>6. c1 \in Run
  BY Zenon, <1>5 DEF Run
<1>7. c1.spawning = c.spawning /\ c1.detached = TRUE
  BY <1>5 DEF Run
<1> HIDE DEF c1
<1>8. c2.spawning = c.spawning /\ c2.detached = TRUE
  BY <1>6, <1>7 DEF Run
<1> HIDE DEF c2
<1> QED BY <1>1, <1>3, <1>4, <1>5, <1>8 DEF Marked

\* What the runs are after a switch.
LEMMA LeftOwing ==
  ASSUME Inv, Stored, NEW rr \in [Runs -> Run],
         \A o \in Runs : Marked(rr[o]) /\ (rr[o].spawning => run[o].spawning)
  PROVE  LET q == Swept(Dropped(rr), Nobody)
         IN \A o \in Runs : Marked(q[o]) /\ (q[o].spawning => run[o].spawning)
<1>1. \A o \in Runs : Marked(Dropped(rr)[o]) /\ (Dropped(rr)[o].spawning => run[o].spawning)
  BY DroppedOwes
<1>2. \A o \in Runs : Swept(Dropped(rr), Nobody)[o] \in {Dropped(rr)[o], Blank}
  BY DEF Swept
<1> QED BY <1>1, <1>2, BlankMarked

\* Abandoning writes what the agents owe as it is, in the session that is left.
LEMMA AbandonedSaves ==
  ASSUME Inv, Stored, resuming = None, life = "open", disk' = AbandonedDisk
  PROVE  /\ Remembered
         /\ disk' \in [Sessions -> [Agents -> Snap]]
         /\ \A s \in Sessions : s # session => disk'[s] = disk[s]
         /\ \A a \in Agents : known[a] = "returned" =>
              (disk[session][a].status = "none" <=> disk'[session][a].status = "none")
         /\ \A o \in Runs : runOf[o[1]] = o /\ known[o[1]] = "returned" /\ run[o].ctl # "queueing" =>
              /\ disk'[session][o[1]].epoch = disk[session][o[1]].epoch
              /\ disk'[session][o[1]].cb = disk[session][o[1]].cb
<1> DEFINE ab == Abandoned(run)
<1>1. /\ ab \in [Runs -> Run]
      /\ \A o \in Runs : ab[o].ses = run[o].ses /\ ab[o].epoch = run[o].epoch /\ ab[o].cb = run[o].cb
  BY AbandonedRuns, AbandonedOwes DEF Stored
<1>2. disk' \in {disk, Persisted(ab)}
  BY DEF AbandonedDisk, PersistedIf
<1> HIDE DEF ab
<1>3. CASE disk' = disk
  BY <1>3, SameDisk DEF Inv, Types
<1>4. CASE disk' = Persisted(ab)
  <2>1. /\ \A o \in Runs : runOf[o[1]] = o =>
              LET n == disk'[session][o[1]]
              IN n.status # "none" /\ n.epoch = ab[o].epoch /\ n.cb = ab[o].cb
        /\ \A a \in Agents : runOf[a] # None <=> disk'[session][a].status # "none"
        /\ \A s \in Sessions : s # session => disk'[s] = disk[s]
        /\ Remembered
    BY <1>1, <1>4, Saves
  <2>2. disk' \in [Sessions -> [Agents -> Snap]]
    <3>1. Saved([Runs -> Run])
      BY <1>1, <1>4 DEF Saved
    <3> QED BY <3>1, SavedDisk
  <2>3. \A a \in Agents : known[a] = "returned" =>
          (disk[session][a].status = "none" <=> disk'[session][a].status = "none")
    BY <2>1 DEF Stored, Listing
  <2>4. \A o \in Runs : runOf[o[1]] = o /\ known[o[1]] = "returned" /\ run[o].ctl # "queueing" =>
          disk[session][o[1]].epoch = run[o].epoch /\ disk[session][o[1]].cb = run[o].cb
    BY DEF Stored, Debts, Written
  <2> QED BY <1>1, <2>1, <2>2, <2>3, <2>4
<1> QED BY <1>2, <1>3, <1>4

LEMMA StoredNewSession ==
  ASSUME Inv, Ruled, Stored, NEW s \in Sessions, NewSession(s)
  PROVE  Stored' /\ Remembered
<1>1. /\ run' = Swept(Dropped(Abandoned(run)), Nobody) /\ runOf' = Nobody /\ disk' = AbandonedDisk
      /\ session' = s /\ storage' = s /\ outbox' = {} /\ UNCHANGED <<life, resuming, loaded, known>>
      /\ life = "open" /\ resuming = None /\ s # session /\ disk[s] = Nothing
  BY DEF NewSession
<1>2. /\ Remembered /\ disk'[s] = Nothing
  BY <1>1, AbandonedSaves
<1>3. /\ Abandoned(run) \in [Runs -> Run]
      /\ \A o \in Runs : Marked(Abandoned(run)[o]) /\ (Abandoned(run)[o].spawning => run[o].spawning)
  BY AbandonedRuns, AbandonedOwes DEF Stored
<1>4. \A o \in Runs : Marked(run'[o]) /\ (run'[o].spawning => run[o].spawning)
  BY Zenon, <1>1, <1>3, LeftOwing
<1>5. \A o \in Runs : runOf'[o[1]] # o
  BY <1>1, NoneAssumption DEF Nobody
<1>6. (\A o \in Runs : Marked(run[o]))'
  BY <1>4 DEF Marked
<1>7. Spawned'
  BY <1>1, <1>4 DEF Stored, Spawned
<1>8. Ours' /\ Debts'
  BY <1>1, <1>5 DEF Ours, Debts
<1>9. Waiting'
  BY <1>1 DEF Waiting
<1>10. Listing'
  BY <1>1, <1>2 DEF Listing, Nobody, Nothing, NoSnap
<1> QED BY <1>2, <1>6, <1>7, <1>8, <1>9, <1>10 DEF Stored

\* A snapshot that is not there owes nothing.
LEMMA NoneThere ==
  ASSUME NEW n \in Snap
  PROVE  n.status = "none" <=> n = NoSnap
BY DEF Snap, NoSnap

LEMMA StoredResume ==
  ASSUME Inv, Ruled, Stored, Allowed = {}, NEW s \in Sessions, ResumeBegin(s)
  PROVE  Stored' /\ Remembered
<1>1. /\ run' = Abandoned(run) /\ disk' = AbandonedDisk /\ loaded' = disk[s] /\ resuming' = s
      /\ session' = s /\ outbox' = {} /\ UNCHANGED <<storage, life, runOf, known>>
      /\ life = "open" /\ resuming = None
      /\ s # session \/ \A o \in Runs : runOf[o[1]] = o => run[o].ctl # "queueing"
  BY DEF ResumeBegin
<1>2. \A o \in Runs : Marked(run'[o]) /\ (run'[o].spawning => run[o].spawning)
  BY <1>1, AbandonedOwes DEF Stored
<1>3. resuming' # None
  BY <1>1, NoneAssumption
<1>4. (\A o \in Runs : Marked(run[o]))'
  BY <1>2 DEF Marked
<1>5. Spawned'
  BY <1>1, <1>2 DEF Stored, Spawned
<1>6. Ours' /\ Debts' /\ Waiting'
  BY <1>1, <1>3 DEF Ours, Debts, Waiting
<1>7. Remembered
  BY <1>1, AbandonedSaves
<1>8. ASSUME NEW a \in Agents, known[a] = "returned"
      PROVE  Alike(disk[s][a], disk'[s][a])
  <2>1. disk[s][a] \in Snap /\ disk'[s][a] \in Snap
    BY <1>1, AbandonedSaves DEF Inv, Types
  <2>2. CASE s # session
    BY <1>1, <2>2, AbandonedSaves DEF Alike
  <2>3. CASE s = session
    <3>1. disk[s][a].status = "none" <=> disk'[s][a].status = "none"
      BY <1>1, <1>8, <2>3, AbandonedSaves
    <3>2. CASE disk[s][a].status = "none"
      BY <2>1, <3>1, <3>2, NoneThere DEF Alike
    <3>3. CASE disk[s][a].status # "none"
      <4> DEFINE o == runOf[a]
      <4>1. o # None
        BY <1>1, <1>8, <2>3, <3>3 DEF Stored, Listing
      <4>2. o \in Runs /\ o[1] = a
        BY <4>1 DEF Inv, Types
      <4>3. run[o].ctl # "queueing"
        BY <1>1, <2>3, <4>2
      <4>4. disk'[s][a].epoch = disk[s][a].epoch /\ disk'[s][a].cb = disk[s][a].cb
        BY <1>1, <1>8, <2>3, <4>2, <4>3, AbandonedSaves
      <4> QED BY <3>1, <4>4 DEF Alike
    <3> QED BY <3>2, <3>3
  <2> QED BY <2>2, <2>3
<1>9. Listing'
  BY <1>1, <1>3, <1>8 DEF Listing
<1> QED BY <1>4, <1>5, <1>6, <1>7, <1>9 DEF Stored

\* The runs that are made of a session's snapshots owe what it has on disk.
LEMMA RestoredStored ==
  ASSUME Inv, NEW s \in Sessions, NEW g, NEW snaps \in [Agents -> Snap],
         NEW rr \in [Runs -> Run], Restored(s, g, snaps, rr),
         session' = s, storage' = s, gen' = g, life' = "open", resuming' = None, UNCHANGED known,
         Spawned, \A o \in Runs : Marked(rr[o]) /\ (rr[o].spawning => run[o].spawning),
         \A a \in Agents : /\ known[a] = "returned" => Alike(snaps[a], disk[s][a])
                           /\ known[a] = "unborn" => snaps[a] = NoSnap
  PROVE  Stored' /\ Remembered
<1> DEFINE map == [a \in Agents |-> IF snaps[a] = NoSnap THEN None ELSE FreeCopy(a, rr)]
           written == [a \in Agents |-> Ended(snaps[a])]
           new(o) == [Blank EXCEPT !.ses = s, !.gen = g, !.woken = "restore", !.cb = snaps[o[1]].cb,
                        !.status = written[o[1]].status, !.epoch = snaps[o[1]].epoch]
<1>1. /\ runOf' = map /\ \A o \in Runs : run'[o] = IF map[o[1]] # o THEN rr[o] ELSE new(o)
      /\ disk' = IF written = snaps THEN disk ELSE [disk EXCEPT ![s] = written]
      /\ \A a \in Agents : \E o \in Runs : o[1] = a /\ rr[o] = Blank
      /\ \A d \in outbox' : /\ d[1] \in Agents
                            /\ snaps[d[1]].cb \in {"pending", "injected"} /\ snaps[d[1]].epoch = d[2]
  BY Zenon DEF Restored
<1>d. /\ disk \in [Sessions -> [Agents -> Snap]]
      /\ \A d \in outbox' : d[2] \in 0..MaxEpoch
  <2>1. outbox' \subseteq Agents \X (0..MaxEpoch)
    BY Zenon DEF Restored
  <2> QED BY <2>1 DEF Inv, Types
<1>2. ASSUME NEW o \in Runs
      PROVE  /\ new(o).ses = s /\ new(o).gen = g /\ new(o).woken = "restore"
             /\ new(o).cb = snaps[o[1]].cb /\ new(o).epoch = snaps[o[1]].epoch
             /\ ~new(o).detached /\ ~new(o).tracked /\ ~new(o).spawning
  <2> DEFINE cb == snaps[o[1]].cb
             status == written[o[1]].status
             epoch == snaps[o[1]].epoch
             b == [Blank EXCEPT !.ses = s, !.gen = g, !.woken = "restore", !.cb = cb,
                        !.status = status, !.epoch = epoch]
  <2> HIDE DEF cb, status, epoch
  <2>1. b.ses = s /\ b.gen = g /\ b.woken = "restore" /\ b.cb = cb /\ b.epoch = epoch
    BY BlankRun DEF Run
  <2>2. b.detached = Blank.detached /\ b.tracked = Blank.tracked /\ b.spawning = Blank.spawning
    BY BlankRun DEF Run
  <2> QED BY <2>1, <2>2, BlankRuled, BlankMarked DEF cb, status, epoch
<1>3. ASSUME NEW a \in Agents
      PROVE  /\ map[a] = None <=> snaps[a].status = "none"
             /\ map[a] # None => map[a] \in Runs /\ map[a][1] = a
  <2>1. \E o \in Runs : o[1] = a /\ rr[o] = Blank
    BY <1>1
  <2>2. FreeCopy(a, rr) \in Runs /\ FreeCopy(a, rr)[1] = a
    BY <2>1 DEF FreeCopy
  <2>3. FreeCopy(a, rr) # None
    BY <2>2, NoneAssumption
  <2>4. snaps[a].status = "none" <=> snaps[a] = NoSnap
    BY NoneThere
  <2> QED BY <2>2, <2>3, <2>4
<1>4. ASSUME NEW a \in Agents
      PROVE  Alike(written[a], snaps[a])
  <2>1. snaps[a] \in Snap
    OBVIOUS
  <2>2. CASE snaps[a].status \in {"queued", "running"}
    <3> DEFINE n == snaps[a]
    <3>1. n # NoSnap
      BY <2>2 DEF NoSnap
    <3>2. LET e == [n EXCEPT !.status = "stopped"]
          IN e.status = "stopped" /\ e.epoch = n.epoch /\ e.cb = n.cb
      BY <2>1, <3>1 DEF Snap
    <3>3. written[a] = [n EXCEPT !.status = "stopped"]
      BY <2>2 DEF Ended
    <3> HIDE DEF n, written
    <3>4. n.status # "none"
      BY <2>2 DEF n
    <3> QED BY <3>2, <3>3, <3>4 DEF Alike, n
  <2>3. CASE snaps[a].status \notin {"queued", "running"}
    BY <2>3 DEF Ended, Alike
  <2> QED BY <2>2, <2>3
<1> HIDE DEF map, new, written
<1>5. /\ \A t \in Sessions : t # s => disk'[t] = disk[t]
      /\ \A a \in Agents : known[a] = "returned" => Alike(disk'[s][a], snaps[a])
      /\ \A a \in Agents : known[a] = "returned" => Alike(snaps[a], disk[s][a])
  <2>1. CASE disk' = disk
    BY <2>1 DEF Alike
  <2>2. CASE disk' = [disk EXCEPT ![s] = written]
    BY <1>4, <1>d, <2>2
  <2> QED BY <1>1, <2>1, <2>2
<1>6. Remembered
  BY <1>5 DEF Remembered, Alike
<1>7. \A o \in Runs : Marked(run'[o]) /\ (run'[o].spawning => run[o].spawning)
  <2>1. \A o \in Runs : Marked(new(o)) /\ ~new(o).spawning
    BY <1>2 DEF Marked
  <2> QED BY <1>1, <2>1
<1>8. (\A o \in Runs : Marked(run[o]))'
  BY <1>7 DEF Marked
<1>9. Spawned'
  BY <1>7 DEF Spawned
<1>10. \A o \in Runs : runOf'[o[1]] = o => run'[o] = new(o)
  BY <1>1
<1>11. Ours'
  BY <1>2, <1>10 DEF Ours
<1>12. Waiting'
  <2>1. ASSUME NEW d \in outbox', known[d[1]] = "unborn" PROVE FALSE
    BY <1>1, <2>1 DEF NoSnap
  <2> QED BY <2>1 DEF Waiting
<1>13. Listing'
  BY <1>1, <1>3, <1>5 DEF Listing, Alike
<1>14. Debts'
  <2> SUFFICES ASSUME NEW o \in Runs, runOf'[o[1]] = o
               PROVE  /\ Due(o[1], run'[o], outbox')
                      /\ known[o[1]] = "returned" =>
                           Written(o[1], disk'[s][o[1]], run'[o], outbox')
    BY DEF Debts
  <2>1. run'[o].cb = snaps[o[1]].cb /\ run'[o].epoch = snaps[o[1]].epoch
    BY <1>2, <1>10
  <2>2. Due(o[1], run'[o], outbox')
    BY <1>1, <1>d, <2>1 DEF Due
  <2>3. known[o[1]] = "returned" => Written(o[1], disk'[s][o[1]], run'[o], outbox')
    BY <1>5, <2>1 DEF Written, Alike
  <2> QED BY <2>2, <2>3
<1> QED BY <1>6, <1>8, <1>9, <1>11, <1>12, <1>13, <1>14 DEF Stored

LEMMA StoredRestores ==
  ASSUME Inv, Ruled, Stored, ResumeEnds \/ \E s \in Sessions : Restart(s)
  PROVE  Stored' /\ Remembered
<1>1. CASE ResumeEnds
  <2> DEFINE rr == Swept(Dropped(run), Nobody)
  <2>1. /\ Restored(session, gen, loaded, rr) /\ resuming # None
        /\ storage' = session /\ resuming' = None /\ UNCHANGED <<session, gen, life, known>>
    BY <1>1 DEF ResumeEnds
  <2>2. rr \in [Runs -> Run]
    BY Zenon, LeftRuns DEF Inv, Types
  <2>3. \A o \in Runs : Marked(rr[o]) /\ (rr[o].spawning => run[o].spawning)
    BY Zenon, LeftOwing DEF Inv, Types, Stored
  <2>4. life' = "open"
    BY <2>1 DEF Ruled
  <2>5. \A a \in Agents : /\ known[a] = "returned" => Alike(loaded[a], disk[session][a])
                          /\ known[a] = "unborn" => loaded[a] = NoSnap
    BY <2>1 DEF Stored, Listing, Inv, Unborn
  <2>6. session \in Sessions /\ loaded \in [Agents -> Snap]
    BY DEF Inv, Types
  <2> HIDE DEF rr
  <2> QED BY <2>1, <2>2, <2>3, <2>4, <2>5, <2>6, RestoredStored DEF Stored
<1>2. CASE \E s \in Sessions : Restart(s)
  <2> DEFINE rr == [o \in Runs |-> Blank]
  <2>1. PICK s \in Sessions : Restart(s)
    BY <1>2
  <2>2. /\ Restored(s, gen + 1, disk[s], rr)
        /\ session' = s /\ storage' = s /\ gen' = gen + 1
        /\ life' = "open" /\ resuming' = None /\ UNCHANGED known
    BY <2>1 DEF Restart
  <2>3. rr \in [Runs -> Run] /\ \A o \in Runs : rr[o] = Blank
    BY BlankRun
  <2> HIDE DEF rr
  <2>4. \A o \in Runs : Marked(rr[o]) /\ (rr[o].spawning => run[o].spawning)
    BY <2>3, BlankMarked
  <2>5. \A a \in Agents : /\ known[a] = "returned" => Alike(disk[s][a], disk[s][a])
                          /\ known[a] = "unborn" => disk[s][a] = NoSnap
    BY DEF Alike, Inv, Unborn
  <2>6. disk[s] \in [Agents -> Snap]
    BY DEF Inv, Types
  <2> QED BY <2>2, <2>3, <2>4, <2>5, <2>6, RestoredStored DEF Stored
<1> QED BY <1>1, <1>2

LEMMA StoredCloses ==
  ASSUME Inv, Ruled, Stored, Allowed = {}, Close \/ CloseManager \/ CloseMarks \/ CloseDone
  PROVE  Stored' /\ Remembered
<1>0. run \in [Runs -> Run]
  BY DEF Inv, Types
<1>1. CASE Close \/ CloseManager
  <2>1. /\ UNCHANGED <<session, storage, gen, runOf, run, disk, known>> /\ outbox' = {}
        /\ resuming = None /\ resuming' = None
        /\ life' # "open" /\ life \in {"open", "leaving"}
    BY <1>1 DEF Close, CloseManager, Ruled, Stored, Waiting
  <2>2. (\A o \in Runs : Marked(run[o]))' /\ Spawned'
    BY <2>1 DEF Stored, Marked, Spawned
  <2>3. Ours' /\ Waiting' /\ Debts'
    BY <2>1 DEF Stored, Ours, Waiting, Debts
  <2>4. Listing'
    BY <2>1 DEF Stored, Listing
  <2> QED BY <2>1, <2>2, <2>3, <2>4, SameDisk DEF Stored
<1>2. CASE CloseMarks
  <2>1. /\ UNCHANGED <<session, storage, gen, resuming, loaded, runOf, disk, outbox, known>>
        /\ life = "closing" /\ life' = "draining" /\ resuming = None
    BY <1>2 DEF CloseMarks, Ruled
  <2>2. ASSUME NEW o \in Runs
        PROVE  /\ run'[o].ses = run[o].ses /\ (run'[o].spawning => run[o].spawning)
               /\ Marked(run'[o])
    <3> DEFINE r == run[o]
               c == Cancelled(r)
               c1 == [c EXCEPT !.detached = TRUE]
               c2 == [c1 EXCEPT !.tracked = TRUE]
               w == Woken(r, "close")
               b == r.hit \/ (r.tracked /\ Live(r))
               h == [r EXCEPT !.hit = b]
    <3>1. run'[o] \in {c2, w, h}
      BY Zenon, <1>2 DEF CloseMarks
    <3>2. r \in Run /\ Marked(r)
      BY <1>0 DEF Stored
    <3>3. Plain(r, c) /\ c \in Run /\ Plain(r, w) /\ w.spawning = r.spawning
      BY <3>2, PlainCancelled, PlainWoken, PlainRun DEF Woken, Run
    <3>4. c.spawning = r.spawning
      BY <3>2 DEF Cancelled, Run
    <3> HIDE DEF r, c, w, b
    <3>5. c1 \in Run
      BY Zenon, <3>3 DEF Run
    <3>6. c1.ses = c.ses /\ c1.spawning = c.spawning /\ c1.detached = TRUE
      BY <3>3 DEF Run
    <3> HIDE DEF c1
    <3>7. c2.ses = c.ses /\ c2.spawning = c.spawning /\ c2.detached = TRUE
      BY <3>5, <3>6 DEF Run
    <3>8. /\ h.ses = r.ses /\ h.spawning = r.spawning /\ h.detached = r.detached
          /\ h.tracked = r.tracked /\ h.woken = r.woken
      BY <3>2 DEF Run
    <3> HIDE DEF c2, h
    <3>9. Marked(c2) /\ Marked(w) /\ Marked(h)
      BY <3>2, <3>3, <3>7, <3>8 DEF Marked, Plain
    <3>10. \A q \in {c2, w, h} : q.ses = r.ses /\ (q.spawning => r.spawning) /\ Marked(q)
      BY <3>3, <3>4, <3>7, <3>8, <3>9 DEF Plain
    <3> QED BY <3>1, <3>10 DEF r
  <2>3. (\A o \in Runs : Marked(run[o]))'
    BY <2>2 DEF Marked
  <2>4. Spawned'
    BY <2>1, <2>2 DEF Stored, Spawned
  <2>5. Ours' /\ Waiting' /\ Debts'
    BY <2>1, <2>2 DEF Stored, Ours, Waiting, Debts
  <2>6. Listing'
    BY <2>1 DEF Stored, Listing
  <2> QED BY <2>1, <2>3, <2>4, <2>5, <2>6, SameDisk DEF Stored
<1>3. CASE CloseDone
  <2>1. /\ UNCHANGED <<session, storage, gen, resuming, loaded, runOf, outbox, known>>
        /\ life = "draining" /\ life' = "closed" /\ resuming = None
        /\ run' = [o \in Runs |-> run'[o]] /\ disk' = Persisted(run')
    BY <1>3 DEF CloseDone, Ruled
  <2>2. ASSUME NEW o \in Runs
        PROVE  /\ run'[o] \in Run /\ run'[o].ses = run[o].ses
               /\ (run'[o].spawning => run[o].spawning) /\ Marked(run'[o])
    <3> DEFINE r == run[o]
               w == Woken(r, "close")
               n == IF r.tracked THEN "stopped" ELSE w.status
               s == [w EXCEPT !.status = n]
    <3>1. run'[o] = IF runOf[o[1]] # o \/ Done(r) THEN r ELSE s
      BY <1>3 DEF CloseDone
    <3>2. r \in Run /\ Marked(r)
      BY <1>0 DEF Stored
    <3>3. Plain(r, w) /\ w \in Run
      BY <3>2, PlainWoken, PlainRun
    <3>4. n \in {"queued", "running"} \union Terminal
      BY <3>3 DEF Run
    <3> HIDE DEF w, n, r
    <3>5. Plain(r, s) /\ s \in Run
      BY <3>3, <3>4, PlainStatus, PlainTwice, PlainRun
    <3>6. Plain(r, r)
      BY <3>2 DEF Plain
    <3> HIDE DEF s
    <3>7. \A q \in {r, s} : q \in Run /\ q.ses = r.ses /\ (q.spawning => r.spawning) /\ Marked(q)
      BY <3>2, <3>5, <3>6 DEF Plain, Marked
    <3> QED BY <3>1, <3>7 DEF r
  <2>3. (\A o \in Runs : Marked(run[o]))'
    BY <2>2 DEF Marked
  <2>4. Spawned'
    BY <2>1, <2>2 DEF Stored, Spawned
  <2>5. Ours' /\ Waiting' /\ Debts'
    BY <2>1, <2>2 DEF Stored, Ours, Waiting, Debts
  <2>6. run' \in [Runs -> Run]
    BY <2>1, <2>2
  <2>7. /\ \A a \in Agents : runOf[a] # None <=> disk'[session][a].status # "none"
        /\ Remembered
    BY <2>1, <2>2, <2>6, Saves
  <2>8. Listing'
    BY <2>1, <2>7 DEF Listing
  <2> QED BY <2>3, <2>4, <2>5, <2>7, <2>8 DEF Stored
<1> QED BY <1>1, <1>2, <1>3

LEMMA StepStored ==
  ASSUME Inv, Ruled, Stored, Allowed = {}, [Next]_vars
  PROVE  Stored' /\ Remembered
<1>1. CASE UNCHANGED vars
  BY <1>1, SameStored DEF vars, switchVars
<1>2. CASE Next
  BY <1>2, StoredSpawn, StoredReturns, StoredSpawnFails, StoredTasks, StoredControls,
     StoredSendInput, StoredQueueFails, StoredDispatch, StoredNewSession, StoredResume,
     StoredRestores, StoredCloses DEF Next
<1> QED BY <1>1, <1>2

LEMMA InitStored == Init => Stored
<1> SUFFICES ASSUME Init PROVE Stored
  OBVIOUS
<1>1. /\ \A o \in Runs : run[o] = Blank /\ runOf[o[1]] # o
      /\ \A a \in Agents : known[a] = "unborn"
      /\ resuming = None /\ storage = session /\ outbox = {}
  BY NoneAssumption DEF Init
<1>2. (\A o \in Runs : Marked(run[o])) /\ Spawned
  BY <1>1, BlankMarked DEF Spawned
<1>3. Ours /\ Waiting /\ Listing /\ Debts
  BY <1>1 DEF Ours, Waiting, Listing, Debts
<1> QED BY <1>2, <1>3 DEF Stored

LEMMA Owes == Inv /\ Stored => DebtsAreOnDisk
<1> SUFFICES ASSUME Inv, Stored, NEW d \in outbox, runOf[d[1]] # None, known[d[1]] = "returned",
                    run[runOf[d[1]]].epoch = d[2]
             PROVE  /\ disk[session][d[1]].epoch >= d[2]
                    /\ disk[session][d[1]].cb \in {"pending", "injected"}
  BY DEF DebtsAreOnDisk
<1> DEFINE o == runOf[d[1]]
<1>1. life = "open" /\ resuming = None
  BY DEF Stored, Waiting
<1>2. o \in Runs /\ o[1] = d[1] /\ d[2] \in Nat
  BY DEF Inv, Types
<1>3. Due(o[1], run[o], outbox) /\ Written(o[1], disk[session][o[1]], run[o], outbox)
  BY <1>1, <1>2 DEF Stored, Debts
<1> QED BY <1>2, <1>3 DEF Due, Written

\* What agents owe their session is never lost on disk, nor is an agent that was
\* returned: whatever is spawned, cancelled, continued, left, resumed, closed and
\* killed, if nothing is closed or cancelled while a resume waits, and no session
\* resumes itself while an input is being queued (agent_manager.py: _persist comes
\* before _emit_completion, mark_callback_injected and restore_snapshots).
THEOREM ResultsKept ==
  ASSUME Allowed = {}
  PROVE  Spec => ResultsSurvive
<1>1. Init => Inv /\ TypeOK /\ WakeInv /\ Ruled /\ Stored
  <2>1. Init => WakeInv
    BY BlankInHand DEF Init, WakeInv
  <2> QED BY <2>1, InitInv, InitRuled, InitStored
<1>2. Inv /\ TypeOK /\ WakeInv /\ Ruled /\ Stored /\ [Next]_vars =>
        (Inv /\ TypeOK /\ WakeInv /\ Ruled /\ Stored)'
  BY StepInv, StepWake, StepRuled, StepStored
<1>3. Inv /\ TypeOK /\ WakeInv /\ Ruled /\ Stored /\ [Next]_vars =>
        [/\ DebtsAreOnDisk'
         /\ \A s \in Sessions, a \in Agents :
              (known[a] = "returned" /\ disk[s][a].status # "none") => disk'[s][a].status # "none"]_vars
  <2>1. (Inv /\ Stored => DebtsAreOnDisk)'
    BY Owes, PTL
  <2> SUFFICES ASSUME Inv, TypeOK, WakeInv, Ruled, Stored, [Next]_vars
               PROVE  /\ DebtsAreOnDisk'
                      /\ \A s \in Sessions, a \in Agents :
                           (known[a] = "returned" /\ disk[s][a].status # "none") =>
                             disk'[s][a].status # "none"
    OBVIOUS
  <2> QED BY <1>2, <2>1, StepStored DEF Remembered
<1> QED BY <1>1, <1>2, <1>3, PTL DEF Spec, ResultsSurvive
=============================================================================
