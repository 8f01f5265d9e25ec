----------------------------- MODULE Team_proofs -----------------------------
(***************************************************************************)
(* Proofs about a team of agents, for any number of agents, teams,         *)
(* messages, inputs and faults.                                            *)
(***************************************************************************)
EXTENDS Team, FiniteSetTheorems, SequenceTheorems, TLAPS

\* The shutdown of a team and its name.
Name ==
  /\ current = 0 => ~shutting
  /\ shutting <=> cleanup.at # "none"
  /\ cleanup.at \in {"none", "begun", "files"} => cleanup.left = {}

\* A message that is handed over at the moment.
Moving(m) == message[m] \in {"committed", "injecting"}

\* bus_lock
OneMoves == \A m, n \in Messages : Moving(m) /\ Moving(n) => m = n

\* Who has announced a run whose task does not exist yet, and will make it.
Makes(m, a) == message[m] = "injecting" /\ to[m] = a
Announced(a) == run[a] \in {"queued", "fenced"}

\* Such a call holds the control lock of the run.
Control(a) ==
  /\ outside[a] => Announced(a) /\ waiter[a].at # "sending"
  /\ waiter[a].at = "sending" => Announced(a)
  /\ \A m \in Messages : Makes(m, a) => Announced(a) /\ ~outside[a] /\ waiter[a].at # "sending"

\* Membership: an agent that is off the team has nothing left that could restart it.
Place(a) ==
  /\ member[a] \in {0, current}
  /\ member[a] # 0 => adding[a].at \in {"emitting", "added", "undoing"}
  /\ adding[a].at \in {"none", "queued"} => run[a] = "none"
  /\ adding[a].at = "spawning" => run[a] = "created"
  /\ member[a] = 0 => waiter[a].at = "none" /\ pending[a] = <<>>

\* How far the shutdown has come with a teammate.
Leaving(a) ==
  /\ cleanup.at = "spawns" /\ member[a] # 0 => a \in cleanup.left
  /\ cleanup.at = "cancels" /\ member[a] # 0 =>
       /\ waiter[a].at = "none" /\ pending[a] = <<>>
       /\ a \in cleanup.left \/ run[a] \in {"none", "over"}
  /\ cleanup.at = "files" => member[a] = 0

Manned(a) == run[a] \notin {"none", "over"} => member[a] # 0 \/ InHand(a)
Shown(a) == run[a] = "live" /\ Belongs(a) => mirror[a] = "busy"

Ctl ==
  /\ Name /\ OneMoves
  /\ \A a \in Agents : Control(a) /\ Place(a) /\ Leaving(a) /\ Manned(a) /\ Shown(a)

CInv == TypeOK /\ Ctl

\* The places of a team are few, and finitely many though the agents need not be.
Fits == \A r \in Runtimes : IsFiniteSet(Places(r)) /\ Cardinality(Places(r)) <= MaxTeammates
-----------------------------------------------------------------------------
In(s, i) == \E p \in DOMAIN s : s[p] = i
Once(s) == \A p, q \in DOMAIN s : s[p] = s[q] => p = q

\* Everything in the first sequence is in s, in the order of s.
Ordered(r, s) ==
  \A k \in DOMAIN r :
    /\ In(s, r[k])
    /\ \A j \in DOMAIN r : j < k => Before(s, r[j], r[k])

\* Everything in q comes after everything in p.
Behind(p, q, s) == \A j \in DOMAIN p, k \in DOMAIN q : Before(s, p[j], q[k])

\* The messages of an agent; what waits was not given, unless it is being given.
Mailed(a) ==
  /\ Once(inbox[a])
  /\ \A m \in Messages : In(inbox[a], m) => to[m] = a /\ message[m] \in {"committed", "injecting", "sent"}
  /\ Ordered(prompts[a], inbox[a]) /\ Ordered(pending[a], inbox[a])
  /\ waiter[a].at # "sending" => Behind(prompts[a], pending[a], inbox[a])
  /\ \A m \in Messages : message[m] = "committed" /\ to[m] = a =>
       /\ inbox[a] # <<>> /\ inbox[a][Len(inbox[a])] = m
       /\ ~In(prompts[a], m) /\ ~In(pending[a], m)

DInv == \A a \in Agents : Mailed(a)
-----------------------------------------------------------------------------
(* Types *)

LEMMA NoMail == <<>> \in Seq(Messages)
OBVIOUS

LEMMA NoRuntime == 0 \in 0..MaxRuntimes
BY BoundsAssumption

LEMMA AddingTypes ==
  ASSUME TypeOK, NEW a \in Agents,
         NEW t \in {"none", "queued", "spawning", "emitting", "added", "undoing", "stopping", "failed"},
         adding' = [adding EXCEPT ![a].at = t]
  PROVE  adding' \in [Agents -> AddType]
BY ZenonT(60) DEF TypeOK, AddType

LEMMA WaiterTypes ==
  ASSUME TypeOK, NEW a \in Agents, NEW w \in WaitType, waiter' = [waiter EXCEPT ![a] = w]
  PROVE  waiter' \in [Agents -> WaitType]
BY DEF TypeOK

LEMMA WaiterAt ==
  ASSUME TypeOK, NEW a \in Agents, NEW t \in {"waiting", "blocked", "sending"},
         waiter' = [waiter EXCEPT ![a].at = t]
  PROVE  waiter' \in [Agents -> WaitType]
BY ZenonT(60) DEF TypeOK, WaitType

LEMMA StillWaiters ==
  ASSUME TypeOK, NEW a \in Agents
  PROVE  Armed(a) \in WaitType /\ Ended \in WaitType
BY BoundsAssumption DEF TypeOK, WaitType, Armed, Ended

LEMMA SweptTypes ==
  ASSUME TypeOK, NEW S \in SUBSET Agents, Swept(S)
  PROVE  /\ pending' \in [Agents -> Seq(Messages)]
         /\ waiter' \in [Agents -> WaitType]
         /\ watcher' \in [Agents -> {"none", "waiting", "emitting"}]
         /\ run' \in [Agents -> RunType]
<1>1. <<>> \in Seq(Messages) /\ [at |-> "none", tries |-> 0] \in WaitType /\ "over" \in RunType
  BY BoundsAssumption DEF WaitType, RunType
<1> QED BY <1>1 DEF TypeOK, Swept

LEMMA BusyTypes ==
  ASSUME TypeOK, NEW a \in Agents, Busy(a)
  PROVE  /\ mirror' \in [Agents -> {"none", "busy", "ready", "shutdown"}]
         /\ watcher' \in [Agents -> {"none", "waiting", "emitting"}]
<1>1. CASE Belongs(a)
  <2>1. mirror' = [mirror EXCEPT ![a] = "busy"]
    BY <1>1 DEF Busy
  <2>2. watcher' = [watcher EXCEPT ![a] = IF watcher[a] = "none" THEN "waiting" ELSE watcher[a]]
    BY <1>1 DEF Busy
  <2> QED BY <2>1, <2>2 DEF TypeOK
<1>2. CASE ~Belongs(a)
  BY <1>2 DEF TypeOK, Busy
<1> QED BY <1>1, <1>2

LEMMA GivenTypes ==
  ASSUME TypeOK, NEW a \in Agents, NEW ms \in Seq(Messages), Given(a, ms)
  PROVE  /\ prompts' \in [Agents -> Seq(Messages)]
         /\ run' \in [Agents -> RunType]
         /\ mirror' \in [Agents -> {"none", "busy", "ready", "shutdown"}]
         /\ watcher' \in [Agents -> {"none", "waiting", "emitting"}]
<1>1. prompts[a] \o ms \in Seq(Messages)
  BY DEF TypeOK
<1>2. Busy(a)
  BY DEF Given
<1> QED BY <1>1, <1>2, BusyTypes DEF TypeOK, RunType, Given

LEMMA NextTypes ==
  ASSUME TypeOK, [Next]_vars
  PROVE  TypeOK'
<1>1. CASE Create
  <2>1. created + 1 \in 0..MaxRuntimes
    BY <1>1, BoundsAssumption DEF TypeOK, Create
  <2> QED BY <1>1, <2>1 DEF TypeOK, Create, roster, mail, tasks, agent
<1>2. ASSUME NEW who \in Agents \union {None}, Shutdown(who) PROVE TypeOK'
  BY <1>2 DEF TypeOK, Shutdown, roster, mail, tasks, agent
<1>3. ASSUME NEW a \in Agents, Cancel(a) PROVE TypeOK'
  BY <1>3 DEF TypeOK, Cancel, roster, mail, tasks, agent
<1>4. CASE Mark
  BY <1>4 DEF TypeOK, Mark, Teammates, mail, tasks, agent
<1>5. CASE Sweep
  <2>1. cleanup.left \in SUBSET Agents
    BY DEF TypeOK
  <2>2. Swept(cleanup.left)
    BY <1>5 DEF Sweep
  <2> QED BY <1>5, <2>1, <2>2, SweptTypes DEF TypeOK, Sweep, roster
<1>6. CASE Dissolve
  <2>1. Teammates(current) \in SUBSET Agents
    BY DEF Teammates
  <2>2. Swept(Teammates(current))
    BY <1>6 DEF Dissolve
  <2> QED BY <1>6, <2>1, <2>2, SweptTypes, NoRuntime DEF TypeOK, Dissolve
<1>7. CASE ShutdownEnds \/ Close
  <2>1. CASE ShutdownEnds
    BY <2>1, NoRuntime DEF TypeOK, ShutdownEnds, roster, mail, tasks, agent
  <2>2. CASE Close
    BY <2>2 DEF TypeOK, Close, roster, mail, tasks, agent
  <2> QED BY <1>7, <2>1, <2>2
<1>8. CASE Closed
  <2>1. {a \in Agents : adding[a].at # "none"} \in SUBSET Agents
    OBVIOUS
  <2> QED BY <1>8, <2>1, SweptTypes DEF TypeOK, Closed, roster
<1>9. ASSUME NEW a \in Agents, Add(a) PROVE TypeOK'
  BY <1>9 DEF TypeOK, AddType, Add, team, mail, tasks, agent
<1>10. ASSUME NEW a \in Agents, Reserve(a) PROVE TypeOK'
  <2>1. \E t \in {"spawning", "failed"} : adding' = [adding EXCEPT ![a].at = t]
    BY <1>10 DEF Reserve
  <2>2. adding' \in [Agents -> AddType]
    BY <2>1, AddingTypes
  <2>3. run' \in [Agents -> RunType]
    BY <1>10 DEF Reserve, TypeOK, RunType
  <2> QED BY <1>10, <2>2, <2>3 DEF Reserve, TypeOK, team, mail, tasks
<1>11. ASSUME NEW a \in Agents, SpawnFails(a) PROVE TypeOK'
  BY <1>11, AddingTypes DEF SpawnFails, TypeOK, RunType, team, mail, tasks
<1>12. ASSUME NEW a \in Agents, Register(a) PROVE TypeOK'
  <2>1. \E t \in {"emitting", "undoing"} : adding' = [adding EXCEPT ![a].at = t]
    BY <1>12 DEF Register
  <2>2. adding' \in [Agents -> AddType]
    BY <2>1, AddingTypes
  <2>3. member' = member \/ (member' = [member EXCEPT ![a] = adding[a].to] /\ adding[a].to \in 0..MaxRuntimes)
    BY <1>12 DEF Register, TypeOK, AddType
  <2>4. mirror' = mirror \/ mirror' = [mirror EXCEPT ![a] = "busy"]
    BY <1>12 DEF Register
  <2> QED BY ZenonT(60), <1>12, <2>2, <2>3, <2>4 DEF Register, TypeOK, team, mail, tasks, agent
<1>13. ASSUME NEW a \in Agents, Added(a) PROVE TypeOK'
  <2>1. watcher' \in [Agents -> {"none", "waiting", "emitting"}]
    BY <1>13 DEF Added, TypeOK
  <2> QED BY <1>13, <2>1, AddingTypes DEF Added, TypeOK, team, mail, agent
<1>14. ASSUME NEW a \in Agents, AddCancelled(a) \/ Undone(a) PROVE TypeOK'
  BY ZenonT(60), <1>14, AddingTypes DEF AddCancelled, Undone, TypeOK, team, mail, tasks, agent
<1>15. ASSUME NEW a \in Agents, Undo(a) PROVE TypeOK'
  <2>1. adding' \in [Agents -> AddType]
    BY <1>15, AddingTypes DEF Undo
  <2>2. Swept({a})
    BY <1>15 DEF Undo
  <2> QED BY ZenonT(60), <1>15, <2>1, <2>2, SweptTypes, NoRuntime DEF Undo, TypeOK, team
<1>16. ASSUME NEW a \in Agents, AskRemoval(a) \/ Removed(a) \/ RemoveCancelled(a) PROVE TypeOK'
  BY ZenonT(60), <1>16 DEF AskRemoval, Removed, RemoveCancelled, TypeOK, team, mail, tasks, agent
<1>17. ASSUME NEW a \in Agents, RemoveMember(a) PROVE TypeOK'
  <2>1. CASE Belongs(a)
    <3>1. /\ removal' = [removal EXCEPT ![a] = "stopping"] /\ member' = [member EXCEPT ![a] = 0]
          /\ mirror' = [mirror EXCEPT ![a] = "shutdown"] /\ Swept({a})
      BY <1>17, <2>1 DEF RemoveMember
    <3> QED BY ZenonT(60), <1>17, <3>1, SweptTypes, NoRuntime DEF RemoveMember, TypeOK, team
  <2>2. CASE ~Belongs(a)
    BY ZenonT(60), <1>17, <2>2 DEF RemoveMember, TypeOK, team
  <2> QED BY <2>1, <2>2
<1>18. ASSUME NEW a \in Agents, RunStarts(a) PROVE TypeOK'
  BY <1>18, BusyTypes DEF RunStarts, TypeOK, RunType, team, mail
<1>19. ASSUME NEW a \in Agents, RunEnds(a) PROVE TypeOK'
  <2>1. mirror' = mirror \/ mirror' = [mirror EXCEPT ![a] = "ready"]
    BY <1>19 DEF RunEnds
  <2> QED BY <1>19, <2>1 DEF RunEnds, TypeOK, RunType, team, mail, tasks
<1>20. ASSUME NEW a \in Agents, RunSettles(a) PROVE TypeOK'
  <2>1. waiter' \in [Agents -> WaitType]
    BY <1>20, StillWaiters DEF RunSettles, TypeOK
  <2> QED BY <1>20, <2>1 DEF RunSettles, TypeOK, RunType, team, roster, mail
<1>21. ASSUME NEW a \in Agents, Input(a) PROVE TypeOK'
  BY <1>21, BusyTypes DEF Input, TypeOK, RunType, team, mail
<1>22. ASSUME NEW a \in Agents, InputTaken(a) PROVE TypeOK'
  BY <1>22 DEF InputTaken, TaskCreated, TypeOK, RunType, team, roster, mail, tasks
<1>23. ASSUME NEW a \in Agents, WaiterLooks(a) PROVE TypeOK'
  <2>1. waiter' \in [Agents -> WaitType]
    BY <1>23, WaiterAt, WaiterTypes, StillWaiters DEF WaiterLooks
  <2>2. pending' = pending \/ pending' = [pending EXCEPT ![a] = <<>>]
    BY <1>23 DEF WaiterLooks
  <2>3. pending' \in [Agents -> Seq(Messages)]
    BY <2>2, NoMail DEF TypeOK
  <2> QED BY <1>23, <2>1, <2>3 DEF WaiterLooks, TypeOK, team, roster, agent
<1>24. ASSUME NEW a \in Agents, WaiterWakes(a) PROVE TypeOK'
  <2>1. CASE UNCHANGED <<prompts, mirror, watcher>>
    <3>1. waiter' \in [Agents -> WaitType]
      BY <1>24, WaiterAt, WaiterTypes, StillWaiters DEF WaiterWakes
    <3>2. \E v \in RunType : run' = run \/ run' = [run EXCEPT ![a] = v]
      <4>1. Fenced(a) \in RunType /\ "queued" \in RunType
        BY DEF Fenced, TypeOK, RunType
      <4> QED BY <1>24, <4>1 DEF WaiterWakes, Given
    <3>3. run' \in [Agents -> RunType]
      BY <3>2 DEF TypeOK
    <3> QED BY <1>24, <2>1, <3>1, <3>3 DEF WaiterWakes, TypeOK, team
  <2>2. CASE waiter' = [waiter EXCEPT ![a].at = "sending"] /\ Given(a, pending[a])
    <3>1. pending[a] \in Seq(Messages)
      BY DEF TypeOK
    <3> QED BY <1>24, <2>2, <3>1, WaiterAt, GivenTypes DEF WaiterWakes, TypeOK, team
  <2> QED BY <1>24, <2>1, <2>2 DEF WaiterWakes
<1>25. ASSUME NEW a \in Agents, WaiterRefused(a) PROVE TypeOK'
  <2> DEFINE w == IF waiter[a].tries + 1 >= MaxTries THEN Ended
                  ELSE [at |-> "start", tries |-> waiter[a].tries + 1]
  <2>1. w \in WaitType
    <3>1. waiter[a] \in WaitType /\ Ended \in WaitType
      BY StillWaiters DEF TypeOK
    <3>2. CASE waiter[a].tries + 1 >= MaxTries
      BY <3>1, <3>2
    <3>3. CASE ~(waiter[a].tries + 1 >= MaxTries)
      <4>1. waiter[a].tries + 1 \in 0..MaxTries
        BY <3>1, <3>3, BoundsAssumption DEF WaitType
      <4> QED BY <3>3, <4>1 DEF WaitType
    <3> QED BY <3>2, <3>3
  <2>2. waiter' = [waiter EXCEPT ![a] = w]
    BY <1>25 DEF WaiterRefused
  <2> HIDE DEF w
  <2> QED BY <1>25, <2>1, <2>2, WaiterTypes DEF WaiterRefused, TypeOK, team, roster, mail, agent
<1>26. ASSUME NEW a \in Agents, Deliver(a) PROVE TypeOK'
  <2>1. waiter' \in [Agents -> WaitType]
    BY <1>26, WaiterTypes, StillWaiters DEF Deliver
  <2>2. pending' \in [Agents -> Seq(Messages)]
    BY <1>26 DEF Deliver, TypeOK
  <2>3. run' \in [Agents -> RunType]
    BY <1>26 DEF Deliver, TaskCreated, TypeOK, RunType
  <2>4. Busy(a)
    BY <1>26 DEF Deliver
  <2> QED BY <1>26, <2>1, <2>2, <2>3, <2>4, BusyTypes DEF Deliver, TypeOK, team
<1>27. ASSUME NEW a \in Agents, Watch(a) PROVE TypeOK'
  <2>1. /\ mirror' = mirror \/ mirror' = [mirror EXCEPT ![a] = "ready"]
        /\ watcher' = [watcher EXCEPT ![a] = "emitting"] \/ watcher' = [watcher EXCEPT ![a] = "none"]
    BY <1>27 DEF Watch
  <2> QED BY ZenonT(60), <1>27, <2>1 DEF Watch, Fenced, TypeOK, RunType, team, mail
<1>28. ASSUME NEW a \in Agents, WatchEnds(a) PROVE TypeOK'
  BY <1>28 DEF WatchEnds, TypeOK, team, roster, mail, agent
<1>29. ASSUME NEW m \in Messages, NEW a \in Agents, Send(m, a) PROVE TypeOK'
  BY <1>29 DEF Send, TypeOK, team, roster, tasks, agent
<1>30. ASSUME NEW m \in Messages, Commit(m) PROVE TypeOK'
  <2>1. message' = [message EXCEPT ![m] = "committed"] \/ message' = [message EXCEPT ![m] = "refused"]
    BY <1>30 DEF Commit
  <2>2. inbox' = inbox \/ inbox' = [inbox EXCEPT ![to[m]] = Append(inbox[to[m]], m)]
    BY <1>30 DEF Commit
  <2>3. inbox' \in [Agents -> Seq(Messages)]
    <3>1. to[m] \in Agents
      BY <1>30 DEF Commit, TypeOK
    <3>2. Append(inbox[to[m]], m) \in Seq(Messages)
      BY <3>1 DEF TypeOK
    <3> QED BY ZenonT(60), <2>2, <3>1, <3>2 DEF TypeOK
  <2> QED BY ZenonT(60), <1>30, <2>1, <2>3 DEF Commit, TypeOK, team, roster, tasks, agent
<1>31. ASSUME NEW m \in Messages, Inject(m) PROVE TypeOK'
  <2> DEFINE a == to[m]
  <2>4. a \in Agents
    BY <1>31 DEF Inject, TypeOK
  <2>1. message' = [message EXCEPT ![m] = "sent"] \/ message' = [message EXCEPT ![m] = "injecting"]
    BY <1>31 DEF Inject
  <2>2. CASE Given(a, <<m>>) /\ UNCHANGED <<pending, waiter>>
    <3>1. <<m>> \in Seq(Messages)
      OBVIOUS
    <3> HIDE DEF a
    <3> QED BY ZenonT(60), <1>31, <2>1, <2>2, <2>4, <3>1, GivenTypes DEF Inject, TypeOK, team
  <2>3. CASE /\ pending' = [pending EXCEPT ![a] = <<>>] \/ pending' = [pending EXCEPT ![a] = Append(pending[a], m)]
             /\ waiter' = waiter \/ waiter' = [waiter EXCEPT ![a] = Armed(a)]
             /\ UNCHANGED <<watcher, mirror, prompts, run>>
    <3>1. waiter' \in [Agents -> WaitType]
      BY <2>3, <2>4, WaiterTypes, StillWaiters DEF TypeOK
    <3>2. Append(pending[a], m) \in Seq(Messages)
      BY <2>4 DEF TypeOK
    <3>3. pending' \in [Agents -> Seq(Messages)]
      BY ZenonT(60), <2>3, <2>4, <3>2, NoMail DEF TypeOK
    <3> QED BY ZenonT(60), <1>31, <2>1, <2>3, <2>4, <3>1, <3>3 DEF Inject, TypeOK, team
  <2> QED BY <1>31, <2>2, <2>3, <2>4 DEF Inject
<1>32. ASSUME NEW m \in Messages, Injected(m) PROVE TypeOK'
  <2>1. to[m] \in Agents /\ Busy(to[m])
    BY <1>32 DEF Injected, TypeOK
  <2>2. run' \in [Agents -> RunType]
    BY <1>32, <2>1 DEF Injected, TaskCreated, TypeOK, RunType
  <2> QED BY <1>32, <2>1, <2>2, BusyTypes DEF Injected, TypeOK, team
<1>33. ASSUME NEW m \in Messages, SendCancelled(m) PROVE TypeOK'
  BY <1>33 DEF SendCancelled, TypeOK, RunType, team, roster, tasks
<1>34. CASE UNCHANGED vars
  BY <1>34 DEF TypeOK, vars, team, roster, mail, tasks, agent
<1> QED
  BY <1>1, <1>2, <1>3, <1>4, <1>5, <1>6, <1>7, <1>8, <1>9, <1>10, <1>11, <1>12, <1>13, <1>14, <1>15,
     <1>16, <1>17, <1>18, <1>19, <1>20, <1>21, <1>22, <1>23, <1>24, <1>25, <1>26, <1>27, <1>28, <1>29,
     <1>30, <1>31, <1>32, <1>33, <1>34
  DEF Next, Teardown, ShutdownFromOutside, ShutdownFromInside, CloseShutsDown, Membership, Execution,
      Waits, Watches, Mail

-----------------------------------------------------------------------------
(* Control *)

LEMMA InitCInv == Init => CInv
<1> SUFFICES ASSUME Init PROVE CInv
  OBVIOUS
<1>1. TypeOK
  <2>1. [at |-> "none", to |-> 0] \in AddType /\ [at |-> "none", tries |-> 0] \in WaitType
    BY BoundsAssumption DEF AddType, WaitType
  <2>2. \A m \in Messages : message[m] = "none"
    BY DEF Init
  <2> QED BY <2>1, <2>2, NoMail, NoRuntime DEF Init, TypeOK, RunType
<1>2. Name /\ OneMoves
  BY DEF Init, Name, OneMoves, Moving
<1>3. \A a \in Agents : Control(a) /\ Place(a) /\ Leaving(a) /\ Manned(a) /\ Shown(a)
  BY DEF Init, Control, Makes, Place, Leaving, Manned, Shown
<1> QED BY <1>1, <1>2, <1>3 DEF CInv, Ctl

LEMMA CreateCtl ==
  ASSUME CInv, Create
  PROVE  Ctl'
<1> USE DEF CInv, Ctl
<1>1. Name'
  BY DEF Name, Create
<1>2. ASSUME NEW x \in Agents PROVE Place(x)'
  BY DEF Place, Create, roster, mail, tasks, agent
<1>3. ASSUME NEW x \in Agents PROVE Shown(x)'
  BY DEF Place, Shown, Belongs, Create, roster
<1>4. OneMoves' /\ \A x \in Agents : Control(x)' /\ Leaving(x)' /\ Manned(x)'
  BY DEF OneMoves, Moving, Control, Announced, Makes, Leaving, Manned, InHand, Create, roster,
         mail, tasks, agent
<1> QED BY <1>1, <1>2, <1>3, <1>4

LEMMA MarkCtl ==
  ASSUME CInv, Mark
  PROVE  Ctl'
<1> USE DEF CInv, Ctl
<1>1. Name'
  BY DEF Name, Mark
<1>2. ASSUME NEW x \in Agents PROVE Leaving(x)'
  BY DEF Leaving, Place, Mark, Teammates
<1>3. ASSUME NEW x \in Agents PROVE Shown(x)'
  BY DEF Name, Shown, Belongs, IsActive, Mark
<1>4. OneMoves' /\ \A x \in Agents : Control(x)' /\ Place(x)' /\ Manned(x)'
  BY DEF OneMoves, Moving, Control, Announced, Makes, Place, Manned, InHand, Mark, mail, tasks,
         agent
<1> QED BY <1>1, <1>2, <1>3, <1>4

LEMMA SweepCtl ==
  ASSUME CInv, Sweep
  PROVE  Ctl'
<1> USE DEF CInv, Ctl
<1>1. Name'
  BY DEF Name, Sweep
<1>2. ASSUME NEW x \in Agents PROVE Control(x)'
  BY DEF Control, Announced, Makes, Sweep, Swept
<1>3. ASSUME NEW x \in Agents PROVE Place(x)'
  BY DEF Place, Sweep, Swept, roster
<1>4. ASSUME NEW x \in Agents PROVE Leaving(x)'
  BY DEF Leaving, Sweep, Swept, roster
<1>5. ASSUME NEW x \in Agents PROVE Manned(x)'
  BY DEF Manned, InHand, Sweep, Swept, roster
<1>6. ASSUME NEW x \in Agents PROVE Shown(x)'
  BY DEF Shown, Belongs, IsActive, Sweep, Swept, roster
<1>7. OneMoves'
  BY DEF OneMoves, Moving, Sweep, roster
<1> QED BY <1>1, <1>2, <1>3, <1>4, <1>5, <1>6, <1>7

LEMMA DissolveCtl ==
  ASSUME CInv, Dissolve
  PROVE  Ctl'
<1> USE DEF CInv, Ctl
<1>1. Name'
  BY DEF Name, Dissolve
<1>2. ASSUME NEW x \in Agents PROVE Control(x)'
  BY DEF Control, Announced, Makes, Dissolve, Swept
<1>3. ASSUME NEW x \in Agents PROVE Place(x)'
  BY DEF Place, Dissolve, Swept, Teammates
<1>4. ASSUME NEW x \in Agents PROVE Leaving(x)'
  BY DEF Leaving, Place, Dissolve
<1>5. ASSUME NEW x \in Agents PROVE Manned(x)'
  BY DEF Leaving, Manned, InHand, Dissolve, Swept
<1>6. ASSUME NEW x \in Agents PROVE Shown(x)'
  BY DEF Shown, Belongs, IsActive, Dissolve
<1>7. OneMoves'
  BY DEF OneMoves, Moving, Dissolve
<1> QED BY <1>1, <1>2, <1>3, <1>4, <1>5, <1>6, <1>7

LEMMA ShutdownEndsCtl ==
  ASSUME CInv, ShutdownEnds
  PROVE  Ctl'
<1> USE DEF CInv, Ctl
<1>1. Name'
  BY DEF Name, ShutdownEnds
<1>2. ASSUME NEW x \in Agents PROVE Place(x)'
  <2>1. member[x] = 0
    BY DEF ShutdownEnds, Leaving
  <2> QED BY <2>1 DEF ShutdownEnds, Place, roster, mail, tasks, agent
<1>3. ASSUME NEW x \in Agents PROVE Leaving(x)'
  BY DEF Leaving, ShutdownEnds
<1>4. ASSUME NEW x \in Agents PROVE Shown(x)'
  BY DEF Shown, Belongs, IsActive, ShutdownEnds
<1>5. OneMoves' /\ \A x \in Agents : Control(x)' /\ Manned(x)'
  BY DEF OneMoves, Moving, Control, Announced, Makes, Manned, InHand, ShutdownEnds, roster, mail,
         tasks, agent
<1> QED BY <1>1, <1>2, <1>3, <1>4, <1>5

LEMMA CloseCtl ==
  ASSUME CInv, Close
  PROVE  Ctl'
<1> USE DEF CInv, Ctl
<1>1. Name' /\ OneMoves' /\ \A x \in Agents : Control(x)' /\ Place(x)' /\ Leaving(x)' /\ Manned(x)' /\ Shown(x)'
  BY DEF Name, OneMoves, Moving, Control, Announced, Makes, Place, Leaving, Manned, InHand,
         Shown, Belongs, IsActive, Close, roster, mail, tasks, agent
<1> QED BY <1>1

LEMMA CloseShutsDownCtl ==
  ASSUME CInv, CloseShutsDown
  PROVE  Ctl'
<1> USE DEF CInv, Ctl
<1>1. Name'
  BY DEF Name, CloseShutsDown, Shutdown
<1>2. ASSUME NEW x \in Agents PROVE Leaving(x)'
  BY DEF Leaving, CloseShutsDown, Shutdown
<1>3. ASSUME NEW x \in Agents PROVE Shown(x)'
  BY DEF Shown, Belongs, IsActive, CloseShutsDown, Shutdown
<1>4. OneMoves' /\ \A x \in Agents : Control(x)' /\ Place(x)' /\ Manned(x)'
  BY DEF OneMoves, Moving, Control, Announced, Makes, Place, Manned, InHand, CloseShutsDown,
         Shutdown, roster, mail, tasks, agent
<1> QED BY <1>1, <1>2, <1>3, <1>4

LEMMA ClosedCtl ==
  ASSUME CInv, Closed
  PROVE  Ctl'
<1> USE DEF CInv, Ctl
<1>1. ASSUME NEW x \in Agents PROVE Control(x)'
  BY DEF Control, Announced, Makes, Closed, Swept
<1>2. ASSUME NEW x \in Agents PROVE Place(x)'
  BY DEF Place, Closed, Swept, roster
<1>3. ASSUME NEW x \in Agents PROVE Leaving(x)'
  BY DEF Name, Leaving, Closed
<1>4. ASSUME NEW x \in Agents PROVE Manned(x)'
  BY DEF Manned, InHand, Closed, Swept, roster
<1>5. ASSUME NEW x \in Agents PROVE Shown(x)'
  BY DEF Shown, Belongs, IsActive, Closed
<1>6. Name' /\ OneMoves'
  BY DEF Name, OneMoves, Moving, Closed
<1> QED BY <1>1, <1>2, <1>3, <1>4, <1>5, <1>6

LEMMA ShutdownFromOutsideCtl ==
  ASSUME CInv, ShutdownFromOutside
  PROVE  Ctl'
<1> USE DEF CInv, Ctl
<1>1. Name'
  BY DEF Name, ShutdownFromOutside, Shutdown
<1>2. ASSUME NEW x \in Agents PROVE Leaving(x)'
  BY DEF Leaving, ShutdownFromOutside, Shutdown
<1>3. ASSUME NEW x \in Agents PROVE Shown(x)'
  BY DEF Shown, Belongs, IsActive, ShutdownFromOutside, Shutdown
<1>4. OneMoves' /\ \A x \in Agents : Control(x)' /\ Place(x)' /\ Manned(x)'
  BY DEF OneMoves, Moving, Control, Announced, Makes, Place, Manned, InHand, ShutdownFromOutside,
         Shutdown, roster, mail, tasks, agent
<1> QED BY <1>1, <1>2, <1>3, <1>4

LEMMA ShutdownFromInsideCtl ==
  ASSUME CInv, NEW a \in Agents, ShutdownFromInside(a)
  PROVE  Ctl'
<1> USE DEF CInv, Ctl
<1>1. Name'
  BY DEF Name, ShutdownFromInside, Shutdown
<1>2. ASSUME NEW x \in Agents PROVE Leaving(x)'
  BY DEF Leaving, ShutdownFromInside, Shutdown
<1>3. ASSUME NEW x \in Agents PROVE Shown(x)'
  BY DEF Shown, Belongs, IsActive, ShutdownFromInside, Shutdown
<1>4. OneMoves' /\ \A x \in Agents : Control(x)' /\ Place(x)' /\ Manned(x)'
  BY DEF OneMoves, Moving, Control, Announced, Makes, Place, Manned, InHand, ShutdownFromInside,
         Shutdown, roster, mail, tasks, agent
<1> QED BY <1>1, <1>2, <1>3, <1>4

LEMMA CancelCtl ==
  ASSUME CInv, NEW a \in Agents, Cancel(a)
  PROVE  Ctl'
<1> USE DEF CInv, Ctl
<1>1. Name'
  BY DEF Name, Cancel
<1>2. ASSUME NEW x \in Agents PROVE Leaving(x)'
  BY DEF Leaving, Cancel, Stopped, roster, mail, tasks, agent
<1>3. OneMoves' /\ \A x \in Agents : Control(x)' /\ Place(x)' /\ Manned(x)' /\ Shown(x)'
  BY DEF OneMoves, Moving, Control, Announced, Makes, Place, Manned, InHand, Shown, Belongs,
         IsActive, Cancel, roster, mail, tasks, agent
<1> QED BY <1>1, <1>2, <1>3

LEMMA AddCtl ==
  ASSUME CInv, NEW a \in Agents, Add(a)
  PROVE  Ctl'
<1> USE DEF CInv, Ctl
<1>1. ASSUME NEW x \in Agents PROVE Place(x)'
  BY DEF Place, Add, team, mail, tasks, agent
<1>2. ASSUME NEW x \in Agents PROVE Manned(x)'
  BY DEF Manned, InHand, Add, agent
<1>3. Name' /\ OneMoves' /\ \A x \in Agents : Control(x)' /\ Leaving(x)' /\ Shown(x)'
  BY DEF Name, OneMoves, Moving, Control, Announced, Makes, Leaving, Shown, Belongs, IsActive,
         Add, team, mail, tasks, agent
<1> QED BY <1>1, <1>2, <1>3

LEMMA ReserveCtl ==
  ASSUME CInv, NEW a \in Agents, Reserve(a)
  PROVE  Ctl'
<1> USE DEF CInv, Ctl
<1>1. ASSUME NEW x \in Agents PROVE Control(x)'
  BY DEF Control, Announced, Makes, Place, Reserve, mail, tasks
<1>2. ASSUME NEW x \in Agents PROVE Place(x)'
  BY DEF TypeOK, Place, Reserve, team, mail, tasks
<1>3. ASSUME NEW x \in Agents PROVE Leaving(x)'
  BY DEF Leaving, Place, Reserve, team, mail, tasks
<1>4. ASSUME NEW x \in Agents PROVE Manned(x)'
  BY DEF TypeOK, Manned, InHand, Reserve
<1>5. ASSUME NEW x \in Agents PROVE Shown(x)'
  BY DEF Shown, Belongs, IsActive, Reserve, team
<1>6. Name' /\ OneMoves'
  BY DEF Name, OneMoves, Moving, Reserve, team, mail
<1> QED BY <1>1, <1>2, <1>3, <1>4, <1>5, <1>6

LEMMA SpawnFailsCtl ==
  ASSUME CInv, NEW a \in Agents, SpawnFails(a)
  PROVE  Ctl'
<1> USE DEF CInv, Ctl
<1>1. ASSUME NEW x \in Agents PROVE Control(x)'
  BY DEF Control, Announced, Makes, Place, SpawnFails, mail, tasks
<1>2. ASSUME NEW x \in Agents PROVE Place(x)'
  BY DEF TypeOK, Place, SpawnFails, team, mail, tasks
<1>3. ASSUME NEW x \in Agents PROVE Leaving(x)'
  BY DEF Leaving, SpawnFails, team, mail, tasks
<1>4. ASSUME NEW x \in Agents PROVE Manned(x)'
  BY DEF TypeOK, Manned, InHand, SpawnFails
<1>5. ASSUME NEW x \in Agents PROVE Shown(x)'
  BY DEF Shown, Belongs, IsActive, SpawnFails, team
<1>6. Name' /\ OneMoves'
  BY DEF Name, OneMoves, Moving, SpawnFails, team, mail
<1> QED BY <1>1, <1>2, <1>3, <1>4, <1>5, <1>6

LEMMA RegisterCtl ==
  ASSUME CInv, NEW a \in Agents, Register(a)
  PROVE  Ctl'
<1> USE DEF CInv, Ctl
<1>1. ASSUME NEW x \in Agents PROVE Place(x)'
  <2>1. CASE IsActive(adding[a].to)
    BY SMTT(60), <2>1 DEF Register, TypeOK, AddType, Place, IsActive, team, mail, tasks, agent
  <2>2. CASE ~IsActive(adding[a].to)
    <3>1. adding' = [adding EXCEPT ![a].at = "undoing"] /\ UNCHANGED <<member, current, run, waiter, pending>>
      BY <2>2 DEF Register, team, mail, tasks, agent
    <3>2. adding[a].at = "spawning"
      BY DEF Register
    <3> QED BY <3>1, <3>2 DEF TypeOK, AddType, Place
  <2> QED BY <2>1, <2>2
<1>2. ASSUME NEW x \in Agents PROVE Leaving(x)'
  BY DEF TypeOK, Name, Leaving, Place, Control, Announced, Makes, Register, IsActive, team, mail,
         tasks, agent
<1>3. ASSUME NEW x \in Agents PROVE Manned(x)'
  <2>1. CASE IsActive(adding[a].to)
    BY ZenonT(60), <2>1 DEF Register, TypeOK, AddType, Manned, InHand, IsActive, agent
  <2>2. CASE ~IsActive(adding[a].to)
    <3>1. adding' = [adding EXCEPT ![a].at = "undoing"] /\ UNCHANGED <<member, removal, run>>
      BY <2>2 DEF Register, agent
    <3> QED BY <3>1 DEF TypeOK, AddType, Manned, InHand
  <2> QED BY <2>1, <2>2
<1>4. ASSUME NEW x \in Agents PROVE Shown(x)'
  BY DEF TypeOK, Name, Place, Shown, Belongs, IsActive, Register, team, mail, tasks, agent
<1>5. Name' /\ OneMoves' /\ \A x \in Agents : Control(x)'
  BY DEF Name, OneMoves, Moving, Control, Announced, Makes, Register, team, mail, tasks, agent
<1> QED BY <1>1, <1>2, <1>3, <1>4, <1>5

LEMMA AddedCtl ==
  ASSUME CInv, NEW a \in Agents, Added(a)
  PROVE  Ctl'
<1> USE DEF CInv, Ctl
<1>1. ASSUME NEW x \in Agents PROVE Place(x)'
  BY DEF Place, Added, team, mail, agent
<1>2. ASSUME NEW x \in Agents PROVE Manned(x)'
  BY DEF Manned, InHand, Added, agent
<1>3. Name' /\ OneMoves' /\ \A x \in Agents : Control(x)' /\ Leaving(x)' /\ Shown(x)'
  BY DEF Name, OneMoves, Moving, Control, Announced, Makes, Leaving, Shown, Belongs, IsActive,
         Added, team, mail, agent
<1> QED BY <1>1, <1>2, <1>3

LEMMA AddCancelledCtl ==
  ASSUME CInv, NEW a \in Agents, AddCancelled(a)
  PROVE  Ctl'
<1> USE DEF CInv, Ctl
<1>1. ASSUME NEW x \in Agents PROVE Place(x)'
  BY DEF Place, AddCancelled, team, mail, tasks, agent
<1>2. ASSUME NEW x \in Agents PROVE Manned(x)'
  BY DEF Manned, InHand, AddCancelled, agent
<1>3. Name' /\ OneMoves' /\ \A x \in Agents : Control(x)' /\ Leaving(x)' /\ Shown(x)'
  BY DEF Name, OneMoves, Moving, Control, Announced, Makes, Leaving, Shown, Belongs, IsActive,
         AddCancelled, team, mail, tasks, agent
<1> QED BY <1>1, <1>2, <1>3

LEMMA UndoCtl ==
  ASSUME CInv, NEW a \in Agents, Undo(a)
  PROVE  Ctl'
<1> USE DEF CInv, Ctl
<1>1. ASSUME NEW x \in Agents PROVE Control(x)'
  BY DEF Control, Announced, Makes, Undo, Swept
<1>2. ASSUME NEW x \in Agents PROVE Place(x)'
  BY DEF TypeOK, Place, Undo, Swept, team
<1>3. ASSUME NEW x \in Agents PROVE Leaving(x)'
  BY DEF Leaving, Undo, Swept, team
<1>4. ASSUME NEW x \in Agents PROVE Manned(x)'
  BY DEF Manned, InHand, Undo, Swept
<1>5. ASSUME NEW x \in Agents PROVE Shown(x)'
  BY DEF TypeOK, Shown, Belongs, IsActive, Undo, Swept, team
<1>6. Name' /\ OneMoves'
  BY DEF Name, OneMoves, Moving, Undo, team
<1> QED BY <1>1, <1>2, <1>3, <1>4, <1>5, <1>6

LEMMA UndoneCtl ==
  ASSUME CInv, NEW a \in Agents, Undone(a)
  PROVE  Ctl'
<1> USE DEF CInv, Ctl
<1>1. ASSUME NEW x \in Agents PROVE Place(x)'
  BY DEF Place, Undone, team, mail, tasks, agent
<1>2. ASSUME NEW x \in Agents PROVE Manned(x)'
  BY DEF Manned, InHand, Undone, Stopped, agent
<1>3. Name' /\ OneMoves' /\ \A x \in Agents : Control(x)' /\ Leaving(x)' /\ Shown(x)'
  BY DEF Name, OneMoves, Moving, Control, Announced, Makes, Leaving, Shown, Belongs, IsActive,
         Undone, team, mail, tasks, agent
<1> QED BY <1>1, <1>2, <1>3

LEMMA AskRemovalCtl ==
  ASSUME CInv, NEW a \in Agents, AskRemoval(a)
  PROVE  Ctl'
<1> USE DEF CInv, Ctl
<1>1. ASSUME NEW x \in Agents PROVE Manned(x)'
  BY DEF Manned, InHand, AskRemoval, agent
<1>2. Name' /\ OneMoves' /\ \A x \in Agents : Control(x)' /\ Place(x)' /\ Leaving(x)' /\ Shown(x)'
  BY DEF Name, OneMoves, Moving, Control, Announced, Makes, Place, Leaving, Shown, Belongs,
         IsActive, AskRemoval, team, mail, tasks, agent
<1> QED BY <1>1, <1>2

LEMMA RemoveMemberCtl ==
  ASSUME CInv, NEW a \in Agents, RemoveMember(a)
  PROVE  Ctl'
<1> USE DEF CInv, Ctl
<1>1. ASSUME NEW x \in Agents PROVE Control(x)'
  <2>1. CASE Belongs(a)
    <3>1. Swept({a}) /\ UNCHANGED <<message, to, outside>>
      BY <2>1 DEF RemoveMember
    <3> QED BY SMTT(60), <3>1 DEF TypeOK, Control, Announced, Makes, Swept
  <2>2. CASE ~Belongs(a)
    BY <2>2 DEF RemoveMember, Control, Announced, Makes
  <2> QED BY <2>1, <2>2
<1>2. ASSUME NEW x \in Agents PROVE Place(x)'
  BY SMTT(60) DEF TypeOK, Place, Name, Control, Announced, RemoveMember, BusFree, Swept, team
<1>3. ASSUME NEW x \in Agents PROVE Leaving(x)'
  BY DEF TypeOK, Leaving, RemoveMember, Swept, team
<1>4. ASSUME NEW x \in Agents PROVE Manned(x)'
  <2>1. CASE Belongs(a)
    <3>1. /\ removal' = [removal EXCEPT ![a] = "stopping"]
          /\ member' = [member EXCEPT ![a] = 0]
          /\ Swept({a}) /\ UNCHANGED adding
      BY <2>1 DEF RemoveMember
    <3>2. run'[x] # run[x] => run'[x] = "over"
      BY <3>1 DEF Swept, TypeOK
    <3> QED BY <3>1, <3>2 DEF TypeOK, Manned, InHand
  <2>2. CASE ~Belongs(a)
    BY <2>2 DEF RemoveMember, TypeOK, Manned, InHand
  <2> QED BY <2>1, <2>2
<1>5. ASSUME NEW x \in Agents PROVE Shown(x)'
  <2>1. CASE Belongs(a)
    <3>1. /\ member' = [member EXCEPT ![a] = 0]
          /\ mirror' = [mirror EXCEPT ![a] = "shutdown"]
          /\ Swept({a}) /\ UNCHANGED <<current, shutting>>
      BY <2>1 DEF RemoveMember, team
    <3>2. run'[x] # run[x] => run'[x] = "over"
      BY <3>1 DEF Swept, TypeOK
    <3> QED BY <3>1, <3>2 DEF TypeOK, Shown, Belongs, IsActive
  <2>2. CASE ~Belongs(a)
    BY <2>2 DEF RemoveMember, Shown, Belongs, IsActive, team
  <2> QED BY <2>1, <2>2
<1>6. Name' /\ OneMoves'
  BY DEF Name, OneMoves, Moving, RemoveMember, team
<1> QED BY <1>1, <1>2, <1>3, <1>4, <1>5, <1>6

LEMMA RemovedCtl ==
  ASSUME CInv, NEW a \in Agents, Removed(a)
  PROVE  Ctl'
<1> USE DEF CInv, Ctl
<1>1. ASSUME NEW x \in Agents PROVE Manned(x)'
  BY DEF Manned, InHand, Removed, Stopped, agent
<1>2. Name' /\ OneMoves' /\ \A x \in Agents : Control(x)' /\ Place(x)' /\ Leaving(x)' /\ Shown(x)'
  BY DEF Name, OneMoves, Moving, Control, Announced, Makes, Place, Leaving, Shown, Belongs,
         IsActive, Removed, team, mail, tasks, agent
<1> QED BY <1>1, <1>2

LEMMA RemoveCancelledCtl ==
  ASSUME CInv, NEW a \in Agents, RemoveCancelled(a)
  PROVE  Ctl'
<1> USE DEF CInv, Ctl
<1>1. ASSUME NEW x \in Agents PROVE Manned(x)'
  BY DEF Manned, InHand, RemoveCancelled, agent
<1>2. Name' /\ OneMoves' /\ \A x \in Agents : Control(x)' /\ Place(x)' /\ Leaving(x)' /\ Shown(x)'
  BY DEF Name, OneMoves, Moving, Control, Announced, Makes, Place, Leaving, Shown, Belongs,
         IsActive, RemoveCancelled, team, mail, tasks, agent
<1> QED BY <1>1, <1>2

LEMMA RunStartsCtl ==
  ASSUME CInv, NEW a \in Agents, RunStarts(a)
  PROVE  Ctl'
<1> USE DEF CInv, Ctl
<1>1. ASSUME NEW x \in Agents PROVE Control(x)'
  BY DEF Control, Announced, Makes, RunStarts, mail
<1>2. ASSUME NEW x \in Agents PROVE Place(x)'
  BY DEF Place, RunStarts, team, mail
<1>3. ASSUME NEW x \in Agents PROVE Leaving(x)'
  BY DEF Leaving, RunStarts, team, mail
<1>4. ASSUME NEW x \in Agents PROVE Manned(x)'
  BY DEF Manned, InHand, RunStarts
<1>5. ASSUME NEW x \in Agents PROVE Shown(x)'
  BY DEF TypeOK, Shown, Belongs, IsActive, RunStarts, Busy, team
<1>6. Name' /\ OneMoves'
  BY DEF Name, OneMoves, Moving, RunStarts, team, mail
<1> QED BY <1>1, <1>2, <1>3, <1>4, <1>5, <1>6

LEMMA RunEndsCtl ==
  ASSUME CInv, NEW a \in Agents, RunEnds(a)
  PROVE  Ctl'
<1> USE DEF CInv, Ctl
<1>1. ASSUME NEW x \in Agents PROVE Control(x)'
  BY DEF Control, Announced, Makes, RunEnds, mail, tasks
<1>2. ASSUME NEW x \in Agents PROVE Place(x)'
  BY DEF Place, RunEnds, team, mail, tasks
<1>3. ASSUME NEW x \in Agents PROVE Leaving(x)'
  BY DEF Leaving, RunEnds, team, mail, tasks
<1>4. ASSUME NEW x \in Agents PROVE Manned(x)'
  BY DEF Manned, InHand, RunEnds
<1>5. ASSUME NEW x \in Agents PROVE Shown(x)'
  BY DEF TypeOK, Shown, Belongs, IsActive, RunEnds, team
<1>6. Name' /\ OneMoves'
  BY DEF Name, OneMoves, Moving, RunEnds, team, mail
<1> QED BY <1>1, <1>2, <1>3, <1>4, <1>5, <1>6

LEMMA RunSettlesCtl ==
  ASSUME CInv, NEW a \in Agents, RunSettles(a)
  PROVE  Ctl'
<1> USE DEF CInv, Ctl
<1>1. ASSUME NEW x \in Agents PROVE Control(x)'
  BY DEF Control, Announced, Makes, RunSettles, Armed, mail
<1>2. ASSUME NEW x \in Agents PROVE Place(x)'
  BY DEF Place, RunSettles, team, roster, mail
<1>3. ASSUME NEW x \in Agents PROVE Leaving(x)'
  BY DEF Leaving, RunSettles, team, roster, mail
<1>4. ASSUME NEW x \in Agents PROVE Manned(x)'
  BY DEF Manned, InHand, RunSettles, roster
<1>5. ASSUME NEW x \in Agents PROVE Shown(x)'
  BY DEF Shown, Belongs, IsActive, RunSettles, team, roster
<1>6. Name' /\ OneMoves'
  BY DEF Name, OneMoves, Moving, RunSettles, team, mail
<1> QED BY <1>1, <1>2, <1>3, <1>4, <1>5, <1>6

LEMMA InputTakenCtl ==
  ASSUME CInv, NEW a \in Agents, InputTaken(a)
  PROVE  Ctl'
<1> USE DEF CInv, Ctl
<1>1. ASSUME NEW x \in Agents PROVE Control(x)'
  BY DEF TypeOK, Control, Announced, Makes, InputTaken, mail, tasks
<1>2. ASSUME NEW x \in Agents PROVE Place(x)'
  BY DEF Place, Control, Announced, InputTaken, team, roster, mail, tasks
<1>3. ASSUME NEW x \in Agents PROVE Leaving(x)'
  BY DEF Leaving, InputTaken, TaskCreated, team, roster, mail, tasks
<1>4. ASSUME NEW x \in Agents PROVE Manned(x)'
  BY DEF Manned, InHand, InputTaken, TaskCreated, roster
<1>5. ASSUME NEW x \in Agents PROVE Shown(x)'
  BY DEF Shown, Belongs, IsActive, InputTaken, TaskCreated, team, roster
<1>6. Name' /\ OneMoves'
  BY DEF Name, OneMoves, Moving, InputTaken, team, mail
<1> QED BY <1>1, <1>2, <1>3, <1>4, <1>5, <1>6

LEMMA InputCtl ==
  ASSUME CInv, NEW a \in Agents, Input(a)
  PROVE  Ctl'
<1> USE DEF CInv, Ctl
<1>1. ASSUME NEW x \in Agents PROVE Control(x)'
  BY DEF TypeOK, Control, Announced, Makes, Input, mail
<1>2. ASSUME NEW x \in Agents PROVE Place(x)'
  BY DEF Place, Input, team, mail
<1>3. ASSUME NEW x \in Agents PROVE Leaving(x)'
  BY DEF Name, Leaving, Input, Belongs, team, IsActive
<1>4. ASSUME NEW x \in Agents PROVE Manned(x)'
  BY DEF Manned, InHand, Input, Belongs
<1>5. ASSUME NEW x \in Agents PROVE Shown(x)'
  BY DEF TypeOK, Shown, Belongs, IsActive, Input, Busy, team
<1>6. Name' /\ OneMoves'
  BY DEF Name, OneMoves, Moving, Input, team, mail
<1> QED BY <1>1, <1>2, <1>3, <1>4, <1>5, <1>6

LEMMA WaiterLooksCtl ==
  ASSUME CInv, NEW a \in Agents, WaiterLooks(a)
  PROVE  Ctl'
<1> USE DEF CInv, Ctl
<1>1. ASSUME NEW x \in Agents PROVE Control(x)'
  <2>1. CASE waiter' = [waiter EXCEPT ![a].at = "waiting"]
    BY <2>1 DEF WaiterLooks, TypeOK, WaitType, Control, Announced, Makes, agent
  <2>2. CASE waiter' = [waiter EXCEPT ![a] = Ended]
    BY <2>2 DEF WaiterLooks, TypeOK, Ended, Control, Announced, Makes, agent
  <2> QED BY <2>1, <2>2 DEF WaiterLooks
<1>2. ASSUME NEW x \in Agents PROVE Place(x)'
  <2>1. CASE Belongs(a) /\ pending[a] # <<>>
    BY ZenonT(60), <2>1 DEF WaiterLooks, Place, TypeOK, team, roster, agent
  <2>2. CASE ~(Belongs(a) /\ pending[a] # <<>>)
    BY SMTT(60), <2>2 DEF WaiterLooks, Place, TypeOK, Ended, team, roster, agent
  <2> QED BY <2>1, <2>2
<1>3. ASSUME NEW x \in Agents PROVE Leaving(x)'
  BY DEF TypeOK, Name, Leaving, Place, Control, Announced, Makes, WaiterLooks, Belongs, Ended,
         team, roster, agent, IsActive
<1>4. Name' /\ OneMoves' /\ \A x \in Agents : Manned(x)' /\ Shown(x)'
  BY DEF Name, OneMoves, Moving, Manned, InHand, Shown, Belongs, IsActive, WaiterLooks, team,
         roster, agent
<1> QED BY <1>1, <1>2, <1>3, <1>4

LEMMA WaiterWakesCtl ==
  ASSUME CInv, NEW a \in Agents, WaiterWakes(a)
  PROVE  Ctl'
<1> USE DEF CInv, Ctl
<1>1. ASSUME NEW x \in Agents PROVE Control(x)'
  <2>1. CASE pending[a] = <<>>
    <3>1. waiter' = [waiter EXCEPT ![a] = Ended] /\ UNCHANGED <<run, outside, message, to>>
      BY <2>1 DEF WaiterWakes
    <3> QED BY <3>1 DEF TypeOK, Control, Announced, Makes, Ended
  <2>2. CASE pending[a] # <<>> /\ outside[a]
    BY <2>2 DEF WaiterWakes, TypeOK, WaitType, Control, Announced, Makes, Fenced
  <2>3. CASE pending[a] # <<>> /\ ~outside[a]
    <3>1. /\ run' = [run EXCEPT ![a] = "queued"]
          /\ waiter' = [waiter EXCEPT ![a].at = "sending"]
          /\ UNCHANGED <<outside, message, to>>
          /\ \A m \in Messages : ~Makes(m, a)
      BY <2>3 DEF WaiterWakes, Given, DeliveryFree, Makes
    <3> QED BY <2>3, <3>1 DEF TypeOK, WaitType, Control, Announced, Makes
  <2> QED BY <2>1, <2>2, <2>3
<1>2. ASSUME NEW x \in Agents PROVE Place(x)'
  <2>1. member[a] # 0 /\ (adding[a].at \notin {"none", "queued", "spawning"})
    BY DEF WaiterWakes, Place
  <2>2. CASE x = a
    BY <2>1, <2>2 DEF WaiterWakes, Place, team
  <2>3. CASE x # a
    <3>1. run'[x] = run[x] /\ waiter'[x] = waiter[x]
      BY <2>3 DEF WaiterWakes, TypeOK, Given
    <3> QED BY <3>1 DEF WaiterWakes, Place, team
  <2> QED BY <2>2, <2>3
<1>3. ASSUME NEW x \in Agents PROVE Leaving(x)'
  BY DEF TypeOK, Name, Leaving, Place, Control, Announced, Makes, WaiterWakes, CanWait,
         DeliveryFree, Ended, Fenced, Given, team, Busy, Belongs, IsActive
<1>4. ASSUME NEW x \in Agents PROVE Manned(x)'
  BY ZenonT(60) DEF TypeOK, Name, Place, Leaving, Manned, InHand, Control, Announced, Makes, WaiterWakes,
         CanWait, DeliveryFree, Ended, Fenced, Given, team, Busy, Belongs, IsActive
<1>5. ASSUME NEW x \in Agents PROVE Shown(x)'
  BY DEF TypeOK, Name, Place, Shown, Belongs, IsActive, WaiterWakes, CanWait, DeliveryFree,
         Ended, Fenced, Given, team, Busy
<1>6. Name' /\ OneMoves'
  BY DEF Name, OneMoves, Moving, WaiterWakes, team
<1> QED BY <1>1, <1>2, <1>3, <1>4, <1>5, <1>6

LEMMA WaiterRefusedCtl ==
  ASSUME CInv, NEW a \in Agents, WaiterRefused(a)
  PROVE  Ctl'
<1> USE DEF CInv, Ctl
<1>1. ASSUME NEW x \in Agents PROVE Control(x)'
  BY DEF Control, Announced, Makes, WaiterRefused, Ended, mail, agent
<1>2. ASSUME NEW x \in Agents PROVE Place(x)'
  BY DEF Place, WaiterRefused, team, roster, mail, agent
<1>3. ASSUME NEW x \in Agents PROVE Leaving(x)'
  BY DEF Leaving, Place, WaiterRefused, team, roster
<1>4. Name' /\ OneMoves' /\ \A x \in Agents : Manned(x)' /\ Shown(x)'
  BY DEF Name, OneMoves, Moving, Manned, InHand, Shown, Belongs, IsActive, WaiterRefused, team,
         roster, mail, agent
<1> QED BY <1>1, <1>2, <1>3, <1>4

LEMMA DeliverCtl ==
  ASSUME CInv, NEW a \in Agents, Deliver(a)
  PROVE  Ctl'
<1> USE DEF CInv, Ctl
<1>1. ASSUME NEW x \in Agents PROVE Control(x)'
  BY DEF TypeOK, Control, Announced, Makes, Deliver, Ended
<1>2. ASSUME NEW x \in Agents PROVE Place(x)'
  BY DEF Place, Deliver, team
<1>3. ASSUME NEW x \in Agents PROVE Leaving(x)'
  BY DEF Leaving, Deliver, team
<1>4. ASSUME NEW x \in Agents PROVE Manned(x)'
  BY DEF Manned, InHand, Control, Announced, Deliver
<1>5. ASSUME NEW x \in Agents PROVE Shown(x)'
  BY DEF TypeOK, Shown, Belongs, IsActive, Deliver, Busy, team
<1>6. Name' /\ OneMoves'
  BY DEF Name, OneMoves, Moving, Deliver, team
<1> QED BY <1>1, <1>2, <1>3, <1>4, <1>5, <1>6

LEMMA WatchCtl ==
  ASSUME CInv, NEW a \in Agents, Watch(a)
  PROVE  Ctl'
<1> USE DEF CInv, Ctl
<1>1. ASSUME NEW x \in Agents PROVE Control(x)'
  BY DEF Control, Announced, Makes, Watch, Fenced, mail
<1>2. ASSUME NEW x \in Agents PROVE Place(x)'
  BY DEF Place, Watch, CanWait, team, mail
<1>3. ASSUME NEW x \in Agents PROVE Leaving(x)'
  BY DEF Leaving, Watch, Fenced, team, mail
<1>4. ASSUME NEW x \in Agents PROVE Manned(x)'
  BY DEF Manned, InHand, Watch, Fenced
<1>5. ASSUME NEW x \in Agents PROVE Shown(x)'
  BY DEF TypeOK, Shown, Belongs, IsActive, Watch, CanWait, Fenced, team
<1>6. Name' /\ OneMoves'
  BY DEF Name, OneMoves, Moving, Watch, team, mail
<1> QED BY <1>1, <1>2, <1>3, <1>4, <1>5, <1>6

LEMMA WatchEndsCtl ==
  ASSUME CInv, NEW a \in Agents, WatchEnds(a)
  PROVE  Ctl'
<1> USE DEF CInv, Ctl
<1>1. Name' /\ OneMoves' /\ \A x \in Agents : Control(x)' /\ Place(x)' /\ Leaving(x)' /\ Manned(x)' /\ Shown(x)'
  BY DEF Name, OneMoves, Moving, Control, Announced, Makes, Place, Leaving, Manned, InHand,
         Shown, Belongs, IsActive, WatchEnds, team, roster, mail, agent
<1> QED BY <1>1

LEMMA CommitCtl ==
  ASSUME CInv, NEW m \in Messages, Commit(m)
  PROVE  Ctl'
<1> USE DEF CInv, Ctl
<1>1. OneMoves'
  BY DEF TypeOK, OneMoves, Moving, Commit, BusFree
<1>2. ASSUME NEW x \in Agents PROVE Control(x)'
  BY DEF TypeOK, Control, Announced, Makes, Commit, tasks, agent
<1>3. Name' /\ \A x \in Agents : Place(x)' /\ Leaving(x)' /\ Manned(x)' /\ Shown(x)'
  BY DEF Name, Place, Leaving, Manned, InHand, Shown, Belongs, IsActive, Commit, team, roster,
         tasks, agent
<1> QED BY <1>1, <1>2, <1>3

LEMMA InjectCtl ==
  ASSUME CInv, NEW m \in Messages, Inject(m)
  PROVE  Ctl'
<1> USE DEF CInv, Ctl
<1>1. OneMoves'
  <2>1. \E v \in {"sent", "injecting"} : message' = [message EXCEPT ![m] = v]
    BY DEF Inject
  <2> QED BY <2>1 DEF Inject, TypeOK, OneMoves, Moving
<1>2. ASSUME NEW x \in Agents PROVE Control(x)'
  <2>1. CASE ~Belongs(to[m])
    BY <2>1 DEF Inject, TypeOK, Control, Announced, Makes
  <2>2. CASE Belongs(to[m]) /\ (pending[to[m]] # <<>> \/ HasTask(to[m]))
    BY SMTT(60), <2>2 DEF Inject, TypeOK, WaitType, Control, Announced, Makes, Armed
  <2>3. CASE Belongs(to[m]) /\ ~(pending[to[m]] # <<>> \/ HasTask(to[m]))
    BY <2>3 DEF Inject, TypeOK, Control, Announced, Makes, Given, Controllable
  <2> QED BY <2>1, <2>2, <2>3
<1>3. ASSUME NEW x \in Agents PROVE Place(x)'
  <2>1. CASE ~Belongs(to[m])
    BY <2>1 DEF Inject, TypeOK, Place, team
  <2>2. CASE Belongs(to[m]) /\ (pending[to[m]] # <<>> \/ HasTask(to[m]))
    BY SMTT(60), <2>2 DEF Inject, TypeOK, Place, Armed, Belongs, IsActive, team
  <2>3. CASE Belongs(to[m]) /\ ~(pending[to[m]] # <<>> \/ HasTask(to[m]))
    BY SMTT(60), <2>3 DEF Inject, TypeOK, Place, Given, Belongs, IsActive, team
  <2> QED BY <2>1, <2>2, <2>3
<1>4. ASSUME NEW x \in Agents PROVE Leaving(x)'
  BY DEF TypeOK, Name, Leaving, Place, Control, Announced, Makes, Inject, DeliveryFree,
         Controllable, Belongs, HasTask, Armed, Given, team, IsActive, Busy
<1>5. ASSUME NEW x \in Agents PROVE Manned(x)'
  <2>1. CASE ~Belongs(to[m])
    BY <2>1 DEF Inject, Manned, InHand
  <2>2. CASE Belongs(to[m]) /\ (pending[to[m]] # <<>> \/ HasTask(to[m]))
    BY <2>2 DEF Inject, Manned, InHand
  <2>3. CASE Belongs(to[m]) /\ ~(pending[to[m]] # <<>> \/ HasTask(to[m]))
    BY <2>3 DEF Inject, TypeOK, Manned, InHand, Given, Belongs, IsActive
  <2> QED BY <2>1, <2>2, <2>3
<1>6. ASSUME NEW x \in Agents PROVE Shown(x)'
  BY DEF TypeOK, Name, Place, Shown, Belongs, IsActive, Inject, DeliveryFree, Controllable,
         HasTask, Armed, Given, team, Busy
<1>7. Name'
  BY DEF Name, Inject, team
<1> QED BY <1>1, <1>2, <1>3, <1>4, <1>5, <1>6, <1>7

LEMMA InjectedCtl ==
  ASSUME CInv, NEW m \in Messages, Injected(m)
  PROVE  Ctl'
<1> USE DEF CInv, Ctl
<1>1. OneMoves'
  BY DEF OneMoves, Moving, Injected
<1>2. ASSUME NEW x \in Agents PROVE Control(x)'
  BY DEF TypeOK, Control, Announced, Makes, OneMoves, Moving, Injected
<1>3. ASSUME NEW x \in Agents PROVE Place(x)'
  BY DEF Place, Control, Announced, Makes, Injected, team
<1>4. ASSUME NEW x \in Agents PROVE Leaving(x)'
  BY DEF Leaving, Injected, TaskCreated, team
<1>5. ASSUME NEW x \in Agents PROVE Manned(x)'
  BY DEF Manned, InHand, Injected, TaskCreated
<1>6. ASSUME NEW x \in Agents PROVE Shown(x)'
  BY DEF TypeOK, Shown, Belongs, IsActive, Injected, Busy, team
<1>7. Name'
  BY DEF Name, Injected, team
<1> QED BY <1>1, <1>2, <1>3, <1>4, <1>5, <1>6, <1>7

LEMMA SendCancelledCtl ==
  ASSUME CInv, NEW m \in Messages, SendCancelled(m)
  PROVE  Ctl'
<1> USE DEF CInv, Ctl
<1>1. OneMoves'
  BY DEF OneMoves, Moving, SendCancelled
<1>2. ASSUME NEW x \in Agents PROVE Control(x)'
  BY DEF TypeOK, Control, Announced, Makes, OneMoves, Moving, SendCancelled, tasks
<1>3. ASSUME NEW x \in Agents PROVE Place(x)'
  BY DEF Place, Control, Announced, Makes, SendCancelled, team, roster, tasks
<1>4. ASSUME NEW x \in Agents PROVE Leaving(x)'
  BY DEF Leaving, SendCancelled, team, roster, tasks
<1>5. ASSUME NEW x \in Agents PROVE Manned(x)'
  BY DEF Manned, InHand, SendCancelled, roster
<1>6. ASSUME NEW x \in Agents PROVE Shown(x)'
  BY DEF Shown, Belongs, IsActive, SendCancelled, team, roster
<1>7. Name'
  BY DEF Name, SendCancelled, team
<1> QED BY <1>1, <1>2, <1>3, <1>4, <1>5, <1>6, <1>7

LEMMA SendCtl ==
  ASSUME CInv, NEW m \in Messages, NEW a \in Agents, Send(m, a)
  PROVE  Ctl'
<1> USE DEF CInv, Ctl
<1>1. OneMoves'
  BY DEF OneMoves, Moving, Send
<1>2. ASSUME NEW x \in Agents PROVE Control(x)'
  BY DEF Control, Announced, Makes, Send, tasks, agent
<1>3. Name' /\ \A x \in Agents : Place(x)' /\ Leaving(x)' /\ Manned(x)' /\ Shown(x)'
  BY DEF Name, Place, Leaving, Manned, InHand, Shown, Belongs, Send, team, roster, tasks, agent
<1> QED BY <1>1, <1>2, <1>3

LEMMA NextCtl ==
  ASSUME CInv, [Next]_vars
  PROVE  Ctl'
<1>1. CASE UNCHANGED vars
  BY <1>1 DEF CInv, Ctl, Name, OneMoves, Moving, Control, Announced, Makes, Place, Leaving, Manned, InHand,
             Shown, Belongs, IsActive, vars, team, roster, mail, tasks, agent
<1>2. ASSUME Create \/ Teardown PROVE Ctl'
  BY <1>2, CreateCtl, ShutdownFromOutsideCtl, ShutdownFromInsideCtl, CancelCtl, MarkCtl, SweepCtl,
     DissolveCtl, ShutdownEndsCtl, CloseCtl, CloseShutsDownCtl, ClosedCtl DEF Teardown
<1>3. ASSUME NEW a \in Agents, Membership(a) PROVE Ctl'
  BY <1>3, AddCtl, ReserveCtl, SpawnFailsCtl, RegisterCtl, AddedCtl, AddCancelledCtl, UndoCtl, UndoneCtl,
     AskRemovalCtl, RemoveMemberCtl, RemovedCtl, RemoveCancelledCtl DEF Membership
<1>4. ASSUME NEW a \in Agents, Execution(a) \/ Input(a) PROVE Ctl'
  BY <1>4, RunStartsCtl, RunEndsCtl, RunSettlesCtl, InputTakenCtl, InputCtl DEF Execution
<1>5. ASSUME NEW a \in Agents, Waits(a) \/ Watches(a) PROVE Ctl'
  BY <1>5, WaiterLooksCtl, WaiterWakesCtl, WaiterRefusedCtl, DeliverCtl, WatchCtl, WatchEndsCtl
  DEF Waits, Watches
<1>6. ASSUME NEW m \in Messages, Mail(m) PROVE Ctl'
  BY <1>6, SendCtl, CommitCtl, InjectCtl, InjectedCtl, SendCancelledCtl DEF Mail
<1> QED BY <1>1, <1>2, <1>3, <1>4, <1>5, <1>6 DEF Next

LEMMA NextCInv == CInv /\ [Next]_vars => CInv'
BY NextTypes, NextCtl DEF CInv

-----------------------------------------------------------------------------
(* The places of a team *)

LEMMA InitFits == Init => Fits
<1> SUFFICES ASSUME Init, NEW r \in Runtimes
             PROVE  IsFiniteSet(Places(r)) /\ Cardinality(Places(r)) <= MaxTeammates
  BY DEF Fits
<1>1. r # 0
  BY DEF Runtimes
<1>2. Places(r) = {}
  BY <1>1 DEF Init, Places, Teammates
<1> QED BY <1>2, FS_EmptySet, BoundsAssumption

\* A team that nobody joins still fits.
LEMMA NobodyJoins ==
  ASSUME Fits, \A r \in Runtimes : Places(r)' \subseteq Places(r)
  PROVE  Fits'
<1> SUFFICES ASSUME NEW r \in Runtimes
             PROVE  IsFiniteSet(Places(r)') /\ Cardinality(Places(r)') <= MaxTeammates
  BY DEF Fits
<1>1. IsFiniteSet(Places(r)) /\ Cardinality(Places(r)) <= MaxTeammates
  BY DEF Fits
<1>2. /\ IsFiniteSet(Places(r)') /\ Cardinality(Places(r)') <= Cardinality(Places(r))
      /\ Cardinality(Places(r)') \in Nat /\ Cardinality(Places(r)) \in Nat
  BY <1>1, FS_Subset, FS_CardinalityType
<1> QED BY <1>1, <1>2, BoundsAssumption

\* The count that add_teammate makes before it spawns is right until the spawn ends.
LEMMA ReserveFits ==
  ASSUME TypeOK, Fits, NEW a \in Agents, Reserve(a)
  PROVE  Fits'
<1> DEFINE t == adding[a].to
           T == Teammates(t)
<1>1. UNCHANGED member /\ adding[a].at = "queued" /\ SpawnFree(t)
  BY DEF Reserve
<1>2. CASE adding' = [adding EXCEPT ![a].at = "failed"]
  <2>1. \A r \in Runtimes : Places(r)' \subseteq Places(r)
    BY <1>1, <1>2 DEF TypeOK, AddType, Places, Teammates
  <2> QED BY <2>1, NobodyJoins
<1>3. CASE adding' = [adding EXCEPT ![a].at = "spawning"] /\ Cardinality(T) < MaxTeammates
  <2> SUFFICES ASSUME NEW r \in Runtimes
               PROVE  IsFiniteSet(Places(r)') /\ Cardinality(Places(r)') <= MaxTeammates
    BY DEF Fits
  <2>1. IsFiniteSet(Places(r)) /\ Cardinality(Places(r)) <= MaxTeammates
    BY DEF Fits
  <2>2. CASE r # t
    <3>1. Places(r)' = Places(r)
      BY <1>1, <1>3, <2>2 DEF TypeOK, AddType, Places, Teammates
    <3> QED BY <2>1, <3>1
  <2>3. CASE r = t
    <3>1. Places(r) = T
      BY <1>1, <2>3 DEF Places, SpawnFree
    <3>2. Places(r)' = T \union {a}
      BY <1>1, <1>3, <2>3 DEF TypeOK, AddType, Places, Teammates, SpawnFree
    <3> HIDE DEF T
    <3>3. IsFiniteSet(T)
      BY <2>1, <3>1
    <3>4. /\ IsFiniteSet(T \union {a})
          /\ Cardinality(T \union {a}) = IF a \in T THEN Cardinality(T) ELSE Cardinality(T) + 1
      BY <3>3, FS_AddElement
    <3>5. Cardinality(T) \in Nat
      BY <3>3, FS_CardinalityType
    <3> QED BY <1>3, <3>2, <3>4, <3>5, BoundsAssumption
  <2> QED BY <2>2, <2>3
<1> QED BY <1>2, <1>3 DEF Reserve

LEMMA NextFits ==
  ASSUME TypeOK, Fits, [Next]_vars
  PROVE  Fits'
<1>1. ASSUME UNCHANGED <<member, adding>> PROVE Fits'
  <2>1. \A r \in Runtimes : Places(r)' = Places(r)
    BY <1>1 DEF Places, Teammates
  <2> QED BY <2>1, NobodyJoins
<1>2. ASSUME NEW a \in Agents, Membership(a) PROVE Fits'
  <2>1. CASE Reserve(a)
    BY <2>1, ReserveFits
  <2>2. CASE Register(a)
    <3>1. CASE IsActive(adding[a].to)
      <4>1. /\ adding' = [adding EXCEPT ![a].at = "emitting"] /\ member' = [member EXCEPT ![a] = adding[a].to]
            /\ adding[a].at = "spawning"
        BY <2>2, <3>1 DEF Register
      <4>2. \A r \in Runtimes : Places(r)' \subseteq Places(r)
        BY SMTT(60), <4>1 DEF TypeOK, AddType, Places, Teammates
      <4> QED BY <4>2, NobodyJoins
    <3>2. CASE ~IsActive(adding[a].to)
      <4>1. adding' = [adding EXCEPT ![a].at = "undoing"] /\ UNCHANGED member
        BY <2>2, <3>2 DEF Register
      <4>2. \A r \in Runtimes : Places(r)' \subseteq Places(r)
        BY <4>1 DEF TypeOK, AddType, Places, Teammates
      <4> QED BY <4>2, NobodyJoins
    <3> QED BY <3>1, <3>2
  <2>3. CASE Add(a) \/ SpawnFails(a) \/ Added(a) \/ AddCancelled(a) \/ Undone(a)
    <3>1. \A x \in Agents : adding'[x] = adding[x] \/ adding'[x].at # "spawning"
      <4>1. CASE Add(a)
        BY <4>1 DEF Add, TypeOK
      <4>2. CASE ~Add(a)
        <5>1. \E v \in {"failed", "added", "undoing"} : adding' = [adding EXCEPT ![a].at = v]
          BY <2>3, <4>2 DEF SpawnFails, Added, AddCancelled, Undone
        <5> QED BY <5>1 DEF TypeOK, AddType
      <4> QED BY <4>1, <4>2
    <3>2. UNCHANGED member
      BY <2>3 DEF Add, SpawnFails, Added, AddCancelled, Undone
    <3>3. \A r \in Runtimes : Places(r)' \subseteq Places(r)
      BY <3>1, <3>2 DEF Places, Teammates
    <3> QED BY <3>3, NobodyJoins
  <2>4. CASE Undo(a)
    <3>1. \A r \in Runtimes : Places(r)' \subseteq Places(r)
      BY <2>4 DEF Undo, TypeOK, AddType, Places, Teammates, Runtimes
    <3> QED BY <3>1, NobodyJoins
  <2>5. CASE RemoveMember(a)
    <3>1. (member' = member \/ member' = [member EXCEPT ![a] = 0]) /\ UNCHANGED adding
      BY <2>5 DEF RemoveMember
    <3>2. \A r \in Runtimes : Places(r)' \subseteq Places(r)
      BY <3>1 DEF TypeOK, Places, Teammates, Runtimes
    <3> QED BY <3>2, NobodyJoins
  <2>6. CASE AskRemoval(a) \/ Removed(a) \/ RemoveCancelled(a)
    BY <1>1, <2>6 DEF AskRemoval, Removed, RemoveCancelled
  <2> QED BY <1>2, <2>1, <2>2, <2>3, <2>4, <2>5, <2>6 DEF Membership
<1>3. ASSUME Dissolve PROVE Fits'
  <2>1. \A r \in Runtimes : Places(r)' \subseteq Places(r)
    BY <1>3 DEF Dissolve, TypeOK, Places, Teammates, Runtimes
  <2> QED BY <2>1, NobodyJoins
<1>4. ASSUME Create \/ (Teardown /\ ~Dissolve) PROVE Fits'
  BY <1>1, <1>4 DEF Create, Teardown, ShutdownFromOutside, ShutdownFromInside, CloseShutsDown, Shutdown,
     Cancel, Mark, Sweep, ShutdownEnds, Close, Closed, roster
<1>5. ASSUME NEW a \in Agents, Execution(a) \/ Input(a) PROVE Fits'
  BY <1>1, <1>5 DEF Execution, RunStarts, RunEnds, RunSettles, InputTaken, Input, roster
<1>6. ASSUME NEW a \in Agents, Waits(a) \/ Watches(a) PROVE Fits'
  BY <1>1, <1>6 DEF Waits, WaiterLooks, WaiterWakes, WaiterRefused, Deliver, Watches, Watch, WatchEnds, roster
<1>7. ASSUME NEW m \in Messages, Mail(m) PROVE Fits'
  BY <1>1, <1>7 DEF Mail, Send, Commit, Inject, Injected, SendCancelled, roster
<1>8. CASE UNCHANGED vars
  BY <1>1, <1>8 DEF vars, roster
<1> QED BY <1>2, <1>3, <1>4, <1>5, <1>6, <1>7, <1>8 DEF Next

-----------------------------------------------------------------------------
(* The order of messages *)

LEMMA BeforeAppend ==
  ASSUME NEW s \in Seq(Messages), NEW x \in Messages, NEW i, NEW j, Before(s, i, j)
  PROVE  Before(Append(s, x), i, j)
<1>1. PICK p \in DOMAIN s, q \in DOMAIN s : p < q /\ s[p] = i /\ s[q] = j
  BY DEF Before
<1>2. /\ p \in DOMAIN Append(s, x) /\ q \in DOMAIN Append(s, x)
      /\ Append(s, x)[p] = s[p] /\ Append(s, x)[q] = s[q]
  BY <1>1
<1> QED BY <1>1, <1>2 DEF Before

LEMMA InAppend ==
  ASSUME NEW s \in Seq(Messages), NEW x \in Messages, NEW i
  PROVE  In(Append(s, x), i) <=> In(s, i) \/ i = x
<1>1. In(s, i) => In(Append(s, x), i)
  <2> SUFFICES ASSUME NEW p \in DOMAIN s, s[p] = i PROVE In(Append(s, x), i)
    BY DEF In
  <2>1. p \in DOMAIN Append(s, x) /\ Append(s, x)[p] = i
    OBVIOUS
  <2> QED BY <2>1 DEF In
<1>2. In(Append(s, x), x)
  <2>1. Len(s) + 1 \in DOMAIN Append(s, x) /\ Append(s, x)[Len(s) + 1] = x
    OBVIOUS
  <2> QED BY <2>1 DEF In
<1>3. In(Append(s, x), i) => In(s, i) \/ i = x
  BY DEF In
<1> QED BY <1>1, <1>2, <1>3

\* The last comes after all others.
LEMMA LastIsLast ==
  ASSUME NEW s \in Seq(Messages), s # <<>>, NEW i, In(s, i), i # s[Len(s)]
  PROVE  Before(s, i, s[Len(s)])
<1>1. PICK p \in DOMAIN s : s[p] = i
  BY DEF In
<1>2. Len(s) \in DOMAIN s /\ p < Len(s)
  BY <1>1
<1> QED BY <1>1, <1>2 DEF Before

LEMMA InConcat ==
  ASSUME NEW p \in Seq(Messages), NEW q \in Seq(Messages), NEW i, In(p \o q, i)
  PROVE  In(p, i) \/ In(q, i)
<1>1. PICK k \in DOMAIN (p \o q) : (p \o q)[k] = i
  BY DEF In
<1>2. \/ k \in DOMAIN p /\ p[k] = i
      \/ k - Len(p) \in DOMAIN q /\ q[k - Len(p)] = i
  BY <1>1
<1> QED BY <1>2 DEF In

LEMMA OrderedConcat ==
  ASSUME NEW p \in Seq(Messages), NEW q \in Seq(Messages), NEW s,
         Ordered(p, s), Ordered(q, s), Behind(p, q, s)
  PROVE  Ordered(p \o q, s)
<1> DEFINE r == p \o q
<1>1. ASSUME NEW k \in DOMAIN r
      PROVE  \/ k \in DOMAIN p /\ r[k] = p[k]
             \/ k \notin DOMAIN p /\ k - Len(p) \in DOMAIN q /\ r[k] = q[k - Len(p)]
  OBVIOUS
<1>2. \A k \in DOMAIN r : In(s, r[k])
  BY <1>1 DEF Ordered
<1>3. ASSUME NEW j \in DOMAIN r, NEW k \in DOMAIN r, j < k
      PROVE  Before(s, r[j], r[k])
  <2>1. CASE k \in DOMAIN p
    <3>1. j \in DOMAIN p
      BY <1>3, <2>1
    <3> QED BY <1>1, <1>3, <2>1, <3>1 DEF Ordered
  <2>2. CASE k \notin DOMAIN p /\ j \in DOMAIN p
    BY <1>1, <2>2 DEF Behind
  <2>3. CASE k \notin DOMAIN p /\ j \notin DOMAIN p
    <3>1. /\ j - Len(p) \in DOMAIN q /\ r[j] = q[j - Len(p)]
          /\ k - Len(p) \in DOMAIN q /\ r[k] = q[k - Len(p)]
      BY <1>1, <2>3
    <3>2. j - Len(p) < k - Len(p)
      BY <1>3
    <3> QED BY <3>1, <3>2 DEF Ordered
  <2> QED BY <2>1, <2>2, <2>3
<1> QED BY <1>2, <1>3 DEF Ordered

\* The last message of the inbox is a batch of its own, behind what was given before.
LEMMA OrderedLast ==
  ASSUME NEW p \in Seq(Messages), NEW s \in Seq(Messages), s # <<>>,
         Ordered(p, s), ~In(p, s[Len(s)])
  PROVE  Ordered(<<s[Len(s)]>>, s) /\ Behind(p, <<s[Len(s)]>>, s)
<1> DEFINE x == s[Len(s)]
<1>1. In(s, x)
  BY DEF In
<1>2. \A k \in DOMAIN <<x>> : k = 1 /\ <<x>>[k] = x
  OBVIOUS
<1>3. Ordered(<<x>>, s)
  BY <1>1, <1>2 DEF Ordered
<1>4. ASSUME NEW j \in DOMAIN p PROVE Before(s, p[j], x)
  <2>1. In(s, p[j]) /\ p[j] # x
    BY DEF Ordered, In
  <2> QED BY <2>1, LastIsLast
<1> QED BY <1>2, <1>3, <1>4 DEF Behind

LEMMA Kept ==
  ASSUME NEW p \in Seq(Messages), NEW q \in Seq(Messages), NEW s \in Seq(Messages),
         NEW x \in Messages
  PROVE  /\ Ordered(p, s) => Ordered(p, Append(s, x))
         /\ Behind(p, q, s) => Behind(p, q, Append(s, x))
BY BeforeAppend, InAppend DEF Ordered, Behind

LEMMA InitDInv == Init => DInv
<1> SUFFICES ASSUME Init, NEW a \in Agents PROVE Mailed(a)
  BY DEF DInv
<1>1. inbox[a] = <<>> /\ prompts[a] = <<>> /\ pending[a] = <<>> /\ DOMAIN <<>> = {}
  BY DEF Init
<1>2. \A m \in Messages : message[m] = "none"
  BY DEF Init
<1> QED BY <1>1, <1>2 DEF Mailed, Once, In, Ordered, Behind

\* Steps that give nothing and put nothing in an inbox: what waits may be dropped.
LEMMA Quiet ==
  ASSUME DInv, UNCHANGED <<inbox, prompts>>,
         \A a \in Agents :
           \/ pending'[a] = <<>>
           \/ pending'[a] = pending[a] /\ (waiter[a].at = "sending" => waiter'[a].at = "sending"),
         \A m \in Messages :
           \/ message'[m] = message[m] /\ to'[m] = to[m]
           \/ message[m] \in {"none", "allowed"} /\ message'[m] \in {"allowed", "refused"}
           \/ Moving(m) /\ message'[m] \in {"injecting", "sent"} /\ to'[m] = to[m]
  PROVE  DInv'
<1> SUFFICES ASSUME NEW a \in Agents PROVE Mailed(a)'
  BY DEF DInv
<1>1. Mailed(a)
  BY DEF DInv
<1>2. \A m \in Messages : In(inbox[a], m) => to'[m] = a /\ message'[m] \in {"committed", "injecting", "sent"}
  BY <1>1 DEF Mailed, Moving
<1>3. \A m \in Messages : message'[m] = "committed" => message[m] = "committed" /\ to'[m] = to[m]
  OBVIOUS
<1>4. CASE pending'[a] = <<>>
  <2>1. DOMAIN <<>> = {}
    OBVIOUS
  <2> QED BY <1>1, <1>2, <1>3, <1>4, <2>1 DEF Mailed, Ordered, Behind, In
<1>5. CASE pending'[a] = pending[a] /\ (waiter[a].at = "sending" => waiter'[a].at = "sending")
  BY <1>1, <1>2, <1>3, <1>5 DEF Mailed
<1> QED BY <1>4, <1>5

LEMMA CommitData ==
  ASSUME TypeOK, DInv, NEW m \in Messages, Commit(m)
  PROVE  DInv'
<1> DEFINE a == to[m]
<1>1. a \in Agents /\ message[m] = "allowed"
  BY DEF Commit, TypeOK
<1>2. CASE Belongs(a)
  <2>1. /\ message' = [message EXCEPT ![m] = "committed"]
        /\ inbox' = [inbox EXCEPT ![a] = Append(inbox[a], m)]
        /\ UNCHANGED <<to, pending, prompts, waiter>>
    BY <1>2 DEF Commit, tasks
  <2>2. \A n \in Messages : message[n] # "committed"
    BY DEF Commit, BusFree
  <2> SUFFICES ASSUME NEW x \in Agents PROVE Mailed(x)'
    BY DEF DInv
  <2>3. Mailed(x) /\ inbox[x] \in Seq(Messages) /\ prompts[x] \in Seq(Messages) /\ pending[x] \in Seq(Messages)
    BY DEF DInv, TypeOK
  <2>4. CASE x # a
    <3>1. inbox'[x] = inbox[x] /\ ~In(inbox[x], m)
      BY <1>1, <2>1, <2>3, <2>4 DEF TypeOK, Mailed
    <3>2. \A n \in Messages : n # m => message'[n] = message[n]
      BY <2>1 DEF TypeOK
    <3> QED BY <2>1, <2>2, <2>3, <2>4, <3>1, <3>2 DEF Mailed
  <2>5. CASE x = a
    <3> DEFINE s == inbox[a]
    <3>1. inbox'[x] = Append(s, m) /\ s \in Seq(Messages)
      BY <1>1, <2>1, <2>3, <2>5 DEF TypeOK
    <3>2. ~In(s, m)
      BY <1>1, <2>3, <2>5 DEF Mailed
    <3>3. Once(Append(s, m))
      BY <2>3, <2>5, <3>1, <3>2 DEF Mailed, Once, In
    <3>4. \A n \in Messages : In(Append(s, m), n) => to[n] = a /\ message'[n] \in {"committed", "injecting", "sent"}
      BY <2>1, <2>3, <2>5, <3>1, InAppend DEF TypeOK, Mailed
    <3>5. Ordered(prompts[x], Append(s, m)) /\ Ordered(pending[x], Append(s, m))
      BY <2>3, <2>5, <3>1, Kept DEF Mailed
    <3>6. waiter[x].at # "sending" => Behind(prompts[x], pending[x], Append(s, m))
      BY <2>3, <2>5, <3>1, Kept DEF Mailed
    <3>7. ~In(prompts[x], m) /\ ~In(pending[x], m)
      BY <2>3, <2>5, <3>2 DEF Mailed, Ordered, In
    <3>8. Append(s, m) # <<>> /\ Append(s, m)[Len(Append(s, m))] = m
      BY <3>1
    <3>9. \A n \in Messages : message'[n] = "committed" => n = m
      BY <2>1, <2>2 DEF TypeOK
    <3> HIDE DEF s
    <3> QED BY <2>1, <2>5, <3>1, <3>3, <3>4, <3>5, <3>6, <3>7, <3>8, <3>9 DEF Mailed
  <2> QED BY <2>4, <2>5
<1>3. CASE ~Belongs(a)
  <2>1. message' = [message EXCEPT ![m] = "refused"] /\ UNCHANGED <<to, pending, inbox, prompts, waiter>>
    BY <1>3 DEF Commit, tasks
  <2> QED BY <1>1, <2>1, Quiet DEF TypeOK
<1> QED BY <1>2, <1>3

LEMMA InjectData ==
  ASSUME TypeOK, DInv, OneMoves, NEW m \in Messages, Inject(m)
  PROVE  DInv'
<1> DEFINE a == to[m]
           s == inbox[a]
<1>1. a \in Agents /\ message[m] = "committed" /\ waiter[a].at # "sending"
  BY DEF Inject, TypeOK, DeliveryFree
<1>2. /\ Mailed(a)
      /\ s \in Seq(Messages) /\ prompts[a] \in Seq(Messages) /\ pending[a] \in Seq(Messages)
  BY <1>1 DEF DInv, TypeOK
<1>3. /\ s # <<>> /\ s[Len(s)] = m /\ ~In(prompts[a], m) /\ ~In(pending[a], m)
      /\ Ordered(prompts[a], s) /\ Ordered(pending[a], s) /\ Behind(prompts[a], pending[a], s)
  BY <1>1, <1>2 DEF Mailed
<1>4. \A n \in Messages : message'[n] = "committed" => FALSE
  <2>1. message' = [message EXCEPT ![m] = "sent"] \/ message' = [message EXCEPT ![m] = "injecting"]
    BY DEF Inject
  <2> QED BY ZenonT(60), <1>1, <2>1 DEF TypeOK, OneMoves, Moving
<1>5. /\ \A n \in Messages : message'[n] = message[n] \/ (n = m /\ message'[n] \in {"sent", "injecting"})
      /\ UNCHANGED <<inbox, to>>
  BY DEF Inject, TypeOK
<1>6. \A x \in Agents, n \in Messages :
        In(inbox'[x], n) => to'[n] = x /\ message'[n] \in {"committed", "injecting", "sent"}
  BY <1>5 DEF DInv, Mailed
<1>7. Ordered(<<m>>, s) /\ Behind(prompts[a], <<m>>, s) /\ Behind(pending[a], <<m>>, s)
  BY <1>2, <1>3, OrderedLast
<1> <<m>> \in Seq(Messages)
  OBVIOUS
\* Of the others nothing changes but who is committed.
<1>8. ASSUME NEW x \in Agents, prompts'[x] = prompts[x], pending'[x] = pending[x],
             waiter'[x].at = "sending" <=> waiter[x].at = "sending"
      PROVE  Mailed(x)'
  BY <1>4, <1>5, <1>6, <1>8 DEF DInv, Mailed
<1>9. CASE ~Belongs(a)
  <2>1. /\ message' = [message EXCEPT ![m] = "sent"] /\ pending' = [pending EXCEPT ![a] = <<>>]
        /\ UNCHANGED <<waiter, prompts>>
    BY <1>9 DEF Inject
  <2> QED BY <1>1, <1>5, <2>1, Quiet DEF TypeOK, Moving
<1>10. CASE Belongs(a) /\ (pending[a] # <<>> \/ HasTask(a))
  <2>1. /\ pending' = [pending EXCEPT ![a] = Append(pending[a], m)]
        /\ waiter' = [waiter EXCEPT ![a] = Armed(a)] /\ UNCHANGED prompts
    BY <1>10 DEF Inject
  <2>2. ASSUME NEW x \in Agents, x # a PROVE Mailed(x)'
    BY <1>1, <1>8, <2>1, <2>2 DEF TypeOK
  <2>3. ASSUME NEW x \in Agents, x = a PROVE Mailed(x)'
    <3>1. pending'[x] = Append(pending[a], m) /\ prompts'[x] = prompts[a] /\ inbox'[x] = s
      BY <1>1, <1>5, <2>1, <2>3 DEF TypeOK
    <3>2. Append(pending[a], m) = pending[a] \o <<m>>
      BY <1>2, AppendIsConcat
    <3>3. Ordered(pending[a] \o <<m>>, s)
      BY <1>2, <1>3, <1>7, OrderedConcat
    <3>4. Ordered(pending'[x], s)
      BY <3>1, <3>2, <3>3
    <3>5. Behind(prompts'[x], pending'[x], s)
      BY <1>2, <1>3, <1>7, <3>1 DEF Behind
    <3>6. Once(s) /\ Ordered(prompts'[x], s)
      BY <1>2, <3>1 DEF Mailed
    <3> HIDE DEF s, a
    <3> QED BY <1>4, <1>6, <3>1, <3>4, <3>5, <3>6 DEF Mailed
  <2> QED BY <2>2, <2>3 DEF DInv
<1>11. CASE Belongs(a) /\ ~(pending[a] # <<>> \/ HasTask(a))
  <2>1. /\ Given(a, <<m>>) /\ UNCHANGED <<pending, waiter>> /\ pending[a] = <<>>
    BY <1>11 DEF Inject
  <2>2. prompts' = [prompts EXCEPT ![a] = prompts[a] \o <<m>>]
    BY <2>1 DEF Given
  <2>3. ASSUME NEW x \in Agents, x # a PROVE Mailed(x)'
    BY <1>1, <1>8, <2>1, <2>2, <2>3 DEF TypeOK
  <2>4. ASSUME NEW x \in Agents, x = a PROVE Mailed(x)'
    <3>1. prompts'[x] = prompts[a] \o <<m>> /\ pending'[x] = <<>> /\ inbox'[x] = s
      BY <1>1, <1>5, <2>1, <2>2, <2>4 DEF TypeOK
    <3>2. Ordered(prompts[a] \o <<m>>, s)
      BY <1>2, <1>3, <1>7, OrderedConcat
    <3>3. Behind(prompts[a] \o <<m>>, <<>>, s) /\ Ordered(<<>>, s)
      BY DEF Behind, Ordered
    <3>4. Once(s)
      BY <1>2 DEF Mailed
    <3> HIDE DEF s, a
    <3> QED BY <1>4, <1>6, <3>1, <3>2, <3>3, <3>4 DEF Mailed
  <2> QED BY <2>3, <2>4 DEF DInv
<1> QED BY <1>9, <1>10, <1>11

LEMMA WakeData ==
  ASSUME TypeOK, DInv, NEW a \in Agents, WaiterWakes(a)
  PROVE  DInv'
<1>1. waiter[a].at = "waiting" /\ UNCHANGED <<inbox, pending, message, to>>
  BY DEF WaiterWakes
<1>2. CASE UNCHANGED prompts /\ waiter'[a].at # "sending" /\ \A x \in Agents : x # a => waiter'[x] = waiter[x]
  BY <1>1, <1>2, Quiet
<1>3. CASE waiter' = [waiter EXCEPT ![a].at = "sending"] /\ Given(a, pending[a])
  <2>1. prompts' = [prompts EXCEPT ![a] = prompts[a] \o pending[a]]
    BY <1>3 DEF Given
  <2>2. ASSUME NEW x \in Agents, x # a PROVE Mailed(x)'
    <3>1. prompts'[x] = prompts[x] /\ waiter'[x] = waiter[x]
      BY <1>3, <2>1, <2>2 DEF TypeOK
    <3> QED BY <1>1, <3>1 DEF DInv, Mailed
  <2>3. Mailed(a)'
    <3>1. /\ Mailed(a)
          /\ inbox[a] \in Seq(Messages) /\ prompts[a] \in Seq(Messages) /\ pending[a] \in Seq(Messages)
      BY DEF DInv, TypeOK
    <3>2. prompts'[a] = prompts[a] \o pending[a] /\ waiter'[a].at = "sending"
      BY <1>3, <2>1 DEF TypeOK, WaitType
    <3>3. Ordered(prompts[a] \o pending[a], inbox[a])
      BY <1>1, <3>1, OrderedConcat DEF Mailed
    <3>4. \A m \in Messages : ~In(prompts[a], m) /\ ~In(pending[a], m) => ~In(prompts[a] \o pending[a], m)
      BY <3>1, InConcat
    <3> QED BY <1>1, <3>1, <3>2, <3>3, <3>4 DEF Mailed
  <2> QED BY <2>2, <2>3 DEF DInv
<1>4. CASE pending[a] = <<>>
  <2>1. waiter' = [waiter EXCEPT ![a] = Ended] /\ UNCHANGED prompts
    BY <1>4 DEF WaiterWakes
  <2> QED BY <1>2, <2>1 DEF TypeOK, Ended
<1>5. CASE pending[a] # <<>> /\ outside[a]
  <2>1. waiter' = [waiter EXCEPT ![a].at = "blocked"] /\ UNCHANGED prompts
    BY <1>5 DEF WaiterWakes
  <2> QED BY <1>2, <2>1 DEF TypeOK, WaitType
<1>6. CASE pending[a] # <<>> /\ ~outside[a]
  <2>1. waiter' = [waiter EXCEPT ![a].at = "sending"] /\ Given(a, pending[a])
    BY <1>6 DEF WaiterWakes
  <2> QED BY <1>3, <2>1
<1> QED BY <1>4, <1>5, <1>6

\* What is dropped is dropped with its waiter.
LEMMA SweptData ==
  ASSUME TypeOK, DInv, NEW S, Swept(S), UNCHANGED <<inbox, prompts, message, to>>
  PROVE  DInv'
<1>1. \A a \in Agents : pending'[a] = <<>> \/ (pending'[a] = pending[a] /\ waiter'[a] = waiter[a])
  BY DEF Swept
<1> QED BY <1>1, Quiet

LEMMA NextDInv ==
  ASSUME TypeOK, OneMoves, DInv, [Next]_vars
  PROVE  DInv'
<1>1. ASSUME UNCHANGED <<mail, waiter>> PROVE DInv'
  BY <1>1, Quiet DEF mail
<1>2. ASSUME Create \/ Teardown PROVE DInv'
  <2>1. CASE Sweep \/ Dissolve \/ Closed
    BY <2>1, SweptData DEF Sweep, Dissolve, Closed
  <2>2. CASE ~(Sweep \/ Dissolve \/ Closed)
    BY <1>1, <1>2, <2>2 DEF Create, Teardown, ShutdownFromOutside, ShutdownFromInside, CloseShutsDown,
       Shutdown, Cancel, Mark, ShutdownEnds, Close, tasks
  <2> QED BY <2>1, <2>2
<1>3. ASSUME NEW a \in Agents, Membership(a) PROVE DInv'
  <2>1. CASE Undo(a)
    BY <2>1, SweptData DEF Undo
  <2>2. CASE RemoveMember(a)
    <3>1. CASE Belongs(a)
      BY <2>2, <3>1, SweptData DEF RemoveMember
    <3>2. CASE ~Belongs(a)
      BY <1>1, <2>2, <3>2 DEF RemoveMember, mail
    <3> QED BY <3>1, <3>2
  <2>3. CASE ~(Undo(a) \/ RemoveMember(a))
    BY <1>1, <1>3, <2>3 DEF Membership, Add, Reserve, SpawnFails, Register, Added, AddCancelled, Undone,
       AskRemoval, Removed, RemoveCancelled, tasks
  <2> QED BY <2>1, <2>2, <2>3
<1>4. ASSUME NEW a \in Agents, RunSettles(a) PROVE DInv'
  <2>1. \A x \in Agents : waiter[x].at = "sending" => waiter'[x].at = "sending"
    BY <1>4 DEF RunSettles, Armed, TypeOK
  <2> QED BY <1>4, <2>1, Quiet DEF RunSettles, mail
<1>5. ASSUME NEW a \in Agents, (Execution(a) /\ ~RunSettles(a)) \/ Input(a) PROVE DInv'
  BY <1>1, <1>5 DEF Execution, RunStarts, RunEnds, InputTaken, Input, tasks
<1>6. ASSUME NEW a \in Agents, Waits(a) PROVE DInv'
  <2>1. CASE WaiterLooks(a)
    <3>1. \A x \in Agents : x # a => waiter'[x] = waiter[x]
      BY <2>1 DEF WaiterLooks, TypeOK
    <3>2. waiter[a].at = "start" /\ (pending' = pending \/ pending' = [pending EXCEPT ![a] = <<>>])
      BY <2>1 DEF WaiterLooks
    <3>3. \A x \in Agents :
            \/ pending'[x] = <<>>
            \/ pending'[x] = pending[x] /\ (waiter[x].at = "sending" => waiter'[x].at = "sending")
      BY <3>1, <3>2 DEF TypeOK
    <3> QED BY <2>1, <3>3, Quiet DEF WaiterLooks
  <2>2. CASE WaiterWakes(a)
    BY <2>2, WakeData
  <2>3. CASE WaiterRefused(a)
    <3>1. \A x \in Agents : waiter[x].at = "sending" => waiter'[x].at = "sending"
      BY <2>3 DEF WaiterRefused, TypeOK
    <3> QED BY <2>3, <3>1, Quiet DEF WaiterRefused, mail
  <2>4. CASE Deliver(a)
    <3>1. \A x \in Agents : pending'[x] = <<>> \/ (pending'[x] = pending[x] /\ waiter'[x] = waiter[x])
      BY <2>4 DEF Deliver, TypeOK
    <3> QED BY <2>4, <3>1, Quiet DEF Deliver
  <2> QED BY <1>6, <2>1, <2>2, <2>3, <2>4 DEF Waits
<1>7. ASSUME NEW a \in Agents, Watches(a) PROVE DInv'
  BY <1>1, <1>7 DEF Watches, Watch, WatchEnds
<1>8. ASSUME NEW m \in Messages, Mail(m) PROVE DInv'
  <2>1. CASE \E a \in Agents : Send(m, a)
    <3>1. PICK a \in Agents : Send(m, a)
      BY <2>1
    <3>2. \A n \in Messages : n # m => message'[n] = message[n] /\ to'[n] = to[n]
      BY <3>1 DEF Send, TypeOK
    <3>3. message[m] = "none" /\ message'[m] = "allowed"
      BY <3>1 DEF Send, TypeOK
    <3>4. UNCHANGED <<inbox, prompts, pending, waiter>>
      BY <3>1 DEF Send, tasks
    <3> QED BY <3>2, <3>3, <3>4, Quiet
  <2>2. CASE Commit(m)
    BY <2>2, CommitData
  <2>3. CASE Inject(m)
    BY <2>3, InjectData
  <2>4. CASE Injected(m) \/ SendCancelled(m)
    <3>1. \A n \in Messages : message'[n] = message[n] \/ (Moving(n) /\ message'[n] = "sent")
      BY <2>4 DEF Injected, SendCancelled, TypeOK, Moving
    <3>2. UNCHANGED <<inbox, prompts, pending, waiter, to>>
      BY <2>4 DEF Injected, SendCancelled, tasks
    <3> QED BY <3>1, <3>2, Quiet
  <2> QED BY <1>8, <2>1, <2>2, <2>3, <2>4 DEF Mail
<1>9. CASE UNCHANGED vars
  BY <1>1, <1>9 DEF vars, mail, tasks
<1> QED BY <1>2, <1>3, <1>4, <1>5, <1>6, <1>7, <1>8, <1>9 DEF Next
-----------------------------------------------------------------------------
(* The theorems *)

\* Every variable keeps its type, for any number of agents, teams and messages.
THEOREM TypeCorrect == Spec => []TypeOK
<1>1. CInv => TypeOK
  BY DEF CInv
<1> QED BY <1>1, InitCInv, NextCInv, PTL DEF Spec

\* A working agent is a teammate of the current team or about to be stopped, the team
\* shows its working teammates as busy, and it has no more of them than max_teammates
\* (add_teammate, remove_teammate, shutdown_team, handle_agent_event, the watchers).
THEOREM RunsAreKnown == Spec => []TeamKnowsItsRuns
<1>1. Init => CInv /\ Fits
  BY InitCInv, InitFits
<1>2. (CInv /\ Fits) /\ [Next]_vars => (CInv /\ Fits)'
  BY NextCInv, NextFits DEF CInv
<1>3. CInv /\ Fits => TeamKnowsItsRuns
  <2> SUFFICES ASSUME CInv, Fits PROVE TeamKnowsItsRuns
    OBVIOUS
  <2>1. NoOrphans
    BY DEF CInv, Ctl, Manned, Place, NoOrphans
  <2>2. WorkersAreBusy
    BY DEF CInv, Ctl, Shown, WorkersAreBusy
  <2>3. RosterFits
    BY DEF Fits, RosterFits
  <2> QED BY <2>1, <2>2, <2>3 DEF TeamKnowsItsRuns
<1> QED BY <1>1, <1>2, <1>3, PTL DEF Spec

\* An agent is given messages that were committed for it, each once and in the order of
\* its inbox, by whichever of the direct injection and the waiter (_deliver_or_queue,
\* _wait_and_deliver_pending).
THEOREM GivenInOrder == Spec => []DeliveredInOrder
<1>1. Init => CInv /\ DInv
  BY InitCInv, InitDInv
<1>2. (CInv /\ DInv) /\ [Next]_vars => (CInv /\ DInv)'
  BY NextCInv, NextDInv DEF CInv, Ctl
<1>3. CInv /\ DInv => DeliveredInOrder
  <2> SUFFICES ASSUME CInv, DInv, NEW a \in Agents, NEW k \in DOMAIN prompts[a]
      PROVE  /\ \E p \in DOMAIN inbox[a] : inbox[a][p] = prompts[a][k]
             /\ \A j \in DOMAIN prompts[a] : j < k =>
                  prompts[a][j] # prompts[a][k] /\ Before(inbox[a], prompts[a][j], prompts[a][k])
    BY DEF DeliveredInOrder
  <2>1. Once(inbox[a]) /\ Ordered(prompts[a], inbox[a]) /\ inbox[a] \in Seq(Messages)
    BY DEF DInv, Mailed, CInv, TypeOK
  <2>2. ASSUME NEW i, NEW j, Before(inbox[a], i, j) PROVE i # j
    BY <2>1, <2>2 DEF Before, Once
  <2> QED BY <2>1, <2>2 DEF Ordered, In
<1> QED BY <1>1, <1>2, <1>3, PTL DEF Spec
=============================================================================
