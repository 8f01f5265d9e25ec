---------------------------- MODULE Gateway_proofs ----------------------------
(***************************************************************************)
(* Proofs about the gateway.  First the event bus, for every number of     *)
(* sessions, CoreSession objects and streams and every queue capacity;     *)
(* then the life of a session, for any number of objects, tasks,           *)
(* operations and interrupts and whatever disturbances are allowed.  The   *)
(* two modules have no state in common.                                    *)
(***************************************************************************)
EXTENDS EventBus, GatewaySession, FiniteSetTheorems, WellFoundedInduction, TLAPS

\* What every method of a subscriber preserves.
SubOK(r) ==
  /\ r \in SubType
  /\ IsFiniteSet(r.queue)
  /\ Cardinality(r.queue) <= Capacity
  /\ r.registered => ~r.closed /\ r.scope # None
  /\ ~r.registered => r.queue \subseteq {EOF}
  /\ r.scope \in Sessions => \A it \in r.queue : it.session \in {r.scope, None}

\* The stream is open, or was and is closed.
Begun(r) == r.registered \/ r.closed

LEMMA EOFType == EOF \in ItemType /\ EOF.session = None /\ EOF.src = None
  BY BoundAssumption DEF EOF, Item, ItemType

LEMMA SentinelQueue == IsFiniteSet({EOF}) /\ Cardinality({EOF}) <= Capacity
<1>1. IsFiniteSet({EOF}) /\ Cardinality({EOF}) = 1
  BY FS_Singleton, Zenon
<1> QED BY <1>1, CapacityAssumption

\* A buffer that loses items stays within its bound.
LEMMA FewerItems ==
  ASSUME NEW q, IsFiniteSet(q), Cardinality(q) <= Capacity, NEW p, p \subseteq q
  PROVE  IsFiniteSet(p) /\ Cardinality(p) <= Capacity
<1>1. IsFiniteSet(p) /\ Cardinality(p) <= Cardinality(q)
  BY FS_Subset
<1>2. Cardinality(p) \in Nat /\ Cardinality(q) \in Nat
  BY <1>1, FS_CardinalityType
<1> QED BY <1>1, <1>2, CapacityAssumption

\* unsubscribe leaves a closed subscriber with at most the sentinel.
LEMMA UnsubscribedOK ==
  ASSUME NEW r, SubOK(r)
  PROVE  /\ SubOK(Unsubscribed(r))
         /\ Unsubscribed(r).closed
         /\ Unsubscribed(r).queue \subseteq {EOF}
<1> DEFINE u == Unsubscribed(r)
<1>1. CASE r.closed
  <2>1. u = [r EXCEPT !.registered = FALSE]
    BY <1>1 DEF Unsubscribed, Closed, SubOK, SubType
  <2>2. u.closed /\ u.queue = r.queue /\ u.scope = r.scope /\ ~u.registered
        /\ u \in SubType
    BY <2>1, <1>1 DEF SubOK, SubType
  <2>3. u.queue \subseteq {EOF}
    BY <2>2, <1>1 DEF SubOK
  <2> QED BY <2>2, <2>3 DEF SubOK
<1>2. CASE ~r.closed
  <2>1. u = [r EXCEPT !.registered = FALSE, !.closed = TRUE, !.queue = {EOF}]
    BY <1>2 DEF Unsubscribed, Closed, SubOK, SubType
  <2>2. {EOF} \in SUBSET ItemType
    BY EOFType
  <2> HIDE DEF u
  <2>3. u.closed /\ u.queue = {EOF} /\ u.scope = r.scope /\ ~u.registered
        /\ u \in SubType
    BY <2>1, <1>2, <2>2 DEF SubOK, SubType
  <2> QED BY <2>3, SentinelQueue, EOFType DEF SubOK, u
<1> QED BY <1>1, <1>2

\* Closing sessions S leaves no buffered event of S with any subscriber.
LEMMA CloseEffectOK ==
  ASSUME NEW r, SubOK(r), NEW S \in SUBSET Sessions
  PROVE  /\ SubOK(CloseEffect(S, r))
         /\ \A it \in CloseEffect(S, r).queue :
              /\ it \in r.queue \/ it = EOF
              /\ it.session \notin S
         /\ Begun(CloseEffect(S, r)) <=> Begun(r)
<1> DEFINE c == CloseEffect(S, r)
<1>0. None \notin S
  BY NamesAssumption
<1>1. CASE r.registered /\ r.scope \in S
  <2>1. c = Unsubscribed(r)
    BY <1>1 DEF CloseEffect
  <2> QED BY <2>1, <1>0, <1>1, UnsubscribedOK, EOFType DEF Begun
<1>2. CASE r.registered /\ r.scope = Global
  <2>1. c = [r EXCEPT !.queue = {it \in r.queue : it.session \notin S}]
    BY <1>2, NamesAssumption DEF CloseEffect, Dropped, SubOK, SubType
  <2>2. /\ c.queue = {it \in r.queue : it.session \notin S}
        /\ c.registered = r.registered /\ c.closed = r.closed
        /\ c.scope = r.scope /\ c \in SubType
    BY <2>1 DEF SubOK, SubType
  <2>3. IsFiniteSet(c.queue) /\ Cardinality(c.queue) <= Capacity
    <3>1. c.queue \subseteq r.queue
      BY <2>2
    <3>2. IsFiniteSet(r.queue) /\ Cardinality(r.queue) <= Capacity
      BY DEF SubOK
    <3> QED BY <3>1, <3>2, FewerItems
  <2>4. SubOK(c)
    BY <2>2, <2>3, <1>2 DEF SubOK
  <2> QED BY <2>2, <2>4 DEF Begun
<1>3. CASE ~r.registered \/ (r.scope \notin S /\ r.scope # Global)
  <2>1. c = r
    BY <1>3 DEF CloseEffect
  <2>2. ASSUME NEW it \in r.queue PROVE it.session \notin S
    <3>1. CASE ~r.registered
      BY <3>1, <1>0, EOFType DEF SubOK
    <3>2. CASE r.registered
      BY <3>2, <1>3, <1>0 DEF SubOK, SubType
    <3> QED BY <3>1, <3>2
  <2> QED BY <2>1, <2>2
<1> QED BY <1>1, <1>2, <1>3

\* Some item of a nonempty buffer has the least position.
LEMMA LeastExists ==
  ASSUME NEW O, O # {}, \A x \in O : x.pos \in Nat
  PROVE  \E x \in O : \A y \in O : x.pos <= y.pos
<1> DEFINE P == {x.pos : x \in O}
           R == OpToRel(<, Nat)
<1>1. IsWellFoundedOn(R, Nat)
  BY NatLessThanWellFounded
<1>2. P \subseteq Nat /\ P # {}
  OBVIOUS
<1>3. \E n \in P : \A m \in P : ~(<<m, n>> \in R)
  <2> HIDE DEF P, R
  <2> QED BY <1>1, <1>2, WFMin
<1>4. PICK n \in P : \A m \in P : ~(<<m, n>> \in R)
  BY <1>3
<1>5. \A m \in P : ~(m < n)
  BY <1>2, <1>4 DEF OpToRel
<1>6. PICK x \in O : x.pos = n
  OBVIOUS
<1>7. \A y \in O : ~(y.pos < x.pos)
  BY <1>5, <1>6
<1> QED BY <1>7

\* What publish leaves of one target's subscriber.
AfterPush(r, it) ==
  IF Pushed(r, it).closed THEN Unsubscribed(Pushed(r, it)) ELSE Pushed(r, it)

\* A push keeps the bound: it makes room, drops the event or ends the stream.
LEMMA PushedOK ==
  ASSUME NEW r, SubOK(r), r.registered, NEW it \in ItemType,
         r.scope \in {it.session, Global}
  PROVE  /\ SubOK(AfterPush(r, it))
         /\ AfterPush(r, it).queue \subseteq r.queue \union {it, EOF}
         /\ Begun(AfterPush(r, it))
<1> DEFINE p == Pushed(r, it)
           full == Cardinality(r.queue) >= Capacity
           victim == \E old \in r.queue : IsOrdinary(old)
           Grown(q) == [r EXCEPT !.queue = q \union {it}]
<1>0. ~r.closed /\ r \in SubType /\ IsFiniteSet(r.queue)
      /\ Cardinality(r.queue) \in Nat /\ Cardinality(r.queue) <= Capacity
  BY FS_CardinalityType DEF SubOK
<1>1. ASSUME NEW q, q \subseteq r.queue, Cardinality(q) < Capacity
      PROVE  SubOK(Grown(q)) /\ Grown(q).queue = q \union {it} /\ ~Grown(q).closed
             /\ Grown(q).registered
  <2>1. /\ Grown(q).queue = q \union {it} /\ Grown(q).scope = r.scope
        /\ Grown(q).registered /\ ~Grown(q).closed /\ Grown(q) \in SubType
    BY <1>0, <1>1 DEF SubType
  <2>2. IsFiniteSet(q) /\ Cardinality(q) \in Nat
    BY <1>0, <1>1, FS_Subset, FS_CardinalityType
  <2>3. /\ IsFiniteSet(q \union {it})
        /\ \/ Cardinality(q \union {it}) = Cardinality(q)
           \/ Cardinality(q \union {it}) = Cardinality(q) + 1
    BY <2>2, FS_AddElement, Zenon
  <2>4. Cardinality(q \union {it}) \in Nat
    BY <2>3, FS_CardinalityType
  <2>5. Cardinality(q \union {it}) <= Capacity
    BY <2>2, <2>3, <2>4, <1>1, CapacityAssumption
  <2>6. r.scope # None
    BY DEF SubOK
  <2>7. r.scope \in Sessions => \A x \in q \union {it} : x.session \in {r.scope, None}
    BY <1>1, NamesAssumption DEF SubOK
  <2> QED BY <2>1, <2>3, <2>5, <2>6, <2>7 DEF SubOK
<1>2. CASE ~full
  <2>1. p = Grown(r.queue)
    BY <1>0, <1>2 DEF Pushed
  <2>2. Cardinality(r.queue) < Capacity
    BY <1>0, <1>2, CapacityAssumption
  <2>3. SubOK(p) /\ p.queue = r.queue \union {it} /\ ~p.closed /\ p.registered
    BY <2>1, <2>2, <1>1
  <2> QED BY <2>3 DEF AfterPush, Begun
<1>3. CASE full /\ victim
  <2> DEFINE q == Evicted(r.queue)
             old == Oldest({x \in r.queue : IsOrdinary(x)})
  <2>1. p = Grown(q)
    BY <1>0, <1>3 DEF Pushed
  <2>2. q = r.queue \ {old}
    BY DEF Evicted
  <2>3. old \in r.queue
    <3> DEFINE O == {x \in r.queue : IsOrdinary(x)}
    <3>1. IsFiniteSet(O) /\ O # {}
      BY <1>0, <1>3, FS_Subset
    <3>2. \A x \in O : x.pos \in Nat
      BY <1>0, BoundAssumption DEF SubType, ItemType
    <3>3. \E x \in O : \A y \in O : x.pos <= y.pos
      BY <3>1, <3>2, LeastExists
    <3>4. old \in O
      BY <3>3 DEF Oldest
    <3> QED BY <3>4
  <2>4. Cardinality(q) = Cardinality(r.queue) - 1
    <3> HIDE DEF q, old
    <3> QED BY <2>2, <2>3, <1>0, FS_RemoveElement, Zenon
  <2>5. Cardinality(q) < Capacity
    BY <2>4, <1>0, CapacityAssumption
  <2>6. SubOK(p) /\ p.queue = q \union {it} /\ ~p.closed /\ p.registered
    BY <2>1, <2>2, <2>5, <1>1
  <2> QED BY <2>6, <2>2 DEF AfterPush, Begun
<1>4. CASE full /\ ~victim /\ IsControl(it)
  <2> DEFINE o == [r EXCEPT !.overflowed = TRUE]
  <2>1. SubOK(o) /\ ~o.closed
    BY <1>0 DEF SubOK, SubType
  <2>2. p = Closed(o)
    BY <1>0, <1>4 DEF Pushed
  <2>3. p = [o EXCEPT !.closed = TRUE, !.queue = {EOF}]
    BY <2>1, <2>2 DEF Closed
  <2>4. p.closed /\ p.queue = {EOF}
    BY <2>3, <1>0 DEF SubType
  <2>5. Unsubscribed(p) = Unsubscribed(o)
    BY <2>1, <2>3, <1>0 DEF Unsubscribed, Closed, SubType
  <2>6. AfterPush(r, it) = Unsubscribed(o)
    BY <2>4, <2>5 DEF AfterPush
  <2> HIDE DEF o
  <2>7. /\ SubOK(Unsubscribed(o)) /\ Unsubscribed(o).closed
        /\ Unsubscribed(o).queue \subseteq {EOF}
    BY <2>1, UnsubscribedOK
  <2> QED BY <2>6, <2>7 DEF Begun
<1>5. CASE full /\ ~victim /\ ~IsControl(it)
  <2>1. p = r
    BY <1>0, <1>5 DEF Pushed
  <2> QED BY <2>1, <1>0 DEF AfterPush, Begun
<1> QED BY <1>2, <1>3, <1>4, <1>5

-----------------------------------------------------------------------------
(* The inductive invariant.                                                *)

\* Every subscriber is sound, and a stream has begun once its loop runs.
Subs ==
  \A st \in Streams :
    SubOK(sub[st]) /\ (Begun(sub[st]) <=> reader[st] # "none")

\* Why a late event of a closed lifecycle is refused: its id is a tombstone,
\* or bound to another object.
Fenced ==
  \A s \in Sessions, x \in Sources :
    <<s, x>> \in retired => s \in invalidated \/ sourceOf[s] \notin {None, x}

\* After close_all no subscriber is left on the bus.
Shut == gateway = "closed" => \A st \in Streams : ~sub[st].registered

\* Positions are given to events that were emitted.
Counted ==
  IsFiniteSet(inflight) /\ published + Cardinality(inflight) <= emitted

IInv ==
  TypeOK /\ Subs /\ Fenced /\ NoClosedLifecycleBuffered /\ Shut /\ Counted

LEMMA InitIInv == Init => IInv
<1> SUFFICES ASSUME Init PROVE IInv
  OBVIOUS
<1>1. IsFiniteSet({}) /\ Cardinality({}) = 0
  BY FS_EmptySet
<1>2. NoItem \in ItemType
  BY BoundAssumption DEF NoItem, Item, ItemType
<1>3. SubOK(NewSub) /\ ~Begun(NewSub) /\ NewSub.queue = {} /\ NewSub \in SubType
  BY <1>1, CapacityAssumption, NamesAssumption DEF SubOK, NewSub, SubType, Begun
<1>4. TypeOK
  BY <1>1, <1>2, <1>3, BoundAssumption, CapacityAssumption DEF Init, TypeOK
<1>5. Subs
  BY <1>3 DEF Init, Subs
<1>6. Fenced /\ NoClosedLifecycleBuffered /\ Shut
  BY <1>3 DEF Init, Fenced, NoClosedLifecycleBuffered, Shut
<1>7. Counted
  BY <1>1 DEF Init, Counted
<1> QED BY <1>4, <1>5, <1>6, <1>7 DEF IInv

\* Closing the sessions S: enough for whatever else the handler changes.
LEMMA CloseStep ==
  ASSUME IInv, NEW S \in SUBSET Sessions,
         sub' = [st \in Streams |-> CloseEffect(S, sub[st])],
         UNCHANGED <<published, offered, readVars, objVars>>,
         sourceOf' \in [Sessions -> Sources \union {None}],
         invalidated' \in SUBSET Sessions, retired' \in SUBSET (Sessions \X Sources),
         gateway' \in {"running", "closing"},
         \A s \in Sessions \ S : s \in invalidated' => s \in invalidated,
         \A s \in Sessions \ S, x \in Sources :
           <<s, x>> \in retired' => <<s, x>> \in retired,
         Fenced'
  PROVE  IInv'
<1>1. ASSUME NEW st \in Streams
      PROVE  /\ SubOK(sub'[st]) /\ (Begun(sub'[st]) <=> Begun(sub[st]))
             /\ sub'[st] \in SubType /\ Cardinality(sub'[st].queue) <= Capacity
             /\ \A it \in sub'[st].queue :
                  (it \in sub[st].queue \/ it = EOF) /\ it.session \notin S
  <2>1. sub'[st] = CloseEffect(S, sub[st]) /\ SubOK(sub[st])
    BY DEF IInv, Subs
  <2> QED BY <2>1, CloseEffectOK DEF SubOK
<1>2. TypeOK'
  BY <1>1 DEF IInv, TypeOK, readVars, objVars
<1>3. Subs'
  BY <1>1 DEF IInv, Subs, readVars
<1>4. NoClosedLifecycleBuffered'
  <2> SUFFICES ASSUME NEW st \in Streams, NEW it \in sub'[st].queue
               PROVE  <<it.session, it.src>> \notin retired' /\ it.session \notin invalidated'
    BY DEF NoClosedLifecycleBuffered
  <2>1. CASE it = EOF
    BY <2>1, EOFType, NamesAssumption
  <2>2. CASE it \in sub[st].queue
    <3>1. /\ it.session \notin S /\ it.session \notin invalidated
          /\ <<it.session, it.src>> \notin retired
      BY <1>1, <2>2 DEF IInv, NoClosedLifecycleBuffered
    <3> QED BY <3>1
  <2> QED BY <2>1, <2>2, <1>1
<1>5. Shut' /\ Counted'
  BY DEF IInv, Shut, Counted, objVars
<1> QED BY <1>2, <1>3, <1>4, <1>5 DEF IInv

LEMMA RegisterStep ==
  ASSUME IInv, NEW s \in Sessions, NEW src \in Sources, RegisterSession(s, src)
  PROVE  IInv'
<1> DEFINE replaced == sourceOf[s] \notin {None, src}
<1> USE DEF RegisterSession
<1>0. /\ sourceOf \in [Sessions -> Sources \union {None}]
      /\ invalidated \in SUBSET Sessions
      /\ retired \in SUBSET (Sessions \X Sources)
  BY DEF IInv, TypeOK
<1>1. /\ sourceOf' \in [Sessions -> Sources \union {None}]
      /\ invalidated' \in SUBSET Sessions
      /\ retired' \in SUBSET (Sessions \X Sources)
      /\ gateway' = "running"
  BY <1>0
<1>2. \A t \in Sessions \ {s} :
        /\ sourceOf'[t] = sourceOf[t]
        /\ t \in invalidated' <=> t \in invalidated
        /\ \A x \in Sources : <<t, x>> \in retired' => <<t, x>> \in retired
  BY <1>0
<1>3. sourceOf'[s] = src /\ src # None /\ <<s, src>> \notin retired'
  BY <1>0, NamesAssumption
<1>4. Fenced'
  <2> SUFFICES ASSUME NEW t \in Sessions, NEW x \in Sources, <<t, x>> \in retired'
               PROVE  t \in invalidated' \/ sourceOf'[t] \notin {None, x}
    BY DEF Fenced
  <2>1. CASE t = s
    BY <2>1, <1>3
  <2>2. CASE t # s
    BY <2>2, <1>2 DEF IInv, Fenced
  <2> QED BY <2>1, <2>2
<1>5. CASE replaced
  <2>1. sub' = [st \in Streams |-> CloseEffect({s}, sub[st])]
    BY <1>5
  <2>2. UNCHANGED <<published, offered, readVars, objVars>>
    OBVIOUS
  <2>3. {s} \in SUBSET Sessions /\ gateway' \in {"running", "closing"}
    BY <1>1
  <2>4. /\ \A t \in Sessions \ {s} : t \in invalidated' => t \in invalidated
        /\ \A t \in Sessions \ {s}, x \in Sources :
             <<t, x>> \in retired' => <<t, x>> \in retired
    BY <1>2
  <2> HIDE DEF RegisterSession, replaced
  <2> QED BY <1>1, <1>4, <2>1, <2>2, <2>3, <2>4, CloseStep
<1>6. CASE ~replaced
  <2>1. sub' = sub /\ retired' \subseteq retired /\ invalidated' \subseteq invalidated
    BY <1>6
  <2>2. TypeOK'
    BY <1>1, <2>1 DEF IInv, TypeOK, readVars, objVars
  <2>3. Subs' /\ Shut' /\ Counted'
    BY <2>1 DEF IInv, Subs, Shut, Counted, readVars, objVars
  <2>4. NoClosedLifecycleBuffered'
    BY <2>1 DEF IInv, NoClosedLifecycleBuffered
  <2> QED BY <1>4, <2>2, <2>3, <2>4 DEF IInv
<1> QED BY <1>5, <1>6

LEMMA CloseSessionStep ==
  ASSUME IInv, NEW s \in Sessions, NEW src \in Sources, CloseSession(s, src)
  PROVE  IInv'
<1> USE DEF CloseSession
<1>0. /\ sourceOf \in [Sessions -> Sources \union {None}]
      /\ invalidated \in SUBSET Sessions
      /\ retired \in SUBSET (Sessions \X Sources)
  BY DEF IInv, TypeOK
<1>1. /\ sourceOf' \in [Sessions -> Sources \union {None}]
      /\ invalidated' \in SUBSET Sessions
      /\ retired' \in SUBSET (Sessions \X Sources)
      /\ gateway' = "running"
      /\ sub' = [st \in Streams |-> CloseEffect({s}, sub[st])]
      /\ UNCHANGED <<published, offered, readVars, objVars>>
  BY <1>0
<1>2. \A t \in Sessions \ {s} :
        /\ sourceOf'[t] = sourceOf[t]
        /\ t \in invalidated' <=> t \in invalidated
        /\ \A x \in Sources : <<t, x>> \in retired' => <<t, x>> \in retired
  BY <1>0
<1>3. Fenced'
  BY <1>2 DEF IInv, Fenced
<1> HIDE DEF CloseSession
<1> QED BY <1>1, <1>2, <1>3, CloseStep

LEMMA StopStep == ASSUME IInv, StopGateway PROVE IInv'
<1> DEFINE bound == {s \in Sessions : sourceOf[s] # None}
<1> USE DEF StopGateway
<1>0. /\ sourceOf \in [Sessions -> Sources \union {None}]
      /\ invalidated \in SUBSET Sessions
      /\ retired \in SUBSET (Sessions \X Sources)
  BY DEF IInv, TypeOK
<1>1. /\ sourceOf' = [s \in Sessions |-> None]
      /\ invalidated' = invalidated \union bound
      /\ retired' = retired \union {<<s, sourceOf[s]>> : s \in bound}
      /\ gateway' = "closing"
      /\ sub' = [st \in Streams |-> CloseEffect(bound, sub[st])]
      /\ UNCHANGED <<published, offered, readVars, objVars>>
  OBVIOUS
<1> HIDE DEF StopGateway
<1>2. /\ sourceOf' \in [Sessions -> Sources \union {None}]
      /\ invalidated' \in SUBSET Sessions
      /\ retired' \in SUBSET (Sessions \X Sources)
  BY <1>0, <1>1
<1>3. \A s \in Sessions \ bound :
        /\ s \in invalidated' => s \in invalidated
        /\ \A x \in Sources : <<s, x>> \in retired' => <<s, x>> \in retired
  BY <1>1
<1>4. Fenced'
  <2> SUFFICES ASSUME NEW s \in Sessions, NEW x \in Sources, <<s, x>> \in retired'
               PROVE  s \in invalidated'
    BY DEF Fenced
  <2>1. CASE s \in bound
    BY <2>1, <1>1
  <2>2. CASE s \notin bound
    BY <2>2, <1>1, <1>3 DEF IInv, Fenced
  <2> QED BY <2>1, <2>2
<1>5. bound \in SUBSET Sessions
  OBVIOUS
<1> HIDE DEF bound
<1> QED BY <1>1, <1>2, <1>3, <1>4, <1>5, CloseStep

LEMMA CloseAllStep == ASSUME IInv, CloseAll PROVE IInv'
<1> USE DEF CloseAll
<1>1. ASSUME NEW st \in Streams
      PROVE  /\ SubOK(sub'[st]) /\ sub'[st] \in SubType
             /\ Cardinality(sub'[st].queue) <= Capacity
             /\ ~sub'[st].registered /\ sub'[st].queue \subseteq {EOF}
             /\ Begun(sub'[st]) <=> Begun(sub[st])
  <2>0. SubOK(sub[st])
    BY DEF IInv, Subs
  <2>1. CASE sub[st].registered
    <3>1. sub'[st] = Unsubscribed(sub[st])
      BY <2>1
    <3>2. SubOK(sub'[st]) /\ sub'[st].closed /\ sub'[st].queue \subseteq {EOF}
      BY <3>1, <2>0, UnsubscribedOK
    <3> QED BY <3>2, <2>1 DEF SubOK, Begun
  <2>2. CASE ~sub[st].registered
    <3>1. sub'[st] = sub[st]
      BY <2>2
    <3> QED BY <3>1, <2>0, <2>2 DEF SubOK
  <2> QED BY <2>1, <2>2
<1>2. TypeOK'
  <2>1. sourceOf' \in [Sessions -> Sources \union {None}] /\ invalidated' \in SUBSET Sessions
    BY DEF IInv, TypeOK
  <2>2. sub' \in [Streams -> SubType]
    BY <1>1
  <2> QED BY <1>1, <2>1, <2>2 DEF IInv, TypeOK, readVars, objVars
<1>3. Subs'
  BY <1>1 DEF IInv, Subs, readVars
<1>4. Fenced'
  BY DEF IInv, Fenced
<1>5. NoClosedLifecycleBuffered'
  <2>1. \A st \in Streams : \A it \in sub'[st].queue : it.session = None
    BY <1>1, EOFType
  <2>2. retired' \in SUBSET (Sessions \X Sources) /\ invalidated' \in SUBSET Sessions
    BY <1>2 DEF TypeOK
  <2> QED BY <2>1, <2>2, NamesAssumption DEF NoClosedLifecycleBuffered
<1>6. Shut' /\ Counted'
  BY <1>1 DEF IInv, Shut, Counted, objVars
<1> QED BY <1>2, <1>3, <1>4, <1>5, <1>6 DEF IInv

LEMMA SubscribeStep ==
  ASSUME IInv, NEW st \in Streams, NEW scope \in Sessions \union {Global},
         Subscribe(st, scope)
  PROVE  IInv'
<1> USE DEF Subscribe
<1> DEFINE r == [sub[st] EXCEPT !.scope = scope, !.registered = TRUE]
<1>0. sub \in [Streams -> SubType] /\ reader[st] = "none" /\ SubOK(sub[st])
      /\ ~Begun(sub[st]) /\ sub[st] \in SubType
  BY DEF IInv, Subs, TypeOK
<1>1. sub' = [sub EXCEPT ![st] = r]
  BY <1>0 DEF SubType
<1>2. /\ r \in SubType /\ r.queue = sub[st].queue /\ r.registered
      /\ r.scope = scope /\ ~r.closed
  BY <1>0 DEF SubType, Begun
<1>3. SubOK(r) /\ Begun(r)
  <2>1. sub[st].queue \subseteq {EOF}
    BY <1>0 DEF SubOK, Begun
  <2> QED BY <1>0, <1>2, <2>1, EOFType, NamesAssumption DEF SubOK, Begun
<1> HIDE DEF r
<1>4. TypeOK'
  <2>1. sub' \in [Streams -> SubType] /\ \A x \in Streams : sub'[x].queue = sub[x].queue
    BY <1>0, <1>1, <1>2, ZenonT(40)
  <2> QED BY <2>1 DEF IInv, TypeOK, objVars
<1>5. Subs'
  <2> SUFFICES ASSUME NEW x \in Streams
               PROVE  SubOK(sub'[x]) /\ (Begun(sub'[x]) <=> reader'[x] # "none")
    BY DEF Subs
  <2>1. reader' = [reader EXCEPT ![st] = "idle"]
        /\ reader \in [Streams -> {"none", "idle", "waiting", "holding", "done"}]
    BY DEF IInv, TypeOK
  <2>2. CASE x = st
    BY <2>1, <2>2, <1>0, <1>1, <1>3
  <2>3. CASE x # st
    BY <2>1, <2>3, <1>0, <1>1 DEF IInv, Subs
  <2> QED BY <2>2, <2>3
<1>6. Fenced' /\ Shut' /\ Counted'
  BY DEF IInv, Fenced, Shut, Counted, objVars
<1>7. NoClosedLifecycleBuffered'
  <2>1. \A x \in Streams : sub'[x].queue = sub[x].queue
    BY <1>0, <1>1, <1>2
  <2> QED BY <2>1 DEF IInv, NoClosedLifecycleBuffered
<1> QED BY <1>4, <1>5, <1>6, <1>7 DEF IInv

LEMMA EmitStep ==
  ASSUME IInv, NEW src \in Sources, NEW kind \in {"ordinary", "control"},
         NEW tagged \in BOOLEAN, Emit(src, kind, tagged)
  PROVE  IInv'
<1> DEFINE e == [id |-> emitted + 1, src |-> src, kind |-> kind, tagged |-> tagged,
                 session |-> objId[src], gen |-> objGen[src]]
<1>1. /\ emitted < MaxEvents /\ emitted' = emitted + 1
      /\ inflight' = inflight \union {e}
      /\ UNCHANGED <<busVars, readVars, objId, objGen, gateway>>
  BY DEF Emit
<1>2. /\ emitted \in Nat /\ published \in Nat /\ published <= emitted
      /\ objId[src] \in Sessions /\ objGen[src] \in 0..MaxGen
      /\ inflight \in SUBSET EventType
  BY BoundAssumption DEF IInv, TypeOK
<1>3. e \in EventType
  BY <1>1, <1>2, BoundAssumption DEF EventType
<1> HIDE DEF e
<1>4. TypeOK'
  <2>1. emitted' \in 0..MaxEvents /\ published' \in 0..emitted'
    BY <1>1, <1>2, BoundAssumption DEF busVars
  <2>2. inflight' \in SUBSET EventType
    BY <1>1, <1>2, <1>3
  <2> QED BY <1>1, <2>1, <2>2 DEF IInv, TypeOK, busVars, readVars
<1>5. Counted'
  <2>1. IsFiniteSet(inflight)
    BY DEF IInv, Counted
  <2>2. /\ IsFiniteSet(inflight \union {e})
        /\ \/ Cardinality(inflight \union {e}) = Cardinality(inflight)
           \/ Cardinality(inflight \union {e}) = Cardinality(inflight) + 1
    BY <2>1, FS_AddElement, Zenon
  <2>3. Cardinality(inflight) \in Nat
    BY <2>1, FS_CardinalityType
  <2>4. published + Cardinality(inflight) <= emitted
    BY DEF IInv, Counted
  <2> QED BY <1>1, <1>2, <2>2, <2>3, <2>4 DEF Counted, busVars
<1>6. Subs' /\ Fenced' /\ NoClosedLifecycleBuffered' /\ Shut'
  BY <1>1 DEF IInv, Subs, Fenced, NoClosedLifecycleBuffered, Shut, busVars, readVars
<1> QED BY <1>4, <1>5, <1>6 DEF IInv

LEMMA AdvanceStep ==
  ASSUME IInv, NEW src \in Sources, NEW s \in Sessions, AdvanceLifecycle(src, s)
  PROVE  IInv'
<1> USE DEF AdvanceLifecycle
<1>1. objGen' \in [Sources -> 0..MaxGen] /\ objId' \in [Sources -> Sessions]
  BY BoundAssumption DEF IInv, TypeOK
<1>2. TypeOK'
  BY <1>1 DEF IInv, TypeOK, busVars, readVars
<1>3. Subs' /\ Fenced' /\ NoClosedLifecycleBuffered' /\ Shut' /\ Counted'
  BY DEF IInv, Subs, Fenced, NoClosedLifecycleBuffered, Shut, Counted, busVars, readVars
<1> QED BY <1>2, <1>3 DEF IInv

\* An event that is refused leaves the bus alone; one that is accepted is
\* current, so its lifecycle is not retired, and takes the next position.
LEMMA PublishStep ==
  ASSUME IInv, NEW e \in inflight, NEW withSource \in BOOLEAN, Publish(e, withSource)
  PROVE  IInv'
<1> DEFINE source == IF withSource THEN e.src ELSE None
<1>1. PICK s \in {e.session, objId[e.src]} :
        /\ inflight' = inflight \ {e}
        /\ IF SourceIsCurrent(s, e, source)
           THEN LET it == Item(published + 1, s, source, e.kind)
                    after == [st \in Targets(s) |-> Pushed(sub[st], it)]
                IN /\ published' = published + 1
                   /\ sub' = [st \in Streams |->
                        IF st \notin Targets(s) THEN sub[st]
                        ELSE IF after[st].closed THEN Unsubscribed(after[st])
                        ELSE after[st]]
                   /\ offered' = [st \in Streams |->
                        IF st \in Targets(s) /\ IsControl(it) THEN it.pos
                        ELSE offered[st]]
           ELSE UNCHANGED <<published, sub, offered>>
        /\ UNCHANGED <<sourceOf, invalidated, retired, readVars,
                       objId, objGen, emitted, gateway>>
  BY DEF Publish
<1> DEFINE it == Item(published + 1, s, source, e.kind)
           current == SourceIsCurrent(s, e, source)
<1>2. /\ e \in EventType /\ s \in Sessions /\ source \in Sources \union {None}
      /\ emitted \in Nat /\ emitted <= MaxEvents /\ published \in Nat
  BY BoundAssumption DEF IInv, TypeOK, EventType
<1>3. /\ IsFiniteSet(inflight') /\ Cardinality(inflight') \in Nat
      /\ Cardinality(inflight) = Cardinality(inflight') + 1
      /\ published + Cardinality(inflight) <= emitted
  <2>1. IsFiniteSet(inflight) /\ published + Cardinality(inflight) <= emitted
    BY DEF IInv, Counted
  <2>2. /\ IsFiniteSet(inflight')
        /\ Cardinality(inflight') = Cardinality(inflight) - 1
    BY <1>1, <2>1, FS_RemoveElement, Zenon
  <2>3. Cardinality(inflight) \in Nat /\ Cardinality(inflight') \in Nat
    BY <2>1, <2>2, FS_CardinalityType
  <2> QED BY <2>1, <2>2, <2>3
<1>4. published' \in 0..emitted /\ Counted'
  BY <1>1, <1>2, <1>3 DEF Counted
<1>5. Fenced' /\ inflight' \in SUBSET EventType
  BY <1>1 DEF IInv, Fenced, TypeOK
<1> HIDE DEF source
<1>6. CASE ~current
  <2>1. UNCHANGED <<published, sub, offered, sourceOf, invalidated, retired,
                    readVars, objId, objGen, emitted, gateway>>
    BY <1>1, <1>6
  <2>2. TypeOK'
    BY <2>1, <1>4, <1>5 DEF IInv, TypeOK, readVars
  <2>3. Subs' /\ NoClosedLifecycleBuffered' /\ Shut'
    BY <2>1 DEF IInv, Subs, NoClosedLifecycleBuffered, Shut, readVars
  <2> QED BY <1>4, <1>5, <2>2, <2>3 DEF IInv
<1>7. CASE current
  <2>1. /\ published' = published + 1
        /\ UNCHANGED <<sourceOf, invalidated, retired, readVars, objId, objGen,
                       emitted, gateway>>
        /\ sub' = [st \in Streams |->
                     IF st \in Targets(s) THEN AfterPush(sub[st], it) ELSE sub[st]]
        /\ offered' = [st \in Streams |->
                         IF st \in Targets(s) /\ IsControl(it) THEN it.pos
                         ELSE offered[st]]
    BY <1>1, <1>7 DEF AfterPush
  <2>2. it \in ItemType /\ it.pos \in 0..MaxEvents /\ it.session = s /\ it.src = source
    BY <1>2, <1>3, BoundAssumption DEF Item, ItemType, EventType
  <2>3. <<s, source>> \notin retired /\ s \notin invalidated
    <3>1. s \notin invalidated /\ (source # None => sourceOf[s] \in {None, source})
      BY <1>7 DEF SourceIsCurrent
    <3>2. CASE source = None
      BY <3>1, <3>2, NamesAssumption DEF IInv, TypeOK
    <3>3. CASE source # None
      BY <3>1, <3>3, <1>2 DEF IInv, Fenced
    <3> QED BY <3>1, <3>2, <3>3
  <2> HIDE DEF it
  <2>4. ASSUME NEW st \in Streams
        PROVE  /\ SubOK(sub'[st]) /\ (Begun(sub'[st]) <=> Begun(sub[st]))
               /\ sub'[st].queue \subseteq sub[st].queue \union {it, EOF}
               /\ sub'[st].registered => sub[st].registered
    <3>1. SubOK(sub[st])
      BY DEF IInv, Subs
    <3>2. CASE st \in Targets(s)
      <4>1. sub'[st] = AfterPush(sub[st], it)
        BY <2>1, <3>2
      <4>2. sub[st].registered /\ sub[st].scope \in {it.session, Global}
        BY <2>2, <3>2 DEF Targets
      <4> QED BY <4>1, <4>2, <3>1, <2>2, PushedOK DEF Begun
    <3>3. CASE st \notin Targets(s)
      BY <2>1, <3>1, <3>3
    <3> QED BY <3>2, <3>3
  <2>5. TypeOK'
    <3>1. sub' \in [Streams -> SubType] /\ offered' \in [Streams -> 0..MaxEvents]
          /\ \A st \in Streams : Cardinality(sub'[st].queue) <= Capacity
      <4>1. offered \in [Streams -> 0..MaxEvents]
        BY DEF IInv, TypeOK
      <4>2. offered' \in [Streams -> 0..MaxEvents]
        BY <2>1, <2>2, <4>1
      <4>3. \A st \in Streams : sub'[st] \in SubType /\ Cardinality(sub'[st].queue) <= Capacity
        BY <2>4 DEF SubOK
      <4> QED BY <2>1, <4>2, <4>3
    <3>2. UNCHANGED <<sourceOf, invalidated, retired, readVars, objId, objGen,
                      emitted, gateway>>
      BY <2>1
    <3> QED BY <1>4, <1>5, <3>1, <3>2 DEF IInv, TypeOK, readVars
  <2>6. Subs'
    BY <2>1, <2>4 DEF IInv, Subs, readVars
  <2>7. NoClosedLifecycleBuffered'
    <3> SUFFICES ASSUME NEW st \in Streams, NEW x \in sub'[st].queue
                 PROVE  <<x.session, x.src>> \notin retired /\ x.session \notin invalidated
      BY <2>1 DEF NoClosedLifecycleBuffered
    <3>1. CASE x \in sub[st].queue
      BY <3>1 DEF IInv, NoClosedLifecycleBuffered
    <3>2. CASE x = it
      BY <3>2, <2>2, <2>3
    <3>3. CASE x = EOF
      BY <3>3, EOFType, NamesAssumption DEF IInv, TypeOK
    <3> QED BY <3>1, <3>2, <3>3, <2>4
  <2>8. Shut'
    BY <2>1, <2>4 DEF IInv, Shut
  <2> QED BY <1>4, <1>5, <2>5, <2>6, <2>7, <2>8 DEF IInv
<1> QED BY <1>6, <1>7

\* What a step of st's transport loop changes: it takes items from the queue
\* or unsubscribes, and the loop never returns to its beginning.
LoopStep(st, r, at) ==
  /\ UNCHANGED <<sourceOf, invalidated, published, offered, retired, objVars, gateway>>
  /\ sub' = [sub EXCEPT ![st] = r]
  /\ reader' = [reader EXCEPT ![st] = at]
  /\ SubOK(r) /\ Begun(r)
  /\ r.registered => sub[st].registered
  /\ r.queue \subseteq sub[st].queue \union {EOF}
  /\ at \in {"idle", "waiting", "holding", "done"}
  /\ hand' \in [Streams -> ItemType]
  /\ handed' \in [Streams -> 0..MaxEvents]

LEMMA LoopPreserves ==
  ASSUME IInv, NEW st \in Streams, NEW r, NEW at, LoopStep(st, r, at)
  PROVE  IInv'
<1> USE DEF LoopStep
<1>1. /\ sub \in [Streams -> SubType] /\ r \in SubType /\ sub' \in [Streams -> SubType]
      /\ sub'[st] = r /\ \A x \in Streams \ {st} : sub'[x] = sub[x]
  BY DEF IInv, TypeOK, SubOK
<1>2. /\ reader' \in [Streams -> {"none", "idle", "waiting", "holding", "done"}]
      /\ reader'[st] = at /\ at # "none" /\ \A x \in Streams \ {st} : reader'[x] = reader[x]
  BY DEF IInv, TypeOK
<1>3. TypeOK'
  <2>1. \A x \in Streams : Cardinality(sub'[x].queue) <= Capacity
    BY <1>1 DEF IInv, TypeOK, SubOK
  <2> QED BY <1>1, <1>2, <2>1 DEF IInv, TypeOK, objVars
<1>4. Subs'
  BY <1>1, <1>2 DEF IInv, Subs
<1>5. Fenced' /\ Counted'
  BY DEF IInv, Fenced, Counted, objVars
<1>6. NoClosedLifecycleBuffered'
  <2> SUFFICES ASSUME NEW x \in Streams, NEW it \in sub'[x].queue
               PROVE  <<it.session, it.src>> \notin retired /\ it.session \notin invalidated
    BY DEF NoClosedLifecycleBuffered
  <2>1. it \in sub[x].queue \/ it = EOF
    BY <1>1
  <2>2. CASE it = EOF
    BY <2>2, EOFType, NamesAssumption DEF IInv, TypeOK
  <2> QED BY <2>1, <2>2 DEF IInv, NoClosedLifecycleBuffered
<1>7. Shut'
  BY <1>1 DEF IInv, Shut
<1> QED BY <1>3, <1>4, <1>5, <1>6, <1>7 DEF IInv

\* Losing items, or the handshake flag, keeps a subscriber sound.
LEMMA TakenOK ==
  ASSUME NEW st \in Streams, SubOK(sub[st]), Begun(sub[st]),
         NEW q \in SUBSET sub[st].queue, NEW h \in BOOLEAN
  PROVE  LET r == [sub[st] EXCEPT !.queue = q, !.hello = h]
         IN  /\ SubOK(r) /\ Begun(r) /\ r.queue = q
             /\ r.registered = sub[st].registered
<1> DEFINE r == [sub[st] EXCEPT !.queue = q, !.hello = h]
<1>1. sub[st] \in SubType /\ IsFiniteSet(q) /\ Cardinality(q) <= Capacity
  BY FewerItems DEF SubOK
<1>2. /\ r \in SubType /\ r.queue = q /\ r.scope = sub[st].scope
      /\ r.registered = sub[st].registered /\ r.closed = sub[st].closed
  BY <1>1 DEF SubType
<1> HIDE DEF r
<1>3. SubOK(r) /\ Begun(r)
  BY <1>1, <1>2 DEF SubOK, Begun
<1> QED BY <1>2, <1>3 DEF r

\* Popping the oldest item is a step of the loop.
LEMMA TakeOldestLoops ==
  ASSUME IInv, NEW st \in Streams, reader[st] \in {"idle", "waiting"}, TakeOldest(st),
         UNCHANGED <<sourceOf, invalidated, published, offered, retired, objVars, gateway>>
  PROVE  \E r : LoopStep(st, r, "holding")
<1> DEFINE it == Oldest(sub[st].queue)
           r == [sub[st] EXCEPT !.queue = @ \ {it}]
<1>1. SubOK(sub[st]) /\ Begun(sub[st]) /\ sub[st] \in SubType
  BY DEF IInv, Subs, SubOK
<1>2. sub[st].queue # {} /\ Take(st, it, r)
  BY DEF TakeOldest
<1>3. it \in sub[st].queue
  <2>1. \A x \in sub[st].queue : x.pos \in Nat
    BY <1>1, BoundAssumption DEF SubType, ItemType
  <2>2. \E x \in sub[st].queue : \A y \in sub[st].queue : x.pos <= y.pos
    BY <1>2, <2>1, LeastExists
  <2> QED BY <2>2 DEF Oldest
<1>4. it \in ItemType /\ it.pos \in 0..MaxEvents
  BY <1>1, <1>3 DEF SubType, ItemType
<1> HIDE DEF it
<1>5. r = [sub[st] EXCEPT !.queue = sub[st].queue \ {it}, !.hello = sub[st].hello]
  BY <1>1 DEF SubType
<1>6. /\ SubOK(r) /\ Begun(r) /\ r.registered = sub[st].registered
      /\ r.queue = sub[st].queue \ {it}
  <2> HIDE DEF r
  <2>1. sub[st].queue \ {it} \in SUBSET sub[st].queue /\ sub[st].hello \in BOOLEAN
    BY <1>1 DEF SubType
  <2> QED BY <1>1, <1>5, <2>1, TakenOK, ZenonT(40)
<1> HIDE DEF r
<1>7. hand' \in [Streams -> ItemType] /\ handed' \in [Streams -> 0..MaxEvents]
  BY <1>2, <1>4 DEF Take, IInv, TypeOK
<1>8. LoopStep(st, r, "holding")
  BY <1>2, <1>6, <1>7 DEF LoopStep, Take
<1> QED BY <1>8

LEMMA ReadStep == ASSUME IInv, NEW st \in Streams, Read(st) PROVE IInv'
<1> USE DEF Read
<1>0. /\ SubOK(sub[st]) /\ Begun(sub[st]) /\ sub[st] \in SubType
      /\ sub \in [Streams -> SubType] /\ hand \in [Streams -> ItemType]
      /\ handed \in [Streams -> 0..MaxEvents]
  BY DEF IInv, Subs, SubOK, TypeOK
<1>1. CASE sub[st].hello /\ Take(st, Hello, [sub[st] EXCEPT !.hello = FALSE])
  <2> DEFINE r == [sub[st] EXCEPT !.hello = FALSE]
  <2>1. r = [sub[st] EXCEPT !.queue = sub[st].queue, !.hello = FALSE]
    BY <1>0 DEF SubType
  <2>2. SubOK(r) /\ Begun(r) /\ r.registered = sub[st].registered
        /\ r.queue = sub[st].queue
    <3> HIDE DEF r
    <3> QED BY <1>0, <2>1, TakenOK
  <2>3. Hello \in ItemType /\ ~IsControl(Hello)
    BY BoundAssumption DEF Hello, Item, ItemType, IsControl
  <2>4. /\ sub' = [sub EXCEPT ![st] = r] /\ reader' = [reader EXCEPT ![st] = "holding"]
        /\ hand' = [hand EXCEPT ![st] = Hello] /\ handed' = handed
    BY <1>1, <2>3 DEF Take
  <2> HIDE DEF r
  <2>5. LoopStep(st, r, "holding")
    BY <1>0, <2>2, <2>3, <2>4 DEF LoopStep
  <2> QED BY <2>5, LoopPreserves
<1>2. CASE ~sub[st].hello /\ TakeOldest(st)
  <2>1. \E r : LoopStep(st, r, "holding")
    BY <1>2, TakeOldestLoops
  <2> QED BY <2>1, LoopPreserves
<1>3. CASE /\ ~sub[st].hello /\ sub[st].queue = {}
           /\ reader' = [reader EXCEPT ![st] = "waiting"]
           /\ UNCHANGED <<sub, hand, handed>>
  <2>1. LoopStep(st, sub[st], "waiting")
    BY <1>0, <1>3 DEF LoopStep
  <2> QED BY <2>1, LoopPreserves
<1> QED BY <1>1, <1>2, <1>3

LEMMA WakeStep == ASSUME IInv, NEW st \in Streams, Wake(st) PROVE IInv'
<1>1. \E r : LoopStep(st, r, "holding")
  BY TakeOldestLoops DEF Wake
<1> QED BY <1>1, LoopPreserves

LEMMA WaitOverStep ==
  ASSUME IInv, NEW st \in Streams, Heartbeat(st) \/ Forward(st)
  PROVE  IInv'
<1>1. /\ SubOK(sub[st]) /\ Begun(sub[st]) /\ sub = [sub EXCEPT ![st] = sub[st]]
      /\ hand \in [Streams -> ItemType] /\ handed \in [Streams -> 0..MaxEvents]
  BY DEF IInv, Subs, TypeOK, Heartbeat, Forward
<1>2. NoItem \in ItemType
  BY BoundAssumption DEF NoItem, Item, ItemType
<1>3. LoopStep(st, sub[st], "idle")
  BY <1>1, <1>2 DEF LoopStep, Heartbeat, Forward, busVars
<1> QED BY <1>3, LoopPreserves

LEMMA FinishStep ==
  ASSUME IInv, NEW st \in Streams, EndOfStream(st) \/ Disconnect(st)
  PROVE  IInv'
<1> DEFINE u == Unsubscribed(sub[st])
<1>1. Finish(st) /\ SubOK(sub[st])
  BY DEF IInv, Subs, EndOfStream, Disconnect
<1>2. SubOK(u) /\ u.closed /\ u.queue \subseteq {EOF}
  BY <1>1, UnsubscribedOK
<1>3. NoItem \in ItemType
  BY BoundAssumption DEF NoItem, Item, ItemType
<1>4. sub' = [sub EXCEPT ![st] = u]
  BY <1>1 DEF Finish
<1> HIDE DEF u
<1>5. ~u.registered /\ Begun(u)
  BY <1>2 DEF SubOK, Begun
<1>6. hand' \in [Streams -> ItemType] /\ handed' \in [Streams -> 0..MaxEvents]
  BY <1>1, <1>3 DEF Finish, IInv, TypeOK
<1>7. LoopStep(st, u, "done")
  BY <1>1, <1>2, <1>4, <1>5, <1>6 DEF LoopStep, Finish
<1> QED BY <1>7, LoopPreserves

LEMMA NextIInv == IInv /\ [Next]_vars => IInv'
<1> SUFFICES ASSUME IInv, [Next]_vars PROVE IInv'
  OBVIOUS
<1>1. ASSUME NEW s \in Sessions, NEW src \in Sources,
             RegisterSession(s, src) \/ CloseSession(s, src) \/ AdvanceLifecycle(src, s)
      PROVE  IInv'
  BY <1>1, RegisterStep, CloseSessionStep, AdvanceStep
<1>2. CASE StopGateway
  BY <1>2, StopStep
<1>3. CASE CloseAll
  BY <1>3, CloseAllStep
<1>4. ASSUME NEW src \in Sources, NEW kind \in {"ordinary", "control"},
             NEW tagged \in BOOLEAN, Emit(src, kind, tagged)
      PROVE  IInv'
  BY <1>4, EmitStep
<1>5. ASSUME NEW e \in inflight, NEW withSource \in BOOLEAN, Publish(e, withSource)
      PROVE  IInv'
  BY <1>5, PublishStep
<1>6. ASSUME NEW st \in Streams, NEW scope \in Sessions \union {Global},
             Subscribe(st, scope)
      PROVE  IInv'
  BY <1>6, SubscribeStep
<1>7. ASSUME NEW st \in Streams, ReaderStep(st) \/ Heartbeat(st) \/ Disconnect(st)
      PROVE  IInv'
  BY <1>7, ReadStep, WakeStep, WaitOverStep, FinishStep DEF ReaderStep
<1>8. CASE UNCHANGED vars
  BY <1>8 DEF vars, busVars, readVars, objVars, IInv, TypeOK, Subs, Fenced,
              NoClosedLifecycleBuffered, Shut, Counted
<1> QED BY <1>1, <1>2, <1>3, <1>4, <1>5, <1>6, <1>7, <1>8 DEF Next

THEOREM Invariance == Spec => []IInv
  BY InitIInv, NextIInv, PTL DEF Spec

-----------------------------------------------------------------------------

\* Every variable keeps its type and no subscriber ever buffers more than
\* subscriber_queue_size events, for any number of slow clients.
THEOREM TypeCorrect == Spec => []TypeOK
<1>1. IInv => TypeOK
  BY DEF IInv
<1> QED BY <1>1, Invariance, PTL

\* close_session and register_session withdraw a lifecycle for good: whatever
\* it emitted and however late it is published, nobody has it buffered until
\* the same CoreSession object is installed again.
THEOREM ClosedLifecyclesStayClosed == Spec => []NoClosedLifecycleBuffered
<1>1. IInv => NoClosedLifecycleBuffered
  BY DEF IInv
<1> QED BY <1>1, Invariance, PTL

\* A closed subscriber is off the bus and holds nothing but the sentinel.
THEOREM ClosedSubscribersAreEmpty == Spec => []ClosedMeansSentinelOnly
<1>1. IInv => ClosedMeansSentinelOnly
  BY DEF IInv, Subs, SubOK, ClosedMeansSentinelOnly
<1> QED BY <1>1, Invariance, PTL

\* close_all leaves no subscriber open: a route cannot subscribe between the
\* shutdown fence and the sweep.
THEOREM ShutdownIsComplete == Spec => []ShutdownLeavesNobody
<1>1. IInv => ShutdownLeavesNobody
  BY DEF IInv, Subs, Shut, Begun, ShutdownLeavesNobody
<1> QED BY <1>1, Invariance, PTL
-----------------------------------------------------------------------------
(***************************************************************************)
(* The event bus implements a control stream for every subscriber, for     *)
(* every number of sessions, objects and streams and every queue capacity. *)
(***************************************************************************)

\* The control events a subscriber buffers, as the abstract stream sees them.
Pending(r) == {[id |-> it.pos, session |-> it.session] :
                 it \in {x \in r.queue : IsControl(x)}}

\* What the mapping needs beside IInv: a position is given to one item, and
\* the last control event offered has one of the positions given.
Distinct(q) == \A x, y \in q : IsControl(x) /\ IsControl(y) /\ x.pos = y.pos => x = y

Numbered ==
  \A st \in Streams :
    /\ offered[st] <= published
    /\ \A it \in sub[st].queue : it.pos <= published
    /\ Distinct(sub[st].queue)

RInv == IInv /\ Numbered

LEMMA EOFIsOrdinary == ~IsControl(EOF) /\ EOF.pos = 0
  BY DEF IsControl, EOF, Item

\* A sound closed subscriber has no control event pending.
LEMMA ClosedHasNone == ASSUME NEW r, SubOK(r), r.closed PROVE Pending(r) = {}
<1>1. r.queue \subseteq {EOF}
  BY DEF SubOK
<1> QED BY <1>1, EOFIsOrdinary DEF Pending

\* c is the stream r after the sessions S changed hands.
Withdraws(r, c, S) ==
  \/ c.closed /\ Pending(c) = {}
  \/ /\ c.closed = r.closed
     /\ Pending(c) = {e \in Pending(r) : e.session \notin S}

\* p is the open stream r after an offer of the item it.
Accepts(r, p, it) ==
  IF IsControl(it)
  THEN \/ p.closed /\ Pending(p) = {}
       \/ /\ ~p.closed
          /\ Pending(p) = Pending(r) \union {[id |-> it.pos, session |-> it.session]}
  ELSE ~p.closed /\ Pending(p) = Pending(r)

\* close_session ends a stream, or withdraws the sessions' control events.
LEMMA CloseEffectPending ==
  ASSUME NEW r, SubOK(r), NEW S \in SUBSET Sessions
  PROVE  Withdraws(r, CloseEffect(S, r), S)
<1> DEFINE c == CloseEffect(S, r)
<1>1. SubOK(c) /\ \A it \in c.queue : it.session \notin S
  BY CloseEffectOK
<1>2. CASE r.registered /\ r.scope \in S
  <2>1. c.closed
    BY <1>2, UnsubscribedOK DEF CloseEffect
  <2> QED BY <1>1, <2>1, ClosedHasNone DEF Withdraws
<1>3. CASE ~(r.registered /\ r.scope \in S) /\ r.registered /\ r.scope = Global
  <2>1. c = [r EXCEPT !.queue = {it \in r.queue : it.session \notin S}]
    BY <1>3 DEF CloseEffect, Dropped, SubOK, SubType
  <2>2. c.queue = {it \in r.queue : it.session \notin S} /\ c.closed = r.closed
    BY <2>1 DEF SubOK, SubType
  <2> HIDE DEF c
  <2>3. Pending(c) = {e \in Pending(r) : e.session \notin S}
    BY <2>2 DEF Pending
  <2>4. Withdraws(r, c, S)
    BY <2>2, <2>3 DEF Withdraws
  <2> QED BY <2>4 DEF c
<1>4. CASE ~(r.registered /\ r.scope \in S) /\ ~(r.registered /\ r.scope = Global)
  <2>1. c = r
    BY <1>4 DEF CloseEffect
  <2>2. \A it \in r.queue : it.session \notin S
    BY <1>1, <2>1
  <2>3. Pending(r) = {e \in Pending(r) : e.session \notin S}
    BY <2>2 DEF Pending
  <2> QED BY <2>1, <2>3 DEF Withdraws
<1> QED BY <1>2, <1>3, <1>4

\* A push keeps a control event behind the earlier ones or ends the stream;
\* an ordinary event changes nothing a control stream sees.
LEMMA PushPending ==
  ASSUME NEW r, SubOK(r), r.registered, NEW it \in ItemType,
         r.scope \in {it.session, Global}
  PROVE  Accepts(r, AfterPush(r, it), it)
<1> DEFINE p == AfterPush(r, it)
           full == Cardinality(r.queue) >= Capacity
           victim == \E old \in r.queue : IsOrdinary(old)
<1>0. ~r.closed /\ r \in SubType
  BY DEF SubOK
<1>1. SubOK(p)
  BY PushedOK
<1>2. CASE p.closed
  <2>1. Pending(p) = {}
    BY <1>1, <1>2, ClosedHasNone
  <2>2. IsControl(it)
    <3>1. ASSUME ~IsControl(it) PROVE ~Pushed(r, it).closed
      BY <3>1, <1>0 DEF Pushed, SubType
    <3>2. ASSUME ~Pushed(r, it).closed PROVE ~p.closed
      BY <3>2 DEF AfterPush
    <3> QED BY <3>1, <3>2, <1>2
  <2> QED BY <2>1, <2>2, <1>2 DEF Accepts
<1>3. CASE ~p.closed
  <2>1. p = Pushed(r, it)
    <3>1. ASSUME Pushed(r, it).closed PROVE FALSE
      <4>1. p = Unsubscribed(Pushed(r, it))
        BY <3>1 DEF AfterPush
      <4>2. p = [Pushed(r, it) EXCEPT !.registered = FALSE]
            \/ p = Closed([Pushed(r, it) EXCEPT !.registered = FALSE])
        BY <4>1 DEF Unsubscribed
      <4>3. Pushed(r, it) = Closed([r EXCEPT !.overflowed = TRUE])
        BY <3>1, <1>0 DEF Pushed, SubType
      <4>4. Pushed(r, it) = [r EXCEPT !.overflowed = TRUE, !.closed = TRUE, !.queue = {EOF}]
        BY <4>3, <1>0 DEF Closed, SubType
      <4>5. p.closed
        BY <4>1, <4>4, <1>0 DEF Unsubscribed, Closed, SubType
      <4> QED BY <4>5, <1>3
    <3> QED BY <3>1 DEF AfterPush
  <2>2. \/ p = [r EXCEPT !.queue = r.queue \union {it}]
        \/ p = [r EXCEPT !.queue = Evicted(r.queue) \union {it}] /\ victim
        \/ p = r /\ ~IsControl(it)
    <3>1. ASSUME full, ~victim, IsControl(it) PROVE FALSE
      <4>1. p = Closed([r EXCEPT !.overflowed = TRUE])
        BY <3>1, <2>1, <1>0 DEF Pushed
      <4>2. p.closed
        BY <4>1, <1>0 DEF Closed, SubType
      <4> QED BY <4>2, <1>3
    <3> QED BY <3>1, <2>1, <1>0 DEF Pushed
  <2> SUFFICES Accepts(r, p, it)
    OBVIOUS
  <2> HIDE DEF p
  <2>3. CASE p = [r EXCEPT !.queue = r.queue \union {it}]
    <3>1. p.queue = r.queue \union {it}
      BY <2>3, <1>0 DEF SubType
    <3>2. IF IsControl(it)
          THEN Pending(p) = Pending(r) \union {[id |-> it.pos, session |-> it.session]}
          ELSE Pending(p) = Pending(r)
      BY <3>1 DEF Pending
    <3> QED BY <3>2, <1>3 DEF Accepts
  <2>4. CASE p = [r EXCEPT !.queue = Evicted(r.queue) \union {it}] /\ victim
    <3> DEFINE O == {x \in r.queue : IsOrdinary(x)}
    <3>1. p.queue = (r.queue \ {Oldest(O)}) \union {it}
      BY <2>4, <1>0 DEF SubType, Evicted
    <3>2. Oldest(O) \in O
      <4>1. \A x \in O : x.pos \in Nat
        BY <1>0, BoundAssumption DEF SubType, ItemType
      <4>2. \E x \in O : \A y \in O : x.pos <= y.pos
        BY <4>1, <2>4, LeastExists
      <4> QED BY <4>2 DEF Oldest
    <3>3. ~IsControl(Oldest(O))
      BY <3>2 DEF IsControl, IsOrdinary
    <3>4. {x \in p.queue : IsControl(x)}
            = {x \in r.queue : IsControl(x)} \union {x \in {it} : IsControl(x)}
      BY <3>1, <3>3
    <3>5. IF IsControl(it)
          THEN Pending(p) = Pending(r) \union {[id |-> it.pos, session |-> it.session]}
          ELSE Pending(p) = Pending(r)
      BY <3>4 DEF Pending
    <3> QED BY <3>5, <1>3 DEF Accepts
  <2>5. CASE p = r /\ ~IsControl(it)
    BY <2>5, <1>3 DEF Accepts
  <2> QED BY <2>2, <2>3, <2>4, <2>5
<1> QED BY <1>2, <1>3

-----------------------------------------------------------------------------
(* The mapping's own invariant.                                            *)

\* Every action but publish only takes from the buffers or closes them.
Quiet ==
  /\ UNCHANGED <<published, offered>>
  /\ \A st \in Streams : sub'[st].queue \subseteq sub[st].queue \union {EOF}

LEMMA QuietKeepsNumbers == ASSUME RInv, Quiet PROVE Numbered'
<1> SUFFICES ASSUME NEW st \in Streams
             PROVE  /\ offered'[st] <= published'
                    /\ \A it \in sub'[st].queue : it.pos <= published'
                    /\ Distinct(sub'[st].queue)
  BY DEF Numbered
<1>1. published \in Nat /\ published' = published /\ offered' = offered
  BY BoundAssumption DEF RInv, IInv, TypeOK, Quiet
<1>2. sub'[st].queue \subseteq sub[st].queue \union {EOF}
  BY DEF Quiet
<1>3. offered[st] <= published /\ (\A it \in sub[st].queue : it.pos <= published)
      /\ Distinct(sub[st].queue)
  BY DEF RInv, Numbered
<1>4. Distinct(sub'[st].queue)
  BY <1>2, <1>3, EOFIsOrdinary DEF Distinct
<1> QED BY <1>1, <1>2, <1>3, <1>4, EOFIsOrdinary

LEMMA CloseIsQuiet ==
  ASSUME RInv, NEW S \in SUBSET Sessions,
         sub' = [st \in Streams |-> CloseEffect(S, sub[st])],
         UNCHANGED <<published, offered>>
  PROVE  Quiet
<1> SUFFICES ASSUME NEW st \in Streams
             PROVE  sub'[st].queue \subseteq sub[st].queue \union {EOF}
  BY DEF Quiet
<1>1. SubOK(sub[st]) /\ sub'[st] = CloseEffect(S, sub[st])
  BY DEF RInv, IInv, Subs
<1> QED BY <1>1, CloseEffectOK

\* The least item of a buffer is in it, and not above any other.
LEMMA OldestIsLeast ==
  ASSUME RInv, NEW st \in Streams, sub[st].queue # {}
  PROVE  /\ Oldest(sub[st].queue) \in sub[st].queue
         /\ \A it \in sub[st].queue : Oldest(sub[st].queue).pos <= it.pos
<1>1. \A x \in sub[st].queue : x.pos \in Nat
  BY BoundAssumption DEF RInv, IInv, Subs, SubOK, SubType, ItemType
<1>2. \E x \in sub[st].queue : \A y \in sub[st].queue : x.pos <= y.pos
  BY <1>1, LeastExists
<1> QED BY <1>2 DEF Oldest

-----------------------------------------------------------------------------
(* The steps of the bus as steps of the control stream of one subscriber.  *)

CSStep(st) == CS(st)!CSNext \/ UNCHANGED CS(st)!csVars

\* Nothing the control stream of st sees has changed.
LEMMA Stutters ==
  ASSUME NEW st \in Streams, UNCHANGED <<sourceOf, invalidated>>,
         offered'[st] = offered[st], handed'[st] = handed[st],
         sub'[st].closed = sub[st].closed, Pending(sub'[st]) = Pending(sub[st])
  PROVE  CSStep(st)
  BY DEF CSStep, CS!csVars, Pending

\* The stream ends.
LEMMA Ends ==
  ASSUME NEW st \in Streams, offered'[st] = offered[st], handed'[st] = handed[st],
         sub'[st].closed, Pending(sub'[st]) = {}
  PROVE  CSStep(st)
  BY DEF CSStep, CS!CSNext, CS!EndStream, Pending

\* Sessions change hands; of those closed before nothing is buffered.
LEMMA Changes ==
  ASSUME RInv, NEW st \in Streams, NEW S \in SUBSET Sessions,
         \A s \in S : s \notin invalidated => s \in invalidated' \/ sourceOf'[s] # sourceOf[s],
         offered'[st] = offered[st], handed'[st] = handed[st],
         Withdraws(sub[st], sub'[st], S)
  PROVE  CSStep(st)
<1>1. CASE sub'[st].closed /\ Pending(sub'[st]) = {}
  BY <1>1, Ends
<1>2. CASE /\ sub'[st].closed = sub[st].closed
           /\ Pending(sub'[st]) = {e \in Pending(sub[st]) : e.session \notin S}
  <2> DEFINE T == {s \in S : s \notin invalidated}
             life == [s \in Sessions |-> <<sourceOf[s], s \in invalidated>>]
  <2>0. \A it \in sub[st].queue : it.session \notin invalidated
    BY DEF RInv, IInv, NoClosedLifecycleBuffered
  <2>1. \A e \in Pending(sub[st]) : e.session \notin invalidated
    BY <2>0 DEF Pending
  <2>2. Pending(sub'[st]) = {e \in Pending(sub[st]) : e.session \notin T}
    BY <1>2, <2>1
  <2>3. T \in SUBSET {s \in Sessions : life'[s] # life[s]}
    OBVIOUS
  <2>4. CS(st)!ChangeHands
    BY <1>2, <2>2, <2>3 DEF CS!ChangeHands, Pending
  <2> QED BY <2>4 DEF CSStep, CS!CSNext
<1> QED BY <1>1, <1>2 DEF Withdraws

LEMMA ClosingSteps ==
  ASSUME RInv, NEW st \in Streams, NEW S \in SUBSET Sessions,
         \A s \in S : s \notin invalidated => s \in invalidated' \/ sourceOf'[s] # sourceOf[s],
         UNCHANGED <<offered, handed>>,
         sub' = [x \in Streams |-> CloseEffect(S, sub[x])]
  PROVE  CSStep(st)
<1>1. SubOK(sub[st]) /\ sub'[st] = CloseEffect(S, sub[st])
  BY DEF RInv, IInv, Subs
<1>2. Withdraws(sub[st], sub'[st], S)
  BY <1>1, CloseEffectPending
<1> QED BY <1>2, Changes

\* An event is taken: control events are handed over oldest first.
LEMMA TakeSteps ==
  ASSUME RInv, NEW st \in Streams, NEW x \in Streams, TakeOldest(st),
         UNCHANGED <<sourceOf, invalidated, offered>>
  PROVE  CSStep(x)
<1> DEFINE it == Oldest(sub[st].queue)
<1>1. /\ it \in sub[st].queue
      /\ \A y \in sub[st].queue : it.pos <= y.pos
  BY OldestIsLeast DEF TakeOldest
<1>2. sub \in [Streams -> SubType] /\ handed \in [Streams -> 0..MaxEvents]
  BY DEF RInv, IInv, TypeOK
<1>3. /\ sub' = [sub EXCEPT ![st] = [sub[st] EXCEPT !.queue = @ \ {it}]]
      /\ handed' = IF IsControl(it) THEN [handed EXCEPT ![st] = it.pos] ELSE handed
  BY DEF TakeOldest, Take
<1> HIDE DEF it
<1>4. CASE x # st
  <2>1. sub'[x] = sub[x] /\ handed'[x] = handed[x]
    BY <1>2, <1>3, <1>4
  <2> QED BY <2>1, Stutters
<1>5. CASE x = st
  <2>1. sub'[st].queue = sub[st].queue \ {it} /\ sub'[st].closed = sub[st].closed
    BY <1>2, <1>3 DEF SubType
  <2>2. CASE ~IsControl(it)
    <3>1. Pending(sub'[st]) = Pending(sub[st])
      BY <2>1, <2>2 DEF Pending
    <3> QED BY <1>3, <1>5, <2>1, <2>2, <3>1, Stutters
  <2>3. CASE IsControl(it)
    <3> DEFINE e == [id |-> it.pos, session |-> it.session]
    <3>1. e \in Pending(sub[st]) /\ \A o \in Pending(sub[st]) : e.id <= o.id
      BY <1>1, <2>3 DEF Pending
    <3>2. handed'[st] = e.id
      BY <1>2, <1>3, <2>3
    <3>3. Pending(sub'[st]) = Pending(sub[st]) \ {e}
      <4>1. \A y \in sub[st].queue : IsControl(y) /\ y.pos = it.pos => y = it
        BY <1>1, <2>3 DEF RInv, Numbered, Distinct
      <4>2. {y \in sub'[st].queue : IsControl(y)}
              = {y \in sub[st].queue : IsControl(y)} \ {it}
        BY <2>1
      <4> QED BY <4>1, <4>2 DEF Pending
    <3> HIDE DEF e
    <3>4. CS(st)!HandOver
      BY <2>1, <3>1, <3>2, <3>3 DEF CS!HandOver, Pending
    <3> QED BY <1>5, <3>4 DEF CSStep, CS!CSNext
  <2> QED BY <2>2, <2>3
<1> QED BY <1>4, <1>5

\* A published event is offered to every target, or concerns no one.
LEMMA PublishSteps ==
  ASSUME RInv, NEW e \in inflight, NEW withSource \in BOOLEAN, Publish(e, withSource)
  PROVE  Numbered' /\ \A st \in Streams : CSStep(st)
<1> DEFINE source == IF withSource THEN e.src ELSE None
<1>1. PICK s \in {e.session, objId[e.src]} :
        /\ IF SourceIsCurrent(s, e, source)
           THEN LET it == Item(published + 1, s, source, e.kind)
                    after == [st \in Targets(s) |-> Pushed(sub[st], it)]
                IN /\ published' = published + 1
                   /\ sub' = [st \in Streams |->
                        IF st \notin Targets(s) THEN sub[st]
                        ELSE IF after[st].closed THEN Unsubscribed(after[st])
                        ELSE after[st]]
                   /\ offered' = [st \in Streams |->
                        IF st \in Targets(s) /\ IsControl(it) THEN it.pos
                        ELSE offered[st]]
           ELSE UNCHANGED <<published, sub, offered>>
        /\ UNCHANGED <<sourceOf, invalidated, readVars>>
  BY DEF Publish
<1> DEFINE it == Item(published + 1, s, source, e.kind)
<1>2. /\ e \in EventType /\ s \in Sessions /\ source \in Sources \union {None}
      /\ published \in Nat /\ published + 1 <= MaxEvents /\ MaxEvents \in Nat
  <2>1. /\ e \in EventType /\ objId \in [Sources -> Sessions] /\ emitted \in 0..MaxEvents
        /\ published \in 0..emitted
        /\ IsFiniteSet(inflight) /\ published + Cardinality(inflight) <= emitted
    BY DEF RInv, IInv, TypeOK, Counted
  <2>2. Cardinality(inflight) \in Nat /\ Cardinality(inflight) # 0
    BY <2>1, FS_CardinalityType, FS_EmptySet
  <2> QED BY <2>1, <2>2, BoundAssumption DEF EventType
<1> HIDE DEF source
<1>3. handed' = handed /\ UNCHANGED <<sourceOf, invalidated>>
  BY <1>1 DEF readVars
<1>4. CASE ~SourceIsCurrent(s, e, source)
  <2>1. UNCHANGED <<published, sub, offered>>
    BY <1>1, <1>4
  <2>2. Quiet
    BY <2>1 DEF Quiet
  <2> QED BY <1>3, <2>1, <2>2, QuietKeepsNumbers, Stutters
<1>5. CASE SourceIsCurrent(s, e, source)
  <2>1. /\ published' = published + 1
        /\ sub' = [st \in Streams |->
                     IF st \in Targets(s) THEN AfterPush(sub[st], it) ELSE sub[st]]
        /\ offered' = [st \in Streams |->
                         IF st \in Targets(s) /\ IsControl(it) THEN it.pos
                         ELSE offered[st]]
    BY <1>1, <1>5 DEF AfterPush
  <2>2. it \in ItemType /\ it.pos = published + 1 /\ it.session = s
    BY <1>2 DEF Item, ItemType, EventType
  <2> HIDE DEF it
  <2>3. ASSUME NEW st \in Streams
        PROVE  /\ offered[st] <= published /\ Distinct(sub[st].queue)
               /\ \A x \in sub[st].queue : x.pos <= published /\ x.pos \in Nat
               /\ offered[st] \in Nat /\ SubOK(sub[st])
    BY BoundAssumption DEF RInv, Numbered, IInv, TypeOK, Subs, SubType, ItemType
  <2>4. ASSUME NEW st \in Targets(s)
        PROVE  /\ sub'[st] = AfterPush(sub[st], it) /\ st \in Streams
               /\ sub[st].registered /\ ~sub[st].closed
               /\ sub'[st].queue \subseteq sub[st].queue \union {it, EOF}
               /\ Accepts(sub[st], sub'[st], it)
    <3>1. st \in Streams /\ sub[st].registered /\ sub[st].scope \in {it.session, Global}
      BY <2>2 DEF Targets
    <3>2. SubOK(sub[st]) /\ ~sub[st].closed
      BY <2>3, <3>1 DEF SubOK
    <3>3. sub'[st] = AfterPush(sub[st], it)
      BY <2>1, <3>1
    <3> QED BY <3>1, <3>2, <3>3, <2>2, PushedOK, PushPending
  <2>5. Numbered'
    <3> SUFFICES ASSUME NEW st \in Streams
                 PROVE  /\ offered'[st] <= published'
                        /\ \A x \in sub'[st].queue : x.pos <= published'
                        /\ Distinct(sub'[st].queue)
      BY DEF Numbered
    <3>1. CASE st \notin Targets(s)
      <4>1. sub'[st] = sub[st] /\ offered'[st] = offered[st]
        BY <2>1, <3>1
      <4> QED BY <1>2, <2>1, <2>3, <4>1
    <3>2. CASE st \in Targets(s)
      <4>1. offered'[st] \in {offered[st], published + 1}
        BY <2>1, <2>2
      <4>2. sub'[st].queue \subseteq sub[st].queue \union {it, EOF}
        BY <2>4, <3>2
      <4>3. \A x \in sub'[st].queue : x.pos <= published + 1
        BY <4>2, <2>2, <2>3, <1>2, EOFIsOrdinary
      <4>4. Distinct(sub'[st].queue)
        BY <4>2, <2>2, <2>3, <1>2, EOFIsOrdinary DEF Distinct
      <4> QED BY <4>1, <4>3, <4>4, <2>1, <2>3, <1>2
    <3> QED BY <3>1, <3>2
  <2>6. ASSUME NEW st \in Streams PROVE CSStep(st)
    <3>1. CASE st \notin Targets(s)
      <4>1. sub'[st] = sub[st] /\ offered'[st] = offered[st]
        BY <2>1, <3>1
      <4> QED BY <1>3, <4>1, Stutters
    <3>2. CASE st \in Targets(s) /\ ~IsControl(it)
      <4>1. offered'[st] = offered[st]
        BY <2>1, <3>2
      <4>2. ~sub'[st].closed /\ Pending(sub'[st]) = Pending(sub[st]) /\ ~sub[st].closed
        BY <2>4, <3>2 DEF Accepts
      <4>3. sub'[st].closed = FALSE /\ sub[st].closed = FALSE
        <5>1. SubOK(sub[st]) /\ sub'[st].closed \in BOOLEAN
          <6>1. SubOK(AfterPush(sub[st], it))
            BY <2>2, <2>3, <2>4, <3>2, PushedOK DEF Targets
          <6> QED BY <2>3, <2>4, <3>2, <6>1 DEF SubOK, SubType
        <5> QED BY <4>2, <5>1 DEF SubOK, SubType
      <4> QED BY <1>3, <4>1, <4>2, <4>3, Stutters
    <3>3. CASE st \in Targets(s) /\ IsControl(it)
      <4>1. offered'[st] = published + 1
        BY <2>1, <2>2, <3>3
      <4>2. /\ ~sub[st].closed
            /\ \/ sub'[st].closed /\ Pending(sub'[st]) = {}
               \/ /\ ~sub'[st].closed
                  /\ Pending(sub'[st]) = Pending(sub[st])
                        \union {[id |-> it.pos, session |-> it.session]}
        BY <2>4, <3>3 DEF Accepts
      <4>3. offered'[st] > offered[st]
        BY <4>1, <2>3, <1>2
      <4>4. CS(st)!Offer(s)
        BY <1>3, <2>2, <4>1, <4>2, <4>3 DEF CS!Offer, Pending
      <4> QED BY <1>2, <4>4 DEF CSStep, CS!CSNext
    <3> QED BY <3>1, <3>2, <3>3
  <2> QED BY <2>5, <2>6
<1> QED BY <1>4, <1>5

-----------------------------------------------------------------------------
(* One lemma for each of the other actions.                                *)

\* What every step has to show.
Follows == Numbered' /\ \A st \in Streams : CSStep(st)

\* A step that only touches what no control stream sees.
LEMMA UnseenStep ==
  ASSUME RInv, UNCHANGED <<sourceOf, invalidated, published, offered, handed>>,
         \A st \in Streams : /\ sub'[st].queue = sub[st].queue
                            /\ sub'[st].closed = sub[st].closed
  PROVE  Follows
<1>1. Quiet
  BY DEF Quiet
<1>2. ASSUME NEW st \in Streams PROVE CSStep(st)
  <2>1. Pending(sub'[st]) = Pending(sub[st])
    BY DEF Pending
  <2> QED BY <2>1, Stutters
<1> QED BY <1>1, <1>2, QuietKeepsNumbers DEF Follows

\* register_session with no lifecycle to replace: only the owner changes.
LEMMA OwnerStep ==
  ASSUME RInv, UNCHANGED <<sub, published, offered, handed>>
  PROVE  Follows
<1>1. Quiet
  BY DEF Quiet
<1>2. ASSUME NEW st \in Streams PROVE CSStep(st)
  <2>1. Withdraws(sub[st], sub'[st], {})
    BY DEF Withdraws
  <2> QED BY <2>1, Changes
<1> QED BY <1>1, <1>2, QuietKeepsNumbers DEF Follows

LEMMA CloseSetStep ==
  ASSUME RInv, NEW S \in SUBSET Sessions,
         \A s \in S : s \notin invalidated => s \in invalidated' \/ sourceOf'[s] # sourceOf[s],
         UNCHANGED <<published, offered, handed>>,
         sub' = [x \in Streams |-> CloseEffect(S, sub[x])]
  PROVE  Follows
<1>1. Numbered'
  BY CloseIsQuiet, QuietKeepsNumbers
<1>2. ASSUME NEW st \in Streams PROVE CSStep(st)
  BY ClosingSteps
<1> QED BY <1>1, <1>2 DEF Follows

LEMMA RegisterFollows ==
  ASSUME RInv, NEW s \in Sessions, NEW src \in Sources, RegisterSession(s, src)
  PROVE  Follows
<1>1. UNCHANGED <<published, offered, handed>> /\ sourceOf' = [sourceOf EXCEPT ![s] = src]
  BY DEF RegisterSession, readVars
<1>2. CASE sourceOf[s] \notin {None, src}
  <2>1. sub' = [st \in Streams |-> CloseEffect({s}, sub[st])]
    BY <1>2 DEF RegisterSession
  <2>2. sourceOf'[s] # sourceOf[s]
    BY <1>1, <1>2 DEF RInv, IInv, TypeOK
  <2> QED BY <1>1, <2>1, <2>2, CloseSetStep
<1>3. CASE sourceOf[s] \in {None, src}
  BY <1>1, <1>3, OwnerStep DEF RegisterSession
<1> QED BY <1>2, <1>3

LEMMA CloseSessionFollows ==
  ASSUME RInv, NEW s \in Sessions, NEW src \in Sources, CloseSession(s, src)
  PROVE  Follows
<1>1. /\ UNCHANGED <<published, offered, handed>> /\ s \in invalidated'
      /\ sub' = [st \in Streams |-> CloseEffect({s}, sub[st])]
  BY DEF CloseSession, readVars
<1> QED BY <1>1, CloseSetStep

LEMMA StopFollows == ASSUME RInv, StopGateway PROVE Follows
<1> DEFINE bound == {s \in Sessions : sourceOf[s] # None}
<1>1. /\ UNCHANGED <<published, offered, handed>>
      /\ invalidated' = invalidated \union bound
      /\ sub' = [st \in Streams |-> CloseEffect(bound, sub[st])]
  BY DEF StopGateway, readVars
<1> QED BY <1>1, CloseSetStep

LEMMA CloseAllFollows == ASSUME RInv, CloseAll PROVE Follows
<1>1. /\ UNCHANGED <<published, offered, handed>>
      /\ sub' = [st \in Streams |->
                   IF sub[st].registered THEN Unsubscribed(sub[st]) ELSE sub[st]]
  BY DEF CloseAll, readVars
<1>2. ASSUME NEW st \in Streams
      PROVE  CSStep(st) /\ sub'[st].queue \subseteq sub[st].queue \union {EOF}
  <2>1. SubOK(sub[st])
    BY DEF RInv, IInv, Subs
  <2>2. CASE sub[st].registered
    <3>1. sub'[st] = Unsubscribed(sub[st])
      BY <1>1, <2>2
    <3>2. SubOK(sub'[st]) /\ sub'[st].closed /\ sub'[st].queue \subseteq {EOF}
      BY <2>1, <3>1, UnsubscribedOK
    <3>3. Pending(sub'[st]) = {}
      BY <3>2, ClosedHasNone
    <3> QED BY <1>1, <3>2, <3>3, Ends
  <2>3. CASE ~sub[st].registered
    <3>1. sub'[st] = sub[st]
      BY <1>1, <2>3
    <3>2. Withdraws(sub[st], sub'[st], {})
      BY <3>1 DEF Withdraws
    <3> QED BY <1>1, <3>1, <3>2, Changes
  <2> QED BY <2>2, <2>3
<1>3. Quiet
  BY <1>1, <1>2 DEF Quiet
<1> QED BY <1>2, <1>3, QuietKeepsNumbers DEF Follows

LEMMA SubscribeFollows ==
  ASSUME RInv, NEW st \in Streams, NEW scope \in Sessions \union {Global},
         Subscribe(st, scope)
  PROVE  Follows
<1>1. sub \in [Streams -> SubType]
  BY DEF RInv, IInv, TypeOK
<1>2. /\ UNCHANGED <<sourceOf, invalidated, published, offered, handed>>
      /\ sub' = [sub EXCEPT ![st].scope = scope, ![st].registered = TRUE]
  BY DEF Subscribe
<1>3. ASSUME NEW x \in Streams
      PROVE  sub'[x].queue = sub[x].queue /\ sub'[x].closed = sub[x].closed
  BY <1>1, <1>2 DEF SubType
<1> QED BY <1>2, <1>3, UnseenStep

\* An item is taken from the buffer of st.
LEMMA TakeFollows ==
  ASSUME RInv, NEW st \in Streams, TakeOldest(st),
         UNCHANGED <<sourceOf, invalidated, published, offered>>
  PROVE  Follows
<1>1. sub \in [Streams -> SubType]
  BY DEF RInv, IInv, TypeOK
<1>2. \A x \in Streams : sub'[x].queue \subseteq sub[x].queue
  BY <1>1 DEF TakeOldest, Take, SubType
<1>3. Quiet
  BY <1>2 DEF Quiet
<1>4. ASSUME NEW x \in Streams PROVE CSStep(x)
  BY TakeSteps
<1> QED BY <1>3, <1>4, QuietKeepsNumbers DEF Follows

LEMMA ReadFollows == ASSUME RInv, NEW st \in Streams, Read(st) PROVE Follows
<1>1. UNCHANGED <<sourceOf, invalidated, published, offered>>
  BY DEF Read
<1>2. CASE sub[st].hello /\ Take(st, Hello, [sub[st] EXCEPT !.hello = FALSE])
  <2>1. sub \in [Streams -> SubType]
    BY DEF RInv, IInv, TypeOK
  <2>2. handed' = handed /\ sub' = [sub EXCEPT ![st] = [sub[st] EXCEPT !.hello = FALSE]]
    BY <1>2 DEF Take, IsControl, Hello, Item
  <2>3. ASSUME NEW x \in Streams
        PROVE  sub'[x].queue = sub[x].queue /\ sub'[x].closed = sub[x].closed
    BY <2>1, <2>2 DEF SubType
  <2> QED BY <1>1, <2>2, <2>3, UnseenStep
<1>3. CASE ~sub[st].hello /\ TakeOldest(st)
  BY <1>1, <1>3, TakeFollows
<1>4. CASE UNCHANGED <<sub, hand, handed>>
  BY <1>1, <1>4, UnseenStep
<1> QED BY <1>2, <1>3, <1>4 DEF Read

LEMMA FinishFollows == ASSUME RInv, NEW st \in Streams, Finish(st) PROVE Follows
<1>1. sub \in [Streams -> SubType] /\ SubOK(sub[st])
  BY DEF RInv, IInv, TypeOK, Subs
<1>2. /\ UNCHANGED <<sourceOf, invalidated, published, offered, handed>>
      /\ sub' = [sub EXCEPT ![st] = Unsubscribed(sub[st])]
  BY DEF Finish
<1>3. ASSUME NEW x \in Streams
      PROVE  CSStep(x) /\ sub'[x].queue \subseteq sub[x].queue \union {EOF}
  <2>1. CASE x = st
    <3>1. SubOK(sub'[x]) /\ sub'[x].closed /\ sub'[x].queue \subseteq {EOF}
      BY <1>1, <1>2, <2>1, UnsubscribedOK
    <3>2. Pending(sub'[x]) = {}
      BY <3>1, ClosedHasNone
    <3> QED BY <1>2, <3>1, <3>2, Ends
  <2>2. CASE x # st
    <3>1. sub'[x] = sub[x]
      BY <1>1, <1>2, <2>2
    <3> QED BY <1>2, <3>1, Stutters
  <2> QED BY <2>1, <2>2
<1>4. Quiet
  BY <1>2, <1>3 DEF Quiet
<1> QED BY <1>3, <1>4, QuietKeepsNumbers DEF Follows

-----------------------------------------------------------------------------
LEMMA InitFollows == Init => Numbered /\ \A st \in Streams : CS(st)!CSInit
<1> SUFFICES ASSUME Init, NEW st \in Streams
             PROVE  /\ offered[st] <= published
                    /\ \A it \in sub[st].queue : it.pos <= published
                    /\ Distinct(sub[st].queue)
                    /\ CS(st)!CSInit
  BY DEF Numbered
<1>1. sub[st].queue = {} /\ ~sub[st].closed /\ offered[st] = 0 /\ handed[st] = 0
      /\ published = 0 /\ sub[st].closed = FALSE
  BY DEF Init, NewSub
<1> QED BY <1>1 DEF CS!CSInit, Distinct

LEMMA NextFollows == RInv /\ [Next]_vars => Follows
<1> SUFFICES ASSUME RInv, [Next]_vars PROVE Follows
  OBVIOUS
<1>1. ASSUME NEW s \in Sessions, NEW src \in Sources, RegisterSession(s, src)
      PROVE  Follows
  BY <1>1, RegisterFollows
<1>2. ASSUME NEW s \in Sessions, NEW src \in Sources, CloseSession(s, src)
      PROVE  Follows
  BY <1>2, CloseSessionFollows
<1>3. ASSUME NEW s \in Sessions, NEW src \in Sources, AdvanceLifecycle(src, s)
      PROVE  Follows
  BY <1>3, UnseenStep DEF AdvanceLifecycle, busVars, readVars
<1>4. CASE StopGateway
  BY <1>4, StopFollows
<1>5. CASE CloseAll
  BY <1>5, CloseAllFollows
<1>6. ASSUME NEW src \in Sources, NEW kind \in {"ordinary", "control"},
             NEW tagged \in BOOLEAN, Emit(src, kind, tagged)
      PROVE  Follows
  BY <1>6, UnseenStep DEF Emit, busVars, readVars
<1>7. ASSUME NEW e \in inflight, NEW withSource \in BOOLEAN, Publish(e, withSource)
      PROVE  Follows
  BY <1>7, PublishSteps DEF Follows
<1>8. ASSUME NEW st \in Streams, NEW scope \in Sessions \union {Global},
             Subscribe(st, scope)
      PROVE  Follows
  BY <1>8, SubscribeFollows
<1>9. ASSUME NEW st \in Streams, ReaderStep(st) \/ Heartbeat(st) \/ Disconnect(st)
      PROVE  Follows
  <2>1. CASE Read(st)
    BY <2>1, ReadFollows
  <2>2. CASE Wake(st)
    BY <2>2, TakeFollows DEF Wake
  <2>3. CASE Forward(st) \/ Heartbeat(st)
    BY <2>3, UnseenStep DEF Forward, Heartbeat, busVars
  <2>4. CASE EndOfStream(st) \/ Disconnect(st)
    BY <2>4, FinishFollows DEF EndOfStream, Disconnect
  <2> QED BY <1>9, <2>1, <2>2, <2>3, <2>4 DEF ReaderStep
<1>10. CASE UNCHANGED vars
  BY <1>10, UnseenStep DEF vars, busVars, readVars
<1> QED BY <1>1, <1>2, <1>3, <1>4, <1>5, <1>6, <1>7, <1>8, <1>9, <1>10 DEF Next

\* However small subscriber_queue_size and however slow the transport, every
\* control event published to a subscriber reaches its transport loop, in order,
\* unless its session was closed or the stream was ended: push_nowait's
\* eviction and overflow and close_session's withdrawal never leave a gap.
THEOREM NoGaps == Spec => ControlStreamHasNoGaps
<1>1. Init => Numbered /\ \A st \in Streams : CS(st)!CSInit
  BY InitFollows
<1>2. IInv /\ Numbered /\ [Next]_vars
        => Numbered' /\ \A st \in Streams : CS(st)!CSNext \/ UNCHANGED CS(st)!csVars
  BY NextFollows DEF RInv, Follows, CSStep
<1>3. IInv /\ Numbered /\ [Next]_vars
        => Numbered' /\ [\A st \in Streams : CS(st)!CSNext \/ UNCHANGED CS(st)!csVars]_vars
  BY <1>2
<1> QED BY <1>1, <1>3, Invariance, PTL DEF Spec, ControlStreamHasNoGaps

-----------------------------------------------------------------------------
(* The life of a session.                                                  *)

\* Where an object is after it left the registry and before it is closed.
Cleaning(o) == phase[o] \in {"removed", "draining", "drained", "closing"}

\* The fence of an object being closed is its id's closing mark, or, when an
\* archive that lost the race against a stop has dropped the mark, the stop.
Fence ==
  /\ \A o \in Objects : Cleaning(o) => closing \/ (server = "closing" /\ stopping = o)
  /\ \A o \in Objects : Cleaning(o) /\ loader = "archive"
                          => server = "closing" /\ stopping = o
  /\ loader = "archive" /\ installed # Nothing => closing
  /\ \A o \in Objects : phase[o] \in {"loading", "discarded"} <=> loader = o

\* Work belongs to an object that can still be waited for.
WorkIsHere ==
  \A t \in Tasks :
    /\ task[t].state # "free" => task[t].obj \in Objects
    /\ Active(t) => phase[task[t].obj] \in {"open", "removed", "draining"}

\* Only a task that is over is flagged; an unflagged one has no terminal event.
Flags ==
  \A t \in Tasks :
    /\ task[t].flagged => task[t].state = "ended"
    /\ IF task[t].flagged THEN task[t].terminals \in {0, 1} ELSE task[t].terminals = 0

\* An interrupt under way names the operation it took over.
Claims == \A i \in Interrupters : intr[i].task # Nothing => intr[i].op \in Ops

GInv ==
  /\ SessionTypeOK /\ Fence /\ OneObjectPerSession /\ WorkIsHere /\ Flags /\ Claims
  /\ OperationsAreUnique

LEMMA InitGInv == SessionInit => GInv
<1> SUFFICES ASSUME SessionInit PROVE GInv
  OBVIOUS
<1>1. NoTask \in TaskType /\ NoTask.state = "free" /\ ~NoTask.flagged /\ NoTask.terminals = 0
  BY DEF NoTask, TaskType
<1>2. SessionTypeOK
  BY <1>1, NothingAssumption DEF SessionInit, SessionTypeOK, Phases, Idle
<1>3. Fence /\ OneObjectPerSession
  BY NothingAssumption, DistinctAssumption
  DEF SessionInit, Fence, Cleaning, OneObjectPerSession, Alive
<1>4. WorkIsHere /\ Flags /\ Claims /\ OperationsAreUnique
  BY <1>1 DEF SessionInit, WorkIsHere, Flags, Claims, OperationsAreUnique, Active, Idle
<1> QED BY <1>2, <1>3, <1>4 DEF GInv

\* The steps that only move the session: the work's invariants are kept when
\* no active task's object leaves the phases it can work in.
LEMMA SessionStep ==
  ASSUME GInv, UNCHANGED workVars,
         SessionTypeOK', Fence', OneObjectPerSession',
         \A o \in Objects : phase[o] \in {"open", "removed", "draining"}
                              => phase'[o] \in {"open", "removed", "draining"}
  PROVE  GInv'
<1>1. WorkIsHere'
  BY DEF GInv, WorkIsHere, workVars, Active
<1>2. Flags' /\ Claims' /\ OperationsAreUnique'
  BY DEF GInv, Flags, Claims, OperationsAreUnique, workVars, Active
<1> QED BY <1>1, <1>2 DEF GInv

USE DEF Cleaning

\* Objects are made and loaded one after the other.
LEMMA LoadSteps ==
  ASSUME GInv, NEW o \in Objects, Create(o) \/ Resume(o) \/ Install(o) \/ LoadFails(o)
                                  \/ Discard(o)
  PROVE  GInv'
<1>0. /\ phase \in [Objects -> Phases] /\ Nothing \notin Objects /\ o # "archive" /\ o # Nothing
      /\ Nothing # "archive"
  BY NothingAssumption, DistinctAssumption DEF GInv, SessionTypeOK
<1>1. CASE Create(o)
  <2>1. \A p \in Objects : phase[p] = "unused" /\ phase'[p] = (IF p = o THEN "open" ELSE "unused")
    BY <1>0, <1>1 DEF Create
  <2>2. SessionTypeOK'
    BY <1>0, <1>1, <2>1 DEF Create, GInv, SessionTypeOK, Phases, workVars
  <2>3. Fence' /\ OneObjectPerSession'
    BY <1>0, <1>1, <2>1 DEF Create, GInv, Fence, OneObjectPerSession, Alive
  <2> QED BY <1>1, <2>1, <2>2, <2>3, SessionStep DEF Create
<1>2. CASE Resume(o)
  <2>1. \A p \in Objects : phase'[p] = IF p = o THEN "loading" ELSE phase[p]
    BY <1>0, <1>2 DEF Resume
  <2>2. \A p \in Objects : ~Alive(p)
    BY <1>0, <1>2 DEF Resume, GInv, SessionTypeOK, Phases, Fence, Alive
  <2>3. SessionTypeOK'
    BY <1>0, <1>2, <2>1 DEF Resume, GInv, SessionTypeOK, Phases, workVars
  <2>4. OneObjectPerSession'
    BY <2>1, <2>2 DEF OneObjectPerSession, Alive
  <2>5. Fence'
    BY <1>0, <1>2, <2>1, <2>2 DEF Resume, GInv, Fence, Alive
  <2> QED BY <1>2, <2>1, <2>3, <2>4, <2>5, SessionStep DEF Resume
<1>3. CASE Install(o)
  <2>1. phase[o] = "loading" /\ loader = o /\ \A p \in Objects : Alive(p) => p = o
    BY <1>3 DEF Install, GInv, Fence, OneObjectPerSession, Alive
  <2>2. \A p \in Objects : p # o => phase'[p] = phase[p]
    BY <1>0, <1>3 DEF Install
  <2>3. phase'[o] \in {"open", "discarded"}
    BY <1>0, <1>3 DEF Install
  <2>4. SessionTypeOK'
    BY <1>0, <1>3, <2>1, <2>2, <2>3 DEF Install, GInv, SessionTypeOK, Phases, workVars, Alive
  <2>5. OneObjectPerSession'
    BY <2>1, <2>2 DEF OneObjectPerSession, Alive
  <2>6. Fence'
    BY <1>0, <1>3, <2>1, <2>2, <2>3 DEF Install, GInv, Fence, Alive
  <2> QED BY <1>3, <2>1, <2>2, <2>4, <2>5, <2>6, SessionStep DEF Install
<1>4. CASE LoadFails(o) \/ Discard(o)
  <2>1. /\ phase[o] \in {"loading", "discarded"} /\ loader = o
        /\ \A p \in Objects : Alive(p) => p = o
    BY <1>4 DEF LoadFails, Discard, GInv, Fence, OneObjectPerSession, Alive
  <2>2. /\ \A p \in Objects : p # o => phase'[p] = phase[p]
        /\ phase'[o] \in {"discarded", "closed"} /\ (phase'[o] = "discarded" <=> loader' = o)
        /\ loader' \in {o, Nothing}
    BY <1>0, <1>4, <2>1 DEF LoadFails, Discard
  <2>3. UNCHANGED <<installed, closing, server, stopping, held, workVars>>
        /\ phase' \in [Objects -> Phases]
    BY <1>0, <1>4 DEF LoadFails, Discard, Phases
  <2>4. SessionTypeOK'
    BY <1>0, <2>1, <2>2, <2>3 DEF GInv, SessionTypeOK, workVars
  <2>5. OneObjectPerSession'
    BY <2>1, <2>2 DEF OneObjectPerSession, Alive
  <2>6. Fence'
    BY <1>0, <2>1, <2>2, <2>3 DEF GInv, Fence, Alive
  <2> QED BY <2>1, <2>2, <2>3, <2>4, <2>5, <2>6, SessionStep
<1> QED BY <1>1, <1>2, <1>3, <1>4

\* Archiving and stopping remove the object that is open, and fence its id.
LEMMA RemovalSteps ==
  ASSUME GInv, BeginArchive \/ FailArchive \/ CommitArchive \/ Stop \/ Stopped \/ Start
               \/ Hold \/ Unhold
  PROVE  GInv'
<1>0. /\ phase \in [Objects -> Phases] /\ Nothing \notin Objects /\ Nothing # "archive"
      /\ installed \in Objects \union {Nothing} /\ "archive" \notin Objects
      /\ \A o \in Objects : phase[o] = "open" <=> installed = o
  BY NothingAssumption, DistinctAssumption DEF GInv, SessionTypeOK
<1>1. CASE BeginArchive \/ FailArchive \/ Stopped \/ Start \/ Hold \/ Unhold
  <2>1. UNCHANGED <<installed, phase, workVars>>
    BY <1>1 DEF BeginArchive, FailArchive, Stopped, Start, Hold, Unhold
  <2>2. SessionTypeOK'
    BY <1>0, <1>1, <2>1
    DEF BeginArchive, FailArchive, Stopped, Start, Hold, Unhold, GInv, SessionTypeOK, workVars
  <2>3. OneObjectPerSession'
    BY <2>1 DEF GInv, OneObjectPerSession, Alive
  <2>4. Fence'
    BY <1>0, <1>1, <2>1
    DEF BeginArchive, FailArchive, Stopped, Start, Hold, Unhold, GInv, Fence
  <2> QED BY <2>1, <2>2, <2>3, <2>4, SessionStep
<1>2. ASSUME CommitArchive \/ Stop PROVE GInv'
  <2>1. \A o \in Objects : phase'[o] = IF o = installed THEN "removed" ELSE phase[o]
    BY <1>0, <1>2 DEF CommitArchive, Stop
  <2>2. \A o \in Objects : Alive(o) /\ installed # Nothing => o = installed
    BY <1>0 DEF GInv, OneObjectPerSession, Alive
  <2>3. installed' = Nothing /\ UNCHANGED workVars /\ phase' \in [Objects -> Phases]
    BY <1>0, <1>2 DEF CommitArchive, Stop, Phases
  <2>4. SessionTypeOK'
    BY <1>0, <1>2, <2>1, <2>3 DEF CommitArchive, Stop, GInv, SessionTypeOK, workVars
  <2>5. OneObjectPerSession'
    BY <1>0, <2>1, <2>2 DEF GInv, OneObjectPerSession, Alive
  <2>6. Fence'
    BY <1>0, <1>2, <2>1, <2>2, <2>3 DEF CommitArchive, Stop, GInv, Fence, Alive
  <2> QED BY <2>1, <2>3, <2>4, <2>5, <2>6, SessionStep
<1> QED BY <1>1, <1>2

\* Cancelling a task leaves it what it was, but for its state.
LEMMA CancelledType ==
  ASSUME NEW r \in TaskType
  PROVE  /\ Cancelled(r) \in TaskType
         /\ Cancelled(r).obj = r.obj /\ Cancelled(r).kind = r.kind
         /\ Cancelled(r).flagged = r.flagged /\ Cancelled(r).terminals = r.terminals
         /\ r.state \in {"free", "cancelled", "ended"} => Cancelled(r).state = r.state
         /\ r.state = "live" => Cancelled(r).state = "cancelled"
         /\ r.state = "releasing" => Cancelled(r).state = "ended"
  BY DEF TaskType, Cancelled, Ended

\* The object being closed is drained, closed and gone, under its fence.
LEMMA CleanupSteps ==
  ASSUME GInv, NEW o \in Objects, Cleanup(o) \/ Drained(o) \/ Close(o) \/ CloseReturns(o)
  PROVE  GInv'
<1>0. /\ phase \in [Objects -> Phases] /\ Nothing \notin Objects
      /\ Cleaning(o) /\ \A p \in Objects : Alive(p) => p = o
      /\ \A p \in Objects : p # o => phase'[p] = phase[p]
      /\ phase' \in [Objects -> Phases]
      /\ \A t \in Tasks : task[t] \in TaskType
  BY NothingAssumption
  DEF Cleanup, Drained, Close, CloseReturns, GInv, SessionTypeOK, OneObjectPerSession, Alive, Phases
<1>1. OneObjectPerSession'
  BY <1>0 DEF GInv, OneObjectPerSession, Alive
<1>2. phase'[o] \in {"draining", "drained", "closing", "closed"} /\ installed' = installed
      /\ (phase'[o] = "closed" <=> CloseReturns(o))
      /\ UNCHANGED <<server, stopping, loader, held, leases, intr>>
  BY <1>0 DEF Cleanup, Drained, Close, CloseReturns, workVars
<1>3. Fence'
  <2>1. installed = Nothing
    BY <1>0 DEF GInv, SessionTypeOK, Alive
  <2>2. phase[o] \notin {"loading", "discarded"} /\ loader # o
    BY <1>0 DEF GInv, Fence
  <2>3. \A p \in Objects : p # o => ~Alive(p)
    BY <1>0
  <2>4. closing' = TRUE \/ closing' = closing \/ phase'[o] = "closed"
    BY <1>2 DEF Cleanup, Drained, Close, CloseReturns
  <2> QED BY <1>0, <1>2, <2>1, <2>2, <2>3, <2>4 DEF GInv, Fence, Alive
<1>4. SessionTypeOK' /\ Claims'
  <2>1. closing' \in BOOLEAN /\ owner' \in [Ops -> Tasks \union Interrupters \union {Nothing}]
    BY DEF Cleanup, Drained, Close, CloseReturns, GInv, SessionTypeOK, workVars
  <2>2. task' \in [Tasks -> TaskType]
    BY <1>0, CancelledType DEF Cleanup, Drained, Close, CloseReturns, GInv, SessionTypeOK, workVars
  <2>3. \A p \in Objects : phase'[p] = "open" <=> installed' = p
    BY <1>0, <1>2 DEF GInv, SessionTypeOK
  <2> QED BY <1>0, <1>2, <2>1, <2>2, <2>3 DEF GInv, SessionTypeOK, Claims
<1>5. CASE Cleanup(o)
  <2>1. \A t \in Tasks : task'[t] = Cancelled(task[t])
    BY <1>5 DEF Cleanup
  <2>2. \A t \in Tasks :
          /\ task'[t].obj = task[t].obj /\ task'[t].kind = task[t].kind
          /\ task'[t].flagged = task[t].flagged /\ task'[t].terminals = task[t].terminals
          /\ task[t].state = "ended" => task'[t].state = "ended"
          /\ task'[t].state # "free" => task[t].state # "free"
          /\ task'[t].state \in {"live", "cancelled", "releasing"} => Active(t)
    BY <1>0, <2>1, CancelledType DEF Active, TaskType
  <2>3. phase'[o] = "draining" /\ UNCHANGED <<owner, intr>>
    BY <1>0, <1>5 DEF Cleanup
  <2>4. WorkIsHere'
    BY <1>0, <2>2, <2>3 DEF GInv, WorkIsHere, Active
  <2>5. Flags' /\ OperationsAreUnique'
    BY <2>2, <2>3 DEF GInv, Flags, OperationsAreUnique, Active
  <2> QED BY <1>1, <1>3, <1>4, <2>4, <2>5 DEF GInv
<1>6. CASE Drained(o) \/ Close(o) \/ CloseReturns(o)
  <2>1. UNCHANGED <<task, intr>> /\ (Drained(o) \/ UNCHANGED owner)
    BY <1>6 DEF Drained, Close, CloseReturns, workVars
  <2>2. \A t \in Tasks : Active(t) => task[t].obj # o
    BY <1>0, <1>6 DEF Drained, Close, CloseReturns, GInv, WorkIsHere
  <2>3. WorkIsHere'
    BY <1>0, <2>1, <2>2 DEF GInv, WorkIsHere, Active
  <2>4. Flags' /\ OperationsAreUnique'
    BY <2>1 DEF GInv, Flags, OperationsAreUnique, Active, Drained
  <2> QED BY <1>1, <1>3, <1>4, <2>3, <2>4 DEF GInv
<1> QED BY <1>5, <1>6

\* The steps that only move the work: the session's invariants are kept.
LEMMA WorkStep ==
  ASSUME GInv, UNCHANGED sessionVars,
         task' \in [Tasks -> TaskType], leases' \in SUBSET Tasks,
         owner' \in [Ops -> Tasks \union Interrupters \union {Nothing}],
         intr' \in [Interrupters -> [task : Tasks \union {Nothing}, op : Ops \union {Nothing}]],
         WorkIsHere', Flags', Claims', OperationsAreUnique'
  PROVE  GInv'
<1>1. SessionTypeOK'
  BY DEF GInv, SessionTypeOK, sessionVars
<1>2. Fence' /\ OneObjectPerSession'
  BY DEF GInv, Fence, OneObjectPerSession, Alive, sessionVars
<1> QED BY <1>1, <1>2 DEF GInv

\* What the record operators make of a task.
LEMMA EndedType ==
  ASSUME NEW r \in TaskType
  PROVE  /\ Ended(r) \in TaskType /\ Ended(r).state = "ended"
         /\ Ended(r).obj = r.obj /\ Ended(r).kind = r.kind
         /\ Ended(r).flagged = r.flagged /\ Ended(r).terminals = r.terminals
         /\ Terminated(r) \in TaskType /\ Terminated(r).flagged
         /\ Terminated(r).terminals \in {r.terminals, r.terminals + 1}
         /\ Terminated(r).obj = r.obj /\ Terminated(r).kind = r.kind
         /\ Terminated(r).state = r.state
<1>1. /\ Ended(r) \in TaskType /\ Ended(r).state = "ended"
      /\ Ended(r).obj = r.obj /\ Ended(r).kind = r.kind
      /\ Ended(r).flagged = r.flagged /\ Ended(r).terminals = r.terminals
  BY DEF Ended, TaskType
<1> DEFINE n == IF installed = r.obj THEN r.terminals + 1 ELSE r.terminals
<1>2. Terminated(r) = [r EXCEPT !.flagged = TRUE, !.terminals = n]
  BY DEF Terminated, TaskType
<1>3. n \in Nat /\ n \in {r.terminals, r.terminals + 1}
  BY DEF TaskType
<1> HIDE DEF n
<1>4. [r EXCEPT !.flagged = TRUE, !.terminals = n] \in TaskType
  BY <1>3 DEF TaskType
<1> QED BY <1>1, <1>2, <1>3, <1>4 DEF TaskType

\* A task is admitted: on the open object, under an id that is free.
LEMMA StartSteps ==
  ASSUME GInv, NEW t \in Tasks, NEW o \in Objects,
         \/ StartOperation(t, o) \/ StartStream(t, o)
         \/ \E x \in Ops : StartTurn(t, o, x)
  PROVE  GInv'
<1>0. /\ task[t].state = "free" /\ phase[o] = "open" /\ UNCHANGED <<intr, sessionVars>>
      /\ \E kind \in {"operation", "turn", "stream"} :
           /\ Started(t, o, kind)
           /\ kind = "turn" => \E x \in Ops : owner[x] = Nothing /\ owner' = [owner EXCEPT ![x] = t]
           /\ kind # "turn" => UNCHANGED owner
      /\ leases' \in SUBSET Tasks
  BY DEF StartOperation, StartStream, StartTurn, Admitted, GInv, SessionTypeOK
<1>1. PICK kind \in {"operation", "turn", "stream"} :
        /\ Started(t, o, kind)
        /\ kind = "turn" => \E x \in Ops : owner[x] = Nothing /\ owner' = [owner EXCEPT ![x] = t]
        /\ kind # "turn" => UNCHANGED owner
  BY <1>0
<1> DEFINE r == [NoTask EXCEPT !.state = "live", !.obj = o, !.kind = kind]
<1>2. /\ r \in TaskType /\ r.state = "live" /\ r.obj = o /\ r.kind = kind
      /\ ~r.flagged /\ r.terminals = 0
  BY DEF NoTask, TaskType
<1>3. task' = [task EXCEPT ![t] = r]
  BY <1>1 DEF Started
<1> HIDE DEF r
<1>4. task \in [Tasks -> TaskType]
      /\ owner \in [Ops -> Tasks \union Interrupters \union {Nothing}]
      /\ intr \in [Interrupters -> [task : Tasks \union {Nothing}, op : Ops \union {Nothing}]]
      /\ Nothing \notin Tasks \union Interrupters
  BY NothingAssumption DEF GInv, SessionTypeOK
<1>5. \A u \in Tasks : task'[u] = IF u = t THEN r ELSE task[u]
  BY <1>3, <1>4
<1>6. WorkIsHere'
  BY <1>0, <1>2, <1>5 DEF GInv, WorkIsHere, Active, sessionVars
<1>7. Flags' /\ Claims'
  BY <1>0, <1>2, <1>5 DEF GInv, Flags, Claims
<1>8. OperationsAreUnique'
  <2>1. \A y \in Ops : owner[y] # Nothing => owner'[y] = owner[y]
    BY <1>1, <1>4
  <2>2. kind = "turn" => \E y \in Ops : owner'[y] = t
    BY <1>1, <1>4
  <2>3. \A i \in Interrupters : owner[intr[i].op] = i /\ intr[i].task # Nothing
                                 => owner'[intr[i].op] = i
    BY <1>4, <2>1 DEF GInv, Claims
  <2>4. \A u \in Tasks : u # t /\ Active(u)' => Active(u)
    BY <1>5 DEF Active
  <2> QED BY <1>0, <1>2, <1>4, <1>5, <2>1, <2>2, <2>3, <2>4 DEF GInv, OperationsAreUnique
<1>9. task' \in [Tasks -> TaskType] /\ owner' \in [Ops -> Tasks \union Interrupters \union {Nothing}]
  BY <1>1, <1>2, <1>3, <1>4
<1> QED BY <1>0, <1>4, <1>6, <1>7, <1>8, <1>9, WorkStep

\* A task moves on; it gives its operation id back only when it is over.
LEMMA TaskMoves ==
  ASSUME GInv, NEW t \in Tasks, NEW n \in TaskType, task' = [task EXCEPT ![t] = n],
         n.obj = task[t].obj, n.kind = task[t].kind, Active(t),
         n.flagged => n.state = "ended",
         IF n.flagged THEN n.terminals \in {0, 1} ELSE n.terminals = 0,
         \/ UNCHANGED owner
         \/ owner' = FreeOps(t) /\ (n.state = "ended" \/ n.kind # "turn"),
         leases' \in SUBSET Tasks, UNCHANGED <<intr, sessionVars>>
  PROVE  GInv'
<1>1. /\ task \in [Tasks -> TaskType] /\ task' \in [Tasks -> TaskType]
      /\ \A u \in Tasks : task'[u] = IF u = t THEN n ELSE task[u]
      /\ owner \in [Ops -> Tasks \union Interrupters \union {Nothing}]
      /\ intr \in [Interrupters -> [task : Tasks \union {Nothing}, op : Ops \union {Nothing}]]
      /\ Nothing \notin Tasks \union Interrupters
  BY NothingAssumption DEF GInv, SessionTypeOK
<1>2. /\ owner' \in [Ops -> Tasks \union Interrupters \union {Nothing}]
      /\ \A x \in Ops : owner'[x] = owner[x] \/ (owner[x] = t /\ owner' = FreeOps(t))
  BY <1>1 DEF FreeOps
<1>3. WorkIsHere'
  BY <1>1 DEF GInv, WorkIsHere, Active, sessionVars
<1>4. Flags' /\ Claims'
  BY <1>1 DEF GInv, Flags, Claims
<1>5. OperationsAreUnique'
  <2> SUFFICES ASSUME NEW u \in Tasks, Active(u)', task'[u].kind = "turn"
               PROVE  \/ \E x \in Ops : owner'[x] = u
                      \/ \E i \in Interrupters : intr[i].task = u /\ owner'[intr[i].op] = i
    BY DEF OperationsAreUnique
  <2>1. Active(u) /\ task[u].kind = "turn"
    BY <1>1 DEF Active
  <2>2. u = t => UNCHANGED owner
    BY <1>1 DEF Active
  <2>3. CASE \E x \in Ops : owner[x] = u
    BY <1>2, <2>2, <2>3
  <2>4. CASE \E i \in Interrupters : intr[i].task = u /\ owner[intr[i].op] = i
    <3>1. PICK i \in Interrupters : intr[i].task = u /\ owner[intr[i].op] = i
      BY <2>4
    <3>2. intr[i].op \in Ops /\ i # t
      BY <1>1, <3>1, DistinctAssumption DEF GInv, Claims
    <3> QED BY <1>2, <3>1, <3>2
  <2> QED BY <2>1, <2>3, <2>4 DEF GInv, OperationsAreUnique
<1> QED BY <1>1, <1>2, <1>3, <1>4, <1>5, WorkStep

\* Whether a task's turn has had its terminal event, when it ends with one.
LEMMA LastWord ==
  ASSUME GInv, NEW t \in Tasks, task[t].state # "ended"
  PROVE  LET n == Ended(Terminated(task[t]))
         IN /\ n \in TaskType /\ n.state = "ended" /\ n.flagged /\ n.terminals \in {0, 1}
            /\ n.obj = task[t].obj /\ n.kind = task[t].kind
<1>1. task[t] \in TaskType /\ ~task[t].flagged /\ task[t].terminals = 0
  BY DEF GInv, SessionTypeOK, Flags
<1>2. /\ Terminated(task[t]) \in TaskType /\ Terminated(task[t]).flagged
      /\ Terminated(task[t]).terminals \in {0, 1}
      /\ Terminated(task[t]).obj = task[t].obj /\ Terminated(task[t]).kind = task[t].kind
  BY <1>1, EndedType
<1> QED BY <1>2, EndedType

\* A task ends, unwinds, or waits to give its lease back.
LEMMA EndSteps ==
  ASSUME GInv, NEW t \in Tasks, End(t) \/ Unwind(t) \/ Release(t) \/ Leave(t)
  PROVE  GInv'
<1>0. /\ task[t] \in TaskType /\ Active(t) /\ task[t].state # "ended"
      /\ ~task[t].flagged /\ task[t].terminals = 0
      /\ leases \in SUBSET Tasks /\ UNCHANGED <<intr, sessionVars>>
  BY DEF End, Unwind, Release, Leave, GInv, SessionTypeOK, Flags, Active
<1> DEFINE n1 == Ended(task[t])
           n2 == Ended(Terminated(task[t]))
           n3 == Cancelled(task[t])
           n4 == [task[t] EXCEPT !.state = "releasing"]
<1>1. /\ n1 \in TaskType /\ n1.obj = task[t].obj /\ n1.kind = task[t].kind
      /\ n1.state = "ended" /\ ~n1.flagged /\ n1.terminals = 0
  BY <1>0, EndedType
<1>2. /\ n2 \in TaskType /\ n2.obj = task[t].obj /\ n2.kind = task[t].kind
      /\ n2.state = "ended" /\ n2.flagged /\ n2.terminals \in {0, 1}
  BY <1>0, LastWord
<1>3. /\ n3 \in TaskType /\ n3.obj = task[t].obj /\ n3.kind = task[t].kind
      /\ ~n3.flagged /\ n3.terminals = 0
  BY <1>0, CancelledType
<1>4. /\ n4 \in TaskType /\ n4.obj = task[t].obj /\ n4.kind = task[t].kind
      /\ ~n4.flagged /\ n4.terminals = 0
  BY <1>0 DEF TaskType
<1>5. /\ leases' \in SUBSET Tasks
      /\ \/ /\ owner' = FreeOps(t)
            /\ \/ task' = [task EXCEPT ![t] = n1] \/ task' = [task EXCEPT ![t] = n2]
               \/ task[t].kind = "stream" /\ task' = [task EXCEPT ![t] = n4]
         \/ UNCHANGED owner /\ (task' = [task EXCEPT ![t] = n1] \/ task' = [task EXCEPT ![t] = n3])
  BY <1>0 DEF End, Unwind, Release, Leave, LeaveStream
<1> HIDE DEF n1, n2, n3, n4
<1>6. CASE task' = [task EXCEPT ![t] = n1]
  BY <1>0, <1>1, <1>5, <1>6, TaskMoves
<1>7. CASE task' = [task EXCEPT ![t] = n2] /\ owner' = FreeOps(t)
  BY <1>0, <1>2, <1>5, <1>7, TaskMoves
<1>8. CASE task' = [task EXCEPT ![t] = n3] /\ UNCHANGED owner
  BY <1>0, <1>3, <1>5, <1>8, TaskMoves
<1>9. CASE task' = [task EXCEPT ![t] = n4] /\ owner' = FreeOps(t) /\ task[t].kind = "stream"
  BY <1>0, <1>4, <1>5, <1>9, TaskMoves
<1> QED BY <1>5, <1>6, <1>7, <1>8, <1>9

\* An interrupt takes an operation over, and hands its id back.
LEMMA InterruptSteps ==
  ASSUME GInv, NEW i \in Interrupters,
         Report(i) \/ Abandon(i) \/ \E x \in Ops : Interrupt(i, x)
  PROVE  GInv'
<1>0. /\ task \in [Tasks -> TaskType] /\ UNCHANGED <<leases, sessionVars>>
      /\ leases \in SUBSET Tasks
      /\ owner \in [Ops -> Tasks \union Interrupters \union {Nothing}]
      /\ intr \in [Interrupters -> [task : Tasks \union {Nothing}, op : Ops \union {Nothing}]]
      /\ Nothing \notin Tasks \union Interrupters
      /\ Idle \in [task : Tasks \union {Nothing}, op : Ops \union {Nothing}] /\ Idle.task = Nothing
  BY NothingAssumption DEF Report, Abandon, Interrupt, GInv, SessionTypeOK, Idle
<1>1. CASE \E x \in Ops : Interrupt(i, x)
  <2>1. PICK x \in Ops : Interrupt(i, x)
    BY <1>1
  <2> DEFINE t == owner[x]
             c == Cancelled(task[t])
             k == [task |-> t, op |-> x]
  <2>2. t \in Tasks /\ task' = [task EXCEPT ![t] = c] /\ owner' = [owner EXCEPT ![x] = i]
        /\ intr' = [intr EXCEPT ![i] = k] /\ intr[i].task = Nothing
    BY <1>0, <2>1 DEF Interrupt
  <2>3. /\ c \in TaskType /\ c.obj = task[t].obj /\ c.kind = task[t].kind
        /\ c.flagged = task[t].flagged /\ c.terminals = task[t].terminals
        /\ c.state \in {"live", "cancelled", "releasing"} => Active(t)
        /\ task[t].state = "ended" => c.state = "ended"
        /\ c.state # "free" => task[t].state # "free"
    BY <1>0, <2>2, CancelledType DEF Active, TaskType
  <2>4. k \in [task : Tasks \union {Nothing}, op : Ops \union {Nothing}] /\ k.task = t /\ k.op = x
    BY <2>2
  <2>5. owner[x] = t
    OBVIOUS
  <2> HIDE DEF t, c, k
  <2>6. /\ \A u \in Tasks : task'[u] = IF u = t THEN c ELSE task[u]
        /\ \A y \in Ops : owner'[y] = IF y = x THEN i ELSE owner[y]
        /\ \A j \in Interrupters : intr'[j] = IF j = i THEN k ELSE intr[j]
    BY <1>0, <2>2
  <2>7. /\ task' \in [Tasks -> TaskType]
        /\ owner' \in [Ops -> Tasks \union Interrupters \union {Nothing}]
        /\ intr' \in [Interrupters -> [task : Tasks \union {Nothing}, op : Ops \union {Nothing}]]
    BY <1>0, <2>2, <2>3, <2>4
  <2>8. WorkIsHere' /\ Flags' /\ Claims'
    BY <1>0, <2>2, <2>3, <2>4, <2>6 DEF GInv, WorkIsHere, Flags, Claims, Active, sessionVars
  <2>9. OperationsAreUnique'
    <3> SUFFICES ASSUME NEW u \in Tasks, Active(u)', task'[u].kind = "turn"
                 PROVE  \/ \E y \in Ops : owner'[y] = u
                        \/ \E j \in Interrupters : intr'[j].task = u /\ owner'[intr'[j].op] = j
      BY DEF OperationsAreUnique
    <3>1. Active(u) /\ task[u].kind = "turn"
      BY <2>3, <2>6 DEF Active
    <3>2. CASE u = t
      BY <2>4, <2>6, <3>2
    <3>3. CASE u # t
      <4>1. \A y \in Ops : owner[y] = u => owner'[y] = u
        BY <2>5, <2>6, <3>3
      <4>2. \A j \in Interrupters : intr[j].task = u /\ owner[intr[j].op] = j
                                     => intr'[j].task = u /\ owner'[intr'[j].op] = j
        <5> SUFFICES ASSUME NEW j \in Interrupters, intr[j].task = u, owner[intr[j].op] = j
                     PROVE  intr'[j].task = u /\ owner'[intr'[j].op] = j
          OBVIOUS
        <5>1. j # i /\ j # t /\ intr[j].op \in Ops
          BY <1>0, <2>2, DistinctAssumption DEF GInv, Claims
        <5> QED BY <2>5, <2>6, <5>1
      <4> QED BY <3>1, <4>1, <4>2 DEF GInv, OperationsAreUnique
    <3> QED BY <3>2, <3>3
  <2> QED BY <1>0, <2>7, <2>8, <2>9, WorkStep
<1>2. ASSUME Report(i) \/ Abandon(i) PROVE GInv'
  <2>0. PICK t \in Tasks : t = intr[i].task
    BY <1>0, <1>2, NothingAssumption DEF Report, Abandon
  <2> DEFINE n == Terminated(task[t])
  <2>1. /\ task[t].state = "ended" /\ task[t] \in TaskType
        /\ owner' = ClaimReleased(i) /\ intr' = [intr EXCEPT ![i] = Idle]
        /\ task' = task \/ (~task[t].flagged /\ task' = [task EXCEPT ![t] = n])
    BY <1>0, <1>2, <2>0 DEF Report, Abandon
  <2>2. /\ n \in TaskType /\ n.flagged /\ n.obj = task[t].obj /\ n.kind = task[t].kind
        /\ n.state = "ended" /\ (~task[t].flagged => n.terminals \in {0, 1})
    BY <1>0, <2>1, EndedType DEF GInv, Flags
  <2>3. intr[i].op \in Ops
    BY <1>0, <2>0, NothingAssumption DEF GInv, Claims
  <2> HIDE DEF n
  <2>4. /\ \A u \in Tasks : u # t => task'[u] = task[u]
        /\ task'[t] = task[t] \/ (~task[t].flagged /\ task'[t] = n)
        /\ \A y \in Ops : owner'[y] = owner[y] \/ (owner[y] = i /\ y = intr[i].op)
        /\ \A j \in Interrupters : intr'[j] = IF j = i THEN Idle ELSE intr[j]
    BY <1>0, <2>1, <2>3, NothingAssumption DEF ClaimReleased
  <2>5. /\ task' \in [Tasks -> TaskType]
        /\ owner' \in [Ops -> Tasks \union Interrupters \union {Nothing}]
        /\ intr' \in [Interrupters -> [task : Tasks \union {Nothing}, op : Ops \union {Nothing}]]
    BY <1>0, <2>1, <2>2, <2>3 DEF ClaimReleased
  <2>6. ~Active(t) /\ ~Active(t)' /\ \A u \in Tasks : u # t => (Active(u)' <=> Active(u))
    BY <2>1, <2>2, <2>4 DEF Active
  <2>7. WorkIsHere'
    BY <1>0, <2>1, <2>2, <2>4, <2>6 DEF GInv, WorkIsHere, sessionVars
  <2>8. Flags' /\ Claims'
    BY <1>0, <2>1, <2>2, <2>4 DEF GInv, Flags, Claims
  <2>9. OperationsAreUnique'
    <3> SUFFICES ASSUME NEW u \in Tasks, Active(u)', task'[u].kind = "turn"
                 PROVE  \/ \E y \in Ops : owner'[y] = u
                        \/ \E j \in Interrupters : intr'[j].task = u /\ owner'[intr'[j].op] = j
      BY DEF OperationsAreUnique
    <3>1. u # t /\ Active(u) /\ task[u].kind = "turn"
      BY <2>4, <2>6
    <3>2. \A y \in Ops : owner[y] = u => owner'[y] = u
      BY <2>4, DistinctAssumption
    <3>3. \A j \in Interrupters : intr[j].task = u /\ owner[intr[j].op] = j
                                   => intr'[j].task = u /\ owner'[intr'[j].op] = j
      <4> SUFFICES ASSUME NEW j \in Interrupters, intr[j].task = u, owner[intr[j].op] = j
                   PROVE  intr'[j].task = u /\ owner'[intr'[j].op] = j
        OBVIOUS
      <4>1. j # i /\ intr[j].op \in Ops
        BY <1>0, <2>0, <3>1 DEF GInv, Claims
      <4> QED BY <2>4, <4>1
    <3> QED BY <3>1, <3>2, <3>3 DEF GInv, OperationsAreUnique
  <2> QED BY <1>0, <2>5, <2>7, <2>8, <2>9, WorkStep
<1> QED BY <1>1, <1>2

-----------------------------------------------------------------------------
LEMMA NextGInv == GInv /\ [SessionNext]_gatewayVars => GInv'
<1> SUFFICES ASSUME GInv, [SessionNext]_gatewayVars PROVE GInv'
  OBVIOUS
<1>1. CASE \E t \in Tasks, o \in Objects :
             \/ StartOperation(t, o) \/ StartStream(t, o)
             \/ \E x \in Ops : StartTurn(t, o, x)
  BY <1>1, StartSteps
<1>2. CASE \E t \in Tasks : End(t) \/ Leave(t) \/ TaskStep(t)
  BY <1>2, EndSteps DEF TaskStep
<1>3. CASE \E i \in Interrupters :
             Report(i) \/ Abandon(i) \/ \E x \in Ops : Interrupt(i, x)
  BY <1>3, InterruptSteps
<1>4. CASE \E o \in Objects :
             Create(o) \/ Resume(o) \/ Install(o) \/ LoadFails(o) \/ CleanupStep(o)
  BY <1>4, LoadSteps, CleanupSteps DEF CleanupStep
<1>5. CASE \/ BeginArchive \/ FailArchive \/ CommitArchive
           \/ Stop \/ Stopped \/ Start \/ Hold \/ Unhold
  BY <1>5, RemovalSteps
<1>6. CASE UNCHANGED gatewayVars
  <2>1. UNCHANGED workVars /\ UNCHANGED sessionVars
    BY <1>6 DEF gatewayVars
  <2>2. SessionTypeOK' /\ Fence' /\ OneObjectPerSession' /\ UNCHANGED phase
    BY <2>1 DEF GInv, SessionTypeOK, Fence, OneObjectPerSession, Alive, workVars, sessionVars
  <2> QED BY <2>1, <2>2, SessionStep
<1> QED BY <1>1, <1>2, <1>3, <1>4, <1>5, <1>6 DEF SessionNext

THEOREM SessionInvariance == SessionSpec => []GInv
<1> QED BY InitGInv, NextGInv, PTL DEF SessionSpec

-----------------------------------------------------------------------------

\* The type invariant, with the agreement of the registry and the objects.
THEOREM SessionsTyped == SessionSpec => []SessionTypeOK
<1>1. GInv => SessionTypeOK
  BY DEF GInv
<1> QED BY <1>1, SessionInvariance, PTL

\* Archive, resume, stop and restart never make two CoreSession objects of one
\* id: the closing mark and the load lock cover the whole life of the first.
THEOREM SessionsAreExclusive == SessionSpec => []OneObjectPerSession
<1>1. GInv => OneObjectPerSession
  BY DEF GInv
<1> QED BY <1>1, SessionInvariance, PTL

\* CoreSession.close begins only when all admitted work has ended.
THEOREM ClosedSessionsAreIdle == SessionSpec => []NoWorkOnClosedSession
<1>1. GInv => NoWorkOnClosedSession
  BY DEF GInv, WorkIsHere, NoWorkOnClosedSession
<1> QED BY <1>1, SessionInvariance, PTL

\* An operation id is owned by the task it was given to, or by the interrupt
\* that took it over, until the task is over.
THEOREM OperationsKeepTheirIds == SessionSpec => []OperationsAreUnique
<1>1. GInv => OperationsAreUnique
  BY DEF GInv
<1> QED BY <1>1, SessionInvariance, PTL

\* No turn ends twice, however its task and its interrupters race.
THEOREM TurnsEndOnce == SessionSpec => []OneTerminalEvent
<1>1. GInv => OneTerminalEvent
  BY DEF GInv, Flags, OneTerminalEvent
<1> QED BY <1>1, SessionInvariance, PTL
-----------------------------------------------------------------------------
\* A turn that was stopped without a word has somebody who will report it: the
\* interrupt that cancelled it.  A word that was said was heard by those who are
\* still there, since an object that left the registry does not come back.
Told ==
  \A t \in Tasks :
    /\ task[t].state # "free" => phase[task[t].obj] \notin {"unused", "loading", "discarded"}
    /\ task[t].kind = "turn" => task[t].state \notin {"free", "releasing"}
    /\ task[t].flagged /\ installed = task[t].obj => task[t].terminals = 1
    /\ (/\ task[t].kind = "turn" /\ task[t].state \in {"cancelled", "ended"}
        /\ installed = task[t].obj /\ t \notin excused /\ ~task[t].flagged)
         => \E i \in Interrupters : intr[i].task = t

\* The session moves; an object is installed before anything works on it.
LEMMA ToldBySession ==
  ASSUME GInv, Told, UNCHANGED workVars,
         \A o \in Objects : phase[o] \notin {"unused", "loading", "discarded"} =>
           /\ phase'[o] \notin {"unused", "loading", "discarded"}
           /\ installed' = o => installed = o
  PROVE  Told'
<1> SUFFICES ASSUME NEW t \in Tasks
    PROVE /\ task[t].state # "free" => phase'[task[t].obj] \notin {"unused", "loading", "discarded"}
          /\ task[t].kind = "turn" => task[t].state \notin {"free", "releasing"}
          /\ task[t].flagged /\ installed' = task[t].obj => task[t].terminals = 1
          /\ (/\ task[t].kind = "turn" /\ task[t].state \in {"cancelled", "ended"}
              /\ installed' = task[t].obj /\ t \notin excused /\ ~task[t].flagged)
               => \E i \in Interrupters : intr[i].task = t
  BY DEF Told, workVars
<1>1. CASE task[t].state = "free"
  BY <1>1 DEF GInv, Flags, Told
<1>2. CASE task[t].state # "free"
  <2>1. task[t].obj \in Objects
    BY <1>2 DEF GInv, WorkIsHere
  <2>2. phase[task[t].obj] \notin {"unused", "loading", "discarded"}
    BY <1>2 DEF Told
  <2>3. installed' = task[t].obj => installed = task[t].obj
    BY <2>1, <2>2
  <2> QED BY <2>1, <2>2, <2>3 DEF Told
<1> QED BY <1>1, <1>2

\* One task becomes n.
LEMMA ToldByTask ==
  ASSUME GInv, Told, UNCHANGED sessionVars, excused \subseteq excused',
         NEW t \in Tasks, NEW n, task' = [task EXCEPT ![t] = n],
         n.state # "free" => phase[n.obj] \notin {"unused", "loading", "discarded"},
         n.kind = "turn" => n.state \notin {"free", "releasing"},
         n.flagged /\ installed = n.obj => n.terminals = 1,
         (/\ n.kind = "turn" /\ n.state \in {"cancelled", "ended"}
          /\ installed = n.obj /\ t \notin excused' /\ ~n.flagged)
            => \E i \in Interrupters : intr'[i].task = t,
         \A u \in Tasks \ {t} : (\E i \in Interrupters : intr[i].task = u)
                                => \E i \in Interrupters : intr'[i].task = u
  PROVE  Told'
<1>1. task'[t] = n /\ \A u \in Tasks \ {t} : task'[u] = task[u]
  BY DEF GInv, SessionTypeOK
<1> QED BY <1>1 DEF Told, sessionVars

LEMMA SessionStepsTell ==
  ASSUME GInv, Told, NEW o \in Objects,
         \/ Create(o) \/ Resume(o) \/ Install(o) \/ LoadFails(o)
         \/ Discard(o) \/ Close(o) \/ CloseReturns(o)
  PROVE  Told'
<1>1. UNCHANGED workVars /\ phase \in [Objects -> Phases]
  BY DEF Create, Resume, Install, LoadFails, Discard, Close, CloseReturns, GInv, SessionTypeOK
<1>2. \A p \in Objects \ {o} : phase'[p] = phase[p]
  BY <1>1 DEF Create, Resume, Install, LoadFails, Discard, Close, CloseReturns
<1>3. installed' = installed \/ installed' = o
  BY DEF Create, Resume, Install, LoadFails, Discard, Close, CloseReturns
<1>4. CASE Create(o) \/ Resume(o) \/ Install(o) \/ LoadFails(o) \/ Discard(o)
  <2>1. phase[o] \in {"unused", "loading", "discarded"}
    BY <1>4 DEF Create, Resume, Install, LoadFails, Discard
  <2> QED BY <1>1, <1>2, <1>3, <2>1, ToldBySession
<1>5. CASE Close(o) \/ CloseReturns(o)
  <2>1. phase'[o] \in {"closing", "closed"} /\ UNCHANGED installed
    BY <1>1, <1>5 DEF Close, CloseReturns
  <2> QED BY <1>1, <1>2, <2>1, ToldBySession
<1> QED BY <1>4, <1>5

LEMMA RemovalStepsTell ==
  ASSUME GInv, Told, BeginArchive \/ FailArchive \/ CommitArchive \/ Stop \/ Stopped \/ Start
                     \/ Hold \/ Unhold
  PROVE  Told'
<1>1. UNCHANGED workVars /\ phase \in [Objects -> Phases] /\ Nothing \notin Objects
  BY NothingAssumption
  DEF BeginArchive, FailArchive, CommitArchive, Stop, Stopped, Start, Hold, Unhold, GInv, SessionTypeOK
<1>2. /\ installed' \in {installed, Nothing}
      /\ \A p \in Objects : phase'[p] \in {phase[p], "removed"}
  BY <1>1 DEF BeginArchive, FailArchive, CommitArchive, Stop, Stopped, Start, Hold, Unhold
<1> QED BY <1>1, <1>2, ToldBySession

LEMMA CleanupTells ==
  ASSUME GInv, Told, NEW o \in Objects, Cleanup(o) \/ Drained(o)
  PROVE  Told'
<1>0. /\ phase \in [Objects -> Phases] /\ UNCHANGED <<installed, intr, excused>>
      /\ phase[o] \in {"removed", "draining"}
      /\ \A p \in Objects : p # o => phase'[p] = phase[p]
      /\ phase'[o] \in {"draining", "drained"}
      /\ \A t \in Tasks : task[t] \in TaskType
  BY DEF Cleanup, Drained, GInv, SessionTypeOK
<1>1. CASE Drained(o)
  <2>1. UNCHANGED task
    BY <1>1 DEF Drained
  <2>2. \A t \in Tasks : task[t].state # "free" => task[t].obj \in Objects
    BY DEF GInv, WorkIsHere
  <2> QED BY <1>0, <2>1, <2>2 DEF Told
<1>2. CASE Cleanup(o)
  <2>1. \A t \in Tasks : task'[t] = Cancelled(task[t])
    BY <1>2 DEF Cleanup
  <2> SUFFICES ASSUME NEW t \in Tasks
      PROVE /\ task'[t].state # "free" => phase'[task'[t].obj] \notin {"unused", "loading", "discarded"}
            /\ task'[t].kind = "turn" => task'[t].state \notin {"free", "releasing"}
            /\ task'[t].flagged /\ installed = task'[t].obj => task'[t].terminals = 1
            /\ (/\ task'[t].kind = "turn" /\ task'[t].state \in {"cancelled", "ended"}
                /\ installed = task'[t].obj /\ t \notin excused /\ ~task'[t].flagged)
                 => \E i \in Interrupters : intr[i].task = t
    BY <1>0 DEF Told
  <2>2. /\ task'[t].obj = task[t].obj /\ task'[t].kind = task[t].kind
        /\ task'[t].flagged = task[t].flagged /\ task'[t].terminals = task[t].terminals
        /\ task[t].state \in {"free", "cancelled", "ended"} => task'[t].state = task[t].state
        /\ task[t].state = "live" => task'[t].state = "cancelled"
        /\ task[t].state = "releasing" => task'[t].state = "ended"
    BY <1>0, <2>1, CancelledType
  <2>3. CASE task[t].state \in {"free", "cancelled", "ended"}
    <3>1. task[t].state # "free" => task[t].obj \in Objects
      BY DEF GInv, WorkIsHere
    <3> QED BY <1>0, <2>2, <2>3, <3>1 DEF Told
  <2>4. CASE task[t].state \in {"live", "releasing"}
    <3>1. /\ task[t].obj \in Objects /\ ~task[t].flagged
          /\ phase[task[t].obj] \in {"open", "removed", "draining"}
      BY <2>4 DEF GInv, WorkIsHere, Flags, Active
    <3>2. task[t].obj = o
      BY <1>0, <3>1 DEF GInv, OneObjectPerSession, Alive
    <3>3. installed # o
      BY <1>0 DEF GInv, SessionTypeOK
    <3> QED BY <1>0, <2>2, <2>4, <3>1, <3>2, <3>3
  <2> QED BY <1>0, <2>3, <2>4 DEF TaskType
<1> QED BY <1>1, <1>2

LEMMA StartStepsTell ==
  ASSUME GInv, Told, NEW t \in Tasks, NEW o \in Objects,
         \/ StartOperation(t, o) \/ StartStream(t, o)
         \/ \E x \in Ops : StartTurn(t, o, x)
  PROVE  Told'
<1>1. PICK kind \in {"operation", "turn", "stream"} : Started(t, o, kind)
  BY DEF StartOperation, StartStream, StartTurn
<1> DEFINE r == [NoTask EXCEPT !.state = "live", !.obj = o, !.kind = kind]
<1>2. /\ r.state = "live" /\ r.obj = o /\ r.kind = kind /\ ~r.flagged
      /\ task' = [task EXCEPT ![t] = r]
  BY <1>1 DEF NoTask, Started
<1>3. UNCHANGED <<intr, excused, sessionVars>> /\ installed = o
  BY DEF StartOperation, StartStream, StartTurn, Admitted
<1>4. phase[o] = "open"
  BY <1>3 DEF GInv, SessionTypeOK
<1> HIDE DEF r
<1> QED BY <1>2, <1>3, <1>4, ToldByTask

LEMMA EndStepsTell ==
  ASSUME GInv, Told, NEW t \in Tasks, End(t) \/ Unwind(t) \/ Release(t) \/ Leave(t)
  PROVE  Told'
<1>0. /\ task[t] \in TaskType /\ task[t].state \in {"live", "cancelled", "releasing"}
      /\ ~task[t].flagged /\ task[t].terminals = 0
      /\ UNCHANGED <<intr, sessionVars>> /\ excused \subseteq excused'
  BY DEF End, Unwind, Release, Leave, GInv, SessionTypeOK, Flags
<1>1. /\ task[t].obj \in Objects
      /\ phase[task[t].obj] \notin {"unused", "loading", "discarded"}
      /\ task[t].kind = "turn" => task[t].state # "releasing"
  BY <1>0 DEF GInv, WorkIsHere, Told
<1> DEFINE n1 == Ended(task[t])
           n2 == Ended(Terminated(task[t]))
           n3 == Cancelled(task[t])
           n4 == [task[t] EXCEPT !.state = "releasing"]
<1>2. n1.obj = task[t].obj /\ n1.kind = task[t].kind /\ n1.state = "ended" /\ ~n1.flagged
  BY <1>0, EndedType
<1>3. /\ n2.obj = task[t].obj /\ n2.kind = task[t].kind /\ n2.state = "ended" /\ n2.flagged
      /\ installed = n2.obj => n2.terminals = 1
  <2>1. /\ Terminated(task[t]) \in TaskType /\ Terminated(task[t]).flagged
        /\ Terminated(task[t]).obj = task[t].obj /\ Terminated(task[t]).kind = task[t].kind
    BY <1>0, EndedType
  <2>2. installed = task[t].obj => Terminated(task[t]).terminals = 1
    BY <1>0 DEF Terminated, TaskType
  <2> QED BY <2>1, <2>2, EndedType
<1>4. /\ n3.obj = task[t].obj /\ n3.kind = task[t].kind /\ ~n3.flagged
      /\ n3.state \in {"cancelled", "ended"}
  BY <1>0, CancelledType
<1>5. /\ n4.obj = task[t].obj /\ n4.kind = task[t].kind /\ ~n4.flagged
      /\ n4.state = "releasing"
  BY <1>0 DEF TaskType
<1>6. \/ task' = [task EXCEPT ![t] = n1] /\ (task[t].kind # "turn" \/ task[t].state = "cancelled")
      \/ task' = [task EXCEPT ![t] = n2]
      \/ task' = [task EXCEPT ![t] = n3] /\ (task[t].kind # "turn" \/ t \in excused')
      \/ task' = [task EXCEPT ![t] = n4] /\ task[t].kind = "stream"
  BY <1>0, <1>1 DEF End, Unwind, Release, Leave, LeaveStream
<1>7. (/\ task[t].kind = "turn" /\ task[t].state = "cancelled" /\ installed = task[t].obj
       /\ t \notin excused') => \E i \in Interrupters : intr'[i].task = t
  BY <1>0 DEF Told
<1> HIDE DEF n1, n2, n3, n4
<1>8. CASE task' = [task EXCEPT ![t] = n1] /\ (task[t].kind # "turn" \/ task[t].state = "cancelled")
  BY <1>0, <1>1, <1>2, <1>7, <1>8, ToldByTask
<1>9. CASE task' = [task EXCEPT ![t] = n2]
  BY <1>0, <1>1, <1>3, <1>9, ToldByTask
<1>10. CASE task' = [task EXCEPT ![t] = n3] /\ (task[t].kind # "turn" \/ t \in excused')
  BY <1>0, <1>1, <1>4, <1>10, ToldByTask
<1>11. CASE task' = [task EXCEPT ![t] = n4] /\ task[t].kind = "stream"
  BY <1>0, <1>1, <1>5, <1>11, ToldByTask
<1> QED BY <1>6, <1>8, <1>9, <1>10, <1>11

LEMMA InterruptStepsTell ==
  ASSUME GInv, Told, NEW i \in Interrupters,
         Report(i) \/ Abandon(i) \/ \E x \in Ops : Interrupt(i, x)
  PROVE  Told'
<1>0. /\ task \in [Tasks -> TaskType] /\ Nothing \notin Tasks /\ Idle.task = Nothing
      /\ intr \in [Interrupters -> [task : Tasks \union {Nothing}, op : Ops \union {Nothing}]]
      /\ UNCHANGED sessionVars
  BY NothingAssumption DEF Report, Abandon, Interrupt, GInv, SessionTypeOK, Idle
<1>1. CASE \E x \in Ops : Interrupt(i, x)
  <2>1. PICK x \in Ops : Interrupt(i, x)
    BY <1>1
  <2> DEFINE t == owner[x]
             c == Cancelled(task[t])
  <2>2. t \in Tasks /\ task' = [task EXCEPT ![t] = c] /\ intr[i].task = Nothing
        /\ intr' = [intr EXCEPT ![i] = [task |-> t, op |-> x]] /\ UNCHANGED excused
    BY <1>0, <2>1 DEF Interrupt
  <2>3. /\ c.obj = task[t].obj /\ c.kind = task[t].kind
        /\ c.flagged = task[t].flagged /\ c.terminals = task[t].terminals
        /\ task[t].state \in {"free", "cancelled", "ended"} => c.state = task[t].state
        /\ task[t].state = "live" => c.state = "cancelled"
        /\ task[t].state = "releasing" => c.state = "ended"
        /\ task[t].state \in {"free", "live", "cancelled", "releasing", "ended"}
    BY <1>0, <2>2, CancelledType DEF TaskType
  <2> HIDE DEF t, c
  <2>4. intr'[i].task = t /\ \A j \in Interrupters \ {i} : intr'[j] = intr[j]
    BY <1>0, <2>2
  <2>5. \A u \in Tasks \ {t} : (\E j \in Interrupters : intr[j].task = u)
                                => \E j \in Interrupters : intr'[j].task = u
    BY <1>0, <2>2, <2>4
  <2>6. /\ c.state # "free" => phase[c.obj] \notin {"unused", "loading", "discarded"}
        /\ c.kind = "turn" => c.state \notin {"free", "releasing"}
        /\ c.flagged /\ installed = c.obj => c.terminals = 1
    BY <2>2, <2>3 DEF Told
  <2> QED BY ZenonT(60), <1>0, <2>2, <2>4, <2>5, <2>6, ToldByTask
<1>2. ASSUME Report(i) \/ Abandon(i) PROVE Told'
  <2>0. PICK t \in Tasks : t = intr[i].task
    BY <1>0, <1>2, NothingAssumption DEF Report, Abandon
  <2> DEFINE n == IF Report(i) /\ ~task[t].flagged THEN Terminated(task[t]) ELSE task[t]
  <2>1. /\ task[t] \in TaskType /\ task[t].state = "ended"
        /\ intr' = [intr EXCEPT ![i] = Idle]
        /\ excused \subseteq excused' /\ (Report(i) \/ t \in excused')
    BY <1>0, <1>2, <2>0 DEF Report, Abandon
  <2>2. task' = [task EXCEPT ![t] = n]
    <3>1. CASE Report(i)
      BY <1>0, <2>0, <3>1 DEF Report
    <3>2. CASE ~Report(i)
      BY <1>0, <1>2, <2>0, <3>2 DEF Abandon
    <3> QED BY <3>1, <3>2
  <2>3. /\ Terminated(task[t]).flagged /\ Terminated(task[t]).obj = task[t].obj
        /\ Terminated(task[t]).kind = task[t].kind /\ Terminated(task[t]).state = "ended"
    BY <2>1, EndedType
  <2>4. ~task[t].flagged /\ installed = task[t].obj => Terminated(task[t]).terminals = 1
    BY <2>1 DEF Terminated, TaskType, GInv, Flags
  <2>5. /\ n.state = "ended" /\ n.obj = task[t].obj /\ n.kind = task[t].kind
        /\ n.flagged \/ t \in excused'
        /\ n.flagged /\ installed = n.obj => n.terminals = 1
    BY <2>1, <2>3, <2>4 DEF Told
  <2> HIDE DEF n
  <2>6. \A j \in Interrupters \ {i} : intr'[j] = intr[j]
    BY <1>0, <2>1
  <2>7. \A u \in Tasks \ {t} : (\E j \in Interrupters : intr[j].task = u)
                                => \E j \in Interrupters : intr'[j].task = u
    BY <2>0, <2>6
  <2>8. phase[n.obj] \notin {"unused", "loading", "discarded"}
    BY <2>1, <2>5 DEF Told
  <2> QED BY <1>0, <2>1, <2>2, <2>5, <2>7, <2>8, ToldByTask
<1> QED BY <1>1, <1>2

LEMMA NextTold == GInv /\ Told /\ [SessionNext]_gatewayVars => Told'
<1> SUFFICES ASSUME GInv, Told, [SessionNext]_gatewayVars PROVE Told'
  OBVIOUS
<1>1. CASE \E t \in Tasks, o \in Objects :
             \/ StartOperation(t, o) \/ StartStream(t, o)
             \/ \E x \in Ops : StartTurn(t, o, x)
  BY <1>1, StartStepsTell
<1>2. CASE \E t \in Tasks : End(t) \/ Leave(t) \/ TaskStep(t)
  BY <1>2, EndStepsTell DEF TaskStep
<1>3. CASE \E i \in Interrupters :
             Report(i) \/ Abandon(i) \/ \E x \in Ops : Interrupt(i, x)
  BY <1>3, InterruptStepsTell
<1>4. CASE \E o \in Objects :
             Create(o) \/ Resume(o) \/ Install(o) \/ LoadFails(o) \/ CleanupStep(o)
  BY <1>4, SessionStepsTell, CleanupTells DEF CleanupStep
<1>5. CASE \/ BeginArchive \/ FailArchive \/ CommitArchive
           \/ Stop \/ Stopped \/ Start \/ Hold \/ Unhold
  BY <1>5, RemovalStepsTell
<1>6. CASE UNCHANGED gatewayVars
  BY <1>6 DEF gatewayVars, sessionVars, workVars, Told
<1> QED BY <1>1, <1>2, <1>3, <1>4, <1>5, <1>6 DEF SessionNext

\* README: every admitted operation finishes with exactly one turn_complete event.
\* So it does, whatever archives, stops, interrupts and clean-up errors meet,
\* unless the connection that owns the turn or the request that interrupts it is
\* cancelled itself.
THEOREM TurnsAreTold == SessionSpec => []ExactlyOneTerminalEvent
<1>1. SessionInit => Told
  BY DEF SessionInit, Told, NoTask
<1>2. GInv /\ Told => ExactlyOneTerminalEvent
  <2> SUFFICES ASSUME GInv, Told PROVE ExactlyOneTerminalEvent
    OBVIOUS
  <2>1. OneTerminalEvent
    BY DEF GInv, Flags, OneTerminalEvent
  <2>2. AnnouncedUnlessAbandoned
    BY DEF Told, AnnouncedUnlessAbandoned
  <2> QED BY <2>1, <2>2 DEF ExactlyOneTerminalEvent
<1> QED BY <1>1, <1>2, InitGInv, NextGInv, NextTold, PTL DEF SessionSpec
=============================================================================
