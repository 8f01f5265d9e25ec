---------------------------- MODULE Services_proofs ----------------------------
(***************************************************************************)
(* Proofs about what a session starts besides its turns.  First language   *)
(* servers, for any number of workspaces (keys), calls and servers, then   *)
(* monitors, for any number of monitors, lifecycles, lines and faults, and *)
(* plans of any size and shape; the three have no state in common.         *)
(*                                                                         *)
(* For servers the invariant `Inv' says who                                *)
(* answers for a server: until shutdown() the last server of a key that    *)
(* was not cut is its start task's (spawning), its client's (clients) or   *)
(* among the broken ones; afterwards a start of before is doomed, and a    *)
(* ready server of before is on the list or being talked to.  The entries  *)
(* of a writer lock's queue carry the versions the document will have.     *)
(*                                                                         *)
(* For monitors, `MonitorInv' follows one list (Stream): what was given to *)
(* the model, what the dispatcher holds and what is queued.  It is in the  *)
(* order of the lifecycles, all of it is true, and it is complete for the  *)
(* monitors of the session's lifecycle.                                    *)
(*                                                                         *)
(* For plans, `PlanInv' says that the producer never finds a step ready    *)
(* that a task has, which is so while at most one step waits for a place   *)
(* (OneWaits); and Kahn's algorithm is right.                              *)
(***************************************************************************)
EXTENDS MCServices, SequenceTheorems, FiniteSetTheorems, WellFoundedInduction, TLAPS

Stages == L!Starting \cup {"ready", "failed", "cut", "closed"}
Entry == [by : Calls \cup {0}, v : Nat, text : Nat]
Document == [v : Nat, text : Nat]
ServerType ==
  [key : Keys, at : Stages, process : {"none", "running", "gone"}, version : Nat,
   queue : Seq(Entry), read : Seq(Document), told : Nat, cut : BOOLEAN, lost : BOOLEAN]
CallType ==
  [key : Keys \cup {0},
   at : {"idle", "rooting", "starting", "leaving", "reading", "writing", "hearing"} \cup L!Over,
   round : 0..2, uses : Nat, text : Nat]

Types ==
  /\ disk \in Nat /\ calls \in [Calls -> CallType]
  /\ servers \in Seq(ServerType) /\ doomedStarts \subseteq DOMAIN servers /\ broken \subseteq Keys
  /\ clients \in [Keys -> 0..Len(servers)] /\ spawning \in [Keys -> 0..Len(servers)]
  /\ closing \in {"no", "next", "writing", "asking", "ending", "done", "raised"}
  /\ left \subseteq Keys /\ talks \in Nat /\ fence \in 0..Len(servers)

\* The writer lock: entries that wait behind the first carry the versions to come.
Zeros(q, j) == IF \E i \in 2..j : q[i].by = 0 THEN 1 ELSE 0
OneEach(q) == \A i, j \in DOMAIN q : q[i].by = q[j].by => i = j
NoZero(q) == \A i \in DOMAIN q : q[i].by # 0

ReadInOrder(s) == \A i \in DOMAIN s.read : s.read[i].v = i
Counted(s) ==
  /\ s.queue = <<>> => s.version = Len(s.read)
  /\ s.queue # <<>> => s.version = Len(s.read) + Len(s.queue) - 1 - Zeros(s.queue, Len(s.queue))
  /\ \A j \in 2..Len(s.queue) :
       s.queue[j].by # 0 => s.queue[j].v = Len(s.read) + j - 1 - Zeros(s.queue, j)
InStep(s) == ReadInOrder(s) /\ (s.process = "running" => Counted(s))

LEMMA WrittenType ==
  ASSUME NEW s \in ServerType, NEW q \in Seq(Entry)
  PROVE  /\ L!Written(s, q) \in ServerType
         /\ L!Written(s, q).queue = q
         /\ L!Written(s, q).process = s.process /\ L!Written(s, q).at = s.at
         /\ L!Written(s, q).key = s.key /\ L!Written(s, q).cut = s.cut
         /\ L!Written(s, q).version = s.version /\ L!Written(s, q).lost = s.lost
<1>1. CASE q = <<>> \/ s.process # "running" \/ Head(q).by = 0
  BY <1>1 DEF L!Written, ServerType
<1>2. CASE ~(q = <<>> \/ s.process # "running" \/ Head(q).by = 0)
  <2>1. Head(q) \in Entry
    BY <1>2
  <2>2. Append(s.read, [v |-> Head(q).v, text |-> Head(q).text]) \in Seq(Document)
    BY <2>1 DEF ServerType, Entry, Document
  <2> QED BY Zenon, <1>2, <2>2 DEF L!Written, ServerType
<1> QED BY <1>1, <1>2

LEMMA WrittenInStep ==
  ASSUME NEW s \in ServerType, s.queue # <<>>, InStep(s), OneEach(s.queue)
  PROVE  InStep(L!Written(s, Tail(s.queue)))
<1> DEFINE q == s.queue
           p == Tail(q)
           w == L!Written(s, p)
<1>1. q \in Seq(Entry) /\ Len(q) \in Nat \ {0} /\ p \in Seq(Entry) /\ Len(p) = Len(q) - 1
  BY DEF ServerType
<1>2. \A j \in 1..Len(p) : p[j] = q[j + 1]
  BY <1>1
<1>3. w \in ServerType /\ w.queue = p /\ w.process = s.process /\ w.version = s.version
  BY Zenon, <1>1, WrittenType
<1>4. s.read \in Seq(Document)
  BY DEF ServerType
<1>5. CASE s.process # "running"
  <2>1. w.read = s.read
    BY <1>5, <1>1 DEF L!Written, ServerType
  <2> QED BY <1>3, <1>5, <2>1 DEF InStep, ReadInOrder
<1>6. CASE s.process = "running" /\ p = <<>>
  <2>1. w.read = s.read
    BY <1>6, <1>1 DEF L!Written, ServerType
  <2>2. Len(q) = 1 /\ Len(p) = 0
    <3>1. Len(p) = 0
      <4> HIDE DEF p
      <4> QED BY <1>6
    <3> QED BY <3>1, <1>1
  <2>3. Zeros(q, 1) = 0
    BY DEF Zeros
  <2>4. s.version = Len(s.read)
    <3>1. s.version = Len(s.read) + Len(q) - 1 - Zeros(q, Len(q))
      BY <1>6 DEF InStep, Counted
    <3>2. Zeros(q, Len(q)) = 0
      BY <2>2, <2>3
    <3> HIDE DEF q
    <3> QED BY <1>4, <2>2, <3>1, <3>2
  <2>5. w.queue = <<>> /\ w.version = Len(w.read)
    BY Zenon, <1>3, <1>6, <2>1, <2>4
  <2>6. \A j \in 2..Len(w.queue) : FALSE
    <3>1. Len(w.queue) = 0
      <4> HIDE DEF w, p, q
      <4> QED BY <1>3, <2>2
    <3> QED BY <3>1
  <2>7. Counted(w)
    <3> HIDE DEF w
    <3> QED BY <2>5, <2>6 DEF Counted
  <2>8. ReadInOrder(w)
    BY <2>1, <1>6 DEF InStep, ReadInOrder
  <2> QED BY <2>7, <2>8 DEF InStep
<1>7. CASE s.process = "running" /\ p # <<>>
  <2>0. Len(q) >= 2 /\ p[1] = q[2] /\ Head(p) = q[2] /\ q[2] \in Entry /\ Len(p) \in Nat \ {0}
    BY <1>1, <1>2, <1>7
  <2>1. Counted(s) /\ ReadInOrder(s)
    BY <1>7 DEF InStep
  <2>2. CASE q[2].by = 0
    <3>1. w.read = s.read
      BY <1>1, <1>7, <2>0, <2>2 DEF L!Written, ServerType
    <3>2. \A j \in 1..Len(p) : Zeros(q, j + 1) = 1
      BY <1>1, <2>0, <2>2 DEF Zeros
    <3>3. \A j \in 1..Len(p) : Zeros(p, j) = 0
      <4>1. \A i \in 2..Len(p) : p[i].by # 0
        BY <1>1, <1>2, <2>0, <2>2 DEF OneEach
      <4> QED BY <4>1, <1>1 DEF Zeros
    <3>4. s.version = Len(s.read) + Len(q) - 1 - 1
      <4>1. Zeros(q, Len(q)) = 1
        <5>1. Len(p) \in 1..Len(p) /\ Len(p) + 1 = Len(q)
          BY <1>1, <2>0
        <5>2. Zeros(q, Len(p) + 1) = 1
          BY Zenon, <3>2, <5>1
        <5> QED BY <5>1, <5>2
      <4> QED BY Zenon, <4>1, <2>1, <1>1, <2>0 DEF Counted
    <3>5. w.version = Len(w.read) + Len(p) - 1 - Zeros(p, Len(p))
      <4>1. Zeros(p, Len(p)) = 0
        BY <3>3, <2>0
      <4>2. Len(w.read) = Len(s.read) /\ w.version = s.version
        BY <1>3, <3>1
      <4> HIDE DEF w, p, q
      <4> QED BY <1>1, <1>4, <2>0, <4>1, <4>2, <3>4
    <3>6. ASSUME NEW j \in 2..Len(p), p[j].by # 0
          PROVE  p[j].v = Len(w.read) + j - 1 - Zeros(p, j)
      <4>1. j + 1 \in 2..Len(q) /\ p[j] = q[j + 1]
        BY <1>1, <1>2
      <4>2. q[j + 1].v = Len(s.read) + (j + 1) - 1 - Zeros(q, j + 1)
        BY <4>1, <2>1, <3>6 DEF Counted
      <4> QED BY <4>1, <4>2, <1>4, <3>1, <3>2, <3>3, <1>1
    <3> QED BY Zenon, <1>3, <1>7, <2>1, <3>1, <3>5, <3>6 DEF InStep, Counted, ReadInOrder
  <2>3. CASE q[2].by # 0
    <3>1. w.read = Append(s.read, [v |-> q[2].v, text |-> q[2].text])
      BY Zenon, <1>1, <1>7, <2>0, <2>3 DEF L!Written, ServerType
    <3>2. q[2].v = Len(s.read) + 1
      <4>1. Zeros(q, 2) = 0
        BY <2>3 DEF Zeros
      <4> QED BY <4>1, <2>0, <2>1, <2>3, <1>1, <1>4 DEF Counted
    <3>3. Len(w.read) = Len(s.read) + 1 /\ ReadInOrder(w)
      <4>1. [v |-> q[2].v, text |-> q[2].text] \in Document
        BY <2>0 DEF Entry, Document
      <4>2. /\ w.read \in Seq(Document) /\ Len(w.read) = Len(s.read) + 1
            /\ w.read[Len(w.read)].v = q[2].v
            /\ \A i \in 1..Len(s.read) : w.read[i] = s.read[i]
        <5> HIDE DEF w, q
        <5> QED BY <1>4, <3>1, <4>1
      <4>3. ReadInOrder(w)
        <5> HIDE DEF w, q
        <5> SUFFICES ASSUME NEW i \in DOMAIN w.read PROVE w.read[i].v = i
          BY DEF ReadInOrder
        <5>1. i = Len(w.read) \/ i \in 1..Len(s.read)
          BY <1>4, <4>2
        <5> QED BY <1>4, <2>1, <3>2, <4>2, <5>1 DEF ReadInOrder
      <4> QED BY <4>2, <4>3
    <3>4. \A j \in 1..Len(p) : Zeros(p, j) = Zeros(q, j + 1)
      <4> SUFFICES ASSUME NEW j \in 1..Len(p)
                   PROVE  (\E i \in 2..j : p[i].by = 0) <=> (\E i \in 2..j + 1 : q[i].by = 0)
        BY DEF Zeros
      <4>1. \A i \in 2..j : p[i] = q[i + 1] /\ i + 1 \in 2..j + 1
        BY <1>1, <1>2
      <4>2. \A i \in 3..j + 1 : i - 1 \in 2..j /\ q[i] = p[i - 1]
        BY <1>1, <1>2
      <4>3. \A i \in 2..j + 1 : i = 2 \/ i \in 3..j + 1
        OBVIOUS
      <4> QED BY <4>1, <4>2, <4>3, <2>3
    <3>5. w.version = Len(w.read) + Len(p) - 1 - Zeros(p, Len(p))
      <4>1. Zeros(p, Len(p)) = Zeros(q, Len(q))
        BY <3>4, <1>1, <2>0
      <4>2. s.version = Len(s.read) + Len(q) - 1 - Zeros(q, Len(q))
        BY <2>1, <1>1, <2>0 DEF Counted
      <4>3. Zeros(q, Len(q)) \in Nat
        BY DEF Zeros
      <4> QED BY SMTT(60), <4>1, <4>2, <4>3, <1>1, <1>3, <1>4, <3>3
    <3>6. ASSUME NEW j \in 2..Len(p), p[j].by # 0
          PROVE  p[j].v = Len(w.read) + j - 1 - Zeros(p, j)
      <4>1. j + 1 \in 2..Len(q) /\ p[j] = q[j + 1]
        BY <1>1, <1>2
      <4>2. q[j + 1].v = Len(s.read) + (j + 1) - 1 - Zeros(q, j + 1)
        BY <4>1, <2>1, <3>6 DEF Counted
      <4>3. Zeros(q, j + 1) \in Nat /\ Zeros(p, j) = Zeros(q, j + 1)
        <5>1. j \in 1..Len(p)
          BY <1>1
        <5>2. Zeros(p, j) = Zeros(q, j + 1)
          BY <3>4, <5>1
        <5>3. Zeros(q, j + 1) \in Nat
          BY DEF Zeros
        <5> QED BY <5>2, <5>3
      <4> QED BY <4>1, <4>2, <4>3, <1>4, <3>3, <1>1
    <3> QED BY Zenon, <1>3, <1>7, <3>3, <3>5, <3>6, <2>0, <1>1 DEF InStep, Counted
  <2> QED BY <2>2, <2>3
<1> QED BY <1>5, <1>6, <1>7

\* A message that is the first is written at once, another waits.
LEMMA JoinedType ==
  ASSUME NEW s \in ServerType, NEW e \in Entry
  PROVE  /\ L!Joined(s, e) \in ServerType
         /\ L!Joined(s, e).process = s.process /\ L!Joined(s, e).at = s.at
         /\ L!Joined(s, e).key = s.key /\ L!Joined(s, e).cut = s.cut
         /\ L!Joined(s, e).version = s.version /\ L!Joined(s, e).lost = s.lost
         /\ L!Joined(s, e).queue = Append(s.queue, e)
<1>1. CASE s.queue = <<>>
  <2>1. <<e>> \in Seq(Entry) /\ Append(s.queue, e) = <<e>>
    BY <1>1
  <2> QED BY Zenon, <1>1, <2>1, WrittenType DEF L!Joined
<1>2. CASE s.queue # <<>>
  <2>1. Append(s.queue, e) \in Seq(Entry)
    BY DEF ServerType
  <2> QED BY Zenon, <1>2, <2>1 DEF L!Joined, ServerType
<1> QED BY <1>1, <1>2

\* A call's message carries the next version.
LEMMA JoinedInStep ==
  ASSUME NEW s \in ServerType, NEW e \in Entry, InStep(s),
         e.by # 0, e.v = s.version + 1
  PROVE  InStep(L!Joined([s EXCEPT !.version = @ + 1], e))
<1> DEFINE r == [s EXCEPT !.version = @ + 1]
           q == s.queue
           p == Append(q, e)
           w == L!Joined(r, e)
<1>1. r \in ServerType /\ r.version = s.version + 1 /\ r.queue = q /\ r.read = s.read
         /\ r.process = s.process
  BY DEF ServerType
<1>2. w \in ServerType /\ w.queue = p /\ w.process = s.process /\ w.version = s.version + 1
  <2>1. L!Joined(r, e) \in ServerType /\ L!Joined(r, e).process = r.process
          /\ L!Joined(r, e).version = r.version /\ L!Joined(r, e).queue = Append(r.queue, e)
    <3> HIDE DEF r
    <3> QED BY <1>1, JoinedType
  <2> QED BY Zenon, <1>1, <2>1
<1>3. q \in Seq(Entry) /\ s.read \in Seq(Document) /\ s.version \in Nat
  BY DEF ServerType
<1>4. p \in Seq(Entry) /\ Len(p) = Len(q) + 1 /\ p[Len(p)] = e /\ \A i \in 1..Len(q) : p[i] = q[i]
  BY <1>3
<1>5. CASE s.process # "running"
  <2>1. w.read = s.read
    BY <1>1, <1>5 DEF L!Joined, L!Written, ServerType
  <2> QED BY <1>2, <1>5, <2>1 DEF InStep, ReadInOrder
<1>6. CASE s.process = "running" /\ q = <<>>
  <2>1. Len(q) = 0 /\ Len(p) = 1 /\ p[1] = e /\ p = <<e>>
    BY <1>6, <1>3, <1>4
  <2>2. w.read = Append(s.read, [v |-> e.v, text |-> e.text])
    BY <1>1, <1>6, <2>1 DEF L!Joined, L!Written, ServerType
  <2>3. s.version = Len(s.read) /\ ReadInOrder(s)
    BY <1>6 DEF InStep, Counted
  <2>4. Len(w.read) = Len(s.read) + 1 /\ ReadInOrder(w)
    <3>1. w.read \in Seq(Document) /\ Len(w.read) = Len(s.read) + 1
            /\ w.read[Len(w.read)].v = e.v
            /\ \A i \in 1..Len(s.read) : w.read[i] = s.read[i]
      <4>1. [v |-> e.v, text |-> e.text] \in Document
        BY DEF Entry, Document
      <4> HIDE DEF w
      <4> QED BY <2>2, <4>1, <1>3
    <3>2. ReadInOrder(w)
      <4> SUFFICES ASSUME NEW i \in DOMAIN w.read PROVE w.read[i].v = i
        BY DEF ReadInOrder
      <4> HIDE DEF w
      <4>1. i = Len(w.read) \/ i \in 1..Len(s.read)
        BY <3>1, <1>3
      <4>2. e.v = Len(w.read)
        BY <2>3, <3>1
      <4> QED BY SMTT(60), <4>1, <4>2, <3>1, <2>3, <1>3 DEF ReadInOrder
    <3> QED BY <3>1, <3>2
  <2>5. Zeros(p, 1) = 0
    BY DEF Zeros
  <2>6. w.version = Len(w.read) + Len(p) - 1 - Zeros(p, Len(p))
    <3> HIDE DEF w, p, q
    <3> QED BY <1>2, <1>3, <2>1, <2>3, <2>4, <2>5
  <2>7. w.queue # <<>> /\ \A j \in 2..Len(w.queue) : FALSE
    <3>1. Len(w.queue) = 1
      <4> HIDE DEF w, p, q
      <4> QED BY <1>2, <2>1
    <3>3. \A j \in 2..Len(w.queue) : FALSE
      <4> HIDE DEF w
      <4> QED BY <3>1
    <3>4. w.queue # <<>>
      <4>1. p # <<>>
        BY <1>3, AppendProperties
      <4> HIDE DEF w, p
      <4> QED BY <4>1, <1>2
    <3> QED BY <3>3, <3>4
  <2>8. w.version = Len(w.read) + Len(w.queue) - 1 - Zeros(w.queue, Len(w.queue))
    BY Zenon, <1>2, <2>6
  <2>9. Counted(w)
    <3> HIDE DEF w
    <3> QED BY <2>7, <2>8 DEF Counted
  <2> QED BY <2>4, <2>9 DEF InStep
<1>7. CASE s.process = "running" /\ q # <<>>
  <2>1. w.read = s.read
    BY <1>1, <1>7 DEF L!Joined, ServerType
  <2>2. Len(q) \in Nat \ {0}
    BY <1>7, <1>3
  <2>3. \A j \in 1..Len(q) : Zeros(p, j) = Zeros(q, j)
    BY <1>4, <2>2 DEF Zeros
  <2>4. Zeros(p, Len(p)) = Zeros(q, Len(q))
    <3>1. (\E i \in 2..Len(p) : p[i].by = 0) <=> (\E i \in 2..Len(q) : q[i].by = 0)
      <4>1. \A i \in 2..Len(p) : i \in 2..Len(q) \/ i = Len(p)
        BY <1>4, <2>2
      <4> QED BY <4>1, <1>4, <2>2
    <3> QED BY <3>1 DEF Zeros
  <2>5. s.version = Len(s.read) + Len(q) - 1 - Zeros(q, Len(q)) /\ ReadInOrder(s)
    BY <1>7 DEF InStep, Counted
  <2>6. Zeros(q, Len(q)) \in Nat
    BY DEF Zeros
  <2>7. w.version = Len(w.read) + Len(p) - 1 - Zeros(p, Len(p))
    <3> HIDE DEF w, p, q
    <3> QED BY <1>2, <1>3, <1>4, <2>1, <2>2, <2>4, <2>5, <2>6
  <2>8. ASSUME NEW j \in 2..Len(p), p[j].by # 0
        PROVE  p[j].v = Len(w.read) + j - 1 - Zeros(p, j)
    <3>1. CASE j = Len(p)
      <4>1. p[j].v = s.version + 1
        BY <3>1, <1>4
      <4> HIDE DEF w, p, q
      <4> QED BY <4>1, <3>1, <1>2, <1>3, <1>4, <2>1, <2>2, <2>4, <2>5, <2>6
    <3>2. CASE j # Len(p)
      <4>1. j \in 2..Len(q) /\ j \in 1..Len(q) /\ p[j] = q[j]
        BY <3>2, <1>4, <2>2
      <4>2. q[j].v = Len(s.read) + j - 1 - Zeros(q, j)
        BY <4>1, <2>8, <1>7 DEF InStep, Counted
      <4> QED BY <4>1, <4>2, <2>1, <2>3
    <3> QED BY <3>1, <3>2
  <2>9. p # <<>>
    BY <1>4, <2>2
  <2>10. ReadInOrder(w)
    BY <2>1, <2>5 DEF ReadInOrder
  <2> QED BY Zenon, <1>2, <2>7, <2>8, <2>9, <2>10 DEF InStep, Counted
<1> QED BY <1>5, <1>6, <1>7

\* The request to shut down carries none.
LEMMA ZeroInStep ==
  ASSUME NEW s \in ServerType, NEW e \in Entry, InStep(s), OneEach(s.queue), NoZero(s.queue), e.by = 0
  PROVE  InStep(L!Joined(s, e)) /\ OneEach(L!Joined(s, e).queue)
<1> DEFINE q == s.queue
           p == Append(q, e)
           w == L!Joined(s, e)
<1>1. q \in Seq(Entry) /\ s.read \in Seq(Document) /\ s.version \in Nat
  BY DEF ServerType
<1>2. w \in ServerType /\ w.queue = p /\ w.process = s.process /\ w.version = s.version
  BY JoinedType
<1>3. p \in Seq(Entry) /\ Len(p) = Len(q) + 1 /\ p[Len(p)] = e /\ \A i \in 1..Len(q) : p[i] = q[i]
  BY <1>1
<1>4. w.read = s.read
  <2>1. CASE q = <<>>
    <3>1. Head(<<e>>) = e
      OBVIOUS
    <3> QED BY <2>1, <3>1 DEF L!Joined, L!Written, ServerType
  <2>2. CASE q # <<>>
    BY <2>2 DEF L!Joined, ServerType
  <2> QED BY <2>1, <2>2
<1>5. \A i \in 1..Len(q) : p[i].by # 0
  BY <1>3, <1>1 DEF NoZero
<1>6. OneEach(p)
  <2> SUFFICES ASSUME NEW i \in DOMAIN p, NEW j \in DOMAIN p, p[i].by = p[j].by PROVE i = j
    BY DEF OneEach
  <2>1. (i \in 1..Len(q) \/ i = Len(p)) /\ (j \in 1..Len(q) \/ j = Len(p))
    BY <1>1, <1>3
  <2>2. \A n, m \in 1..Len(q) : q[n].by = q[m].by => n = m
    BY <1>1 DEF OneEach
  <2> HIDE DEF p, q
  <2> QED BY <2>1, <2>2, <1>3, <1>5
<1>7. CASE s.process # "running"
  BY <1>2, <1>4, <1>6, <1>7 DEF InStep, ReadInOrder
<1>8. CASE s.process = "running" /\ q = <<>>
  <2>1. Len(q) = 0 /\ Len(p) = 1
    BY <1>8, <1>1, <1>3
  <2>2. s.version = Len(s.read) /\ ReadInOrder(s)
    BY <1>8 DEF InStep, Counted
  <2>3. Zeros(p, 1) = 0
    BY DEF Zeros
  <2>4. w.version = Len(w.read) + Len(p) - 1 - Zeros(p, Len(p))
    <3> HIDE DEF w, p, q
    <3> QED BY <1>1, <1>2, <1>4, <2>1, <2>2, <2>3
  <2>5. ReadInOrder(w)
    BY <1>4, <2>2 DEF ReadInOrder
  <2>6. p # <<>> /\ \A j \in 2..Len(p) : FALSE
    <3>1. p # <<>>
      BY <1>1, AppendProperties
    <3> HIDE DEF p
    <3> QED BY <2>1, <3>1
  <2>7. Counted(w)
    <3> HIDE DEF w, p
    <3> QED BY <1>2, <2>4, <2>6 DEF Counted
  <2> QED BY <1>6, <1>2, <2>5, <2>7 DEF InStep
<1>9. CASE s.process = "running" /\ q # <<>>
  <2>1. Len(q) \in Nat \ {0}
    BY <1>9, <1>1
  <2>2. \A j \in 1..Len(q) : Zeros(p, j) = 0 /\ Zeros(q, j) = 0
    <3>1. \A i \in 1..Len(q) : q[i].by # 0
      BY <1>1 DEF NoZero
    <3> QED BY <1>5, <3>1, <2>1 DEF Zeros
  <2>3. Zeros(p, Len(p)) = 1
    <3>1. Len(p) \in 2..Len(p)
      BY <1>3, <2>1
    <3> QED BY <3>1, <1>3 DEF Zeros
  <2>4. s.version = Len(s.read) + Len(q) - 1 /\ ReadInOrder(s)
    <3>1. Zeros(q, Len(q)) = 0
      BY <2>1, <2>2
    <3>2. s.version = Len(s.read) + Len(q) - 1 - Zeros(q, Len(q)) /\ ReadInOrder(s)
      BY <1>9 DEF InStep, Counted
    <3> HIDE DEF q
    <3> QED BY <3>1, <3>2, <1>1, <2>1
  <2>5. w.version = Len(w.read) + Len(p) - 1 - Zeros(p, Len(p))
    <3> HIDE DEF w, p, q
    <3> QED BY <1>1, <1>2, <1>3, <1>4, <2>1, <2>3, <2>4
  <2>6. ASSUME NEW j \in 2..Len(p), p[j].by # 0
        PROVE  p[j].v = Len(w.read) + j - 1 - Zeros(p, j)
    <3>1. j \in 2..Len(q) /\ j \in 1..Len(q) /\ p[j] = q[j]
      BY <2>6, <1>3, <2>1
    <3>2. q[j].v = Len(s.read) + j - 1 - Zeros(q, j)
      BY <3>1, <2>6, <1>9 DEF InStep, Counted
    <3> QED BY <3>1, <3>2, <1>4, <2>2
  <2>7. p # <<>> /\ ReadInOrder(w)
    BY <1>3, <1>4, <2>1, <2>4 DEF ReadInOrder
  <2> QED BY <1>2, <1>6, <2>5, <2>6, <2>7 DEF InStep, Counted
<1> QED BY <1>7, <1>8, <1>9

LEMMA RemovedEntry ==
  ASSUME NEW q \in Seq(Entry), NEW i \in DOMAIN q
  PROVE  /\ L!RemoveAt(q, i) \in Seq(Entry)
         /\ Len(L!RemoveAt(q, i)) = Len(q) - 1
         /\ \A j \in 1..Len(q) - 1 : L!RemoveAt(q, i)[j] = IF j < i THEN q[j] ELSE q[j + 1]
<1>1. i \in 1..Len(q) /\ Len(q) \in Nat
  OBVIOUS
<1>2. SubSeq(q, 1, i - 1) \in Seq(Entry) /\ Len(SubSeq(q, 1, i - 1)) = i - 1
         /\ \A j \in 1..i - 1 : SubSeq(q, 1, i - 1)[j] = q[j]
  BY <1>1
<1>3. SubSeq(q, i + 1, Len(q)) \in Seq(Entry) /\ Len(SubSeq(q, i + 1, Len(q))) = Len(q) - i
         /\ \A j \in 1..Len(q) - i : SubSeq(q, i + 1, Len(q))[j] = q[i + j]
  BY <1>1
<1> DEFINE a == SubSeq(q, 1, i - 1)
           b == SubSeq(q, i + 1, Len(q))
<1>4. L!RemoveAt(q, i) = a \o b
  BY DEF L!RemoveAt
<1>5. a \in Seq(Entry) /\ b \in Seq(Entry) /\ Len(a) = i - 1 /\ Len(b) = Len(q) - i
  BY <1>2, <1>3
<1>6. a \o b \in Seq(Entry) /\ Len(a \o b) = Len(q) - 1
         /\ \A j \in 1..Len(q) - 1 : (a \o b)[j] = IF j < i THEN a[j] ELSE b[j - i + 1]
  <2> HIDE DEF a, b
  <2> QED BY SMTT(60), <1>1, <1>5
<1>7. \A j \in 1..Len(q) - 1 : IF j < i THEN a[j] = q[j] ELSE b[j - i + 1] = q[j + 1]
  <2> SUFFICES ASSUME NEW j \in 1..Len(q) - 1
               PROVE  IF j < i THEN a[j] = q[j] ELSE b[j - i + 1] = q[j + 1]
    OBVIOUS
  <2>1. CASE j < i
    <3>1. j \in 1..i - 1
      BY <1>1, <2>1
    <3> QED BY <2>1, <3>1, <1>2
  <2>2. CASE ~(j < i)
    <3>1. j - i + 1 \in 1..Len(q) - i /\ i + (j - i + 1) = j + 1
      BY <1>1, <2>2
    <3> QED BY SMTT(60), <2>2, <3>1, <1>3
  <2> QED BY <2>1, <2>2
<1> HIDE DEF a, b
<1> QED BY <1>1, <1>4, <1>6, <1>7

\* What the calls, the manager and the servers know of each other.
CallsKnow ==
  \A c \in Calls :
    /\ L!At(c) \notin {"idle"} \cup L!Over => calls[c].key \in Keys
    /\ L!At(c) \in {"starting", "leaving", "reading", "writing", "hearing"} =>
         calls[c].uses \in DOMAIN servers
    /\ L!At(c) \in {"reading", "writing", "hearing"} =>
         servers[calls[c].uses].at \in {"ready", "closed"}
ServersKnow ==
  \A t \in DOMAIN servers :
    /\ servers[t].at \in {"queued", "launching"} => servers[t].process = "none"
    /\ servers[t].at \in {"asking", "ready"} => servers[t].process # "none"
    /\ servers[t].at = "closed" => servers[t].process = "gone"
    /\ servers[t].process = "none" =>
         servers[t].queue = <<>> /\ servers[t].version = 0 /\ servers[t].read = <<>>
    /\ servers[t].cut => servers[t].at = "cut"
    /\ t \in doomedStarts => servers[t].at \in L!Starting
KeysKnow ==
  \A k \in Keys :
    /\ clients[k] # 0 =>
         servers[clients[k]].key = k /\ servers[clients[k]].at \in {"ready", "closed"}
    /\ spawning[k] # 0 => servers[spawning[k]].key = k

\* While the session is open, every server that was not cut is accounted for.
Owned ==
  closing = "no" =>
    \A t \in DOMAIN servers : ~servers[t].cut =>
      \/ servers[t].at \in L!Starting /\ spawning[servers[t].key] = t
      \/ servers[t].at = "ready" /\ clients[servers[t].key] = t
      \/ servers[t].at = "failed" /\ servers[t].key \in broken

\* The documents, and who has the writer lock.
Documents == \A t \in DOMAIN servers : ~servers[t].lost => InStep(servers[t])
Locks ==
  \A t \in DOMAIN servers :
    /\ OneEach(servers[t].queue)
    /\ NoZero(servers[t].queue) \/ (closing = "writing" /\ talks = t)

\* A call has one message, and waits until it is written.
Writers ==
  \A t \in DOMAIN servers : \A i \in DOMAIN servers[t].queue :
    LET c == servers[t].queue[i].by IN c # 0 => L!At(c) = "writing" /\ calls[c].uses = t

\* The shutdown: the starts it finds are doomed (Begun), it talks to a client it
\* knows (Spoken), and the ready servers it found are still to be terminated (Listed).
Talking == {"next", "writing", "asking", "ending"}
Begun == closing # "no" => \A t \in 1..fence : servers[t].at \in L!Starting => t \in doomedStarts
Spoken ==
  closing \in {"writing", "asking", "ending"} =>
    talks \in DOMAIN servers /\ servers[talks].at \in {"ready", "closed"}
Listed ==
  closing \in Talking =>
    /\ \A k \in left : clients[k] # 0
    /\ \A t \in 1..fence : servers[t].at = "ready" =>
         /\ clients[servers[t].key] = t
         /\ \A u \in DOMAIN servers : u > fence => servers[u].key # servers[t].key
         /\ servers[t].key \in left \/ (closing # "next" /\ talks = t)
Finished == closing = "done" => \A t \in 1..fence : servers[t].at # "ready"

Inv ==
  /\ Types /\ CallsKnow /\ ServersKnow /\ KeysKnow /\ Owned /\ L!OneStartPerKey
  /\ Documents /\ Locks /\ Writers /\ Begun /\ Spoken /\ Listed /\ Finished

LEMMA ServerTypes ==
  ASSUME Types, NEW t \in DOMAIN servers
  PROVE  /\ servers[t] \in ServerType /\ t \in Nat \ {0} /\ t \in 1..Len(servers)
         /\ servers[t].queue \in Seq(Entry)
         /\ \A i \in DOMAIN servers[t].queue : servers[t].queue[i] \in Entry
<1>1. servers[t] \in ServerType /\ t \in Nat \ {0} /\ t \in 1..Len(servers)
  BY DEF Types
<1>2. servers[t].queue \in Seq(Entry)
  BY <1>1 DEF ServerType
<1>3. \A i \in DOMAIN servers[t].queue : servers[t].queue[i] \in Entry
  BY <1>2
<1> QED BY <1>1, <1>2, <1>3

LEMMA InitInv == L!Init => Inv
<1> SUFFICES ASSUME L!Init PROVE Inv
  OBVIOUS
<1>1. servers = <<>> /\ DOMAIN servers = {} /\ Len(servers) = 0
  BY DEF L!Init
<1>2. Types
  BY <1>1, BoundsAssumption DEF L!Init, Types, L!Call, CallType, L!BoundsOK
<1>3. CallsKnow
  BY BoundsAssumption DEF L!Init, CallsKnow, L!At, L!Call
<1> QED BY <1>1, <1>2, <1>3 DEF L!Init, Inv, ServersKnow, KeysKnow, Owned, L!OneStartPerKey, Documents,
           Locks, Writers, Begun, Spoken, Listed, Finished, Talking

\* A server that is changed, and one that is added.
LEMMA OneServer ==
  ASSUME Types, NEW t \in DOMAIN servers, NEW s \in ServerType, servers' = [servers EXCEPT ![t] = s]
  PROVE  /\ servers' \in Seq(ServerType) /\ DOMAIN servers' = DOMAIN servers
         /\ Len(servers') = Len(servers) /\ servers'[t] = s
         /\ \A u \in DOMAIN servers : u # t => servers'[u] = servers[u]
BY DEF Types

LEMMA NewServer ==
  ASSUME Types, NEW k \in Keys, servers' = Append(servers, L!Server(k))
  PROVE  /\ servers' \in Seq(ServerType) /\ L!Server(k) \in ServerType
         /\ Len(servers') = Len(servers) + 1 /\ servers'[Len(servers) + 1] = L!Server(k)
         /\ \A u \in DOMAIN servers : servers'[u] = servers[u]
<1>1. L!Server(k) \in ServerType
  BY DEF L!Server, ServerType, Stages, L!Starting
<1> QED BY <1>1 DEF Types

CallStages == {"idle", "rooting", "starting", "leaving", "reading", "writing", "hearing"} \cup L!Over

\* A call that becomes r.
LEMMA OneCall ==
  ASSUME Types, NEW c \in Calls, NEW r \in CallType, calls' = [calls EXCEPT ![c] = r]
  PROVE  /\ calls' \in [Calls -> CallType] /\ calls'[c] = r
         /\ \A d \in Calls : d # c => calls'[d] = calls[d]
BY DEF Types

LEMMA LeavesTypes ==
  ASSUME Types, NEW c \in Calls, NEW how \in L!Over, L!Leaves(c, how)
  PROVE  /\ calls' \in [Calls -> CallType]
         /\ \A d \in Calls : d # c => calls'[d] = calls[d]
         /\ calls'[c].at \in L!Over
<1>1. L!Call(0, how, 0, 0, 0) \in CallType /\ L!Call(0, how, 0, 0, 0).at = how
  <2>1. how \in CallStages /\ 0 \in Keys \cup {0} /\ 0 \in 0..2 /\ 0 \in Nat
    BY DEF CallStages
  <2> QED BY <2>1 DEF L!Call, CallType, CallStages
<1> QED BY Zenon, <1>1, OneCall DEF L!Leaves

LEMMA ProceedsTypes ==
  ASSUME Types, NEW c \in Calls, L!Proceeds(c)
  PROVE  /\ calls' \in [Calls -> CallType]
         /\ \A d \in Calls : d # c => calls'[d] = calls[d]
         /\ calls'[c].at \in {"rooting", "done"} /\ (calls'[c].at = "rooting" => calls'[c].key = calls[c].key)
<1>1. calls[c].key \in Keys \cup {0} /\ calls[c].text \in Nat
  BY DEF Types, CallType
<1>2. CASE calls' = [calls EXCEPT ![c] = L!Call(calls[c].key, "rooting", 2, 0, calls[c].text)]
  <2> DEFINE r == L!Call(calls[c].key, "rooting", 2, 0, calls[c].text)
  <2>1. r \in CallType /\ r.at = "rooting" /\ r.key = calls[c].key
    <3>1. "rooting" \in CallStages /\ 2 \in 0..2 /\ 0 \in Nat
      BY DEF CallStages
    <3> QED BY <1>1, <3>1 DEF L!Call, CallType, CallStages
  <2> HIDE DEF r
  <2> QED BY Zenon, <1>2, <2>1, OneCall DEF r
<1>3. CASE L!Leaves(c, "done")
  <2>1. L!Call(0, "done", 0, 0, 0) \in CallType /\ L!Call(0, "done", 0, 0, 0).at = "done"
    <3>1. "done" \in CallStages /\ 0 \in Keys \cup {0} /\ 0 \in 0..2 /\ 0 \in Nat
      BY DEF CallStages, L!Over
    <3> QED BY <3>1 DEF L!Call, CallType, CallStages
  <2> QED BY Zenon, <1>3, <2>1, OneCall DEF L!Leaves
<1>4. L!Proceeds(c) =>
        L!Leaves(c, "done") \/ calls' = [calls EXCEPT ![c] = L!Call(calls[c].key, "rooting", 2, 0, calls[c].text)]
  BY DEF Types, L!Proceeds
<1> QED BY <1>2, <1>3, <1>4

LEMMA UsesTypes ==
  ASSUME Types, NEW c \in Calls, NEW t \in DOMAIN servers, L!Uses(c, t)
  PROVE  /\ calls' \in [Calls -> CallType]
         /\ \A d \in Calls : d # c => calls'[d] = calls[d]
         /\ calls'[c].at \in {"reading", "hearing"} /\ calls'[c].key = calls[c].key /\ calls'[c].uses = t
<1>1. calls[c].key \in Keys \cup {0} /\ calls[c].text \in Nat /\ calls[c].round \in 0..2 /\ t \in Nat
  BY DEF Types, CallType
<1> DEFINE r == L!Call(calls[c].key, IF calls[c].round = 1 THEN "reading" ELSE "hearing",
                      calls[c].round, t, calls[c].text)
<1>2. calls' = [calls EXCEPT ![c] = r]
  BY DEF Types, L!Uses
<1>3. r \in CallType /\ r.at \in {"reading", "hearing"} /\ r.key = calls[c].key /\ r.uses = t
  <2>1. {"reading", "hearing", "starting"} \subseteq CallStages
    BY DEF CallStages
  <2> QED BY <1>1, <2>1 DEF L!Call, CallType, CallStages
<1> HIDE DEF r
<1> QED BY Zenon, <1>2, <1>3, OneCall

LEMMA AwaitsTypes ==
  ASSUME Types, NEW c \in Calls, NEW t \in Nat, L!Awaits(c, t)
  PROVE  /\ calls' \in [Calls -> CallType]
         /\ \A d \in Calls : d # c => calls'[d] = calls[d]
         /\ calls'[c].at = "starting" /\ calls'[c].key = calls[c].key /\ calls'[c].uses = t
<1>1. calls[c].key \in Keys \cup {0} /\ calls[c].text \in Nat /\ calls[c].round \in 0..2
  BY DEF Types, CallType
<1> DEFINE r == L!Call(calls[c].key, "starting", calls[c].round, t, calls[c].text)
<1>2. calls' = [calls EXCEPT ![c] = r]
  BY DEF Types, L!Awaits
<1>3. r \in CallType /\ r.at = "starting" /\ r.key = calls[c].key /\ r.uses = t
  <2>1. {"reading", "hearing", "starting"} \subseteq CallStages
    BY DEF CallStages
  <2> QED BY <1>1, <2>1 DEF L!Call, CallType, CallStages
<1> HIDE DEF r
<1> QED BY Zenon, <1>2, <1>3, OneCall

\* What the calls know, when one moves on.
LEMMA CallMoves ==
  ASSUME CallsKnow, NEW c \in Calls, \A d \in Calls : d # c => calls'[d] = calls[d],
         DOMAIN servers \subseteq DOMAIN servers',
         \A t \in DOMAIN servers :
           servers[t].at \in {"ready", "closed"} => servers'[t].at \in {"ready", "closed"},
         calls'[c].at \notin {"idle"} \cup L!Over => calls'[c].key \in Keys,
         calls'[c].at \in {"starting", "leaving", "reading", "writing", "hearing"} =>
           calls'[c].uses \in DOMAIN servers',
         calls'[c].at \in {"reading", "writing", "hearing"} =>
           servers'[calls'[c].uses].at \in {"ready", "closed"}
  PROVE  CallsKnow'
<1> SUFFICES ASSUME NEW d \in Calls
    PROVE /\ calls'[d].at \notin {"idle"} \cup L!Over => calls'[d].key \in Keys
          /\ calls'[d].at \in {"starting", "leaving", "reading", "writing", "hearing"} =>
               calls'[d].uses \in DOMAIN servers'
          /\ calls'[d].at \in {"reading", "writing", "hearing"} =>
               servers'[calls'[d].uses].at \in {"ready", "closed"}
  BY DEF CallsKnow, L!At
<1>1. CASE d = c
  BY <1>1
<1>2. CASE d # c
  BY <1>2 DEF CallsKnow, L!At
<1> QED BY <1>1, <1>2

\* Steps of one call that writes nothing, by which no server changes.
LEMMA CallOnly ==
  ASSUME Inv, NEW c \in Calls, calls' \in [Calls -> CallType],
         \A d \in Calls : d # c => calls'[d] = calls[d], L!At(c) # "writing",
         calls'[c].at \notin {"idle"} \cup L!Over => calls'[c].key \in Keys,
         calls'[c].at \in {"starting", "leaving", "reading", "writing", "hearing"} =>
           calls'[c].uses \in DOMAIN servers,
         calls'[c].at \in {"reading", "writing", "hearing"} =>
           servers[calls'[c].uses].at \in {"ready", "closed"},
         disk' \in Nat, UNCHANGED <<servers, doomedStarts, L!manager, L!ending>>
  PROVE  Inv'
<1>1. Types'
  BY DEF Inv, Types, L!manager, L!ending
<1>2. CallsKnow'
  BY CallMoves DEF Inv
<1>3. Writers'
  <2> SUFFICES ASSUME NEW t \in DOMAIN servers, NEW i \in DOMAIN servers[t].queue,
                      servers[t].queue[i].by # 0
               PROVE  LET d == servers[t].queue[i].by IN calls'[d].at = "writing" /\ calls'[d].uses = t
    BY DEF Writers, L!At
  <2>1. servers[t].queue[i] \in Entry
    BY ServerTypes DEF Inv
  <2> QED BY <2>1 DEF Inv, Writers, L!At, Entry
<1> QED BY <1>1, <1>2, <1>3 DEF Inv, ServersKnow, KeysKnow, Owned, L!OneStartPerKey, Documents, Locks,
           Begun, Spoken, Listed, Finished, L!manager, L!ending

LEMMA BeginStep ==
  ASSUME Inv, NEW c \in Calls, NEW k \in Keys, L!Begin(c, k) PROVE Inv'
<1> DEFINE r == L!Call(k, "rooting", 1, 0, 0)
<1>1. r \in CallType /\ r.at = "rooting" /\ r.key = k
  BY DEF L!Call, CallType
<1>2. calls' = [calls EXCEPT ![c] = r] /\ disk' \in Nat /\ L!At(c) # "writing" /\ Types
        /\ UNCHANGED <<servers, doomedStarts, L!manager, L!ending>>  BY DEF L!Begin, Inv, Types
<1> HIDE DEF r
<1>3. calls' \in [Calls -> CallType] /\ calls'[c] = r /\ \A d \in Calls : d # c => calls'[d] = calls[d]
  BY Zenon, <1>1, <1>2, OneCall
<1> QED BY <1>1, <1>2, <1>3, CallOnly

LEMMA StartedStep ==
  ASSUME Inv, NEW c \in Calls, L!Started(c) PROVE Inv'
<1>1. calls[c].key \in Keys /\ calls[c].uses \in DOMAIN servers /\ Types /\ L!At(c) # "writing"
  BY Zenon DEF Inv, CallsKnow, L!Started, L!At, L!Over
<1>0. disk' \in Nat
      /\ UNCHANGED <<servers, doomedStarts, L!manager, L!ending>>
  BY Zenon DEF L!Started, Inv, Types
<1>2. CASE L!Leaves(c, "timed out") \/ L!Leaves(c, "cancelled")
  BY Zenon, <1>0, <1>1, <1>2, LeavesTypes, CallOnly DEF L!Over
<1>3. CASE servers[calls[c].uses].at \in {"ready", "closed"} /\ L!Uses(c, calls[c].uses)
  BY <1>0, <1>1, <1>3, UsesTypes, CallOnly
<1>4. CASE L!Proceeds(c)
  BY Zenon, <1>0, <1>1, <1>4, ProceedsTypes, CallOnly DEF L!Over
<1> QED BY Zenon, <1>2, <1>3, <1>4 DEF L!Started

LEMMA ReadStep ==
  ASSUME Inv, NEW c \in Calls, L!Read(c) PROVE Inv'
<1>0. Types /\ disk' \in Nat /\ L!At(c) = "reading"
      /\ UNCHANGED <<servers, doomedStarts, L!manager, L!ending>>
  BY DEF L!Read, Inv, Types
<1> DEFINE r == [calls[c] EXCEPT !.text = disk]
<1>1. /\ calls' \in [Calls -> CallType] /\ \A d \in Calls : d # c => calls'[d] = calls[d]
      /\ calls'[c].at = "reading" /\ calls'[c].key = calls[c].key /\ calls'[c].uses = calls[c].uses
  <2>1. calls[c] \in CallType /\ disk \in Nat
    BY <1>0 DEF Types
  <2>2. r \in CallType /\ r.at = "reading" /\ r.key = calls[c].key /\ r.uses = calls[c].uses
    BY <1>0, <2>1 DEF CallType, L!At
  <2>3. calls' = [calls EXCEPT ![c] = r]
    BY DEF L!Read
  <2> HIDE DEF r
  <2> QED BY Zenon, <1>0, <2>2, <2>3, OneCall
<1>2. calls[c].key \in Keys /\ calls[c].uses \in DOMAIN servers
        /\ servers[calls[c].uses].at \in {"ready", "closed"}
  BY Zenon, <1>0 DEF Inv, CallsKnow, L!At, L!Over
<1> QED BY <1>0, <1>1, <1>2, CallOnly

LEMMA CannotReadStep ==
  ASSUME Inv, NEW c \in Calls, L!CannotRead(c) PROVE Inv'
<1>1. Types /\ disk' \in Nat /\ L!At(c) # "writing"
      /\ UNCHANGED <<servers, doomedStarts, L!manager, L!ending>>
  BY DEF L!CannotRead, Inv, Types
<1>2. CASE L!Leaves(c, "done")
  BY Zenon, <1>1, <1>2, LeavesTypes, CallOnly DEF L!Over
<1>3. CASE L!At(c) = "reading" /\ L!Proceeds(c)
  <2>1. calls[c].key \in Keys
    BY Zenon, <1>3 DEF Inv, CallsKnow, L!At, L!Over
  <2> QED BY Zenon, <1>1, <1>3, <2>1, ProceedsTypes, CallOnly DEF L!Over
<1> QED BY <1>2, <1>3 DEF L!CannotRead

LEMMA HearStep ==
  ASSUME Inv, NEW c \in Calls, L!Hear(c) PROVE Inv'
<1>1. Types /\ disk' \in Nat /\ L!At(c) # "writing" /\ L!Leaves(c, "done")
        /\ UNCHANGED <<servers, doomedStarts, L!manager, L!ending>>  BY DEF L!Hear, Inv, Types
<1> QED BY Zenon, <1>1, LeavesTypes, CallOnly DEF L!Over

\* A queue that an entry has left.
LEMMA Shrunk ==
  ASSUME NEW q \in Seq(Entry), NEW i \in DOMAIN q, NEW p \in Seq(Entry), Len(p) = Len(q) - 1,
         \A j \in 1..Len(q) - 1 : p[j] = IF j < i THEN q[j] ELSE q[j + 1]
  PROVE  /\ \A j \in DOMAIN p : \E k \in DOMAIN q : k # i /\ p[j] = q[k]
         /\ OneEach(q) => OneEach(p)
         /\ NoZero(q) => NoZero(p)
         /\ OneEach(q) /\ q[i].by = 0 => NoZero(p)
<1> DEFINE m(j) == IF j < i THEN j ELSE j + 1
<1>1. i \in 1..Len(q) /\ Len(q) \in Nat /\ DOMAIN p = 1..Len(q) - 1 /\ DOMAIN q = 1..Len(q)
  OBVIOUS
<1>2. \A j \in DOMAIN p : m(j) \in DOMAIN q /\ m(j) # i /\ p[j] = q[m(j)]
  BY <1>1
<1>3. \A j, k \in DOMAIN p : m(j) = m(k) => j = k
  BY <1>1
<1> HIDE DEF m
<1>4. OneEach(q) => OneEach(p)
  BY <1>2, <1>3 DEF OneEach
<1> QED BY <1>2, <1>4 DEF NoZero, OneEach

\* The first entry is the one that has the lock.
LEMMA TailShrinks ==
  ASSUME NEW q \in Seq(Entry), q # <<>>
  PROVE  /\ Tail(q) \in Seq(Entry) /\ 1 \in DOMAIN q /\ Head(q) = q[1] /\ Len(Tail(q)) = Len(q) - 1
         /\ \A j \in 1..Len(q) - 1 : Tail(q)[j] = IF j < 1 THEN q[j] ELSE q[j + 1]
BY DEF Entry

\* A server that stays at its stage, in use or not.
LEMMA FileStep ==
  ASSUME Inv, NEW t \in DOMAIN servers, NEW s \in ServerType, servers' = [servers EXCEPT ![t] = s],
         s.key = servers[t].key, s.at = servers[t].at, s.cut = servers[t].cut,
         servers[t].process # "none",
         s.process = servers[t].process \/ s.process = "gone",
         calls' \in [Calls -> CallType], CallsKnow', Writers', Locks',
         ~s.lost => ~servers[t].lost /\ InStep(s),
         UNCHANGED <<disk, doomedStarts, L!manager, fence>>,
         closing' \in {"no", "next", "writing", "asking", "ending", "done", "raised"},
         left' \subseteq Keys, talks' \in Nat, Spoken', Listed',
         closing' = "no" <=> closing = "no", closing' = "done" <=> closing = "done"
  PROVE  Inv'
<1>1. /\ servers' \in Seq(ServerType) /\ DOMAIN servers' = DOMAIN servers
      /\ Len(servers') = Len(servers) /\ servers'[t] = s
      /\ \A u \in DOMAIN servers : u # t => servers'[u] = servers[u]
  BY Zenon, OneServer DEF Inv
<1>2. /\ \A u \in DOMAIN servers : servers'[u].key = servers[u].key /\ servers'[u].at = servers[u].at
            /\ servers'[u].cut = servers[u].cut
            /\ (servers'[u].process = servers[u].process \/ servers'[u].process = "gone")
            /\ (servers'[u].process = "none" => u # t)
      /\ UNCHANGED <<clients, broken, spawning, doomedStarts, fence>>
  BY Zenon, <1>1 DEF ServerType, L!manager
<1>3. Types'
  BY <1>1, <1>2 DEF Inv, Types
<1>4. ServersKnow'
  BY <1>1, <1>2 DEF Inv, ServersKnow
<1>5. KeysKnow'
  <2>1. \A k \in Keys : clients[k] # 0 => clients[k] \in DOMAIN servers
    BY DEF Inv, Types
  <2>2. \A k \in Keys : spawning[k] # 0 => spawning[k] \in DOMAIN servers
    BY DEF Inv, Types
  <2> QED BY <1>1, <1>2, <2>1, <2>2 DEF Inv, KeysKnow
<1>6. Owned' /\ L!OneStartPerKey'
  BY <1>1, <1>2 DEF Inv, Owned, L!OneStartPerKey
<1>7. Documents'
  BY <1>1 DEF Inv, Documents
<1>8. Begun' /\ Finished'
  <2>1. \A u \in 1..fence : u \in DOMAIN servers
    BY DEF Inv, Types
  <2> QED BY <1>1, <1>2, <2>1 DEF Inv, Begun, Finished
<1> QED BY <1>3, <1>4, <1>5, <1>6, <1>7, <1>8 DEF Inv

\* The shutdown sees stages, keys and clients only.
LEMMA Unseen ==
  ASSUME Inv, DOMAIN servers' = DOMAIN servers,
         \A u \in DOMAIN servers : servers'[u].key = servers[u].key /\ servers'[u].at = servers[u].at,
         UNCHANGED <<clients, L!ending>>
  PROVE  Spoken' /\ Listed'
<1>1. \A u \in 1..fence : u \in DOMAIN servers
  BY DEF Inv, Types
<1> QED BY <1>1 DEF Inv, Spoken, Listed, L!ending
LEMMA WritersStep ==
  ASSUME Inv, NEW t \in DOMAIN servers, NEW s \in ServerType, servers' = [servers EXCEPT ![t] = s],
         \A d \in Calls : calls'[d] = calls[d] \/ L!At(d) # "writing" \/ calls[d].uses = t,
         \A i \in DOMAIN s.queue : LET d == s.queue[i].by IN
           d # 0 => calls'[d].at = "writing" /\ calls'[d].uses = t
  PROVE  Writers'
<1>1. /\ DOMAIN servers' = DOMAIN servers /\ servers'[t] = s
      /\ \A u \in DOMAIN servers : u # t => servers'[u] = servers[u]
  BY OneServer DEF Inv
<1> SUFFICES ASSUME NEW u \in DOMAIN servers, NEW i \in DOMAIN servers'[u].queue,
                    servers'[u].queue[i].by # 0
             PROVE  LET d == servers'[u].queue[i].by IN calls'[d].at = "writing" /\ calls'[d].uses = u
  BY <1>1 DEF Writers, L!At
<1>2. CASE u = t
  BY <1>1, <1>2
<1>3. CASE u # t
  <2>1. servers'[u] = servers[u] /\ servers[u].queue[i] \in Entry
    BY <1>1, <1>3, ServerTypes DEF Inv
  <2> DEFINE d == servers[u].queue[i].by
  <2>2. d \in Calls /\ L!At(d) = "writing" /\ calls[d].uses = u
    BY <2>1 DEF Inv, Writers, Entry
  <2>3. calls'[d] = calls[d]
    BY <1>3, <2>2
  <2> QED BY <2>1, <2>2, <2>3 DEF L!At
<1> QED BY <1>2, <1>3

LEMMA LocksStep ==
  ASSUME Inv, NEW t \in DOMAIN servers, NEW s \in ServerType, servers' = [servers EXCEPT ![t] = s],
         OneEach(s.queue), NoZero(servers[t].queue) => NoZero(s.queue), UNCHANGED <<closing, talks>>
  PROVE  Locks'
<1>1. /\ DOMAIN servers' = DOMAIN servers /\ servers'[t] = s
      /\ \A u \in DOMAIN servers : u # t => servers'[u] = servers[u]
  BY OneServer DEF Inv
<1> QED BY <1>1 DEF Inv, Locks

\* A server that changes without the shutdown, the manager and the queues.
LEMMA PublishStep ==
  ASSUME Inv, NEW t \in DOMAIN servers, L!Publish(t) \/ L!Exit(t) PROVE Inv'
<1>1. servers[t] \in ServerType /\ Types /\ calls \in [Calls -> CallType]
  BY ServerTypes DEF Inv, Types
<1>2. PICK s \in ServerType :
        /\ servers' = [servers EXCEPT ![t] = s]
        /\ s.key = servers[t].key /\ s.at = servers[t].at /\ s.cut = servers[t].cut
        /\ s.queue = servers[t].queue /\ s.read = servers[t].read /\ s.version = servers[t].version
        /\ s.lost = servers[t].lost /\ servers[t].process # "none"
        /\ (s.process = servers[t].process \/ s.process = "gone")
  <2>1. CASE L!Publish(t)
    <3>1. PICK i \in DOMAIN servers[t].read : servers' = [servers EXCEPT ![t].told = i]
      BY Zenon, <2>1 DEF L!Publish
    <3>2. i \in Nat
      BY <1>1 DEF ServerType
    <3> DEFINE s == [servers[t] EXCEPT !.told = i]
    <3>3. servers' = [servers EXCEPT ![t] = s]
      BY <3>1
    <3>4. s \in ServerType /\ s.key = servers[t].key /\ s.at = servers[t].at /\ s.cut = servers[t].cut
          /\ s.queue = servers[t].queue /\ s.read = servers[t].read /\ s.version = servers[t].version
          /\ s.lost = servers[t].lost /\ s.process = servers[t].process
      BY <1>1, <3>2 DEF ServerType
    <3>5. servers[t].process # "none"
      BY <2>1 DEF L!Publish
    <3> HIDE DEF s
    <3> QED BY Zenon, <3>3, <3>4, <3>5
  <2>2. CASE L!Exit(t)
    <3> DEFINE s == [servers[t] EXCEPT !.process = "gone"]
    <3>3. servers' = [servers EXCEPT ![t] = s]
      BY <2>2 DEF L!Exit
    <3>4. s \in ServerType /\ s.key = servers[t].key /\ s.at = servers[t].at /\ s.cut = servers[t].cut
          /\ s.queue = servers[t].queue /\ s.read = servers[t].read /\ s.version = servers[t].version
          /\ s.lost = servers[t].lost /\ s.process = "gone"
      BY Zenon, <1>1 DEF ServerType
    <3>5. servers[t].process # "none"
      BY <2>2 DEF L!Exit
    <3> HIDE DEF s
    <3> QED BY Zenon, <3>3, <3>4, <3>5
  <2> QED BY <2>1, <2>2
<1>3. UNCHANGED <<L!tools, doomedStarts, L!manager, L!ending>>
  BY DEF L!Publish, L!Exit
<1>4. /\ DOMAIN servers' = DOMAIN servers /\ servers'[t] = s
      /\ \A u \in DOMAIN servers : u # t => servers'[u] = servers[u]
  BY <1>2, OneServer DEF Inv
<1>5. CallsKnow' /\ Writers' /\ Locks'
  <2>1. \A u \in DOMAIN servers : servers'[u].at = servers[u].at /\ servers'[u].queue = servers[u].queue
    BY <1>2, <1>4
  <2> QED BY <1>3, <1>4, <2>1 DEF Inv, CallsKnow, Writers, Locks, L!At, L!tools, L!ending
<1>6. Spoken' /\ Listed'
  BY <1>2, <1>3, <1>4, Unseen DEF L!manager
<1>7. ~s.lost => InStep(s)
  <2>1. ~servers[t].lost => InStep(servers[t])
    BY DEF Inv, Documents
  <2>2. InStep(servers[t]) => InStep(s)
    BY <1>2 DEF InStep, ReadInOrder, Counted
  <2> QED BY <1>2, <2>1, <2>2
<1> QED BY Zenon, <1>1, <1>2, <1>3, <1>5, <1>6, <1>7, FileStep DEF L!tools, L!ending, Inv, Types

LEMMA TouchStep ==
  ASSUME Inv, NEW c \in Calls, L!Touch(c) PROVE Inv'
<1> DEFINE t == calls[c].uses
           r == [servers[t] EXCEPT !.version = @ + 1]
           e == [by |-> c, v |-> r.version, text |-> calls[c].text]
<1>1. L!At(c) = "reading" /\ t \in DOMAIN servers /\ calls[c].key \in Keys /\ Types
        /\ servers[t].at \in {"ready", "closed"}
  BY Zenon DEF L!Touch, Inv, CallsKnow, L!At, L!Over
<1>2. servers[t] \in ServerType /\ calls[c] \in CallType /\ servers[t].process # "none"
        /\ servers[t].queue \in Seq(Entry)
        /\ (~servers[t].lost => InStep(servers[t]))
  BY <1>1, ServerTypes DEF Inv, Types, ServersKnow, Documents
<1>3. r \in ServerType /\ r.version = servers[t].version + 1 /\ r.queue = servers[t].queue
        /\ r.read = servers[t].read /\ r.lost = servers[t].lost
        /\ r.process = servers[t].process /\ r.key = servers[t].key /\ r.at = servers[t].at
        /\ r.cut = servers[t].cut
  BY SMTT(60), <1>2 DEF ServerType
<1>4. UNCHANGED <<disk, doomedStarts, L!manager, L!ending>>
  BY DEF L!Touch
<1>5. ASSUME NEW s \in ServerType, servers' = [servers EXCEPT ![t] = s],
             s.key = servers[t].key, s.at = servers[t].at, s.cut = servers[t].cut,
             s.process = servers[t].process, s.lost = servers[t].lost,
             ~s.lost => InStep(s), OneEach(s.queue), NoZero(servers[t].queue) => NoZero(s.queue),
             \A i \in DOMAIN s.queue : LET d == s.queue[i].by IN
               d # 0 => calls'[d].at = "writing" /\ calls'[d].uses = t,
             calls' \in [Calls -> CallType], \A d \in Calls : d # c => calls'[d] = calls[d],
             \/ calls'[c].at \in {"rooting", "done"} /\ (calls'[c].at = "rooting" => calls'[c].key = calls[c].key)
             \/ calls'[c].at = "writing" /\ calls'[c].uses = t /\ calls'[c].key = calls[c].key
      PROVE  Inv'
  <2> HIDE DEF t, r, e
  <2>1. Writers'
    BY Zenon, <1>1, <1>5, WritersStep
  <2>2. Locks'
    BY Zenon, <1>1, <1>4, <1>5, LocksStep DEF L!ending
  <2>3. /\ DOMAIN servers' = DOMAIN servers
        /\ \A u \in DOMAIN servers : servers'[u].at = servers[u].at /\ servers'[u].key = servers[u].key
    BY <1>1, <1>5, OneServer
  <2>4. CallsKnow'
    <3>1. CallsKnow
      BY DEF Inv
    <3>2. calls'[c].at \notin {"idle"} \cup L!Over => calls'[c].key \in Keys
      BY Zenon, <1>1, <1>5 DEF L!Over
    <3> QED BY <1>1, <1>5, <2>3, <3>1, <3>2, CallMoves
  <2>5. Spoken' /\ Listed'
    BY <1>4, <2>3, Unseen DEF L!manager
  <2>6. /\ closing' \in {"no", "next", "writing", "asking", "ending", "done", "raised"}
        /\ left' \subseteq Keys /\ talks' \in Nat /\ closing' = closing /\ fence' = fence
    BY <1>4 DEF L!ending, Inv, Types
  <2> QED BY Zenon, <1>1, <1>2, <1>4, <1>5, <2>1, <2>2, <2>4, <2>5, <2>6, FileStep
<1>6. CASE servers[t].at = "closed"
  <2>1. servers' = [servers EXCEPT ![t] = r] /\ L!Proceeds(c)
    BY <1>6, <1>3 DEF L!Touch
  <2>2. r.process # "running"
    BY <1>1, <1>3, <1>6 DEF Inv, ServersKnow
  <2>3. ~r.lost => InStep(r)
    BY <1>2, <1>3, <2>2 DEF InStep, ReadInOrder
  <2>4. calls' \in [Calls -> CallType] /\ \A d \in Calls : d # c => calls'[d] = calls[d]
    BY <1>1, <2>1, ProceedsTypes
  <2>5. calls'[c].at \in {"rooting", "done"} /\ (calls'[c].at = "rooting" => calls'[c].key = calls[c].key)
    BY <1>1, <2>1, ProceedsTypes
  <2>6. OneEach(r.queue) /\ (NoZero(servers[t].queue) => NoZero(r.queue))
    BY <1>1, <1>3 DEF Inv, Locks
  <2>7. \A i \in DOMAIN r.queue : LET d == r.queue[i].by IN
               d # 0 => calls'[d].at = "writing" /\ calls'[d].uses = t
    <3> SUFFICES ASSUME NEW i \in DOMAIN servers[t].queue, servers[t].queue[i].by # 0
                 PROVE  LET d == servers[t].queue[i].by IN calls'[d].at = "writing" /\ calls'[d].uses = t
      BY <1>3
    <3>1. servers[t].queue[i].by \in Calls
      BY <1>1, ServerTypes DEF Entry
    <3> QED BY SMTT(60), <1>1, <2>4, <3>1 DEF Inv, Writers, L!At
  <2> HIDE DEF r, t
  <2> QED BY Zenon, <1>3, <1>5, <2>1, <2>3, <2>4, <2>5, <2>6, <2>7
<1>7. CASE servers[t].at # "closed"
  <2> DEFINE s == L!Joined(r, e)
  <2>1. servers' = [servers EXCEPT ![t] = s] /\ L!Goes(c, "writing")
    BY <1>7, <1>3 DEF L!Touch
  <2>2. e \in Entry /\ e.by = c /\ e.v = servers[t].version + 1 /\ c # 0
    BY Zenon, <1>2, <1>3, BoundsAssumption DEF Entry, CallType, ServerType, L!BoundsOK
  <2>3. s \in ServerType /\ s.process = r.process /\ s.at = r.at /\ s.key = r.key /\ s.cut = r.cut
          /\ s.version = r.version /\ s.lost = r.lost /\ s.queue = Append(r.queue, e)
    <3> HIDE DEF r, e, t
    <3> QED BY <1>3, <2>2, JoinedType
  <2>4. ~s.lost => InStep(s)
    <3>1. CASE ~servers[t].lost
      <4> HIDE DEF e, t
      <4>1. InStep(L!Joined([servers[t] EXCEPT !.version = @ + 1], e))
        BY <1>2, <2>2, <3>1, JoinedInStep
      <4> QED BY <4>1
    <3> HIDE DEF s, r, e, t
    <3> QED BY <1>3, <2>3, <3>1
  <2>5. /\ calls' \in [Calls -> CallType] /\ \A d \in Calls : d # c => calls'[d] = calls[d]
        /\ calls'[c].at = "writing" /\ calls'[c].uses = t /\ calls'[c].key = calls[c].key
    BY ZenonT(60), <2>1, <1>1 DEF L!Goes, Types, CallType
  <2> DEFINE q == servers[t].queue
             p == Append(q, e)
  <2>6. p \in Seq(Entry) /\ Len(p) = Len(q) + 1 /\ p[Len(p)] = e /\ Len(q) \in Nat
          /\ DOMAIN p = 1..Len(p) /\ DOMAIN q = 1..Len(q) /\ \A i \in 1..Len(q) : p[i] = q[i]
    <3>1. q \in Seq(Entry) /\ e \in Entry
      BY <1>2, <2>2
    <3> HIDE DEF q, e
    <3> QED BY <3>1
  <2>7. \A i \in 1..Len(q) : q[i].by \in Calls \cup {0} /\ q[i].by # c
          /\ (q[i].by # 0 => L!At(q[i].by) = "writing" /\ calls[q[i].by].uses = t)
    <3> SUFFICES ASSUME NEW i \in 1..Len(q)
        PROVE q[i].by \in Calls \cup {0} /\ q[i].by # c
          /\ (q[i].by # 0 => L!At(q[i].by) = "writing" /\ calls[q[i].by].uses = t)
      OBVIOUS
    <3>1. i \in DOMAIN servers[t].queue
      BY <2>6
    <3>2. q[i].by \in Calls \cup {0}
      BY <1>1, <3>1, ServerTypes DEF Entry
    <3>3. q[i].by # 0 => L!At(q[i].by) = "writing" /\ calls[q[i].by].uses = t
      BY <1>1, <3>1 DEF Inv, Writers
    <3> QED BY <3>2, <3>3, <1>1, <2>2
  <2>8. OneEach(q)
    BY <1>1 DEF Inv, Locks
  <2>9. OneEach(p) /\ (NoZero(q) => NoZero(p))
    <3>1. \A i \in DOMAIN p : i \in 1..Len(q) \/ i = Len(p)
      BY SMTT(60), <2>6
    <3>2. OneEach(p)
      <4> SUFFICES ASSUME NEW i \in DOMAIN p, NEW j \in DOMAIN p, p[i].by = p[j].by PROVE i = j
        BY Zenon DEF OneEach
      <4> HIDE DEF p, q, e
      <4> QED BY <2>2, <2>6, <2>7, <2>8, <3>1 DEF OneEach
    <3>3. NoZero(q) => NoZero(p)
      <4> HIDE DEF p, q, e
      <4> QED BY <2>2, <2>6, <3>1 DEF NoZero
    <3> QED BY <3>2, <3>3
  <2>10. \A i \in DOMAIN p : LET d == p[i].by IN
               d # 0 => calls'[d].at = "writing" /\ calls'[d].uses = t
    <3> SUFFICES ASSUME NEW i \in DOMAIN p, p[i].by # 0
                 PROVE  LET d == p[i].by IN calls'[d].at = "writing" /\ calls'[d].uses = t
      OBVIOUS
    <3>1. i \in 1..Len(q) \/ i = Len(p)
      BY <2>6
    <3> HIDE DEF p, q, e, t
    <3>2. CASE i = Len(p)
      BY <2>2, <2>5, <2>6, <3>2
    <3>3. CASE i \in 1..Len(q)
      BY SMTT(60), <2>5, <2>6, <2>7, <3>3 DEF L!At
    <3> QED BY <3>1, <3>2, <3>3
  <2>11. s.queue = p
    BY Zenon, <1>3, <2>3
  <2> HIDE DEF r, t, s, e, p
  <2> QED BY ZenonT(60), <1>3, <1>5, <2>1, <2>3, <2>4, <2>5, <2>9, <2>10, <2>11
<1> QED BY <1>6, <1>7

\* The message of a call leaves the queue, written or not.
LEMMA EntryLeaves ==
  ASSUME Inv, NEW c \in Calls, NEW t \in DOMAIN servers, NEW i \in DOMAIN servers[t].queue,
         servers[t].queue[i].by = c,
         NEW s \in ServerType, servers' = [servers EXCEPT ![t] = s],
         s.key = servers[t].key, s.at = servers[t].at, s.cut = servers[t].cut,
         s.process = servers[t].process, ~s.lost => ~servers[t].lost /\ InStep(s),
         Len(s.queue) = Len(servers[t].queue) - 1,
         \A j \in 1..Len(servers[t].queue) - 1 :
           s.queue[j] = IF j < i THEN servers[t].queue[j] ELSE servers[t].queue[j + 1],
         calls' \in [Calls -> CallType], \A d \in Calls : d # c => calls'[d] = calls[d],
         calls'[c].at \in {"rooting"} \cup L!Over,
         calls'[c].at = "rooting" => calls'[c].key = calls[c].key,
         UNCHANGED <<disk, doomedStarts, L!manager, L!ending>>
  PROVE  Inv'
<1> DEFINE q == servers[t].queue
           p == s.queue
<1>1. Types /\ q \in Seq(Entry) /\ p \in Seq(Entry) /\ OneEach(q) /\ c # 0
        /\ \A j \in DOMAIN q : q[j] \in Entry
  BY ServerTypes, BoundsAssumption DEF Inv, ServerType, Locks, L!BoundsOK
<1>2. L!At(c) = "writing" /\ calls[c].uses = t
  BY <1>1 DEF Inv, Writers
<1>3. calls[c].key \in Keys
  BY Zenon, <1>2 DEF Inv, CallsKnow, L!Over
<1>4. /\ \A j \in DOMAIN p : \E k \in DOMAIN q : k # i /\ p[j] = q[k]
      /\ OneEach(p) /\ (NoZero(q) => NoZero(p))
  BY ZenonT(60), <1>1, Shrunk
<1>5. servers[t].process # "none"
  <2>1. q # <<>>
    OBVIOUS
  <2> QED BY <2>1 DEF Inv, ServersKnow
<1>6. Writers'
  <2>1. \A j \in DOMAIN s.queue : LET d == s.queue[j].by IN
           d # 0 => calls'[d].at = "writing" /\ calls'[d].uses = t
    <3> SUFFICES ASSUME NEW j \in DOMAIN p, p[j].by # 0
                 PROVE  calls'[p[j].by].at = "writing" /\ calls'[p[j].by].uses = t
      OBVIOUS
    <3>1. PICK k \in DOMAIN q : k # i /\ p[j] = q[k]
      BY <1>4
    <3>2. q[k].by # c
      BY <1>1, <3>1 DEF OneEach
    <3>3. q[k].by \in Calls /\ L!At(q[k].by) = "writing" /\ calls[q[k].by].uses = t
      BY <1>1, <3>1 DEF Entry, Inv, Writers
    <3> QED BY <3>1, <3>2, <3>3 DEF L!At
  <2>2. \A d \in Calls : calls'[d] = calls[d] \/ L!At(d) # "writing" \/ calls[d].uses = t
    BY <1>2
  <2> QED BY Zenon, <2>1, <2>2, WritersStep
<1>7. Locks'
  BY Zenon, <1>4, LocksStep DEF L!ending
<1>8. /\ DOMAIN servers' = DOMAIN servers
      /\ \A u \in DOMAIN servers : servers'[u].at = servers[u].at /\ servers'[u].key = servers[u].key
  BY <1>1, OneServer
<1>9. CallsKnow'
  <2>1. CallsKnow
    BY DEF Inv
  <2>2. calls'[c].at \notin {"idle"} \cup L!Over => calls'[c].key \in Keys
    BY <1>3
  <2>3. calls'[c].at \notin {"starting", "leaving", "reading", "writing", "hearing"}
    BY Zenon DEF L!Over
  <2> QED BY <1>8, <2>1, <2>2, <2>3, CallMoves
<1>10. Spoken' /\ Listed'
  BY <1>8, Unseen DEF L!manager
<1>11. /\ closing' \in {"no", "next", "writing", "asking", "ending", "done", "raised"}
       /\ left' \subseteq Keys /\ talks' \in Nat /\ closing' = closing /\ fence' = fence
  BY <1>1 DEF L!ending, Types
<1> QED BY Zenon, <1>5, <1>6, <1>7, <1>9, <1>10, <1>11, FileStep

LEMMA DrainedStep ==
  ASSUME Inv, NEW t \in DOMAIN servers, L!Drained(t) PROVE Inv'
<1> DEFINE q == servers[t].queue
           s == L!Written(servers[t], Tail(q))
<1>1. Types /\ servers[t] \in ServerType /\ q \in Seq(Entry) /\ q # <<>> /\ Tail(q) \in Seq(Entry)
        /\ 1 \in DOMAIN q /\ Head(q) = q[1] /\ q[1] \in Entry /\ OneEach(q)
  BY ServerTypes, TailShrinks DEF L!Drained, Inv, Locks
<1>2. s \in ServerType /\ s.queue = Tail(q) /\ s.process = servers[t].process /\ s.at = servers[t].at
        /\ s.key = servers[t].key /\ s.cut = servers[t].cut /\ s.lost = servers[t].lost
  BY Zenon, <1>1, WrittenType
<1>3. Len(Tail(q)) = Len(q) - 1
        /\ \A j \in 1..Len(q) - 1 : Tail(q)[j] = IF j < 1 THEN q[j] ELSE q[j + 1]
  BY <1>1, TailShrinks
<1>4. ~s.lost => ~servers[t].lost /\ InStep(s)
  <2>1. ~servers[t].lost => InStep(s)
    BY <1>1, WrittenInStep DEF Inv, Documents
  <2> QED BY <1>2, <2>1
<1>5. servers' = [servers EXCEPT ![t] = s]
      /\ UNCHANGED <<disk, misled, doomedStarts, L!manager, left, talks, fence>>
  BY DEF L!Drained
<1>6. CASE q[1].by # 0
  <2> DEFINE c == q[1].by
  <2>1. c \in Calls /\ L!Proceeds(c) /\ UNCHANGED L!ending
    BY <1>1, <1>6 DEF Entry, L!Drained, L!ending
  <2>2. /\ calls' \in [Calls -> CallType] /\ \A d \in Calls : d # c => calls'[d] = calls[d]
        /\ calls'[c].at \in {"rooting"} \cup L!Over
        /\ (calls'[c].at = "rooting" => calls'[c].key = calls[c].key)
    BY Zenon, <1>1, <2>1, ProceedsTypes DEF L!Over
  <2>3. Len(s.queue) = Len(q) - 1
          /\ \A j \in 1..Len(q) - 1 : s.queue[j] = IF j < 1 THEN q[j] ELSE q[j + 1]
    <3>1. s.queue = Tail(q)
      BY <1>2
    <3> HIDE DEF s, q
    <3> QED BY <3>1, <1>3
  <2>4. 1 \in DOMAIN q /\ q[1].by = c /\ c \in Calls
    BY <1>1, <2>1
  <2> HIDE DEF s, c
  <2> QED BY Zenon, <1>2, <1>4, <1>5, <2>1, <2>2, <2>3, <2>4, EntryLeaves
<1>7. CASE q[1].by = 0
  <2>1. UNCHANGED calls /\ closing = "writing" /\ talks = t
          /\ closing' \in {"asking", "ending"}
    BY <1>1, <1>7 DEF L!Drained, Inv, Locks, NoZero
  <2>2. NoZero(s.queue) /\ OneEach(s.queue)
            /\ \A j \in DOMAIN s.queue : \E k \in DOMAIN q : s.queue[j] = q[k]
    <3> DEFINE p == Tail(q)
    <3>1. p \in Seq(Entry) /\ Len(p) = Len(q) - 1
            /\ \A j \in 1..Len(q) - 1 : p[j] = IF j < 1 THEN q[j] ELSE q[j + 1]
      BY <1>1, <1>3
    <3>2. s.queue = p
      BY <1>2
    <3>3. q \in Seq(Entry) /\ 1 \in DOMAIN q
      BY <1>1
    <3> HIDE DEF p, q, s
    <3>4. /\ \A j \in DOMAIN p : \E k \in DOMAIN q : k # 1 /\ p[j] = q[k]
          /\ OneEach(q) => OneEach(p)
          /\ OneEach(q) /\ q[1].by = 0 => NoZero(p)
      BY ZenonT(60), <3>1, <3>3, Shrunk
    <3> QED BY <1>1, <1>7, <3>2, <3>4
  <2>3. /\ DOMAIN servers' = DOMAIN servers /\ servers'[t] = s
        /\ \A u \in DOMAIN servers : u # t => servers'[u] = servers[u]
    BY <1>1, <1>2, <1>5, OneServer
  <2> HIDE DEF s
  <2>4. Locks'
    BY <2>1, <2>2, <2>3 DEF Inv, Locks
  <2>5. Writers'
    <3>1. \A j \in DOMAIN s.queue : LET d == s.queue[j].by IN
             d # 0 => calls'[d].at = "writing" /\ calls'[d].uses = t
      BY <2>1, <2>2 DEF Inv, Writers, L!At
    <3>2. \A d \in Calls : calls'[d] = calls[d]
      BY <2>1
    <3> QED BY Zenon, <1>2, <1>5, <3>1, <3>2, WritersStep
  <2>6. \A u \in DOMAIN servers : servers'[u].at = servers[u].at /\ servers'[u].key = servers[u].key
    BY <1>2, <2>3
  <2>7. CallsKnow'
    BY <2>1, <2>3, <2>6 DEF Inv, CallsKnow, L!At
  <2>8. Spoken' /\ Listed'
    <3>1. \A u \in 1..fence : u \in DOMAIN servers
      BY DEF Inv, Types
    <3> QED BY <1>5, <2>1, <2>3, <2>6, <3>1 DEF Inv, Spoken, Listed, L!manager, Talking
  <2>9. servers[t].process # "none"
    BY <1>1 DEF Inv, ServersKnow
  <2>10. /\ closing' \in {"no", "next", "writing", "asking", "ending", "done", "raised"}
         /\ left' \subseteq Keys /\ talks' \in Nat /\ closing' # "no" /\ closing' # "done"
         /\ closing # "no" /\ closing # "done" /\ calls' \in [Calls -> CallType]
    BY SMTT(60), <1>1, <1>5, <2>1 DEF Types
  <2> QED BY Zenon, <1>2, <1>4, <1>5, <2>4, <2>5, <2>7, <2>8, <2>9, <2>10, FileStep
<1> QED BY <1>6, <1>7

LEMMA TimesOutStep ==
  ASSUME Inv, NEW c \in Calls, L!TimesOut(c) PROVE Inv'
<1>1. Types /\ UNCHANGED <<disk, misled, L!manager, L!ending>> /\ disk' \in Nat
  BY Zenon DEF L!TimesOut, Inv, Types
<1>2. CASE L!At(c) \in {"rooting", "reading", "hearing"} /\ L!Leaves(c, "timed out") /\ UNCHANGED <<servers, doomedStarts>>
  BY Zenon, <1>1, <1>2, LeavesTypes, CallOnly DEF L!Over
<1>3. CASE /\ L!At(c) = "starting" /\ L!Goes(c, "leaving") /\ UNCHANGED servers
           /\ doomedStarts' = doomedStarts \cup {t \in {calls[c].uses} : servers[t].at \in L!Starting}
  <2>1. calls[c].key \in Keys /\ calls[c].uses \in DOMAIN servers
    BY Zenon, <1>3 DEF Inv, CallsKnow, L!Over
  <2>2. /\ calls' \in [Calls -> CallType] /\ \A d \in Calls : d # c => calls'[d] = calls[d]
        /\ calls'[c].at = "leaving" /\ calls'[c].uses = calls[c].uses /\ calls'[c].key = calls[c].key
    BY ZenonT(60), <1>1, <1>3 DEF L!Goes, Types, CallType
  <2>3. doomedStarts \subseteq doomedStarts' /\ doomedStarts' \subseteq DOMAIN servers
          /\ \A t \in doomedStarts' : t \in doomedStarts \/ servers[t].at \in L!Starting
    BY <1>1, <1>3, <2>1 DEF Types
  <2>4. Types'
    BY <1>1, <1>3, <2>2, <2>3 DEF Types, L!manager, L!ending
  <2>5. CallsKnow'
    <3>1. CallsKnow
      BY DEF Inv
    <3> QED BY <1>3, <2>1, <2>2, <3>1, CallMoves
  <2>6. Writers'
    <3> SUFFICES ASSUME NEW t \in DOMAIN servers, NEW i \in DOMAIN servers[t].queue,
                        servers[t].queue[i].by # 0
                 PROVE  LET d == servers[t].queue[i].by IN calls'[d].at = "writing" /\ calls'[d].uses = t
      BY <1>3 DEF Writers, L!At
    <3>1. servers[t].queue[i] \in Entry
      BY <1>1, ServerTypes
    <3> QED BY <1>3, <2>2, <3>1 DEF Inv, Writers, L!At, Entry
  <2>7. ServersKnow' /\ Begun'
    BY <1>1, <1>3, <2>3 DEF Inv, ServersKnow, Begun, L!ending
  <2> QED BY <1>1, <1>3, <2>4, <2>5, <2>6, <2>7 DEF Inv, KeysKnow, Owned, L!OneStartPerKey, Documents,
           Locks, Spoken, Listed, Finished, L!manager, L!ending
<1>4. CASE /\ L!At(c) = "writing" /\ L!Leaves(c, "timed out") /\ UNCHANGED doomedStarts
           /\ LET s == servers[calls[c].uses]
              IN \E i \in DOMAIN s.queue :
                   /\ s.queue[i].by = c
                   /\ servers' = [servers EXCEPT ![calls[c].uses] =
                        IF i = 1 THEN L!Written(s, Tail(s.queue))
                        ELSE [s EXCEPT !.queue = L!RemoveAt(@, i), !.lost = TRUE]]
  <2> DEFINE t == calls[c].uses
             q == servers[t].queue
  <2>1. t \in DOMAIN servers
    BY Zenon, <1>4 DEF Inv, CallsKnow, L!Over
  <2>2. servers[t] \in ServerType /\ q \in Seq(Entry) /\ OneEach(q)
    BY SMTT(60), <1>1, <2>1, ServerTypes DEF Inv, Locks
  <2>3. PICK i \in DOMAIN q :
          /\ q[i].by = c
          /\ servers' = [servers EXCEPT ![t] =
               IF i = 1 THEN L!Written(servers[t], Tail(q))
               ELSE [servers[t] EXCEPT !.queue = L!RemoveAt(q, i), !.lost = TRUE]]
    BY Zenon, <1>4
  <2>4. /\ calls' \in [Calls -> CallType] /\ \A d \in Calls : d # c => calls'[d] = calls[d]
        /\ calls'[c].at \in L!Over
    BY Zenon, <1>1, <1>4, LeavesTypes DEF L!Over
  <2>5. calls'[c].at # "rooting"
    BY Zenon, <2>4 DEF L!Over
  <2>8. UNCHANGED <<disk, doomedStarts, L!manager, L!ending>>
    BY Zenon, <1>1, <1>4
  <2>6. CASE i = 1
    <3> DEFINE s == L!Written(servers[t], Tail(q))
    <3>1. q # <<>>
      BY <2>3
    <3>2. Tail(q) \in Seq(Entry) /\ Len(Tail(q)) = Len(q) - 1
            /\ \A j \in 1..Len(q) - 1 : Tail(q)[j] = IF j < i THEN q[j] ELSE q[j + 1]
      BY <2>2, <2>6, <3>1, TailShrinks
    <3>3. s \in ServerType /\ s.queue = Tail(q) /\ s.process = servers[t].process /\ s.at = servers[t].at
            /\ s.key = servers[t].key /\ s.cut = servers[t].cut /\ s.lost = servers[t].lost
      BY Zenon, <2>2, <3>2, WrittenType
    <3>4. ~s.lost => ~servers[t].lost /\ InStep(s)
      <4>1. ~servers[t].lost => InStep(s)
        BY <2>1, <2>2, <3>1, WrittenInStep DEF Inv, Documents
      <4> QED BY <3>3, <4>1
    <3>5. servers' = [servers EXCEPT ![t] = s]
      BY SMTT(60), <2>3, <2>6
    <3>6. Len(s.queue) = Len(q) - 1
            /\ \A j \in 1..Len(q) - 1 : s.queue[j] = IF j < i THEN q[j] ELSE q[j + 1]
      BY Zenon, <3>2, <3>3
    <3>7. calls'[c].at \in {"rooting"} \cup L!Over
      BY <2>4
    <3>8. i \in DOMAIN q /\ q[i].by = c
      BY <2>3
    <3> HIDE DEF s, t
    <3> QED BY Zenon, <2>8, <2>1, <2>4, <2>5, <3>3, <3>4, <3>5, <3>6, <3>7, <3>8, EntryLeaves
  <2>7. CASE i # 1
    <3> DEFINE s == [servers[t] EXCEPT !.queue = L!RemoveAt(q, i), !.lost = TRUE]
    <3>1. /\ L!RemoveAt(q, i) \in Seq(Entry) /\ Len(L!RemoveAt(q, i)) = Len(q) - 1
          /\ \A j \in 1..Len(q) - 1 : L!RemoveAt(q, i)[j] = IF j < i THEN q[j] ELSE q[j + 1]
      BY Zenon, <2>2, RemovedEntry
    <3>2. s \in ServerType /\ s.queue = L!RemoveAt(q, i) /\ s.process = servers[t].process
            /\ s.at = servers[t].at /\ s.key = servers[t].key /\ s.cut = servers[t].cut /\ s.lost
      BY Zenon, <2>2, <3>1 DEF ServerType
    <3>3. servers' = [servers EXCEPT ![t] = s]
      BY <2>3, <2>7
    <3>6. Len(s.queue) = Len(q) - 1
            /\ \A j \in 1..Len(q) - 1 : s.queue[j] = IF j < i THEN q[j] ELSE q[j + 1]
      BY <3>1, <3>2
    <3>7. calls'[c].at \in {"rooting"} \cup L!Over
      BY <2>4
    <3>8. i \in DOMAIN q /\ q[i].by = c
      BY <2>3
    <3> HIDE DEF s, t
    <3> QED BY ZenonT(60), <2>8, <2>1, <2>4, <2>5, <3>2, <3>3, <3>6, <3>7, <3>8, EntryLeaves
  <2> QED BY <2>6, <2>7
<1> QED BY ZenonT(60), <1>2, <1>3, <1>4 DEF L!TimesOut

\* While the session is open, the servers of a key other than the last were cut.
LEMMA LastOfKey ==
  ASSUME Inv, closing = "no", NEW t \in DOMAIN servers, NEW u \in DOMAIN servers,
         servers[t].key = servers[u].key, ~servers[t].cut, ~servers[u].cut
  PROVE  t = u
<1>1. t \in Nat /\ u \in Nat
  BY ServerTypes DEF Inv
<1> QED BY <1>1 DEF Inv, L!OneStartPerKey

LEMMA GetClientsStep ==
  ASSUME Inv, NEW c \in Calls, L!GetClients(c) PROVE Inv'
<1> DEFINE k == calls[c].key
           n == Len(servers) + 1
<1>1. /\ Types /\ L!At(c) = "rooting" /\ k \in Keys /\ disk' \in Nat
      /\ UNCHANGED <<disk, misled, doomedStarts, clients, broken, L!ending>>
  BY Zenon DEF L!GetClients, Inv, Types, CallsKnow, L!Over
<1>2. CASE UNCHANGED <<servers, spawning>>
  <2>0. UNCHANGED <<servers, doomedStarts, L!manager, L!ending>>
    BY <1>1, <1>2 DEF L!manager
  <2>1. CASE clients[k] # 0 /\ L!Uses(c, clients[k])
    <3>1. clients[k] \in DOMAIN servers /\ servers[clients[k]].at \in {"ready", "closed"}
      BY <1>1, <2>1 DEF Types, Inv, KeysKnow
    <3> QED BY <1>1, <2>0, <2>1, <3>1, UsesTypes, CallOnly
  <2>2. CASE L!Proceeds(c)
    BY Zenon, <1>1, <2>0, <2>2, ProceedsTypes, CallOnly DEF L!Over
  <2>3. CASE spawning[k] # 0 /\ L!Awaits(c, spawning[k])
    <3>1. spawning[k] \in DOMAIN servers /\ spawning[k] \in Nat
      BY <1>1, <2>3 DEF Types
    <3> QED BY <1>1, <2>0, <2>3, <3>1, AwaitsTypes, CallOnly
  <2>4. CASE servers' = Append(servers, L!Server(k))
    <3>1. Len(servers') = Len(servers) + 1 /\ Len(servers) \in Nat
      BY <1>1, <2>4, NewServer DEF Types
    <3> QED BY <1>2, <3>1
  <2> QED BY <2>1, <2>2, <2>3, <2>4 DEF L!GetClients
<1>3. CASE /\ clients[k] = 0 /\ k \notin broken /\ spawning[k] = 0
           /\ servers' = Append(servers, L!Server(k)) /\ spawning' = [spawning EXCEPT ![k] = n]
           /\ L!Awaits(c, n)
  <2>1. /\ servers' \in Seq(ServerType)
        /\ Len(servers') = n /\ servers'[n] = L!Server(k) /\ n \in Nat
        /\ \A u \in DOMAIN servers : servers'[u] = servers[u] /\ u < n /\ u \in Nat
        /\ DOMAIN servers' = DOMAIN servers \cup {n} /\ n \notin DOMAIN servers
    <3>1. servers \in Seq(ServerType) /\ L!Server(k) \in ServerType
      BY <1>1, <1>3, NewServer DEF Types
    <3> QED BY <1>3, <3>1
  <2>2. /\ L!Server(k).key = k /\ L!Server(k).at = "queued" /\ L!Server(k).process = "none"
        /\ L!Server(k).version = 0 /\ L!Server(k).queue = <<>> /\ L!Server(k).read = <<>>
        /\ L!Server(k).cut = FALSE /\ L!Server(k).lost = FALSE
    BY DEF L!Server
  <2>3. /\ calls' \in [Calls -> CallType] /\ \A d \in Calls : d # c => calls'[d] = calls[d]
        /\ calls'[c].at = "starting" /\ calls'[c].key = k /\ calls'[c].uses = n
    BY <1>1, <1>3, <2>1, AwaitsTypes
  <2>4. \A j \in Keys : spawning'[j] = IF j = k THEN n ELSE spawning[j]
    BY <1>1, <1>3 DEF Types
  <2> HIDE DEF n, k
  <2>5. Types'
    <3>1. spawning' \in [Keys -> 0..Len(servers')]
      <4>1. spawning' \in [Keys -> 0..n]
        <5>1. \A j \in Keys : spawning[j] \in 0..n
          BY <1>1, <2>1 DEF n, Types
        <5>2. n \in 0..n
          BY <2>1
        <5> QED BY <1>1, <1>3, <5>1, <5>2 DEF Types
      <4> QED BY <4>1, <2>1
    <3>2. clients' \in [Keys -> 0..Len(servers')] /\ fence' \in 0..Len(servers')
      BY <1>1, <2>1 DEF n, Types, L!ending
    <3> QED BY <1>1, <2>1, <2>3, <3>1, <3>2 DEF Types, L!ending
  <2>6. CallsKnow'
    <3>1. CallsKnow
      BY DEF Inv
    <3>2. \A t \in DOMAIN servers :
           servers[t].at \in {"ready", "closed"} => servers'[t].at \in {"ready", "closed"}
      BY <2>1
    <3> QED BY <1>1, <2>1, <2>3, <3>1, <3>2, CallMoves
  <2>7. ServersKnow'
    <3>1. n \notin doomedStarts
      BY <1>1, <2>1 DEF Types
    <3> QED BY <1>1, <2>1, <2>2, <3>1 DEF Inv, ServersKnow
  <2>8. KeysKnow'
    <3>1. \A j \in Keys : (clients[j] # 0 => clients[j] \in DOMAIN servers)
                          /\ (spawning[j] # 0 => spawning[j] \in DOMAIN servers)
      BY <1>1 DEF Types
    <3> QED BY <1>1, <2>1, <2>2, <2>4, <3>1 DEF Inv, KeysKnow
  <2>9. ASSUME closing = "no", NEW t \in DOMAIN servers, servers[t].key = k PROVE servers[t].cut
    BY <1>3, <2>9 DEF Inv, Owned, k, n
  <2>10. Owned'
    <3>1. \A t \in DOMAIN servers : servers[t].key \in Keys
      BY <1>1, ServerTypes DEF ServerType
    <3> QED BY <1>1, <2>1, <2>2, <2>4, <2>9, <3>1 DEF Inv, Owned, L!ending, L!Starting
  <2>11. L!OneStartPerKey'
    <3> SUFFICES ASSUME closing = "no", NEW t \in DOMAIN servers', NEW u \in DOMAIN servers',
                        t < u, servers'[t].key = servers'[u].key
                 PROVE  servers'[t].cut
      BY <1>1 DEF L!OneStartPerKey, L!ending
    <3>1. t \in DOMAIN servers
      BY <2>1
    <3>2. CASE u = n
      BY <2>1, <2>2, <2>9, <3>1, <3>2
    <3>3. CASE u # n
      BY <2>1, <3>1, <3>3 DEF Inv, L!OneStartPerKey
    <3> QED BY <3>2, <3>3
  <2>12. Documents'
    <3>1. InStep(L!Server(k))
      BY <2>2 DEF InStep, ReadInOrder, Counted
    <3> QED BY <2>1, <3>1 DEF Inv, Documents
  <2>13. Locks'
    <3>1. OneEach(L!Server(k).queue) /\ NoZero(L!Server(k).queue)
      BY <2>2 DEF OneEach, NoZero
    <3> QED BY <1>1, <2>1, <3>1 DEF Inv, Locks, L!ending
  <2>14. Writers'
    <3> SUFFICES ASSUME NEW t \in DOMAIN servers', NEW i \in DOMAIN servers'[t].queue,
                        servers'[t].queue[i].by # 0
                 PROVE  LET d == servers'[t].queue[i].by IN calls'[d].at = "writing" /\ calls'[d].uses = t
      BY DEF Writers, L!At
    <3>1. t # n
      BY <2>1, <2>2
    <3>2. t \in DOMAIN servers /\ servers'[t] = servers[t] /\ servers[t].queue[i] \in Entry
      BY <1>1, <2>1, <3>1, ServerTypes
    <3> DEFINE d == servers[t].queue[i].by
    <3>3. d \in Calls /\ L!At(d) = "writing" /\ calls[d].uses = t
      BY <3>2 DEF Entry, Inv, Writers
    <3>4. calls'[d] = calls[d]
      BY <1>1, <2>3, <3>3
    <3> QED BY <3>2, <3>3, <3>4 DEF L!At
  <2>15. \A t \in 1..fence : t \in DOMAIN servers
    BY <1>1 DEF Types
  <2>16. Begun' /\ Finished' /\ Spoken'
    BY <1>1, <2>1, <2>15 DEF Inv, Begun, Finished, Spoken, L!ending
  <2>17. Listed'
    <3>1. \A t \in 1..fence : closing \in Talking /\ servers[t].at = "ready" => servers[t].key # k
      BY <1>3, <2>1, <2>15 DEF Inv, Listed, k
    <3> QED BY <1>1, <2>1, <2>2, <2>15, <3>1 DEF Inv, Listed, L!ending
  <2> QED BY <2>5, <2>6, <2>7, <2>8, <2>10, <2>11, <2>12, <2>13, <2>14, <2>16, <2>17 DEF Inv
<1> QED BY <1>2, <1>3 DEF L!GetClients

\* A start that moves on: who uses servers, and their documents, see nothing of it.
LEMMA StartMoves ==
  ASSUME Inv, NEW t \in DOMAIN servers, NEW s \in ServerType, servers' = [servers EXCEPT ![t] = s],
         servers[t].at \in L!Starting, s.key = servers[t].key, s.queue = servers[t].queue,
         s.read = servers[t].read, s.version = servers[t].version, s.lost = servers[t].lost,
         s.process = servers[t].process \/ servers[t].process = "none",
         UNCHANGED <<L!tools, L!ending>>
  PROVE  /\ CallsKnow' /\ Documents' /\ Locks' /\ Writers' /\ Spoken'
         /\ DOMAIN servers' = DOMAIN servers /\ Len(servers') = Len(servers)
         /\ servers' \in Seq(ServerType) /\ servers'[t] = s
         /\ \A u \in DOMAIN servers : u # t => servers'[u] = servers[u]
<1>1. /\ servers' \in Seq(ServerType) /\ DOMAIN servers' = DOMAIN servers
      /\ Len(servers') = Len(servers) /\ servers'[t] = s
      /\ \A u \in DOMAIN servers : u # t => servers'[u] = servers[u]
  BY Zenon, OneServer DEF Inv
<1>2. CallsKnow'
  <2>1. \A u \in DOMAIN servers : servers[u].at \in {"ready", "closed"} => u # t
    BY DEF L!Starting
  <2> QED BY <1>1, <2>1 DEF Inv, CallsKnow, L!At, L!tools
<1>3. Documents'
  <2>1. ~s.lost => InStep(s)
    <3>1. ~servers[t].lost => InStep(servers[t])
      BY DEF Inv, Documents
    <3>2. CASE s.process = servers[t].process
      BY <3>1, <3>2 DEF InStep, ReadInOrder, Counted
    <3>3. CASE servers[t].process = "none"
      <4>1. s.queue = <<>> /\ s.read = <<>> /\ s.version = 0
        BY <3>3 DEF Inv, ServersKnow
      <4> QED BY <4>1 DEF InStep, ReadInOrder, Counted
    <3> QED BY <3>2, <3>3
  <2> QED BY <1>1, <2>1 DEF Inv, Documents
<1>4. Locks' /\ Writers'
  <2>1. \A u \in DOMAIN servers : servers'[u].queue = servers[u].queue
    BY <1>1
  <2> QED BY <1>1, <2>1 DEF Inv, Locks, Writers, L!At, L!tools, L!ending
<1>5. Spoken'
  <2>1. closing \in {"writing", "asking", "ending"} => talks # t
    BY DEF Inv, Spoken, L!Starting
  <2> QED BY <1>1, <2>1 DEF Inv, Spoken, L!ending
<1> QED BY <1>1, <1>2, <1>3, <1>4, <1>5

LEMMA LaunchStep ==
  ASSUME Inv, NEW t \in DOMAIN servers, L!Launch(t) PROVE Inv'
<1>1. servers[t] \in ServerType /\ Types /\ servers[t].at \in {"queued", "launching"}
      /\ t \notin doomedStarts
        /\ servers[t].process = "none"
  BY ServerTypes DEF Inv, L!Launch, ServersKnow
<1>2. PICK s \in ServerType :
        /\ servers' = [servers EXCEPT ![t] = s] /\ s.key = servers[t].key /\ s.queue = servers[t].queue
        /\ s.read = servers[t].read /\ s.version = servers[t].version /\ s.lost = servers[t].lost
        /\ s.cut = servers[t].cut
        /\ (s.at = "launching" /\ s.process = "none") \/ (s.at = "asking" /\ s.process = "running")
  <2>1. CASE servers[t].at = "queued" /\ servers' = [servers EXCEPT ![t].at = "launching"]
    <3> DEFINE s == [servers[t] EXCEPT !.at = "launching"]
    <3>1. servers' = [servers EXCEPT ![t] = s]
      BY <2>1
    <3>2. /\ s \in ServerType /\ s.key = servers[t].key /\ s.queue = servers[t].queue
          /\ s.read = servers[t].read /\ s.version = servers[t].version /\ s.lost = servers[t].lost
          /\ s.cut = servers[t].cut /\ s.at = "launching" /\ s.process = "none"
      BY <1>1 DEF ServerType, Stages, L!Starting
    <3> HIDE DEF s
    <3> QED BY Zenon, <3>1, <3>2
  <2>2. CASE servers' = [servers EXCEPT ![t].at = "asking", ![t].process = "running"]
    <3> DEFINE s == [servers[t] EXCEPT !.at = "asking", !.process = "running"]
    <3>1. servers' = [servers EXCEPT ![t] = s]
      BY Zenon, <2>2, <1>1 DEF Types
    <3>2. /\ s \in ServerType /\ s.key = servers[t].key /\ s.queue = servers[t].queue
          /\ s.read = servers[t].read /\ s.version = servers[t].version /\ s.lost = servers[t].lost
          /\ s.cut = servers[t].cut /\ s.at = "asking" /\ s.process = "running"
      BY Zenon, <1>1 DEF ServerType, Stages, L!Starting
    <3> HIDE DEF s
    <3> QED BY Zenon, <3>1, <3>2
  <2> QED BY <2>1, <2>2 DEF L!Launch
<1>3. servers[t].at \in L!Starting /\ s.at \in L!Starting
      /\ UNCHANGED <<L!tools, doomedStarts, L!manager, L!ending>>
  BY <1>1, <1>2 DEF L!Starting, L!Launch
<1>4. s.process = servers[t].process \/ servers[t].process = "none"
  BY <1>1
<1>5. /\ CallsKnow' /\ Documents' /\ Locks' /\ Writers' /\ Spoken'
      /\ DOMAIN servers' = DOMAIN servers /\ Len(servers') = Len(servers)
      /\ servers' \in Seq(ServerType) /\ servers'[t] = s
      /\ \A u \in DOMAIN servers : u # t => servers'[u] = servers[u]
  BY Zenon, <1>2, <1>3, <1>4, StartMoves
<1>6. /\ \A u \in DOMAIN servers : /\ servers'[u].key = servers[u].key /\ servers'[u].cut = servers[u].cut
                                   /\ (servers'[u].at \in L!Starting <=> servers[u].at \in L!Starting)
                                   /\ (servers[u].at \notin L!Starting => servers'[u].at = servers[u].at)
      /\ \A u \in 1..fence : u \in DOMAIN servers
  BY <1>1, <1>2, <1>3, <1>5 DEF Types
<1>7. Types'
  BY <1>1, <1>3, <1>5 DEF Types, L!tools, L!manager, L!ending
<1>8. ServersKnow'
  <2>1. ~s.cut
    BY <1>1, <1>2 DEF Inv, ServersKnow
  <2>2. /\ s.at \in {"queued", "launching"} => s.process = "none"
        /\ s.at \in {"asking", "ready"} => s.process # "none"
        /\ s.at # "closed"
        /\ s.process = "none" => s.queue = <<>> /\ s.version = 0 /\ s.read = <<>>
    BY <1>1, <1>2 DEF Inv, ServersKnow
  <2> QED BY <1>3, <1>5, <2>1, <2>2 DEF Inv, ServersKnow
<1>9. KeysKnow'
  <2>1. \A k \in Keys : (clients[k] # 0 => clients[k] \in DOMAIN servers)
                          /\ (spawning[k] # 0 => spawning[k] \in DOMAIN servers)
    BY <1>1 DEF Types
  <2>2. \A u \in DOMAIN servers : servers[u].at \in {"ready", "closed"} => servers[u].at \notin L!Starting
    BY DEF L!Starting
  <2> QED BY <1>3, <1>6, <2>1, <2>2 DEF Inv, KeysKnow, L!manager
<1>10. Owned' /\ L!OneStartPerKey'
  <2>1. \A u \in DOMAIN servers : servers[u].at \in {"ready", "failed"} => servers[u].at \notin L!Starting
    BY DEF L!Starting
  <2> QED BY <1>3, <1>5, <1>6, <2>1 DEF Inv, Owned, L!OneStartPerKey, L!manager, L!ending
<1>11. \A u \in DOMAIN servers : servers'[u].at = "ready" <=> servers[u].at = "ready"
  BY <1>6 DEF L!Starting
<1>12. Begun' /\ Finished'
  BY <1>3, <1>6, <1>11 DEF Inv, Begun, Finished, L!ending
<1>13. Listed'
  BY <1>3, <1>5, <1>6, <1>11 DEF Inv, Listed, L!manager, L!ending
<1> QED BY <1>5, <1>7, <1>8, <1>9, <1>10, <1>12, <1>13 DEF Inv

LEMMA Ending ==
  ASSUME Inv, NEW t \in DOMAIN servers, NEW last \in {"ready", "failed"}, L!Ends(t, last),
         t \notin doomedStarts, servers[t].at \in {"launching", "asking"},
         UNCHANGED <<L!tools, doomedStarts, L!ending>>,
         last = "ready" => /\ servers[t].at = "asking" /\ UNCHANGED broken
                            /\ clients' = [clients EXCEPT ![servers[t].key] = t],
         last = "failed" => UNCHANGED clients /\ broken' = broken \cup {servers[t].key}
  PROVE  Inv'
<1> DEFINE s == [servers[t] EXCEPT !.at = last]
           k == servers[t].key
<1>1. servers[t] \in ServerType /\ Types /\ servers[t].at \in L!Starting /\ t \in Nat /\ t # 0
        /\ k \in Keys /\ t \in 1..Len(servers) /\ ~servers[t].cut
  BY ServerTypes DEF Inv, L!Starting, ServerType, ServersKnow
<1>2. /\ s \in ServerType /\ s.key = k /\ s.queue = servers[t].queue /\ s.at = last
      /\ s.read = servers[t].read /\ s.version = servers[t].version /\ s.lost = servers[t].lost
      /\ s.cut = servers[t].cut /\ s.process = servers[t].process
  BY Zenon, <1>1 DEF ServerType, Stages
<1>3. servers' = [servers EXCEPT ![t] = s] /\ spawning' = [spawning EXCEPT ![k] = 0]
  BY DEF L!Ends
<1> HIDE DEF s
<1>4. /\ CallsKnow' /\ Documents' /\ Locks' /\ Writers' /\ Spoken'
      /\ DOMAIN servers' = DOMAIN servers /\ Len(servers') = Len(servers)
      /\ servers' \in Seq(ServerType) /\ servers'[t] = s
      /\ \A u \in DOMAIN servers : u # t => servers'[u] = servers[u]
  BY Zenon, <1>1, <1>2, <1>3, StartMoves
<1>5. /\ \A u \in DOMAIN servers : servers'[u].key = servers[u].key /\ servers'[u].cut = servers[u].cut
      /\ \A j \in Keys : spawning'[j] = IF j = k THEN 0 ELSE spawning[j]
      /\ \A j \in Keys : clients'[j] = IF j = k /\ last = "ready" THEN t ELSE clients[j]
      /\ broken \subseteq broken' /\ (last = "failed" => k \in broken')
      /\ UNCHANGED <<doomedStarts, closing, left, talks, fence>>
  BY <1>1, <1>2, <1>3, <1>4 DEF Types, L!ending
<1>6. Types'
  <2>1. spawning' \in [Keys -> 0..Len(servers')] /\ clients' \in [Keys -> 0..Len(servers')]
    <3>1. clients' = clients \/ clients' = [clients EXCEPT ![k] = t]
      OBVIOUS
    <3>2. 0 \in 0..Len(servers) /\ t \in 0..Len(servers)
      BY <1>1 DEF Types
    <3> HIDE DEF k
    <3>3. spawning' \in [Keys -> 0..Len(servers)]
      BY <1>1, <1>3, <3>2 DEF Types
    <3>4. clients' \in [Keys -> 0..Len(servers)]
      BY Zenon, <1>1, <3>1, <3>2 DEF Types
    <3> QED BY <1>4, <3>3, <3>4
  <2>2. broken' \subseteq Keys
    BY <1>1 DEF Types
  <2> QED BY <1>1, <1>4, <1>5, <2>1, <2>2 DEF Types, L!tools
<1>7. ServersKnow'
  <2>1. s.at = "ready" => s.process # "none"
    BY <1>2 DEF Inv, ServersKnow
  <2>2. s.process = "none" => s.queue = <<>> /\ s.version = 0 /\ s.read = <<>>
    BY Zenon, <1>2 DEF Inv, ServersKnow
  <2> QED BY <1>1, <1>2, <1>4, <1>5, <2>1, <2>2 DEF Inv, ServersKnow
<1>8. KeysKnow'
  <2>1. \A j \in Keys : (clients[j] # 0 => clients[j] \in DOMAIN servers /\ clients[j] # t)
                          /\ (spawning[j] # 0 => spawning[j] \in DOMAIN servers)
    <3>1. \A j \in Keys : (clients[j] # 0 => clients[j] \in DOMAIN servers)
                          /\ (spawning[j] # 0 => spawning[j] \in DOMAIN servers)
      BY <1>1 DEF Types
    <3>2. \A j \in Keys : clients[j] # 0 => servers[clients[j]].at \in {"ready", "closed"}
      BY DEF Inv, KeysKnow
    <3>3. servers[t].at \notin {"ready", "closed"}
      OBVIOUS
    <3> QED BY <3>1, <3>2, <3>3
  <2> QED BY <1>1, <1>2, <1>4, <1>5, <2>1 DEF Inv, KeysKnow
<1>9. ASSUME closing = "no", NEW u \in DOMAIN servers, u # t, servers[u].key = k PROVE servers[u].cut
  BY <1>1, <1>9, LastOfKey
<1>10. Owned' /\ L!OneStartPerKey'
  <2>1. L!OneStartPerKey'
    BY <1>4, <1>5 DEF Inv, L!OneStartPerKey
  <2>2. Owned'
    <3> SUFFICES ASSUME closing = "no", NEW u \in DOMAIN servers, ~servers[u].cut
        PROVE \/ servers'[u].at \in L!Starting /\ spawning'[servers[u].key] = u
              \/ servers'[u].at = "ready" /\ clients'[servers[u].key] = u
              \/ servers'[u].at = "failed" /\ servers[u].key \in broken'
      BY <1>4, <1>5 DEF Owned
    <3>1. CASE u = t
      BY <1>1, <1>2, <1>4, <1>5, <3>1
    <3>2. CASE u # t
      <4>1. servers[u].key # k /\ servers[u].key \in Keys
        BY Zenon, <1>1, <1>9, <3>2, ServerTypes DEF ServerType
      <4> QED BY <1>4, <1>5, <3>2, <4>1 DEF Inv, Owned
    <3> QED BY <3>1, <3>2
  <2> QED BY <2>1, <2>2
<1>11. \A u \in 1..fence : u \in DOMAIN servers
  BY <1>1 DEF Types
<1>12. closing # "no" => t \notin 1..fence /\ t > fence
  BY <1>1 DEF Inv, Begun, Types
<1>13. Begun' /\ Finished'
  BY <1>4, <1>5, <1>11, <1>12 DEF Inv, Begun, Finished
<1>14. Listed'
  <2>0. closing \in Talking => closing # "no"
    BY DEF Talking
  <2>1. \A u \in 1..fence : closing \in Talking /\ servers[u].at = "ready" => servers[u].key # k
    BY <1>12, <2>0 DEF Inv, Listed
  <2>2. \A u \in 1..fence : servers[u].key \in Keys
    BY <1>1, <1>11, ServerTypes DEF ServerType
  <2>3. closing \in Talking => \A j \in left : clients'[j] # 0
    BY <1>1, <1>5 DEF Inv, Listed, Types
  <2> QED BY <1>4, <1>5, <1>11, <1>12, <2>0, <2>1, <2>2, <2>3 DEF Inv, Listed
<1> QED BY <1>4, <1>6, <1>7, <1>8, <1>10, <1>13, <1>14 DEF Inv

LEMMA AnsweredStep ==
  ASSUME Inv, NEW t \in DOMAIN servers, L!Answered(t) PROVE Inv'
BY Zenon, Ending DEF L!Answered

LEMMA FailsStep ==
  ASSUME Inv, NEW t \in DOMAIN servers, L!Fails(t) PROVE Inv'
BY Ending DEF L!Fails

LEMMA CutStep ==
  ASSUME Inv, NEW t \in DOMAIN servers, L!Cut(t) PROVE Inv'
<1> DEFINE s == [servers[t] EXCEPT !.at = "cut", !.cut = TRUE]
           k == servers[t].key
<1>1. servers[t] \in ServerType /\ Types /\ servers[t].at \in L!Starting /\ t \in Nat /\ t # 0
        /\ k \in Keys /\ ~servers[t].cut
        /\ doomedStarts' = doomedStarts \ {t} /\ UNCHANGED <<L!tools, clients, broken, L!ending>>
  <2>1. servers[t] \in ServerType /\ Types /\ t \in Nat /\ t # 0
    BY ServerTypes DEF Inv
  <2> QED BY <2>1 DEF Inv, L!Cut, L!Starting, ServerType, ServersKnow
<1>2. /\ s \in ServerType /\ s.key = k /\ s.queue = servers[t].queue /\ s.at = "cut"
      /\ s.read = servers[t].read /\ s.version = servers[t].version /\ s.lost = servers[t].lost
      /\ s.cut = TRUE /\ s.process = servers[t].process
  BY Zenon, <1>1 DEF ServerType, Stages
<1>3. servers' = [servers EXCEPT ![t] = s]
  BY Zenon, <1>1 DEF L!Cut, Types
<1>0. \A j \in Keys : spawning'[j] \in {spawning[j], 0} /\ (j # k => spawning'[j] = spawning[j])
  BY <1>1 DEF L!Cut, Types
<1> HIDE DEF s
<1>4. /\ CallsKnow' /\ Documents' /\ Locks' /\ Writers' /\ Spoken'
      /\ DOMAIN servers' = DOMAIN servers /\ Len(servers') = Len(servers)
      /\ servers' \in Seq(ServerType) /\ servers'[t] = s
      /\ \A u \in DOMAIN servers : u # t => servers'[u] = servers[u]
  BY Zenon, <1>1, <1>2, <1>3, StartMoves
<1>5. /\ \A u \in DOMAIN servers : servers'[u].key = servers[u].key
      /\ \A u \in DOMAIN servers : servers[u].cut => servers'[u].cut
      /\ UNCHANGED <<clients, broken, closing, left, talks, fence>>
  BY <1>1, <1>2, <1>4 DEF L!ending
<1>6. Types'
  <2>1. spawning' \in [Keys -> 0..Len(servers')]
    <3>1. spawning' = spawning \/ spawning' = [spawning EXCEPT ![k] = 0]
      BY DEF L!Cut
    <3> HIDE DEF k
    <3>2. 0 \in 0..Len(servers) /\ spawning \in [Keys -> 0..Len(servers)]
      BY <1>1 DEF Types
    <3> QED BY <1>4, <3>1, <3>2
  <2> QED BY <1>1, <1>4, <1>5, <2>1 DEF Types, L!tools
<1>7. ServersKnow'
  <2>2. s.process = "none" => s.queue = <<>> /\ s.version = 0 /\ s.read = <<>>
    BY Zenon, <1>2 DEF Inv, ServersKnow
  <2> QED BY <1>1, <1>2, <1>4, <1>5, <2>2 DEF Inv, ServersKnow
<1>8. KeysKnow'
  <2>1. \A j \in Keys : (clients[j] # 0 => clients[j] \in DOMAIN servers /\ clients[j] # t)
                          /\ (spawning[j] # 0 => spawning[j] \in DOMAIN servers)
    <3>1. \A j \in Keys : (clients[j] # 0 => clients[j] \in DOMAIN servers)
                          /\ (spawning[j] # 0 => spawning[j] \in DOMAIN servers)
      BY <1>1 DEF Types
    <3>2. \A j \in Keys : clients[j] # 0 => servers[clients[j]].at \in {"ready", "closed"}
      BY DEF Inv, KeysKnow
    <3>3. servers[t].at \notin {"ready", "closed"}
      BY <1>1 DEF L!Starting
    <3> QED BY <3>1, <3>2, <3>3
  <2> QED BY <1>0, <1>1, <1>2, <1>4, <1>5, <2>1 DEF Inv, KeysKnow
<1>9. ASSUME closing = "no", NEW u \in DOMAIN servers, u # t, servers[u].key = k PROVE servers[u].cut
  BY <1>1, <1>9, LastOfKey
<1>10. Owned' /\ L!OneStartPerKey'
  <2>1. L!OneStartPerKey'
    BY <1>4, <1>5 DEF Inv, L!OneStartPerKey
  <2>2. Owned'
    <3> SUFFICES ASSUME closing = "no", NEW u \in DOMAIN servers, ~servers'[u].cut
        PROVE \/ servers'[u].at \in L!Starting /\ spawning'[servers[u].key] = u
              \/ servers'[u].at = "ready" /\ clients'[servers[u].key] = u
              \/ servers'[u].at = "failed" /\ servers[u].key \in broken'
      BY <1>4, <1>5 DEF Owned
    <3>1. u # t /\ ~servers[u].cut
      BY <1>2, <1>4, <1>5
    <3>2. servers[u].key # k /\ servers[u].key \in Keys
      BY Zenon, <1>1, <1>9, <3>1, ServerTypes DEF ServerType
    <3> QED BY <1>0, <1>4, <1>5, <3>1, <3>2 DEF Inv, Owned
  <2> QED BY <2>1, <2>2
<1>11. \A u \in 1..fence : u \in DOMAIN servers
  BY <1>1 DEF Types
<1>12. \A u \in DOMAIN servers : /\ servers'[u].at = "ready" => servers[u].at = "ready"
                                 /\ servers'[u].at \in L!Starting => servers[u].at \in L!Starting /\ u # t
  BY <1>1, <1>2, <1>4 DEF L!Starting
<1>13. Begun' /\ Finished'
  BY <1>1, <1>4, <1>5, <1>11, <1>12 DEF Inv, Begun, Finished
<1>14. Listed'
  BY <1>4, <1>5, <1>11, <1>12 DEF Inv, Listed
<1> QED BY <1>4, <1>6, <1>7, <1>8, <1>10, <1>13, <1>14 DEF Inv

\* The shutdown, as long as it writes nothing.
LEMMA ManagerTypes ==
  ASSUME Inv
  PROVE  /\ Types /\ \A u \in 1..fence : u \in DOMAIN servers
         /\ \A j \in Keys : clients[j] # 0 => clients[j] \in DOMAIN servers
         /\ \A u \in DOMAIN servers : servers[u].key \in Keys
<1>1. Types
  BY DEF Inv
<1>2. \A u \in DOMAIN servers : servers[u].key \in Keys
  BY <1>1, ServerTypes DEF ServerType
<1>3. (\A u \in 1..fence : u \in DOMAIN servers)
      /\ \A j \in Keys : clients[j] # 0 => clients[j] \in DOMAIN servers
  BY <1>1 DEF Types
<1> QED BY <1>1, <1>2, <1>3

LEMMA ShutdownStep ==
  ASSUME Inv, L!Shutdown PROVE Inv'
<1>1. /\ Types /\ closing = "no" /\ closing' = "next" /\ left' = L!Registered /\ fence' = Len(servers)
      /\ spawning' = [k \in Keys |-> 0] /\ talks' = talks
      /\ UNCHANGED <<L!tools, servers, clients, broken>> /\ DOMAIN servers = 1..Len(servers)
  BY DEF L!Shutdown, Inv, Types
<1>2. doomedStarts \subseteq doomedStarts'
      /\ \A u \in doomedStarts' : u \in doomedStarts
           \/ (u \in DOMAIN servers /\ servers[u].at \in L!Starting)
  <2>1. \A k \in Keys : spawning[k] # 0 => spawning[k] \in DOMAIN servers
    BY <1>1 DEF Types
  <2> QED BY <2>1 DEF L!Shutdown
<1>3. \A u \in DOMAIN servers : servers[u].at \in L!Starting => u \in doomedStarts'
  <2> SUFFICES ASSUME NEW u \in DOMAIN servers, servers[u].at \in L!Starting PROVE u \in doomedStarts'
    OBVIOUS
  <2>1. ~servers[u].cut /\ u # 0 /\ servers[u].key \in Keys
    BY ServerTypes DEF Inv, ServersKnow, L!Starting, ServerType
  <2>2. spawning[servers[u].key] = u
    BY <1>1, <2>1 DEF Inv, Owned, L!Starting
  <2> QED BY <2>1, <2>2 DEF L!Shutdown
<1>4. Types'
  BY <1>1, <1>2 DEF Types, L!Registered, L!tools
<1>5. CallsKnow' /\ Documents' /\ Writers' /\ L!OneStartPerKey' /\ Owned' /\ Finished' /\ Spoken'
  BY <1>1 DEF Inv, CallsKnow, Documents, Writers, L!OneStartPerKey, Owned, Finished, Spoken, L!At, L!tools
<1>6. Locks'
  BY <1>1 DEF Inv, Locks
<1>7. ServersKnow' /\ KeysKnow'
  BY <1>1, <1>2 DEF Inv, ServersKnow, KeysKnow
<1>8. Begun'
  BY <1>1, <1>3 DEF Begun
<1>9. Listed'
  <2> SUFFICES /\ \A k \in L!Registered : clients[k] # 0
               /\ \A t \in 1..Len(servers) : servers[t].at = "ready" =>
                    /\ clients[servers[t].key] = t
                    /\ \A u \in DOMAIN servers : u > Len(servers) => servers[u].key # servers[t].key
                    /\ servers[t].key \in L!Registered
    BY <1>1 DEF Listed
  <2>1. \A t \in 1..Len(servers) : servers[t].at = "ready" => clients[servers[t].key] = t /\ t # 0
    BY <1>1 DEF Inv, Owned, ServersKnow, L!Starting
  <2>2. \A u \in DOMAIN servers : ~(u > Len(servers))
    BY <1>1 DEF Types
  <2> QED BY <1>1, <2>1, <2>2, ManagerTypes DEF L!Registered
<1> QED BY <1>4, <1>5, <1>6, <1>7, <1>8, <1>9 DEF Inv

LEMMA AskStep ==
  ASSUME Inv, NEW k \in Keys, L!AskToShutDown(k) PROVE Inv'
<1> DEFINE t == clients[k]
           e == [by |-> 0, v |-> 0, text |-> 0]
           s == L!Joined(servers[t], e)
<1>1. /\ Types /\ closing = "next" /\ k \in left /\ closing' = "writing" /\ talks' = t
      /\ left' = left \ {k} /\ servers' = [servers EXCEPT ![t] = s]
      /\ UNCHANGED <<L!tools, doomedStarts, L!manager, fence>>
  BY DEF L!AskToShutDown, Inv
<1>2. t # 0 /\ t \in DOMAIN servers /\ servers[t].at \in {"ready", "closed"} /\ servers[t].key = k
  BY <1>1, ManagerTypes DEF Inv, Listed, Talking, KeysKnow
<1>3. servers[t] \in ServerType /\ e \in Entry /\ e.by = 0
      /\ OneEach(servers[t].queue) /\ NoZero(servers[t].queue)
        /\ servers[t].process # "none" /\ (~servers[t].lost => InStep(servers[t]))
  BY <1>1, <1>2, ServerTypes DEF Inv, Locks, Entry, ServersKnow, Documents
<1>4. s \in ServerType /\ s.process = servers[t].process /\ s.at = servers[t].at /\ s.key = servers[t].key
        /\ s.cut = servers[t].cut /\ s.lost = servers[t].lost /\ s.queue = Append(servers[t].queue, e)
  <2> HIDE DEF e, t
  <2> QED BY <1>3, JoinedType
<1>5. (~s.lost => ~servers[t].lost /\ InStep(s))
  <2>1. ~servers[t].lost => InStep(s)
    <3> HIDE DEF e, t
    <3> QED BY <1>3, ZeroInStep
  <2> QED BY <1>4, <2>1
<1>6. LET q == servers[t].queue
          p == s.queue
      IN /\ OneEach(p)
         /\ \A i \in DOMAIN p : p[i].by # 0 => \E j \in DOMAIN q : p[i] = q[j]
  <2> DEFINE q == servers[t].queue
             p == Append(q, e)
  <2>1. q \in Seq(Entry)
    BY <1>3 DEF ServerType
  <2>2. /\ Len(p) = Len(q) + 1 /\ p[Len(p)] = e /\ Len(q) \in Nat
        /\ DOMAIN p = 1..Len(p) /\ DOMAIN q = 1..Len(q) /\ \A i \in 1..Len(q) : p[i] = q[i]
    <3> HIDE DEF q, e
    <3> QED BY <1>3, <2>1
  <2>3. \A i \in DOMAIN p : i \in DOMAIN q \/ i = Len(p)
    BY <2>2
  <2>4. OneEach(q) /\ NoZero(q) /\ e.by = 0
    BY <1>3
  <2>5. s.queue = p
    BY <1>4
  <2> HIDE DEF p, q, e, s
  <2>6. OneEach(p)
    <3> SUFFICES ASSUME NEW i \in DOMAIN p, NEW j \in DOMAIN p, p[i].by = p[j].by PROVE i = j
      BY DEF OneEach
    <3> QED BY <2>2, <2>3, <2>4 DEF OneEach, NoZero
  <2>7. \A i \in DOMAIN p : p[i].by # 0 => \E j \in DOMAIN q : p[i] = q[j]
    BY <2>2, <2>3, <2>4
  <2> QED BY <2>5, <2>6, <2>7 DEF q
<1> HIDE DEF s, e, t
<1>7. /\ DOMAIN servers' = DOMAIN servers /\ servers'[t] = s
      /\ \A u \in DOMAIN servers : u # t => servers'[u] = servers[u]
  BY <1>1, <1>2, <1>4, OneServer
<1>8. \A u \in DOMAIN servers : servers'[u].at = servers[u].at /\ servers'[u].key = servers[u].key
  BY <1>4, <1>7
<1>9. Locks'
  BY <1>1, <1>6, <1>7 DEF Inv, Locks
<1>10. Writers'
  <2>1. \A i \in DOMAIN s.queue : LET d == s.queue[i].by IN
           d # 0 => calls'[d].at = "writing" /\ calls'[d].uses = t
    BY <1>1, <1>2, <1>6 DEF Inv, Writers, L!At, L!tools
  <2>2. \A d \in Calls : calls'[d] = calls[d]
    BY <1>1 DEF L!tools
  <2> QED BY Zenon, <1>1, <1>2, <1>4, <2>1, <2>2, WritersStep
<1>11. CallsKnow'
  BY <1>1, <1>7, <1>8 DEF Inv, CallsKnow, L!At, L!tools
<1>12. Spoken'
  BY <1>1, <1>2, <1>7, <1>8 DEF Spoken
<1>13. Listed'
  <2>1. \A u \in 1..fence : servers[u].at = "ready" /\ servers[u].key = k => u = t
    BY <1>1 DEF Inv, Listed, Talking, t
  <2> QED BY <1>1, <1>7, <1>8, <2>1, ManagerTypes DEF Inv, Listed, Talking, L!manager
<1>14. /\ closing' \in {"no", "next", "writing", "asking", "ending", "done", "raised"}
       /\ left' \subseteq Keys /\ talks' \in Nat /\ closing' # "no" /\ closing' # "done"
       /\ closing # "no" /\ closing # "done" /\ calls' \in [Calls -> CallType] /\ disk' = disk
  BY <1>1, <1>2 DEF Types, L!tools
<1> QED BY Zenon, <1>1, <1>2, <1>3, <1>4, <1>5, <1>9, <1>10, <1>11, <1>12, <1>13, <1>14, FileStep DEF L!tools

LEMMA AgreesStep ==
  ASSUME Inv, L!AgreesToExit PROVE Inv'
<1>1. closing = "asking" /\ closing' = "ending"
      /\ UNCHANGED <<L!tools, servers, doomedStarts, L!manager, left, talks, fence>>
  BY DEF L!AgreesToExit
<1>2. Types'
  BY <1>1 DEF Inv, Types, L!tools, L!manager
<1> QED BY <1>1, <1>2 DEF Inv, CallsKnow, ServersKnow, KeysKnow, Owned, L!OneStartPerKey, Documents, Locks,
           Writers, Begun, Spoken, Listed, Finished, Talking, L!At, L!tools, L!manager

LEMMA TerminateStep ==
  ASSUME Inv, L!Terminate PROVE Inv'
<1> DEFINE s == [servers[talks] EXCEPT !.at = "closed", !.process = "gone"]
<1>1. /\ closing = "ending" /\ closing' = "next" /\ talks' = 0
      /\ UNCHANGED <<L!tools, doomedStarts, L!manager, left, fence>>
      /\ talks \in DOMAIN servers /\ servers[talks].at \in {"ready", "closed"}
  BY DEF L!Terminate, Inv, Spoken
<1>2. servers[talks] \in ServerType /\ Types /\ ~servers[talks].cut /\ talks \notin doomedStarts
  BY <1>1, ServerTypes DEF Inv, ServersKnow, L!Starting
<1>3. servers' = [servers EXCEPT ![talks] = s]
  BY Zenon, <1>1 DEF L!Terminate, Inv, Types
<1>4. s \in ServerType /\ s.at = "closed" /\ s.process = "gone" /\ s.key = servers[talks].key
        /\ s.queue = servers[talks].queue /\ s.cut = servers[talks].cut
        /\ s.read = servers[talks].read /\ s.lost = servers[talks].lost
  BY Zenon, <1>2 DEF ServerType, Stages
<1> HIDE DEF s
<1>5. /\ servers' \in Seq(ServerType) /\ DOMAIN servers' = DOMAIN servers
      /\ Len(servers') = Len(servers) /\ servers'[talks] = s
      /\ \A u \in DOMAIN servers : u # talks => servers'[u] = servers[u]
  BY Zenon, <1>1, <1>2, <1>3, <1>4, OneServer
<1>6. \A u \in DOMAIN servers : /\ servers'[u].key = servers[u].key
                                /\ servers'[u].queue = servers[u].queue
                                /\ (servers[u].at \in {"ready", "closed"} => servers'[u].at \in {"ready", "closed"})
                                /\ (servers'[u].at = "ready" => servers[u].at = "ready" /\ u # talks)
                                /\ (servers'[u].at \in L!Starting => servers[u].at \in L!Starting)
  BY <1>1, <1>4, <1>5 DEF L!Starting
<1>7. Types'
  BY <1>1, <1>2, <1>5 DEF Types, L!tools, L!manager
<1>8. CallsKnow' /\ Writers' /\ Locks'
  BY <1>1, <1>5, <1>6 DEF Inv, CallsKnow, Writers, Locks, L!At, L!tools
<1>9. ServersKnow'
  BY <1>1, <1>2, <1>4, <1>5 DEF Inv, ServersKnow
<1>10. KeysKnow'
  <2>1. \A j \in Keys : (clients[j] # 0 => clients[j] \in DOMAIN servers)
                          /\ (spawning[j] # 0 => spawning[j] \in DOMAIN servers)
    BY <1>2 DEF Types
  <2> QED BY <1>1, <1>6, <2>1 DEF Inv, KeysKnow, L!manager
<1>11. Documents'
  <2>1. ~s.lost => InStep(s)
    BY <1>1, <1>4 DEF Inv, Documents, InStep, ReadInOrder
  <2> QED BY <1>1, <1>5, <2>1 DEF Inv, Documents
<1>12. Owned' /\ L!OneStartPerKey' /\ Finished' /\ Spoken'
  BY <1>1 DEF Owned, L!OneStartPerKey, Finished, Spoken
<1>13. Begun' /\ Listed'
  BY <1>1, <1>5, <1>6, ManagerTypes DEF Inv, Begun, Listed, Talking, L!manager
<1> QED BY <1>7, <1>8, <1>9, <1>10, <1>11, <1>12, <1>13 DEF Inv

LEMMA ShutdownDoneStep ==
  ASSUME Inv, L!ShutdownDone PROVE Inv'
<1>1. /\ closing = "next" /\ UNCHANGED <<L!tools, servers, doomedStarts, spawning, left, talks, fence>> /\ Types
      /\ \/ closing' = "raised" /\ UNCHANGED <<clients, broken>>
         \/ closing' = "done" /\ left = {} /\ clients' = [k \in Keys |-> 0] /\ broken' = {}
  BY DEF L!ShutdownDone, Inv
<1>2. Types'
  BY <1>1 DEF Types, L!tools
<1>3. CallsKnow' /\ ServersKnow' /\ Documents' /\ Locks' /\ Writers'
  BY <1>1 DEF Inv, CallsKnow, ServersKnow, Documents, Locks, Writers, L!At, L!tools
<1>4. KeysKnow'
  BY <1>1 DEF Inv, KeysKnow
<1>5. Owned' /\ L!OneStartPerKey' /\ Spoken' /\ Listed'
  BY <1>1 DEF Owned, L!OneStartPerKey, Spoken, Listed, Talking
<1>6. Begun'
  BY <1>1 DEF Inv, Begun
<1>7. Finished'
  BY <1>1 DEF Inv, Listed, Finished, Talking
<1> QED BY <1>2, <1>3, <1>4, <1>5, <1>6, <1>7 DEF Inv

LEMMA NextInv == Inv /\ [L!Next]_serverVars => Inv'
<1> SUFFICES ASSUME Inv, [L!Next]_serverVars PROVE Inv'
  OBVIOUS
<1>1. CASE UNCHANGED serverVars
  <2>1. Types'
    BY <1>1 DEF Inv, Types, serverVars
  <2> QED BY <1>1, <2>1 DEF Inv, CallsKnow, ServersKnow, KeysKnow, Owned, L!OneStartPerKey, Documents,
             Locks, Writers, Begun, Spoken, Listed, Finished, L!At, serverVars
<1>2. ASSUME NEW c \in Calls,
             (\E k \in Keys : L!Begin(c, k)) \/ L!CallStep(c) \/ L!CannotRead(c) \/ L!TimesOut(c)
      PROVE  Inv'
  BY <1>2, BeginStep, GetClientsStep, StartedStep, ReadStep, TouchStep, HearStep, CannotReadStep,
     TimesOutStep DEF L!CallStep
<1>3. ASSUME NEW t \in DOMAIN servers, L!StartStep(t) \/ L!Foreign(t) PROVE Inv'
  BY <1>3, LaunchStep, CutStep, DrainedStep, PublishStep, AnsweredStep, FailsStep DEF L!StartStep, L!Foreign
<1>4. CASE L!Shutdown \/ L!AgreesToExit \/ L!Close
  BY <1>4, ShutdownStep, AgreesStep, AskStep, TerminateStep, ShutdownDoneStep DEF L!Close
<1> QED BY <1>1, <1>2, <1>3, <1>4 DEF L!Next

LEMMA InStepHolds == Inv => L!OneStartPerKey /\ L!DocumentInStep /\ L!ClosedServersEnd
<1> SUFFICES ASSUME Inv PROVE L!OneStartPerKey /\ L!DocumentInStep /\ L!ClosedServersEnd
  OBVIOUS
<1>1. L!DocumentInStep
  BY DEF Inv, Documents, InStep, ReadInOrder, L!DocumentInStep
<1>2. L!ClosedServersEnd
  <2> SUFFICES ASSUME closing = "done", NEW t \in 1..fence, servers[t].process = "running"
               PROVE  servers[t].at \in {"asking", "cut", "failed"}
    BY DEF L!ClosedServersEnd
  <2>1. t \in DOMAIN servers /\ servers[t].at \in Stages /\ servers[t].at # "ready"
    BY ManagerTypes, ServerTypes DEF Inv, Finished, ServerType
  <2> QED BY <2>1 DEF Inv, ServersKnow, Stages, L!Starting
<1> QED BY <1>1, <1>2 DEF Inv

\* One server starts per key, it is told every version of the document in order, and
\* it ends with the manager (LSPServerManager).
THEOREM ServersHold == Spec => []ServersKeepStep
<1>1. Init => Inv
  BY InitInv DEF Init
<1>2. Inv /\ [Next]_vars => Inv'
  <2> SUFFICES ASSUME Inv, [Next]_vars PROVE Inv'
    OBVIOUS
  <2>1. CASE L!Next
    BY <2>1, NextInv
  <2>2. CASE UNCHANGED serverVars
    BY <2>2, NextInv
  <2> QED BY <2>1, <2>2 DEF Next, vars
<1>3. Inv => ServersKeepStep
  BY InStepHolds DEF ServersKeepStep
<1> QED BY <1>1, <1>2, <1>3, PTL DEF Spec

-----------------------------------------------------------------------------
MonitorStages == {"none", "created", "spawning", "reading", "exiting", "terminating", "done"}
Note == [m : Monitors, n : Nat, generation : Nat]
Told == [note : Note, at : Nat]

MonitorTypes ==
  /\ stage \in [Monitors -> MonitorStages] /\ outcome \in [Monitors -> M!Final \cup {"none"}]
  /\ doomedMonitors \subseteq Monitors
  /\ monitorStatus \in [Monitors -> M!Final \cup {"none", "running"}]
  /\ lines \in [Monitors -> Nat] /\ born \in [Monitors -> Nat]
  /\ quiet \subseteq Monitors /\ callers \in [Monitors -> Nat]
  /\ abandoned \subseteq Monitors /\ settled \subseteq Monitors
  /\ name \in Names /\ target \in Names /\ names \in Seq(Names)
  /\ generation = Len(names) /\ generation \in Nat \ {0}
  /\ sessionClosing \in 0..2
  /\ queue \in Seq(Note) /\ batch \in Seq(Note) /\ given \in Seq(Told)

\* What the dispatcher holds and has not given to the model, and all there is to be
\* said: what was given, what is held, and what is queued.
Held == IF dispatcher = "turn" THEN <<>> ELSE batch
Waiting == Held \o queue
Notes(gs) == [i \in DOMAIN gs |-> gs[i].note]
Stream == Notes(given) \o Waiting

\* The notifications wait in the order of the lifecycles; a turn holds those of one.
Mail ==
  /\ dispatcher \in {"none", "waiting"} => batch = <<>>
  /\ dispatcher = "locking" => batch # <<>>
  /\ dispatcher = "turn" => /\ turn = "monitor" /\ batch # <<>>
                            /\ \A i \in DOMAIN batch : batch[i].generation = generation
  /\ sessionClosing > 0 => dispatcher = "none" /\ batch = <<>> /\ queue = <<>>
  /\ \A i, j \in DOMAIN Waiting : i < j => Waiting[i].generation <= Waiting[j].generation
  /\ \A i \in DOMAIN Waiting : Waiting[i].generation <= generation

\* A monitor that may still speak is of the session's lifecycle.
Lifecycles ==
  /\ sessionClosing = 0 /\ turn # "resume" => name = names[generation]
  /\ turn = "resume" => target = names[generation] /\ \A m \in Monitors : born[m] < generation
  /\ \A m \in Monitors :
       /\ born[m] <= generation
       /\ stage[m] \notin {"none", "done"} /\ m \notin quiet => born[m] = generation
       /\ stage[m] # "none" => born[m] # 0

\* Whoever ends a task sees to its record.
Records ==
  \A m \in Monitors :
    /\ stage[m] = "none" => /\ m \notin doomedMonitors \cup quiet /\ callers[m] = 0 /\ lines[m] = 0
                            /\ born[m] = 0
    /\ stage[m] # "none" => monitorStatus[m] # "none"
    /\ stage[m] = "terminating" => outcome[m] \in M!Final
    /\ m \in quiet => m \in doomedMonitors \/ stage[m] \in {"terminating", "done"}
    /\ m \in doomedMonitors \/ stage[m] = "done" =>
         m \in abandoned \/ callers[m] > 0 \/ monitorStatus[m] \in M!Final

\* A notification is of its monitor's lifecycle, or the last word of a stop.
TrueNote(e) ==
  /\ stage[e.m] # "none"
  /\ e.n = M!End => stage[e.m] = "done" /\ monitorStatus[e.m] \in M!Final
  /\ e.generation = born[e.m] \/ (e.n = M!End /\ e.m \in settled)
Truthful ==
  /\ \A i \in DOMAIN given : given[i].at = given[i].note.generation
  /\ \A i \in DOMAIN Stream : TrueNote(Stream[i])

Own(s, m, g) == {i \in DOMAIN s : s[i].m = m /\ s[i].generation = g}
Said(s, m, g) == {s[i].n : i \in Own(s, m, g)}
Before(s, m, g, i) == {s[j].n : j \in {j \in Own(s, m, g) : j < i}}
Right(s, m, g, i, l) ==
  \/ s[i].n = M!End /\ Before(s, m, g, i) = 1..l
  \/ s[i].n \in 1..l /\ Before(s, m, g, i) = 1..s[i].n - 1

\* Of a monitor of the current lifecycle nothing gets lost; of the others, what was given is in order.
Live(m) == sessionClosing = 0 /\ born[m] = generation
Ordered ==
  \A m \in Monitors :
    /\ \A i \in Own(Stream, m, born[m]) :
         i <= Len(given) \/ Live(m) => Right(Stream, m, born[m], i, lines[m])
    /\ Live(m) => 1..lines[m] \subseteq Said(Stream, m, born[m])

MonitorInv == MonitorTypes /\ Mail /\ Lifecycles /\ Records /\ Truthful /\ Ordered

LEMMA OwnOfPrefix ==
  ASSUME NEW s \in Seq(Note), NEW t \in Seq(Note), NEW m, NEW g,
         Len(t) <= Len(s), \A i \in 1..Len(t) : t[i] = s[i]
  PROVE  /\ Own(t, m, g) = Own(s, m, g) \cap 1..Len(t)
         /\ \A i \in Own(t, m, g) : Before(t, m, g, i) = Before(s, m, g, i)
         /\ \A i \in Own(t, m, g), l \in Nat : Right(t, m, g, i, l) <=> Right(s, m, g, i, l)
<1>1. Own(t, m, g) = Own(s, m, g) \cap 1..Len(t)
  BY DEF Own
<1>2. ASSUME NEW i \in Own(t, m, g) PROVE Before(t, m, g, i) = Before(s, m, g, i)
  <2>1. i \in 1..Len(t)
    BY DEF Own
  <2>2. {j \in Own(t, m, g) : j < i} = {j \in Own(s, m, g) : j < i}
    BY <1>1, <2>1 DEF Own
  <2>3. \A j \in {j \in Own(s, m, g) : j < i} : t[j] = s[j]
    BY <2>1 DEF Own
  <2> QED BY <2>2, <2>3 DEF Before
<1>3. \A i \in Own(t, m, g) : t[i] = s[i]
  BY DEF Own
<1> QED BY <1>1, <1>2, <1>3 DEF Right

\* A notification more.
LEMMA OwnOfAppend ==
  ASSUME NEW s \in Seq(Note), NEW e \in Note, NEW m, NEW g
  PROVE  LET t == Append(s, e)
         IN /\ \A i \in Own(s, m, g) :
                 /\ i \in Own(t, m, g) /\ i \in 1..Len(s)
                 /\ \A l \in Nat : Right(t, m, g, i, l) <=> Right(s, m, g, i, l)
            /\ e.m # m \/ e.generation # g => Own(t, m, g) = Own(s, m, g) /\ Said(t, m, g) = Said(s, m, g)
            /\ e.m = m /\ e.generation = g =>
                 /\ Own(t, m, g) = Own(s, m, g) \cup {Len(s) + 1}
                 /\ Before(t, m, g, Len(s) + 1) = Said(s, m, g)
                 /\ Said(t, m, g) = Said(s, m, g) \cup {e.n}
<1> DEFINE t == Append(s, e)
<1>1. t \in Seq(Note) /\ Len(t) = Len(s) + 1 /\ Len(s) \in Nat /\ t[Len(s) + 1] = e
      /\ \A i \in 1..Len(s) : t[i] = s[i]
  BY AppendProperties
<1>2. /\ Own(s, m, g) = Own(t, m, g) \cap 1..Len(s)
      /\ \A i \in Own(s, m, g), l \in Nat : Right(s, m, g, i, l) <=> Right(t, m, g, i, l)
  <2> HIDE DEF t
  <2> QED BY <1>1, OwnOfPrefix
<1>3. ASSUME e.m # m \/ e.generation # g
      PROVE  Own(t, m, g) = Own(s, m, g) /\ Said(t, m, g) = Said(s, m, g)
  <2> HIDE DEF t
  <2>1. Own(t, m, g) = Own(s, m, g)
    BY <1>1, <1>3 DEF Own
  <2>2. \A i \in Own(s, m, g) : t[i] = s[i]
    BY <1>1 DEF Own
  <2> QED BY <2>1, <2>2 DEF Said
<1>4. ASSUME e.m = m, e.generation = g
      PROVE  /\ Own(t, m, g) = Own(s, m, g) \cup {Len(s) + 1}
             /\ Before(t, m, g, Len(s) + 1) = Said(s, m, g)
             /\ Said(t, m, g) = Said(s, m, g) \cup {e.n}
  <2> HIDE DEF t
  <2>1. Own(t, m, g) = Own(s, m, g) \cup {Len(s) + 1}
    BY <1>1, <1>4 DEF Own
  <2>2. \A i \in Own(s, m, g) : t[i] = s[i] /\ i < Len(s) + 1
    BY <1>1 DEF Own
  <2>3. {j \in Own(t, m, g) : j < Len(s) + 1} = Own(s, m, g)
    BY <1>1, <2>1, <2>2
  <2>4. Before(t, m, g, Len(s) + 1) = Said(s, m, g)
    BY <2>2, <2>3 DEF Before, Said
  <2>5. Said(t, m, g) = Said(s, m, g) \cup {e.n}
    BY <2>1, <2>2, <1>1 DEF Said
  <2> QED BY <2>1, <2>4, <2>5
<1>5. \A i \in Own(s, m, g) : i \in Own(t, m, g) /\ i \in 1..Len(s)
  BY <1>2
<1> QED BY <1>2, <1>3, <1>4, <1>5

LEMMA OwnKept ==
  ASSUME NEW s \in Seq(Note), NEW e \in Note, NEW m, NEW g, NEW l \in Nat
  PROVE  \A i \in Own(s, m, g) : Right(Append(s, e), m, g, i, l) <=> Right(s, m, g, i, l)
BY OwnOfAppend

LEMMA OwnOfOther ==
  ASSUME NEW s \in Seq(Note), NEW e \in Note, NEW m, NEW g, e.m # m \/ e.generation # g
  PROVE  Own(Append(s, e), m, g) = Own(s, m, g) /\ Said(Append(s, e), m, g) = Said(s, m, g)
BY OwnOfAppend

\* It is right if it is the next line, or the end behind the last line.
LEMMA OwnSpeaks ==
  ASSUME NEW s \in Seq(Note), NEW e \in Note, NEW m, NEW g,
         e.m = m, e.generation = g, NEW l \in Nat, NEW k \in Nat, Said(s, m, g) = 1..l,
         (e.n = M!End /\ k = l) \/ (e.n = l + 1 /\ k = l + 1)
  PROVE  /\ Own(Append(s, e), m, g) = Own(s, m, g) \cup {Len(s) + 1}
         /\ Right(Append(s, e), m, g, Len(s) + 1, k)
         /\ 1..k \subseteq Said(Append(s, e), m, g)
<1> DEFINE t == Append(s, e)
<1>1. Own(t, m, g) = Own(s, m, g) \cup {Len(s) + 1}
  BY OwnOfAppend
<1>2. Before(t, m, g, Len(s) + 1) = 1..l
  <2>1. Before(t, m, g, Len(s) + 1) = Said(s, m, g)
    BY OwnOfAppend
  <2> QED BY <2>1
<1>3. Said(t, m, g) = 1..l \cup {e.n}
  <2>1. Said(t, m, g) = Said(s, m, g) \cup {e.n}
    BY OwnOfAppend
  <2> QED BY <2>1
<1>4. t[Len(s) + 1] = e
  BY AppendProperties
<1> HIDE DEF t
<1>5. Right(t, m, g, Len(s) + 1, k) /\ 1..k \subseteq Said(t, m, g)
  BY <1>2, <1>3, <1>4 DEF Right, M!End
<1> QED BY <1>1, <1>5 DEF t

\* Notifications behind place p, none of them of m in g, are left out.
LEMMA OwnOfRest ==
  ASSUME NEW s \in Seq(Note), NEW t \in Seq(Note), NEW m, NEW g, NEW p \in Nat, NEW q \in Nat,
         Len(s) = Len(t) + q, p <= Len(t),
         \A i \in 1..p : t[i] = s[i],
         \A i \in p + 1..p + q : s[i].generation # g,
         \A i \in p + 1..Len(t) : t[i] = s[i + q]
  PROVE  /\ \A i \in Own(t, m, g) : \E k \in Own(s, m, g) :
              \A l \in Nat : Right(t, m, g, i, l) <=> Right(s, m, g, k, l)
         /\ \A x \in Said(s, m, g) : x \in Said(t, m, g)
<1> DEFINE K(i) == IF i <= p THEN i ELSE i + q
<1>0. Len(t) \in Nat /\ Len(s) \in Nat
  OBVIOUS
<1>1. ASSUME NEW i \in Own(t, m, g)
      PROVE  i \in 1..Len(t) /\ K(i) \in 1..Len(s) /\ K(i) \in Own(s, m, g) /\ t[i] = s[K(i)]
  <2>1. i \in 1..Len(t) /\ t[i].m = m /\ t[i].generation = g
    BY DEF Own
  <2>2. CASE i <= p
    BY <2>1, <2>2, <1>0 DEF Own
  <2>3. CASE ~(i <= p)
    <3>1. i \in p + 1..Len(t) /\ i + q \in 1..Len(s)
      BY <2>1, <2>3, <1>0
    <3> QED BY <2>1, <2>3, <3>1 DEF Own
  <2> QED BY <2>2, <2>3
<1>2. ASSUME NEW k \in Own(s, m, g)
      PROVE  \E i \in Own(t, m, g) : k = K(i) /\ s[k] = t[i]
  <2>1. k \in 1..Len(s) /\ s[k].m = m /\ s[k].generation = g
    BY DEF Own
  <2>2. CASE k <= p
    <3>1. k \in 1..Len(t) /\ t[k] = s[k] /\ K(k) = k
      BY <2>1, <2>2, <1>0
    <3>2. k \in Own(t, m, g)
      BY <2>1, <3>1 DEF Own
    <3> QED BY <3>1, <3>2
  <2>3. CASE ~(k <= p)
    <3>1. ~(k \in p + 1..p + q)
      BY <2>1
    <3>2. k - q \in p + 1..Len(t)
      BY <2>1, <2>3, <3>1, <1>0
    <3>3. t[k - q] = s[k] /\ K(k - q) = k
      BY <2>1, <3>2
    <3>4. k - q \in Own(t, m, g)
      BY <2>1, <3>2, <3>3, <1>0 DEF Own
    <3> QED BY <3>3, <3>4
  <2> QED BY <2>2, <2>3
<1>3. \A i, j \in 1..Len(t) : j < i <=> K(j) < K(i)
  BY <1>0
<1> HIDE DEF K
<1>4. ASSUME NEW i \in Own(t, m, g) PROVE Before(t, m, g, i) = Before(s, m, g, K(i))
  <2>1. ASSUME NEW x \in Before(t, m, g, i) PROVE x \in Before(s, m, g, K(i))
    <3>1. PICK j \in Own(t, m, g) : j < i /\ x = t[j].n
      BY <2>1 DEF Before
    <3>2. K(j) \in Own(s, m, g) /\ K(j) < K(i) /\ x = s[K(j)].n
      BY <3>1, <1>1, <1>3
    <3> QED BY <3>2 DEF Before
  <2>2. ASSUME NEW x \in Before(s, m, g, K(i)) PROVE x \in Before(t, m, g, i)
    <3>1. PICK k \in Own(s, m, g) : k < K(i) /\ x = s[k].n
      BY <2>2 DEF Before
    <3>2. PICK j \in Own(t, m, g) : k = K(j) /\ s[k] = t[j]
      BY <1>2
    <3>3. j < i /\ x = t[j].n
      BY <3>1, <3>2, <1>1, <1>3
    <3> QED BY <3>3 DEF Before
  <2> QED BY Zenon, <2>1, <2>2
<1>5. \A x \in Said(s, m, g) : x \in Said(t, m, g)
  BY <1>2 DEF Said
<1>6. \A i \in Own(t, m, g), l \in Nat : Right(t, m, g, i, l) <=> Right(s, m, g, K(i), l)
  BY <1>1, <1>4 DEF Right
<1> QED BY <1>1, <1>5, <1>6

\* A set of numbers has a least one.
LEMMA Least ==
  ASSUME NEW T \in SUBSET Nat, T # {}
  PROVE  \E x \in T : \A y \in T : x <= y
<1>1. IsWellFoundedOn(OpToRel(<, Nat), Nat)
  BY Zenon, NatLessThanWellFounded
<1>2. PICK x \in T : \A y \in T : ~(<<y, x>> \in OpToRel(<, Nat))
  BY Zenon, <1>1, WFMin
<1>3. \A y \in T : ~(y < x)
  BY Zenon, <1>2 DEF OpToRel
<1> QED BY <1>3

\* A list in two parts.
LEMMA TwoParts ==
  ASSUME NEW s \in Seq(Note), NEW p \in Nat, p <= Len(s)
  PROVE  /\ SubSeq(s, 1, p) \in Seq(Note) /\ SubSeq(s, p + 1, Len(s)) \in Seq(Note)
         /\ SubSeq(s, 1, p) \o SubSeq(s, p + 1, Len(s)) = s
<1>1. Len(s) \in Nat /\ \A i \in 1..Len(s) : s[i] \in Note
  OBVIOUS
<1>2. SubSeq(s, 1, p) \in Seq(Note)
  <2>1. 1 \in Int /\ p \in Int /\ \A i \in 1..p : s[i] \in Note
    BY <1>1
  <2> QED BY <2>1, SubSeqProperties
<1>3. SubSeq(s, p + 1, Len(s)) \in Seq(Note)
  <2>1. p + 1 \in Int /\ Len(s) \in Int /\ \A i \in p + 1..Len(s) : s[i] \in Note
    BY <1>1
  <2> QED BY <2>1, SubSeqProperties
<1>4. SubSeq(s, 1, p) \o SubSeq(s, p + 1, Len(s)) = SubSeq(s, 1, Len(s))
  <2>1. 1 \in 1..Len(s) + 1 /\ p \in 1 - 1..Len(s) /\ Len(s) \in p..Len(s)
    BY <1>1
  <2> QED BY Zenon, <2>1, ConcatAdjacentSubSeq
<1>5. SubSeq(s, 1, Len(s)) = s
  BY SubSeqFull
<1> QED BY Zenon, <1>2, <1>3, <1>4, <1>5

\* Picking a stretch of a list is taking it.
LEMMA PickedStretch ==
  ASSUME NEW s \in Seq(Note), NEW c \in Nat \ {0}, NEW b \in Nat, c <= b + 1, b <= Len(s)
  PROVE  M!Picked(s, c..b) = SubSeq(s, c, b)
<1> DEFINE I == c..b
<1>1. Cardinality(I) = b - c + 1
  <2>1. c \in Int /\ b \in Int
    OBVIOUS
  <2>2. Cardinality(c..b) = IF c > b THEN 0 ELSE b - c + 1
    BY <2>1, FS_Interval
  <2> QED BY <2>2
<1>2. ASSUME NEW i \in I PROVE Cardinality({j \in I : j <= i}) = i - c + 1
  <2>1. {j \in I : j <= i} = c..i
    OBVIOUS
  <2>2. Cardinality(c..i) = i - c + 1
    BY FS_Interval
  <2> QED BY Zenon, <2>1, <2>2
<1>3. ASSUME NEW k \in 1..b - c + 1
      PROVE  (CHOOSE i \in I : Cardinality({j \in I : j <= i}) = k) = c + k - 1
  <2>1. c + k - 1 \in I /\ Cardinality({j \in I : j <= c + k - 1}) = k
    <3>1. c + k - 1 \in I
      OBVIOUS
    <3>2. Cardinality({j \in I : j <= c + k - 1}) = (c + k - 1) - c + 1
      BY Zenon, <1>2, <3>1
    <3> QED BY <3>1, <3>2
  <2>2. \A i \in I : Cardinality({j \in I : j <= i}) = k => i = c + k - 1
    <3> SUFFICES ASSUME NEW i \in I, Cardinality({j \in I : j <= i}) = k PROVE i = c + k - 1
      OBVIOUS
    <3>1. i - c + 1 = k
      BY <1>2
    <3> QED BY <3>1
  <2> HIDE DEF I
  <2> QED BY <2>1, <2>2
<1>4. M!Picked(s, I) = [k \in 1..b - c + 1 |-> s[c + k - 1]]
  <2>1. M!Picked(s, I) =
          [k \in 1..Cardinality(I) |-> s[CHOOSE i \in I : Cardinality({j \in I : j <= i}) = k]]
    <3> HIDE DEF I
    <3> QED BY DEF M!Picked, M!Cardinality, Cardinality
  <2> HIDE DEF I
  <2> QED BY Zenon, <2>1, <1>1, <1>3
<1>5. SubSeq(s, c, b) = [k \in 1..b - c + 1 |-> s[c + k - 1]]
  BY SubSeqProperties
<1> QED BY <1>4, <1>5

\* The notifications of the first lifecycle come first.
LEMMA GroupComesFirst ==
  ASSUME batch \in Seq(Note), batch # <<>>,
         \A i, j \in DOMAIN batch : i < j => batch[i].generation <= batch[j].generation
  PROVE  \E p \in 1..Len(batch) :
           /\ \A i \in 1..p : batch[i].generation = Head(batch).generation
           /\ \A i \in p + 1..Len(batch) : batch[i].generation # Head(batch).generation
           /\ M!Group = SubSeq(batch, 1, p) /\ M!Rest = SubSeq(batch, p + 1, Len(batch))
<1> DEFINE N == Len(batch)
           g == Head(batch).generation
           T == {i \in 1..N + 1 : i = N + 1 \/ batch[i].generation # g}
<1>1. N \in Nat \ {0} /\ DOMAIN batch = 1..N /\ batch[1] = Head(batch)
  OBVIOUS
<1>2. \A i \in 1..N : batch[i].generation \in Nat
  <2> SUFFICES ASSUME NEW i \in 1..N PROVE batch[i].generation \in Nat
    OBVIOUS
  <2>1. batch[i] \in Note
    OBVIOUS
  <2> QED BY <2>1 DEF Note
<1>3. PICK q \in T : \A i \in T : q <= i
  <2>1. T \subseteq Nat /\ N + 1 \in T
    BY <1>1
  <2> HIDE DEF T
  <2> QED BY <2>1, Least
<1>4. q \in 2..N + 1 /\ \A i \in 1..q - 1 : batch[i].generation = g
  <2>1. q # 1
    BY <1>1, <1>3
  <2>2. ASSUME NEW i \in 1..q - 1 PROVE batch[i].generation = g
    <3>1. i \in 1..N + 1 /\ i < q /\ i # N + 1
      BY <1>1, <1>3
    <3>2. i \notin T
      BY <1>1, <1>3, <3>1
    <3> QED BY <3>1, <3>2
  <2> QED BY <1>1, <1>3, <2>1, <2>2
<1>5. ASSUME NEW i \in q..N PROVE batch[i].generation # g
  <2>1. q \in 1..N /\ batch[q].generation # g
    BY <1>1, <1>3, <1>4
  <2>2. g <= batch[q].generation /\ batch[q].generation <= batch[i].generation
    <3>1. batch[1].generation <= batch[q].generation
      BY <1>1, <1>2, <1>4, <2>1
    <3>2. batch[q].generation <= batch[i].generation
      <4>1. CASE i = q
        BY <1>2, <2>1, <4>1
      <4>2. CASE i # q
        <5>1. i \in 1..N /\ q < i
          BY <1>1, <2>1, <4>2
        <5> QED BY <1>1, <2>1, <5>1
      <4> QED BY <4>1, <4>2
    <3> QED BY <1>1, <3>1, <3>2
  <2>3. i \in 1..N /\ g \in Nat /\ batch[i].generation \in Nat /\ batch[q].generation \in Nat
    BY <1>1, <1>2, <2>1
  <2> QED BY <2>1, <2>2, <2>3
<1>6. M!Group = SubSeq(batch, 1, q - 1)
  <2>1. {i \in DOMAIN batch : batch[i].generation = g} = 1..q - 1
    BY <1>1, <1>4, <1>5
  <2>2. q - 1 \in Nat /\ q - 1 <= Len(batch)
    BY <1>1, <1>4
  <2>3. M!Picked(batch, 1..q - 1) = SubSeq(batch, 1, q - 1)
    BY <2>2, PickedStretch
  <2> QED BY Zenon, <2>1, <2>3 DEF M!Group
<1>7. M!Rest = SubSeq(batch, q, N)
  <2>1. {i \in DOMAIN batch : batch[i].generation # g} = q..N
    BY <1>1, <1>4, <1>5
  <2>2. q \in Nat \ {0} /\ N \in Nat /\ q <= N + 1 /\ N <= Len(batch)
    BY <1>1, <1>4
  <2>3. M!Picked(batch, q..N) = SubSeq(batch, q, N)
    BY Zenon, <2>2, PickedStretch
  <2> QED BY Zenon, <2>1, <2>3 DEF M!Rest
<1>8. q - 1 \in 1..N /\ (q - 1) + 1 = q
  BY <1>1, <1>4
<1> QED BY Zenon, <1>4, <1>5, <1>6, <1>7, <1>8

LEMMA StreamOf ==
  ASSUME NEW gs \in Seq(Told), NEW w \in Seq(Note)
  PROVE  /\ Notes(gs) \in Seq(Note) /\ Len(Notes(gs)) = Len(gs)
         /\ \A i \in 1..Len(gs) : Notes(gs)[i] = gs[i].note /\ gs[i].note \in Note /\ gs[i] \in Told
         /\ Notes(gs) \o w \in Seq(Note) /\ Len(Notes(gs) \o w) = Len(gs) + Len(w)
         /\ \A i \in 1..Len(gs) : (Notes(gs) \o w)[i] = gs[i].note
         /\ \A i \in 1..Len(w) : (Notes(gs) \o w)[Len(gs) + i] = w[i]
         /\ \A i \in Len(gs) + 1..Len(gs) + Len(w) : (Notes(gs) \o w)[i] = w[i - Len(gs)]
<1>1. DOMAIN gs = 1..Len(gs) /\ Len(gs) \in Nat /\ Len(w) \in Nat
  OBVIOUS
<1>2. \A i \in 1..Len(gs) : gs[i] \in Told
  OBVIOUS
<1>3. \A i \in 1..Len(gs) : gs[i].note \in Note
  BY <1>2 DEF Told
<1>4. Notes(gs) = [i \in 1..Len(gs) |-> gs[i].note]
  BY <1>1 DEF Notes
<1>5. Notes(gs) \in Seq(Note) /\ Len(Notes(gs)) = Len(gs)
  BY <1>1, <1>3, <1>4
<1>6. \A i \in 1..Len(gs) : Notes(gs)[i] = gs[i].note
  BY <1>4
<1>7. /\ Notes(gs) \o w \in Seq(Note) /\ Len(Notes(gs) \o w) = Len(gs) + Len(w)
      /\ \A i \in 1..Len(gs) + Len(w) :
           (Notes(gs) \o w)[i] = IF i <= Len(gs) THEN Notes(gs)[i] ELSE w[i - Len(gs)]
  <2> DEFINE n == Notes(gs)
  <2>1. n \in Seq(Note) /\ Len(n) = Len(gs)
    BY <1>5
  <2> HIDE DEF n
  <2>2. /\ n \o w \in Seq(Note) /\ Len(n \o w) = Len(gs) + Len(w)
        /\ \A i \in 1..Len(gs) + Len(w) : (n \o w)[i] = IF i <= Len(gs) THEN n[i] ELSE w[i - Len(gs)]
    BY <2>1, ConcatProperties
  <2> QED BY <2>2 DEF n
<1>8. \A i \in 1..Len(w) : (Notes(gs) \o w)[Len(gs) + i] = w[i]
  <2> SUFFICES ASSUME NEW i \in 1..Len(w) PROVE (Notes(gs) \o w)[Len(gs) + i] = w[i]
    OBVIOUS
  <2>1. Len(gs) + i \in 1..Len(gs) + Len(w) /\ ~(Len(gs) + i <= Len(gs)) /\ (Len(gs) + i) - Len(gs) = i
    BY <1>1
  <2> QED BY <1>7, <2>1
<1> QED BY <1>1, <1>2, <1>3, <1>5, <1>6, <1>7, <1>8

LEMMA HeldTypes ==
  MonitorTypes => /\ Held \in Seq(Note) /\ Waiting \in Seq(Note) /\ Len(Waiting) = Len(Held) + Len(queue)
                  /\ Stream \in Seq(Note) /\ Len(Stream) = Len(given) + Len(Waiting)
                  /\ Len(given) \in Nat /\ Len(Waiting) \in Nat
<1> SUFFICES ASSUME MonitorTypes
             PROVE  /\ Held \in Seq(Note) /\ Waiting \in Seq(Note) /\ Len(Waiting) = Len(Held) + Len(queue)
                    /\ Stream \in Seq(Note) /\ Len(Stream) = Len(given) + Len(Waiting)
                    /\ Len(given) \in Nat /\ Len(Waiting) \in Nat
  OBVIOUS
<1>1. batch \in Seq(Note) /\ queue \in Seq(Note) /\ given \in Seq(Told)
  BY DEF MonitorTypes
<1>2. Held \in Seq(Note)
  BY <1>1 DEF Held
<1>3. Waiting \in Seq(Note) /\ Len(Waiting) = Len(Held) + Len(queue)
  BY <1>1, <1>2 DEF Waiting
<1>4. Stream \in Seq(Note) /\ Len(Stream) = Len(given) + Len(Waiting)
  BY Zenon, <1>1, <1>3, StreamOf DEF Stream
<1> QED BY <1>1, <1>2, <1>3, <1>4

\* No task or record goes back.
Onward ==
  /\ \A m \in Monitors :
       /\ stage[m] # "none" => stage'[m] # "none" /\ born'[m] = born[m]
       /\ stage[m] = "done" => stage'[m] = "done"
       /\ monitorStatus[m] \in M!Final => monitorStatus'[m] \in M!Final
  /\ settled \subseteq settled'

LEMMA TrueStays ==
  ASSUME Onward, NEW e \in Note, TrueNote(e)
  PROVE  TrueNote(e)'
<1>1. e.m \in Monitors
  BY DEF Note
<1> QED BY <1>1 DEF Onward, TrueNote

\* Nothing is said, given or forgotten.
LEMMA Quietly ==
  ASSUME MonitorInv, MonitorTypes', Onward, Stream' = Stream, given' = given, born' = born,
         \A m \in Monitors : Live(m)' => Live(m),
         \A m \in Monitors : \/ lines'[m] = lines[m]
                             \/ lines'[m] = lines[m] + 1 /\ stage[m] # "done" /\ ~Live(m)'
  PROVE  Truthful' /\ Ordered'
<1>1. Stream \in Seq(Note) /\ MonitorTypes /\ Truthful /\ Ordered
  BY HeldTypes DEF MonitorInv
<1>2. Truthful'
  <2>1. \A i \in DOMAIN Stream : Stream[i] \in Note
    BY <1>1
  <2> QED BY <1>1, <2>1, TrueStays DEF Truthful
<1>3. ASSUME NEW m \in Monitors, NEW i \in Own(Stream, m, born[m]), i <= Len(given) \/ Live(m)'
      PROVE  Right(Stream, m, born[m], i, lines'[m])
  <2>1. Right(Stream, m, born[m], i, lines[m])
    BY Zenon, <1>1, <1>3 DEF Ordered
  <2>2. CASE lines'[m] = lines[m]
    BY <2>1, <2>2
  <2>3. CASE lines'[m] = lines[m] + 1 /\ stage[m] # "done"
    <3>1. TrueNote(Stream[i]) /\ Stream[i].m = m
      BY <1>1 DEF Truthful, Own
    <3>2. Stream[i].n # M!End
      BY <2>3, <3>1 DEF TrueNote
    <3>3. lines[m] \in Nat
      BY <1>1 DEF MonitorTypes
    <3> QED BY <2>1, <2>3, <3>2, <3>3 DEF Right
  <2> QED BY <2>2, <2>3
<1>4. ASSUME NEW m \in Monitors, Live(m)'
      PROVE  1..lines'[m] \subseteq Said(Stream, m, born[m])
  BY <1>1, <1>4 DEF Ordered
<1>5. Ordered'
  BY <1>3, <1>4 DEF Ordered
<1> QED BY <1>2, <1>5

\* Of a monitor whose task is not over the model has not heard that it ended.
LEMMA LinesSoFar ==
  ASSUME MonitorInv, NEW m \in Monitors, Live(m), stage[m] # "done" \/ monitorStatus[m] \notin M!Final
  PROVE  Said(Stream, m, born[m]) = 1..lines[m]
<1>1. Stream \in Seq(Note) /\ MonitorTypes /\ Truthful /\ Ordered
  BY HeldTypes DEF MonitorInv
<1>2. ASSUME NEW i \in Own(Stream, m, born[m]) PROVE Stream[i].n \in 1..lines[m]
  <2>1. TrueNote(Stream[i]) /\ Stream[i].m = m
    BY <1>1 DEF Truthful, Own
  <2>2. Stream[i].n # M!End
    BY <2>1 DEF TrueNote
  <2>3. Right(Stream, m, born[m], i, lines[m])
    BY Zenon, <1>1 DEF Ordered
  <2> QED BY <2>2, <2>3 DEF Right
<1>3. 1..lines[m] \subseteq Said(Stream, m, born[m])
  BY <1>1 DEF Ordered
<1> QED BY <1>2, <1>3 DEF Said

\* The next line of m is queued, or that it has ended.
Says(m, n) ==
  /\ UNCHANGED <<given, born, generation, sessionClosing>> /\ sessionClosing = 0
  /\ stage[m] # "none"
  /\ Stream' = Append(Stream, [m |-> m, n |-> n, generation |-> generation])
  /\ \/ /\ n = M!End /\ lines' = lines /\ (stage[m] # "done" \/ monitorStatus[m] \notin M!Final)
        /\ stage'[m] = "done" /\ monitorStatus'[m] \in M!Final /\ (born[m] = generation \/ m \in settled')
     \/ /\ n = lines[m] + 1 /\ lines' = [lines EXCEPT ![m] = n] /\ stage[m] # "done"
        /\ born[m] = generation

LEMMA Speaks ==
  ASSUME MonitorInv, MonitorTypes', Onward, NEW m \in Monitors, NEW n \in Nat, Says(m, n)
  PROVE  Truthful' /\ Ordered'
<1> DEFINE e == [m |-> m, n |-> n, generation |-> generation]
           s == Stream
           t == Append(Stream, e)
<1>0. /\ given' = given /\ born' = born /\ generation' = generation
      /\ sessionClosing = 0 /\ sessionClosing' = 0 /\ stage[m] # "none" /\ Stream' = t
  BY DEF Says
<1>1. /\ s \in Seq(Note) /\ MonitorTypes /\ Truthful /\ Ordered /\ Len(given) \in Nat
      /\ Len(Stream) >= Len(given)
  BY HeldTypes DEF MonitorInv
<1>2. e \in Note /\ e.m = m /\ e.n = n /\ e.generation = generation
  BY <1>1 DEF MonitorTypes, Note
<1>3. /\ t \in Seq(Note) /\ Len(t) = Len(s) + 1 /\ t[Len(s) + 1] = e
      /\ \A i \in 1..Len(s) : t[i] = s[i] /\ s[i] \in Note
  BY <1>1, <1>2, AppendProperties
<1>4. lines[m] \in Nat
  BY <1>1 DEF MonitorTypes
<1>5. \A a \in Monitors \ {m} : lines'[a] = lines[a]
  BY Zenon, <1>1 DEF MonitorTypes, Says
<1>6. n # M!End => n = lines[m] + 1 /\ lines'[m] = n /\ stage[m] # "done"
  BY <1>1, <1>4 DEF MonitorTypes, Says
<1>7. n = M!End => /\ lines' = lines /\ (stage[m] # "done" \/ monitorStatus[m] \notin M!Final)
                   /\ stage'[m] = "done" /\ monitorStatus'[m] \in M!Final
  BY <1>4 DEF Says, M!End
<1>11. born[m] = generation \/ (n = M!End /\ m \in settled')
  BY DEF Says
<1> HIDE DEF e, t, s
<1>8. Truthful'
  <2>1. ASSUME NEW x \in Note, x = e PROVE TrueNote(x)'
    BY <1>0, <1>2, <1>7, <1>11, <2>1 DEF TrueNote, Onward
  <2>2. ASSUME NEW i \in 1..Len(s), NEW x \in Note, x = s[i] PROVE TrueNote(x)'
    <3>1. TrueNote(x)
      BY <1>1, <2>2 DEF Truthful, s
    <3> QED BY <3>1, TrueStays
  <2>3. ASSUME NEW i \in 1..Len(t), NEW x \in Note, x = t[i] PROVE TrueNote(x)'
    BY <1>1, <1>3, <2>1, <2>2, <2>3
  <2>4. \A i \in 1..Len(t) : t[i] \in Note
    BY <1>2, <1>3, <1>1
  <2>5. \A i \in DOMAIN Stream' : TrueNote(Stream[i])'
    BY <1>0, <1>3, <2>3, <2>4
  <2> QED BY <1>0, <1>1, <2>5 DEF Truthful
<1>9. ASSUME NEW a \in Monitors
      PROVE  /\ \A i \in Own(t, a, born[a]) :
                  i <= Len(given) \/ Live(a) => Right(t, a, born[a], i, lines'[a])
             /\ Live(a) => 1..lines'[a] \subseteq Said(t, a, born[a])
  <2> DEFINE g == born[a]
  <2> HIDE DEF g
  <2>0. s \in Seq(Note) /\ e \in Note /\ t = Append(s, e) /\ g = born[a]
    BY <1>1, <1>2 DEF t, s, g
  <2>2. lines[a] \in Nat /\ lines'[a] \in Nat
    BY <1>1 DEF MonitorTypes
  <2>1. \A i \in Own(s, a, g) : Right(t, a, g, i, lines'[a]) <=> Right(s, a, g, i, lines'[a])
    BY <2>0, <2>2, OwnKept
  <2>3. ASSUME NEW i \in Own(s, a, g), i <= Len(given) \/ Live(a)
        PROVE  Right(t, a, g, i, lines'[a])
    <3>1. Right(s, a, g, i, lines[a])
      BY <1>1, <2>0, <2>3 DEF Ordered, s
    <3>2. Right(s, a, g, i, lines'[a])
      <4>1. CASE lines'[a] = lines[a]
        BY <3>1, <4>1
      <4>2. CASE lines'[a] # lines[a]
        <5>1. a = m /\ n # M!End /\ stage[m] # "done"
          BY <1>5, <1>6, <1>7, <4>2
        <5>2. TrueNote(s[i]) /\ s[i].m = m
          BY <1>1, <5>1 DEF Truthful, Own, s
        <5>3. s[i].n # M!End
          BY <5>1, <5>2 DEF TrueNote
        <5>4. lines'[a] = lines[a] + 1
          BY <1>6, <5>1
        <5> QED BY <2>2, <3>1, <5>3, <5>4 DEF Right
      <4> QED BY <4>1, <4>2
    <3> QED BY <2>1, <2>2, <3>2
  <2>4. CASE a # m \/ g # generation
    <3>1. Own(t, a, g) = Own(s, a, g) /\ Said(t, a, g) = Said(s, a, g)
      BY <1>2, <2>0, <2>4, OwnOfOther
    <3>2. lines'[a] = lines[a]
      BY <1>5, <1>7, <1>11, <2>0, <2>4
    <3>3. Live(a) => 1..lines[a] \subseteq Said(s, a, g)
      BY <1>1, <2>0 DEF Ordered, s
    <3> QED BY <2>0, <2>3, <3>1, <3>2, <3>3
  <2>5. CASE a = m /\ g = generation
    <3>1. Live(a)
      BY <1>0, <2>0, <2>5 DEF Live
    <3>2. Said(s, a, g) = 1..lines[a]
      BY <1>6, <1>7, <2>0, <2>5, <3>1, LinesSoFar DEF s
    <3>3. (e.n = M!End /\ lines'[a] = lines[a]) \/ (e.n = lines[a] + 1 /\ lines'[a] = lines[a] + 1)
      <4>1. CASE n = M!End
        BY <1>2, <1>7, <4>1
      <4>2. CASE n # M!End
        BY <1>2, <1>6, <2>5, <4>2
      <4> QED BY <4>1, <4>2
    <3>4. Own(t, a, g) = Own(s, a, g) \cup {Len(s) + 1}
      <4>1. e.m = a /\ e.generation = g
        BY <1>2, <2>5
      <4>2. Own(Append(s, e), a, g) = Own(s, a, g) \cup {Len(s) + 1}
        BY Zenon, <2>0, <4>1, OwnOfAppend
      <4> QED BY <2>0, <4>2
    <3>5. Right(t, a, g, Len(s) + 1, lines'[a])
      BY <1>2, <2>0, <2>2, <2>5, <3>2, <3>3, OwnSpeaks
    <3>6. 1..lines'[a] \subseteq Said(t, a, g)
      BY <1>2, <2>0, <2>2, <2>5, <3>2, <3>3, OwnSpeaks
    <3> QED BY <2>0, <2>3, <3>4, <3>5, <3>6
  <2> QED BY <2>4, <2>5
<1>10. \A a \in Monitors : Live(a)' <=> Live(a)
  BY <1>0 DEF Live
<1> QED BY <1>0, <1>8, <1>9, <1>10 DEF Ordered

\* Up to place k nothing changes.
LEMMA PastStays ==
  ASSUME NEW s \in Seq(Note), NEW t \in Seq(Note), NEW k \in Nat, k <= Len(s), k <= Len(t),
         \A i \in 1..k : t[i] = s[i], NEW m, NEW g
  PROVE  \A i \in Own(t, m, g) :
           i <= k => /\ i \in Own(s, m, g)
                     /\ \A l \in Nat : Right(t, m, g, i, l) <=> Right(s, m, g, i, l)
<1> DEFINE u == SubSeq(t, 1, k)
<1>1. u \in Seq(Note) /\ Len(u) = k /\ \A i \in 1..Len(u) : u[i] = t[i] /\ u[i] = s[i]
  BY SubSeqProperties
<1> HIDE DEF u
<1>2. Own(u, m, g) = Own(t, m, g) \cap 1..k /\ Own(u, m, g) = Own(s, m, g) \cap 1..k
  BY SMTT(60), <1>1, OwnOfPrefix
<1>3. \A i \in Own(u, m, g), l \in Nat : Right(u, m, g, i, l) <=> Right(t, m, g, i, l)
  BY <1>1, OwnOfPrefix
<1>4. \A i \in Own(u, m, g), l \in Nat : Right(u, m, g, i, l) <=> Right(s, m, g, i, l)
  BY <1>1, OwnOfPrefix
<1>5. ASSUME NEW i \in Own(t, m, g), i <= k PROVE i \in Own(u, m, g)
  BY <1>2, <1>5 DEF Own
<1> QED BY <1>2, <1>3, <1>4, <1>5

\* The first p of what waits are of other lifecycles, and dropped.
Forgot(p) ==
  /\ UNCHANGED <<given, born, lines, generation, sessionClosing>>
  /\ p <= Len(Waiting) /\ Waiting' = SubSeq(Waiting, p + 1, Len(Waiting))
  /\ \A i \in 1..p : Waiting[i].generation # generation

LEMMA Forgets ==
  ASSUME MonitorInv, MonitorTypes', Onward, NEW p \in Nat, Forgot(p)
  PROVE  Truthful' /\ Ordered'
<1>1. PICK s, t, v, w, n0 : s = Stream /\ t = Stream' /\ v = Waiting /\ w = Waiting' /\ n0 = Len(given)
  OBVIOUS
<1>2. MonitorTypes /\ Truthful /\ Ordered
  BY DEF MonitorInv
<1>3. /\ given' = given /\ born' = born /\ lines' = lines /\ generation' = generation
      /\ sessionClosing' = sessionClosing /\ p <= Len(v) /\ w = SubSeq(v, p + 1, Len(v))
      /\ \A i \in 1..p : v[i].generation # generation
  BY <1>1 DEF Forgot
<1>4. /\ given \in Seq(Told) /\ n0 = Len(given) /\ n0 \in Nat /\ v \in Seq(Note) /\ Len(v) \in Nat
      /\ s = Notes(given) \o v /\ t = Notes(given) \o w
  BY Zenon, <1>1, <1>2, <1>3, HeldTypes DEF MonitorTypes, Stream
<1>5. /\ w \in Seq(Note) /\ Len(w) = Len(v) - p
      /\ \A i \in 1..Len(v) - p : w[i] = v[i + p]
  <2>1. p + 1 \in Int /\ Len(v) \in Int /\ Len(v) \in Nat /\ p <= Len(v)
    BY <1>3, <1>4
  <2>2. SubSeq(v, p + 1, Len(v)) \in Seq(Note)
    BY <1>3, <1>4, TwoParts
  <2>3. \A i \in p + 1..Len(v) : v[i] \in Note
    BY <1>4, <2>1
  <2>4. Len(SubSeq(v, p + 1, Len(v))) = IF p + 1 <= Len(v) THEN Len(v) - (p + 1) + 1 ELSE 0
    BY <2>1, <2>3, SubSeqProperties
  <2>5. \A i \in 1..Len(v) - (p + 1) + 1 : SubSeq(v, p + 1, Len(v))[i] = v[(p + 1) + i - 1]
    BY <2>1, <2>3, SubSeqProperties
  <2>6. Len(w) = Len(v) - p
    BY <1>3, <2>1, <2>4
  <2>7. ASSUME NEW i \in 1..Len(v) - p PROVE w[i] = v[i + p]
    <3>1. i \in 1..Len(v) - (p + 1) + 1 /\ (p + 1) + i - 1 = i + p
      BY <2>1
    <3> QED BY <1>3, <2>5, <3>1
  <2> QED BY <1>3, <2>2, <2>6, <2>7
<1>6. /\ s \in Seq(Note) /\ Len(s) = n0 + Len(v)
      /\ \A i \in 1..n0 : s[i] = given[i].note
      /\ \A i \in n0 + 1..n0 + Len(v) : s[i] = v[i - n0]
  BY <1>4, StreamOf
<1>7. /\ t \in Seq(Note) /\ Len(t) = n0 + Len(w)
      /\ \A i \in 1..n0 : t[i] = given[i].note
      /\ \A i \in n0 + 1..n0 + Len(w) : t[i] = w[i - n0]
  BY Zenon, <1>4, <1>5, StreamOf
<1>8. /\ Len(s) = Len(t) + p /\ n0 <= Len(t) /\ n0 <= Len(s) /\ Len(t) \in Nat /\ Len(s) \in Nat
      /\ \A i \in 1..n0 : t[i] = s[i]
  <2>1. Len(s) = n0 + Len(v) /\ Len(t) = n0 + Len(w) /\ Len(w) = Len(v) - p /\ p <= Len(v)
    BY <1>3, <1>5, <1>6, <1>7
  <2>2. n0 \in Nat /\ Len(v) \in Nat
    BY <1>4
  <2>3. \A i \in 1..n0 : t[i] = s[i]
    BY <1>6, <1>7
  <2> QED BY <2>1, <2>2, <2>3
<1>9. \A i \in n0 + 1..n0 + p : s[i].generation # generation
  <2> SUFFICES ASSUME NEW i \in n0 + 1..n0 + p PROVE s[i].generation # generation
    OBVIOUS
  <2>1. i \in n0 + 1..n0 + Len(v) /\ i - n0 \in 1..p
    BY <1>3, <1>4
  <2> QED BY <1>3, <1>6, <2>1
<1>10. \A i \in n0 + 1..Len(t) : t[i] = s[i + p]
  <2> SUFFICES ASSUME NEW i \in n0 + 1..Len(t) PROVE t[i] = s[i + p]
    OBVIOUS
  <2>1. i \in n0 + 1..n0 + Len(w) /\ i - n0 \in 1..Len(v) - p /\ i + p \in n0 + 1..n0 + Len(v)
    BY <1>4, <1>5, <1>7, <1>8
  <2>2. t[i] = w[i - n0] /\ s[i + p] = v[(i + p) - n0] /\ w[i - n0] = v[(i - n0) + p]
    BY Zenon, <1>5, <1>6, <1>7, <2>1
  <2>3. (i + p) - n0 = (i - n0) + p
    BY <1>4
  <2> QED BY <2>2, <2>3
<1>11. Truthful'
  <2>1. ASSUME NEW i \in 1..Len(t), NEW x \in Note, x = t[i] PROVE TrueNote(x)'
    <3>1. PICK k \in 1..Len(s) : t[i] = s[k]
      <4>1. CASE i <= n0
        BY <1>8, <4>1
      <4>2. CASE ~(i <= n0)
        <5>1. i \in n0 + 1..Len(t) /\ i + p \in 1..Len(s)
          BY <1>4, <1>8, <4>2
        <5> QED BY <1>10, <5>1
      <4> QED BY <4>1, <4>2
    <3>2. TrueNote(x)
      BY <1>1, <1>2, <1>6, <2>1, <3>1 DEF Truthful
    <3> QED BY <3>2, TrueStays
  <2>2. \A i \in 1..Len(t) : t[i] \in Note
    BY <1>7
  <2>3. \A i \in DOMAIN Stream' : TrueNote(Stream[i])'
    BY <1>1, <1>7, <2>1, <2>2
  <2> QED BY <1>2, <1>3, <2>3 DEF Truthful
<1>12. ASSUME NEW a \in Monitors
       PROVE  /\ \A i \in Own(t, a, born[a]) : i <= n0 \/ Live(a) => Right(t, a, born[a], i, lines[a])
              /\ Live(a) => 1..lines[a] \subseteq Said(t, a, born[a])
  <2>1. PICK g, l : g = born[a] /\ l = lines[a] /\ l \in Nat
    BY <1>2 DEF MonitorTypes
  <2>2. /\ \A i \in Own(s, a, g) : i <= n0 \/ Live(a) => Right(s, a, g, i, l)
        /\ Live(a) => 1..l \subseteq Said(s, a, g)
    BY Zenon, <1>1, <1>2, <2>1 DEF Ordered
  <2>3. ASSUME NEW i \in Own(t, a, g), i <= n0 PROVE Right(t, a, g, i, l)
    <3>1. /\ s \in Seq(Note) /\ t \in Seq(Note) /\ n0 \in Nat /\ n0 <= Len(s) /\ n0 <= Len(t)
          /\ \A k \in 1..n0 : t[k] = s[k]
      BY <1>4, <1>6, <1>7, <1>8
    <3>2. i \in Own(s, a, g) /\ (Right(t, a, g, i, l) <=> Right(s, a, g, i, l))
      BY <2>1, <2>3, <3>1, PastStays
    <3> QED BY <2>2, <2>3, <3>2
  <2>4. ASSUME Live(a)
        PROVE  /\ \A i \in Own(t, a, g) : Right(t, a, g, i, l)
               /\ 1..l \subseteq Said(t, a, g)
    <3>1. \A i \in n0 + 1..n0 + p : s[i].generation # g
      BY <1>9, <2>1, <2>4 DEF Live
    <3>2. /\ s \in Seq(Note) /\ t \in Seq(Note) /\ n0 \in Nat /\ p \in Nat
          /\ Len(s) = Len(t) + p /\ n0 <= Len(t)
          /\ \A i \in 1..n0 : t[i] = s[i]
          /\ \A i \in n0 + 1..Len(t) : t[i] = s[i + p]
      BY Zenon, <1>4, <1>6, <1>7, <1>8, <1>10
    <3>3. /\ \A i \in Own(t, a, g) : \E k \in Own(s, a, g) :
                \A h \in Nat : Right(t, a, g, i, h) <=> Right(s, a, g, k, h)
          /\ \A x \in Said(s, a, g) : x \in Said(t, a, g)
      BY <3>1, <3>2, OwnOfRest, ZenonT(60)
    <3>4. ASSUME NEW i \in Own(t, a, g) PROVE Right(t, a, g, i, l)
      <4>1. PICK k \in Own(s, a, g) : \A h \in Nat : Right(t, a, g, i, h) <=> Right(s, a, g, k, h)
        BY <3>3
      <4> QED BY <2>1, <2>2, <2>4, <4>1
    <3> QED BY <2>1, <2>2, <2>4, <3>3, <3>4
  <2> QED BY <2>1, <2>3, <2>4
<1>13. \A a \in Monitors : Live(a)' <=> Live(a)
  BY <1>3 DEF Live
<1> QED BY Zenon, <1>1, <1>3, <1>11, <1>12, <1>13 DEF Ordered

\* No monitor is of the current lifecycle any more, and some of what waits is dropped.
Cleared ==
  /\ UNCHANGED <<given, born, lines>> /\ \A a \in Monitors : ~Live(a)'
  /\ Waiting' \in {<<>>, Held, Waiting}

LEMMA Clears ==
  ASSUME MonitorInv, MonitorTypes', Onward, Cleared
  PROVE  Truthful' /\ Ordered'
<1>1. PICK s, t, v, w, n0 : s = Stream /\ t = Stream' /\ v = Waiting /\ w = Waiting' /\ n0 = Len(given)
  OBVIOUS
<1>2. MonitorTypes /\ Truthful /\ Ordered
  BY DEF MonitorInv
<1>3. given' = given /\ born' = born /\ lines' = lines /\ \A a \in Monitors : ~Live(a)'
  BY DEF Cleared
<1>4. /\ given \in Seq(Told) /\ n0 = Len(given) /\ n0 \in Nat /\ v \in Seq(Note) /\ Len(v) \in Nat
      /\ s = Notes(given) \o v /\ t = Notes(given) \o w
  BY Zenon, <1>1, <1>2, <1>3, HeldTypes DEF MonitorTypes, Stream
<1>5. w \in Seq(Note) /\ Len(w) <= Len(v) /\ \A i \in 1..Len(w) : w[i] = v[i]
  <2>1. PICK h, q : h = Held /\ q = queue /\ h \in Seq(Note) /\ q \in Seq(Note)
    BY <1>2, HeldTypes DEF MonitorTypes
  <2>2. v = h \o q
    BY <1>1, <2>1 DEF Waiting
  <2>3. Len(v) = Len(h) + Len(q) /\ \A i \in 1..Len(h) : v[i] = h[i]
    BY <2>1, <2>2, ConcatProperties
  <2>4. w = <<>> \/ w = h \/ w = v
    BY <1>1, <2>1 DEF Cleared
  <2>5. CASE w = <<>>
    BY <1>4, <2>5
  <2>6. CASE w = h
    <3>1. Len(h) \in Nat /\ Len(q) \in Nat /\ Len(h) <= Len(v)
      BY <2>1, <2>3
    <3> QED BY <2>1, <2>3, <2>6, <3>1
  <2>7. CASE w = v
    BY <1>4, <2>7
  <2> QED BY <2>4, <2>5, <2>6, <2>7
<1>6. /\ s \in Seq(Note) /\ Len(s) = n0 + Len(v)
      /\ \A i \in 1..n0 : s[i] = given[i].note
      /\ \A i \in n0 + 1..n0 + Len(v) : s[i] = v[i - n0]
  BY <1>4, StreamOf
<1>7. /\ t \in Seq(Note) /\ Len(t) = n0 + Len(w)
      /\ \A i \in 1..n0 : t[i] = given[i].note
      /\ \A i \in n0 + 1..n0 + Len(w) : t[i] = w[i - n0]
  BY <1>4, <1>5, StreamOf
<1>8. n0 <= Len(t) /\ n0 <= Len(s) /\ Len(t) <= Len(s) /\ \A i \in 1..n0 : t[i] = s[i]
  BY <1>4, <1>5, <1>6, <1>7
<1>9. \A i \in 1..Len(t) : t[i] = s[i]
  <2> SUFFICES ASSUME NEW i \in 1..Len(t), ~(i <= n0) PROVE t[i] = s[i]
    BY <1>8
  <2>1. i \in n0 + 1..n0 + Len(w) /\ i \in n0 + 1..n0 + Len(v) /\ i - n0 \in 1..Len(w)
    BY <1>4, <1>5, <1>7
  <2> QED BY <1>5, <1>6, <1>7, <2>1
<1>10. Truthful'
  <2>1. ASSUME NEW i \in 1..Len(t), NEW x \in Note, x = t[i] PROVE TrueNote(x)'
    <3>1. i \in 1..Len(s) /\ t[i] = s[i]
      BY <1>6, <1>7, <1>8, <1>9
    <3>2. TrueNote(x)
      BY <1>1, <1>2, <1>6, <2>1, <3>1 DEF Truthful
    <3> QED BY <3>2, TrueStays
  <2>2. \A i \in 1..Len(t) : t[i] \in Note
    BY <1>7
  <2>3. \A i \in DOMAIN Stream' : TrueNote(Stream[i])'
    BY <1>1, <1>7, <2>1, <2>2
  <2> QED BY <1>2, <1>3, <2>3 DEF Truthful
<1>11. ASSUME NEW a \in Monitors, NEW i \in Own(t, a, born[a]), i <= n0
       PROVE  Right(t, a, born[a], i, lines[a])
  <2>1. PICK g, l : g = born[a] /\ l = lines[a] /\ l \in Nat
    BY <1>2 DEF MonitorTypes
  <2>2. i \in Own(s, a, g) /\ (Right(t, a, g, i, l) <=> Right(s, a, g, i, l))
    <3>1. i \in Own(t, a, g) /\ i <= n0
      BY <1>11, <2>1
    <3>2. /\ s \in Seq(Note) /\ t \in Seq(Note) /\ n0 \in Nat /\ n0 <= Len(s) /\ n0 <= Len(t)
          /\ \A k \in 1..n0 : t[k] = s[k]
      BY <1>4, <1>6, <1>7, <1>8
    <3> QED BY <2>1, <3>1, <3>2, PastStays
  <2>3. Right(s, a, g, i, l)
    BY <1>1, <1>2, <1>11, <2>1, <2>2 DEF Ordered
  <2> QED BY <2>1, <2>2, <2>3
<1> QED BY <1>1, <1>3, <1>10, <1>11 DEF Ordered

\* What is given next is of the current lifecycle.
Gave ==
  /\ UNCHANGED <<born, lines, generation, sessionClosing>> /\ Stream' = Stream
  /\ sessionClosing = 0 /\ Len(given) <= Len(given')
  /\ \A i \in 1..Len(given') :
       \/ i <= Len(given) /\ given'[i] = given[i]
       \/ /\ given'[i].at = given'[i].note.generation
          /\ given'[i].note = Stream[i] /\ Stream[i].generation = generation

LEMMA Gives ==
  ASSUME MonitorInv, MonitorTypes', Onward, Gave
  PROVE  Truthful' /\ Ordered'
<1>1. /\ born' = born /\ lines' = lines /\ Stream' = Stream
      /\ \A a \in Monitors : Live(a)' <=> Live(a)
  BY DEF Gave, Live
<1>2. MonitorTypes /\ Truthful /\ Ordered /\ Stream \in Seq(Note)
  BY HeldTypes DEF MonitorInv
<1>3. given' \in Seq(Told) /\ given \in Seq(Told)
  BY <1>2 DEF MonitorTypes
<1>4. Truthful'
  <2>1. ASSUME NEW i \in 1..Len(given') PROVE given'[i].at = given'[i].note.generation
    BY <1>2, <1>3, <2>1 DEF Truthful, Gave
  <2>2. \A i \in DOMAIN Stream : Stream[i] \in Note
    BY <1>2
  <2> QED BY <1>1, <1>2, <1>3, <2>1, <2>2, TrueStays DEF Truthful
<1>5. ASSUME NEW a \in Monitors, NEW i \in Own(Stream, a, born[a]), i <= Len(given')
      PROVE  Right(Stream, a, born[a], i, lines[a])
  <2>1. i \in 1..Len(given') /\ Stream[i].generation = born[a]
    BY <1>3, <1>2, <1>5 DEF Own
  <2>2. CASE i <= Len(given)
    BY <1>2, <2>2 DEF Ordered
  <2>3. CASE ~(i <= Len(given))
    <3>1. Stream[i].generation = generation /\ sessionClosing = 0
      BY <2>1, <2>3 DEF Gave
    <3>2. Live(a)
      BY <2>1, <3>1 DEF Live
    <3> QED BY Zenon, <1>2, <3>2 DEF Ordered
  <2> QED BY <2>2, <2>3
<1> QED BY <1>1, <1>2, <1>4, <1>5 DEF Ordered

-----------------------------------------------------------------------------
\* Nothing happens to what waits.
LEMMA MailKept ==
  ASSUME Mail, UNCHANGED <<queue, batch, generation, sessionClosing>>, dispatcher = "turn" => turn' = turn,
         \/ dispatcher' = dispatcher
         \/ dispatcher = "none" /\ dispatcher' = "waiting" /\ sessionClosing = 0
  PROVE  Mail' /\ Waiting' = Waiting /\ (given' = given => Stream' = Stream)
<1>1. Held' = Held
  BY DEF Held
<1>2. Waiting' = Waiting
  BY <1>1 DEF Waiting
<1>3. given' = given => Stream' = Stream
  BY <1>2 DEF Stream
<1> QED BY <1>2, <1>3 DEF Mail

\* In the order of the lifecycles, none ahead of the session.
InOrder(w) ==
  /\ \A i, j \in DOMAIN w : i < j => w[i].generation <= w[j].generation
  /\ \A i \in DOMAIN w : w[i].generation <= generation

LEMMA OrderAppended ==
  ASSUME NEW w \in Seq(Note), NEW e \in Note, e.generation = generation, InOrder(w), generation \in Nat
  PROVE  InOrder(Append(w, e))
<1> DEFINE t == Append(w, e)
<1>1. t \in Seq(Note) /\ Len(t) = Len(w) + 1 /\ Len(w) \in Nat /\ t[Len(w) + 1] = e
      /\ \A i \in 1..Len(w) : t[i] = w[i]
  BY AppendProperties
<1> HIDE DEF t
<1>2. \A i \in 1..Len(t) : t[i].generation <= generation
  BY <1>1 DEF InOrder
<1>3. ASSUME NEW i \in 1..Len(t), NEW j \in 1..Len(t), i < j PROVE t[i].generation <= t[j].generation
  BY SMTT(60), <1>1, <1>2, <1>3 DEF InOrder
<1> QED BY <1>1, <1>2, <1>3 DEF InOrder, t

LEMMA OrderLeft ==
  ASSUME NEW w \in Seq(Note), NEW p \in Nat, p <= Len(w), InOrder(w)
  PROVE  InOrder(SubSeq(w, p + 1, Len(w)))
<1> DEFINE t == SubSeq(w, p + 1, Len(w))
<1>1. t \in Seq(Note) /\ Len(t) = Len(w) - p /\ Len(w) \in Nat /\ \A i \in 1..Len(t) : t[i] = w[i + p]
  BY SubSeqProperties
<1> HIDE DEF t
<1>2. \A i \in 1..Len(t) : i + p \in 1..Len(w)
  BY <1>1
<1>3. \A i \in 1..Len(t) : t[i].generation <= generation
  BY <1>1, <1>2 DEF InOrder
<1>4. ASSUME NEW i \in 1..Len(t), NEW j \in 1..Len(t), i < j PROVE t[i].generation <= t[j].generation
  <2>1. i + p < j + p /\ i + p \in 1..Len(w) /\ j + p \in 1..Len(w)
    BY <1>1, <1>2, <1>4
  <2>2. w[i + p].generation <= w[j + p].generation
    BY <2>1 DEF InOrder
  <2>3. t[i] = w[i + p] /\ t[j] = w[j + p]
    BY Zenon, <1>1
  <2> QED BY <2>2, <2>3
<1>5. DOMAIN t = 1..Len(t)
  BY <1>1
<1>6. InOrder(t)
  BY <1>3, <1>4, <1>5 DEF InOrder
<1> QED BY <1>6 DEF t

LEMMA OrderOfPrefix ==
  ASSUME NEW h \in Seq(Note), NEW q \in Seq(Note), InOrder(h \o q)
  PROVE  InOrder(h) /\ InOrder(q)
<1>1. PICK w, k : w = h \o q /\ k = Len(h)
  OBVIOUS
<1>2. k \in Nat /\ Len(q) \in Nat /\ DOMAIN w = 1..k + Len(q) /\ DOMAIN h = 1..k /\ DOMAIN q = 1..Len(q)
  BY <1>1, ConcatProperties
<1>3. \A i \in 1..k : w[i] = h[i]
  BY <1>1, ConcatProperties
<1>4. \A i \in 1..Len(q) : k + i \in DOMAIN w /\ w[k + i] = q[i]
  BY <1>1, <1>2, ConcatProperties
<1>5. InOrder(w)
  BY <1>1
<1>6. InOrder(h)
  <2>1. \A i \in DOMAIN h : i \in DOMAIN w /\ w[i] = h[i]
    BY <1>2, <1>3
  <2> QED BY <1>5, <2>1 DEF InOrder
<1>7. InOrder(q)
  <2>1. \A i, j \in DOMAIN q : i < j => k + i < k + j
    BY <1>2
  <2>2. \A i \in DOMAIN q : k + i \in DOMAIN w /\ w[k + i] = q[i]
    BY <1>2, <1>4
  <2> QED BY <1>5, <2>1, <2>2 DEF InOrder
<1> QED BY <1>6, <1>7

\* Conjuncts of Mail, from the order of what waits.
LEMMA MailOf ==
  Mail <=> /\ dispatcher \in {"none", "waiting"} => batch = <<>>
           /\ dispatcher = "locking" => batch # <<>>
           /\ dispatcher = "turn" => /\ turn = "monitor" /\ batch # <<>>
                                     /\ \A i \in DOMAIN batch : batch[i].generation = generation
           /\ sessionClosing > 0 => dispatcher = "none" /\ batch = <<>> /\ queue = <<>>
           /\ InOrder(Waiting)
BY DEF Mail, InOrder

\* enqueue_monitor_notification: dropped, or behind all that waits.
Speaking(m, n) ==
  /\ M!Notify(m, n)
  /\ UNCHANGED <<born, name, names, target, generation, sessionClosing, turn, batch, given>>
Dropped(m) == sessionClosing > 0 \/ names[born[m]] # name

LEMMA Notified ==
  ASSUME MonitorTypes, Mail, NEW m \in Monitors, NEW n \in Nat, Speaking(m, n)
  PROVE  /\ Mail' /\ queue' \in Seq(Note)
         /\ Dropped(m) => Stream' = Stream
         /\ ~Dropped(m) => Stream' = Append(Stream, [m |-> m, n |-> n, generation |-> generation])
<1> DEFINE e == [m |-> m, n |-> n, generation |-> generation]
<1>1. e \in Note /\ e.generation = generation /\ generation \in Nat /\ queue \in Seq(Note)
  BY DEF MonitorTypes, Note
<1> HIDE DEF e
<1>2. CASE Dropped(m)
  <2>1. UNCHANGED <<queue, dispatcher, batch, generation, sessionClosing, turn, given>>
    BY <1>2 DEF Speaking, M!Notify, Dropped
  <2> QED BY <1>1, <1>2, <2>1, MailKept
<1>3. CASE ~Dropped(m)
  <2>1. /\ queue' = Append(queue, e) /\ UNCHANGED <<batch, generation, sessionClosing, turn, given>>
        /\ dispatcher' = IF dispatcher = "none" THEN "waiting" ELSE dispatcher
        /\ ~(sessionClosing > 0)
    BY <1>3 DEF Speaking, M!Notify, Dropped, e
  <2>2. Held' = Held
    BY <2>1 DEF Held
  <2>3. PICK h, q, w, s, ns : h = Held /\ q = queue /\ w = Waiting /\ s = Stream /\ ns = Notes(given)
    OBVIOUS
  <2>4. /\ h \in Seq(Note) /\ q \in Seq(Note) /\ w = h \o q /\ w \in Seq(Note) /\ ns \in Seq(Note)
        /\ s = ns \o w
    <3>1. given \in Seq(Told)
      BY DEF MonitorTypes
    <3> QED BY <1>1, <2>3, <3>1, HeldTypes, StreamOf DEF Waiting, Stream
  <2>5. Waiting' = h \o Append(q, e) /\ Stream' = ns \o (h \o Append(q, e))
    BY <2>1, <2>2, <2>3 DEF Waiting, Stream
  <2>6. h \o Append(q, e) = Append(w, e)
    BY SMTT(60), <1>1, <2>4
  <2>7. ns \o Append(w, e) = Append(s, e)
    BY <1>1, <2>4
  <2>8. InOrder(Append(w, e))
    BY Zenon, <1>1, <2>3, <2>4, OrderAppended, MailOf
  <2>9. InOrder(Waiting)'
    BY Zenon, <2>1, <2>5, <2>6, <2>8 DEF InOrder
  <2>10. Mail'
    BY <2>1, <2>9, MailOf DEF Mail, InOrder
  <2>11. Append(q, e) \in Seq(Note)
    BY <1>1, <2>4
  <2> QED BY Zenon, <1>3, <2>1, <2>3, <2>5, <2>6, <2>7, <2>10, <2>11 DEF e
<1> QED BY <1>2, <1>3

\* A step of a task, or of a caller of stop_task, that tells the session nothing.
Aside ==
  /\ UNCHANGED <<lines, born, quiet, settled, monitorStatus>>
  /\ UNCHANGED <<name, names, target, generation, sessionClosing, turn, queue, dispatcher, batch, given>>
  /\ \A m \in Monitors : /\ stage'[m] = "none" <=> stage[m] = "none"
                         /\ stage[m] = "done" => stage'[m] = "done"

LEMMA Asides ==
  ASSUME MonitorInv, MonitorTypes', Records', Aside
  PROVE  MonitorInv'
<1>1. Mail' /\ Stream' = Stream
  BY MailKept DEF MonitorInv, Aside
<1>2. Onward
  BY DEF Aside, Onward
<1>3. Lifecycles'
  BY DEF MonitorInv, Lifecycles, Aside
<1>4. \A m \in Monitors : Live(m)' <=> Live(m)
  BY DEF Aside, Live
<1>5. lines' = lines /\ born' = born /\ given' = given
  BY DEF Aside
<1>6. Truthful' /\ Ordered'
  BY <1>1, <1>2, <1>4, <1>5, Quietly
<1> QED BY <1>1, <1>3, <1>6 DEF MonitorInv

LEMMA OneStage ==
  ASSUME MonitorTypes, NEW m \in Monitors, NEW st \in MonitorStages
  PROVE  /\ [stage EXCEPT ![m] = st] \in [Monitors -> MonitorStages]
         /\ [stage EXCEPT ![m] = st][m] = st
         /\ \A a \in Monitors \ {m} : [stage EXCEPT ![m] = st][a] = stage[a]
BY DEF MonitorTypes

\* Begin, Spawned, EndOfOutput, and Leave and Unwind without a report.
Passes(m, st) ==
  /\ UNCHANGED <<lines, born, quiet, settled, monitorStatus, abandoned, callers>>
  /\ UNCHANGED <<name, names, target, generation, sessionClosing, turn, queue, dispatcher, batch, given>>
  /\ stage[m] \notin {"none", "done"} /\ stage' = [stage EXCEPT ![m] = st]
  /\ \/ /\ st \in {"spawning", "reading", "exiting"} /\ m \notin doomedMonitors
        /\ stage[m] # "terminating" /\ UNCHANGED <<outcome, doomedMonitors>>
     \/ /\ st = "terminating" /\ doomedMonitors' \in {doomedMonitors, doomedMonitors \ {m}}
        /\ stage[m] # "terminating"
        /\ \E o \in M!Final : outcome' = [outcome EXCEPT ![m] = o]
     \/ /\ st = "done" /\ m \in doomedMonitors /\ doomedMonitors' = doomedMonitors \ {m}
        /\ UNCHANGED outcome

LEMMA PassesStep ==
  ASSUME MonitorInv, NEW m \in Monitors, NEW st \in MonitorStages, Passes(m, st)
  PROVE  MonitorInv'
<1>1. MonitorTypes /\ Records
  BY DEF MonitorInv
<1>2. /\ stage' \in [Monitors -> MonitorStages] /\ stage'[m] = st
      /\ \A a \in Monitors \ {m} : stage'[a] = stage[a]
  BY <1>1, OneStage DEF Passes
<1>3. /\ outcome' \in [Monitors -> M!Final \cup {"none"}] /\ doomedMonitors' \subseteq Monitors
      /\ \A a \in Monitors \ {m} : outcome'[a] = outcome[a] /\ (a \in doomedMonitors' <=> a \in doomedMonitors)
      /\ st = "terminating" => outcome'[m] \in M!Final
  BY ZenonT(60), <1>1 DEF Passes, MonitorTypes
<1>4. MonitorTypes'
  BY <1>1, <1>2, <1>3 DEF Passes, MonitorTypes
<1>5. Records'
  <2>1. UNCHANGED <<quiet, callers, lines, born, monitorStatus, abandoned>> /\ stage[m] \notin {"none", "done"}
    BY DEF Passes
  <2>2. ASSUME NEW a \in Monitors \ {m}
        PROVE  /\ stage'[a] = "none" => /\ a \notin (doomedMonitors \cup quiet)' /\ callers'[a] = 0
                                        /\ lines'[a] = 0 /\ born'[a] = 0
               /\ stage'[a] # "none" => monitorStatus'[a] # "none"
               /\ stage'[a] = "terminating" => outcome'[a] \in M!Final
               /\ a \in quiet' => a \in doomedMonitors' \/ stage'[a] \in {"terminating", "done"}
               /\ a \in doomedMonitors' \/ stage'[a] = "done" =>
                    a \in abandoned' \/ callers'[a] > 0 \/ monitorStatus'[a] \in M!Final
    BY <1>1, <1>2, <1>3, <2>1 DEF Records
  <2>3. /\ stage'[m] # "none" /\ monitorStatus'[m] # "none"
        /\ stage'[m] = "terminating" => outcome'[m] \in M!Final
    BY <1>1, <1>2, <1>3, <2>1 DEF Records, Passes
  <2>4. m \in quiet' => m \in doomedMonitors' \/ stage'[m] \in {"terminating", "done"}
    BY <1>1, <1>2, <2>1 DEF Records, Passes
  <2>5. m \in doomedMonitors' \/ stage'[m] = "done" =>
          m \in abandoned' \/ callers'[m] > 0 \/ monitorStatus'[m] \in M!Final
    BY <1>1, <1>2, <2>1 DEF Records, Passes
  <2> QED BY <2>2, <2>3, <2>4, <2>5 DEF Records
<1>6. Aside
  BY <1>1, <1>2 DEF Passes, Aside
<1> QED BY <1>4, <1>5, <1>6, Asides

\* stop_task, and the cancellation of its caller.
LEMMA StopStep ==
  ASSUME MonitorInv, NEW m \in Monitors, M!Stop(m)
  PROVE  MonitorInv'
<1>1. MonitorTypes /\ Records
  BY DEF MonitorInv
<1>2. /\ stage[m] \notin {"none", "done"} /\ doomedMonitors' = doomedMonitors \cup {m}
      /\ callers' = [callers EXCEPT ![m] = @ + 1] /\ UNCHANGED <<stage, outcome, lines, born, quiet>>
      /\ UNCHANGED <<settled, monitorStatus, abandoned, name, names, target, generation, sessionClosing>>
      /\ UNCHANGED <<turn, queue, dispatcher, batch, given>>
  BY DEF M!Stop, M!Alive, M!session, M!mail
<1>3. /\ callers' \in [Monitors -> Nat] /\ callers'[m] > 0
      /\ \A a \in Monitors \ {m} : callers'[a] = callers[a]
  BY <1>1, <1>2 DEF MonitorTypes
<1>4. MonitorTypes'
  BY <1>1, <1>2, <1>3 DEF MonitorTypes
<1>5. Records'
  BY <1>1, <1>2, <1>3 DEF Records
<1>6. Aside
  BY <1>2 DEF Aside
<1> QED BY <1>4, <1>5, <1>6, Asides

LEMMA StopCancelledStep ==
  ASSUME MonitorInv, NEW m \in Monitors, M!StopCancelled(m)
  PROVE  MonitorInv'
<1>1. MonitorTypes /\ Records
  BY DEF MonitorInv
<1>2. /\ stage[m] \notin {"none", "done"} /\ doomedMonitors' = doomedMonitors \cup {m}
      /\ callers[m] > 0 /\ callers' = [callers EXCEPT ![m] = @ - 1] /\ abandoned' = abandoned \cup {m}
      /\ UNCHANGED <<stage, outcome, lines, born, quiet>>
      /\ UNCHANGED <<settled, monitorStatus, name, names, target, generation, sessionClosing>>
      /\ UNCHANGED <<turn, queue, dispatcher, batch, given>>
  BY DEF M!StopCancelled, M!Alive, M!session, M!mail
<1>3. callers' \in [Monitors -> Nat] /\ \A a \in Monitors \ {m} : callers'[a] = callers[a]
  BY <1>1, <1>2 DEF MonitorTypes
<1>4. MonitorTypes'
  BY <1>1, <1>2, <1>3 DEF MonitorTypes
<1>5. Records'
  BY <1>1, <1>2, <1>3 DEF Records
<1>6. Aside
  BY <1>2 DEF Aside
<1> QED BY <1>4, <1>5, <1>6, Asides

\* A line: the monitor runs in the session's lifecycle, or the session is closing.
LEMMA LineStep ==
  ASSUME MonitorInv, NEW m \in Monitors, M!Line(m)
  PROVE  MonitorInv'
<1>1. MonitorTypes /\ Records /\ Lifecycles /\ Mail
  BY DEF MonitorInv
<1>2. PICK n \in Nat : n = lines[m] + 1
  BY <1>1 DEF MonitorTypes
<1>3. /\ stage[m] = "reading" /\ m \notin doomedMonitors /\ lines' = [lines EXCEPT ![m] = n]
      /\ UNCHANGED <<stage, outcome, doomedMonitors, born, monitorStatus, quiet, callers, abandoned>>
      /\ UNCHANGED <<settled, name, names, target, generation, sessionClosing, turn, batch, given>>
      /\ M!Notify(m, n)
  BY <1>1, <1>2 DEF M!Line, M!record, M!session, MonitorTypes
<1>4. m \notin quiet /\ born[m] = generation /\ turn # "resume" /\ born[m] # 0
  <2>1. m \notin quiet
    BY <1>1, <1>3 DEF Records
  <2>2. born[m] = generation /\ born[m] # 0
    BY <1>1, <1>3, <2>1 DEF Lifecycles
  <2>3. born[m] \in Nat
    BY <1>1 DEF MonitorTypes
  <2> QED BY <1>1, <2>1, <2>2, <2>3 DEF Lifecycles
<1>5. Speaking(m, n)
  BY <1>3 DEF Speaking
<1>6. Mail' /\ queue' \in Seq(Note)
  BY Zenon, <1>1, <1>5, Notified
<1>7. lines' \in [Monitors -> Nat] /\ \A a \in Monitors \ {m} : lines'[a] = lines[a]
  BY <1>1, <1>3 DEF MonitorTypes
<1>8. MonitorTypes'
  BY <1>1, <1>3, <1>6, <1>7 DEF MonitorTypes
<1>9. Records'
  BY <1>1, <1>3, <1>7 DEF Records
<1>10. Lifecycles'
  BY <1>1, <1>3 DEF Lifecycles
<1>11. Onward
  BY <1>3 DEF Onward
<1>12. CASE sessionClosing > 0
  <2>1. Stream' = Stream
    BY Zenon, <1>1, <1>5, <1>12, Notified DEF Dropped
  <2>2. \A a \in Monitors : ~Live(a)'
    BY <1>3, <1>12 DEF Live
  <2>3. \A a \in Monitors : \/ lines'[a] = lines[a]
                            \/ lines'[a] = lines[a] + 1 /\ stage[a] # "done" /\ ~Live(a)'
    BY <1>1, <1>2, <1>3, <1>7, <2>2 DEF MonitorTypes
  <2> QED BY <1>3, <1>6, <1>8, <1>9, <1>10, <1>11, <2>1, <2>2, <2>3, Quietly DEF MonitorInv
<1>13. CASE ~(sessionClosing > 0)
  <2>1. sessionClosing = 0
    BY <1>1, <1>13 DEF MonitorTypes
  <2>2. ~Dropped(m)
    BY <1>1, <1>4, <1>13, <2>1 DEF Dropped, Lifecycles
  <2>3. Stream' = Append(Stream, [m |-> m, n |-> n, generation |-> generation])
    BY <1>1, <1>5, <2>2, Notified
  <2>4. Says(m, n)
    BY <1>2, <1>3, <1>4, <2>1, <2>3 DEF Says
  <2> QED BY <1>6, <1>8, <1>9, <1>10, <1>11, <2>4, Speaks DEF MonitorInv
<1> QED BY <1>12, <1>13

\* _finish: the record of m is closed as its task ends, or behind that by stop_task.
Finishes(m, st) ==
  /\ M!Report(m, st)
  /\ UNCHANGED <<lines, born, quiet, abandoned, name, names, target, generation, sessionClosing, turn, batch>>
  /\ UNCHANGED given
  /\ \/ /\ stage[m] \notin {"none", "done"} /\ stage' = [stage EXCEPT ![m] = "done"]
        /\ UNCHANGED <<callers, settled>> /\ doomedMonitors' \in {doomedMonitors, doomedMonitors \ {m}}
        /\ \E o \in M!Final : outcome' \in {outcome, [outcome EXCEPT ![m] = o]}
     \/ /\ stage[m] = "done" /\ monitorStatus[m] = "running" /\ UNCHANGED <<stage, outcome, doomedMonitors>>
        /\ callers[m] > 0 /\ callers' = [callers EXCEPT ![m] = @ - 1] /\ settled' = settled \cup {m}

LEMMA FinishesStep ==
  ASSUME MonitorInv, NEW m \in Monitors, NEW st \in M!Final, Finishes(m, st)
  PROVE  MonitorInv'
<1>1. MonitorTypes /\ Records /\ Lifecycles /\ Mail
  BY DEF MonitorInv
<1>2. /\ UNCHANGED <<lines, born, quiet, abandoned, name, names, target, generation, sessionClosing>>
      /\ UNCHANGED <<turn, batch, given>> /\ settled \subseteq settled'
      /\ monitorStatus' = [monitorStatus EXCEPT ![m] = st]
      /\ IF m \in quiet THEN UNCHANGED <<queue, dispatcher>> ELSE Speaking(m, M!End)
  BY DEF Finishes, M!Report, Speaking
<1>3. M!End \in Nat
  BY DEF M!End
<1>4. Mail' /\ queue' \in Seq(Note)
  <2>1. CASE m \in quiet
    BY <1>1, <1>2, <2>1, MailKept DEF MonitorTypes
  <2>2. CASE m \notin quiet
    BY Zenon, <1>1, <1>2, <1>3, <2>2, Notified
  <2> QED BY <2>1, <2>2
<1>5. /\ stage' \in [Monitors -> MonitorStages] /\ stage'[m] = "done" /\ stage[m] # "none"
      /\ \A a \in Monitors \ {m} : stage'[a] = stage[a]
  BY <1>1, OneStage DEF Finishes, MonitorStages
<1>6. /\ monitorStatus' \in [Monitors -> M!Final \cup {"none", "running"}] /\ monitorStatus'[m] = st
      /\ \A a \in Monitors \ {m} : monitorStatus'[a] = monitorStatus[a]
  BY <1>1, <1>2 DEF MonitorTypes
<1>7. /\ outcome' \in [Monitors -> M!Final \cup {"none"}] /\ doomedMonitors' \subseteq Monitors
      /\ callers' \in [Monitors -> Nat] /\ settled' \subseteq Monitors
      /\ \A a \in Monitors \ {m} : /\ outcome'[a] = outcome[a] /\ callers'[a] = callers[a]
                                   /\ a \in doomedMonitors' <=> a \in doomedMonitors
  <2>1. CASE /\ UNCHANGED <<callers, settled>> /\ doomedMonitors' \in {doomedMonitors, doomedMonitors \ {m}}
             /\ \E o \in M!Final : outcome' \in {outcome, [outcome EXCEPT ![m] = o]}
    BY ZenonT(60), <1>1, <2>1 DEF MonitorTypes
  <2>2. CASE /\ UNCHANGED <<outcome, doomedMonitors>> /\ callers[m] > 0
             /\ callers' = [callers EXCEPT ![m] = @ - 1] /\ settled' = settled \cup {m}
    BY <1>1, <2>2 DEF MonitorTypes
  <2> QED BY <2>1, <2>2 DEF Finishes
<1>8. MonitorTypes'
  BY <1>1, <1>2, <1>4, <1>5, <1>6, <1>7 DEF MonitorTypes
<1>9. Records'
  <2>1. ASSUME NEW a \in Monitors \ {m}
        PROVE  /\ stage'[a] = "none" => /\ a \notin (doomedMonitors \cup quiet)' /\ callers'[a] = 0
                                        /\ lines'[a] = 0 /\ born'[a] = 0
               /\ stage'[a] # "none" => monitorStatus'[a] # "none"
               /\ stage'[a] = "terminating" => outcome'[a] \in M!Final
               /\ a \in quiet' => a \in doomedMonitors' \/ stage'[a] \in {"terminating", "done"}
               /\ a \in doomedMonitors' \/ stage'[a] = "done" =>
                    a \in abandoned' \/ callers'[a] > 0 \/ monitorStatus'[a] \in M!Final
    BY <1>1, <1>2, <1>5, <1>6, <1>7 DEF Records
  <2>2. stage'[m] = "done" /\ monitorStatus'[m] \in M!Final /\ monitorStatus'[m] # "none"
    BY <1>5, <1>6 DEF M!Final
  <2> QED BY <2>1, <2>2 DEF Records
<1>10. Lifecycles'
  BY <1>1, <1>2, <1>5 DEF Lifecycles
<1>11. Onward
  BY <1>2, <1>5, <1>6 DEF Onward
<1>12. \A a \in Monitors : Live(a)' <=> Live(a)
  BY <1>2 DEF Live
<1>13. CASE m \in quiet \/ Dropped(m)
  <2>1. Stream' = Stream
    <3>1. CASE m \in quiet
      BY <1>1, <1>2, <3>1, MailKept
    <3>2. CASE m \notin quiet
      BY Zenon, <1>1, <1>2, <1>3, <1>13, <3>2, Notified
    <3> QED BY <3>1, <3>2
  <2> QED BY <1>2, <1>4, <1>8, <1>9, <1>10, <1>11, <1>12, <2>1, Quietly DEF MonitorInv
<1>14. CASE m \notin quiet /\ ~Dropped(m)
  <2>1. Stream' = Append(Stream, [m |-> m, n |-> M!End, generation |-> generation])
    BY <1>1, <1>2, <1>3, <1>14, Notified
  <2>2. sessionClosing = 0
    BY <1>1, <1>14 DEF Dropped, MonitorTypes
  <2>3. born[m] = generation \/ m \in settled'
    BY <1>1, <1>14 DEF Lifecycles, Finishes
  <2>4. stage[m] # "done" \/ monitorStatus[m] \notin M!Final
    BY DEF Finishes, M!Final
  <2>5. Says(m, M!End)
    BY <1>2, <1>5, <1>6, <2>1, <2>2, <2>3, <2>4 DEF Says
  <2> QED BY <1>3, <1>4, <1>8, <1>9, <1>10, <1>11, <2>5, Speaks DEF MonitorInv
<1> QED BY <1>13, <1>14

LEMMA LeaveStep ==
  ASSUME MonitorInv, NEW m \in Monitors, NEW st \in M!Final, M!Leave(m, st),
         stage[m] \in {"spawning", "reading", "exiting"},
         doomedMonitors' = doomedMonitors \/ doomedMonitors' = doomedMonitors \ {m}
  PROVE  MonitorInv'
<1>1. /\ UNCHANGED <<lines, born, quiet, abandoned, name, names, target, generation, sessionClosing, turn, batch>>
      /\ UNCHANGED <<given, callers, settled>> /\ outcome' = [outcome EXCEPT ![m] = st]
  BY DEF M!Leave, M!session
<1>2. CASE process[m] = "running"
  <2>1. stage' = [stage EXCEPT ![m] = "terminating"] /\ UNCHANGED <<monitorStatus, queue, dispatcher>>
    BY <1>2 DEF M!Leave
  <2>2. Passes(m, "terminating")
    BY Zenon, <1>1, <2>1 DEF Passes
  <2> QED BY <2>2, PassesStep DEF MonitorStages
<1>3. CASE process[m] # "running"
  <2>1. stage' = [stage EXCEPT ![m] = "done"] /\ M!Report(m, st)
    BY <1>3 DEF M!Leave
  <2>2. Finishes(m, st)
    BY Zenon, <1>1, <2>1 DEF Finishes
  <2> QED BY <2>2, FinishesStep
<1> QED BY <1>2, <1>3

LEMMA EndStep ==
  ASSUME MonitorInv, NEW m \in Monitors, M!Ends(m) \/ M!TimesOut(m)
  PROVE  MonitorInv'
<1>1. /\ doomedMonitors' = doomedMonitors /\ stage[m] \in {"spawning", "reading", "exiting"}
      /\ \E st \in M!Final : M!Leave(m, st)
  BY DEF M!Ends, M!TimesOut, M!Final
<1> QED BY <1>1, LeaveStep

\* The process is gone, and the monitor reports what it was going to.
LEMMA TerminatedStep ==
  ASSUME MonitorInv, NEW m \in Monitors, M!Terminated(m)
  PROVE  MonitorInv'
<1>1. /\ stage[m] = "terminating" /\ stage' = [stage EXCEPT ![m] = "done"] /\ M!Report(m, outcome[m])
      /\ UNCHANGED <<lines, born, quiet, abandoned, name, names, target, generation, sessionClosing, turn, batch>>
      /\ UNCHANGED <<given, callers, settled, outcome, doomedMonitors>>
  BY DEF M!Terminated, M!Goes, M!session
<1>2. outcome[m] \in M!Final
  BY <1>1 DEF MonitorInv, Records
<1>3. Finishes(m, outcome[m])
  BY <1>1, <1>2 DEF Finishes
<1> QED BY <1>2, <1>3, FinishesStep

LEMMA UnwindStep ==
  ASSUME MonitorInv, NEW m \in Monitors, M!Unwind(m)
  PROVE  MonitorInv'
<1>1. m \in doomedMonitors /\ doomedMonitors' = doomedMonitors \ {m}
  BY DEF M!Unwind
<1>2. CASE stage[m] \in {"spawning", "reading", "exiting"}
  <2>1. M!Leave(m, "stopped") /\ "stopped" \in M!Final
    BY <1>2 DEF M!Unwind, M!Final
  <2> QED BY <1>1, <1>2, <2>1, LeaveStep
<1>3. CASE stage[m] \notin {"spawning", "reading", "exiting"}
  <2>1. /\ stage[m] \in {"created", "terminating"} /\ stage' = [stage EXCEPT ![m] = "done"]
        /\ UNCHANGED <<lines, born, quiet, settled, monitorStatus, abandoned, callers, outcome>>
        /\ UNCHANGED <<name, names, target, generation, sessionClosing, turn, queue, dispatcher, batch, given>>
    BY <1>3 DEF M!Unwind, M!record, M!session, M!mail
  <2>2. Passes(m, "done")
    BY <1>1, <2>1 DEF Passes
  <2> QED BY <2>2, PassesStep DEF MonitorStages
<1> QED BY <1>2, <1>3

LEMMA GoesOn ==
  ASSUME MonitorInv, NEW m \in Monitors, M!Begin(m) \/ M!Spawned(m) \/ M!EndOfOutput(m)
  PROVE  MonitorInv'
<1>1. PICK st \in {"spawning", "reading", "exiting"} :
        /\ stage[m] \in {"created", "spawning", "reading"} /\ m \notin doomedMonitors
        /\ stage' = [stage EXCEPT ![m] = st]
        /\ UNCHANGED <<lines, born, quiet, settled, monitorStatus, abandoned, callers, outcome>>
        /\ UNCHANGED <<name, names, target, generation, sessionClosing, turn, queue, dispatcher, batch, given>>
        /\ UNCHANGED doomedMonitors
  BY DEF M!Begin, M!Spawned, M!EndOfOutput, M!Goes, M!record, M!session, M!mail
<1>2. Passes(m, st)
  BY <1>1 DEF Passes
<1> QED BY <1>2, PassesStep DEF MonitorStages

\* The process is not looked at by the session.
LEMMA NobodySees ==
  ASSUME MonitorInv,
         UNCHANGED <<stage, outcome, doomedMonitors, lines, born, monitorStatus, quiet, callers, abandoned, settled>>,
         UNCHANGED <<name, names, target, generation, sessionClosing, turn, queue, dispatcher, batch, given>>
  PROVE  MonitorInv'
<1>1. MonitorTypes'
  BY DEF MonitorInv, MonitorTypes
<1>2. Records'
  BY DEF MonitorInv, Records
<1>3. Aside
  BY DEF Aside
<1> QED BY <1>1, <1>2, <1>3, Asides

LEMMA ProcessStep ==
  ASSUME MonitorInv, NEW m \in Monitors, M!Exit(m) \/ M!Kill(m)
  PROVE  MonitorInv'
BY NobodySees DEF M!Exit, M!Kill, M!record, M!session, M!mail

LEMMA StopReturnsStep ==
  ASSUME MonitorInv, NEW m \in Monitors, M!StopReturns(m)
  PROVE  MonitorInv'
<1>1. MonitorTypes /\ Records
  BY DEF MonitorInv
<1>2. /\ callers[m] > 0 /\ stage[m] = "done" /\ callers' = [callers EXCEPT ![m] = @ - 1]
      /\ UNCHANGED <<stage, outcome, doomedMonitors, lines, born, quiet, abandoned, name, names, target>>
      /\ UNCHANGED <<generation, sessionClosing, turn, batch, given>>
  BY DEF M!StopReturns, M!task, M!session
<1>3. CASE monitorStatus[m] = "running"
  <2>1. M!Report(m, "stopped") /\ settled' = settled \cup {m} /\ "stopped" \in M!Final
    BY <1>3 DEF M!StopReturns, M!Final
  <2>2. Finishes(m, "stopped")
    BY <1>2, <1>3, <2>1 DEF Finishes
  <2> QED BY <2>1, <2>2, FinishesStep
<1>4. CASE monitorStatus[m] # "running"
  <2>1. UNCHANGED <<monitorStatus, queue, dispatcher, settled>>
    BY <1>4 DEF M!StopReturns
  <2>2. callers' \in [Monitors -> Nat] /\ \A a \in Monitors \ {m} : callers'[a] = callers[a]
    BY <1>1, <1>2 DEF MonitorTypes
  <2>3. MonitorTypes'
    BY <1>1, <1>2, <2>1, <2>2 DEF MonitorTypes
  <2>4. monitorStatus[m] \in M!Final
    BY <1>1, <1>2, <1>4 DEF MonitorTypes, Records
  <2>5. Records'
    BY <1>1, <1>2, <2>1, <2>2, <2>4 DEF Records
  <2>6. Aside
    BY <1>2, <2>1 DEF Aside
  <2> QED BY <2>3, <2>5, <2>6, Asides
<1> QED BY <1>3, <1>4

\* cancel_session_now, or close: the monitors ms of a session that ends.
Detached(ms) ==
  /\ M!Cancelled(ms) /\ UNCHANGED <<stage, outcome, lines, born, callers, abandoned, settled>>

LEMMA DetachedStep ==
  ASSUME MonitorTypes, Records, NEW ms \in SUBSET M!Alive, Detached(ms)
  PROVE  /\ doomedMonitors' \subseteq Monitors /\ quiet' = quiet \cup ms /\ quiet' \subseteq Monitors
         /\ monitorStatus' \in [Monitors -> M!Final \cup {"none", "running"}]
         /\ Records' /\ Onward
<1>1. /\ monitorStatus' = [m \in Monitors |-> IF m \in ms THEN "stopped" ELSE monitorStatus[m]]
      /\ quiet' = quiet \cup ms /\ doomedMonitors' = doomedMonitors \cup ms
      /\ UNCHANGED <<stage, outcome, lines, born, callers, abandoned, settled>>
  BY DEF Detached, M!Cancelled
<1>2. ms \subseteq Monitors /\ \A m \in ms : stage[m] \notin {"none", "done"}
  BY DEF M!Alive
<1>3. "stopped" \in M!Final /\ "none" \notin M!Final
  BY DEF M!Final
<1>4. monitorStatus' \in [Monitors -> M!Final \cup {"none", "running"}]
  BY <1>1, <1>3 DEF MonitorTypes
<1>5. \A m \in Monitors : monitorStatus'[m] = IF m \in ms THEN "stopped" ELSE monitorStatus[m]
  BY <1>1
<1>6. doomedMonitors' \subseteq Monitors /\ quiet' \subseteq Monitors
  BY <1>1, <1>2 DEF MonitorTypes
<1>7. Records'
  <2>1. ASSUME NEW a \in Monitors, a \in ms
        PROVE  stage'[a] # "none" /\ a \in doomedMonitors' /\ monitorStatus'[a] \in M!Final
               /\ monitorStatus'[a] # "none" /\ (stage'[a] = "terminating" => outcome'[a] \in M!Final)
    BY <1>1, <1>2, <1>3, <1>5, <2>1 DEF Records
  <2>2. ASSUME NEW a \in Monitors, a \notin ms
        PROVE  /\ (a \in doomedMonitors' <=> a \in doomedMonitors) /\ (a \in quiet' <=> a \in quiet)
               /\ monitorStatus'[a] = monitorStatus[a]
    BY <1>1, <1>5, <2>2
  <2> QED BY <1>1, <2>1, <2>2 DEF Records
<1>8. Onward
  BY <1>1, <1>3, <1>5 DEF Onward
<1> QED BY <1>1, <1>4, <1>6, <1>7, <1>8

\* The lifecycle of the session ends: by new_session, or with resume.
NextLifecycle(s) ==
  /\ sessionClosing = 0 /\ turn = "free" /\ UNCHANGED <<sessionClosing, dispatcher, batch, given>>
  /\ generation' = generation + 1 /\ names' = Append(names, s) /\ Detached(M!Own)

LEMMA NextLifecycleStep ==
  ASSUME MonitorInv, NEW s \in Names, NextLifecycle(s)
  PROVE  /\ generation' = Len(names') /\ generation' \in Nat \ {0} /\ names' \in Seq(Names)
         /\ names'[generation'] = s /\ \A m \in Monitors : born'[m] < generation'
         /\ \A m \in Monitors : stage'[m] \in {"none", "done"} \/ m \in quiet'
         /\ Records' /\ Onward /\ doomedMonitors' \subseteq Monitors /\ quiet' \subseteq Monitors
         /\ monitorStatus' \in [Monitors -> M!Final \cup {"none", "running"}]
<1>1. MonitorTypes /\ Lifecycles /\ Records
  BY DEF MonitorInv
<1>2. generation' = generation + 1 /\ names' = Append(names, s) /\ Detached(M!Own) /\ sessionClosing = 0
      /\ turn = "free" /\ born' = born /\ stage' = stage
  BY DEF NextLifecycle, Detached
<1>3. generation' = Len(names') /\ generation' \in Nat \ {0} /\ names' \in Seq(Names)
      /\ names'[generation'] = s
  BY <1>1, <1>2 DEF MonitorTypes
<1>4. \A m \in Monitors : born'[m] < generation'
  BY <1>1, <1>2 DEF MonitorTypes, Lifecycles
<1>5. M!Own \in SUBSET M!Alive
  BY DEF M!Own
<1>6. /\ Records' /\ Onward /\ doomedMonitors' \subseteq Monitors /\ quiet' = quiet \cup M!Own
      /\ quiet' \subseteq Monitors /\ monitorStatus' \in [Monitors -> M!Final \cup {"none", "running"}]
  BY <1>1, <1>2, <1>5, DetachedStep
<1>7. ASSUME NEW m \in Monitors, stage'[m] \notin {"none", "done"} PROVE m \in quiet'
  <2>1. m \notin quiet => born[m] = generation /\ name = names[generation]
    BY <1>1, <1>2, <1>7 DEF Lifecycles
  <2>2. m \in M!Alive
    BY <1>2, <1>7 DEF M!Alive
  <2> QED BY <1>6, <2>1, <2>2 DEF M!Own
<1> QED BY <1>3, <1>4, <1>6, <1>7

LEMMA LifecyclesOver ==
  ASSUME sessionClosing' = 0, turn' = "resume" => target' = names'[generation'],
         turn' # "resume" => name' = names'[generation'],
         \A m \in Monitors : stage'[m] \in {"none", "done"} \/ m \in quiet',
         \A m \in Monitors : born'[m] < generation' /\ (stage'[m] # "none" => born'[m] # 0),
         MonitorTypes'
  PROVE  Lifecycles' /\ \A m \in Monitors : ~Live(m)'
<1>1. generation' \in Nat /\ \A m \in Monitors : born'[m] \in Nat
  BY DEF MonitorTypes
<1>2. \A m \in Monitors : born'[m] <= generation' /\ ~(born'[m] = generation')
  BY <1>1
<1> QED BY <1>2 DEF Lifecycles, Live

LEMMA NewSessionStep ==
  ASSUME MonitorInv, M!NewSession
  PROVE  MonitorInv'
<1>1. MonitorTypes /\ Lifecycles /\ Mail
  BY DEF MonitorInv
<1>2. PICK s \in Names : name' = s /\ names' = Append(names, s)
  BY DEF M!NewSession
<1>3. NextLifecycle(s) /\ queue' = <<>> /\ UNCHANGED <<target, turn>>
  BY <1>2 DEF M!NewSession, NextLifecycle, Detached
<1>4. UNCHANGED <<outcome, lines, born, stage, callers, abandoned, settled, sessionClosing, dispatcher, batch, given>>
      /\ turn = "free" /\ sessionClosing = 0
  BY <1>3 DEF NextLifecycle, Detached
<1>5. /\ generation' = Len(names') /\ generation' \in Nat \ {0} /\ names' \in Seq(Names)
      /\ names'[generation'] = s /\ \A m \in Monitors : born'[m] < generation'
      /\ \A m \in Monitors : stage'[m] \in {"none", "done"} \/ m \in quiet'
      /\ Records' /\ Onward /\ doomedMonitors' \subseteq Monitors /\ quiet' \subseteq Monitors
      /\ monitorStatus' \in [Monitors -> M!Final \cup {"none", "running"}]
  BY <1>3, NextLifecycleStep
<1>6. queue' \in Seq(Note)
  BY <1>3
<1>7. MonitorTypes'
  BY <1>1, <1>2, <1>3, <1>4, <1>5, <1>6 DEF MonitorTypes
<1>8. Lifecycles' /\ \A m \in Monitors : ~Live(m)'
  <2>1. turn' = "free" /\ sessionClosing' = 0 /\ name' = names'[generation']
    BY <1>2, <1>3, <1>4, <1>5
  <2>2. \A m \in Monitors : stage'[m] # "none" => born'[m] # 0
    BY <1>1, <1>4 DEF Lifecycles
  <2> QED BY <1>5, <1>7, <2>1, <2>2, LifecyclesOver
<1>9. Mail' /\ Waiting' = Held
  <2>1. dispatcher # "turn"
    BY <1>1, <1>4 DEF Mail
  <2>2. PICK h : h = Held /\ h \in Seq(Note)
    BY <1>1, HeldTypes
  <2>3. Held' = h /\ Waiting' = h \o <<>> /\ h \o <<>> = h
    BY <1>3, <1>4, <2>2 DEF Held, Waiting
  <2>4. InOrder(h)
    BY <1>1, <2>2, MailOf, OrderOfPrefix DEF Waiting, MonitorTypes
  <2>5. generation \in Nat /\ \A i \in DOMAIN h : h[i].generation \in Nat
    <3>1. \A i \in DOMAIN h : h[i] \in Note
      BY <2>2
    <3> QED BY <1>1, <3>1 DEF MonitorTypes, Note
  <2>6. InOrder(Waiting)'
    BY <1>3, <2>3, <2>4, <2>5 DEF InOrder, NextLifecycle
  <2> QED BY <1>1, <1>3, <1>4, <2>1, <2>2, <2>3, <2>6 DEF Mail, InOrder
<1>10. Cleared
  BY <1>4, <1>8, <1>9 DEF Cleared
<1> QED BY <1>5, <1>7, <1>8, <1>9, <1>10, Clears DEF MonitorInv

LEMMA ResumeStep ==
  ASSUME MonitorInv, NEW s \in Names, M!Resume(s)
  PROVE  MonitorInv'
<1>1. MonitorTypes /\ Lifecycles /\ Mail
  BY DEF MonitorInv
<1>2. NextLifecycle(s) /\ turn' = "resume" /\ target' = s /\ UNCHANGED <<name, queue>>
  BY DEF M!Resume, NextLifecycle, Detached, M!mail
<1>3. UNCHANGED <<outcome, lines, born, stage, callers, abandoned, settled, sessionClosing, dispatcher, batch, given>>
      /\ turn = "free" /\ sessionClosing = 0
  BY <1>2 DEF NextLifecycle, Detached
<1>4. /\ generation' = Len(names') /\ generation' \in Nat \ {0} /\ names' \in Seq(Names)
      /\ names'[generation'] = s /\ \A m \in Monitors : born'[m] < generation'
      /\ \A m \in Monitors : stage'[m] \in {"none", "done"} \/ m \in quiet'
      /\ Records' /\ Onward /\ doomedMonitors' \subseteq Monitors /\ quiet' \subseteq Monitors
      /\ monitorStatus' \in [Monitors -> M!Final \cup {"none", "running"}]
  BY <1>2, NextLifecycleStep
<1>5. MonitorTypes'
  BY <1>1, <1>2, <1>3, <1>4 DEF MonitorTypes
<1>6. Lifecycles' /\ \A m \in Monitors : ~Live(m)'
  <2>1. sessionClosing' = 0 /\ target' = names'[generation']
    BY <1>2, <1>3, <1>4
  <2>2. \A m \in Monitors : stage'[m] # "none" => born'[m] # 0
    BY <1>1, <1>3 DEF Lifecycles
  <2> QED BY <1>2, <1>4, <1>5, <2>1, <2>2, LifecyclesOver
<1>7. Mail' /\ Waiting' = Waiting
  <2>1. dispatcher # "turn"
    BY <1>1, <1>3 DEF Mail
  <2>2. Held' = Held
    BY <1>3 DEF Held
  <2>3. Waiting' = Waiting
    BY <1>2, <2>2 DEF Waiting
  <2>4. PICK w : w = Waiting /\ w \in Seq(Note)
    BY <1>1, HeldTypes
  <2>5. generation \in Nat /\ \A i \in DOMAIN w : w[i].generation \in Nat
    <3>1. \A i \in DOMAIN w : w[i] \in Note
      BY <2>4
    <3> QED BY <1>1, <3>1 DEF MonitorTypes, Note
  <2>6. InOrder(w)
    BY <1>1, <2>4, MailOf
  <2>7. InOrder(Waiting)'
    BY <1>2, <2>3, <2>4, <2>5, <2>6 DEF InOrder, NextLifecycle
  <2> QED BY <1>1, <1>2, <1>3, <2>1, <2>3, <2>7 DEF Mail, InOrder
<1>8. Cleared
  BY <1>3, <1>6, <1>7 DEF Cleared
<1> QED BY <1>4, <1>5, <1>6, <1>7, <1>8, Clears DEF MonitorInv

LEMMA ResumedStep ==
  ASSUME MonitorInv, M!Resumed
  PROVE  MonitorInv'
<1>1. MonitorTypes /\ Lifecycles /\ Mail /\ Records
  BY DEF MonitorInv
<1>2. /\ turn = "resume" /\ turn' = "free" /\ name' = target /\ queue' = <<>>
      /\ UNCHANGED <<stage, outcome, doomedMonitors, lines, born, monitorStatus, quiet, callers, abandoned, settled>>
      /\ UNCHANGED <<names, target, generation, sessionClosing, dispatcher, batch, given>>
  BY DEF M!Resumed, M!task, M!record
<1>3. MonitorTypes'
  <2>1. queue' \in Seq(Note)
    BY <1>2
  <2> QED BY <1>1, <1>2, <2>1 DEF MonitorTypes
<1>4. Records'
  BY <1>1, <1>2 DEF Records
<1>5. Lifecycles'
  BY <1>1, <1>2 DEF Lifecycles
<1>6. \A m \in Monitors : ~Live(m)'
  <2>1. \A m \in Monitors : born[m] < generation /\ born[m] \in Nat /\ generation \in Nat
    BY <1>1, <1>2 DEF Lifecycles, MonitorTypes
  <2> QED BY <1>2, <2>1 DEF Live
<1>7. Mail' /\ Waiting' = Held
  <2>1. dispatcher # "turn"
    BY <1>1, <1>2 DEF Mail
  <2>2. PICK h : h = Held /\ h \in Seq(Note)
    BY <1>1, HeldTypes
  <2>3. Held' = h /\ Waiting' = h \o <<>> /\ h \o <<>> = h
    BY <1>2, <2>2 DEF Held, Waiting
  <2>4. InOrder(h)
    BY <1>1, <2>2, MailOf, OrderOfPrefix DEF Waiting, MonitorTypes
  <2>5. InOrder(Waiting)'
    BY <1>2, <2>3, <2>4 DEF InOrder
  <2> QED BY <1>1, <1>2, <2>1, <2>2, <2>3, <2>5 DEF Mail, InOrder
<1>8. Onward /\ Cleared
  BY <1>2, <1>6, <1>7 DEF Onward, Cleared
<1> QED BY <1>3, <1>4, <1>5, <1>7, <1>8, Clears DEF MonitorInv

LEMMA CloseStep ==
  ASSUME MonitorInv, M!Close
  PROVE  MonitorInv'
<1>1. MonitorTypes /\ Lifecycles /\ Mail /\ Records
  BY DEF MonitorInv
<1>2. /\ sessionClosing = 0 /\ sessionClosing' = 1 /\ turn' = "free" /\ queue' = <<>> /\ batch' = <<>>
      /\ dispatcher' = "none"
      /\ UNCHANGED <<stage, outcome, doomedMonitors, lines, born, monitorStatus, quiet, callers, abandoned, settled>>
      /\ UNCHANGED <<name, names, target, generation, given>>
  BY DEF M!Close, M!task, M!record
<1>3. MonitorTypes'
  <2>1. queue' \in Seq(Note) /\ batch' \in Seq(Note)
    BY <1>2
  <2> QED BY <1>1, <1>2, <2>1 DEF MonitorTypes
<1>4. Records'
  BY <1>1, <1>2 DEF Records
<1>5. Lifecycles'
  BY <1>1, <1>2 DEF Lifecycles
<1>6. \A m \in Monitors : ~Live(m)'
  BY <1>2 DEF Live
<1>7. Waiting' = <<>>
  BY <1>2 DEF Held, Waiting
<1>8. Mail'
  BY <1>2, <1>7 DEF Mail
<1>9. Onward /\ Cleared
  BY <1>2, <1>6, <1>7 DEF Onward, Cleared
<1> QED BY <1>3, <1>4, <1>5, <1>8, <1>9, Clears DEF MonitorInv

LEMMA CloseMonitorsStep ==
  ASSUME MonitorInv, M!CloseMonitors
  PROVE  MonitorInv'
<1>1. MonitorTypes /\ Lifecycles /\ Mail /\ Records
  BY DEF MonitorInv
<1>2. /\ sessionClosing = 1 /\ sessionClosing' = 2 /\ Detached(M!Alive)
      /\ UNCHANGED <<stage, outcome, lines, born, callers, abandoned, settled>>
      /\ UNCHANGED <<name, names, target, generation, turn, queue, dispatcher, batch, given>>
  BY DEF M!CloseMonitors, M!mail, Detached
<1>3. /\ doomedMonitors' \subseteq Monitors /\ quiet' = quiet \cup M!Alive /\ quiet' \subseteq Monitors
      /\ monitorStatus' \in [Monitors -> M!Final \cup {"none", "running"}] /\ Records' /\ Onward
  BY <1>1, <1>2, DetachedStep
<1>4. MonitorTypes'
  BY <1>1, <1>2, <1>3 DEF MonitorTypes
<1>5. Lifecycles'
  BY <1>1, <1>2, <1>3 DEF Lifecycles
<1>6. \A m \in Monitors : ~Live(m)'
  BY <1>2 DEF Live
<1>7. Waiting' = Waiting
  BY <1>2 DEF Held, Waiting
<1>8. Mail'
  BY <1>1, <1>2, <1>7 DEF Mail
<1>9. Cleared
  BY <1>2, <1>6, <1>7 DEF Cleared
<1> QED BY <1>3, <1>4, <1>5, <1>8, <1>9, Clears DEF MonitorInv

LEMMA TurnStep ==
  ASSUME MonitorInv, M!TurnBegins \/ M!TurnEnds
  PROVE  MonitorInv'
<1>1. MonitorTypes /\ Lifecycles /\ Mail /\ Records
  BY DEF MonitorInv
<1>2. /\ turn \in {"free", "user"} /\ turn' \in {"free", "user"}
      /\ \/ dispatcher' = dispatcher
         \/ dispatcher = "none" /\ dispatcher' = "waiting" /\ sessionClosing = 0
      /\ UNCHANGED <<stage, outcome, doomedMonitors, lines, born, monitorStatus, quiet, callers, abandoned, settled>>
      /\ UNCHANGED <<name, names, target, generation, sessionClosing, queue, batch, given>>
  BY DEF M!TurnBegins, M!TurnEnds, M!task, M!record, M!mail
<1>3. MonitorTypes' /\ Records'
  BY <1>1, <1>2 DEF MonitorTypes, Records
<1>4. Lifecycles'
  BY <1>1, <1>2 DEF Lifecycles
<1>5. Mail' /\ Stream' = Stream
  <2>1. dispatcher # "turn"
    BY <1>1, <1>2 DEF Mail
  <2> QED BY <1>1, <1>2, <2>1, MailKept
<1>6. Onward
  BY <1>2 DEF Onward
<1>7. Truthful' /\ Ordered'
  <2>1. \A m \in Monitors : Live(m)' <=> Live(m)
    BY <1>2 DEF Live
  <2> QED BY <1>2, <1>3, <1>5, <1>6, <2>1, Quietly
<1> QED BY <1>3, <1>4, <1>5, <1>7 DEF MonitorInv

\* A monitor that starts has said nothing.
LEMMA MonitorStarts ==
  ASSUME MonitorInv, NEW m \in Monitors, M!Start(m)
  PROVE  MonitorInv'
<1>1. MonitorTypes /\ Lifecycles /\ Mail /\ Records /\ Truthful /\ Ordered /\ Stream \in Seq(Note)
  BY HeldTypes DEF MonitorInv
<1>2. /\ stage[m] = "none" /\ turn \in {"user", "monitor"} /\ sessionClosing = 0
      /\ stage' = [stage EXCEPT ![m] = "created"] /\ monitorStatus' = [monitorStatus EXCEPT ![m] = "running"]
      /\ born' = [born EXCEPT ![m] = generation]
      /\ UNCHANGED <<outcome, doomedMonitors, lines, quiet, callers, abandoned, settled, given>>
      /\ UNCHANGED <<name, names, target, generation, sessionClosing, turn, queue, dispatcher, batch>>
  BY DEF M!Start, M!session, M!mail
<1>3. /\ stage' \in [Monitors -> MonitorStages] /\ stage'[m] = "created"
      /\ born' \in [Monitors -> Nat] /\ born'[m] = generation /\ generation \in Nat \ {0}
      /\ monitorStatus' \in [Monitors -> M!Final \cup {"none", "running"}] /\ monitorStatus'[m] = "running"
      /\ \A a \in Monitors \ {m} : stage'[a] = stage[a] /\ born'[a] = born[a] /\ monitorStatus'[a] = monitorStatus[a]
  BY <1>1, <1>2 DEF MonitorTypes, MonitorStages
<1>4. MonitorTypes'
  BY <1>1, <1>2, <1>3 DEF MonitorTypes
<1>5. Records'
  BY <1>1, <1>2, <1>3 DEF Records
<1>6. Lifecycles'
  BY <1>1, <1>2, <1>3 DEF Lifecycles
<1>7. Mail' /\ Stream' = Stream
  BY <1>1, <1>2, MailKept
<1>8. \A i \in DOMAIN Stream : Stream[i] \in Note /\ Stream[i].m # m
  BY <1>1, <1>2 DEF Truthful, TrueNote
<1>9. Truthful'
  <2>1. ASSUME NEW e \in Note, e.m # m, TrueNote(e) PROVE TrueNote(e)'
    <3>1. e.m \in Monitors \ {m}
      BY <2>1 DEF Note
    <3> QED BY <1>2, <1>3, <2>1, <3>1 DEF TrueNote
  <2>2. \A i \in DOMAIN Stream : TrueNote(Stream[i])'
    BY <1>1, <1>7, <1>8, <2>1 DEF Truthful
  <2> QED BY <1>1, <1>2, <1>7, <2>2 DEF Truthful
<1>10. Ordered'
  <2>1. ASSUME NEW a \in Monitors \ {m}
        PROVE  /\ \A i \in Own(Stream, a, born'[a]) :
                    i <= Len(given) \/ Live(a)' => Right(Stream, a, born'[a], i, lines'[a])
               /\ Live(a)' => 1..lines'[a] \subseteq Said(Stream, a, born'[a])
    <3>1. Live(a)' <=> Live(a)
      BY <1>2, <1>3 DEF Live
    <3> QED BY <1>1, <1>2, <1>3, <3>1 DEF Ordered
  <2>2. Own(Stream, m, born'[m]) = {}
    BY <1>8 DEF Own
  <2>3. 1..lines'[m] = {}
    BY <1>1, <1>2 DEF Records
  <2> QED BY <1>2, <1>7, <2>1, <2>2, <2>3 DEF Ordered
<1> QED BY <1>4, <1>5, <1>6, <1>7, <1>9, <1>10 DEF MonitorInv

-----------------------------------------------------------------------------
\* A step of the dispatcher leaves the monitors and the session alone.
Dispatching ==
  /\ UNCHANGED <<stage, outcome, doomedMonitors, lines, born, monitorStatus, quiet, callers, abandoned, settled>>
  /\ UNCHANGED <<name, names, target, generation, sessionClosing>>
  /\ turn' = "resume" <=> turn = "resume"
  /\ queue' \in Seq(Note) /\ batch' \in Seq(Note) /\ given' \in Seq(Told)

LEMMA DispatchingKeeps ==
  ASSUME MonitorInv, Dispatching
  PROVE  MonitorTypes' /\ Lifecycles' /\ Records' /\ Onward /\ \A m \in Monitors : Live(m)' <=> Live(m)
<1>1. MonitorTypes /\ Lifecycles /\ Records
  BY DEF MonitorInv
<1>2. MonitorTypes'
  BY <1>1 DEF MonitorTypes, Dispatching
<1>3. Lifecycles'
  BY <1>1 DEF Lifecycles, Dispatching
<1>4. Records'
  BY <1>1 DEF Records, Dispatching
<1>5. Onward /\ \A m \in Monitors : Live(m)' <=> Live(m)
  BY DEF Onward, Live, Dispatching
<1> QED BY <1>2, <1>3, <1>4, <1>5

\* The same notifications wait, wherever they are held.
Passing ==
  /\ Dispatching /\ UNCHANGED given /\ Waiting' = Waiting
  /\ dispatcher' \in {"none", "waiting"} => batch' = <<>>
  /\ dispatcher' = "locking" => batch' # <<>>
  /\ dispatcher' # "turn" /\ sessionClosing = 0

LEMMA PassingStep ==
  ASSUME MonitorInv, Passing
  PROVE  MonitorInv'
<1>1. /\ MonitorTypes' /\ Lifecycles' /\ Records' /\ Onward /\ \A m \in Monitors : Live(m)' <=> Live(m)
      /\ Dispatching /\ Mail
  BY DispatchingKeeps DEF Passing, MonitorInv
<1>2. Mail'
  BY <1>1 DEF Mail, Passing, Dispatching
<1>3. Stream' = Stream
  BY DEF Stream, Passing
<1>4. given' = given /\ born' = born /\ lines' = lines
  BY DEF Passing, Dispatching
<1>5. Truthful' /\ Ordered'
  BY <1>1, <1>3, <1>4, Quietly
<1> QED BY <1>1, <1>2, <1>5 DEF MonitorInv

LEMMA TakeStep ==
  ASSUME MonitorInv, M!Take
  PROVE  MonitorInv'
<1>1. MonitorTypes /\ Mail
  BY DEF MonitorInv
<1>2. /\ dispatcher = "waiting" /\ queue # <<>> /\ dispatcher' = "sleeping"
      /\ batch' = <<Head(queue)>> /\ queue' = Tail(queue)
      /\ UNCHANGED <<stage, outcome, doomedMonitors, lines, born, monitorStatus, quiet, callers, abandoned, settled>>
      /\ UNCHANGED <<name, names, target, generation, sessionClosing, turn, given>>
  BY DEF M!Take, M!task, M!record, M!session
<1>3. PICK q : q = queue /\ q \in Seq(Note) /\ q # <<>>
  BY <1>1, <1>2 DEF MonitorTypes
<1>4. batch' = <<Head(q)>> /\ queue' = Tail(q) /\ <<Head(q)>> \in Seq(Note) /\ Tail(q) \in Seq(Note)
      /\ <<Head(q)>> \o Tail(q) = q /\ <<>> \o q = q
  BY <1>2, <1>3
<1>5. Waiting = <<>> \o q
  BY <1>1, <1>2, <1>3 DEF Mail, Waiting, Held
<1>6. Waiting' = <<Head(q)>> \o Tail(q)
  BY Zenon, <1>2, <1>4 DEF Waiting, Held
<1>7. sessionClosing = 0
  BY <1>1, <1>2 DEF Mail, MonitorTypes
<1>8. Dispatching
  BY <1>1, <1>2, <1>4 DEF Dispatching, MonitorTypes
<1> QED BY <1>2, <1>4, <1>5, <1>6, <1>7, <1>8, PassingStep DEF Passing

LEMMA Together ==
  ASSUME NEW b \in Seq(Note), NEW x \in Seq(Note), NEW y \in Seq(Note)
  PROVE  b \o x \in Seq(Note) /\ (b \o x) \o y = b \o (x \o y)
BY SMTT(60), ConcatAssociative

LEMMA Regrouped ==
  ASSUME NEW b \in Seq(Note), NEW q \in Seq(Note), NEW n \in Nat, n <= Len(q)
  PROVE  /\ b \o SubSeq(q, 1, n) \in Seq(Note) /\ SubSeq(q, n + 1, Len(q)) \in Seq(Note)
         /\ (b \o SubSeq(q, 1, n)) \o SubSeq(q, n + 1, Len(q)) = b \o q
<1> DEFINE x == SubSeq(q, 1, n)
           y == SubSeq(q, n + 1, Len(q))
<1>1. x \in Seq(Note) /\ y \in Seq(Note) /\ x \o y = q
  BY Zenon, TwoParts
<1>2. x \in Seq(Note) /\ y \in Seq(Note)
  BY Zenon, <1>1
<1> HIDE DEF x, y
<1>3. b \o x \in Seq(Note)
  BY <1>2, Together
<1>4. (b \o x) \o y = b \o (x \o y)
  BY ZenonT(60), <1>2, Together
<1> QED BY Zenon, <1>1, <1>3, <1>4 DEF x, y

LEMMA CollectStep ==
  ASSUME MonitorInv, M!Collect
  PROVE  MonitorInv'
<1>1. MonitorTypes /\ Mail /\ MaxBatch \in Nat \ {0}
  BY BoundsAssumption DEF MonitorInv, M!BoundsOK
<1>2. PICK q, b : q = queue /\ b = batch /\ q \in Seq(Note) /\ b \in Seq(Note)
  BY <1>1 DEF MonitorTypes
<1>3. PICK n \in Nat : n <= Len(q) /\ n = IF Len(queue) < MaxBatch - 1 THEN Len(queue) ELSE MaxBatch - 1
  BY <1>1, <1>2
<1>4. /\ dispatcher = "sleeping" /\ dispatcher' = "grouping"
      /\ batch' = b \o SubSeq(q, 1, n) /\ queue' = SubSeq(q, n + 1, Len(q))
      /\ UNCHANGED <<stage, outcome, doomedMonitors, lines, born, monitorStatus, quiet, callers, abandoned, settled>>
      /\ UNCHANGED <<name, names, target, generation, sessionClosing, turn, given>>
  BY <1>2, <1>3 DEF M!Collect, M!task, M!record, M!session
<1>5. /\ batch' \in Seq(Note) /\ queue' \in Seq(Note) /\ batch' \o queue' = b \o q
  <2>0. b \in Seq(Note) /\ q \in Seq(Note) /\ n \in Nat /\ n <= Len(q)
    BY <1>2, <1>3
  <2>1. /\ b \o SubSeq(q, 1, n) \in Seq(Note) /\ SubSeq(q, n + 1, Len(q)) \in Seq(Note)
    BY <2>0, Regrouped
  <2>2. (b \o SubSeq(q, 1, n)) \o SubSeq(q, n + 1, Len(q)) = b \o q
    BY Zenon, <2>0, Regrouped
  <2> QED BY Zenon, <1>4, <2>1, <2>2
<1>8. Waiting = b \o q
  BY <1>2, <1>4 DEF Waiting, Held
<1>9. Waiting' = batch' \o queue'
  BY <1>4 DEF Waiting, Held
<1>10. sessionClosing = 0
  BY <1>1, <1>4 DEF Mail, MonitorTypes
<1>11. Dispatching
  BY <1>1, <1>4, <1>5 DEF Dispatching, MonitorTypes
<1> QED BY <1>4, <1>5, <1>8, <1>9, <1>10, <1>11, PassingStep DEF Passing

\* A turn is over, and with it all of its batch.
LEMMA TurnOverStep ==
  ASSUME MonitorInv, M!TurnDone \/ M!Dies
  PROVE  MonitorInv'
<1>1. MonitorTypes /\ Mail
  BY DEF MonitorInv
<1>2. /\ dispatcher = "turn" /\ turn' = "free" /\ batch' \in {<<>>, M!Rest}
      /\ dispatcher' = "grouping" \/ (dispatcher' = "none" /\ batch' = <<>>)
      /\ UNCHANGED <<stage, outcome, doomedMonitors, lines, born, monitorStatus, quiet, callers, abandoned, settled>>
      /\ UNCHANGED <<name, names, target, generation, sessionClosing, queue, given>>
  BY DEF M!TurnDone, M!Dies, M!task, M!record
<1>3. M!Rest = <<>>
  <2>1. {i \in DOMAIN batch : batch[i].generation # Head(batch).generation} = 1..0
    <3>1. batch \in Seq(Note) /\ batch # <<>> /\ \A i \in DOMAIN batch : batch[i].generation = generation
      BY <1>1, <1>2 DEF Mail, MonitorTypes
    <3>2. 1 \in DOMAIN batch /\ Head(batch) = batch[1]
      BY <3>1
    <3> QED BY <3>1, <3>2
  <2>2. batch \in Seq(Note)
    BY <1>1 DEF MonitorTypes
  <2>3. 1 \in Nat \ {0} /\ 0 \in Nat /\ 1 <= 0 + 1 /\ 0 <= Len(batch) /\ 0 < 1
    BY <2>2
  <2>4. M!Picked(batch, 1..0) = SubSeq(batch, 1, 0)
    BY <2>2, <2>3, PickedStretch
  <2>5. SubSeq(batch, 1, 0) = <<>>
    BY <2>3, SubSeqEmpty
  <2> QED BY <2>1, <2>4, <2>5 DEF M!Rest
<1>4. turn = "monitor" /\ sessionClosing = 0
  BY <1>1, <1>2 DEF Mail, MonitorTypes
<1>5. Dispatching
  <2>1. <<>> \in Seq(Note)
    OBVIOUS
  <2> QED BY Zenon, <1>1, <1>2, <1>3, <1>4, <2>1 DEF Dispatching, MonitorTypes
<1>6. Waiting' = Waiting
  BY Zenon, <1>2, <1>3 DEF Waiting, Held
<1> QED BY <1>2, <1>3, <1>4, <1>5, <1>6, PassingStep DEF Passing

LEMMA BatchInOrder ==
  ASSUME MonitorInv, dispatcher # "turn"
  PROVE  /\ batch \in Seq(Note) /\ queue \in Seq(Note) /\ Waiting = batch \o queue /\ InOrder(batch)
         /\ \A i, j \in DOMAIN batch : i < j => batch[i].generation <= batch[j].generation
<1>1. MonitorTypes /\ Mail
  BY DEF MonitorInv
<1>2. batch \in Seq(Note) /\ queue \in Seq(Note) /\ Waiting = batch \o queue
  BY <1>1 DEF MonitorTypes, Waiting, Held
<1>3. InOrder(batch \o queue)
  BY <1>1, <1>2, MailOf
<1>4. InOrder(batch)
  BY <1>2, <1>3, OrderOfPrefix
<1> QED BY <1>2, <1>4 DEF InOrder

\* The rest of the batch, ahead of the queue, is what is left of what waits.
LEMMA RestOfConcat ==
  ASSUME NEW b \in Seq(Note), NEW q \in Seq(Note), NEW p \in 1..Len(b)
  PROVE  SubSeq(b, p + 1, Len(b)) \o q = SubSeq(b \o q, p + 1, Len(b \o q))
<1> DEFINE r == SubSeq(b, p + 1, Len(b))
           w == b \o q
           l == SubSeq(w, p + 1, Len(w))
<1>1. /\ Len(b) \in Nat /\ Len(q) \in Nat /\ w \in Seq(Note) /\ Len(w) = Len(b) + Len(q)
      /\ \A i \in 1..Len(b) + Len(q) : w[i] = IF i <= Len(b) THEN b[i] ELSE q[i - Len(b)]
  BY ConcatProperties
<1>2. r \in Seq(Note) /\ Len(r) = Len(b) - p
  BY TwoParts, SubSeqProperties
<1>3. \A i \in 1..Len(b) - p : r[i] = b[p + i]
  BY <1>1, SubSeqProperties
<1> HIDE DEF w
<1>4. l \in Seq(Note) /\ Len(l) = Len(w) - p
  BY <1>1, TwoParts, SubSeqProperties
<1>5. \A i \in 1..Len(w) - p : l[i] = w[p + i]
  BY <1>1, SubSeqProperties
<1> HIDE DEF r, l
<1>6. /\ r \o q \in Seq(Note) /\ Len(r \o q) = Len(r) + Len(q)
      /\ \A i \in 1..Len(r) + Len(q) : (r \o q)[i] = IF i <= Len(r) THEN r[i] ELSE q[i - Len(r)]
  BY Zenon, <1>2, ConcatProperties
<1>7. PICK c : c = r \o q
  OBVIOUS
<1>8. c \in Seq(Note) /\ Len(c) = Len(l)
  BY <1>1, <1>2, <1>4, <1>6, <1>7
<1>9. ASSUME NEW i \in 1..Len(c) PROVE c[i] = l[i]
  <2>1. i \in 1..Len(w) - p /\ i \in 1..Len(r) + Len(q) /\ p + i \in 1..Len(b) + Len(q)
    BY <1>1, <1>2, <1>4, <1>8
  <2>2. l[i] = w[p + i] /\ w[p + i] = IF p + i <= Len(b) THEN b[p + i] ELSE q[p + i - Len(b)]
    BY <1>1, <1>5, <2>1
  <2>3. c[i] = IF i <= Len(r) THEN r[i] ELSE q[i - Len(r)]
    BY <1>6, <1>7, <2>1
  <2>4. i - Len(r) = p + i - Len(b) /\ (i <= Len(r) <=> p + i <= Len(b))
    BY <1>1, <1>2, <2>1
  <2>5. i <= Len(r) => r[i] = b[p + i]
    BY <1>1, <1>2, <1>3, <2>1
  <2> QED BY <2>2, <2>3, <2>4, <2>5
<1>10. c = l
  BY <1>4, <1>8, <1>9, SeqEqual
<1> QED BY Zenon, <1>7, <1>10 DEF r, l, w

\* The first group is of another lifecycle, and dropped.
Skipping ==
  /\ dispatcher \in {"grouping", "locking"} /\ dispatcher' = "grouping"
  /\ batch # <<>> /\ ~M!Current /\ batch' = M!Rest
  /\ UNCHANGED <<stage, outcome, doomedMonitors, lines, born, monitorStatus, quiet, callers, abandoned, settled>>
  /\ UNCHANGED <<name, names, target, generation, sessionClosing, turn, queue, given>>

LEMMA SkippingStep ==
  ASSUME MonitorInv, Skipping
  PROVE  MonitorInv'
<1>1. MonitorTypes /\ Mail
  BY DEF MonitorInv
<1>2. /\ batch \in Seq(Note) /\ queue \in Seq(Note) /\ Waiting = batch \o queue /\ batch # <<>>
      /\ \A i, j \in DOMAIN batch : i < j => batch[i].generation <= batch[j].generation
  BY BatchInOrder DEF Skipping
<1>3. PICK p \in 1..Len(batch) :
        /\ \A i \in 1..p : batch[i].generation = Head(batch).generation
        /\ M!Rest = SubSeq(batch, p + 1, Len(batch))
  BY Zenon, <1>2, GroupComesFirst
<1>4. sessionClosing = 0 /\ Head(batch).generation # generation
  BY <1>1 DEF Mail, Skipping, M!Current, MonitorTypes
<1>5. PICK w : w = Waiting
  OBVIOUS
<1>6. w \in Seq(Note) /\ Len(w) = Len(batch) + Len(queue) /\ \A i \in 1..p : w[i] = batch[i]
  BY <1>2, <1>5, ConcatProperties
<1>7. M!Rest \in Seq(Note)
  <2>1. p \in Nat /\ p <= Len(batch)
    BY <1>2
  <2> QED BY <1>2, <1>3, <2>1, TwoParts
<1>8. Waiting' = SubSeq(w, p + 1, Len(w))
  <2>1. Waiting' = SubSeq(batch, p + 1, Len(batch)) \o queue
    BY <1>3 DEF Waiting, Held, Skipping
  <2>2. SubSeq(batch, p + 1, Len(batch)) \o queue = SubSeq(batch \o queue, p + 1, Len(batch \o queue))
    BY Zenon, <1>2, RestOfConcat
  <2> QED BY Zenon, <1>2, <1>5, <2>1, <2>2
<1>9. Dispatching
  BY <1>1, <1>7 DEF Dispatching, Skipping, MonitorTypes
<1>10. /\ MonitorTypes' /\ Lifecycles' /\ Records' /\ Onward
  BY <1>9, DispatchingKeeps
<1>11. p \in Nat /\ p <= Len(w)
  BY <1>2, <1>6
<1>12. Mail'
  <2>1. InOrder(w)
    BY <1>1, <1>5, MailOf
  <2>2. InOrder(SubSeq(w, p + 1, Len(w)))
    BY Zenon, <1>6, <1>11, <2>1, OrderLeft
  <2>3. InOrder(Waiting)'
    BY <1>8, <2>2 DEF InOrder, Skipping
  <2> QED BY <1>4, <2>3 DEF Mail, InOrder, Skipping
<1>13. Forgot(p)
  <2>1. \A i \in 1..p : w[i].generation # generation
    BY <1>3, <1>4, <1>6
  <2> QED BY <1>5, <1>8, <1>11, <2>1 DEF Forgot, Skipping
<1> QED BY <1>10, <1>11, <1>12, <1>13, Forgets DEF MonitorInv

LEMMA NextGroupStep ==
  ASSUME MonitorInv, M!NextGroup
  PROVE  MonitorInv'
<1>1. MonitorTypes /\ Mail
  BY DEF MonitorInv
<1>2. /\ dispatcher = "grouping"
      /\ dispatcher' = IF batch = <<>> THEN "waiting" ELSE IF M!Current THEN "locking" ELSE "grouping"
      /\ batch' = IF batch = <<>> \/ M!Current THEN batch ELSE M!Rest
      /\ UNCHANGED <<stage, outcome, doomedMonitors, lines, born, monitorStatus, quiet, callers, abandoned, settled>>
      /\ UNCHANGED <<name, names, target, generation, sessionClosing, turn, queue, given>>
  BY DEF M!NextGroup, M!task, M!record, M!session
<1>3. CASE batch # <<>> /\ ~M!Current
  BY <1>2, <1>3, SkippingStep DEF Skipping
<1>4. CASE batch = <<>> \/ M!Current
  <2>1. batch' = batch /\ dispatcher' \in {"waiting", "locking"} /\ (dispatcher' = "waiting" <=> batch = <<>>)
    BY <1>2, <1>4
  <2>2. Waiting' = Waiting
    BY Zenon, <1>2, <2>1 DEF Waiting, Held
  <2>3. sessionClosing = 0
    BY <1>1, <1>2 DEF Mail, MonitorTypes
  <2>4. Dispatching
    BY <1>1, <1>2, <2>1 DEF Dispatching, MonitorTypes
  <2> QED BY <1>2, <2>1, <2>2, <2>3, <2>4, PassingStep DEF Passing
<1> QED BY <1>3, <1>4

\* The notes of what was given before, and of what is given now.
LEMMA NotesOfConcat ==
  ASSUME NEW gs \in Seq(Told), NEW hs \in Seq(Told), NEW b \in Seq(Note),
         Len(hs) = Len(b), \A i \in 1..Len(b) : hs[i].note = b[i]
  PROVE  Notes(gs \o hs) = Notes(gs) \o b
<1>1. PICK c : c = gs \o hs
  OBVIOUS
<1>2. /\ c \in Seq(Told) /\ Len(c) = Len(gs) + Len(hs)
      /\ \A i \in 1..Len(gs) + Len(hs) : c[i] = IF i <= Len(gs) THEN gs[i] ELSE hs[i - Len(gs)]
  <2>1. /\ gs \o hs \in Seq(Told) /\ Len(gs \o hs) = Len(gs) + Len(hs)
        /\ \A i \in 1..Len(gs) + Len(hs) : (gs \o hs)[i] = IF i <= Len(gs) THEN gs[i] ELSE hs[i - Len(gs)]
    BY ZenonT(60), ConcatProperties
  <2> QED BY <1>1, <2>1
<1>3. PICK n, l, r : n = Notes(gs) /\ l = Notes(c) /\ r = n \o b
  OBVIOUS
<1>4. l \in Seq(Note) /\ Len(l) = Len(c) /\ \A i \in 1..Len(c) : l[i] = c[i].note
  <2>1. <<>> \in Seq(Note)
    OBVIOUS
  <2> QED BY Zenon, <1>2, <1>3, <2>1, StreamOf
<1>5. n \in Seq(Note) /\ Len(n) = Len(gs) /\ \A i \in 1..Len(gs) : n[i] = gs[i].note
  <2>1. <<>> \in Seq(Note)
    OBVIOUS
  <2> QED BY Zenon, <1>3, <2>1, StreamOf
<1>6. /\ r \in Seq(Note) /\ Len(r) = Len(n) + Len(b)
      /\ \A i \in 1..Len(n) + Len(b) : r[i] = IF i <= Len(n) THEN n[i] ELSE b[i - Len(n)]
  BY ZenonT(60), <1>3, <1>5, ConcatProperties
<1>7. Len(gs) \in Nat /\ Len(b) \in Nat /\ Len(l) = Len(r) /\ Len(l) = Len(gs) + Len(b)
  BY <1>2, <1>4, <1>5, <1>6
<1>8. ASSUME NEW i \in 1..Len(l) PROVE l[i] = r[i]
  <2>1. l[i] = c[i].note /\ i \in 1..Len(gs) + Len(b)
    BY <1>2, <1>4, <1>7
  <2>2. CASE i <= Len(gs)
    <3>1. i \in 1..Len(gs) /\ i <= Len(n) /\ i \in 1..Len(n) + Len(b)
      BY <1>5, <1>7, <2>1, <2>2
    <3>2. c[i] = gs[i] /\ n[i] = gs[i].note
      BY <1>2, <1>5, <2>1, <2>2, <3>1
    <3>3. r[i] = n[i]
      BY <1>6, <3>1
    <3> QED BY <2>1, <3>2, <3>3
  <2>3. CASE ~(i <= Len(gs))
    <3>1. i - Len(gs) \in 1..Len(b)
      BY <1>7, <2>1, <2>3
    <3>2. c[i] = hs[i - Len(gs)] /\ r[i] = b[i - Len(gs)]
      BY <1>2, <1>5, <1>6, <1>7, <2>1, <2>3
    <3> QED BY <2>1, <3>1, <3>2
  <2> QED BY <2>2, <2>3
<1>9. l = r
  BY <1>4, <1>6, <1>7, <1>8, SeqEqual
<1> QED BY <1>1, <1>3, <1>9

\* The batch is of the session's lifecycle, and all of it is given to the model.
LEMMA GivenStep ==
  ASSUME MonitorInv, M!Lock, M!Current
  PROVE  MonitorInv'
<1>1. MonitorTypes /\ Mail /\ Lifecycles
  BY DEF MonitorInv
<1>2. PICK b, q, gs, hs : /\ b = batch /\ q = queue /\ gs = given
                          /\ hs = [i \in DOMAIN M!Group |-> [note |-> M!Group[i], at |-> generation]]
  OBVIOUS
<1>3. /\ dispatcher = "locking" /\ turn = "free" /\ dispatcher' = "turn" /\ turn' = "monitor" /\ batch' = batch
      /\ given' = gs \o hs
      /\ UNCHANGED <<stage, outcome, doomedMonitors, lines, born, monitorStatus, quiet, callers, abandoned, settled>>
      /\ UNCHANGED <<name, names, target, generation, sessionClosing, queue>>
  BY <1>2 DEF M!Lock, M!task, M!record
<1>4. sessionClosing = 0 /\ Head(b).generation = generation /\ b # <<>> /\ generation \in Nat
  BY <1>1, <1>2, <1>3 DEF M!Current, Mail, MonitorTypes
<1>5. /\ b \in Seq(Note) /\ q \in Seq(Note) /\ Waiting = b \o q /\ InOrder(b)
      /\ \A i, j \in DOMAIN b : i < j => b[i].generation <= b[j].generation
  BY Zenon, <1>2, <1>3, BatchInOrder
<1>6. PICK p \in 1..Len(b) :
        /\ \A i \in 1..p : b[i].generation = Head(b).generation
        /\ \A i \in p + 1..Len(b) : b[i].generation # Head(b).generation
        /\ M!Group = SubSeq(b, 1, p)
  BY Zenon, <1>2, <1>4, <1>5, GroupComesFirst
<1>7. \A i \in 1..Len(b) : b[i] \in Note /\ b[i].generation = generation
  <2>1. ASSUME NEW i \in 1..Len(b) PROVE b[i] \in Note /\ b[i].generation = generation
    <3>1. b[i] \in Note /\ Len(b) \in Nat /\ DOMAIN b = 1..Len(b)
      BY <1>5
    <3>2. b[i].generation \in Nat /\ b[i].generation <= generation
      BY Zenon, <1>5, <3>1 DEF InOrder, Note
    <3>3. Head(b) = b[1] /\ 1 \in DOMAIN b
      BY <1>4, <1>5
    <3>4. CASE i = 1
      BY <1>4, <3>1, <3>3, <3>4
    <3>5. CASE i # 1
      <4>1. 1 < i /\ i \in DOMAIN b
        BY <3>1, <3>5
      <4>2. b[1].generation <= b[i].generation
        BY <1>5, <3>3, <4>1
      <4> QED BY <1>4, <3>1, <3>2, <3>3, <4>2
    <3> QED BY <3>4, <3>5
  <2> QED BY <2>1
<1>8. M!Group = b
  <2>1. Len(b) \in Nat
    BY <1>5
  <2>2. p = Len(b)
    <3>1. SUFFICES ASSUME p # Len(b) PROVE FALSE
      OBVIOUS
    <3>2. Len(b) \in p + 1..Len(b) /\ Len(b) \in 1..Len(b)
      BY <2>1, <3>1
    <3> QED BY <1>4, <1>6, <1>7, <3>2
  <2>3. SubSeq(b, 1, Len(b)) = b
    BY <1>5, SubSeqFull
  <2> QED BY <1>6, <2>2, <2>3
<1>9. /\ hs = [i \in 1..Len(b) |-> [note |-> b[i], at |-> generation]] /\ hs \in Seq(Told)
      /\ Len(hs) = Len(b) /\ \A i \in 1..Len(b) : hs[i].note = b[i] /\ hs[i].at = generation
  <2>1. hs = [i \in 1..Len(b) |-> [note |-> b[i], at |-> generation]]
    BY <1>2, <1>5, <1>8
  <2>2. \A i \in 1..Len(b) : [note |-> b[i], at |-> generation] \in Told
    BY <1>4, <1>7 DEF Told
  <2>3. Len(b) \in Nat
    BY <1>5
  <2> QED BY <2>1, <2>2, <2>3
<1>10. gs \in Seq(Told) /\ given' \in Seq(Told) /\ Len(given') = Len(gs) + Len(hs) /\ Len(gs) \in Nat
       /\ \A i \in 1..Len(given') : given'[i] = IF i <= Len(gs) THEN gs[i] ELSE hs[i - Len(gs)]
  <2>1. gs \in Seq(Told)
    BY <1>1, <1>2 DEF MonitorTypes
  <2> QED BY <1>3, <1>9, <2>1, ConcatProperties
<1>11. Waiting' = q
  <2>1. Waiting' = <<>> \o q
    BY <1>2, <1>3 DEF Waiting, Held
  <2> QED BY <1>5, <2>1
<1>12. Stream' = Stream
  <2>1. PICK n : n = Notes(gs)
    OBVIOUS
  <2>2. n \in Seq(Note)
    BY <1>5, <1>10, <2>1, StreamOf
  <2>3. Notes(given') = n \o b
    BY Zenon, <1>3, <1>5, <1>9, <1>10, <2>1, NotesOfConcat
  <2>4. (n \o b) \o q = n \o (b \o q)
    BY Zenon, <1>5, <2>2, Together
  <2>5. Stream = n \o (b \o q)
    BY <1>2, <1>5, <2>1 DEF Stream
  <2>6. Stream' = (n \o b) \o q
    BY <1>11, <2>3 DEF Stream
  <2> QED BY <2>4, <2>5, <2>6
<1>13. Dispatching
  BY <1>1, <1>3, <1>10 DEF Dispatching, MonitorTypes
<1>14. MonitorTypes' /\ Lifecycles' /\ Records' /\ Onward
  BY <1>13, DispatchingKeeps
<1>15. Mail'
  <2>1. InOrder(q)
    BY <1>1, <1>5, MailOf, OrderOfPrefix
  <2>2. InOrder(Waiting)'
    BY <1>3, <1>11, <2>1 DEF InOrder
  <2>3. \A i \in DOMAIN batch' : batch'[i].generation = generation'
    BY <1>2, <1>3, <1>5, <1>7
  <2> QED BY <1>2, <1>3, <1>4, <2>2, <2>3 DEF Mail, InOrder
<1>16. Gave
  <2>1. ASSUME NEW i \in 1..Len(given')
        PROVE  \/ i <= Len(given) /\ given'[i] = given[i]
               \/ /\ given'[i].at = given'[i].note.generation
                  /\ given'[i].note = Stream[i] /\ Stream[i].generation = generation
    <3>1. CASE i <= Len(gs)
      BY <1>2, <1>10, <3>1
    <3>2. CASE ~(i <= Len(gs))
      <4>0. i - Len(gs) \in 1..Len(b)
        <5>1. Len(b) \in Nat /\ Len(gs) \in Nat /\ Len(given') = Len(gs) + Len(b)
          BY <1>5, <1>9, <1>10
        <5> QED BY <3>2, <5>1
      <4>1. PICK k \in 1..Len(b) : k = i - Len(gs)
        BY Zenon, <4>0
      <4>2. given'[i] = hs[k] /\ hs[k].note = b[k] /\ hs[k].at = generation /\ b[k].generation = generation
        BY <1>7, <1>9, <1>10, <3>2, <4>1
      <4>3. Stream'[i] = given'[i].note
        BY Zenon, <1>5, <1>10, <1>11, <2>1, StreamOf DEF Stream
      <4> QED BY <1>12, <4>2, <4>3
    <3> QED BY <3>1, <3>2
  <2>2. Len(given) <= Len(given')
    BY <1>2, <1>5, <1>9, <1>10
  <2> QED BY Zenon, <1>3, <1>4, <1>12, <2>1, <2>2 DEF Gave
<1> QED BY <1>14, <1>15, <1>16, Gives DEF MonitorInv

LEMMA LockStep ==
  ASSUME MonitorInv, M!Lock
  PROVE  MonitorInv'
<1>1. CASE M!Current
  BY <1>1, GivenStep
<1>2. CASE ~M!Current
  <2>1. Mail
    BY DEF MonitorInv
  <2>2. Skipping
    BY <1>2, <2>1 DEF M!Lock, M!task, M!record, Mail, Skipping
  <2> QED BY <2>2, SkippingStep
<1> QED BY <1>1, <1>2

LEMMA MonitorInit == M!Init => MonitorInv
<1> SUFFICES ASSUME M!Init PROVE MonitorInv
  OBVIOUS
<1>1. /\ stage = [m \in Monitors |-> "none"] /\ outcome = [m \in Monitors |-> "none"]
      /\ doomedMonitors = {} /\ monitorStatus = [m \in Monitors |-> "none"]
      /\ lines = [m \in Monitors |-> 0] /\ born = [m \in Monitors |-> 0] /\ quiet = {}
      /\ callers = [m \in Monitors |-> 0] /\ abandoned = {} /\ settled = {}
      /\ name \in Names /\ names = <<name>> /\ target = name
      /\ generation = 1 /\ sessionClosing = 0 /\ turn = "free"
      /\ queue = <<>> /\ dispatcher = "none" /\ batch = <<>> /\ given = <<>>
  BY DEF M!Init
<1>2. names \in Seq(Names) /\ Len(names) = 1 /\ names[1] = name
  BY <1>1
<1>3. queue \in Seq(Note) /\ batch \in Seq(Note) /\ given \in Seq(Told)
  BY <1>1
<1>4. MonitorTypes
  BY <1>1, <1>2, <1>3 DEF MonitorTypes, MonitorStages
<1>5. Stream = <<>> /\ Waiting = <<>>
  BY <1>1 DEF Stream, Waiting, Held, Notes
<1>6. Mail
  BY <1>1, <1>5 DEF Mail
<1>7. Lifecycles /\ Records
  BY <1>1, <1>2 DEF Lifecycles, Records
<1>8. Truthful
  BY <1>1, <1>5 DEF Truthful
<1>9. Ordered
  <2>1. \A m \in Monitors : Own(Stream, m, born[m]) = {} /\ 1..lines[m] = {}
    BY <1>1, <1>5 DEF Own
  <2> QED BY <2>1 DEF Ordered
<1> QED BY <1>4, <1>6, <1>7, <1>8, <1>9 DEF MonitorInv

LEMMA MonitorNext == MonitorInv /\ [M!Next]_monitorVars => MonitorInv'
<1> SUFFICES ASSUME MonitorInv, [M!Next]_monitorVars PROVE MonitorInv'
  OBVIOUS
<1>1. CASE UNCHANGED monitorVars
  BY <1>1, NobodySees DEF monitorVars
<1>2. ASSUME NEW m \in Monitors, M!Start(m) \/ M!Running(m) \/ M!Line(m) PROVE MonitorInv'
  BY <1>2, MonitorStarts, GoesOn, EndStep, ProcessStep, TerminatedStep, UnwindStep, StopReturnsStep, LineStep
     DEF M!Running
<1>3. ASSUME NEW m \in Monitors,
             M!EndOfOutput(m) \/ M!Exit(m) \/ M!TimesOut(m) \/ M!Stop(m) \/ M!StopCancelled(m)
      PROVE  MonitorInv'
  BY <1>3, GoesOn, ProcessStep, EndStep, StopStep, StopCancelledStep
<1>4. CASE M!TurnBegins \/ M!Turns \/ M!NewSession \/ (\E s \in Names : M!Resume(s)) \/ M!Close
  BY <1>4, TurnStep, ResumedStep, CloseMonitorsStep, NewSessionStep, ResumeStep, CloseStep DEF M!Turns
<1>5. CASE M!Dispatch \/ M!Dies
  BY <1>5, TakeStep, CollectStep, NextGroupStep, LockStep, TurnOverStep DEF M!Dispatch
<1> QED BY <1>1, <1>2, <1>3, <1>4, <1>5 DEF M!Next

\* The model hears what is right, in the lifecycle of the monitor.
LEMMA NotesAreHeard == MonitorInv => M!HeardInOrder /\ M!HeardInItsLifecycle /\ M!OverIsRecorded
<1> SUFFICES ASSUME MonitorInv PROVE M!HeardInOrder /\ M!HeardInItsLifecycle /\ M!OverIsRecorded
  OBVIOUS
<1>1. MonitorTypes /\ Records /\ Truthful /\ Ordered
  BY DEF MonitorInv
<1>2. PICK s, N : s = Stream /\ N = Len(given)
  OBVIOUS
<1>3. /\ s \in Seq(Note) /\ N \in Nat /\ Len(s) >= N /\ DOMAIN given = 1..N
      /\ \A i \in 1..N : s[i] = given[i].note /\ given[i] \in Told
  <2>1. given \in Seq(Told) /\ Waiting \in Seq(Note) /\ N \in Nat /\ DOMAIN given = 1..N
    BY <1>1, <1>2, HeldTypes DEF MonitorTypes
  <2> QED BY <1>2, <2>1, StreamOf DEF Stream
<1>4. \A i \in 1..N : i \in DOMAIN s /\ given[i].at = s[i].generation
  BY <1>1, <1>3 DEF Truthful
<1>5. M!HeardInOrder
  <2> SUFFICES ASSUME NEW m \in Monitors, NEW i \in M!Heard(m)
               PROVE  LET n == given[i].note.n
                      IN \/ n = M!End /\ M!HeardBefore(m, i) = 1..lines[m]
                         \/ n \in 1..lines[m] /\ M!HeardBefore(m, i) = 1..n - 1
    BY DEF M!HeardInOrder
  <2>1. M!Heard(m) = Own(s, m, born[m]) \cap 1..N
    BY <1>3, <1>4 DEF M!Heard, Own
  <2>2. M!HeardBefore(m, i) = Before(s, m, born[m], i)
    <3>1. i \in 1..N
      BY <2>1
    <3>2. {j \in M!Heard(m) : j < i} = {j \in Own(s, m, born[m]) : j < i}
      BY <1>3, <2>1, <3>1 DEF Own
    <3>3. \A j \in M!Heard(m) : given[j].note.n = s[j].n
      BY <1>3, <2>1
    <3> QED BY <3>2, <3>3 DEF M!HeardBefore, Before
  <2>3. Right(s, m, born[m], i, lines[m])
    BY <1>1, <1>2, <2>1 DEF Ordered
  <2>4. given[i].note.n = s[i].n
    BY <1>3, <2>1
  <2> QED BY <2>2, <2>3, <2>4 DEF Right
<1>6. M!HeardInItsLifecycle
  <2> SUFFICES ASSUME NEW i \in 1..N
               PROVE  \/ given[i].at = born[given[i].note.m]
                      \/ given[i].note.n = M!End /\ given[i].note.m \in settled
    BY <1>3 DEF M!HeardInItsLifecycle
  <2>1. TrueNote(s[i])
    BY <1>1, <1>2, <1>4 DEF Truthful
  <2> QED BY <1>3, <1>4, <2>1 DEF TrueNote
<1>7. M!OverIsRecorded
  BY <1>1 DEF MonitorTypes, Records, M!OverIsRecorded
<1> QED BY <1>5, <1>6, <1>7

\* The model hears each line of a monitor once, in order, in the monitor's lifecycle,
\* that it ended at most once, and the record says how (MonitorManager, CoreSession).
THEOREM NotesHold == Spec => []NotesAreTrue
<1>1. Init => MonitorInv
  BY MonitorInit DEF Init
<1>2. MonitorInv /\ [Next]_vars => MonitorInv'
  <2> SUFFICES ASSUME MonitorInv, [Next]_vars PROVE MonitorInv'
    OBVIOUS
  <2>1. CASE M!Next
    BY <2>1, MonitorNext
  <2>2. CASE UNCHANGED monitorVars
    BY <2>2, MonitorNext
  <2> QED BY <2>1, <2>2 DEF Next, vars
<1>3. MonitorInv => NotesAreTrue
  BY NotesAreHeard DEF NotesAreTrue
<1> QED BY <1>1, <1>2, <1>3, PTL DEF Spec

-----------------------------------------------------------------------------
\* Functions by rounds: h does n rounds of F from a.
Does(h, n, F, a) == h[0] = a /\ \A i \in 0..n - 1 : h[i + 1] = F[h[i]]

Maps(F, S) == F \in [S -> S]
Iterates(g, F, a) == g[0] = a /\ \A n \in Nat : g[n + 1] = F[g[n]]

\* Two of them agree as far as both go.
LEMMA RoundsAgree ==
  ASSUME NEW F, NEW a, NEW h, NEW k, NEW n \in Nat, Does(h, n, F, a), Does(k, n, F, a)
  PROVE  \A i \in 0..n : h[i] = k[i]
<1> SUFFICES ASSUME ~\A i \in 0..n : h[i] = k[i] PROVE FALSE
  OBVIOUS
<1>1. PICK i \in {j \in 0..n : h[j] # k[j]} : \A j \in {j \in 0..n : h[j] # k[j]} : i <= j
  <2>1. {j \in 0..n : h[j] # k[j]} \in SUBSET Nat /\ {j \in 0..n : h[j] # k[j]} # {}
    OBVIOUS
  <2> QED BY Zenon, <2>1, Least
<1>2. i \in 0..n /\ i # 0 /\ h[i] # k[i]
  BY <1>1 DEF Does
<1>3. i - 1 \in 0..n - 1 /\ i - 1 \in 0..n /\ (i - 1) + 1 = i
  BY <1>2
<1>4. h[i - 1] = k[i - 1]
  BY <1>1, <1>2, <1>3
<1>5. h[(i - 1) + 1] = F[h[i - 1]] /\ k[(i - 1) + 1] = F[k[i - 1]]
  BY <1>3 DEF Does
<1> QED BY <1>2, <1>3, <1>4, <1>5

\* Any number of rounds can be done.
LEMMA RoundsExist ==
  ASSUME NEW S, NEW F \in [S -> S], NEW a \in S
  PROVE  \A n \in Nat : \E h \in [0..n -> S] : Does(h, n, F, a)
<1> DEFINE Bad == {n \in Nat : ~\E h \in [0..n -> S] : Does(h, n, F, a)}
<1> SUFFICES ASSUME Bad # {} PROVE FALSE
  OBVIOUS
<1>1. PICK n \in Bad : \A m \in Bad : n <= m
  BY Zenon, Least
<1>2. n # 0
  <2>1. [i \in 0..0 |-> a] \in [0..0 -> S] /\ Does([i \in 0..0 |-> a], 0, F, a)
    BY DEF Does
  <2> QED BY Zenon, <2>1
<1>3. n \in Nat /\ n - 1 \in Nat /\ n - 1 \notin Bad
  BY <1>1, <1>2
<1>4. PICK h \in [0..n - 1 -> S] : Does(h, n - 1, F, a)
  BY <1>3
<1> DEFINE k == [i \in 0..n |-> IF i = n THEN F[h[n - 1]] ELSE h[i]]
<1>5. k \in [0..n -> S]
  BY <1>3, <1>4
<1>6. k[0] = a
  BY <1>2, <1>3, <1>4 DEF Does
<1>7. ASSUME NEW i \in 0..n - 1 PROVE k[i + 1] = F[k[i]]
  <2>1. k[i] = h[i]
    BY <1>3
  <2>2. CASE i = n - 1
    BY <1>3, <2>1, <2>2
  <2>3. CASE i # n - 1
    BY <1>3, <1>4, <2>1, <2>3 DEF Does
  <2> QED BY <2>2, <2>3
<1>8. Does(k, n, F, a)
  BY Zenon, <1>6, <1>7 DEF Does
<1> QED BY <1>1, <1>5, <1>8

\* So a function that is defined by rounds is what its definition says.
LEMMA Rounds ==
  ASSUME NEW S, NEW F, NEW a, Maps(F, S), a \in S
  PROVE  \E g \in [Nat -> S] : Iterates(g, F, a)
<1> DEFINE Good(n, h) == h \in [0..n -> S] /\ Does(h, n, F, a)
           H(n) == CHOOSE h : Good(n, h)
           g == [n \in Nat |-> H(n)[n]]
<1>1. \A n \in Nat : Good(n, H(n))
  <2>1. \A n \in Nat : \E h : Good(n, h)
    BY RoundsExist DEF Maps
  <2> HIDE DEF Good
  <2> QED BY <2>1
<1> HIDE DEF H
<1>2. g \in [Nat -> S]
  BY <1>1
<1>3. g[0] = a
  BY <1>1 DEF Does
<1>4. ASSUME NEW n \in Nat PROVE g[n + 1] = F[g[n]]
  <2>1. Does(H(n), n, F, a) /\ Does(H(n + 1), n + 1, F, a)
    BY <1>1
  <2>2. Does(H(n + 1), n, F, a) /\ H(n + 1)[n + 1] = F[H(n + 1)[n]]
    BY <2>1 DEF Does
  <2>3. H(n + 1)[n] = H(n)[n]
    BY <2>1, <2>2, RoundsAgree
  <2> QED BY <2>2, <2>3
<1>5. Iterates(g, F, a)
  BY <1>3, <1>4 DEF Iterates
<1> QED BY <1>2, <1>5
\* Sets that grow round by round within a finite one have grown when there were as
\* many rounds as it has elements.
LEMMA Settles ==
  ASSUME NEW T, IsFiniteSet(T), NEW F \in [SUBSET T -> SUBSET T], NEW g \in [Nat -> SUBSET T],
         \A n \in Nat : g[n + 1] = F[g[n]] /\ g[n] \subseteq g[n + 1]
  PROVE  F[g[Cardinality(T)]] = g[Cardinality(T)]
<1> DEFINE Bad == {n \in Nat : g[n] # g[n + 1] /\ Cardinality(g[n + 1]) < n + 1}
<1>1. \A n \in Nat : IsFiniteSet(g[n]) /\ Cardinality(g[n]) \in Nat /\ Cardinality(g[n]) <= Cardinality(T)
  BY Zenon, FS_Subset, FS_CardinalityType
<1>2. \A n \in Nat : g[n] # g[n + 1] => Cardinality(g[n]) < Cardinality(g[n + 1])
  <2> SUFFICES ASSUME NEW n \in Nat, g[n] # g[n + 1] PROVE Cardinality(g[n]) < Cardinality(g[n + 1])
    OBVIOUS
  <2>1. g[n] \in SUBSET g[n + 1] /\ IsFiniteSet(g[n + 1])
    BY <1>1
  <2>2. Cardinality(g[n]) <= Cardinality(g[n + 1]) /\ Cardinality(g[n]) # Cardinality(g[n + 1])
    BY <2>1, FS_Subset
  <2> QED BY <1>1, <2>2
<1>3. Bad = {}
  <2> SUFFICES ASSUME Bad # {} PROVE FALSE
    OBVIOUS
  <2>1. PICK n \in Bad : \A m \in Bad : n <= m
    BY Zenon, Least
  <2>2. n \in Nat /\ g[n] # g[n + 1] /\ Cardinality(g[n + 1]) < n + 1
    BY <2>1
  <2>3. n # 0
    BY <1>1, <1>2, <2>2
  <2>4. n - 1 \in Nat /\ (n - 1) + 1 = n /\ n - 1 \notin Bad
    BY <2>1, <2>2, <2>3
  <2>5. g[n - 1] # g[n]
    <3>1. g[n] = F[g[n - 1]] /\ g[n + 1] = F[g[n]]
      BY <2>2, <2>4
    <3> QED BY <2>2, <3>1
  <2>6. Cardinality(g[n]) >= n
    BY <1>1, <2>4, <2>5
  <2> QED BY <1>1, <1>2, <2>2, <2>6
<1>4. Cardinality(T) \in Nat
  BY FS_CardinalityType
<1>5. Cardinality(T) + 1 \in Nat /\ Cardinality(g[Cardinality(T) + 1]) <= Cardinality(T)
  BY <1>1, <1>4
<1> QED BY <1>1, <1>3, <1>4, <1>5

-----------------------------------------------------------------------------
\* Kahn's algorithm and what a step needs, round by round.
Kahn[n \in Nat] == IF n = 0 THEN {} ELSE {s \in Steps : deps[s] \subseteq Kahn[n - 1]}
Reach(s) ==
  LET reach[n \in Nat] ==
        IF n = 0 THEN deps[s] ELSE reach[n - 1] \cup UNION {deps[d] : d \in reach[n - 1]}
  IN reach

DepsType == deps \in [Steps -> SUBSET Steps]

LEMMA StepsAreFinite == IsFiniteSet(Steps) /\ Cardinality(Steps) \in Nat /\ Steps \subseteq Nat \ {0}
<1>1. IsFiniteSet(Steps)
  BY BoundsAssumption DEF P!BoundsOK, P!IsFiniteSet, IsFiniteSet
<1> QED BY <1>1, FS_CardinalityType, BoundsAssumption DEF P!BoundsOK

LEMMA KahnRounds ==
  /\ Kahn \in [Nat -> SUBSET Steps] /\ Kahn[0] = {}
  /\ \A n \in Nat : Kahn[n + 1] = {s \in Steps : deps[s] \subseteq Kahn[n]}
<1> DEFINE F == [V \in SUBSET Steps |-> {s \in Steps : deps[s] \subseteq V}]
<1>1. PICK g \in [Nat -> SUBSET Steps] : g[0] = {} /\ \A n \in Nat : g[n + 1] = F[g[n]]
  <2>1. PICK f, S, a : f = F /\ S = SUBSET Steps /\ a = {}
    OBVIOUS
  <2>2. Maps(f, S) /\ a \in S
    BY <2>1 DEF Maps
  <2> HIDE DEF F
  <2>3. \E g \in [Nat -> S] : Iterates(g, f, a)
    BY <2>2, Rounds
  <2> QED BY <2>1, <2>3 DEF Iterates
<1>2. \A n \in Nat : g[n] = IF n = 0 THEN {} ELSE {s \in Steps : deps[s] \subseteq g[n - 1]}
  <2> SUFFICES ASSUME NEW n \in Nat, n # 0 PROVE g[n] = {s \in Steps : deps[s] \subseteq g[n - 1]}
    BY <1>1
  <2>1. n - 1 \in Nat /\ (n - 1) + 1 = n
    OBVIOUS
  <2>2. g[(n - 1) + 1] = F[g[n - 1]]
    BY Zenon, <1>1, <2>1
  <2> QED BY <2>1, <2>2
<1>3. g = [n \in Nat |-> IF n = 0 THEN {} ELSE {s \in Steps : deps[s] \subseteq g[n - 1]}]
  BY <1>1, <1>2
<1>4. Kahn = [n \in Nat |-> IF n = 0 THEN {} ELSE {s \in Steps : deps[s] \subseteq Kahn[n - 1]}]
  BY ZenonT(60), <1>3 DEF Kahn
<1> HIDE DEF F
<1>5. \A n \in Nat : Kahn[n + 1] = {s \in Steps : deps[s] \subseteq Kahn[n]}
  <2> SUFFICES ASSUME NEW n \in Nat PROVE Kahn[n + 1] = {s \in Steps : deps[s] \subseteq Kahn[n]}
    OBVIOUS
  <2>1. n + 1 \in Nat /\ n + 1 # 0 /\ (n + 1) - 1 = n
    OBVIOUS
  <2>2. Kahn[n + 1] = IF n + 1 = 0 THEN {} ELSE {s \in Steps : deps[s] \subseteq Kahn[(n + 1) - 1]}
    BY <1>4, <2>1
  <2> QED BY <2>1, <2>2
<1>6. Kahn[0] = {}
  BY <1>4
<1>7. \A n \in Nat : Kahn[n] \subseteq Steps
  <2> SUFFICES ASSUME NEW n \in Nat, n # 0 PROVE Kahn[n] \subseteq Steps
    BY <1>6
  <2>1. n - 1 \in Nat /\ (n - 1) + 1 = n
    OBVIOUS
  <2> QED BY <1>5, <2>1
<1> QED BY <1>4, <1>5, <1>6, <1>7

LEMMA ReachRounds ==
  ASSUME DepsType, NEW s \in Steps
  PROVE  /\ Reach(s) \in [Nat -> SUBSET Steps] /\ Reach(s)[0] = deps[s]
         /\ \A n \in Nat : Reach(s)[n + 1] = Reach(s)[n] \cup UNION {deps[d] : d \in Reach(s)[n]}
<1> DEFINE F == [V \in SUBSET Steps |-> V \cup UNION {deps[d] : d \in V}]
           r == Reach(s)
<1>1. deps \in [Steps -> SUBSET Steps] /\ deps[s] \in SUBSET Steps
  BY DEF DepsType
<1>2. PICK g \in [Nat -> SUBSET Steps] : g[0] = deps[s] /\ \A n \in Nat : g[n + 1] = F[g[n]]
  <2>1. PICK f, S, a : f = F /\ S = SUBSET Steps /\ a = deps[s]
    OBVIOUS
  <2>2. Maps(f, S) /\ a \in S
    BY <1>1, <2>1 DEF Maps
  <2> HIDE DEF F
  <2>3. \E g \in [Nat -> S] : Iterates(g, f, a)
    BY <2>2, Rounds
  <2> QED BY <2>1, <2>3 DEF Iterates
<1>3. \A n \in Nat : g[n] = IF n = 0 THEN deps[s] ELSE g[n - 1] \cup UNION {deps[d] : d \in g[n - 1]}
  <2> SUFFICES ASSUME NEW n \in Nat, n # 0 PROVE g[n] = g[n - 1] \cup UNION {deps[d] : d \in g[n - 1]}
    BY <1>2
  <2>1. n - 1 \in Nat /\ (n - 1) + 1 = n
    OBVIOUS
  <2>2. g[(n - 1) + 1] = F[g[n - 1]]
    BY Zenon, <1>2, <2>1
  <2> QED BY <2>1, <2>2
<1>4. g = [n \in Nat |-> IF n = 0 THEN deps[s] ELSE g[n - 1] \cup UNION {deps[d] : d \in g[n - 1]}]
  BY <1>2, <1>3
<1>5. r = [n \in Nat |-> IF n = 0 THEN deps[s] ELSE r[n - 1] \cup UNION {deps[d] : d \in r[n - 1]}]
  BY Zenon, <1>4 DEF Reach
<1> HIDE DEF F, r
<1>6. r[0] = deps[s]
  BY <1>5
<1>7. \A n \in Nat : r[n + 1] = r[n] \cup UNION {deps[d] : d \in r[n]}
  <2> SUFFICES ASSUME NEW n \in Nat PROVE r[n + 1] = r[n] \cup UNION {deps[d] : d \in r[n]}
    OBVIOUS
  <2>1. n + 1 \in Nat /\ n + 1 # 0 /\ (n + 1) - 1 = n
    OBVIOUS
  <2>2. r[n + 1] = IF n + 1 = 0 THEN deps[s] ELSE r[(n + 1) - 1] \cup UNION {deps[d] : d \in r[(n + 1) - 1]}
    BY <1>5, <2>1
  <2> QED BY <2>1, <2>2
<1>8. \A n \in Nat : r[n] \subseteq Steps
  <2> DEFINE Bad == {n \in Nat : ~(r[n] \subseteq Steps)}
  <2> SUFFICES ASSUME Bad # {} PROVE FALSE
    OBVIOUS
  <2>1. PICK n \in Bad : \A m \in Bad : n <= m
    BY Zenon, Least
  <2>2. n # 0 /\ n \in Nat /\ n - 1 \in Nat /\ (n - 1) + 1 = n /\ n - 1 \notin Bad
    BY <1>1, <1>6, <2>1
  <2>3. r[n - 1] \subseteq Steps /\ r[n] = r[n - 1] \cup UNION {deps[d] : d \in r[n - 1]}
    BY <1>7, <2>2
  <2> QED BY <1>1, <2>1, <2>3
<1>9. r \in [Nat -> SUBSET Steps]
  BY <1>5, <1>8
<1> QED BY <1>6, <1>7, <1>9 DEF r
LEMMA VisitedIsKahn == P!Visited = Kahn[Cardinality(Steps)]
  BY DEF P!Visited, Kahn, P!Cardinality, Cardinality

LEMMA NeedsIsReach == ASSUME NEW s \in Steps PROVE P!Needs(s) = Reach(s)[Cardinality(Steps)]
  BY DEF P!Needs, Reach, P!Cardinality, Cardinality

\* A step is visited exactly if all it depends on is.
LEMMA VisitedSettles == P!Visited = {s \in Steps : deps[s] \subseteq P!Visited} /\ P!Visited \subseteq Steps
<1> DEFINE F == [V \in SUBSET Steps |-> {s \in Steps : deps[s] \subseteq V}]
           Bad == {n \in Nat : ~(Kahn[n] \subseteq Kahn[n + 1])}
<1>1. \A n \in Nat : Kahn[n] \subseteq Kahn[n + 1]
  <2> SUFFICES ASSUME Bad # {} PROVE FALSE
    OBVIOUS
  <2>1. PICK n \in Bad : \A m \in Bad : n <= m
    BY Zenon, Least
  <2>2. n # 0 /\ n \in Nat /\ n - 1 \in Nat /\ (n - 1) + 1 = n /\ n - 1 \notin Bad
    BY <2>1, KahnRounds
  <2>3. Kahn[n - 1] \subseteq Kahn[n]
    BY <2>2
  <2>4. Kahn[n] = {s \in Steps : deps[s] \subseteq Kahn[n - 1]}
    BY <2>2, KahnRounds
  <2>5. Kahn[n + 1] = {s \in Steps : deps[s] \subseteq Kahn[n]}
    BY <2>2, KahnRounds
  <2> QED BY <2>1, <2>3, <2>4, <2>5
<1>2. F[Kahn[Cardinality(Steps)]] = Kahn[Cardinality(Steps)]
  <2>1. PICK f, g : f = F /\ g = Kahn
    OBVIOUS
  <2>2. f \in [SUBSET Steps -> SUBSET Steps] /\ g \in [Nat -> SUBSET Steps]
    BY <2>1, KahnRounds
  <2>3. \A n \in Nat : g[n + 1] = f[g[n]] /\ g[n] \subseteq g[n + 1]
    BY Zenon, <1>1, <2>1, KahnRounds
  <2> HIDE DEF F
  <2>4. f[g[Cardinality(Steps)]] = g[Cardinality(Steps)]
    BY ZenonT(60), <2>2, <2>3, StepsAreFinite, Settles
  <2> QED BY <2>1, <2>4
<1>3. Kahn[Cardinality(Steps)] \in SUBSET Steps
  BY KahnRounds, StepsAreFinite
<1> QED BY <1>2, <1>3, VisitedIsKahn

\* A set in which every step depends on another one of it is not visited.
LEMMA NeverVisited ==
  ASSUME NEW Z \in SUBSET Steps, \A s \in Z : \E d \in deps[s] : d \in Z
  PROVE  Z \cap P!Visited = {}
<1> DEFINE Bad == {n \in Nat : Kahn[n] \cap Z # {}}
<1>1. Bad = {}
  <2> SUFFICES ASSUME Bad # {} PROVE FALSE
    OBVIOUS
  <2>1. PICK n \in Bad : \A m \in Bad : n <= m
    BY Zenon, Least
  <2>2. n # 0 /\ n \in Nat /\ n - 1 \in Nat /\ (n - 1) + 1 = n /\ n - 1 \notin Bad
    BY <2>1, KahnRounds
  <2>3. Kahn[n] = {s \in Steps : deps[s] \subseteq Kahn[n - 1]}
    BY <2>2, KahnRounds
  <2>4. PICK s \in Z : deps[s] \subseteq Kahn[n - 1]
    BY <2>1, <2>3
  <2>5. Kahn[n - 1] \cap Z = {}
    BY <2>2
  <2> QED BY <2>4, <2>5
<1> QED BY <1>1, VisitedIsKahn, StepsAreFinite

\* What a step needs is the least set with its dependencies and theirs.
LEMMA NeedsClosed ==
  ASSUME DepsType, NEW s \in Steps
  PROVE  /\ P!Needs(s) \in SUBSET Steps /\ deps[s] \subseteq P!Needs(s)
         /\ \A d \in P!Needs(s) : deps[d] \subseteq P!Needs(s)
<1> DEFINE F == [V \in SUBSET Steps |-> V \cup UNION {deps[d] : d \in V}]
           N == Cardinality(Steps)
<1>1. deps \in [Steps -> SUBSET Steps]
  BY DEF DepsType
<1>2. F[Reach(s)[N]] = Reach(s)[N]
  <2>1. PICK f, g : f = F /\ g = Reach(s)
    OBVIOUS
  <2>2. f \in [SUBSET Steps -> SUBSET Steps] /\ g \in [Nat -> SUBSET Steps]
    BY <1>1, <2>1, ReachRounds
  <2>3. \A n \in Nat : g[n] \in SUBSET Steps /\ g[n + 1] = g[n] \cup UNION {deps[d] : d \in g[n]}
    BY <2>1, ReachRounds
  <2>4. \A n \in Nat : g[n + 1] = f[g[n]] /\ g[n] \subseteq g[n + 1]
    BY Zenon, <2>1, <2>3
  <2> HIDE DEF F
  <2>5. f[g[N]] = g[N]
    BY ZenonT(60), <2>2, <2>4, StepsAreFinite, Settles
  <2> QED BY <2>1, <2>5
<1>3. Reach(s)[N] \in SUBSET Steps
  BY ReachRounds, StepsAreFinite
<1>4. Reach(s)[N] \cup UNION {deps[d] : d \in Reach(s)[N]} = Reach(s)[N]
  BY <1>2, <1>3
<1>5. \A n \in Nat : deps[s] \subseteq Reach(s)[n]
  <2> DEFINE Bad == {n \in Nat : ~(deps[s] \subseteq Reach(s)[n])}
  <2> SUFFICES ASSUME Bad # {} PROVE FALSE
    OBVIOUS
  <2>1. PICK n \in Bad : \A m \in Bad : n <= m
    BY Zenon, Least
  <2>2. n # 0 /\ n \in Nat /\ n - 1 \in Nat /\ (n - 1) + 1 = n /\ n - 1 \notin Bad
    BY <2>1, ReachRounds
  <2>3. Reach(s)[n] = Reach(s)[n - 1] \cup UNION {deps[d] : d \in Reach(s)[n - 1]}
    BY <2>2, ReachRounds
  <2> QED BY <2>1, <2>2, <2>3
<1> QED BY <1>3, <1>4, <1>5, NeedsIsReach, StepsAreFinite

LEMMA NeedsLeast ==
  ASSUME DepsType, NEW s \in Steps, NEW W \in SUBSET Steps, deps[s] \subseteq W,
         \A d \in W : deps[d] \subseteq W
  PROVE  P!Needs(s) \subseteq W
<1> DEFINE Bad == {n \in Nat : ~(Reach(s)[n] \subseteq W)}
<1>1. Bad = {}
  <2> SUFFICES ASSUME Bad # {} PROVE FALSE
    OBVIOUS
  <2>1. PICK n \in Bad : \A m \in Bad : n <= m
    BY Zenon, Least
  <2>2. n # 0 /\ n \in Nat /\ n - 1 \in Nat /\ (n - 1) + 1 = n /\ n - 1 \notin Bad
    BY <2>1, ReachRounds
  <2>3. Reach(s)[n] = Reach(s)[n - 1] \cup UNION {deps[d] : d \in Reach(s)[n - 1]}
    BY <2>2, ReachRounds
  <2> QED BY <2>1, <2>2, <2>3
<1> QED BY <1>1, NeedsIsReach, StepsAreFinite

\* Who needs something depends on it, or on a step that needs it.
LEMMA NeedsFirst ==
  ASSUME DepsType, NEW s \in Steps, NEW x \in P!Needs(s)
  PROVE  \E d \in deps[s] : d = x \/ x \in P!Needs(d)
<1> DEFINE W == deps[s] \cup UNION {P!Needs(d) : d \in deps[s]}
<1>1. deps[s] \in SUBSET Steps
  BY DEF DepsType
<1>2. W \in SUBSET Steps /\ \A d \in W : deps[d] \subseteq W
  BY <1>1, NeedsClosed
<1>3. x \in W
  BY ZenonT(60), <1>2, NeedsLeast
<1> QED BY <1>3

\* Kahn's algorithm lets a plan through if and only if no step needs itself.
LEMMA ValidIffAcyclic ==
  ASSUME DepsType PROVE P!Valid <=> ~\E s \in Steps : s \in P!Needs(s)
<1>1. ASSUME NEW x \in Steps, x \in P!Needs(x) PROVE ~P!Valid
  <2> DEFINE Z == {s \in Steps : x \in P!Needs(s)}
  <2>1. \A s \in Z : \E d \in deps[s] : d \in Z
    <3> SUFFICES ASSUME NEW s \in Z PROVE \E d \in deps[s] : d \in Z
      OBVIOUS
    <3>1. PICK d \in deps[s] : d = x \/ x \in P!Needs(d)
      BY NeedsFirst
    <3>2. d \in Steps
      BY DEF DepsType
    <3> QED BY <1>1, <3>1, <3>2
  <2>2. Z \cap P!Visited = {}
    <3>1. PICK z \in SUBSET Steps : z = Z
      OBVIOUS
    <3> HIDE DEF Z
    <3> QED BY <2>1, <3>1, NeverVisited
  <2> QED BY <1>1, <2>2 DEF P!Valid
<1>2. ASSUME ~P!Valid PROVE \E s \in Steps : s \in P!Needs(s)
  <2> SUFFICES ASSUME \A s \in Steps : s \notin P!Needs(s) PROVE FALSE
    OBVIOUS
  <2> DEFINE U == Steps \ P!Visited
             Sizes == {Cardinality(P!Needs(u)) : u \in U}
  <2>1. \A s \in Steps : IsFiniteSet(P!Needs(s)) /\ Cardinality(P!Needs(s)) \in Nat
    BY NeedsClosed, StepsAreFinite, FS_Subset, FS_CardinalityType
  <2>2. U # {}
    BY <1>2, VisitedSettles DEF P!Valid
  <2>3. PICK n \in Sizes : \A m \in Sizes : n <= m
    <3>1. PICK z : z = Sizes
      OBVIOUS
    <3>2. z \in SUBSET Nat /\ z # {}
      BY <2>1, <2>2, <3>1
    <3> HIDE DEF Sizes
    <3> QED BY <3>1, <3>2, Least
  <2>4. PICK u \in U : \A v \in U : Cardinality(P!Needs(u)) <= Cardinality(P!Needs(v))
    BY <2>3
  <2>5. PICK d \in deps[u] : d \in U
    <3>1. u \in Steps /\ ~(deps[u] \subseteq P!Visited) /\ deps[u] \subseteq Steps
      BY VisitedSettles DEF DepsType
    <3> QED BY <3>1
  <2>6. P!Needs(d) \in SUBSET P!Needs(u) /\ d \in P!Needs(u) /\ d \notin P!Needs(d)
    <3>1. /\ P!Needs(u) \in SUBSET Steps /\ deps[u] \subseteq P!Needs(u)
          /\ \A e \in P!Needs(u) : deps[e] \subseteq P!Needs(u)
      BY NeedsClosed
    <3>2. d \in Steps /\ d \in P!Needs(u) /\ deps[d] \subseteq P!Needs(u)
      BY <2>5, <3>1
    <3>3. PICK w \in SUBSET Steps : w = P!Needs(u)
      BY <3>1
    <3>4. P!Needs(d) \subseteq w
      BY <3>1, <3>2, <3>3, NeedsLeast
    <3> QED BY <3>2, <3>3, <3>4
  <2>7. Cardinality(P!Needs(d)) < Cardinality(P!Needs(u))
    <3>1. PICK v, w : v = P!Needs(d) /\ w = P!Needs(u)
      OBVIOUS
    <3>2. IsFiniteSet(w) /\ v \in SUBSET w /\ v # w /\ Cardinality(v) \in Nat /\ Cardinality(w) \in Nat
      BY <2>1, <2>5, <2>6, <3>1
    <3>3. Cardinality(v) < Cardinality(w)
      BY <3>2, FS_Subset
    <3> QED BY <3>1, <3>3
  <2> QED BY <2>1, <2>4, <2>5, <2>7
<1> QED BY <1>1, <1>2
-----------------------------------------------------------------------------
\* At most one step waits for a place: no more tasks are under way than have one.
OneWaits == Cardinality(P!Queued \cup P!Busy) <= Concurrency + 1

\* A task that is under way is the one under its step's id, the status says how far it
\* is, and all the step depends on has been completed.
PlanKnown ==
  \A t \in DOMAIN tasks : tasks[t].at # "ended" =>
    /\ pending[tasks[t].step] = t
    /\ status[tasks[t].step] = IF tasks[t].at = "queued" THEN "pending" ELSE "running"
    /\ \A d \in deps[tasks[t].step] : status[d] = "completed"

PlanPhases ==
  /\ execution \in {"new", "rejected"} => producer = "none"
  /\ execution \in {"new", "rejected"} \/ producer = "new" =>
       tasks = <<>> /\ \A s \in Steps : results[s] = "none"
  /\ execution = "new" => \A s \in Steps : status[s] # "running"
  /\ execution \in {"new", "rejected", "running"} => cancels = 0 /\ doomed = {}
  /\ execution \in {"running", "stopping", "aborting"} => verdict = "running" /\ producer # "none"
  /\ producer \in {"new", "waiting"} => execution = "running"
  /\ execution = "stopping" => cancels >= 1
  /\ execution = "aborting" => cancels >= 2
  /\ execution = "over" => \A t \in DOMAIN tasks : tasks[t].at = "ended"

\* While nobody cancelled it: what the tasks do.
PlanTasks ==
  execution = "running" =>
    \A t \in DOMAIN tasks :
      /\ tasks[t].at # "cancelling"
      /\ status[tasks[t].step] = "pending" => tasks[t].at = "queued"
      /\ tasks[t].at # "ended" => producer = "waiting" /\ t \in watched

\* And what becomes of the steps.
PlanSteps ==
  execution = "running" =>
    \A s \in Steps :
      /\ status[s] = "running" =>
           \E t \in DOMAIN tasks : tasks[t].step = s /\ tasks[t].at \notin {"queued", "ended"}
      /\ results[s] = "bad" => status[s] \in {"failed", "cancelled"}
      /\ producer = "ended" => status[s] # "pending"
      /\ status[s] = "cancelled" /\ ~held[s] =>
           producer = "ended" /\ \E d \in deps[s] : status[d] # "completed"

\* A cancellation finds each task where it can be told, and its agent.
PlanDoomed ==
  /\ \A t \in doomed : tasks[t].at # "ended"
  /\ cancels <= 1 =>
       \A t \in DOMAIN tasks :
         /\ tasks[t].agent = "running" => tasks[t].at \in {"waiting", "cancelling"}
         /\ t \in doomed => tasks[t].at # "cancelling"

PlanChecked == execution # "new" => (execution = "rejected" <=> ~P!Valid)

\* The producer looks for ready steps again when one of the watched tasks has ended:
\* then no step waits for a place.
PlanFits == producer = "waiting" => Cardinality(watched) <= Concurrency + 1

PlanCore ==
  /\ P!TypeOK /\ P!EachStepOnce /\ PlanKnown /\ PlanPhases /\ PlanTasks /\ PlanSteps
  /\ PlanDoomed /\ PlanChecked /\ P!SummaryIsJust
PlanInv == PlanCore /\ PlanFits
-----------------------------------------------------------------------------
Ats == {"queued", "spawning", "waiting", "cancelling", "ended"}
AgentStates == {"none", "running", "completed", "failed"}
PlanTask == [step : Steps, at : Ats, agent : AgentStates]
StepStates == {"pending", "running", "completed", "failed", "cancelled"}

LEMMA TaskTypes ==
  ASSUME P!TypeOK
  PROVE  /\ tasks \in Seq(PlanTask) /\ DOMAIN tasks = 1..Len(tasks) /\ Len(tasks) \in Nat
         /\ \A t \in DOMAIN tasks :
              tasks[t] \in PlanTask /\ tasks[t].step \in Steps /\ tasks[t].at \in Ats
              /\ tasks[t].agent \in AgentStates
<1>1. tasks \in Seq(PlanTask)
  BY DEF P!TypeOK, PlanTask, Ats, AgentStates
<1>2. DOMAIN tasks = 1..Len(tasks) /\ Len(tasks) \in Nat /\ \A t \in DOMAIN tasks : tasks[t] \in PlanTask
  BY <1>1
<1> QED BY <1>1, <1>2 DEF PlanTask

\* One task goes on, and the other ones stay where they are.
Moves(t, at, ag) ==
  /\ tasks' \in Seq(PlanTask) /\ DOMAIN tasks' = DOMAIN tasks /\ Len(tasks') = Len(tasks)
  /\ tasks'[t].at = at /\ tasks'[t].agent = ag
  /\ \A u \in DOMAIN tasks : tasks'[u].step = tasks[u].step
  /\ \A u \in DOMAIN tasks : u # t => tasks'[u].at = tasks[u].at /\ tasks'[u].agent = tasks[u].agent

LEMMA OneMoves ==
  ASSUME P!TypeOK, NEW t \in DOMAIN tasks, NEW at \in Ats, NEW ag \in AgentStates, P!SetTask(t, at, ag)
  PROVE  Moves(t, at, ag)
<1>1. tasks \in Seq(PlanTask) /\ tasks[t] \in PlanTask
  BY TaskTypes
<1>2. tasks' = [tasks EXCEPT ![t] = [tasks[t] EXCEPT !.at = at, !.agent = ag]]
  BY Zenon DEF P!SetTask
<1>3. PICK r : r = [tasks[t] EXCEPT !.at = at, !.agent = ag]
  OBVIOUS
<1>4. r \in PlanTask /\ r.at = at /\ r.agent = ag /\ r.step = tasks[t].step
  BY Zenon, <1>1, <1>3 DEF PlanTask
<1>5. tasks' = [tasks EXCEPT ![t] = r]
  BY <1>2, <1>3
<1>6. tasks' \in Seq(PlanTask) /\ DOMAIN tasks' = DOMAIN tasks /\ Len(tasks') = Len(tasks)
  BY <1>1, <1>4, <1>5
<1>7. tasks'[t] = r /\ \A u \in DOMAIN tasks : u # t => tasks'[u] = tasks[u]
  BY <1>5
<1> QED BY <1>4, <1>6, <1>7 DEF Moves

\* A task that is under way goes on to `at'; its step gets status x and result r.
StepsOn(t, at, ag, x, r) ==
  /\ Moves(t, at, ag) /\ tasks[t].at # "ended"
  /\ UNCHANGED <<deps, verdict, execution, producer, watched, cancels, pending>>
  /\ status' = [status EXCEPT ![tasks[t].step] = x] /\ x \in StepStates
  /\ results' = [results EXCEPT ![tasks[t].step] = r] /\ r \in {"none", "ok", "bad"}
  /\ held' \in [Steps -> BOOLEAN] /\ \A s \in Steps : held[s] => held'[s]
  /\ doomed' \subseteq doomed
  /\ t \in doomed' => at # "ended" /\ (cancels <= 1 => at # "cancelling")
  /\ cancels <= 1 /\ ag = "running" => at \in {"waiting", "cancelling"}
  /\ at # "ended" => x = IF at = "queued" THEN "pending" ELSE "running"
  /\ execution = "running" =>
       /\ at # "cancelling" /\ x # "cancelled" /\ (at = "ended" => x \notin {"pending", "running"})
       /\ r = "bad" => x = "failed"

LEMMA StepOn ==
  ASSUME PlanCore, NEW t \in DOMAIN tasks, NEW at, NEW ag, NEW x, NEW r, StepsOn(t, at, ag, x, r)
  PROVE  PlanCore'
<1>1. P!TypeOK /\ P!EachStepOnce /\ PlanKnown /\ PlanPhases /\ PlanTasks /\ PlanSteps
      /\ PlanDoomed /\ PlanChecked
  BY DEF PlanCore
<1>2. /\ DOMAIN tasks' = DOMAIN tasks /\ tasks'[t].at = at /\ tasks'[t].agent = ag
      /\ \A u \in DOMAIN tasks : /\ tasks'[u].step = tasks[u].step /\ tasks[u].step \in Steps
                                 /\ u # t => tasks'[u].at = tasks[u].at /\ tasks'[u].agent = tasks[u].agent
                                 /\ u # t => tasks[u].step # tasks[t].step
  BY <1>1, TaskTypes DEF StepsOn, Moves, P!EachStepOnce
<1>3. /\ status' \in [Steps -> StepStates] /\ status'[tasks[t].step] = x
      /\ results' \in [Steps -> {"none", "ok", "bad"}] /\ results'[tasks[t].step] = r
      /\ \A s \in Steps : s # tasks[t].step => status'[s] = status[s] /\ results'[s] = results[s]
  BY <1>1, <1>2 DEF StepsOn, P!TypeOK, StepStates
<1>4. /\ tasks[t].at # "ended" /\ status[tasks[t].step] \in {"pending", "running"}
      /\ execution \notin {"new", "rejected", "over"} /\ producer # "new" /\ pending[tasks[t].step] = t
  <2>1. tasks # <<>>
    OBVIOUS
  <2> QED BY <1>1, <2>1 DEF StepsOn, PlanKnown, PlanPhases
<1>5. UNCHANGED <<deps, verdict, execution, producer, watched, cancels, pending>>
  BY DEF StepsOn
<1>6. P!TypeOK'
  BY <1>1, <1>2, <1>3, <1>5 DEF StepsOn, Moves, P!TypeOK, PlanTask, Ats, AgentStates, StepStates
<1>7. P!EachStepOnce'
  BY <1>1, <1>2 DEF P!EachStepOnce
<1>8. PlanKnown'
  <2> SUFFICES ASSUME NEW u \in DOMAIN tasks, tasks'[u].at # "ended"
               PROVE  /\ pending[tasks[u].step] = u
                      /\ status'[tasks[u].step] = IF tasks'[u].at = "queued" THEN "pending" ELSE "running"
                      /\ \A d \in deps[tasks[u].step] : status'[d] = "completed"
    BY <1>2, <1>5 DEF PlanKnown
  <2>1. tasks[u].at # "ended"
    BY <1>2, <1>4
  <2>2. \A d \in deps[tasks[u].step] : status[d] = "completed" /\ d \in Steps
    BY <1>1, <1>2, <2>1 DEF PlanKnown, P!TypeOK
  <2>3. \A d \in deps[tasks[u].step] : status'[d] = "completed"
    BY <1>3, <1>4, <2>2
  <2>4. status'[tasks[u].step] = IF tasks'[u].at = "queued" THEN "pending" ELSE "running"
    <3>1. CASE u = t
      BY <1>2, <1>3, <2>1, <3>1 DEF StepsOn
    <3>2. CASE u # t
      BY <1>1, <1>2, <1>3, <2>1, <3>2 DEF PlanKnown
    <3> QED BY <3>1, <3>2
  <2> QED BY <1>1, <2>1, <2>3, <2>4 DEF PlanKnown
<1>9. PlanPhases'
  <2>1. execution = "running" => doomed' = {}
    BY <1>1 DEF PlanPhases, StepsOn
  <2> QED BY <1>1, <1>4, <1>5, <2>1 DEF PlanPhases
<1>10. PlanTasks'
  BY <1>1, <1>2, <1>3, <1>4, <1>5 DEF PlanTasks, StepsOn
<1>11. PlanSteps'
  <2> SUFFICES ASSUME execution = "running", NEW s \in Steps
               PROVE  /\ status'[s] = "running" =>
                           \E u \in DOMAIN tasks : tasks[u].step = s /\ tasks'[u].at \notin {"queued", "ended"}
                      /\ results'[s] = "bad" => status'[s] \in {"failed", "cancelled"}
                      /\ producer # "ended"
                      /\ status'[s] = "cancelled" => held'[s]
    BY <1>2, <1>5 DEF PlanSteps
  <2>1. producer # "ended"
    BY <1>1, <1>4 DEF PlanTasks
  <2>2. at \in {"queued", "ended"} \/ at \notin {"queued", "ended"}
    OBVIOUS
  <2>3. CASE s = tasks[t].step
    BY <1>2, <1>3, <2>1, <2>3 DEF StepsOn
  <2>4. CASE s # tasks[t].step
    <3>1. status'[s] = status[s] /\ results'[s] = results[s] /\ (held[s] => held'[s])
      BY <1>3, <2>4 DEF StepsOn
    <3>2. \A u \in DOMAIN tasks : tasks[u].step = s => tasks'[u].at = tasks[u].at
      BY <1>2, <2>4
    <3> QED BY <1>1, <2>1, <3>1, <3>2 DEF PlanSteps
  <2> QED BY <2>3, <2>4
<1>12. PlanDoomed'
  <2>1. \A u \in doomed' : u \in doomed /\ u \in DOMAIN tasks
    BY <1>1 DEF StepsOn, P!TypeOK
  <2>2. \A u \in doomed' : tasks'[u].at # "ended"
    BY <1>1, <1>2, <2>1 DEF PlanDoomed, StepsOn
  <2>3. ASSUME cancels <= 1, NEW u \in DOMAIN tasks
        PROVE  /\ tasks'[u].agent = "running" => tasks'[u].at \in {"waiting", "cancelling"}
               /\ u \in doomed' => tasks'[u].at # "cancelling"
    BY <1>1, <1>2, <2>1, <2>3 DEF PlanDoomed, StepsOn
  <2> QED BY <1>2, <1>5, <2>2, <2>3 DEF PlanDoomed
<1>13. PlanChecked'
  BY <1>1, <1>5 DEF PlanChecked, P!Valid, P!Visited
<1>14. P!SummaryIsJust'
  BY <1>4, <1>5 DEF P!SummaryIsJust
<1> QED BY <1>6, <1>7, <1>8, <1>9, <1>10, <1>11, <1>12, <1>13, <1>14 DEF PlanCore
\* What is known of a task that is under way.
LEMMA UnderWay ==
  ASSUME PlanCore, NEW t \in DOMAIN tasks, tasks[t].at # "ended"
  PROVE  /\ P!TypeOK /\ tasks[t].step \in Steps /\ tasks[t].at \in Ats /\ tasks[t].agent \in AgentStates
         /\ status[tasks[t].step] = IF tasks[t].at = "queued" THEN "pending" ELSE "running"
         /\ execution \notin {"new", "rejected", "over"}
         /\ execution = "running" =>
              doomed = {} /\ tasks[t].at # "cancelling" /\ results[tasks[t].step] # "bad"
         /\ cancels <= 1 =>
              /\ tasks[t].agent = "running" => tasks[t].at \in {"waiting", "cancelling"}
              /\ t \in doomed => tasks[t].at # "cancelling"
<1>1. P!TypeOK /\ PlanKnown /\ PlanPhases /\ PlanTasks /\ PlanSteps /\ PlanDoomed
  BY DEF PlanCore
<1>2. tasks # <<>>
  OBVIOUS
<1>3. tasks[t].step \in Steps /\ tasks[t].at \in Ats /\ tasks[t].agent \in AgentStates
  BY <1>1, TaskTypes
<1>4. status[tasks[t].step] = IF tasks[t].at = "queued" THEN "pending" ELSE "running"
  BY <1>1 DEF PlanKnown
<1> QED BY <1>1, <1>2, <1>3, <1>4 DEF PlanPhases, PlanTasks, PlanSteps, PlanDoomed

\* A step of a task that leaves the status, the results and who is cancelled.
LEMMA StatusStays ==
  ASSUME P!TypeOK, NEW s \in Steps
  PROVE  /\ UNCHANGED status => status' = [status EXCEPT ![s] = status[s]]
         /\ UNCHANGED results => results' = [results EXCEPT ![s] = results[s]]
         /\ status[s] \in StepStates /\ results[s] \in {"none", "ok", "bad"}
  BY DEF P!TypeOK, StepStates

LEMMA StartStep ==
  ASSUME PlanCore, NEW t \in DOMAIN tasks, P!Start(t) PROVE PlanCore'
<1>1. tasks[t].at = "queued"
  BY DEF P!Start, P!CanStart, P!Queued
<1>2. P!SetTask(t, "spawning", tasks[t].agent)
  BY DEF P!Start, P!SetAt
<1>3. PICK ag, r : ag = tasks[t].agent /\ r = results[tasks[t].step]
  OBVIOUS
<1>4. Moves(t, "spawning", ag)
  BY <1>1, <1>2, <1>3, UnderWay, OneMoves DEF Ats
<1>5. StepsOn(t, "spawning", ag, "running", r)
  <2>1. /\ status' = [status EXCEPT ![tasks[t].step] = "running"]
        /\ UNCHANGED <<deps, held, results, verdict, execution, producer, watched, cancels, pending, doomed>>
    BY DEF P!Start, P!control
  <2>2. held \in [Steps -> BOOLEAN]
    BY <1>1, UnderWay DEF P!TypeOK
  <2> QED BY Zenon, <1>1, <1>3, <1>4, <2>1, <2>2, UnderWay, StatusStays DEF StepsOn, StepStates
<1> QED BY <1>5, StepOn

LEMMA SpawnedStep ==
  ASSUME PlanCore, NEW t \in DOMAIN tasks, P!Spawned(t) PROVE PlanCore'
<1>1. tasks[t].at = "spawning" /\ t \notin doomed
  BY DEF P!Spawned
<1>2. P!SetTask(t, "waiting", "running")
  BY DEF P!Spawned
<1>3. PICK x, r : x = status[tasks[t].step] /\ r = results[tasks[t].step]
  OBVIOUS
<1>4. Moves(t, "waiting", "running")
  BY <1>1, <1>2, UnderWay, OneMoves DEF Ats, AgentStates
<1>5. StepsOn(t, "waiting", "running", x, r)
  <2>1. /\ held' = [held EXCEPT ![tasks[t].step] = TRUE]
        /\ UNCHANGED <<deps, status, results, verdict, execution, producer, watched, cancels, pending, doomed>>
    BY DEF P!Spawned, P!control
  <2>2. held' \in [Steps -> BOOLEAN] /\ \A s \in Steps : held[s] => held'[s]
    BY <1>1, <2>1, UnderWay DEF P!TypeOK
  <2> QED BY <1>1, <1>3, <1>4, <2>1, <2>2, UnderWay, StatusStays DEF StepsOn, StepStates
<1> QED BY <1>5, StepOn

LEMMA SettleStep ==
  ASSUME PlanCore, NEW t \in DOMAIN tasks, NEW x \in {"completed", "failed"}, t \notin doomed,
         tasks[t].at = "spawning" \/ (tasks[t].at = "waiting" /\ tasks[t].agent \in {"completed", "failed"}),
         P!Settle(t, x)
  PROVE  PlanCore'
<1>1. P!SetTask(t, "ended", tasks[t].agent)
  BY DEF P!Settle, P!SetAt
<1>2. PICK ag, r : ag = tasks[t].agent /\ r = IF x = "completed" THEN "ok" ELSE "bad"
  OBVIOUS
<1>3. Moves(t, "ended", ag)
  BY <1>1, <1>2, UnderWay, OneMoves DEF Ats
<1>4. StepsOn(t, "ended", ag, x, r)
  <2>1. /\ status' = [status EXCEPT ![tasks[t].step] = x]
        /\ results' = [results EXCEPT ![tasks[t].step] = IF x = "completed" THEN "ok" ELSE "bad"]
        /\ UNCHANGED <<deps, held, verdict, execution, producer, watched, cancels, pending, doomed>>
    BY DEF P!Settle, P!control
  <2>2. results' = [results EXCEPT ![tasks[t].step] = r]
    BY <1>2, <2>1
  <2>3. held \in [Steps -> BOOLEAN]
    BY UnderWay DEF P!TypeOK
  <2> QED BY <1>2, <1>3, <2>1, <2>2, <2>3, UnderWay DEF StepsOn, StepStates
<1> QED BY <1>4, StepOn

LEMMA EndsStep ==
  ASSUME PlanCore, NEW t \in DOMAIN tasks, P!SpawnFails(t) \/ P!Answered(t) PROVE PlanCore'
<1>1. CASE P!SpawnFails(t)
  BY <1>1, SettleStep DEF P!SpawnFails
<1>2. CASE P!Answered(t)
  <2>1. PICK x : x = tasks[t].agent
    OBVIOUS
  <2>2. x \in {"completed", "failed"} /\ P!Settle(t, x) /\ tasks[t].at = "waiting" /\ t \notin doomed
    BY <1>2, <2>1 DEF P!Answered
  <2> QED BY <2>1, <2>2, SettleStep
<1> QED BY <1>1, <1>2

LEMMA UnwindTaskStep ==
  ASSUME PlanCore, NEW t \in DOMAIN tasks, P!Unwind(t) PROVE PlanCore'
<1>1. t \in doomed /\ tasks[t].at # "ended"
  BY DEF P!Unwind, PlanCore, PlanDoomed
<1>2. PICK at, ag, x, r : /\ at = IF tasks[t].at = "waiting" THEN "cancelling" ELSE "ended"
                          /\ ag = tasks[t].agent /\ r = results[tasks[t].step]
                          /\ x = IF tasks[t].at = "spawning" THEN "cancelled" ELSE status[tasks[t].step]
  OBVIOUS
<1>3. P!SetTask(t, at, ag)
  BY <1>2 DEF P!Unwind, P!SetAt
<1>4. Moves(t, at, ag)
  BY <1>1, <1>2, <1>3, UnderWay, OneMoves DEF Ats
<1>5. StepsOn(t, at, ag, x, r)
  <2>1. /\ doomed' = doomed \ {t}
        /\ UNCHANGED <<deps, held, results, verdict, execution, producer, watched, cancels, pending>>
    BY DEF P!Unwind, P!control
  <2>2. status' = [status EXCEPT ![tasks[t].step] = x] /\ x \in StepStates
    BY Zenon, <1>1, <1>2, UnderWay, StatusStays DEF P!Unwind, StepStates
  <2>3. held \in [Steps -> BOOLEAN]
    BY <1>1, UnderWay DEF P!TypeOK
  <2>4. execution # "running"
    BY <1>1, UnderWay
  <2> QED BY Zenon, <1>1, <1>2, <1>4, <2>1, <2>2, <2>3, <2>4, UnderWay, StatusStays DEF StepsOn
<1> QED BY <1>5, StepOn

LEMMA AgentCancelledStep ==
  ASSUME PlanCore, NEW t \in DOMAIN tasks, P!AgentCancelled(t) PROVE PlanCore'
<1>1. tasks[t].at = "cancelling" /\ t \notin doomed
  BY DEF P!AgentCancelled
<1>2. PICK ag, r : /\ ag = IF tasks[t].agent = "running" THEN "failed" ELSE tasks[t].agent
                   /\ r = results[tasks[t].step]
  OBVIOUS
<1>3. P!SetTask(t, "ended", ag)
  BY <1>2 DEF P!AgentCancelled
<1>4. ag \in AgentStates /\ ag # "running"
  BY <1>1, <1>2, UnderWay DEF AgentStates
<1>5. Moves(t, "ended", ag)
  BY <1>1, <1>3, <1>4, UnderWay, OneMoves DEF Ats
<1>6. StepsOn(t, "ended", ag, "cancelled", r)
  <2>1. /\ status' = [status EXCEPT ![tasks[t].step] = "cancelled"]
        /\ UNCHANGED <<deps, held, results, verdict, execution, producer, watched, cancels, pending, doomed>>
    BY DEF P!AgentCancelled, P!control
  <2>2. held \in [Steps -> BOOLEAN]
    BY <1>1, UnderWay DEF P!TypeOK
  <2> QED BY Zenon, <1>1, <1>2, <1>4, <1>5, <2>1, <2>2, UnderWay, StatusStays DEF StepsOn, StepStates
<1> QED BY <1>6, StepOn

LEMMA AgentEndsStep ==
  ASSUME PlanCore, NEW t \in DOMAIN tasks, P!AgentEnds(t) PROVE PlanCore'
<1>1. PICK ag \in {"completed", "failed"} : P!SetTask(t, tasks[t].at, ag)
  BY DEF P!AgentEnds
<1>2. /\ P!TypeOK /\ P!EachStepOnce /\ PlanKnown /\ PlanPhases /\ PlanTasks /\ PlanSteps
      /\ PlanDoomed /\ PlanChecked /\ P!SummaryIsJust
  BY DEF PlanCore
<1>3. PICK at : at = tasks[t].at
  OBVIOUS
<1>4. Moves(t, at, ag)
  BY <1>1, <1>2, <1>3, TaskTypes, OneMoves DEF AgentStates
<1>5. /\ tasks' \in Seq(PlanTask) /\ DOMAIN tasks' = DOMAIN tasks /\ Len(tasks') = Len(tasks)
      /\ tasks # <<>> /\ tasks'[t].agent = ag
      /\ \A u \in DOMAIN tasks : tasks'[u].step = tasks[u].step /\ tasks'[u].at = tasks[u].at
      /\ \A u \in DOMAIN tasks : u # t => tasks'[u].agent = tasks[u].agent
  BY <1>3, <1>4 DEF Moves
<1>6. UNCHANGED <<deps, status, held, results, verdict, execution, producer, watched, cancels, pending, doomed>>
  BY DEF P!AgentEnds, P!plan, P!control
<1>7. P!TypeOK'
  BY <1>2, <1>5, <1>6 DEF P!TypeOK, PlanTask, Ats, AgentStates
<1>8. P!EachStepOnce' /\ PlanKnown'
  BY <1>2, <1>5, <1>6 DEF P!EachStepOnce, PlanKnown
<1>9. PlanPhases' /\ PlanTasks'
  BY <1>2, <1>5, <1>6 DEF PlanPhases, PlanTasks
<1>10. PlanSteps' /\ PlanDoomed'
  <2>1. PlanSteps'
    BY <1>2, <1>5, <1>6 DEF PlanSteps
  <2>2. ASSUME cancels <= 1, NEW u \in DOMAIN tasks
        PROVE  /\ tasks'[u].agent = "running" => tasks'[u].at \in {"waiting", "cancelling"}
               /\ u \in doomed => tasks'[u].at # "cancelling"
    BY <1>2, <1>5, <2>2 DEF PlanDoomed
  <2>3. \A u \in doomed : u \in DOMAIN tasks /\ tasks[u].at # "ended"
    BY <1>2 DEF PlanDoomed, P!TypeOK
  <2> QED BY <1>5, <1>6, <2>1, <2>2, <2>3 DEF PlanDoomed
<1>11. PlanChecked' /\ P!SummaryIsJust'
  BY <1>2, <1>6 DEF PlanChecked, P!Valid, P!Visited, P!SummaryIsJust
<1> QED BY <1>7, <1>8, <1>9, <1>10, <1>11 DEF PlanCore
LEMMA PlanInit == P!Init => PlanInv
<1> SUFFICES ASSUME P!Init PROVE PlanInv
  OBVIOUS
<1>1. /\ tasks = <<>> /\ execution = "new" /\ producer = "none" /\ cancels = 0 /\ doomed = {}
      /\ watched = {} /\ verdict = "pending" /\ pending = [s \in Steps |-> 0]
      /\ results = [s \in Steps |-> "none"] /\ deps \in [Steps -> SUBSET Steps]
  BY DEF P!Init
<1>2. /\ status \in [Steps -> {"pending", "completed", "failed", "cancelled"}]
      /\ held \in [Steps -> BOOLEAN]
  <2>1. PICK w \in [Steps -> {<<"pending", FALSE>>, <<"failed", FALSE>>, <<"completed", TRUE>>, <<"cancelled", TRUE>>}] :
          status = [s \in Steps |-> w[s][1]] /\ held = [s \in Steps |-> w[s][2]]
    BY Zenon DEF P!Init
  <2>2. ASSUME NEW s \in Steps
        PROVE  w[s][1] \in {"pending", "completed", "failed", "cancelled"} /\ w[s][2] \in BOOLEAN
    <3>1. \/ w[s] = <<"pending", FALSE>> \/ w[s] = <<"failed", FALSE>>
          \/ w[s] = <<"completed", TRUE>> \/ w[s] = <<"cancelled", TRUE>>
      OBVIOUS
    <3>2. /\ <<"pending", FALSE>>[1] = "pending" /\ <<"failed", FALSE>>[1] = "failed"
          /\ <<"completed", TRUE>>[1] = "completed" /\ <<"cancelled", TRUE>>[1] = "cancelled"
      OBVIOUS
    <3>3. /\ <<"pending", FALSE>>[2] = FALSE /\ <<"failed", FALSE>>[2] = FALSE
          /\ <<"completed", TRUE>>[2] = TRUE /\ <<"cancelled", TRUE>>[2] = TRUE
      OBVIOUS
    <3>4. w[s][1] \in {"pending", "completed", "failed", "cancelled"}
      BY Zenon, <3>1, <3>2
    <3>5. w[s][2] \in BOOLEAN
      BY Zenon, <3>1, <3>3
    <3> QED BY <3>4, <3>5
  <2> QED BY <2>1, <2>2
<1>3. DOMAIN tasks = {} /\ Len(tasks) = 0
  BY <1>1
<1>4. P!TypeOK
  <2>1. MaxTasks \in Nat /\ MaxCancels \in Nat
    BY BoundsAssumption DEF P!BoundsOK
  <2> QED BY <1>1, <1>2, <1>3, <2>1 DEF P!TypeOK
<1>5. P!EachStepOnce /\ PlanKnown /\ PlanTasks /\ PlanSteps
  BY <1>1, <1>3 DEF P!EachStepOnce, PlanKnown, PlanTasks, PlanSteps
<1>6. PlanPhases
  BY <1>1, <1>2 DEF PlanPhases
<1>7. PlanDoomed /\ PlanChecked /\ P!SummaryIsJust /\ PlanFits
  BY <1>1, <1>3 DEF PlanDoomed, PlanChecked, P!SummaryIsJust, PlanFits
<1> QED BY <1>4, <1>5, <1>6, <1>7 DEF PlanInv, PlanCore

LEMMA ExecuteStep == PlanCore /\ P!Execute => PlanCore'
<1> SUFFICES ASSUME PlanCore, P!Execute PROVE PlanCore'
  OBVIOUS
<1>1. P!TypeOK /\ PlanPhases /\ execution = "new" /\ tasks = <<>> /\ DOMAIN tasks = {} /\ cancels = 0 /\ doomed = {}
  BY DEF PlanCore, P!Execute, PlanPhases
<1>2. UNCHANGED <<deps, held, results, watched, cancels, tasks, pending, doomed>>
  BY DEF P!Execute, P!work
<1>3. \/ /\ P!Valid /\ execution' = "running" /\ producer' = "new" /\ verdict' = "running"
         /\ status' = [s \in Steps |-> IF held[s] THEN status[s] ELSE "pending"]
      \/ ~P!Valid /\ execution' = "rejected" /\ UNCHANGED <<producer, verdict, status>>
  BY DEF P!Execute
<1>4. P!TypeOK'
  BY <1>1, <1>2, <1>3 DEF P!TypeOK
<1>5. P!EachStepOnce' /\ PlanKnown' /\ PlanTasks' /\ PlanDoomed' /\ P!SummaryIsJust'
  BY <1>1, <1>2, <1>3 DEF P!EachStepOnce, PlanKnown, PlanTasks, PlanDoomed, P!SummaryIsJust
<1>6. PlanPhases'
  BY <1>1, <1>2, <1>3 DEF PlanPhases
<1>7. PlanSteps'
  BY <1>1, <1>2, <1>3 DEF PlanPhases, PlanSteps
<1>8. PlanChecked'
  <2>1. P!Valid' = P!Valid
    BY <1>2 DEF P!Valid, P!Visited
  <2> QED BY <1>3, <2>1 DEF PlanChecked
<1> QED BY <1>4, <1>5, <1>6, <1>7, <1>8 DEF PlanCore

LEMMA CancelStep == PlanCore /\ (P!Cancel \/ P!CancelAgain) => PlanCore'
<1> SUFFICES ASSUME PlanCore, P!Cancel \/ P!CancelAgain PROVE PlanCore'
  OBVIOUS
<1>1. /\ P!TypeOK /\ P!EachStepOnce /\ PlanKnown /\ PlanPhases /\ PlanTasks /\ PlanSteps
      /\ PlanDoomed /\ PlanChecked
  BY DEF PlanCore
<1>2. /\ UNCHANGED <<deps, status, held, results, verdict, watched, tasks, pending>>
      /\ execution \in {"running", "stopping", "aborting"} /\ execution' \in {"stopping", "aborting"}
      /\ doomed' = P!Live /\ cancels' = cancels + 1 /\ cancels < MaxCancels
      /\ execution' = "stopping" <=> execution = "running"
      /\ producer' = IF execution = "running" THEN "ended" ELSE producer
  BY DEF P!Cancel, P!CancelAgain, P!plan
<1>3. cancels \in Nat /\ MaxCancels \in Nat
  BY <1>1, BoundsAssumption DEF P!TypeOK, P!BoundsOK
<1>4. P!Live \subseteq DOMAIN tasks /\ \A t \in P!Live : tasks[t].at # "ended"
  BY DEF P!Live
<1>5. P!TypeOK'
  BY <1>1, <1>2, <1>3, <1>4 DEF P!TypeOK
<1>6. P!EachStepOnce' /\ PlanKnown' /\ PlanTasks' /\ PlanSteps' /\ P!SummaryIsJust'
  BY <1>1, <1>2 DEF P!EachStepOnce, PlanKnown, PlanTasks, PlanSteps, P!SummaryIsJust
<1>7. PlanPhases'
  BY <1>1, <1>2, <1>3 DEF PlanPhases
<1>8. PlanDoomed'
  <2>1. cancels' <= 1 => execution = "running" /\ cancels = 0
    BY <1>1, <1>2, <1>3 DEF PlanPhases
  <2> QED BY <1>1, <1>2, <1>3, <1>4, <2>1 DEF PlanDoomed, PlanTasks
<1>9. PlanChecked'
  BY <1>1, <1>2 DEF PlanChecked, P!Valid, P!Visited
<1> QED BY <1>5, <1>6, <1>7, <1>8, <1>9 DEF PlanCore

\* The execution ends when every task has.
LEMMA OverStep ==
  ASSUME PlanCore, \A t \in DOMAIN tasks : tasks[t].at = "ended",
         execution \in {"running", "stopping", "aborting"}, execution' = "over", producer = "ended",
         UNCHANGED <<deps, held, results, producer, watched, cancels, tasks, pending, doomed>>,
         status' \in [Steps -> StepStates], verdict' \in {"running", "completed", "failed"}
  PROVE  /\ P!TypeOK' /\ P!EachStepOnce' /\ PlanKnown' /\ PlanPhases' /\ PlanTasks' /\ PlanSteps'
         /\ PlanDoomed' /\ PlanChecked'
<1>1. P!TypeOK /\ P!EachStepOnce /\ PlanPhases /\ PlanDoomed /\ PlanChecked
  BY DEF PlanCore
<1>2. P!TypeOK'
  BY <1>1 DEF P!TypeOK, StepStates
<1>3. P!EachStepOnce' /\ PlanKnown' /\ PlanPhases' /\ PlanTasks' /\ PlanSteps' /\ PlanDoomed'
  BY <1>1 DEF P!EachStepOnce, PlanKnown, PlanPhases, PlanTasks, PlanSteps, PlanDoomed
<1>4. PlanChecked'
  BY <1>1 DEF PlanChecked, P!Valid, P!Visited
<1> QED BY <1>1, <1>2, <1>3, <1>4

LEMMA FinishStep == PlanCore /\ P!Finish => PlanCore'
<1> SUFFICES ASSUME PlanCore, P!Finish PROVE PlanCore'
  OBVIOUS
<1>1. P!TypeOK /\ PlanTasks /\ PlanSteps /\ execution = "running" /\ producer = "ended"
  BY DEF PlanCore, P!Finish
<1>2. /\ UNCHANGED <<deps, held, results, producer, watched, cancels, tasks, pending, doomed>>
      /\ execution' = "over" /\ status' = P!Swept
      /\ verdict' = IF \E s \in Steps : P!Swept[s] \in {"failed", "cancelled"} THEN "failed" ELSE "completed"
  BY DEF P!Finish, P!work
<1>3. \A t \in DOMAIN tasks : tasks[t].at = "ended"
  BY <1>1 DEF PlanTasks
<1>4. \A s \in Steps : /\ status[s] \in {"completed", "failed", "cancelled"}
                       /\ status[s] = "cancelled" /\ ~held[s] => \E d \in deps[s] : status[d] # "completed"
  BY Zenon, <1>1, <1>3 DEF P!TypeOK, PlanSteps
<1>5. P!Swept = status
  BY <1>1, <1>4 DEF P!Swept, P!TypeOK
<1>6. P!SummaryIsJust'
  BY <1>2, <1>4, <1>5 DEF P!SummaryIsJust
<1>7. status' \in [Steps -> StepStates] /\ verdict' \in {"running", "completed", "failed"}
  BY <1>1, <1>2, <1>5 DEF P!TypeOK, StepStates
<1> QED BY <1>1, <1>2, <1>3, <1>6, <1>7, OverStep DEF PlanCore

LEMMA StoppedStep == PlanCore /\ P!Stopped => PlanCore'
<1> SUFFICES ASSUME PlanCore, P!Stopped PROVE PlanCore'
  OBVIOUS
<1>1. P!TypeOK /\ PlanKnown /\ PlanPhases /\ execution \in {"stopping", "aborting"} /\ P!Live = {}
  BY DEF PlanCore, P!Stopped
<1>2. /\ UNCHANGED <<deps, held, results, verdict, producer, watched, cancels, tasks, pending, doomed>>
      /\ execution' = "over" /\ status' = IF execution = "stopping" THEN P!Swept ELSE status
  BY DEF P!Stopped, P!work
<1>3. \A t \in DOMAIN tasks : tasks[t].at = "ended"
  BY <1>1 DEF PlanKnown, P!Live
<1>4. verdict = "running" /\ producer = "ended"
  BY <1>1 DEF PlanPhases, P!TypeOK
<1>5. status' \in [Steps -> StepStates]
  BY <1>1, <1>2 DEF P!TypeOK, P!Swept, StepStates
<1>6. P!SummaryIsJust'
  BY <1>2, <1>4 DEF P!SummaryIsJust
<1> QED BY <1>1, <1>2, <1>3, <1>4, <1>5, <1>6, OverStep DEF PlanCore
-----------------------------------------------------------------------------
\* The numbers of a finite set are counted from 1.
LEMMA Numbered ==
  ASSUME NEW S \in SUBSET Nat, IsFiniteSet(S)
  PROVE  /\ Cardinality(S) \in Nat
         /\ \A s \in S : Cardinality({r \in S : r <= s}) \in 1..Cardinality(S)
         /\ \A s, u \in S : s # u => Cardinality({r \in S : r <= s}) # Cardinality({r \in S : r <= u})
         /\ \A i \in 1..Cardinality(S) : \E s \in S : Cardinality({r \in S : r <= s}) = i
<1> DEFINE Low(s) == {r \in S : r <= s}
           f == [s \in S |-> Cardinality(Low(s))]
<1>1. \A s \in S : IsFiniteSet(Low(s)) /\ Cardinality(Low(s)) \in Nat /\ Cardinality(Low(s)) <= Cardinality(S)
  BY FS_Subset, FS_CardinalityType
<1>2. Cardinality(S) \in Nat
  BY FS_CardinalityType
<1>3. \A s \in S : Cardinality(Low(s)) # 0
  <2> SUFFICES ASSUME NEW s \in S PROVE Cardinality(Low(s)) # 0
    OBVIOUS
  <2>1. Low(s) # {}
    OBVIOUS
  <2> QED BY <1>1, <2>1, FS_EmptySet
<1>4. ASSUME NEW s \in S, NEW u \in S, s < u PROVE Cardinality(Low(s)) < Cardinality(Low(u))
  <2>1. Low(s) \in SUBSET Low(u) /\ u \in Low(u) /\ u \notin Low(s)
    <3>1. s \in Nat /\ u \in Nat /\ \A r \in S : r \in Nat
      OBVIOUS
    <3>2. \A r \in S : r <= s => r <= u
      BY <1>4, <3>1
    <3>3. u <= u /\ ~(u <= s)
      BY <1>4, <3>1
    <3> QED BY Zenon, <3>2, <3>3
  <2>2. Low(s) # Low(u)
    BY <2>1
  <2> QED BY <1>1, <2>1, <2>2, FS_Subset
<1>5. \A s, u \in S : s # u => Cardinality(Low(s)) # Cardinality(Low(u))
  <2> SUFFICES ASSUME NEW s \in S, NEW u \in S, s # u PROVE Cardinality(Low(s)) # Cardinality(Low(u))
    OBVIOUS
  <2>1. s < u \/ u < s
    OBVIOUS
  <2> QED BY <1>1, <1>4, <2>1
<1>6. \A s \in S : Cardinality(Low(s)) \in 1..Cardinality(S)
  BY <1>1, <1>2, <1>3
<1>7. \A i \in 1..Cardinality(S) : \E s \in S : Cardinality(Low(s)) = i
  <2>1. PICK N \in Nat : N = Cardinality(S)
    BY <1>2
  <2>2. f \in Injection(S, 1..N)
    BY Zenon, <1>5, <1>6, <2>1 DEF Injection, IsInjective
  <2>3. IsFiniteSet(1..N) /\ Cardinality(1..N) = N
    BY FS_Interval
  <2>4. f \in Surjection(S, 1..N)
    <3> HIDE DEF f
    <3> QED BY <2>1, <2>2, <2>3, FS_Injection
  <2> QED BY Zenon, <2>1, <2>4 DEF Surjection
<1> QED BY <1>2, <1>5, <1>6, <1>7

\* The producer only looks for ready steps when no step waits for a place.
LEMMA NobodyWaits ==
  ASSUME PlanInv, P!Produce
  PROVE  \A t \in DOMAIN tasks : tasks[t].at # "queued"
<1>1. P!TypeOK /\ PlanKnown /\ PlanPhases /\ PlanTasks /\ PlanFits
  BY DEF PlanInv, PlanCore
<1>2. execution = "running" /\ doomed = {} /\ \A t \in DOMAIN tasks : ~P!CanStart(t)
  BY <1>1 DEF P!Produce, PlanPhases
<1>3. CASE producer = "new"
  BY <1>1, <1>3 DEF PlanPhases
<1>4. CASE producer = "waiting" /\ \E t \in watched : tasks[t].at = "ended"
  <2> SUFFICES ASSUME P!Queued # {} PROVE FALSE
    BY <1>2 DEF P!Queued
  <2>1. PICK e \in watched : tasks[e].at = "ended"
    BY <1>4
  <2>2. PICK Q, B, W : Q = P!Queued /\ B = P!Busy /\ W = watched
    OBVIOUS
  <2>3. DOMAIN tasks = 1..Len(tasks) /\ Len(tasks) \in Nat
    BY <1>1, TaskTypes
  <2>4. IsFiniteSet(W) /\ W \subseteq 1..Len(tasks)
    <3>1. W \in SUBSET (1..Len(tasks)) /\ IsFiniteSet(1..Len(tasks))
      BY <1>1, <2>2, <2>3, FS_Interval DEF P!TypeOK
    <3>2. PICK D : D = 1..Len(tasks)
      OBVIOUS
    <3> QED BY Zenon, <3>1, <3>2, FS_Subset
  <2>5. Q \subseteq W \ {e} /\ B \subseteq W \ {e} /\ Q \cap B = {} /\ Q \subseteq Nat /\ Q # {}
    BY <1>1, <1>2, <2>1, <2>2, <2>3 DEF P!Queued, P!Busy, PlanTasks
  <2>6. PICK t \in Q : \A u \in Q : t <= u
    BY <2>5, Least
  <2>7. ~(P!Cardinality(P!Busy) < Concurrency)
    BY <1>2, <2>2, <2>6 DEF P!CanStart, P!Queued
  <2>8. Cardinality(B) >= Concurrency /\ Concurrency \in Nat /\ Cardinality(B) \in Nat
    <3>1. P!Cardinality(P!Busy) = Cardinality(B)
      BY <2>2 DEF P!Cardinality, Cardinality
    <3>2. B \in SUBSET W
      BY <2>5
    <3>3. Cardinality(B) \in Nat
      BY Zenon, <2>4, <3>2, FS_Subset, FS_CardinalityType
    <3> QED BY <2>7, <3>1, <3>3, BoundsAssumption DEF P!BoundsOK
  <2>9. Cardinality((B \cup {t}) \cup {e}) = Cardinality(B) + 2
    <3>1. IsFiniteSet(B) /\ t \notin B /\ e \notin B \cup {t}
      <4>1. B \in SUBSET W
        BY <2>5
      <4>2. IsFiniteSet(B)
        BY Zenon, <2>4, <4>1, FS_Subset
      <4> QED BY Zenon, <2>5, <2>6, <4>2
    <3>2. IsFiniteSet(B \cup {t}) /\ Cardinality(B \cup {t}) = Cardinality(B) + 1
      BY <3>1, FS_AddElement
    <3>3. Cardinality((B \cup {t}) \cup {e}) = Cardinality(B) + 1 + 1
      BY Zenon, <3>1, <3>2, FS_AddElement
    <3> QED BY <2>8, <3>3
  <2>10. Cardinality((B \cup {t}) \cup {e}) <= Cardinality(W) /\ Cardinality(W) \in Nat
    <3>1. (B \cup {t}) \cup {e} \in SUBSET W
      BY <2>1, <2>2, <2>5, <2>6
    <3>2. Cardinality(W) \in Nat
      BY <2>4, FS_CardinalityType
    <3>3. PICK V : V = (B \cup {t}) \cup {e}
      OBVIOUS
    <3>4. Cardinality(V) <= Cardinality(W)
      BY <2>4, <3>1, <3>3, FS_Subset
    <3> QED BY <3>2, <3>3, <3>4
  <2>11. Cardinality(W) <= Concurrency + 1
    BY <1>1, <1>4, <2>2 DEF PlanFits
  <2> QED BY <2>8, <2>9, <2>10, <2>11
<1> QED BY <1>3, <1>4 DEF P!Produce
\* What the producer does, step by step.
LEMMA ReadyOnes ==
  ASSUME PlanInv, P!Produce
  PROVE  /\ execution = "running" /\ doomed = {} /\ P!Barred = {} /\ P!Launching = P!Ready
         /\ P!Launching \in SUBSET Steps
         /\ \A s \in P!Launching : status[s] = "pending"
         /\ \A t \in DOMAIN tasks : tasks[t].step \notin P!Launching /\ status[tasks[t].step] # "pending"
<1>1. P!TypeOK /\ PlanPhases /\ PlanTasks /\ PlanSteps
  BY DEF PlanInv, PlanCore
<1>2. execution = "running" /\ doomed = {}
  BY <1>1 DEF P!Produce, PlanPhases
<1>3. P!Barred = {}
  <2> SUFFICES ASSUME NEW s \in P!Barred PROVE FALSE
    OBVIOUS
  <2>1. PICK d \in deps[s] : status[d] = "completed" /\ results[d] = "bad" /\ s \in Steps
    BY DEF P!Barred, P!Ready
  <2>2. d \in Steps
    BY <1>1, <2>1 DEF P!TypeOK
  <2> QED BY <1>1, <1>2, <2>1, <2>2 DEF PlanSteps
<1>4. \A s \in P!Ready : s \in Steps /\ status[s] = "pending"
  BY DEF P!Ready
<1>5. \A t \in DOMAIN tasks : status[tasks[t].step] # "pending"
  BY <1>1, <1>2, NobodyWaits DEF PlanTasks
<1> QED BY <1>2, <1>3, <1>4, <1>5 DEF P!Launching

LEMMA Placed ==
  ASSUME PlanInv, P!Produce
  PROVE  /\ P!Cardinality(P!Launching) \in Nat
         /\ \A s \in P!Launching : P!Place(s) \in Len(tasks) + 1..Len(tasks) + P!Cardinality(P!Launching)
         /\ \A s, u \in P!Launching : s # u => P!Place(s) # P!Place(u)
         /\ \A i \in Len(tasks) + 1..Len(tasks) + P!Cardinality(P!Launching) :
              \E s \in P!Launching : P!Place(s) = i
<1>1. PICK K, n : K = P!Launching /\ n = Len(tasks)
  OBVIOUS
<1>2. K \in SUBSET Nat /\ IsFiniteSet(K) /\ n \in Nat
  <2>1. K \in SUBSET Steps /\ IsFiniteSet(Steps) /\ Steps \subseteq Nat
    BY <1>1, ReadyOnes, StepsAreFinite
  <2>2. n \in Nat
    BY <1>1, TaskTypes DEF PlanInv, PlanCore
  <2> QED BY Zenon, <2>1, <2>2, FS_Subset
<1>3. P!Cardinality(P!Launching) = Cardinality(K)
  BY <1>1 DEF P!Cardinality, Cardinality
<1>4. \A s : P!Place(s) = n + Cardinality({r \in K : r <= s})
  BY <1>1 DEF P!Place, P!Cardinality, Cardinality
<1>5. Cardinality(K) \in Nat
  BY <1>2, Numbered
<1>6. ASSUME NEW s \in K PROVE P!Place(s) \in n + 1..n + Cardinality(K)
  <2>1. Cardinality({r \in K : r <= s}) \in 1..Cardinality(K)
    BY <1>2, Numbered
  <2> QED BY <1>2, <1>4, <1>5, <2>1
<1>7. ASSUME NEW s \in K, NEW u \in K, s # u PROVE P!Place(s) # P!Place(u)
  <2>1. /\ Cardinality({r \in K : r <= s}) \in 1..Cardinality(K)
        /\ Cardinality({r \in K : r <= u}) \in 1..Cardinality(K)
        /\ Cardinality({r \in K : r <= s}) # Cardinality({r \in K : r <= u})
    BY <1>2, <1>7, Numbered
  <2> QED BY <1>2, <1>4, <1>5, <2>1
<1>8. ASSUME NEW i \in n + 1..n + Cardinality(K) PROVE \E s \in K : P!Place(s) = i
  <2>1. i - n \in 1..Cardinality(K)
    BY <1>2, <1>5
  <2>2. PICK s \in K : Cardinality({r \in K : r <= s}) = i - n
    BY <1>2, <2>1, Numbered
  <2> QED BY <1>2, <1>4, <2>2
<1> QED BY <1>1, <1>3, <1>5, <1>6, <1>7, <1>8

\* The tasks: the new ones are behind the others.
LEMMA Launched ==
  ASSUME PlanInv, P!Produce
  PROVE  /\ tasks' \in Seq(PlanTask) /\ DOMAIN tasks' = 1..Len(tasks') /\ Len(tasks') \in 0..MaxTasks
         /\ Len(tasks) <= Len(tasks') /\ DOMAIN tasks \subseteq DOMAIN tasks'
         /\ \A t \in DOMAIN tasks : tasks'[t] = tasks[t] /\ t \in 1..Len(tasks)
         /\ \A t \in DOMAIN tasks' \ DOMAIN tasks :
              \E s \in P!Launching : P!Place(s) = t /\ tasks'[t] = P!Task(s)
         /\ \A s \in P!Launching : P!Place(s) \in DOMAIN tasks' \ DOMAIN tasks
<1>1. P!TypeOK
  BY DEF PlanInv, PlanCore
<1>2. tasks \in Seq(PlanTask) /\ DOMAIN tasks = 1..Len(tasks) /\ Len(tasks) \in Nat
      /\ \A t \in DOMAIN tasks : tasks[t] \in PlanTask
  BY <1>1, TaskTypes
<1>3. PICK last : last = Len(tasks) + P!Cardinality(P!Launching)
  OBVIOUS
<1>4. /\ last \in Nat /\ Len(tasks) <= last
      /\ \A s \in P!Launching : P!Place(s) \in Len(tasks) + 1..last
      /\ \A t \in Len(tasks) + 1..last : \E s \in P!Launching : P!Place(s) = t
  BY <1>2, <1>3, Placed
<1>5. /\ last <= MaxTasks
      /\ tasks' = [t \in 1..last |-> IF t \in DOMAIN tasks THEN tasks[t]
                                     ELSE P!Task(CHOOSE s \in P!Launching : P!Place(s) = t)]
  BY <1>3 DEF P!Produce
<1>6. ASSUME NEW t \in Len(tasks) + 1..last
      PROVE  \E s \in P!Launching : P!Place(s) = t /\ tasks'[t] = P!Task(s)
  <2>1. PICK s : s = CHOOSE u \in P!Launching : P!Place(u) = t
    OBVIOUS
  <2>2. s \in P!Launching /\ P!Place(s) = t
    BY <1>4, <2>1
  <2>3. t \in 1..last /\ t \notin DOMAIN tasks
    BY <1>2, <1>4
  <2>4. tasks'[t] = P!Task(s)
    BY <1>5, <2>1, <2>3
  <2> QED BY <2>2, <2>4
<1>7. \A s \in P!Launching : P!Task(s) \in PlanTask
  BY ReadyOnes DEF P!Task, PlanTask, Ats, AgentStates
<1>8. \A t \in 1..last : t \in DOMAIN tasks \/ t \in Len(tasks) + 1..last
  BY <1>2, <1>4
<1>9. DOMAIN tasks' = 1..last /\ \A t \in DOMAIN tasks : t \in 1..last /\ tasks'[t] = tasks[t]
  BY <1>2, <1>4, <1>5
<1>10. \A t \in 1..last : tasks'[t] \in PlanTask
  BY <1>2, <1>6, <1>7, <1>8, <1>9
<1>11. tasks' \in [1..last -> PlanTask]
  BY Zenon, <1>5, <1>9, <1>10
<1>12. tasks' \in Seq(PlanTask) /\ Len(tasks') = last
  BY <1>4, <1>11, <1>9
<1>13. last \in 0..MaxTasks
  BY <1>4, <1>5, BoundsAssumption DEF P!BoundsOK
<1>14. \A t \in Len(tasks) + 1..last : t \notin DOMAIN tasks /\ t \in 1..last
  BY <1>2, <1>4
<1> QED BY <1>2, <1>4, <1>6, <1>8, <1>9, <1>12, <1>13, <1>14

\* What is pending and watched: the tasks that have not ended, and only they.
LEMMA Watched ==
  ASSUME PlanInv, P!Produce
  PROVE  /\ pending' \in [Steps -> 0..Len(tasks')] /\ watched' \subseteq DOMAIN tasks'
         /\ \A t \in DOMAIN tasks' : tasks'[t].at # "ended" => pending'[tasks'[t].step] = t /\ t \in watched'
         /\ \A t \in watched' : tasks'[t].at # "ended"
         /\ watched' = {pending'[s] : s \in Steps} \ {0}
         /\ producer' = IF watched' = {} THEN "ended" ELSE "waiting"
<1>1. P!TypeOK /\ PlanKnown
  BY DEF PlanInv, PlanCore
<1>2. pending' = [s \in Steps |-> IF s \in P!Launching THEN P!Place(s)
                                  ELSE IF pending[s] \in P!Live THEN pending[s] ELSE 0]
      /\ watched' = {pending'[s] : s \in Steps} \ {0}
      /\ producer' = IF watched' = {} THEN "ended" ELSE "waiting"
  <2>1. PICK kept : kept = [s \in Steps |-> IF s \in P!Launching THEN P!Place(s)
                                  ELSE IF pending[s] \in P!Live THEN pending[s] ELSE 0]
    OBVIOUS
  <2>2. /\ pending' = kept /\ watched' = {kept[s] : s \in Steps} \ {0}
        /\ producer' = IF {kept[s] : s \in Steps} \ {0} = {} THEN "ended" ELSE "waiting"
    BY <2>1 DEF P!Produce
  <2> QED BY <2>1, <2>2
<1>3. \A t \in P!Live : t \in DOMAIN tasks /\ tasks[t].at # "ended" /\ pending[tasks[t].step] = t
                        /\ tasks[t].step \in Steps
  BY <1>1, TaskTypes DEF P!Live
<1>4. 0 \notin DOMAIN tasks' /\ DOMAIN tasks' \subseteq 0..Len(tasks') /\ 0 \in 0..Len(tasks')
  BY Launched
<1>5. ASSUME NEW s \in Steps
      PROVE  pending'[s] = 0 \/ (pending'[s] \in DOMAIN tasks' /\ tasks'[pending'[s]].at # "ended")
  <2>1. CASE s \in P!Launching
    <3>1. pending'[s] = P!Place(s) /\ P!Place(s) \in DOMAIN tasks' \ DOMAIN tasks
      BY <1>2, <2>1, Launched
    <3>2. PICK u \in P!Launching : tasks'[P!Place(s)] = P!Task(u)
      BY <3>1, Launched
    <3> QED BY <3>1, <3>2 DEF P!Task
  <2>2. CASE s \notin P!Launching /\ pending[s] \in P!Live
    <3>1. pending'[s] = pending[s]
      BY <1>2, <2>2
    <3>2. pending[s] \in DOMAIN tasks /\ tasks[pending[s]].at # "ended"
      BY <1>3, <2>2
    <3> QED BY <3>1, <3>2, Launched
  <2>3. CASE s \notin P!Launching /\ pending[s] \notin P!Live
    BY <1>2, <2>3
  <2> QED BY <2>1, <2>2, <2>3
<1>6. pending' \in [Steps -> 0..Len(tasks')]
  <2>1. \A s \in Steps : pending'[s] \in 0..Len(tasks')
    BY <1>4, <1>5
  <2> QED BY <1>2, <2>1
<1>7. ASSUME NEW t \in DOMAIN tasks', tasks'[t].at # "ended"
      PROVE  pending'[tasks'[t].step] = t /\ tasks'[t].step \in Steps
  <2>1. CASE t \in DOMAIN tasks
    <3>1. tasks'[t] = tasks[t] /\ tasks[t].step \in Steps /\ tasks[t].at # "ended"
      BY <1>1, <1>7, <2>1, Launched, TaskTypes
    <3>2. pending[tasks[t].step] = t /\ t \in P!Live
      BY <1>1, <2>1, <3>1 DEF PlanKnown, P!Live
    <3>3. tasks[t].step \notin P!Launching
      BY <2>1, ReadyOnes
    <3> QED BY <1>2, <3>1, <3>2, <3>3
  <2>2. CASE t \notin DOMAIN tasks
    <3>1. PICK s \in P!Launching : P!Place(s) = t /\ tasks'[t] = P!Task(s)
      BY <2>2, Launched
    <3>2. s \in Steps /\ tasks'[t].step = s
      BY <3>1, ReadyOnes DEF P!Task
    <3> QED BY <1>2, <3>1, <3>2
  <2> QED BY <2>1, <2>2
<1>8. ASSUME NEW t \in DOMAIN tasks', tasks'[t].at # "ended" PROVE t \in watched'
  BY <1>2, <1>4, <1>7, <1>8
<1>9. \A t \in watched' : t \in DOMAIN tasks' /\ tasks'[t].at # "ended"
  BY <1>2, <1>5
<1> QED BY <1>2, <1>6, <1>7, <1>8, <1>9
LEMMA ProduceStep == PlanInv /\ P!Produce => PlanCore'
<1> SUFFICES ASSUME PlanInv, P!Produce PROVE PlanCore'
  OBVIOUS
<1>1. /\ P!TypeOK /\ P!EachStepOnce /\ PlanKnown /\ PlanPhases /\ PlanTasks /\ PlanSteps
      /\ PlanDoomed /\ PlanChecked
  BY DEF PlanInv, PlanCore
<1>2. /\ UNCHANGED <<deps, held, verdict, execution, cancels, doomed>>
      /\ execution = "running" /\ doomed = {} /\ cancels = 0
  BY <1>1, ReadyOnes DEF P!Produce, PlanPhases
<1>3. PICK off : /\ off = IF watched' = {} THEN {s \in Steps : status[s] = "pending"} ELSE {}
                 /\ status' = [s \in Steps |-> IF s \in off THEN "cancelled" ELSE status[s]]
                 /\ results' = [s \in Steps |-> IF s \in off THEN "bad" ELSE results[s]]
  <2>1. P!Barred = {}
    BY ReadyOnes
  <2>2. watched' = {} => P!Barred \cup ({s \in Steps : status[s] = "pending"} \ P!Barred) = {s \in Steps : status[s] = "pending"}
    BY <2>1
  <2>3. PICK kept : kept = [s \in Steps |-> IF s \in P!Launching THEN P!Place(s)
                                  ELSE IF pending[s] \in P!Live THEN pending[s] ELSE 0]
    OBVIOUS
  <2>4. PICK active, stuck : active = {kept[s] : s \in Steps} \ {0}
                             /\ stuck = {s \in Steps : status[s] = "pending"} \ P!Barred
    OBVIOUS
  <2>5. PICK off : off = IF active = {} THEN P!Barred \cup stuck ELSE P!Barred
    OBVIOUS
  <2>6. /\ watched' = active
        /\ status' = [s \in Steps |-> IF s \in off THEN "cancelled" ELSE status[s]]
        /\ results' = [s \in Steps |-> IF s \in off THEN "bad" ELSE results[s]]
    BY <2>3, <2>4, <2>5 DEF P!Produce
  <2>7. off = IF watched' = {} THEN {s \in Steps : status[s] = "pending"} ELSE {}
    BY <2>1, <2>4, <2>5, <2>6
  <2> QED BY <2>6, <2>7
<1>4. /\ status' \in [Steps -> StepStates] /\ results' \in [Steps -> {"none", "ok", "bad"}]
      /\ \A s \in Steps : /\ s \in off => watched' = {} /\ status[s] = "pending" /\ status'[s] = "cancelled"
                                          /\ results'[s] = "bad"
                          /\ s \notin off => status'[s] = status[s] /\ results'[s] = results[s]
                          /\ watched' = {} /\ status[s] = "pending" => s \in off
  BY <1>1, <1>3 DEF P!TypeOK, StepStates
<1>5. /\ DOMAIN tasks \subseteq DOMAIN tasks'
      /\ \A t \in DOMAIN tasks : tasks'[t] = tasks[t] /\ tasks[t].step \in Steps
      /\ \A t \in DOMAIN tasks' \ DOMAIN tasks :
           \E s \in P!Launching : P!Place(s) = t /\ tasks'[t].step = s /\ tasks'[t].at = "queued"
                                  /\ tasks'[t].agent = "none"
  BY <1>1, Launched, TaskTypes DEF P!Task
<1>6. P!TypeOK'
  BY SMTT(60), <1>1, <1>2, <1>4, Launched, Watched DEF P!TypeOK, PlanTask, Ats, AgentStates, StepStates
<1>7. P!EachStepOnce'
  <2> SUFFICES ASSUME NEW t \in DOMAIN tasks', NEW u \in DOMAIN tasks', tasks'[t].step = tasks'[u].step
               PROVE  t = u
    BY DEF P!EachStepOnce
  <2>1. CASE t \in DOMAIN tasks /\ u \in DOMAIN tasks
    BY <1>1, <1>5, <2>1 DEF P!EachStepOnce
  <2>2. CASE t \in DOMAIN tasks /\ u \notin DOMAIN tasks
    BY <1>5, <2>2, ReadyOnes
  <2>3. CASE t \notin DOMAIN tasks /\ u \in DOMAIN tasks
    BY <1>5, <2>3, ReadyOnes
  <2>4. CASE t \notin DOMAIN tasks /\ u \notin DOMAIN tasks
    BY <1>5, <2>4
  <2> QED BY <2>1, <2>2, <2>3, <2>4
<1>8. PlanKnown'
  <2> SUFFICES ASSUME NEW t \in DOMAIN tasks', tasks'[t].at # "ended"
               PROVE  /\ pending'[tasks'[t].step] = t
                      /\ status'[tasks'[t].step] = IF tasks'[t].at = "queued" THEN "pending" ELSE "running"
                      /\ \A d \in deps[tasks'[t].step] : status'[d] = "completed"
    BY <1>2 DEF PlanKnown
  <2>1. t \in watched' /\ pending'[tasks'[t].step] = t
    BY Watched
  <2>2. \A s \in Steps : status'[s] = status[s]
    BY <1>4, <2>1
  <2>3. CASE t \in DOMAIN tasks
    <3>1. /\ status[tasks[t].step] = IF tasks[t].at = "queued" THEN "pending" ELSE "running"
          /\ \A d \in deps[tasks[t].step] : status[d] = "completed" /\ d \in Steps
      BY <1>1, <1>5, <2>3 DEF PlanKnown, P!TypeOK
    <3> QED BY <1>5, <2>1, <2>2, <2>3, <3>1
  <2>4. CASE t \notin DOMAIN tasks
    <3>1. PICK s \in P!Launching : tasks'[t].step = s /\ tasks'[t].at = "queued"
      BY <1>5, <2>4
    <3>2. s \in Steps /\ status[s] = "pending" /\ \A d \in deps[s] : status[d] = "completed" /\ d \in Steps
      BY <1>1, ReadyOnes DEF P!Ready, P!TypeOK
    <3> QED BY <2>1, <2>2, <3>1, <3>2
  <2> QED BY <2>3, <2>4
<1>9. producer' = IF watched' = {} THEN "ended" ELSE "waiting"
  BY Watched
<1>10. PlanPhases'
  BY <1>1, <1>2, <1>9 DEF PlanPhases
<1>11. PlanTasks'
  <2> SUFFICES ASSUME NEW t \in DOMAIN tasks'
               PROVE  /\ tasks'[t].at # "cancelling"
                      /\ status'[tasks'[t].step] = "pending" => tasks'[t].at = "queued"
                      /\ tasks'[t].at # "ended" => producer' = "waiting" /\ t \in watched'
    BY DEF PlanTasks
  <2>1. tasks'[t].at # "ended" => producer' = "waiting" /\ t \in watched'
    BY <1>9, Watched
  <2>2. CASE t \in DOMAIN tasks
    <3>1. tasks[t].at # "cancelling" /\ status[tasks[t].step] # "pending"
      BY <1>1, <1>2, <2>2, ReadyOnes DEF PlanTasks
    <3> QED BY <1>4, <1>5, <2>1, <2>2, <3>1
  <2>3. CASE t \notin DOMAIN tasks
    BY <1>5, <2>1, <2>3
  <2> QED BY <2>2, <2>3
<1>12. PlanSteps'
  <2> SUFFICES ASSUME NEW s \in Steps
               PROVE  /\ status'[s] = "running" =>
                           \E t \in DOMAIN tasks' : tasks'[t].step = s /\ tasks'[t].at \notin {"queued", "ended"}
                      /\ results'[s] = "bad" => status'[s] \in {"failed", "cancelled"}
                      /\ producer' = "ended" => status'[s] # "pending"
                      /\ status'[s] = "cancelled" /\ ~held[s] =>
                           producer' = "ended" /\ \E d \in deps[s] : status'[d] # "completed"
    BY <1>2 DEF PlanSteps
  <2>1. status'[s] = "running" =>
          \E t \in DOMAIN tasks' : tasks'[t].step = s /\ tasks'[t].at \notin {"queued", "ended"}
    BY <1>1, <1>2, <1>4, <1>5 DEF PlanSteps
  <2>2. results'[s] = "bad" => status'[s] \in {"failed", "cancelled"}
    BY <1>1, <1>2, <1>4 DEF PlanSteps
  <2>3. producer' = "ended" => status'[s] # "pending"
    BY <1>4, <1>9
  <2>4. ASSUME status'[s] = "cancelled", ~held[s]
        PROVE  producer' = "ended" /\ \E d \in deps[s] : status'[d] # "completed"
    <3>1. status[s] # "cancelled"
      <4>1. producer # "ended"
        BY DEF P!Produce
      <4> QED BY <1>1, <1>2, <2>4, <4>1 DEF PlanSteps
    <3>2. s \in off /\ watched' = {} /\ status[s] = "pending"
      BY <1>4, <2>4, <3>1
    <3>3. P!Launching = {}
      <4>1. \A t \in DOMAIN tasks' : tasks'[t].at = "ended"
        BY <3>2, Watched
      <4>2. \A u \in P!Launching : P!Place(u) \in DOMAIN tasks' \ DOMAIN tasks
        BY Launched
      <4> QED BY <1>5, <4>1, <4>2
    <3>4. PICK d \in deps[s] : status[d] # "completed"
      BY <3>2, <3>3, ReadyOnes DEF P!Ready
    <3>5. status'[d] # "completed"
      BY <1>1, <1>4, <3>4 DEF P!TypeOK
    <3> QED BY <1>9, <3>2, <3>5
  <2> QED BY <2>1, <2>2, <2>3, <2>4
<1>13. PlanDoomed'
  <2>1. \A t \in DOMAIN tasks' : tasks'[t].agent = "running" => tasks'[t].at \in {"waiting", "cancelling"}
    BY <1>1, <1>2, <1>5 DEF PlanDoomed
  <2> QED BY <1>2, <2>1 DEF PlanDoomed
<1>14. PlanChecked' /\ P!SummaryIsJust'
  BY <1>1, <1>2 DEF PlanChecked, P!Valid, P!Visited, P!SummaryIsJust
<1> QED BY <1>6, <1>7, <1>8, <1>10, <1>11, <1>12, <1>13, <1>14 DEF PlanCore

\* If at most one step waits for a place, that is so for the tasks that are watched.
LEMMA FitsStep == PlanInv /\ PlanCore' /\ OneWaits' /\ [P!Next]_planVars => PlanFits'
<1> SUFFICES ASSUME PlanInv, PlanCore', OneWaits', [P!Next]_planVars PROVE PlanFits'
  OBVIOUS
<1>1. PlanFits /\ P!TypeOK /\ PlanCore
  BY DEF PlanInv, PlanCore
<1>2. CASE P!Produce
  <2>1. PICK W, Q : W = watched' /\ Q = (P!Queued \cup P!Busy)'
    OBVIOUS
  <2>2. doomed' = {} /\ \A t \in watched' : t \in DOMAIN tasks' /\ tasks'[t].at \in {"queued", "spawning", "waiting"}
    <3>1. \A t \in watched' : t \in DOMAIN tasks' /\ tasks'[t].at # "ended"
      BY <1>2, Watched
    <3>2. doomed' = {} /\ execution' = "running"
      BY <1>2, ReadyOnes DEF P!Produce
    <3>3. \A t \in DOMAIN tasks' : tasks'[t] \in PlanTask
      BY <1>2, Launched
    <3>4. \A t \in DOMAIN tasks' : tasks'[t].at # "cancelling"
      BY <3>2 DEF PlanCore, PlanTasks
    <3> QED BY <3>1, <3>2, <3>3, <3>4 DEF PlanTask, Ats
  <2>3. W \subseteq Q
    BY <2>1, <2>2 DEF P!Queued, P!Busy
  <2>4. IsFiniteSet(Q)
    <3>1. Q \in SUBSET (1..Len(tasks')) /\ Len(tasks') \in Nat
      BY <1>2, <2>1, Launched DEF P!Queued, P!Busy
    <3>2. PICK D : D = 1..Len(tasks')
      OBVIOUS
    <3>3. IsFiniteSet(D)
      BY <3>1, <3>2, FS_Interval
    <3> QED BY Zenon, <3>1, <3>2, <3>3, FS_Subset
  <2>5. Cardinality(W) <= Cardinality(Q) /\ Cardinality(W) \in Nat /\ Cardinality(Q) \in Nat
    <3>1. W \in SUBSET Q
      BY <2>3
    <3>2. IsFiniteSet(W) /\ Cardinality(W) <= Cardinality(Q)
      BY <2>4, <3>1, FS_Subset
    <3> QED BY <2>4, <3>2, FS_CardinalityType
  <2>6. Cardinality(Q) <= Concurrency + 1
    BY <2>1 DEF OneWaits
  <2>7. Concurrency \in Nat
    BY BoundsAssumption DEF P!BoundsOK
  <2>8. Cardinality(W) <= Concurrency + 1
    BY <2>5, <2>6, <2>7
  <2> QED BY <2>1, <2>8 DEF PlanFits
<1>3. CASE P!Execute \/ P!Finish \/ P!Stopped \/ P!Cancel \/ P!CancelAgain
  <2>1. producer' # "waiting" \/ UNCHANGED <<producer, watched>>
    BY <1>3 DEF P!Execute, P!Finish, P!Stopped, P!Cancel, P!CancelAgain
  <2> QED BY <1>1, <2>1 DEF PlanFits
<1>4. ASSUME NEW t \in DOMAIN tasks, P!TaskStep(t) \/ P!AgentEnds(t) PROVE PlanFits'
  <2>1. UNCHANGED <<producer, watched>>
    BY <1>4 DEF P!TaskStep, P!Start, P!Spawned, P!SpawnFails, P!Answered, P!Settle, P!Unwind, P!AgentCancelled,
                P!AgentEnds, P!control
  <2> QED BY <1>1, <2>1 DEF PlanFits
<1>5. CASE UNCHANGED planVars
  BY <1>1, <1>5 DEF PlanFits, planVars
<1> QED BY <1>2, <1>3, <1>4, <1>5 DEF P!Next, P!Executor
LEMMA PlanNext == PlanInv /\ [P!Next]_planVars => PlanCore'
<1> SUFFICES ASSUME PlanInv, [P!Next]_planVars PROVE PlanCore'
  OBVIOUS
<1>1. PlanCore
  BY DEF PlanInv
<1>2. CASE P!Executor \/ P!Cancel \/ P!CancelAgain
  BY <1>1, <1>2, ExecuteStep, ProduceStep, FinishStep, StoppedStep, CancelStep DEF P!Executor
<1>3. ASSUME NEW t \in DOMAIN tasks, P!TaskStep(t) \/ P!AgentEnds(t) PROVE PlanCore'
  BY <1>1, <1>3, StartStep, SpawnedStep, EndsStep, UnwindTaskStep, AgentCancelledStep, AgentEndsStep
     DEF P!TaskStep
<1>4. CASE UNCHANGED planVars
  BY <1>1, <1>4 DEF planVars, PlanCore, P!TypeOK, P!EachStepOnce, PlanKnown, PlanPhases, PlanTasks, PlanSteps,
                    PlanDoomed, PlanChecked, P!Valid, P!Visited, P!SummaryIsJust
<1> QED BY <1>2, <1>3, <1>4 DEF P!Next

\* What the invariant says of the properties.
LEMMA PlanGoals == PlanCore => P!EachStepOnce /\ P!DependenciesFirst /\ PlansEndClean
<1> SUFFICES ASSUME PlanCore PROVE P!EachStepOnce /\ P!DependenciesFirst /\ PlansEndClean
  OBVIOUS
<1>1. P!TypeOK /\ P!EachStepOnce /\ PlanKnown /\ PlanPhases /\ PlanDoomed /\ P!SummaryIsJust
  BY DEF PlanCore
<1>2. P!DependenciesFirst
  BY <1>1 DEF PlanKnown, P!DependenciesFirst, P!Busy
<1>3. P!NothingLeftRunning
  BY <1>1 DEF PlanPhases, PlanDoomed, P!NothingLeftRunning
<1> QED BY <1>1, <1>2, <1>3 DEF PlansEndClean

\* A plan is refused if and only if a step needs itself, however many steps it has
\* and whatever happens to its execution (ExecutionPlan.validate_dag).
THEOREM CyclesAreRefused == Spec => []P!RefusesExactlyCycles
<1> DEFINE I == DepsType /\ PlanChecked
<1>1. Init => I
  BY DEF Init, P!Init, DepsType, PlanChecked
<1>2. I /\ [Next]_vars => I'
  <2> SUFFICES ASSUME I, [Next]_vars PROVE I'
    OBVIOUS
  <2>1. CASE P!Next
    <3>1. CASE P!Execute
      BY <3>1 DEF P!Execute, DepsType, PlanChecked, P!Valid, P!Visited
    <3>2. CASE P!Produce
      BY <3>2 DEF P!Produce, DepsType, PlanChecked, P!Valid, P!Visited
    <3>3. CASE P!Finish \/ P!Stopped \/ P!Cancel \/ P!CancelAgain
      <4>1. UNCHANGED deps /\ execution \in {"running", "stopping", "aborting"}
            /\ execution' \in {"over", "stopping", "aborting"}
        BY <3>3 DEF P!Finish, P!Stopped, P!Cancel, P!CancelAgain, P!plan
      <4> QED BY <4>1 DEF DepsType, PlanChecked, P!Valid, P!Visited
    <3>4. ASSUME NEW t \in DOMAIN tasks, P!TaskStep(t) \/ P!AgentEnds(t) PROVE I'
      <4>1. UNCHANGED <<deps, execution>>
        BY <3>4 DEF P!TaskStep, P!Start, P!Spawned, P!SpawnFails, P!Answered, P!Settle, P!Unwind,
                    P!AgentCancelled, P!AgentEnds, P!control, P!plan
      <4> QED BY <4>1 DEF DepsType, PlanChecked, P!Valid, P!Visited
    <3> QED BY <2>1, <3>1, <3>2, <3>3, <3>4 DEF P!Next, P!Executor
  <2>2. CASE UNCHANGED planVars
    BY <2>2 DEF planVars, DepsType, PlanChecked, P!Valid, P!Visited
  <2> QED BY <2>1, <2>2 DEF Next, vars
<1>3. I => P!RefusesExactlyCycles
  BY ValidIffAcyclic DEF PlanChecked, P!RefusesExactlyCycles
<1> QED BY <1>1, <1>2, <1>3, PTL DEF Spec

LEMMA PlanHolds == Spec /\ []OneWaits => []PlanCore
<1>1. Init => PlanInv
  BY PlanInit DEF Init
<1>2. PlanInv /\ [Next]_vars /\ OneWaits' => PlanInv'
  <2> SUFFICES ASSUME PlanInv, [Next]_vars, OneWaits' PROVE PlanInv'
    OBVIOUS
  <2>1. [P!Next]_planVars
    BY DEF Next, vars
  <2>2. PlanCore'
    BY <2>1, PlanNext
  <2>3. PlanFits'
    BY <2>1, <2>2, FitsStep
  <2> QED BY <2>2, <2>3 DEF PlanInv
<1>3. PlanInv => PlanCore
  BY DEF PlanInv
<1> QED BY <1>1, <1>2, <1>3, PTL DEF Spec

\* No step is given to two tasks, nor to one before all it depends on has been
\* completed, and a plan is refused exactly if a step needs itself, as long as at most
\* one step at a time waits for the semaphore (PlanExecutor.execute).
THEOREM StepsHold == Spec /\ []OneWaits => []StepsRunOnceInOrder
<1>1. PlanCore /\ P!RefusesExactlyCycles => StepsRunOnceInOrder
  BY PlanGoals DEF StepsRunOnceInOrder
<1> QED BY <1>1, PlanHolds, CyclesAreRefused, PTL

\* When execute() is over nothing of the plan goes on and the summary is true, under
\* the same condition (PlanExecutor.execute).
THEOREM PlansHold == Spec /\ []OneWaits => []PlansEndClean
<1>1. PlanCore => PlansEndClean
  BY PlanGoals
<1> QED BY <1>1, PlanHolds, PTL

\* The condition is met by every plan with at most one step more than may run at a time.
THEOREM SmallPlansFit == Cardinality(Steps) <= Concurrency + 1 => (Spec => []OneWaits)
<1> SUFFICES ASSUME Cardinality(Steps) <= Concurrency + 1 PROVE Spec => []OneWaits
  OBVIOUS
<1>1. PlanCore => OneWaits
  <2> SUFFICES ASSUME PlanCore PROVE OneWaits
    OBVIOUS
  <2>1. PICK Q : Q = P!Queued \cup P!Busy
    OBVIOUS
  <2>2. PICK f : f = [t \in Q |-> tasks[t].step]
    OBVIOUS
  <2>3. f \in Injection(Q, Steps)
    <3>1. P!TypeOK /\ P!EachStepOnce
      BY DEF PlanCore
    <3>2. \A t \in Q : t \in DOMAIN tasks /\ tasks[t].step \in Steps
      BY <2>1, <3>1, TaskTypes DEF P!Queued, P!Busy
    <3>3. \A t, u \in Q : tasks[t].step = tasks[u].step => t = u
      BY <3>1, <3>2 DEF P!EachStepOnce
    <3> QED BY <2>2, <3>2, <3>3 DEF Injection, IsInjective
  <2>4. Cardinality(Q) <= Cardinality(Steps) /\ Cardinality(Q) \in Nat /\ Cardinality(Steps) \in Nat
    BY <2>3, StepsAreFinite, FS_Injection, FS_CardinalityType
  <2> QED BY <2>1, <2>4, BoundsAssumption DEF OneWaits, P!BoundsOK
<1>2. Init => PlanInv
  BY PlanInit DEF Init
<1>3. PlanInv /\ [Next]_vars => PlanCore'
  <2>1. [Next]_vars => [P!Next]_planVars
    BY DEF Next, vars
  <2> QED BY <2>1, PlanNext
<1>4. PlanInv /\ [Next]_vars /\ PlanCore' /\ OneWaits' => PlanInv'
  <2>1. [Next]_vars => [P!Next]_planVars
    BY DEF Next, vars
  <2> QED BY <2>1, FitsStep DEF PlanInv
<1>5. PlanInv => OneWaits
  BY <1>1 DEF PlanInv
<1> QED BY <1>1, <1>2, <1>3, <1>4, <1>5, PTL DEF Spec
=============================================================================
