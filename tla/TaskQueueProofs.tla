--------------------------- MODULE TaskQueueProofs ---------------------------
(***************************************************************************)
(* For any number of tasks, any limit and any callers: the slot counter of *)
(* the task queue is exact and within the limit, no task waits while a     *)
(* slot is free, and close() returns to a drained queue.                   *)
(***************************************************************************)
EXTENDS TaskQueue, SequencesExt, SequenceTheorems, FiniteSetTheorems, WellFoundedInduction, TLAPS

(* Facts about numbers, sets and sequences, without the variables of the   *)
(* model.                                                                  *)

(* A set of natural numbers that has a member has a least one: induction   *)
(* in the form of a statement about sets.                                  *)
LEMMA LeastMember ==
    ASSUME NEW T, T \subseteq Nat, T # {}
    PROVE  \E n \in T : \A m \in T : n <= m
<1> DEFINE R == OpToRel(<, Nat)
<1>1. IsWellFoundedOn(R, Nat)
  BY NatLessThanWellFounded
<1>2. \A m, n \in Nat : m < n => <<m, n>> \in R
  BY DEF OpToRel
<1> HIDE DEF R
<1>3. PICK n \in T : \A m \in T : ~(<<m, n>> \in R)
  BY <1>1, WFMin
<1>4. ASSUME NEW m \in T PROVE n <= m
  <2>1. m \in Nat /\ n \in Nat
    OBVIOUS
  <2>2. ~(m < n)
    BY <2>1, <1>2, <1>3
  <2>3. QED
    BY <2>1, <2>2
<1>5. QED
  BY <1>4

-----------------------------------------------------------------------------

(* The queue holds each queued task once, and nothing else. *)
HoldsQueued(q, ph) ==
    /\ \A i \in 1 .. Len(q) : ph[q[i]] = "queued"
    /\ \A i, j \in 1 .. Len(q) : q[i] = q[j] => i = j
    /\ \A t \in Task : ph[t] = "queued" => \E i \in 1 .. Len(q) : q[i] = t

(* Ids above the counter are unused. *)
FutureIsNew == \A t \in Task : t > seq => phase[t] = "new"

(* Only close() waits to close, and it returns to an idle queue. *)
DrainedIsFinal ==
    \A w \in Waiter : /\ wait[w] \in {"closing", "drained"} => closed
                      /\ wait[w] = "drained" => active = 0

(* The inductive invariant. That no task waits beside a free slot is part  *)
(* of it: it is why pump never starts more than one task at a time.        *)
IInv ==
    /\ TypeOK
    /\ HoldsQueued(queue, phase)
    /\ FutureIsNew
    /\ SlotsAreCounted
    /\ WorkConserving
    /\ DrainedIsFinal

SlotsOf(ph) == {t \in Task : ph[t] \in {"running", "settled"}}

-----------------------------------------------------------------------------
(* Facts about the operators. *)

(* The tasks that have a slot are finitely many. *)
LEMMA SlotsAreFinite ==
    ASSUME NEW ph
    PROVE  IsFiniteSet(SlotsOf(ph)) /\ Cardinality(SlotsOf(ph)) \in Nat
<1>1. IsFiniteSet(Task)
  BY FS_Interval, QueueAssumption DEF Task, QueueAssumption
<1>2. SlotsOf(ph) \in SUBSET Task
  BY DEF SlotsOf
<1>3. QED
  BY <1>1, <1>2, FS_Subset, FS_CardinalityType

(* The place of a new item is one of the queue. *)
LEMMA IndexIsInRange ==
    ASSUME queue \in Seq(Task), NEW p
    PROVE  IndexFor(p) \in 0 .. Len(queue)
<1> DEFINE S == {i \in DOMAIN queue : priority[queue[i]] >= p}
<1>1. DOMAIN queue = 1 .. Len(queue) /\ Len(queue) \in Nat
  OBVIOUS
<1>2. IsFiniteSet(1 .. Len(queue)) /\ Cardinality(1 .. Len(queue)) = Len(queue)
  BY <1>1, FS_Interval
<1>3. S \in SUBSET (1 .. Len(queue))
  BY <1>1
<1>4. Cardinality(S) \in Nat /\ Cardinality(S) <= Len(queue)
  BY <1>2, <1>3, FS_Subset, FS_CardinalityType
<1>5. QED
  BY <1>1, <1>4 DEF IndexFor

(* What is where after an insertion. *)
LEMMA Insertion ==
    ASSUME NEW s \in Seq(Task), NEW k \in 0 .. Len(s), NEW e \in Task
    PROVE  LET r == InsertAt(s, k + 1, e)
           IN  /\ r \in Seq(Task)
               /\ Len(r) = Len(s) + 1
               /\ \A i \in 1 .. Len(s) + 1 :
                    r[i] = IF i <= k THEN s[i] ELSE IF i = k + 1 THEN e ELSE s[i - 1]
<1> DEFINE a == SubSeq(s, 1, k)
           b == SubSeq(s, k + 1, Len(s))
<1>1. a \in Seq(Task) /\ Len(a) = k /\ \A i \in 1 .. k : a[i] = s[i]
  OBVIOUS
<1>2. b \in Seq(Task) /\ Len(b) = Len(s) - k /\ \A i \in 1 .. Len(s) - k : b[i] = s[k + i]
  OBVIOUS
<1>3. InsertAt(s, k + 1, e) = (a \o <<e>>) \o b
  <2>1. (k + 1) - 1 = k
    OBVIOUS
  <2>2. InsertAt(s, k + 1, e) = SubSeq(s, 1, (k + 1) - 1) \o <<e>> \o SubSeq(s, k + 1, Len(s))
    BY Zenon DEF InsertAt
  <2>3. QED
    BY <2>1, <2>2, Zenon
<1> DEFINE r == InsertAt(s, k + 1, e)
           c == a \o <<e>>
<1> HIDE DEF a, b, r
<1>4. /\ c \in Seq(Task) /\ Len(c) = k + 1
      /\ \A i \in 1 .. k : c[i] = s[i]
      /\ c[k + 1] = e
  BY <1>1
<1> HIDE DEF c
<1>5. r = c \o b
  BY <1>3 DEF r, c
<1>6. r \in Seq(Task) /\ Len(r) = Len(s) + 1
  BY <1>2, <1>4, <1>5
<1>7. \A i \in 1 .. Len(s) + 1 : r[i] = IF i <= k + 1 THEN c[i] ELSE b[i - (k + 1)]
  BY <1>2, <1>4, <1>5
<1>8. \A i \in 1 .. Len(s) + 1 : r[i] = IF i <= k THEN s[i] ELSE IF i = k + 1 THEN e ELSE s[i - 1]
  <2> SUFFICES ASSUME NEW i \in 1 .. Len(s) + 1
               PROVE  r[i] = IF i <= k THEN s[i] ELSE IF i = k + 1 THEN e ELSE s[i - 1]
    OBVIOUS
  <2>1. CASE i <= k
    BY <2>1, <1>4, <1>7
  <2>2. CASE i = k + 1
    BY <2>2, <1>4, <1>7
  <2>3. CASE i > k + 1
    <3>1. i - (k + 1) \in 1 .. Len(s) - k /\ k + (i - (k + 1)) = i - 1
      BY <2>3
    <3>2. QED
      BY <2>3, <3>1, <1>2, <1>7
  <2>4. QED
    BY <2>1, <2>2, <2>3
<1>9. QED
  BY <1>6, <1>8 DEF r

(* Sequences without elements are empty. *)
LEMMA EmptyHasNoElements ==
    ASSUME NEW q \in Seq(Task)
    PROVE  Len(q) \in Nat /\ (q = <<>> <=> Len(q) = 0)
OBVIOUS

(* What is where after the first element is taken. *)
LEMMA RestOfSequence ==
    ASSUME NEW q \in Seq(Task), Len(q) >= 1
    PROVE  /\ SubSeq(q, 2, Len(q)) \in Seq(Task)
           /\ Len(SubSeq(q, 2, Len(q))) = Len(q) - 1
           /\ \A i \in 1 .. Len(q) - 1 : SubSeq(q, 2, Len(q))[i] = q[i + 1]
<1>1. Len(q) \in Nat
  BY EmptyHasNoElements
<1>2. /\ SubSeq(q, 2, Len(q)) \in Seq(Task)
      /\ Len(SubSeq(q, 2, Len(q))) = Len(q) - 1
  <2>1. ASSUME NEW k \in 0 .. Len(q)
        PROVE  /\ SubSeq(q, k + 1, Len(q)) \in Seq(Task)
               /\ Len(SubSeq(q, k + 1, Len(q))) = Len(q) - k
    OBVIOUS
  <2>2. 1 \in 0 .. Len(q) /\ 1 + 1 = 2
    BY <1>1
  <2>3. QED
    BY <2>1, <2>2
<1>3. ASSUME NEW i \in 1 .. Len(q) - 1 PROVE SubSeq(q, 2, Len(q))[i] = q[i + 1]
  BY <1>1
<1>4. QED
  BY <1>2, <1>3

(* The arithmetic of the free slots: at most one when one is free, or one  *)
(* item waits.                                                             *)
LEMMA OneSlot ==
    ASSUME NEW n \in Nat, NEW a \in Nat, a <= Concurrency, n <= 1 \/ Concurrency <= a + 1
    PROVE  LET k == IF Concurrency <= a THEN 0
                    ELSE IF n < Concurrency - a THEN n ELSE Concurrency - a
           IN  \/ k = 0 /\ (n = 0 \/ a = Concurrency)
               \/ k = 1 /\ n >= 1 /\ a < Concurrency /\ (n = 1 \/ a + 1 = Concurrency)
BY QueueAssumption DEF QueueAssumption

(* pump takes at most one item when at most one slot is free, or when at   *)
(* most one item waits.                                                    *)
LEMMA AtMostOneStarts ==
    ASSUME NEW q \in Seq(Task), NEW a \in Nat, a <= Concurrency,
           closed => Len(q) = 0, Len(q) <= 1 \/ Concurrency <= a + 1
    PROVE  \/ Slots(q, a) = 0 /\ (Len(q) = 0 \/ a = Concurrency)
           \/ /\ Slots(q, a) = 1 /\ ~closed /\ Len(q) >= 1 /\ a < Concurrency
              /\ Len(q) = 1 \/ a + 1 = Concurrency
<1>1. Len(q) \in Nat
  BY EmptyHasNoElements
<1>2. CASE closed
  BY <1>2 DEF Slots
<1>3. CASE ~closed
  <2> DEFINE n == Len(q)
             k == IF Concurrency <= a THEN 0
                  ELSE IF n < Concurrency - a THEN n ELSE Concurrency - a
  <2>1. Slots(q, a) = k
    BY <1>3, Zenon DEF Slots
  <2>2. n \in Nat /\ (n <= 1 \/ Concurrency <= a + 1)
    BY <1>1
  <2> HIDE DEF n
  <2>3. \/ k = 0 /\ (n = 0 \/ a = Concurrency)
        \/ k = 1 /\ n >= 1 /\ a < Concurrency /\ (n = 1 \/ a + 1 = Concurrency)
    BY <2>2, OneSlot, Zenon
  <2> HIDE DEF k
  <2>4. QED
    BY <1>3, <2>1, <2>3 DEF n
<1>4. QED
  BY <1>2, <1>3

(* pump preserves what the invariant says of the queue and the slots. *)
LEMMA PumpKeeps ==
    ASSUME TypeOK, NEW q \in Seq(Task), NEW a \in Nat, NEW ph \in [Task -> Phase],
           a <= Concurrency, closed => Len(q) = 0, Len(q) <= 1 \/ Concurrency <= a + 1,
           HoldsQueued(q, ph), a = Cardinality(SlotsOf(ph)), Pump(q, a, ph)
    PROVE  /\ queue' \in Seq(Task) /\ active' \in Nat /\ phase' \in [Task -> Phase]
           /\ fns' \subseteq Task /\ outcome' \in [Task -> Outcome]
           /\ HoldsQueued(queue', phase')
           /\ active' = Cardinality(SlotsOf(phase')) /\ active' <= Concurrency
           /\ Len(queue') # 0 => ~closed /\ active' = Concurrency
           /\ \A t \in Task : ph[t] = "new" => phase'[t] = "new"
           /\ closed => active' = a
<1> DEFINE n == Slots(q, a)
           started == {q[i] : i \in 1 .. n}
<1>1. Len(q) \in Nat /\ \A i \in 1 .. Len(q) : q[i] \in Task
  BY EmptyHasNoElements
<1>2. /\ queue' = SubSeq(q, n + 1, Len(q)) /\ active' = a + n
      /\ phase' = [t \in Task |-> IF t \notin started THEN ph[t]
                                  ELSE IF t \in aborted THEN "settled" ELSE "running"]
      /\ fns' = fns \cup (started \ aborted)
      /\ outcome' = SettledAs(outcome, started \cap aborted, "cancelled")
  BY DEF Pump
<1>3. outcome' \in [Task -> Outcome]
  BY <1>2 DEF SettledAs, Outcome, TypeOK
<1>4. phase' \in [Task -> Phase]
  BY <1>2 DEF Phase
<1>5. CASE n = 0 /\ (Len(q) = 0 \/ a = Concurrency)
  <2>1. started = {}
    BY <1>5
  <2>2. queue' = q
    BY <1>1, <1>2, <1>5
  <2>3. active' = a /\ phase' = ph /\ fns' = fns
    BY <1>2, <1>5, <2>1
  <2>4. QED
    BY <1>3, <1>4, <1>5, <2>2, <2>3 DEF TypeOK
<1>6. CASE /\ n = 1 /\ ~closed /\ Len(q) >= 1 /\ a < Concurrency
           /\ Len(q) = 1 \/ a + 1 = Concurrency
  <2> DEFINE e == q[1]
  <2>1. started = {e} /\ e \in Task
    BY <1>1, <1>6
  <2>2. ph[e] = "queued"
    BY <1>1, <1>6 DEF HoldsQueued
  <2>3. /\ queue' \in Seq(Task) /\ Len(queue') = Len(q) - 1
        /\ \A i \in 1 .. Len(q) - 1 : queue'[i] = q[i + 1]
    <3>1. queue' = SubSeq(q, 2, Len(q)) /\ Len(q) >= 1
      BY <1>2, <1>6
    <3>2. QED
      BY <3>1, RestOfSequence
  <2>4. /\ phase'[e] \in {"running", "settled"}
        /\ \A t \in Task : t # e => phase'[t] = ph[t]
    BY <1>2, <2>1
  <2>5. HoldsQueued(queue', phase')
    <3>1. \A i \in 1 .. Len(q) - 1 : i + 1 \in 1 .. Len(q) /\ q[i + 1] # e
      BY <1>1, <1>6 DEF HoldsQueued
    <3>2. \A i \in 1 .. Len(queue') : phase'[queue'[i]] = "queued"
      <4> SUFFICES ASSUME NEW i \in 1 .. Len(q) - 1 PROVE phase'[q[i + 1]] = "queued"
        BY <2>3
      <4>1. q[i + 1] \in Task /\ q[i + 1] # e /\ ph[q[i + 1]] = "queued"
        BY <1>1, <3>1 DEF HoldsQueued
      <4>2. QED
        BY <2>4, <4>1
    <3>3. \A i, j \in 1 .. Len(queue') : queue'[i] = queue'[j] => i = j
      <4> SUFFICES ASSUME NEW i \in 1 .. Len(q) - 1, NEW j \in 1 .. Len(q) - 1,
                          q[i + 1] = q[j + 1]
                   PROVE  i = j
        BY <2>3
      <4>1. i + 1 = j + 1
        BY <3>1 DEF HoldsQueued
      <4>2. QED
        BY <4>1
    <3>4. ASSUME NEW t \in Task, phase'[t] = "queued"
          PROVE  \E i \in 1 .. Len(queue') : queue'[i] = t
      <4>1. t # e /\ ph[t] = "queued"
        BY <2>4, <3>4
      <4>2. PICK i \in 1 .. Len(q) : q[i] = t
        BY <4>1 DEF HoldsQueued
      <4>3. i - 1 \in 1 .. Len(q) - 1 /\ (i - 1) + 1 = i
        BY <1>1, <4>1, <4>2
      <4>4. queue'[i - 1] = t
        BY <2>3, <4>2, <4>3
      <4>5. QED
        BY <2>3, <4>3, <4>4
    <3>5. QED
      BY <3>2, <3>3, <3>4 DEF HoldsQueued
  <2>6. active' = a + 1 /\ active' \in Nat /\ active' <= Concurrency
    BY <1>2, <1>6, QueueAssumption DEF QueueAssumption
  <2>7. active' = Cardinality(SlotsOf(phase'))
    <3>1. SlotsOf(phase') = SlotsOf(ph) \cup {e} /\ e \notin SlotsOf(ph)
      BY <2>1, <2>2, <2>4 DEF SlotsOf
    <3>2. QED
      BY <2>6, <3>1, SlotsAreFinite, FS_AddElement
  <2>8. Len(queue') # 0 => ~closed /\ active' = Concurrency
    BY <1>6, <2>3, <2>6
  <2>9. \A t \in Task : ph[t] = "new" => phase'[t] = "new"
    BY <2>2, <2>4
  <2>10. fns' \subseteq Task
    BY <1>2, <2>1 DEF TypeOK
  <2>11. QED
    BY <1>3, <1>4, <1>6, <2>3, <2>5, <2>6, <2>7, <2>8, <2>9, <2>10
<1>7. QED
  BY <1>5, <1>6, AtMostOneStarts

-----------------------------------------------------------------------------

LEMMA InitEstablishes == Init => IInv
<1> SUFFICES ASSUME Init PROVE IInv
  OBVIOUS
<1> USE QueueAssumption DEF Init, QueueAssumption
<1>1. TypeOK
  <2>1. queue \in Seq(Task) /\ active \in Nat /\ closed \in BOOLEAN /\ seq \in 0 .. MaxTasks
    <3>1. queue \in Seq(Task)
      OBVIOUS
    <3>2. active \in Nat /\ seq \in 0 .. MaxTasks
      OBVIOUS
    <3>3. closed \in BOOLEAN
      BY Zenon
    <3>4. QED
      BY <3>1, <3>2, <3>3
  <2>2. phase \in [Task -> Phase] /\ outcome \in [Task -> Outcome] /\ wait \in [Waiter -> WaitState]
    BY DEF Phase, Outcome, WaitState
  <2>3. QED
    BY <2>1, <2>2 DEF TypeOK
<1>2. HoldsQueued(queue, phase) /\ FutureIsNew /\ WorkConserving /\ DrainedIsFinal
  BY DEF HoldsQueued, FutureIsNew, WorkConserving, DrainedIsFinal
<1>3. SlotsAreCounted
  <2>1. HasSlot = {}
    BY DEF HasSlot
  <2>2. QED
    BY <2>1, FS_EmptySet DEF SlotsAreCounted
<1>4. QED
  BY <1>1, <1>2, <1>3 DEF IInv

(* An insertion of a new task keeps what the queue holds. *)
LEMMA InsertionHolds ==
    ASSUME queue \in Seq(Task), Len(queue) \in Nat, NEW p, NEW e \in Task, NEW ph,
           HoldsQueued(queue, phase), phase[e] = "new", ph[e] = "queued",
           \A t \in Task : t # e => ph[t] = phase[t]
    PROVE  /\ InsertAt(queue, IndexFor(p) + 1, e) \in Seq(Task)
           /\ HoldsQueued(InsertAt(queue, IndexFor(p) + 1, e), ph)
<1> DEFINE q == InsertAt(queue, IndexFor(p) + 1, e)
<1>1. PICK k \in 0 .. Len(queue) : IndexFor(p) = k
  BY IndexIsInRange
<1>2. /\ q \in Seq(Task) /\ Len(q) = Len(queue) + 1
      /\ \A i \in 1 .. Len(queue) + 1 :
           q[i] = IF i <= k THEN queue[i] ELSE IF i = k + 1 THEN e ELSE queue[i - 1]
  <2>1. q = InsertAt(queue, k + 1, e)
    BY <1>1
  <2> HIDE DEF q
  <2>2. QED
    BY <2>1, Insertion, Zenon
<1> HIDE DEF q
<1>3. HoldsQueued(q, ph)
  <2>1. \A i \in 1 .. Len(queue) : queue[i] \in Task /\ queue[i] # e /\ ph[queue[i]] = "queued"
    BY DEF HoldsQueued
  <2>2. \A i \in 1 .. Len(q) : ph[q[i]] = "queued"
    <3> SUFFICES ASSUME NEW i \in 1 .. Len(queue) + 1 PROVE ph[q[i]] = "queued"
      BY <1>2
    <3>1. CASE i <= k
      BY <3>1, <1>2, <2>1
    <3>2. CASE i = k + 1
      BY <3>2, <1>2
    <3>3. CASE i > k + 1
      <4>1. i - 1 \in 1 .. Len(queue) /\ q[i] = queue[i - 1]
        BY <3>3, <1>2
      <4>2. QED
        BY <4>1, <2>1
    <3>4. QED
      BY <3>1, <3>2, <3>3
  <2>3. \A i, j \in 1 .. Len(q) : q[i] = q[j] => i = j
    <3> SUFFICES ASSUME NEW i \in 1 .. Len(queue) + 1, NEW j \in 1 .. Len(queue) + 1, q[i] = q[j]
                 PROVE  i = j
      BY <1>2
    <3> DEFINE from(x) == IF x <= k THEN x ELSE x - 1
    <3>1. \A x \in 1 .. Len(queue) + 1 : x # k + 1 =>
            from(x) \in 1 .. Len(queue) /\ q[x] = queue[from(x)] /\ q[x] # e
      BY <1>2, <2>1
    <3>2. CASE i = k + 1 \/ j = k + 1
      <4>1. q[k + 1] = e
        BY <1>2
      <4>2. i = k + 1 /\ j = k + 1
        BY <3>1, <3>2, <4>1
      <4>3. QED
        BY <4>2
    <3>3. CASE i # k + 1 /\ j # k + 1
      <4>1. /\ from(i) \in 1 .. Len(queue) /\ from(j) \in 1 .. Len(queue)
            /\ queue[from(i)] = queue[from(j)]
        BY <3>1, <3>3
      <4>2. from(i) = from(j)
        <5> HIDE DEF from
        <5>1. QED
          BY <4>1 DEF HoldsQueued
      <4>3. QED
        BY <3>3, <4>2
    <3>4. QED
      BY <3>2, <3>3
  <2>4. ASSUME NEW t \in Task, ph[t] = "queued" PROVE \E i \in 1 .. Len(q) : q[i] = t
    <3>1. CASE t = e
      <4>1. k + 1 \in 1 .. Len(q) /\ q[k + 1] = e
        BY <1>2
      <4>2. QED
        BY <3>1, <4>1
    <3>2. CASE t # e
      <4>1. PICK i \in 1 .. Len(queue) : queue[i] = t
        BY <2>4, <3>2 DEF HoldsQueued
      <4>2. CASE i <= k
        BY <4>1, <4>2, <1>2
      <4>3. CASE i > k
        <5>1. i + 1 \in 1 .. Len(q) /\ q[i + 1] = queue[(i + 1) - 1] /\ (i + 1) - 1 = i
          BY <4>3, <1>2
        <5>2. QED
          BY <4>1, <5>1
      <4>4. QED
        BY <4>2, <4>3
    <3>3. QED
      BY <3>1, <3>2
  <2>5. QED
    BY <2>2, <2>3, <2>4 DEF HoldsQueued
<1>4. QED
  BY <1>2, <1>3 DEF q

(* A task is enqueued, and started if a slot is free. *)
LEMMA EnqueuePreserves ==
    ASSUME IInv, NEW p \in Priority, Enqueue(p)
    PROVE  IInv'
<1> DEFINE e == seq + 1
           q == InsertAt(queue, IndexFor(p) + 1, e)
           ph == [phase EXCEPT ![e] = "queued"]
<1>1. TypeOK /\ ~closed /\ Pump(q, active, ph)
  BY DEF IInv, Enqueue
<1>2. e \in Task /\ phase[e] = "new"
  BY QueueAssumption DEF Enqueue, IInv, TypeOK, Task, FutureIsNew, QueueAssumption
<1>3. queue \in Seq(Task) /\ Len(queue) \in Nat
  BY DEF IInv, TypeOK
<1>4. PICK k \in 0 .. Len(queue) : IndexFor(p) = k
  BY <1>3, IndexIsInRange
<1>5. /\ q \in Seq(Task) /\ Len(q) = Len(queue) + 1
      /\ \A i \in 1 .. Len(queue) + 1 :
           q[i] = IF i <= k THEN queue[i] ELSE IF i = k + 1 THEN e ELSE queue[i - 1]
  BY <1>2, <1>3, <1>4, Insertion
<1> HIDE DEF q
<1>6. /\ ph \in [Task -> Phase] /\ ph[e] = "queued"
      /\ \A t \in Task : t # e => ph[t] = phase[t]
  BY <1>1, <1>2 DEF TypeOK, Phase
<1> HIDE DEF ph
<1>7. HoldsQueued(q, ph)
  BY <1>2, <1>3, <1>6, InsertionHolds DEF IInv, q
<1>8. /\ active \in Nat /\ active <= Concurrency
      /\ active = Cardinality(SlotsOf(ph))
  <2>1. SlotsOf(ph) = HasSlot
    BY <1>2, <1>6 DEF SlotsOf, HasSlot
  <2>2. QED
    BY <2>1 DEF IInv, TypeOK, SlotsAreCounted
<1>9. Len(q) <= 1 \/ Concurrency <= active + 1
  <2>1. CASE Len(queue) = 0
    BY <2>1, <1>5
  <2>2. CASE Len(queue) # 0
    <3>1. active = Concurrency
      BY <1>3, <2>2, EmptyHasNoElements DEF IInv, WorkConserving
    <3>2. QED
      BY <3>1, QueueAssumption DEF QueueAssumption
  <2>3. QED
    BY <2>1, <2>2
<1>10. /\ queue' \in Seq(Task) /\ active' \in Nat /\ phase' \in [Task -> Phase]
       /\ fns' \subseteq Task /\ outcome' \in [Task -> Outcome]
       /\ HoldsQueued(queue', phase')
       /\ active' = Cardinality(SlotsOf(phase')) /\ active' <= Concurrency
       /\ Len(queue') # 0 => ~closed /\ active' = Concurrency
       /\ \A t \in Task : ph[t] = "new" => phase'[t] = "new"
  BY <1>1, <1>5, <1>6, <1>7, <1>8, <1>9, PumpKeeps
<1>11. /\ seq' = e /\ priority' = [priority EXCEPT ![e] = p]
       /\ closed' = closed /\ aborted' = aborted /\ wait' = wait
  BY DEF Enqueue
<1>12. TypeOK'
  <2>1. seq' \in 0 .. MaxTasks
    BY <1>2, <1>11, QueueAssumption DEF Task, QueueAssumption
  <2>2. priority' \in [Task -> Priority]
    BY <1>1, <1>11 DEF TypeOK
  <2>3. closed' \in BOOLEAN /\ aborted' \subseteq Task /\ wait' \in [Waiter -> WaitState]
    BY <1>1, <1>11 DEF TypeOK
  <2>4. QED
    BY <1>10, <2>1, <2>2, <2>3 DEF TypeOK
<1>13. FutureIsNew'
  <2> SUFFICES ASSUME NEW t \in Task, t > e PROVE phase'[t] = "new"
    BY <1>11 DEF FutureIsNew
  <2>1. t > seq /\ t # e
    BY <1>1 DEF TypeOK, Task
  <2>2. phase[t] = "new"
    BY <2>1 DEF IInv, FutureIsNew
  <2>3. QED
    BY <1>6, <1>10, <2>1, <2>2
<1>14. SlotsAreCounted' /\ WorkConserving'
  <2>1. queue' # <<>> => Len(queue') # 0
    BY <1>10, EmptyHasNoElements
  <2>2. QED
    BY <1>10, <1>11, <2>1 DEF SlotsAreCounted, WorkConserving, HasSlot, SlotsOf
<1>15. DrainedIsFinal'
  BY <1>1, <1>11 DEF IInv, DrainedIsFinal
<1>16. QED
  BY <1>10, <1>12, <1>13, <1>14, <1>15 DEF IInv

(* The finally callback frees the slot and starts the next task. *)
LEMMA FinallyPreserves ==
    ASSUME IInv, NEW t \in Task, Finally(t)
    PROVE  IInv'
<1> DEFINE a == active - 1
           ph == [phase EXCEPT ![t] = "finished"]
<1>1. /\ TypeOK /\ Pump(queue, a, ph) /\ phase[t] = "settled"
      /\ closed' = closed /\ seq' = seq /\ priority' = priority /\ aborted' = aborted
      /\ wait' = IF active' = 0 /\ queue' = <<>> THEN Woken ELSE wait
  BY DEF IInv, Finally
<1>2. queue \in Seq(Task) /\ Len(queue) \in Nat
  BY <1>1 DEF TypeOK
<1>3. /\ ph \in [Task -> Phase] /\ ph[t] = "finished"
      /\ \A u \in Task : u # t => ph[u] = phase[u]
  BY <1>1 DEF TypeOK, Phase
<1> HIDE DEF ph
<1>4. SlotsOf(ph) = HasSlot \ {t} /\ t \in HasSlot
  BY <1>1, <1>3 DEF SlotsOf, HasSlot
<1>5. Cardinality(SlotsOf(ph)) = a /\ a \in Nat /\ a + 1 = active /\ active <= Concurrency
  <2>1. HasSlot = SlotsOf(phase)
    BY DEF HasSlot, SlotsOf
  <2>2. IsFiniteSet(HasSlot) /\ active = Cardinality(HasSlot) /\ active \in Nat /\ active <= Concurrency
    BY <1>1, <2>1, SlotsAreFinite DEF IInv, SlotsAreCounted, TypeOK
  <2>3. Cardinality(SlotsOf(ph)) = active - 1
    BY <1>4, <2>2, FS_RemoveElement
  <2>4. QED
    BY <2>2, <2>3, SlotsAreFinite
<1>6. HoldsQueued(queue, ph)
  <2>1. \A i \in 1 .. Len(queue) : queue[i] \in Task /\ phase[queue[i]] = "queued"
    BY <1>2 DEF IInv, HoldsQueued
  <2>2. \A i \in 1 .. Len(queue) : ph[queue[i]] = "queued"
    BY <1>1, <1>3, <2>1
  <2>3. \A u \in Task : ph[u] = "queued" => phase[u] = "queued"
    BY <1>3
  <2>4. QED
    BY <2>2, <2>3 DEF IInv, HoldsQueued
<1>7. /\ a <= Concurrency /\ (closed => Len(queue) = 0)
      /\ Len(queue) <= 1 \/ Concurrency <= a + 1
  <2>1. Len(queue) # 0 => ~closed /\ active = Concurrency
    BY <1>2, EmptyHasNoElements DEF IInv, WorkConserving
  <2>2. QED
    BY <1>2, <1>5, <2>1, QueueAssumption DEF QueueAssumption
<1> HIDE DEF a
<1>8. /\ queue' \in Seq(Task) /\ active' \in Nat /\ phase' \in [Task -> Phase]
      /\ fns' \subseteq Task /\ outcome' \in [Task -> Outcome]
      /\ HoldsQueued(queue', phase')
      /\ active' = Cardinality(SlotsOf(phase')) /\ active' <= Concurrency
      /\ Len(queue') # 0 => ~closed /\ active' = Concurrency
      /\ \A u \in Task : ph[u] = "new" => phase'[u] = "new"
  BY <1>1, <1>2, <1>3, <1>5, <1>6, <1>7, PumpKeeps
<1>9. TypeOK'
  BY <1>1, <1>8 DEF TypeOK, Woken, WaitState
<1>10. FutureIsNew'
  <2> SUFFICES ASSUME NEW u \in Task, u > seq PROVE phase'[u] = "new"
    BY <1>1 DEF FutureIsNew
  <2>1. phase[u] = "new"
    BY DEF IInv, FutureIsNew
  <2>2. QED
    BY <1>1, <1>3, <1>8, <2>1
<1>11. SlotsAreCounted' /\ WorkConserving'
  <2>1. queue' # <<>> => Len(queue') # 0
    BY <1>8, EmptyHasNoElements
  <2>2. QED
    BY <1>1, <1>8, <2>1 DEF SlotsAreCounted, WorkConserving, HasSlot, SlotsOf
<1>12. DrainedIsFinal'
  <2> SUFFICES ASSUME NEW w \in Waiter
               PROVE  /\ wait'[w] \in {"closing", "drained"} => closed'
                      /\ wait'[w] = "drained" => active' = 0
    BY DEF DrainedIsFinal
  <2>1. wait[w] # "drained"
    <3>1. active # 0
      BY <1>5
    <3>2. QED
      BY <3>1 DEF IInv, DrainedIsFinal
  <2>2. CASE active' = 0 /\ queue' = <<>>
    <3>1. wait'[w] = CASE wait[w] = "idle" -> "none"
                       [] wait[w] = "closing" -> "drained"
                       [] OTHER -> wait[w]
      BY <1>1, <2>2 DEF Woken
    <3>2. QED
      BY <1>1, <2>1, <2>2, <3>1 DEF IInv, DrainedIsFinal
  <2>3. CASE ~(active' = 0 /\ queue' = <<>>)
    BY <1>1, <2>1, <2>3 DEF IInv, DrainedIsFinal
  <2>4. QED
    BY <2>2, <2>3
<1>13. QED
  BY <1>8, <1>9, <1>10, <1>11, <1>12 DEF IInv

(* A running task settles: its function ends or its time limit passes. *)
LEMMA EndsPreserves ==
    ASSUME IInv, NEW t \in Task, Ends(t)
    PROVE  IInv'
<1>1. /\ queue' = queue /\ active' = active /\ closed' = closed /\ seq' = seq
      /\ priority' = priority /\ aborted' = aborted /\ wait' = wait /\ fns' \subseteq fns
      /\ \E result \in {"answered", "timeout"} : outcome' = SettledAs(outcome, {t}, result)
      /\ phase' = phase \/ (phase[t] = "running" /\ phase' = [phase EXCEPT ![t] = "settled"])
  BY DEF Ends, TimesOut, FnEnds
<1>2. \A u \in Task :
        /\ phase'[u] = "queued" <=> phase[u] = "queued"
        /\ phase'[u] = "new" <=> phase[u] = "new"
        /\ phase'[u] \in {"running", "settled"} <=> phase[u] \in {"running", "settled"}
  BY <1>1 DEF IInv, TypeOK
<1>3. TypeOK'
  <2>1. phase' \in [Task -> Phase]
    BY <1>1 DEF IInv, TypeOK, Phase
  <2>2. outcome' \in [Task -> Outcome]
    BY <1>1 DEF IInv, TypeOK, Outcome, SettledAs
  <2>3. QED
    BY <1>1, <2>1, <2>2 DEF IInv, TypeOK
<1>4. HoldsQueued(queue, phase)'
  <2>1. \A i \in 1 .. Len(queue) : queue[i] \in Task
    BY DEF IInv, TypeOK
  <2>2. QED
    BY <1>1, <1>2, <2>1 DEF IInv, HoldsQueued
<1>5. FutureIsNew' /\ WorkConserving' /\ DrainedIsFinal'
  BY <1>1, <1>2 DEF IInv, FutureIsNew, WorkConserving, DrainedIsFinal
<1>6. SlotsAreCounted'
  <2>1. HasSlot' = HasSlot
    BY <1>2 DEF HasSlot
  <2>2. QED
    BY <1>1, <2>1 DEF IInv, SlotsAreCounted
<1>7. QED
  BY <1>3, <1>4, <1>5, <1>6 DEF IInv

(* A signal fires, a caller waits, or nothing happens. *)
LEMMA OthersPreserve ==
    ASSUME IInv,
           \/ \E t \in Task : Abort(t)
           \/ \E w \in Waiter : WaitIdle(w)
           \/ UNCHANGED vars
    PROVE  IInv'
<1>1. /\ queue' = queue /\ active' = active /\ closed' = closed /\ seq' = seq
      /\ priority' = priority /\ phase' = phase /\ fns' = fns
      /\ aborted' \subseteq Task
      /\ outcome' = outcome \/ \E S \in SUBSET Task : outcome' = SettledAs(outcome, S, "cancelled")
      /\ wait' = wait \/ \E w \in Waiter : wait' = [wait EXCEPT ![w] = "idle"]
  BY DEF Abort, WaitIdle, vars, IInv, TypeOK
<1>2. TypeOK'
  <2>1. outcome' \in [Task -> Outcome]
    BY <1>1 DEF IInv, TypeOK, Outcome, SettledAs
  <2>2. wait' \in [Waiter -> WaitState]
    BY <1>1 DEF IInv, TypeOK, WaitState
  <2>3. QED
    BY <1>1, <2>1, <2>2 DEF IInv, TypeOK
<1>3. HoldsQueued(queue, phase)' /\ FutureIsNew' /\ WorkConserving'
  BY <1>1 DEF IInv, HoldsQueued, FutureIsNew, WorkConserving
<1>4. SlotsAreCounted'
  <2>1. HasSlot' = HasSlot
    BY <1>1 DEF HasSlot
  <2>2. QED
    BY <1>1, <2>1 DEF IInv, SlotsAreCounted
<1>5. DrainedIsFinal'
  BY <1>1 DEF IInv, DrainedIsFinal, TypeOK
<1>6. QED
  BY <1>2, <1>3, <1>4, <1>5 DEF IInv

(* The queue is closed: what is queued is finished, what has a slot stays. *)
LEMMA ClosePreserves ==
    ASSUME IInv, NEW w \in Waiter, Close(w)
    PROVE  IInv'
<1>1. /\ queue' = <<>> /\ closed' = TRUE /\ active' = active /\ seq' = seq
      /\ priority' = priority /\ fns' = fns /\ aborted' = aborted
      /\ wait' = [wait EXCEPT ![w] = IF active = 0 THEN "drained" ELSE "closing"]
      /\ phase' = [t \in Task |-> IF phase[t] = "queued" THEN "finished" ELSE phase[t]]
      /\ \E S \in {{queue[i] : i \in DOMAIN queue}} : outcome' = SettledAs(outcome, S, "closed")
  BY DEF Close
<1>2. TypeOK'
  <2>1. phase' \in [Task -> Phase]
    BY <1>1 DEF IInv, TypeOK, Phase
  <2>2. outcome' \in [Task -> Outcome]
    BY <1>1 DEF IInv, TypeOK, Outcome, SettledAs
  <2>3. wait' \in [Waiter -> WaitState]
    BY <1>1 DEF IInv, TypeOK, WaitState
  <2>4. queue' \in Seq(Task)
    BY <1>1
  <2>5. QED
    BY <1>1, <2>1, <2>2, <2>3, <2>4 DEF IInv, TypeOK
<1>3. HoldsQueued(queue, phase)'
  BY <1>1 DEF HoldsQueued
<1>4. FutureIsNew' /\ WorkConserving'
  BY <1>1 DEF IInv, FutureIsNew, WorkConserving
<1>5. SlotsAreCounted'
  <2>1. HasSlot' = HasSlot
    BY <1>1 DEF HasSlot
  <2>2. QED
    BY <1>1, <2>1 DEF IInv, SlotsAreCounted
<1>6. DrainedIsFinal'
  BY <1>1 DEF IInv, DrainedIsFinal, TypeOK
<1>7. QED
  BY <1>2, <1>3, <1>4, <1>5, <1>6 DEF IInv

(* Every step preserves the inductive invariant. *)
LEMMA NextPreserves == IInv /\ [Next]_vars => IInv'
<1> SUFFICES ASSUME IInv, [Next]_vars PROVE IInv'
  OBVIOUS
<1>1. ASSUME NEW p \in Priority, Enqueue(p) PROVE IInv'
  BY <1>1, EnqueuePreserves
<1>2. ASSUME NEW t \in Task, Ends(t) \/ Finally(t) PROVE IInv'
  BY <1>2, EndsPreserves, FinallyPreserves
<1>3. ASSUME NEW w \in Waiter, Close(w) PROVE IInv'
  BY <1>3, ClosePreserves
<1>4. ASSUME (\E t \in Task : Abort(t)) \/ (\E w \in Waiter : WaitIdle(w)) \/ UNCHANGED vars
      PROVE  IInv'
  BY <1>4, OthersPreserve
<1>5. QED
  BY <1>1, <1>2, <1>3, <1>4 DEF Next

-----------------------------------------------------------------------------

(* The inductive invariant holds throughout. *)
THEOREM Inductive == Spec => []IInv
<1>1. QED
  BY InitEstablishes, NextPreserves, PTL DEF Spec

(* The queue's state never leaves its type. *)
THEOREM TypesStayCorrect == Spec => []TypeOK
<1>1. IInv => TypeOK
  BY DEF IInv
<1>2. QED
  BY <1>1, Inductive, PTL

(* The slot counter is exact and never above the limit. *)
THEOREM SlotsStayBounded == Spec => []SlotsAreCounted
<1>1. IInv => SlotsAreCounted
  BY DEF IInv
<1>2. QED
  BY <1>1, Inductive, PTL

(* No task waits while a slot is free, and none waits in a closed queue. *)
THEOREM NoIdleSlots == Spec => []WorkConserving
<1>1. IInv => WorkConserving
  BY DEF IInv
<1>2. QED
  BY <1>1, Inductive, PTL

(* close() returns when no accepted task is left, and none ever comes. *)
THEOREM CloseReturnsToADrainedQueue == Spec => []CloseDrains
<1>1. ASSUME IInv, NEW w \in Waiter, wait[w] = "drained"
      PROVE  closed /\ active = 0 /\ \A t \in Task : phase[t] \in {"new", "finished"}
  <2>1. closed /\ active = 0 /\ queue = <<>>
    BY <1>1 DEF IInv, DrainedIsFinal, WorkConserving
  <2>2. HasSlot = {}
    <3>1. HasSlot = SlotsOf(phase)
      BY DEF HasSlot, SlotsOf
    <3>2. QED
      BY <1>1, <2>1, <3>1, SlotsAreFinite, FS_EmptySet DEF IInv, SlotsAreCounted
  <2>3. \A t \in Task : phase[t] # "queued"
    BY <1>1, <2>1 DEF IInv, HoldsQueued
  <2>4. QED
    BY <1>1, <2>1, <2>2, <2>3 DEF IInv, TypeOK, Phase, HasSlot
<1>2. IInv => CloseDrains
  BY <1>1 DEF CloseDrains
<1>3. QED
  BY <1>2, Inductive, PTL

-----------------------------------------------------------------------------
(* The order of the queue. *)

(* A sequence of tasks in the order in which they are to start. *)
SortedBy(q, pr) ==
    \A i, j \in 1 .. Len(q) :
        i < j => pr[q[i]] > pr[q[j]] \/ (pr[q[i]] = pr[q[j]] /\ q[i] < q[j])

(* A set of places that has with each place all before it is a first part  *)
(* of them.                                                                *)
LEMMA FirstPart ==
    ASSUME NEW n \in Nat, NEW S, S \subseteq 1 .. n,
           \A i \in S : \A j \in 1 .. i : j \in S
    PROVE  Cardinality(S) \in 0 .. n /\ S = 1 .. Cardinality(S)
<1> DEFINE T == {m \in 1 .. n + 1 : m \notin S}
<1>1. n + 1 \in T /\ T \subseteq Nat
  OBVIOUS
<1>2. PICK k \in T : \A m \in T : k <= m
  BY <1>1, LeastMember
<1>3. k \in 1 .. n + 1 /\ k \notin S /\ \A m \in 1 .. k - 1 : m \in S
  BY <1>2
<1> HIDE DEF T
<1>4. S = 1 .. k - 1
  <2>1. ASSUME NEW i \in S PROVE i \in 1 .. k - 1
    <3>1. i \in 1 .. n
      OBVIOUS
    <3>2. i >= k => k \in 1 .. i
      BY <1>3, <3>1
    <3>3. QED
      BY <1>3, <3>1, <3>2
  <2>2. \A m \in 1 .. k - 1 : m \in S
    BY <1>3
  <2>3. QED
    BY <2>1, <2>2, Zenon
<1>5. Cardinality(1 .. k - 1) = k - 1
  BY <1>3, FS_Interval
<1>6. QED
  BY <1>3, <1>4, <1>5

(* The items that stay ahead of a new one are the first of a sorted queue. *)
LEMMA ItemsAhead ==
    ASSUME TypeOK, SortedBy(queue, priority), NEW p \in Priority
    PROVE  /\ IndexFor(p) \in 0 .. Len(queue)
           /\ \A i \in 1 .. Len(queue) : priority[queue[i]] >= p <=> i <= IndexFor(p)
<1> DEFINE S == {i \in DOMAIN queue : priority[queue[i]] >= p}
<1>1. /\ Len(queue) \in Nat /\ DOMAIN queue = 1 .. Len(queue) /\ p \in Int
      /\ \A i \in 1 .. Len(queue) : queue[i] \in Task /\ priority[queue[i]] \in Int
  <2>1. Len(queue) \in Nat /\ DOMAIN queue = 1 .. Len(queue)
    BY DEF TypeOK
  <2>2. \A i \in 1 .. Len(queue) : queue[i] \in Task
    BY DEF TypeOK
  <2>3. \A t \in Task : priority[t] \in Int
    BY QueueAssumption DEF TypeOK, QueueAssumption
  <2>4. QED
    BY <2>1, <2>2, <2>3, QueueAssumption DEF QueueAssumption
<1>2. \A i \in S : \A j \in 1 .. i : j \in S
  <2> SUFFICES ASSUME NEW i \in S, NEW j \in 1 .. i PROVE j \in S
    OBVIOUS
  <2>1. i \in 1 .. Len(queue) /\ j \in 1 .. Len(queue) /\ j <= i
    BY <1>1
  <2>2. CASE j = i
    BY <2>2
  <2>3. CASE j < i
    <3>1. priority[queue[j]] >= priority[queue[i]]
      BY <1>1, <2>1, <2>3 DEF SortedBy
    <3>2. priority[queue[i]] >= p
      OBVIOUS
    <3>3. QED
      BY <1>1, <2>1, <3>1, <3>2
  <2>4. QED
    BY <2>1, <2>2, <2>3
<1>3. S \subseteq 1 .. Len(queue)
  BY <1>1
<1>4. IndexFor(p) = Cardinality(S)
  BY DEF IndexFor
<1>5. \A i \in 1 .. Len(queue) : i \in S <=> priority[queue[i]] >= p
  BY <1>1
<1> HIDE DEF S
<1>6. Cardinality(S) \in 0 .. Len(queue) /\ S = 1 .. Cardinality(S)
  BY <1>1, <1>2, <1>3, FirstPart
<1>7. QED
  BY <1>1, <1>4, <1>5, <1>6

(* The middle of a range. *)
LEMMA Middle ==
    ASSUME NEW lo \in Nat, NEW hi \in Nat, lo < hi
    PROVE  /\ (lo + hi) \div 2 \in Nat
           /\ lo <= (lo + hi) \div 2 /\ (lo + hi) \div 2 < hi
OBVIOUS

(* What the code's search returns: the number of items that stay ahead.    *)
(* By induction on the length of the range: it returns that number when it *)
(* lies in the range, and the end that is nearer to it otherwise.          *)
LEMMA SearchFindsIndex ==
    ASSUME TypeOK, SortedBy(queue, priority), NEW p \in Priority
    PROVE  BinarySearch(p) = IndexFor(p)
<1> DEFINE n == Len(queue)
           R == (0 .. n) \X (0 .. n)
           step(f) == [r \in R |->
               IF r[1] >= r[2] THEN r[1]
               ELSE IF priority[queue[((r[1] + r[2]) \div 2) + 1]] < p THEN f[<<r[1], (r[1] + r[2]) \div 2>>]
               ELSE f[<<((r[1] + r[2]) \div 2) + 1, r[2]>>]]
           search == CHOOSE f : f = step(f)
<1>1. BinarySearch(p) = search[<<0, n>>]
  BY DEF BinarySearch
<1>2. PICK k \in 0 .. n : k = IndexFor(p)
  BY ItemsAhead
<1>3. n \in Nat /\ \A i \in 1 .. n : priority[queue[i]] < p <=> i > k
  <2>1. n \in Nat /\ p \in Int /\ \A i \in 1 .. n : priority[queue[i]] \in Int
    <3>1. n \in Nat /\ \A i \in 1 .. n : queue[i] \in Task
      BY DEF TypeOK
    <3>2. \A t \in Task : priority[t] \in Int
      BY QueueAssumption DEF TypeOK, QueueAssumption
    <3>3. QED
      BY <3>1, <3>2, QueueAssumption DEF QueueAssumption
  <2>2. \A i \in 1 .. n : priority[queue[i]] >= p <=> i <= k
    BY <1>2, ItemsAhead
  <2>3. QED
    BY <2>1, <2>2
<1> HIDE DEF n
<1> DEFINE mid(lo, hi) == (lo + hi) \div 2
           goal(lo, hi) == IF lo >= hi \/ k <= lo THEN lo ELSE IF k >= hi THEN hi ELSE k
           solves(f) == \A lo, hi \in 0 .. n :
               f[<<lo, hi>>] = IF lo >= hi THEN lo
                               ELSE IF mid(lo, hi) >= k THEN f[<<lo, mid(lo, hi)>>]
                               ELSE f[<<mid(lo, hi) + 1, hi>>]
<1>4. ASSUME NEW lo \in 0 .. n, NEW hi \in 0 .. n, lo < hi
      PROVE  /\ mid(lo, hi) \in 0 .. n /\ mid(lo, hi) + 1 \in 0 .. n
             /\ lo <= mid(lo, hi) /\ mid(lo, hi) < hi
             /\ priority[queue[mid(lo, hi) + 1]] < p <=> mid(lo, hi) >= k
  <2>1. lo \in Nat /\ hi \in Nat /\ hi <= n
    BY <1>3
  <2>2. mid(lo, hi) \in Nat /\ lo <= mid(lo, hi) /\ mid(lo, hi) < hi
    BY <1>4, <2>1, Middle
  <2> HIDE DEF mid
  <2>3. mid(lo, hi) + 1 \in 1 .. n
    BY <1>3, <2>1, <2>2
  <2>4. QED
    BY <1>3, <2>1, <2>2, <2>3
<1> DEFINE solution == [r \in R |-> goal(r[1], r[2])]
<1>5. \A lo, hi \in 0 .. n : <<lo, hi>> \in R /\ solution[<<lo, hi>>] = goal(lo, hi)
  OBVIOUS
<1>6. solution = step(solution)
  <2> SUFFICES ASSUME NEW r \in R
               PROVE  goal(r[1], r[2]) =
                        IF r[1] >= r[2] THEN r[1]
                        ELSE IF priority[queue[mid(r[1], r[2]) + 1]] < p
                             THEN solution[<<r[1], mid(r[1], r[2])>>]
                        ELSE solution[<<mid(r[1], r[2]) + 1, r[2]>>]
    OBVIOUS
  <2>1. PICK lo \in 0 .. n, hi \in 0 .. n : r[1] = lo /\ r[2] = hi
    OBVIOUS
  <2> HIDE DEF mid, solution
  <2>2. CASE lo >= hi
    BY <2>1, <2>2
  <2>3. CASE lo < hi
    <3>1. /\ mid(lo, hi) \in 0 .. n /\ mid(lo, hi) + 1 \in 0 .. n
          /\ lo <= mid(lo, hi) /\ mid(lo, hi) < hi
          /\ priority[queue[mid(lo, hi) + 1]] < p <=> mid(lo, hi) >= k
      BY <1>4, <2>3
    <3>2. CASE mid(lo, hi) >= k
      <4>1. goal(lo, hi) = goal(lo, mid(lo, hi))
        BY <1>3, <2>3, <3>1, <3>2
      <4>2. QED
        BY <1>3, <1>5, <2>1, <2>3, <3>1, <3>2, <4>1
    <3>3. CASE mid(lo, hi) < k
      <4>1. goal(lo, hi) = goal(mid(lo, hi) + 1, hi)
        BY <1>3, <2>3, <3>1, <3>3
      <4>2. QED
        BY <1>3, <1>5, <2>1, <2>3, <3>1, <3>3, <4>1
    <3>4. QED
      BY <1>3, <3>1, <3>2, <3>3
  <2>4. QED
    BY <1>3, <2>2, <2>3
<1>7. search = step(search)
  BY <1>6
<1>8. solves(search)
  <2> SUFFICES ASSUME NEW lo \in 0 .. n, NEW hi \in 0 .. n
               PROVE  search[<<lo, hi>>] =
                        IF lo >= hi THEN lo
                        ELSE IF mid(lo, hi) >= k THEN search[<<lo, mid(lo, hi)>>]
                        ELSE search[<<mid(lo, hi) + 1, hi>>]
    OBVIOUS
  <2> HIDE DEF search
  <2>1. search[<<lo, hi>>] =
          IF lo >= hi THEN lo
          ELSE IF priority[queue[mid(lo, hi) + 1]] < p THEN search[<<lo, mid(lo, hi)>>]
          ELSE search[<<mid(lo, hi) + 1, hi>>]
    <3> DEFINE g == step(search)
    <3>1. g[<<lo, hi>>] = IF lo >= hi THEN lo
                          ELSE IF priority[queue[mid(lo, hi) + 1]] < p THEN search[<<lo, mid(lo, hi)>>]
                          ELSE search[<<mid(lo, hi) + 1, hi>>]
      BY <1>5
    <3>2. search = g
      BY <1>7
    <3> HIDE DEF g, mid
    <3>3. QED
      BY <3>1, <3>2
  <2>2. CASE lo >= hi
    BY <2>1, <2>2
  <2>3. CASE lo < hi
    <3>1. priority[queue[mid(lo, hi) + 1]] < p <=> mid(lo, hi) >= k
      BY <1>4, <2>3
    <3> HIDE DEF mid
    <3>2. QED
      BY <1>3, <2>1, <2>3, <3>1
  <2>4. QED
    BY <1>3, <2>2, <2>3
<1> HIDE DEF search, solution
<1>9. \A lo, hi \in 0 .. n : search[<<lo, hi>>] = goal(lo, hi)
  <2> DEFINE Off == {d \in Nat : \E lo, hi \in 0 .. n : d = hi - lo /\ search[<<lo, hi>>] # goal(lo, hi)}
  <2>1. Off = {}
    <3> SUFFICES ASSUME Off # {} PROVE FALSE
      OBVIOUS
    <3>1. PICK d \in Off : \A c \in Off : d <= c
      <4>1. Off \subseteq Nat
        OBVIOUS
      <4> HIDE DEF Off
      <4>2. QED
        BY <4>1, LeastMember
    <3>2. PICK lo \in 0 .. n, hi \in 0 .. n : d = hi - lo /\ search[<<lo, hi>>] # goal(lo, hi)
      OBVIOUS
    <3>3. lo < hi
      <4> SUFFICES ASSUME lo >= hi PROVE FALSE
        BY <1>3
      <4>1. search[<<lo, hi>>] = lo
        BY <1>8
      <4>2. goal(lo, hi) = lo
        OBVIOUS
      <4> HIDE DEF goal
      <4>3. QED
        BY <3>2, <4>1, <4>2
    <3>4. /\ mid(lo, hi) \in 0 .. n /\ mid(lo, hi) + 1 \in 0 .. n
          /\ lo <= mid(lo, hi) /\ mid(lo, hi) < hi
      BY <1>4, <3>3
    <3>5. /\ search[<<lo, hi>>] = IF mid(lo, hi) >= k THEN search[<<lo, mid(lo, hi)>>]
                                  ELSE search[<<mid(lo, hi) + 1, hi>>]
      <4>1. ~(lo >= hi)
        BY <1>3, <3>3
      <4>2. QED
        BY <1>8, <4>1
    <3>6. ASSUME NEW a \in 0 .. n, NEW b \in 0 .. n, b - a \in Nat, b - a < d
          PROVE  search[<<a, b>>] = goal(a, b)
      <4> SUFFICES ASSUME search[<<a, b>>] # goal(a, b) PROVE FALSE
        OBVIOUS
      <4> HIDE DEF goal
      <4>1. b - a \in Off
        BY <3>6
      <4> HIDE DEF Off
      <4>2. d <= b - a
        BY <3>1, <4>1
      <4>3. d \in Int
        BY <1>3, <3>2
      <4>4. QED
        BY <3>6, <4>2, <4>3
    <3> HIDE DEF mid, Off
    <3>7. search[<<lo, mid(lo, hi)>>] = goal(lo, mid(lo, hi))
      <4>1. mid(lo, hi) - lo \in Nat /\ mid(lo, hi) - lo < d
        BY <1>3, <3>2, <3>4
      <4>2. QED
        BY <3>4, <3>6, <4>1
    <3>8. search[<<mid(lo, hi) + 1, hi>>] = goal(mid(lo, hi) + 1, hi)
      <4>1. hi - (mid(lo, hi) + 1) \in Nat /\ hi - (mid(lo, hi) + 1) < d
        BY <1>3, <3>2, <3>4
      <4>2. QED
        BY <3>4, <3>6, <4>1
    <3>9. mid(lo, hi) >= k => goal(lo, hi) = goal(lo, mid(lo, hi))
      BY <1>3, <3>3, <3>4
    <3>10. ~(mid(lo, hi) >= k) => goal(lo, hi) = goal(mid(lo, hi) + 1, hi)
      BY <1>3, <3>3, <3>4
    <3> HIDE DEF goal
    <3>11. QED
      BY <3>2, <3>5, <3>7, <3>8, <3>9, <3>10
  <2>2. ASSUME NEW lo \in 0 .. n, NEW hi \in 0 .. n
        PROVE  search[<<lo, hi>>] = goal(lo, hi)
    <3>1. CASE lo >= hi
      BY <1>3, <1>8, <3>1
    <3>2. CASE lo < hi
      <4>1. hi - lo \in Nat
        BY <1>3, <3>2
      <4> HIDE DEF goal
      <4>2. QED
        BY <2>1, <4>1
    <3>3. QED
      BY <1>3, <3>1, <3>2
  <2>3. QED
    BY <2>2
<1>10. search[<<0, n>>] = goal(0, n) /\ goal(0, n) = k
  <2>1. 0 \in 0 .. n /\ n \in 0 .. n
    BY <1>3
  <2>2. goal(0, n) = k
    BY <1>3
  <2> HIDE DEF goal
  <2>3. QED
    BY <1>9, <2>1, <2>2
<1>11. QED
  BY <1>1, <1>2, <1>10

-----------------------------------------------------------------------------
(* The order in which tasks start, and what becomes of the cancelled ones. *)

(* A task that has not settled when its signal fired waits in the queue.   *)
CancelledWait(ab, out, ph) == \A t \in ab : out[t] = "none" => ph[t] = "queued"

(* Functions run for tasks that have started. *)
RunsHaveStarted(fs, ph) == \A t \in fs : ph[t] \notin {"new", "queued"}

Ordered ==
    /\ SortedBy(queue, priority)
    /\ CancelledWait(aborted, outcome, phase)
    /\ RunsHaveStarted(fns, phase)

(* What the steps promise: see StartsInOrder and CancelledNeverAnswers. *)
InOrderStep ==
    \A t, u \in Task :
        (phase'[t] \in {"running", "settled"} /\ phase[t] \in {"new", "queued"} /\ phase'[u] = "queued")
            => Before(t, u)'

NoAnswerStep ==
    \A t \in aborted : outcome[t] = "none" => outcome'[t] \in {"none", "cancelled", "closed"}

LEMMA SlotsInRange ==
    ASSUME NEW q \in Seq(Task), NEW a \in Nat
    PROVE  Slots(q, a) \in 0 .. Len(q)
<1>1. Len(q) \in Nat /\ Concurrency \in Nat
  BY QueueAssumption, EmptyHasNoElements DEF QueueAssumption
<1> DEFINE n == Len(q)
<1>2. Slots(q, a) = IF closed \/ Concurrency <= a THEN 0
                    ELSE IF n < Concurrency - a THEN n ELSE Concurrency - a
  BY Zenon DEF Slots
<1>3. n \in Nat
  BY <1>1
<1> HIDE DEF n
<1>4. CASE closed \/ Concurrency <= a
  BY <1>2, <1>3, <1>4 DEF n
<1>5. CASE ~(closed \/ Concurrency <= a)
  <2>1. Slots(q, a) = IF n < Concurrency - a THEN n ELSE Concurrency - a
    BY <1>2, <1>5
  <2>2. ~(Concurrency <= a)
    BY <1>5
  <2>3. QED
    BY <1>1, <1>3, <2>1, <2>2 DEF n
<1>6. QED
  BY <1>4, <1>5

(* pump starts the first tasks of the queue, and of these the cancelled    *)
(* ones settle as such.                                                    *)
LEMMA PumpOrder ==
    ASSUME TypeOK, NEW q \in Seq(Task), NEW a \in Nat, NEW ph \in [Task -> Phase], NEW pr,
           HoldsQueued(q, ph), SortedBy(q, pr), Pump(q, a, ph),
           CancelledWait(aborted, outcome, ph), RunsHaveStarted(fns, ph)
    PROVE  /\ SortedBy(queue', pr)
           /\ CancelledWait(aborted, outcome', phase')
           /\ RunsHaveStarted(fns', phase')
           /\ \A t, u \in Task :
                (/\ phase'[t] \in {"running", "settled"} /\ ph[t] \notin {"running", "settled"}
                 /\ phase'[u] = "queued")
                    => pr[t] > pr[u] \/ (pr[t] = pr[u] /\ t < u)
           /\ \A t \in Task : outcome'[t] \in {outcome[t], "cancelled"}
<1> DEFINE started == {q[i] : i \in 1 .. Slots(q, a)}
<1>1. Len(q) \in Nat /\ \A i \in 1 .. Len(q) : q[i] \in Task
  BY EmptyHasNoElements
<1>2. PICK n \in 0 .. Len(q) : n = Slots(q, a)
  BY SlotsInRange
<1>3. /\ queue' = SubSeq(q, n + 1, Len(q))
      /\ phase' = [t \in Task |-> IF t \notin started THEN ph[t]
                                  ELSE IF t \in aborted THEN "settled" ELSE "running"]
      /\ fns' = fns \cup (started \ aborted)
      /\ outcome' = SettledAs(outcome, started \cap aborted, "cancelled")
  BY <1>2 DEF Pump
<1>4. /\ \A i \in 1 .. n : i \in 1 .. Len(q) /\ q[i] \in started
      /\ \A t \in started : \E i \in 1 .. n : q[i] = t
  BY <1>1, <1>2
<1>5. started \subseteq Task
  BY <1>1, <1>4
<1> HIDE DEF started
<1>6. Len(queue') = Len(q) - n /\ \A i \in 1 .. Len(q) - n : queue'[i] = q[n + i]
  <2>1. ASSUME NEW k \in 0 .. Len(q)
        PROVE  /\ Len(SubSeq(q, k + 1, Len(q))) = Len(q) - k
               /\ \A i \in 1 .. Len(q) - k : SubSeq(q, k + 1, Len(q))[i] = q[k + i]
    OBVIOUS
  <2>2. QED
    BY <1>3, <2>1
<1>7. SortedBy(queue', pr)
  <2> SUFFICES ASSUME NEW i \in 1 .. Len(q) - n, NEW j \in 1 .. Len(q) - n, i < j
               PROVE  pr[q[n + i]] > pr[q[n + j]] \/ (pr[q[n + i]] = pr[q[n + j]] /\ q[n + i] < q[n + j])
    BY <1>6 DEF SortedBy
  <2>1. n + i \in 1 .. Len(q) /\ n + j \in 1 .. Len(q) /\ n + i < n + j
    BY <1>1
  <2>2. QED
    BY <2>1 DEF SortedBy
<1>8. \A t \in Task : t \notin started => phase'[t] = ph[t]
  BY <1>3
<1>9. \A t \in started : phase'[t] \in {"running", "settled"}
  BY <1>3, <1>5
<1>10. \A t \in Task : outcome'[t] = IF t \in started \cap aborted /\ outcome[t] = "none"
                                     THEN "cancelled" ELSE outcome[t]
  BY <1>3 DEF SettledAs
<1>11. CancelledWait(aborted, outcome', phase')
  <2> SUFFICES ASSUME NEW t \in aborted, outcome'[t] = "none" PROVE phase'[t] = "queued"
    BY DEF CancelledWait
  <2>1. t \in Task /\ outcome[t] = "none" /\ t \notin started
    BY <1>10 DEF TypeOK
  <2>2. QED
    BY <1>8, <2>1 DEF CancelledWait
<1>12. RunsHaveStarted(fns', phase')
  <2> SUFFICES ASSUME NEW t \in fns' PROVE phase'[t] \notin {"new", "queued"}
    BY DEF RunsHaveStarted
  <2>1. CASE t \in started
    BY <1>9, <2>1
  <2>2. CASE t \notin started
    BY <1>3, <1>8, <2>2 DEF RunsHaveStarted, TypeOK
  <2>3. QED
    BY <2>1, <2>2
<1>13. ASSUME NEW t \in Task, NEW u \in Task,
              phase'[t] \in {"running", "settled"}, ph[t] \notin {"running", "settled"},
              phase'[u] = "queued"
       PROVE  pr[t] > pr[u] \/ (pr[t] = pr[u] /\ t < u)
  <2>1. t \in started /\ u \notin started /\ ph[u] = "queued"
    BY <1>8, <1>9, <1>13
  <2>2. PICK i \in 1 .. n : q[i] = t
    BY <1>4, <2>1
  <2>3. PICK j \in 1 .. Len(q) : q[j] = u
    BY <2>1 DEF HoldsQueued
  <2>4. i \in 1 .. Len(q) /\ i < j
    BY <1>1, <1>4, <2>1, <2>3
  <2>5. QED
    BY <2>2, <2>3, <2>4 DEF SortedBy
<1>14. QED
  BY <1>7, <1>10, <1>11, <1>12, <1>13

(* A new task is put behind those of its own or a higher priority. *)
LEMMA InsertionKeepsOrder ==
    ASSUME TypeOK, SortedBy(queue, priority), NEW p \in Priority, NEW e \in Task,
           \A i \in 1 .. Len(queue) : queue[i] < e
    PROVE  SortedBy(InsertAt(queue, IndexFor(p) + 1, e), [priority EXCEPT ![e] = p])
<1> DEFINE q == InsertAt(queue, IndexFor(p) + 1, e)
           pr == [priority EXCEPT ![e] = p]
<1>1. /\ queue \in Seq(Task) /\ Len(queue) \in Nat /\ p \in Int
      /\ \A i \in 1 .. Len(queue) : queue[i] \in Task
  BY QueueAssumption DEF TypeOK, QueueAssumption
<1>2. PICK k \in 0 .. Len(queue) :
        k = IndexFor(p) /\ \A i \in 1 .. Len(queue) : priority[queue[i]] >= p <=> i <= k
  BY ItemsAhead
<1>3. /\ q \in Seq(Task) /\ Len(q) = Len(queue) + 1
      /\ \A i \in 1 .. Len(queue) + 1 :
           q[i] = IF i <= k THEN queue[i] ELSE IF i = k + 1 THEN e ELSE queue[i - 1]
  <2> DEFINE r == InsertAt(queue, k + 1, e)
  <2>1. q = r
    BY <1>2
  <2>2. /\ r \in Seq(Task) /\ Len(r) = Len(queue) + 1
        /\ \A i \in 1 .. Len(queue) + 1 :
             r[i] = IF i <= k THEN queue[i] ELSE IF i = k + 1 THEN e ELSE queue[i - 1]
    BY <1>1, Insertion
  <2> HIDE DEF q, r
  <2>3. QED
    BY <2>1, <2>2
<1>4. pr[e] = p /\ \A i \in 1 .. Len(queue) : pr[queue[i]] = priority[queue[i]] /\ pr[queue[i]] \in Int
  <2>1. ASSUME NEW i \in 1 .. Len(queue)
        PROVE  pr[queue[i]] = priority[queue[i]] /\ priority[queue[i]] \in Priority
    <3>1. queue[i] \in Task /\ queue[i] # e
      <4>1. queue[i] < e /\ queue[i] \in Int /\ queue[i] \in Task
        BY <1>1 DEF Task
      <4>2. QED
        BY <4>1
    <3>2. QED
      BY <3>1 DEF TypeOK
  <2>2. QED
    BY <2>1, QueueAssumption DEF TypeOK, QueueAssumption
<1> HIDE DEF q, pr
<1>5. SortedBy(q, pr)
  <2> DEFINE from(x) == IF x <= k THEN x ELSE x - 1
             Ahead(t, u) == pr[t] > pr[u] \/ (pr[t] = pr[u] /\ t < u)
  <2> SUFFICES ASSUME NEW i \in 1 .. Len(queue) + 1, NEW j \in 1 .. Len(queue) + 1, i < j
               PROVE  Ahead(q[i], q[j])
    BY <1>3 DEF SortedBy
  <2>1. ASSUME NEW x \in 1 .. Len(queue), NEW y \in 1 .. Len(queue), x < y
        PROVE  Ahead(queue[x], queue[y])
    BY <1>4, <2>1 DEF SortedBy
  <2>2. \A x \in 1 .. Len(queue) + 1 :
          x # k + 1 => from(x) \in 1 .. Len(queue) /\ q[x] = queue[from(x)]
    BY <1>1, <1>3
  <2>3. q[k + 1] = e
    BY <1>1, <1>3
  <2>4. CASE i # k + 1 /\ j # k + 1
    <3>1. from(i) < from(j)
      BY <1>1, <2>4
    <3> HIDE DEF Ahead, from
    <3>2. QED
      BY <2>1, <2>2, <2>4, <3>1
  <2>5. CASE i = k + 1
    <3>1. j # k + 1 /\ from(j) = j - 1 /\ ~(j - 1 <= k)
      BY <1>1, <2>5
    <3>2. from(j) \in 1 .. Len(queue) /\ q[j] = queue[j - 1]
      BY <2>2, <3>1
    <3>3. ~(priority[queue[j - 1]] >= p)
      BY <1>2, <3>1, <3>2
    <3>4. pr[q[j]] \in Int /\ ~(pr[q[j]] >= p)
      BY <1>4, <3>1, <3>2, <3>3
    <3>5. QED
      BY <1>1, <1>4, <2>3, <2>5, <3>4
  <2>6. CASE j = k + 1
    <3>1. i \in 1 .. Len(queue) /\ i <= k /\ q[i] = queue[i]
      BY <1>1, <1>3, <2>6
    <3>2. priority[queue[i]] >= p
      BY <1>2, <3>1
    <3>3. pr[q[i]] \in Int /\ pr[q[i]] >= p /\ q[i] < e
      BY <1>4, <3>1, <3>2
    <3>4. QED
      BY <1>1, <1>4, <2>3, <2>6, <3>3
  <2>7. QED
    BY <2>4, <2>5, <2>6
<1>6. QED
  BY <1>5 DEF q, pr

LEMMA EnqueueOrders ==
    ASSUME IInv, Ordered, NEW p \in Priority, Enqueue(p)
    PROVE  Ordered' /\ InOrderStep /\ NoAnswerStep
<1> DEFINE e == seq + 1
           q == InsertAt(queue, IndexFor(p) + 1, e)
           ph == [phase EXCEPT ![e] = "queued"]
           pr == [priority EXCEPT ![e] = p]
<1>1. TypeOK /\ Pump(q, active, ph) /\ priority' = pr /\ aborted' = aborted
  BY DEF IInv, Enqueue
<1>2. e \in Task /\ phase[e] = "new"
  BY QueueAssumption DEF Enqueue, IInv, TypeOK, Task, FutureIsNew, QueueAssumption
<1>3. /\ queue \in Seq(Task) /\ Len(queue) \in Nat
      /\ \A i \in 1 .. Len(queue) : queue[i] \in Task /\ phase[queue[i]] = "queued"
  BY DEF IInv, TypeOK, HoldsQueued
<1>4. \A i \in 1 .. Len(queue) : queue[i] < e
  <2> SUFFICES ASSUME NEW i \in 1 .. Len(queue) PROVE queue[i] < e
    OBVIOUS
  <2>1. queue[i] \in Int /\ seq \in Int
    BY <1>1, <1>3 DEF Task, TypeOK
  <2>2. ~(queue[i] > seq)
    BY <1>3 DEF IInv, FutureIsNew
  <2>3. QED
    BY <2>1, <2>2
<1>5. SortedBy(q, pr)
  BY <1>1, <1>2, <1>4, InsertionKeepsOrder DEF Ordered
<1>6. /\ ph \in [Task -> Phase] /\ ph[e] = "queued"
      /\ \A t \in Task : t # e => ph[t] = phase[t]
  BY <1>1, <1>2 DEF TypeOK, Phase
<1>7. q \in Seq(Task) /\ HoldsQueued(q, ph)
  BY <1>2, <1>3, <1>6, InsertionHolds DEF IInv
<1>8. CancelledWait(aborted, outcome, ph) /\ RunsHaveStarted(fns, ph)
  <2>1. CancelledWait(aborted, outcome, ph)
    BY <1>1, <1>2, <1>6 DEF Ordered, CancelledWait, TypeOK
  <2>2. RunsHaveStarted(fns, ph)
    BY <1>1, <1>2, <1>6 DEF Ordered, RunsHaveStarted, TypeOK
  <2>3. QED
    BY <2>1, <2>2
<1>9. active \in Nat
  BY <1>1 DEF TypeOK
<1> HIDE DEF e, q, ph, pr
<1>10. /\ SortedBy(queue', pr)
       /\ CancelledWait(aborted, outcome', phase')
       /\ RunsHaveStarted(fns', phase')
       /\ \A t, u \in Task :
            (/\ phase'[t] \in {"running", "settled"} /\ ph[t] \notin {"running", "settled"}
             /\ phase'[u] = "queued")
                => pr[t] > pr[u] \/ (pr[t] = pr[u] /\ t < u)
       /\ \A t \in Task : outcome'[t] \in {outcome[t], "cancelled"}
  BY <1>1, <1>5, <1>6, <1>7, <1>8, <1>9, PumpOrder
<1>11. Ordered'
  BY <1>1, <1>10 DEF Ordered
<1>12. InOrderStep
  <2>1. \A t \in Task : phase[t] \in {"new", "queued"} => ph[t] \notin {"running", "settled"}
    BY <1>6
  <2>2. QED
    BY <1>1, <1>10, <2>1 DEF InOrderStep, Before
<1>13. NoAnswerStep
  BY <1>1, <1>10 DEF NoAnswerStep, TypeOK
<1>14. QED
  BY <1>11, <1>12, <1>13

LEMMA FinallyOrders ==
    ASSUME IInv, Ordered, NEW t \in Task, Finally(t)
    PROVE  Ordered' /\ InOrderStep /\ NoAnswerStep
<1> DEFINE a == active - 1
           ph == [phase EXCEPT ![t] = "finished"]
<1>1. /\ TypeOK /\ Pump(queue, a, ph) /\ phase[t] = "settled"
      /\ priority' = priority /\ aborted' = aborted
  BY DEF IInv, Finally
<1>2. /\ queue \in Seq(Task) /\ Len(queue) \in Nat
      /\ \A i \in 1 .. Len(queue) : queue[i] \in Task /\ phase[queue[i]] = "queued"
  BY DEF IInv, TypeOK, HoldsQueued
<1>3. /\ ph \in [Task -> Phase] /\ ph[t] = "finished"
      /\ \A u \in Task : u # t => ph[u] = phase[u]
  BY <1>1 DEF TypeOK, Phase
<1> HIDE DEF ph
<1>4. HoldsQueued(queue, ph)
  <2>1. \A i \in 1 .. Len(queue) : ph[queue[i]] = "queued"
    BY <1>1, <1>2, <1>3
  <2>2. \A u \in Task : ph[u] = "queued" => phase[u] = "queued"
    BY <1>3
  <2>3. QED
    BY <2>1, <2>2 DEF IInv, HoldsQueued
<1>5. CancelledWait(aborted, outcome, ph) /\ RunsHaveStarted(fns, ph)
  <2>1. CancelledWait(aborted, outcome, ph)
    BY <1>1, <1>3 DEF Ordered, CancelledWait, TypeOK
  <2>2. RunsHaveStarted(fns, ph)
    BY <1>1, <1>3 DEF Ordered, RunsHaveStarted, TypeOK
  <2>3. QED
    BY <2>1, <2>2
<1>6. a \in Nat
  <2>1. HasSlot = SlotsOf(phase) /\ t \in HasSlot
    BY <1>1 DEF HasSlot, SlotsOf
  <2>2. active # 0
    <3>1. active = 0 => HasSlot = {}
      BY <2>1, SlotsAreFinite, FS_EmptySet DEF IInv, SlotsAreCounted
    <3>2. QED
      BY <2>1, <3>1
  <2>3. QED
    BY <1>1, <2>2 DEF TypeOK
<1> HIDE DEF a
<1>7. /\ SortedBy(queue', priority)
      /\ CancelledWait(aborted, outcome', phase')
      /\ RunsHaveStarted(fns', phase')
      /\ \A u, v \in Task :
           (/\ phase'[u] \in {"running", "settled"} /\ ph[u] \notin {"running", "settled"}
            /\ phase'[v] = "queued")
               => priority[u] > priority[v] \/ (priority[u] = priority[v] /\ u < v)
      /\ \A u \in Task : outcome'[u] \in {outcome[u], "cancelled"}
  BY <1>1, <1>2, <1>3, <1>4, <1>5, <1>6, PumpOrder DEF Ordered
<1>8. Ordered'
  BY <1>1, <1>7 DEF Ordered
<1>9. InOrderStep
  <2>1. \A u \in Task : phase[u] \in {"new", "queued"} => ph[u] \notin {"running", "settled"}
    BY <1>3
  <2>2. QED
    BY <1>1, <1>7, <2>1 DEF InOrderStep, Before
<1>10. NoAnswerStep
  BY <1>1, <1>7 DEF NoAnswerStep, TypeOK
<1>11. QED
  BY <1>8, <1>9, <1>10

LEMMA EndsOrders ==
    ASSUME IInv, Ordered, NEW t \in Task, Ends(t)
    PROVE  Ordered' /\ InOrderStep /\ NoAnswerStep
<1>1. /\ queue' = queue /\ priority' = priority /\ aborted' = aborted /\ fns' \subseteq fns
      /\ phase' = phase \/ (phase[t] = "running" /\ phase' = [phase EXCEPT ![t] = "settled"])
      /\ \E result \in {"answered", "timeout"} : outcome' = SettledAs(outcome, {t}, result)
      /\ t \in fns \/ phase[t] = "running"
  BY DEF Ends, TimesOut, FnEnds
<1>2. \A u \in Task : /\ phase'[u] = "queued" <=> phase[u] = "queued"
                      /\ phase'[u] \in {"new", "queued"} <=> phase[u] \in {"new", "queued"}
  BY <1>1 DEF IInv, TypeOK
<1>3. phase[t] \notin {"new", "queued"}
  BY <1>1 DEF Ordered, RunsHaveStarted
<1>4. \A u \in Task : u # t => outcome'[u] = outcome[u]
  BY <1>1 DEF SettledAs
<1>5. t \in aborted => outcome[t] # "none"
  BY <1>3 DEF Ordered, CancelledWait
<1>6. outcome[t] # "none" => outcome'[t] = outcome[t]
  BY <1>1 DEF SettledAs
<1>7. CancelledWait(aborted, outcome, phase)'
  BY <1>1, <1>2, <1>4, <1>5, <1>6 DEF Ordered, CancelledWait, IInv, TypeOK
<1>8. RunsHaveStarted(fns, phase)'
  BY <1>1, <1>2 DEF Ordered, RunsHaveStarted, IInv, TypeOK
<1>9. SortedBy(queue, priority)'
  BY <1>1 DEF Ordered, SortedBy
<1>10. InOrderStep
  BY <1>2 DEF InOrderStep
<1>11. NoAnswerStep
  BY <1>4, <1>5 DEF NoAnswerStep, IInv, TypeOK
<1>12. QED
  BY <1>7, <1>8, <1>9, <1>10, <1>11 DEF Ordered

(* A signal fires, a caller waits, or nothing happens. *)
LEMMA OthersOrder ==
    ASSUME IInv, Ordered,
           \/ \E t \in Task : Abort(t)
           \/ \E w \in Waiter : WaitIdle(w)
           \/ UNCHANGED vars
    PROVE  Ordered' /\ InOrderStep /\ NoAnswerStep
<1>1. queue' = queue /\ priority' = priority /\ phase' = phase /\ fns' = fns
  BY DEF Abort, WaitIdle, vars
<1>2. SortedBy(queue, priority)' /\ RunsHaveStarted(fns, phase)' /\ InOrderStep
  BY <1>1 DEF Ordered, SortedBy, RunsHaveStarted, InOrderStep
<1>3. CancelledWait(aborted, outcome, phase)' /\ NoAnswerStep
  <2>1. CASE aborted' = aborted /\ outcome' = outcome
    BY <1>1, <2>1 DEF Ordered, CancelledWait, NoAnswerStep
  <2>2. ASSUME NEW t \in Task, Abort(t)
        PROVE  CancelledWait(aborted, outcome, phase)' /\ NoAnswerStep
    <3>1. /\ aborted' = aborted \cup {t} /\ phase[t] \in {"queued", "running"}
          /\ outcome' = IF phase[t] = "running" THEN SettledAs(outcome, {t}, "cancelled") ELSE outcome
      BY <2>2 DEF Abort
    <3>2. \A u \in Task : u # t => outcome'[u] = outcome[u]
      BY <3>1 DEF SettledAs
    <3>3. outcome'[t] \in {outcome[t], "cancelled"} /\ (phase[t] = "running" => outcome'[t] # "none")
      BY <3>1 DEF SettledAs
    <3>4. CancelledWait(aborted, outcome, phase)'
      BY <1>1, <3>1, <3>2, <3>3 DEF Ordered, CancelledWait, IInv, TypeOK
    <3>5. NoAnswerStep
      BY <3>2, <3>3 DEF NoAnswerStep, IInv, TypeOK
    <3>6. QED
      BY <3>4, <3>5
  <2>3. QED
    BY <2>1, <2>2 DEF WaitIdle, vars
<1>4. QED
  BY <1>2, <1>3 DEF Ordered

LEMMA CloseOrders ==
    ASSUME IInv, Ordered, NEW w \in Waiter, Close(w)
    PROVE  Ordered' /\ InOrderStep /\ NoAnswerStep
<1> DEFINE all == {queue[i] : i \in DOMAIN queue}
<1>1. /\ queue' = <<>> /\ priority' = priority /\ fns' = fns /\ aborted' = aborted
      /\ phase' = [t \in Task |-> IF phase[t] = "queued" THEN "finished" ELSE phase[t]]
      /\ outcome' = SettledAs(outcome, all, "closed")
  BY DEF Close
<1>2. SortedBy(queue, priority)'
  BY <1>1 DEF SortedBy
<1>3. RunsHaveStarted(fns, phase)'
  BY <1>1 DEF Ordered, RunsHaveStarted, IInv, TypeOK
<1>4. \A t \in Task : phase[t] = "queued" => t \in all
  <2>1. DOMAIN queue = 1 .. Len(queue)
    BY DEF IInv, TypeOK
  <2>2. QED
    BY <2>1 DEF IInv, HoldsQueued
<1> HIDE DEF all
<1>5. \A t \in Task : outcome'[t] \in {outcome[t], "closed"} /\ (t \in all => outcome'[t] # "none")
  BY <1>1 DEF SettledAs
<1>6. CancelledWait(aborted, outcome, phase)'
  <2> SUFFICES ASSUME NEW t \in aborted, outcome'[t] = "none" PROVE FALSE
    BY <1>1 DEF CancelledWait
  <2>1. t \in Task /\ outcome[t] = "none" /\ t \notin all
    BY <1>5 DEF IInv, TypeOK
  <2>2. QED
    BY <1>4, <2>1 DEF Ordered, CancelledWait
<1>7. InOrderStep
  BY <1>1 DEF InOrderStep
<1>8. NoAnswerStep
  BY <1>5 DEF NoAnswerStep, IInv, TypeOK
<1>9. QED
  BY <1>2, <1>3, <1>6, <1>7, <1>8 DEF Ordered

LEMMA NextOrders == IInv /\ Ordered /\ [Next]_vars => Ordered' /\ InOrderStep /\ NoAnswerStep
<1> SUFFICES ASSUME IInv, Ordered, [Next]_vars PROVE Ordered' /\ InOrderStep /\ NoAnswerStep
  OBVIOUS
<1>1. CASE \E p \in Priority : Enqueue(p)
  BY <1>1, EnqueueOrders
<1>2. CASE \E t \in Task : Ends(t) \/ Finally(t)
  BY <1>2, EndsOrders, FinallyOrders
<1>3. CASE \E w \in Waiter : Close(w)
  BY <1>3, CloseOrders
<1>4. CASE (\E t \in Task : Abort(t)) \/ (\E w \in Waiter : WaitIdle(w)) \/ UNCHANGED vars
  BY <1>4, OthersOrder
<1>5. QED
  BY <1>1, <1>2, <1>3, <1>4 DEF Next

LEMMA StaysOrdered == Spec => []Ordered /\ [][InOrderStep /\ NoAnswerStep]_vars
<1>1. Init => Ordered
  BY DEF Init, Ordered, SortedBy, CancelledWait, RunsHaveStarted
<1>2. IInv /\ Ordered /\ [Next]_vars => Ordered' /\ InOrderStep /\ NoAnswerStep
  BY NextOrders
<1>3. QED
  BY <1>1, <1>2, Inductive, PTL DEF Spec

(* Tasks start by priority and, among equals, in the order they came in;   *)
(* and the code's binary search finds the place that makes it so.          *)
THEOREM TasksStartInOrder == Spec => StartsInOrder
<1>1. IInv /\ Ordered => \A p \in Priority : BinarySearch(p) = IndexFor(p)
  BY SearchFindsIndex DEF IInv, Ordered
<1>2. InOrderStep => \A t, u \in Task :
        (phase'[t] \in {"running", "settled"} /\ phase[t] \in {"new", "queued"} /\ phase'[u] = "queued")
            => Before(t, u)'
  BY DEF InOrderStep
<1>3. QED
  BY <1>1, <1>2, Inductive, StaysOrdered, PTL DEF StartsInOrder

(* A task whose signal fired before it settled never reports a result. *)
THEOREM CancelledTasksGiveNoAnswer == Spec => CancelledNeverAnswers
<1>1. NoAnswerStep =>
        \A t \in aborted : outcome[t] = "none" => outcome'[t] \in {"none", "cancelled", "closed"}
  BY DEF NoAnswerStep
<1>2. QED
  BY <1>1, StaysOrdered, PTL DEF CancelledNeverAnswers

=============================================================================
