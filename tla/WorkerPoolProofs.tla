--------------------------- MODULE WorkerPoolProofs ---------------------------
(***************************************************************************)
(* For any tasks and any number of workers, and whichever threads crash or *)
(* exit when: no task gets the answer of another, slots are lost to faults *)
(* only, and close() stops the threads it reaches.                         *)
(***************************************************************************)
EXTENDS WorkerPool, SequencesExt, SequenceTheorems, FiniteSetTheorems, WellFoundedInduction, TLAPS

(* Facts about numbers, sets and sequences, without the variables of the   *)
(* model.                                                                  *)

(* A set of natural numbers that has a member has a least one: induction   *)
(* in the form of a statement about sets.                                  *)
LEMMA LeastMember ==
    ASSUME NEW T, T \subseteq Nat, T # {}
    PROVE  \E n \in T : \A m \in T : n <= m
<1> DEFINE R == OpToRel(<, Nat)
<1>1. IsWellFoundedOn(R, Nat)
  BY NatLessThanWellFounded
<1>2. \A m, n \in Nat : m < n => <<m, n>> \in R
  BY DEF OpToRel
<1> HIDE DEF R
<1>3. PICK n \in T : \A m \in T : ~(<<m, n>> \in R)
  BY <1>1, WFMin
<1>4. ASSUME NEW m \in T PROVE n <= m
  <2>1. m \in Nat /\ n \in Nat
    OBVIOUS
  <2>2. ~(m < n)
    BY <2>1, <1>2, <1>3
  <2>3. QED
    BY <2>1, <2>2
<1>5. QED
  BY <1>4

(* Sequences of one and two elements. *)
LEMMA PairOfSingles ==
    ASSUME NEW a, NEW b
    PROVE  <<a>> \o <<b>> = <<a, b>>
<1> DEFINE S == {a, b}
           s == <<a>> \o <<b>>
           t == <<a, b>>
<1>1. <<a>> \in Seq(S) /\ <<b>> \in Seq(S) /\ t \in Seq(S)
  OBVIOUS
<1>2. /\ Len(<<a>>) = 1 /\ Len(<<b>>) = 1 /\ Len(t) = 2
      /\ <<a>>[1] = a /\ <<b>>[1] = b /\ t[1] = a /\ t[2] = b
  OBVIOUS
<1>3. s \in Seq(S) /\ Len(s) = 2 /\ s[1] = a /\ s[2] = b
  BY <1>1, <1>2
<1> HIDE DEF s, t
<1>4. \A i \in 1 .. Len(s) : s[i] = t[i]
  BY <1>2, <1>3
<1>5. s = t
  BY <1>1, <1>2, <1>3, <1>4, SeqEqual
<1>6. QED
  BY <1>5 DEF s, t

LEMMA ShortSequences ==
    ASSUME NEW a, NEW b
    PROVE  /\ <<a>> # <<>> /\ <<a, b>> # <<>>
           /\ Head(<<a>>) = a /\ Tail(<<a>>) = <<>>
           /\ Head(<<a, b>>) = a /\ Tail(<<a, b>>) = <<b>>
           /\ Append(<<>>, a) = <<a>> /\ <<>> \o <<a>> = <<a>> /\ <<>> \o <<>> = <<>>
           /\ <<a>> \o <<b>> = <<a, b>> /\ <<a>> \o <<>> = <<a>>
<1>1. <<a>> # <<>> /\ <<a, b>> # <<>>
  OBVIOUS
<1>2. Head(<<a>>) = a /\ Head(<<a, b>>) = a
  OBVIOUS
<1>3. Tail(<<a>>) = <<>> /\ Tail(<<a, b>>) = <<b>>
  OBVIOUS
<1>4. Append(<<>>, a) = <<a>>
  OBVIOUS
<1>5. <<>> \o <<a>> = <<a>> /\ <<a>> \o <<>> = <<a>>
  OBVIOUS
<1>6. <<>> \o <<>> = <<>>
  OBVIOUS
<1>7. QED
  BY <1>1, <1>2, <1>3, <1>4, <1>5, <1>6, PairOfSingles

-----------------------------------------------------------------------------

(* What a slot may look like while the pool is open. A task that is with a *)
(* thread is the one in pending, and so is one whose answer is on its way; *)
(* only an error event can come behind that answer.                        *)
Unused(i) ==
    /\ thread[i] = "none" /\ i > size
    /\ pending[i] = NoTask /\ work[i] = {} /\ events[i] = <<>>

Living(i) ==
    /\ thread[i] = "alive" /\ i <= size /\ worker[i] = "object"
    /\ \/ pending[i] \in Unclonable \cup {NoTask} /\ work[i] = {} /\ events[i] = <<>>
       \/ pending[i] \in Task /\ work[i] = {pending[i]} /\ events[i] = <<>>
       \/ pending[i] \in Task /\ work[i] = {} /\ events[i] = <<pending[i]>>

Dead(i) ==
    /\ thread[i] = "dead" /\ i <= size /\ work[i] = {}
    /\ \/ events[i] \in {<<>>, <<CrashEvent>>}
       \/ pending[i] \in Task /\ events[i] \in {<<pending[i]>>, <<pending[i], CrashEvent>>}

OpenSlots == ~closed => \A i \in Slot : Unused(i) \/ Living(i) \/ Dead(i)

ClosedSlots == closed => size = 0 /\ \A i \in Slot : pending[i] = NoTask

(* The inductive invariant. *)
IInv == TypeOK /\ OpenSlots /\ ClosedSlots /\ AnswersAreOwn /\ CloseStopsThreads

-----------------------------------------------------------------------------
(* The least of the free slots is one of them. *)
LEMMA FirstFreeSlot ==
    ASSUME TypeOK, FreeSlots # {}
    PROVE  Min(FreeSlots) \in Slot /\ Min(FreeSlots) <= size /\ pending[Min(FreeSlots)] = NoTask
<1>1. FreeSlots \subseteq Nat
  BY PoolAssumption DEF FreeSlots, TypeOK, PoolAssumption
<1>2. \E n \in FreeSlots : \A m \in FreeSlots : n <= m
  BY <1>1, LeastMember
<1>3. Min(FreeSlots) \in FreeSlots
  BY <1>2 DEF Min
<1>4. QED
  BY <1>3, PoolAssumption DEF FreeSlots, TypeOK, Slot, PoolAssumption

-----------------------------------------------------------------------------

LEMMA InitEstablishes == Init => IInv
<1> SUFFICES ASSUME Init PROVE IInv
  OBVIOUS
<1> USE PoolAssumption DEF Init, PoolAssumption, Slot
<1>1. TypeOK
  <2>1. events \in [Slot -> Seq(Task \cup {CrashEvent})]
    OBVIOUS
  <2>2. work \in [Slot -> SUBSET Task] /\ givenUp \subseteq Task
    OBVIOUS
  <2>3. worker \in [Slot -> {"object", "undefined"}] /\ pending \in [Slot -> Task \cup {NoTask}]
    OBVIOUS
  <2>4. thread \in [Slot -> Thread] /\ runtime \in Runtime
    BY DEF Thread, Runtime
  <2>5. state \in [Task -> TaskState] /\ answer \in [Task -> Task \cup {NoTask}]
    BY DEF TaskState
  <2>6. size \in 0 .. Count /\ closed \in BOOLEAN
    <3>1. size = 0 /\ Count \in Nat /\ closed = FALSE
      BY Zenon
    <3>2. size \in 0 .. Count
      BY ONLY <3>1
    <3>3. closed \in BOOLEAN
      BY <3>1, Zenon
    <3>4. QED
      BY <3>2, <3>3
  <2>7. QED
    BY <2>1, <2>2, <2>3, <2>4, <2>5, <2>6 DEF TypeOK
<1>2. \A i \in Slot : Unused(i)
  BY DEF Unused
<1>3. QED
  BY <1>1, <1>2 DEF IInv, OpenSlots, ClosedSlots, AnswersAreOwn, CloseStopsThreads

(* A slot of the open pool that no part of a step touches keeps its form.  *)
LEMMA UntouchedSlot ==
    ASSUME NEW i \in Slot, Unused(i) \/ Living(i) \/ Dead(i),
           thread'[i] = thread[i], worker'[i] = worker[i], pending'[i] = pending[i],
           work'[i] = work[i], events'[i] = events[i],
           size' = size \/ ((i <= size => i <= size') /\ (i > size => i > size'))
    PROVE  (Unused(i) \/ Living(i) \/ Dead(i))'
BY DEF Unused, Living, Dead

(* A task is given to the first free slot. *)
LEMMA ReusesPreserves ==
    ASSUME IInv, ~closed, NEW t \in Task, RunReuses(t),
           UNCHANGED <<runtime, closed, events, answer, givenUp>>
    PROVE  IInv'
<1> USE DEF IInv
<1>0. PICK k \in Slot : k = Min(FreeSlots)
  BY FirstFreeSlot DEF RunReuses
<1> DEFINE posted == worker[k] = "object" /\ t \notin Unclonable
<1>1. k \in Slot /\ k <= size /\ pending[k] = NoTask /\ ~(k > size)
  <2>1. k \in Slot /\ k <= size /\ pending[k] = NoTask
    BY <1>0, FirstFreeSlot DEF RunReuses
  <2>2. k \in Nat /\ size \in Nat
    BY <2>1, PoolAssumption DEF Slot, TypeOK, PoolAssumption
  <2>3. QED
    BY <2>1, <2>2
<1>2. /\ pending' = [pending EXCEPT ![k] = t]
      /\ work' = IF posted /\ thread[k] = "alive" THEN [work EXCEPT ![k] = @ \cup {t}] ELSE work
      /\ state' = [state EXCEPT ![t] = IF posted THEN "assigned" ELSE "refused"]
      /\ UNCHANGED <<size, worker, thread>>
  BY <1>0 DEF RunReuses, Assign
<1>3. TypeOK'
  BY <1>1, <1>2 DEF TypeOK, TaskState
<1>4. ASSUME NEW i \in Slot, i # k PROVE (Unused(i) \/ Living(i) \/ Dead(i))'
  <2>1. pending'[i] = pending[i] /\ work'[i] = work[i]
    BY <1>2, <1>4 DEF TypeOK
  <2>2. Unused(i) \/ Living(i) \/ Dead(i)
    BY DEF OpenSlots
  <2>3. QED
    BY <2>1, <2>2, <1>2, UntouchedSlot
<1>5. (Unused(k) \/ Living(k) \/ Dead(k))'
  <2>1. pending'[k] = t
    BY <1>1, <1>2 DEF TypeOK
  <2>2. ~Unused(k) /\ (Living(k) \/ Dead(k))
    BY <1>1 DEF OpenSlots, Unused
  <2>3. CASE Living(k)
    <3>1. work[k] = {} /\ events[k] = <<>> /\ worker[k] = "object" /\ thread[k] = "alive"
      BY <2>3, <1>1, PoolAssumption DEF Living, PoolAssumption
    <3>2. work'[k] = IF t \in Unclonable THEN {} ELSE {t}
      BY <3>1, <1>1, <1>2 DEF TypeOK
    <3>3. QED
      BY <2>1, <2>3, <3>1, <3>2, <1>2 DEF Living
  <2>4. CASE Dead(k)
    <3>1. thread[k] = "dead" /\ events[k] \in {<<>>, <<CrashEvent>>}
      BY <2>4, <1>1, PoolAssumption DEF Dead, PoolAssumption
    <3>2. work' = work
      BY <3>1, <1>2
    <3>3. QED
      BY <2>4, <3>1, <3>2, <1>2 DEF Dead
  <2>5. QED
    BY <2>2, <2>3, <2>4
<1>6. OpenSlots'
  <2> SUFFICES ASSUME NEW i \in Slot PROVE (Unused(i) \/ Living(i) \/ Dead(i))'
    BY DEF OpenSlots
  <2>1. CASE i = k
    BY <2>1, <1>5
  <2>2. CASE i # k
    BY <2>2, <1>4
  <2>3. QED
    BY <2>1, <2>2
<1>7. ClosedSlots' /\ AnswersAreOwn' /\ CloseStopsThreads'
  BY DEF ClosedSlots, AnswersAreOwn, CloseStopsThreads
<1>8. QED
  BY <1>3, <1>6, <1>7

(* A worker is started for a task. *)
LEMMA SpawnsPreserves ==
    ASSUME IInv, ~closed, NEW t \in Task, RunSpawns(t),
           UNCHANGED <<runtime, closed, events, answer, givenUp>>
    PROVE  IInv'
<1> USE DEF IInv
<1>0. PICK k \in Nat : k = size + 1
  BY PoolAssumption DEF TypeOK, PoolAssumption
<1>1. k \in Slot /\ size \in Nat /\ size' = k /\ k > size /\ ~(k <= size) /\ k <= k
  BY <1>0, PoolAssumption DEF RunSpawns, TypeOK, Slot, PoolAssumption
<1>2. /\ worker' = [worker EXCEPT ![k] = "object"]
      /\ thread' = [thread EXCEPT ![k] = "alive"]
      /\ pending' = [pending EXCEPT ![k] = t]
      /\ work' = IF t \notin Unclonable THEN [work EXCEPT ![k] = @ \cup {t}] ELSE work
      /\ state' = [state EXCEPT ![t] = IF t \notin Unclonable THEN "assigned" ELSE "refused"]
  <2>1. worker' = [worker EXCEPT ![k] = "object"] /\ thread' = [thread EXCEPT ![k] = "alive"]
    BY <1>0 DEF RunSpawns
  <2>2. worker'[k] = "object" /\ thread'[k] = "alive"
    BY <2>1, <1>1 DEF TypeOK
  <2>3. QED
    BY <2>1, <2>2, <1>0 DEF RunSpawns, Assign
<1>3. TypeOK'
  BY <1>1, <1>2, PoolAssumption DEF TypeOK, TaskState, Thread, Slot, PoolAssumption
<1>4. ASSUME NEW i \in Slot, i # k PROVE (Unused(i) \/ Living(i) \/ Dead(i))'
  <2>1. /\ pending'[i] = pending[i] /\ work'[i] = work[i]
        /\ worker'[i] = worker[i] /\ thread'[i] = thread[i]
    BY <1>2, <1>4 DEF TypeOK
  <2>2. Unused(i) \/ Living(i) \/ Dead(i)
    BY DEF OpenSlots
  <2>3. (i <= size => i <= size') /\ (i > size => i > size')
    BY <1>0, <1>1, <1>4, PoolAssumption DEF Slot, PoolAssumption
  <2>4. QED
    BY <2>1, <2>2, <2>3, UntouchedSlot
<1>5. (Unused(k) \/ Living(k) \/ Dead(k))'
  <2>1. Unused(k)
    BY <1>1 DEF OpenSlots, Living, Dead
  <2>2. /\ pending'[k] = t /\ worker'[k] = "object" /\ thread'[k] = "alive"
        /\ work'[k] = IF t \in Unclonable THEN {} ELSE {t}
        /\ events'[k] = <<>> /\ k <= size'
    BY <1>1, <1>2, <2>1 DEF TypeOK, Unused
  <2>3. Living(k)'
    BY <2>2 DEF Living
  <2>4. QED
    BY <2>3
<1>6. OpenSlots'
  <2> SUFFICES ASSUME NEW i \in Slot PROVE (Unused(i) \/ Living(i) \/ Dead(i))'
    BY DEF OpenSlots
  <2>1. CASE i = k
    BY <2>1, <1>5
  <2>2. CASE i # k
    BY <2>2, <1>4
  <2>3. QED
    BY <2>1, <2>2
<1>7. ClosedSlots' /\ AnswersAreOwn' /\ CloseStopsThreads'
  BY DEF ClosedSlots, AnswersAreOwn, CloseStopsThreads
<1>8. QED
  BY <1>3, <1>6, <1>7

(* A step that changes promises only. *)
LEMMA PromisesOnlyPreserves ==
    ASSUME IInv, state' \in [Task -> TaskState], givenUp' \subseteq Task,
           UNCHANGED <<runtime, poolVars, threadVars, answer>>
    PROVE  IInv'
<1> USE DEF IInv, poolVars, threadVars
<1>1. TypeOK' /\ ClosedSlots' /\ AnswersAreOwn' /\ CloseStopsThreads'
  BY DEF TypeOK, ClosedSlots, AnswersAreOwn, CloseStopsThreads
<1>2. OpenSlots'
  BY DEF OpenSlots, Unused, Living, Dead
<1>3. QED
  BY <1>1, <1>2

LEMMA RunPreserves == ASSUME IInv, NEW t \in Task, Run(t) PROVE IInv'
<1>1. CASE RunReuses(t)
  BY <1>1, ReusesPreserves DEF Run
<1>2. CASE RunSpawns(t)
  BY <1>2, SpawnsPreserves DEF Run
<1>3. CASE RunPolls(t)
  <2>1. state' \in [Task -> TaskState]
    BY <1>3 DEF RunPolls, IInv, TypeOK, TaskState
  <2>2. QED
    BY <2>1, <1>3, PromisesOnlyPreserves DEF Run, RunPolls, IInv, TypeOK, poolVars, threadVars
<1>4. QED
  BY <1>1, <1>2, <1>3 DEF Run

LEMMA PollPreserves == ASSUME IInv, NEW t \in Task, Poll(t) PROVE IInv'
<1>1. CASE ~closed /\ RunReuses(t)
  BY <1>1, ReusesPreserves DEF Poll
<1>2. CASE ~(~closed /\ RunReuses(t))
  <2>1. state' \in [Task -> TaskState]
    BY <1>2 DEF Poll, IInv, TypeOK, TaskState
  <2>2. QED
    BY <2>1, <1>2, PromisesOnlyPreserves DEF Poll, IInv, TypeOK, poolVars, threadVars
<1>3. QED
  BY <1>1, <1>2

LEMMA GiveUpPreserves == ASSUME IInv, NEW t \in Task, GiveUp(t) PROVE IInv'
BY PromisesOnlyPreserves DEF GiveUp, IInv, TypeOK, poolVars, threadVars

-----------------------------------------------------------------------------
(* A step of one slot: the forms of the others stay as they are. *)
LEMMA OneSlot ==
    ASSUME IInv, NEW i \in Slot,
           ~closed => (Unused(i) \/ Living(i) \/ Dead(i))',
           UNCHANGED <<size, closed>>,
           \A j \in Slot \ {i} :
               /\ thread'[j] = thread[j] /\ worker'[j] = worker[j] /\ pending'[j] = pending[j]
               /\ work'[j] = work[j] /\ events'[j] = events[j]
    PROVE  OpenSlots'
<1> SUFFICES ASSUME ~closed, NEW j \in Slot PROVE (Unused(j) \/ Living(j) \/ Dead(j))'
  BY DEF OpenSlots
<1>1. CASE j = i
  BY <1>1
<1>2. CASE j # i
  <2>1. Unused(j) \/ Living(j) \/ Dead(j)
    BY DEF IInv, OpenSlots
  <2>2. QED
    BY <1>2, <2>1, UntouchedSlot
<1>3. QED
  BY <1>1, <1>2

(* A thread answers the one task it has. *)
LEMMA ComputePreserves == ASSUME IInv, NEW i \in Slot, Compute(i) PROVE IInv'
<1> USE DEF IInv
<1>1. PICK t \in work[i] : /\ work' = [work EXCEPT ![i] = @ \ {t}]
                           /\ events' = [events EXCEPT ![i] = Append(@, t)]
  BY DEF Compute
<1>2. /\ thread[i] = "alive"
      /\ UNCHANGED <<runtime, size, worker, pending, closed, thread, state, answer, givenUp>>
  BY DEF Compute, poolVars
<1>3. TypeOK'
  <2>1. t \in Task /\ events[i] \in Seq(Task \cup {CrashEvent})
    BY <1>1 DEF TypeOK
  <2>2. Append(events[i], t) \in Seq(Task \cup {CrashEvent})
    BY <2>1
  <2>3. events' \in [Slot -> Seq(Task \cup {CrashEvent})]
    BY <1>1, <2>2 DEF TypeOK
  <2>4. work' \in [Slot -> SUBSET Task]
    BY <1>1 DEF TypeOK
  <2>5. QED
    BY <1>2, <2>3, <2>4 DEF TypeOK
<1>4. ASSUME ~closed PROVE Living(i)'
  <2>1. Living(i)
    BY <1>2, <1>4 DEF OpenSlots, Unused, Dead
  <2>2. pending[i] \in Task /\ work[i] = {pending[i]} /\ events[i] = <<>>
    BY <1>1, <2>1 DEF Living
  <2>3. work'[i] = {} /\ events'[i] = Append(<<>>, pending[i])
    BY <1>1, <2>2 DEF TypeOK
  <2>4. events'[i] = <<pending[i]>>
    BY <2>3, ShortSequences
  <2>5. QED
    BY <1>2, <2>1, <2>2, <2>3, <2>4 DEF Living
<1>5. \A j \in Slot \ {i} : work'[j] = work[j] /\ events'[j] = events[j]
  BY <1>1 DEF TypeOK
<1>6. OpenSlots'
  BY <1>2, <1>4, <1>5, OneSlot
<1>7. ClosedSlots' /\ AnswersAreOwn' /\ CloseStopsThreads'
  BY <1>2 DEF ClosedSlots, AnswersAreOwn, CloseStopsThreads
<1>8. QED
  BY <1>3, <1>6, <1>7

(* A thread ends, with an error event behind what it has sent or without. *)
LEMMA DiesPreserves ==
    ASSUME IInv, NEW i \in Slot, NEW sent \in {<<>>, <<CrashEvent>>}, Dies(i, sent)
    PROVE  IInv'
<1> USE DEF IInv
<1>1. /\ thread[i] = "alive"
      /\ thread' = [thread EXCEPT ![i] = "dead"]
      /\ work' = [work EXCEPT ![i] = {}]
      /\ events' = [events EXCEPT ![i] = @ \o sent]
      /\ UNCHANGED <<runtime, size, worker, pending, closed, state, answer, givenUp>>
  BY DEF Dies, poolVars
<1>2. TypeOK'
  <2>1. events[i] \in Seq(Task \cup {CrashEvent}) /\ sent \in Seq(Task \cup {CrashEvent})
    <3>1. <<>> \in Seq(Task \cup {CrashEvent}) /\ <<CrashEvent>> \in Seq(Task \cup {CrashEvent})
      OBVIOUS
    <3>2. events[i] \in Seq(Task \cup {CrashEvent})
      BY DEF TypeOK
    <3>3. QED
      BY <3>1, <3>2
  <2>2. events[i] \o sent \in Seq(Task \cup {CrashEvent})
    BY <2>1
  <2>3. events' \in [Slot -> Seq(Task \cup {CrashEvent})]
    BY <1>1, <2>2 DEF TypeOK
  <2>4. thread' \in [Slot -> Thread] /\ work' \in [Slot -> SUBSET Task]
    BY <1>1 DEF TypeOK, Thread
  <2>5. QED
    BY <1>1, <2>3, <2>4 DEF TypeOK
<1>3. ASSUME ~closed PROVE Dead(i)'
  <2>1. Living(i)
    BY <1>1, <1>3 DEF OpenSlots, Unused, Dead
  <2>2. /\ thread'[i] = "dead" /\ i <= size' /\ work'[i] = {}
        /\ events'[i] = events[i] \o sent /\ pending'[i] = pending[i]
    BY <1>1, <2>1 DEF TypeOK, Living
  <2>3. CASE events[i] = <<>>
    <3>1. events'[i] \in {<<>>, <<CrashEvent>>}
      BY <2>2, <2>3, ShortSequences
    <3>2. QED
      BY <2>2, <3>1 DEF Dead
  <2>4. CASE pending[i] \in Task /\ events[i] = <<pending[i]>>
    <3>1. events'[i] \in {<<pending[i]>>, <<pending[i], CrashEvent>>}
      BY <2>2, <2>4, ShortSequences
    <3>2. QED
      BY <2>2, <2>4, <3>1 DEF Dead
  <2>5. QED
    BY <2>1, <2>3, <2>4 DEF Living
<1>4. \A j \in Slot \ {i} : thread'[j] = thread[j] /\ work'[j] = work[j] /\ events'[j] = events[j]
  BY <1>1 DEF TypeOK
<1>5. OpenSlots'
  BY <1>1, <1>3, <1>4, OneSlot
<1>6. CloseStopsThreads'
  <2> SUFFICES ASSUME closed, NEW j \in Slot, thread'[j] = "alive"
               PROVE  runtime = "bun" /\ \E m \in 1 .. j : thread'[m] = "dead"
    BY <1>1 DEF CloseStopsThreads
  <2>1. thread[j] = "alive"
    BY <1>1 DEF TypeOK
  <2>2. PICK m \in 1 .. j : thread[m] = "dead"
    BY <2>1 DEF CloseStopsThreads
  <2>3. m \in Slot
    BY PoolAssumption DEF Slot, PoolAssumption
  <2>4. thread'[m] = "dead"
    BY <1>1, <2>2, <2>3 DEF TypeOK
  <2>5. QED
    BY <2>1, <2>4 DEF CloseStopsThreads
<1>7. ClosedSlots' /\ AnswersAreOwn'
  BY <1>1 DEF ClosedSlots, AnswersAreOwn
<1>8. QED
  BY <1>2, <1>5, <1>6, <1>7

-----------------------------------------------------------------------------
(* What the first event of a slot of the open pool is. *)
LEMMA FirstEvent ==
    ASSUME IInv, ~closed, NEW i \in Slot, events[i] # <<>>
    PROVE  /\ Living(i) \/ Dead(i)
           /\ work[i] = {}
           /\ \/ pending[i] \in Task /\ Head(events[i]) = pending[i]
              \/ Head(events[i]) = CrashEvent /\ Dead(i)
           /\ Head(events[i]) = CrashEvent => Tail(events[i]) = <<>>
           /\ Tail(events[i]) \in {<<>>, <<CrashEvent>>}
           /\ Living(i) => Tail(events[i]) = <<>>
<1> USE PoolAssumption DEF PoolAssumption
<1>1. Living(i) \/ Dead(i)
  BY DEF IInv, OpenSlots, Unused
<1>2. CASE Living(i)
  <2>1. pending[i] \in Task /\ work[i] = {} /\ events[i] = <<pending[i]>>
    BY <1>2 DEF Living
  <2>2. Head(events[i]) = pending[i] /\ Tail(events[i]) = <<>>
    BY <2>1, ShortSequences
  <2>3. QED
    BY <1>2, <2>1, <2>2
<1>3. CASE Dead(i)
  <2>1. work[i] = {} /\ ~Living(i)
    BY <1>3 DEF Dead, Living
  <2>2. CASE events[i] = <<CrashEvent>>
    <3>1. Head(events[i]) = CrashEvent /\ Tail(events[i]) = <<>>
      BY <2>2, ShortSequences
    <3>2. QED
      BY <1>3, <2>1, <3>1
  <2>3. CASE pending[i] \in Task /\ events[i] \in {<<pending[i]>>, <<pending[i], CrashEvent>>}
    <3>1. CASE events[i] = <<pending[i]>>
      <4>1. Head(events[i]) = pending[i] /\ Tail(events[i]) = <<>>
        BY <3>1, ShortSequences
      <4>2. QED
        BY <1>3, <2>1, <2>3, <4>1
    <3>2. CASE events[i] = <<pending[i], CrashEvent>>
      <4>1. Head(events[i]) = pending[i] /\ Tail(events[i]) = <<CrashEvent>>
        BY <3>2, ShortSequences
      <4>2. QED
        BY <1>3, <2>1, <2>3, <4>1
    <3>3. QED
      BY <2>3, <3>1, <3>2
  <2>4. QED
    BY <1>3, <2>2, <2>3 DEF Dead
<1>4. QED
  BY <1>1, <1>2, <1>3

LEMMA SettlingIsTyped ==
    ASSUME TypeOK, NEW i \in Slot, NEW result \in TaskState, SettlePending(i, result)
    PROVE  state' \in [Task -> TaskState]
BY DEF SettlePending, TypeOK

LEMMA TailIsTyped ==
    ASSUME TypeOK, NEW i \in Slot, events[i] # <<>>, events' = [events EXCEPT ![i] = Tail(@)]
    PROVE  events' \in [Slot -> Seq(Task \cup {CrashEvent})]
<1>1. Tail(events[i]) \in Seq(Task \cup {CrashEvent})
  BY DEF TypeOK
<1>2. QED
  BY <1>1 DEF TypeOK

(* The message listener. *)
LEMMA HandleMessagePreserves == ASSUME IInv, NEW i \in Slot, HandleMessage(i) PROVE IInv'
<1> USE DEF IInv
<1>1. /\ events[i] # <<>> /\ Head(events[i]) # CrashEvent
      /\ events' = [events EXCEPT ![i] = Tail(@)]
      /\ SettlePending(i, "answered")
      /\ answer' = IF pending[i] \in Task \ Settled
                   THEN [answer EXCEPT ![pending[i]] = Head(events[i])] ELSE answer
      /\ pending' = [pending EXCEPT ![i] = NoTask]
      /\ UNCHANGED <<runtime, size, worker, closed, thread, work, givenUp>>
  BY DEF HandleMessage
<1>2. ASSUME ~closed
      PROVE  pending[i] \in Task /\ Head(events[i]) = pending[i] /\ (Living(i) \/ Dead(i))'
  <2>1. pending[i] \in Task /\ Head(events[i]) = pending[i] /\ work[i] = {}
    BY <1>1, <1>2, FirstEvent
  <2>2. pending'[i] = NoTask /\ work'[i] = {} /\ events'[i] = Tail(events[i])
    BY <1>1, <2>1 DEF TypeOK
  <2>3. CASE Living(i)
    <3>1. events'[i] = <<>>
      BY <1>1, <1>2, <2>2, <2>3, FirstEvent
    <3>2. QED
      BY <1>1, <2>1, <2>2, <2>3, <3>1 DEF Living
  <2>4. CASE Dead(i)
    <3>1. events'[i] \in {<<>>, <<CrashEvent>>}
      BY <1>1, <1>2, <2>2, FirstEvent
    <3>2. QED
      BY <1>1, <2>1, <2>2, <2>4, <3>1 DEF Dead
  <2>5. QED
    BY <1>1, <1>2, <2>3, <2>4, FirstEvent
<1>3. \A j \in Slot \ {i} : pending'[j] = pending[j] /\ events'[j] = events[j]
  BY <1>1 DEF TypeOK
<1>4. OpenSlots'
  BY <1>1, <1>2, <1>3, OneSlot
<1>5. closed => pending[i] = NoTask /\ answer' = answer
  BY <1>1, PoolAssumption DEF ClosedSlots, PoolAssumption
<1>6. TypeOK' /\ AnswersAreOwn'
  <2>1. answer' \in [Task -> Task \cup {NoTask}] /\ AnswersAreOwn'
    BY <1>1, <1>2, <1>5 DEF TypeOK, AnswersAreOwn
  <2>2. state' \in [Task -> TaskState]
    BY <1>1, SettlingIsTyped DEF TaskState
  <2>3. events' \in [Slot -> Seq(Task \cup {CrashEvent})]
    BY <1>1, TailIsTyped
  <2>4. QED
    BY <1>1, <2>1, <2>2, <2>3 DEF TypeOK
<1>7. ClosedSlots' /\ CloseStopsThreads'
  BY <1>1 DEF ClosedSlots, CloseStopsThreads, TypeOK
<1>8. QED
  BY <1>4, <1>6, <1>7

(* The error listener. *)
LEMMA HandleErrorPreserves == ASSUME IInv, NEW i \in Slot, HandleError(i) PROVE IInv'
<1> USE DEF IInv
<1>1. /\ events[i] # <<>> /\ Head(events[i]) = CrashEvent
      /\ events' = [events EXCEPT ![i] = Tail(@)]
      /\ SettlePending(i, "crashed")
      /\ pending' = [pending EXCEPT ![i] = NoTask]
      /\ worker' = [worker EXCEPT ![i] = "undefined"]
      /\ UNCHANGED <<runtime, size, closed, thread, work, answer, givenUp>>
  BY DEF HandleError
<1>2. ASSUME ~closed PROVE Dead(i)'
  <2>1. Dead(i) /\ Tail(events[i]) = <<>>
    BY <1>1, <1>2, FirstEvent, PoolAssumption DEF PoolAssumption
  <2>2. pending'[i] = NoTask /\ events'[i] = <<>>
    BY <1>1, <2>1 DEF TypeOK
  <2>3. QED
    BY <1>1, <2>1, <2>2 DEF Dead
<1>3. \A j \in Slot \ {i} :
          worker'[j] = worker[j] /\ pending'[j] = pending[j] /\ events'[j] = events[j]
  BY <1>1 DEF TypeOK
<1>4. OpenSlots'
  BY <1>1, <1>2, <1>3, OneSlot
<1>5. TypeOK'
  <2>1. state' \in [Task -> TaskState]
    BY <1>1, SettlingIsTyped DEF TaskState
  <2>2. events' \in [Slot -> Seq(Task \cup {CrashEvent})]
    BY <1>1, TailIsTyped
  <2>3. QED
    BY <1>1, <2>1, <2>2 DEF TypeOK
<1>6. ClosedSlots' /\ CloseStopsThreads' /\ AnswersAreOwn'
  BY <1>1 DEF ClosedSlots, CloseStopsThreads, AnswersAreOwn, TypeOK
<1>7. QED
  BY <1>4, <1>5, <1>6

-----------------------------------------------------------------------------
(* close(): a thread that goes on has a dead one before it, and only bun's *)
(* loop stops there.                                                       *)
LEMMA ClosePreserves == ASSUME IInv, Close PROVE IInv'
<1> USE DEF IInv
<1>1. /\ ~closed /\ closed' = TRUE /\ size' = 0
      /\ worker' = [i \in Slot |-> "undefined"]
      /\ pending' = [i \in Slot |-> NoTask]
      /\ thread' = [i \in Slot |-> IF i \in Terminated THEN "terminated" ELSE thread[i]]
      /\ work' = [i \in Slot |-> IF i \in Terminated THEN {} ELSE work[i]]
      /\ events' = [i \in Slot |-> IF i \in Terminated THEN <<>> ELSE events[i]]
      /\ UNCHANGED <<runtime, state, answer, givenUp>>
  BY DEF Close
<1>2. TypeOK'
  <2>1. events' \in [Slot -> Seq(Task \cup {CrashEvent})]
    BY <1>1 DEF TypeOK
  <2>2. work' \in [Slot -> SUBSET Task]
    BY <1>1 DEF TypeOK
  <2>3. thread' \in [Slot -> Thread]
    BY <1>1 DEF TypeOK, Thread
  <2>4. worker' \in [Slot -> {"object", "undefined"}] /\ pending' \in [Slot -> Task \cup {NoTask}]
    BY <1>1
  <2>5. size' \in 0 .. Count
    BY <1>1, PoolAssumption DEF PoolAssumption
  <2>6. QED
    BY <1>1, <2>1, <2>2, <2>3, <2>4, <2>5 DEF TypeOK
<1>3. CloseStopsThreads'
  <2> SUFFICES ASSUME NEW i \in Slot, thread'[i] = "alive"
               PROVE  runtime = "bun" /\ \E j \in 1 .. i : thread'[j] = "dead"
    BY <1>1 DEF CloseStopsThreads
  <2>1. i \notin Terminated /\ thread[i] = "alive"
    BY <1>1
  <2>2. i \in 1 .. size /\ worker[i] = "object"
    BY <1>1, <2>1, PoolAssumption DEF OpenSlots, Unused, Living, Dead, Slot, TypeOK, PoolAssumption
  <2>3. PICK j \in 1 .. i : worker[j] # "object"
    BY <2>1, <2>2 DEF Terminated
  <2>4. runtime = "bun"
    BY <2>1, <2>2 DEF Terminated
  <2>5. j \in Slot /\ j <= size /\ ~(j > size)
    BY <2>2, PoolAssumption DEF Slot, TypeOK, PoolAssumption
  <2>6. thread[j] = "dead" /\ j \notin Terminated
    BY <1>1, <2>3, <2>5 DEF OpenSlots, Unused, Living, Dead, Terminated
  <2>7. thread'[j] = "dead"
    BY <1>1, <2>5, <2>6
  <2>8. QED
    BY <2>4, <2>7
<1>4. OpenSlots' /\ ClosedSlots' /\ AnswersAreOwn'
  BY <1>1 DEF OpenSlots, ClosedSlots, AnswersAreOwn
<1>5. QED
  BY <1>2, <1>3, <1>4

-----------------------------------------------------------------------------
LEMMA NextPreserves == IInv /\ [Next]_vars => IInv'
<1> SUFFICES ASSUME IInv, [Next]_vars PROVE IInv'
  OBVIOUS
<1>1. ASSUME NEW t \in Task, Run(t) PROVE IInv'
  BY <1>1, RunPreserves
<1>2. ASSUME NEW t \in Task, Poll(t) PROVE IInv'
  BY <1>2, PollPreserves
<1>3. ASSUME NEW t \in Task, GiveUp(t) PROVE IInv'
  BY <1>3, GiveUpPreserves
<1>4. ASSUME NEW i \in Slot, Compute(i) PROVE IInv'
  BY <1>4, ComputePreserves
<1>5. ASSUME NEW i \in Slot, Crash(i) \/ Exit(i) PROVE IInv'
  BY <1>5, DiesPreserves DEF Crash, Exit
<1>6. ASSUME NEW i \in Slot, Handle(i) PROVE IInv'
  BY <1>6, HandleMessagePreserves, HandleErrorPreserves DEF Handle
<1>7. CASE Close
  BY <1>7, ClosePreserves
<1>8. CASE UNCHANGED vars
  BY <1>8, PromisesOnlyPreserves DEF vars, poolVars, threadVars, IInv, TypeOK
<1>9. QED
  BY <1>1, <1>2, <1>3, <1>4, <1>5, <1>6, <1>7, <1>8 DEF Next

LEMMA InvariantHolds == Spec => []IInv
BY InitEstablishes, NextPreserves, PTL DEF Spec

(* The variables of the pool and of its threads keep their types. *)
THEOREM PoolIsTyped == Spec => []TypeOK
<1>1. IInv => TypeOK
  BY DEF IInv
<1>2. QED
  BY <1>1, InvariantHolds, PTL

(* No task's promise is resolved with the result of another task, whichever *)
(* threads crash with answers on the way and whichever tasks are given up.  *)
THEOREM NoForeignAnswer == Spec => []AnswersAreOwn
<1>1. IInv => AnswersAreOwn
  BY DEF IInv
<1>2. QED
  BY <1>1, InvariantHolds, PTL

(* A slot that no event will ever free belongs to a thread that died or to *)
(* args that could not be cloned.                                          *)
THEOREM SlotsAreLostToFaults == Spec => []OnlyFaultsLoseSlots
<1>1. IInv => OnlyFaultsLoseSlots
  <2> SUFFICES ASSUME IInv, NEW i \in Slot, Lost(i)
               PROVE  thread[i] = "dead" \/ pending[i] \in Unclonable
    BY DEF OnlyFaultsLoseSlots
  <2>1. ~closed
    BY DEF IInv, ClosedSlots, Lost
  <2>2. QED
    BY <2>1 DEF IInv, OpenSlots, Unused, Living, Dead, Lost
<1>2. QED
  BY <1>1, InvariantHolds, PTL

(* After close() a thread goes on only in bun, behind one that died. *)
THEOREM ClosedPoolsStop == Spec => []CloseStopsThreads
<1>1. IInv => CloseStopsThreads
  BY DEF IInv
<1>2. QED
  BY <1>1, InvariantHolds, PTL

=============================================================================
