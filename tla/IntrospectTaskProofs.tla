------------------------- MODULE IntrospectTaskProofs -------------------------
(***************************************************************************)
(* For any callers of cancel() and any number of progress events: a task   *)
(* that was cancelled gives no result, its status tells its answer, and    *)
(* the engine's pool reference covers the work of the runner.              *)
(***************************************************************************)
EXTENDS IntrospectTask, SequencesExt, SequenceTheorems, FiniteSetTheorems, TLAPS

(* Facts about numbers, sets and sequences, without the variables of the   *)
(* model.                                                                  *)

(* Sequences of one and two elements. *)
LEMMA PairOfSingles ==
    ASSUME NEW a, NEW b
    PROVE  <<a>> \o <<b>> = <<a, b>>
<1> DEFINE S == {a, b}
           s == <<a>> \o <<b>>
           t == <<a, b>>
<1>1. <<a>> \in Seq(S) /\ <<b>> \in Seq(S) /\ t \in Seq(S)
  OBVIOUS
<1>2. /\ Len(<<a>>) = 1 /\ Len(<<b>>) = 1 /\ Len(t) = 2
      /\ <<a>>[1] = a /\ <<b>>[1] = b /\ t[1] = a /\ t[2] = b
  OBVIOUS
<1>3. s \in Seq(S) /\ Len(s) = 2 /\ s[1] = a /\ s[2] = b
  BY <1>1, <1>2
<1> HIDE DEF s, t
<1>4. \A i \in 1 .. Len(s) : s[i] = t[i]
  BY <1>2, <1>3
<1>5. s = t
  BY <1>1, <1>2, <1>3, <1>4, SeqEqual
<1>6. QED
  BY <1>5 DEF s, t

LEMMA ShortSequences ==
    ASSUME NEW a, NEW b
    PROVE  /\ <<a>> # <<>> /\ <<a, b>> # <<>>
           /\ Head(<<a>>) = a /\ Tail(<<a>>) = <<>>
           /\ Head(<<a, b>>) = a /\ Tail(<<a, b>>) = <<b>>
           /\ Append(<<>>, a) = <<a>> /\ <<>> \o <<a>> = <<a>> /\ <<>> \o <<>> = <<>>
           /\ <<a>> \o <<b>> = <<a, b>> /\ <<a>> \o <<>> = <<a>>
<1>1. <<a>> # <<>> /\ <<a, b>> # <<>>
  OBVIOUS
<1>2. Head(<<a>>) = a /\ Head(<<a, b>>) = a
  OBVIOUS
<1>3. Tail(<<a>>) = <<>> /\ Tail(<<a, b>>) = <<b>>
  OBVIOUS
<1>4. Append(<<>>, a) = <<a>>
  OBVIOUS
<1>5. <<>> \o <<a>> = <<a>> /\ <<a>> \o <<>> = <<a>>
  OBVIOUS
<1>6. <<>> \o <<>> = <<>>
  OBVIOUS
<1>7. QED
  BY <1>1, <1>2, <1>3, <1>4, <1>5, <1>6, PairOfSingles

-----------------------------------------------------------------------------

(* The microtasks that exist once the task's promise has settled. *)
AfterSettling == {"release", "outer"} \cup Caller

(* Before there is a pool nothing has happened, and nothing ever will when *)
(* there is none.                                                          *)
NothingWithoutPool ==
    pool # "ready" =>
        /\ kind # "direct" /\ ~attached /\ ~cancelRequested
        /\ jobs = <<>> /\ reactions = <<>>
        /\ runner = "none" /\ settled = "none" /\ ref = "none"
        /\ outer = IF pool = "failed" THEN "error" ELSE "none"
        /\ \A k \in Caller : call[k] # "returned"

(* wrapTask gets its inner task before anything but the start of the       *)
(* runner happens to that task.                                            *)
AttachIsEarly ==
    /\ kind = "direct" => ~attached
    /\ (kind # "direct" /\ pool = "ready" /\ ~attached) =>
          /\ settled = "none" /\ ~cancelRequested /\ outer = "none"
          /\ \/ jobs = <<"run", "attach">> /\ runner = "none"
             \/ jobs = <<"attach">> /\ runner = "working"
    /\ attached => runner # "none"

(* When a microtask may be in the queue, and where. *)
JobsFit ==
    \A i \in 1 .. Len(jobs) :
        /\ jobs[i] = "run" => i = 1 /\ runner = "none"
        /\ jobs[i] = "attach" => kind # "direct" /\ ~attached
        /\ jobs[i] \in {"adopt", "outer"} => attached
        /\ jobs[i] = "release" => kind = "engine"
        /\ jobs[i] \in AfterSettling => settled # "none"

ReactionsFit ==
    \A i \in 1 .. Len(reactions) :
        /\ reactions[i] \in AfterSettling
        /\ reactions[i] = "outer" => attached
        /\ reactions[i] = "release" => kind = "engine"

(* The status that goes with an answer. *)
StatusOf(answer) ==
    CASE answer = "result" -> "done" [] answer = "error" -> "failed" [] OTHER -> "cancelled"

SettledTells ==
    /\ settled # "none" <=> runner = "ended"
    /\ settled # "none" =>
          /\ status = StatusOf(settled)
          /\ Len(buffer) > 0 /\ buffer[Len(buffer)] = status
          /\ cancelRequested => settled = "cancelled"
    /\ (outer # "none" /\ pool = "ready") => attached /\ outer = settled

(* The engine's release is the first callback of the task's promise. *)
ReleaseIsFirst ==
    /\ kind # "engine" => ref = "none"
    /\ (kind = "engine" /\ pool = "ready") =>
          /\ ref # "none"
          /\ settled = "none" => ref = "held" /\ Len(reactions) > 0 /\ reactions[1] = "release"
          /\ (settled # "none" /\ ref = "held") =>
                \E i \in 1 .. Len(jobs) :
                    jobs[i] = "release" /\ \A j \in 1 .. i - 1 : jobs[j] \notin {"outer"} \cup Caller
    /\ (outer # "none" /\ pool = "ready") => ref # "held"
    /\ \A k \in Caller : call[k] = "returned" => settled # "none" /\ ref # "held"

(* The inductive invariant. *)
IInv ==
    /\ TypeOK
    /\ NothingWithoutPool /\ AttachIsEarly
    /\ JobsFit /\ ReactionsFit
    /\ SettledTells /\ ReleaseIsFirst

-----------------------------------------------------------------------------
(* Facts about sequences. *)

LEMMA Popped ==
    ASSUME NEW S, NEW s \in Seq(S), s # <<>>
    PROVE  /\ Len(s) \in Nat \ {0} /\ Head(s) = s[1]
           /\ Tail(s) \in Seq(S) /\ Len(Tail(s)) = Len(s) - 1
           /\ \A i \in 1 .. Len(s) - 1 : Tail(s)[i] = s[i + 1]
OBVIOUS

LEMMA Appended ==
    ASSUME NEW S, NEW s \in Seq(S), NEW x \in S
    PROVE  /\ Append(s, x) \in Seq(S) /\ Len(s) \in Nat /\ Len(Append(s, x)) = Len(s) + 1
           /\ \A i \in 1 .. Len(s) : Append(s, x)[i] = s[i]
           /\ Append(s, x)[Len(s) + 1] = x
OBVIOUS

LEMMA Joined ==
    ASSUME NEW S, NEW s \in Seq(S), NEW t \in Seq(S)
    PROVE  /\ s \o t \in Seq(S) /\ Len(s) \in Nat /\ Len(t) \in Nat
           /\ Len(s \o t) = Len(s) + Len(t)
           /\ \A i \in 1 .. Len(s) : (s \o t)[i] = s[i]
           /\ \A i \in 1 .. Len(t) : (s \o t)[Len(s) + i] = t[i]
           /\ \A i \in 1 .. Len(s) + Len(t) :
                i \notin 1 .. Len(s) => i - Len(s) \in 1 .. Len(t) /\ (s \o t)[i] = t[i - Len(s)]
<1>1. s \o t \in Seq(S) /\ Len(s) \in Nat /\ Len(t) \in Nat /\ Len(s \o t) = Len(s) + Len(t)
  OBVIOUS
<1>2. \A i \in 1 .. Len(s) + Len(t) : (s \o t)[i] = IF i <= Len(s) THEN s[i] ELSE t[i - Len(s)]
  OBVIOUS
<1>3. \A i \in 1 .. Len(s) : i \in 1 .. Len(s) + Len(t) /\ i <= Len(s)
  BY <1>1
<1>4. \A i \in 1 .. Len(t) :
        /\ Len(s) + i \in 1 .. Len(s) + Len(t) /\ ~(Len(s) + i <= Len(s))
        /\ (Len(s) + i) - Len(s) = i
  BY <1>1
<1>5. \A i \in 1 .. Len(s) + Len(t) :
        i \notin 1 .. Len(s) => ~(i <= Len(s)) /\ i - Len(s) \in 1 .. Len(t)
  BY <1>1
<1>6. QED
  BY <1>1, <1>2, <1>3, <1>4, <1>5

(* The callers are none of the other microtasks. *)
LEMMA CallersAreJobs ==
    /\ AfterSettling \subseteq Job /\ Step \subseteq Job
    /\ \A x \in AfterSettling : x \notin {"run", "attach", "adopt", "abort"}
    /\ \A k \in Caller : k \notin Step
BY TaskAssumption DEF AfterSettling, Job, Step, TaskAssumption

-----------------------------------------------------------------------------

LEMMA InitEstablishes == Init => IInv
<1> SUFFICES ASSUME Init PROVE IInv
  OBVIOUS
<1> USE DEF Init
<1>1. jobs = <<"run">> \/ jobs = <<>>
  OBVIOUS
<1>2. TypeOK
  <2>1. "run" \in Job
    BY DEF Job, Step
  <2>2. jobs \in Seq(Job) /\ reactions \in Seq(Job) /\ buffer \in Seq(Status \cup {"report"})
    BY <1>1, <2>1
  <2>3. call \in [Caller -> Call]
    BY DEF Call
  <2>4. /\ cancelRequested \in BOOLEAN /\ aborted \in BOOLEAN
        /\ attached \in BOOLEAN /\ cancelled \in BOOLEAN
    BY Zenon
  <2>5. QED
    BY <2>2, <2>3, <2>4 DEF TypeOK, Status, Outcome
<1>3. NothingWithoutPool /\ AttachIsEarly /\ ReactionsFit /\ SettledTells
  BY DEF NothingWithoutPool, AttachIsEarly, ReactionsFit, SettledTells, Kind
<1>4. JobsFit
  BY <1>1, CallersAreJobs DEF JobsFit
<1>5. ReleaseIsFirst
  BY DEF ReleaseIsFirst, Kind
<1>6. QED
  BY <1>2, <1>3, <1>4, <1>5 DEF IInv

-----------------------------------------------------------------------------
(* The pool comes, or does not. *)

LEMMA PoolReadyPreserves == ASSUME IInv, PoolReady PROVE IInv'
<1> USE DEF IInv
<1>1. /\ pool = "pending" /\ pool' = "ready"
      /\ jobs' = jobs \o <<"run", "attach">>
      /\ ref' = IF kind = "engine" THEN "held" ELSE ref
      /\ reactions' = IF kind = "engine" THEN <<"release">> ELSE <<>>
      /\ UNCHANGED <<kind, status, cancelRequested, aborted, progress, runner, settled,
                     attached, cancelled, outer, buffer, call>>
  BY DEF PoolReady, outerVars
<1>2. /\ kind # "direct" /\ ~attached /\ ~cancelRequested /\ jobs = <<>>
      /\ runner = "none" /\ settled = "none" /\ ref = "none" /\ outer = "none"
      /\ \A k \in Caller : call[k] # "returned"
  BY <1>1 DEF NothingWithoutPool
<1>3. jobs' = <<"run", "attach">>
  BY <1>1, <1>2
<1>4. (reactions' = <<"release">> /\ kind = "engine") \/ (reactions' = <<>> /\ kind # "engine")
  BY <1>1
<1>5. TypeOK'
  <2>1. "run" \in Job /\ "attach" \in Job /\ "release" \in Job
    BY DEF Job, Step
  <2>2. jobs' \in Seq(Job)
    BY <1>3, <2>1
  <2>3. reactions' \in Seq(Job)
    <3>1. <<"release">> \in Seq(Job) /\ <<>> \in Seq(Job)
      BY <2>1
    <3>2. QED
      BY <1>4, <3>1
  <2>4. QED
    BY <1>1, <2>2, <2>3 DEF TypeOK
<1>6. NothingWithoutPool' /\ AttachIsEarly'
  BY <1>1, <1>2, <1>3 DEF NothingWithoutPool, AttachIsEarly
<1>7. JobsFit'
  <2>1. Len(jobs') = 2 /\ jobs'[1] = "run" /\ jobs'[2] = "attach"
    BY <1>3
  <2>2. \A i \in 1 .. 2 : i = 1 \/ i = 2
    OBVIOUS
  <2>3. QED
    BY <1>1, <1>2, <2>1, <2>2, CallersAreJobs DEF JobsFit
<1>8. ReactionsFit'
  BY <1>1, <1>4 DEF ReactionsFit, AfterSettling
<1>9. SettledTells' /\ ReleaseIsFirst'
  BY <1>1, <1>2, <1>4 DEF SettledTells, ReleaseIsFirst
<1>10. QED
  BY <1>5, <1>6, <1>7, <1>8, <1>9

LEMMA PoolFailsPreserves == ASSUME IInv, PoolFails PROVE IInv'
<1> USE DEF IInv
<1>1. /\ pool = "pending" /\ pool' = "failed" /\ outer' = "error"
      /\ UNCHANGED <<kind, status, cancelRequested, aborted, progress, runner, settled, reactions,
                     jobs, ref, attached, cancelled, buffer, call>>
  BY DEF PoolFails, innerVars
<1>2. TypeOK'
  BY <1>1 DEF TypeOK, Outcome
<1>3. NothingWithoutPool' /\ AttachIsEarly' /\ SettledTells'
  BY <1>1 DEF NothingWithoutPool, AttachIsEarly, SettledTells
<1>4. JobsFit' /\ ReactionsFit'
  BY <1>1 DEF JobsFit, ReactionsFit
<1>5. ReleaseIsFirst'
  BY <1>1 DEF ReleaseIsFirst, NothingWithoutPool
<1>6. QED
  BY <1>2, <1>3, <1>4, <1>5

-----------------------------------------------------------------------------
(* The microtasks. *)

(* What emitting an event does to the buffer. *)
LEMMA Emitted ==
    ASSUME TypeOK, NEW stage \in Status \cup {"report"}, Emit(stage)
    PROVE  /\ progress' \in Status \cup {"report"} /\ buffer' \in Seq(Status \cup {"report"})
           /\ attached \/ kind = "direct" =>
                Len(buffer') > 0 /\ buffer'[Len(buffer')] = stage
<1>1. buffer \in Seq(Status \cup {"report"})
  BY DEF TypeOK
<1>2. QED
  BY <1>1, Appended DEF Emit

(* The runner is started. *)
LEMMA RunJobPreserves == ASSUME IInv, RunJob PROVE IInv'
<1> USE DEF IInv
<1>1. /\ jobs # <<>> /\ Head(jobs) = "run" /\ jobs' = Tail(jobs)
      /\ status' = "running" /\ runner' = "working" /\ Emit("running")
      /\ UNCHANGED <<kind, pool, cancelRequested, aborted, settled, reactions, ref,
                     attached, cancelled, outer, call>>
  BY DEF RunJob, IsNext
<1>2. /\ Len(jobs) \in Nat \ {0} /\ jobs[1] = "run"
      /\ jobs' \in Seq(Job) /\ Len(jobs') = Len(jobs) - 1
      /\ \A i \in 1 .. Len(jobs) - 1 : jobs'[i] = jobs[i + 1] /\ i + 1 \in 1 .. Len(jobs) /\ i + 1 # 1
  <2>1. jobs \in Seq(Job)
    BY DEF TypeOK
  <2>2. QED
    BY <1>1, <2>1, Popped
<1>3. pool = "ready" /\ runner = "none" /\ settled = "none" /\ ~attached
  <2>1. 1 \in 1 .. Len(jobs)
    BY <1>2
  <2>2. QED
    BY <1>1, <1>2, <2>1 DEF NothingWithoutPool, JobsFit, SettledTells, AttachIsEarly
<1>4. TypeOK'
  <2>1. progress' \in Status \cup {"report"} /\ buffer' \in Seq(Status \cup {"report"})
    BY <1>1, Emitted DEF Status
  <2>2. QED
    BY <1>1, <1>2, <2>1 DEF TypeOK, Status
<1>5. NothingWithoutPool' /\ SettledTells'
  BY <1>1, <1>3 DEF NothingWithoutPool, SettledTells
<1>6. AttachIsEarly'
  <2>1. ASSUME kind # "direct" PROVE jobs' = <<"attach">>
    <3>1. jobs = <<"run", "attach">>
      BY <1>3, <2>1 DEF AttachIsEarly
    <3>2. Tail(<<"run", "attach">>) = <<"attach">>
      BY ShortSequences, Zenon
    <3>3. QED
      BY <1>1, <3>1, <3>2
  <2>2. QED
    BY <1>1, <1>3, <2>1 DEF AttachIsEarly
<1>7. JobsFit'
  BY <1>1, <1>2 DEF JobsFit
<1>8. ReactionsFit'
  BY <1>1 DEF ReactionsFit
<1>9. ReleaseIsFirst'
  BY <1>1, <1>3 DEF ReleaseIsFirst
<1>10. QED
  BY <1>4, <1>5, <1>6, <1>7, <1>8, <1>9

(* wrapTask gets its inner task. *)
LEMMA AttachJobPreserves == ASSUME IInv, AttachJob PROVE IInv'
<1> USE DEF IInv
<1>1. /\ jobs # <<>> /\ Head(jobs) = "attach" /\ jobs' = Append(Tail(jobs), "adopt")
      /\ attached' = TRUE /\ buffer' = Append(buffer, progress)
      /\ UNCHANGED <<kind, pool, status, cancelRequested, aborted, progress, runner, settled,
                     reactions, ref, cancelled, outer, call>>
  BY DEF AttachJob, IsNext, innerVars
<1>2. Len(jobs) \in Nat \ {0} /\ jobs[1] = "attach"
  BY <1>1, Popped DEF TypeOK
<1>3. pool = "ready" /\ kind # "direct" /\ ~attached
  <2>1. 1 \in 1 .. Len(jobs)
    BY <1>2
  <2>2. QED
    BY <1>1, <1>2, <2>1 DEF NothingWithoutPool, JobsFit
<1>4. /\ settled = "none" /\ ~cancelRequested /\ outer = "none"
      /\ jobs = <<"attach">> /\ runner = "working"
  <2>1. jobs # <<"run", "attach">>
    BY <1>1, ShortSequences
  <2>2. QED
    BY <1>3, <2>1 DEF AttachIsEarly
<1>5. jobs' = <<"adopt">>
  BY <1>1, <1>4, ShortSequences
<1>6. TypeOK'
  <2>1. jobs' \in Seq(Job)
    <3>1. "adopt" \in Job
      BY DEF Job, Step
    <3>2. QED
      BY <1>5, <3>1
  <2>2. buffer' \in Seq(Status \cup {"report"})
    BY <1>1, Appended DEF TypeOK
  <2>3. attached' \in BOOLEAN
    BY <1>1, Zenon
  <2>4. QED
    BY <1>1, <2>1, <2>2, <2>3 DEF TypeOK
<1>7. NothingWithoutPool' /\ AttachIsEarly'
  BY <1>1, <1>3, <1>4 DEF NothingWithoutPool, AttachIsEarly
<1>8. JobsFit'
  <2>1. Len(jobs') = 1 /\ jobs'[1] = "adopt"
    BY <1>5
  <2>2. QED
    BY <1>1, <2>1, CallersAreJobs DEF JobsFit
<1>9. ReactionsFit'
  BY <1>1 DEF ReactionsFit
<1>10. SettledTells' /\ ReleaseIsFirst'
  BY <1>1, <1>3, <1>4 DEF SettledTells, ReleaseIsFirst
<1>11. QED
  BY <1>6, <1>7, <1>8, <1>9, <1>10

(* What taking any other microtask from the queue preserves. *)
LEMMA PopPreserves ==
    ASSUME IInv, NEW x \in Job \ {"run", "attach"}, IsNext(x)
    PROVE  /\ Len(jobs) \in Nat \ {0} /\ jobs[1] = x /\ 1 \in 1 .. Len(jobs)
           /\ Tail(jobs) \in Seq(Job) /\ Len(Tail(jobs)) = Len(jobs) - 1
           /\ \A i \in 1 .. Len(jobs) - 1 :
                Tail(jobs)[i] = jobs[i + 1] /\ i + 1 \in 1 .. Len(jobs) /\ i + 1 # 1
           /\ pool = "ready" /\ (attached \/ kind = "direct")
           /\ (kind = "engine" /\ settled # "none" /\ ref = "held" /\ x # "release") =>
                /\ x \notin {"outer"} \cup Caller
                /\ \E i \in 1 .. Len(jobs) - 1 :
                     /\ Tail(jobs)[i] = "release"
                     /\ \A j \in 1 .. i - 1 : Tail(jobs)[j] \notin {"outer"} \cup Caller
<1> USE DEF IInv
<1>1. jobs \in Seq(Job) /\ jobs # <<>> /\ Head(jobs) = x
  BY DEF TypeOK, IsNext
<1>2. /\ Len(jobs) \in Nat \ {0} /\ jobs[1] = x /\ 1 \in 1 .. Len(jobs)
      /\ Tail(jobs) \in Seq(Job) /\ Len(Tail(jobs)) = Len(jobs) - 1
      /\ \A i \in 1 .. Len(jobs) - 1 :
           Tail(jobs)[i] = jobs[i + 1] /\ i + 1 \in 1 .. Len(jobs) /\ i + 1 # 1
  BY <1>1, Popped
<1>3. pool = "ready"
  BY <1>1 DEF NothingWithoutPool
<1>4. attached \/ kind = "direct"
  <2>1. jobs # <<"attach">> /\ jobs # <<"run", "attach">>
    BY <1>1, ShortSequences
  <2>2. QED
    BY <1>3, <2>1 DEF AttachIsEarly
<1>5. ASSUME kind = "engine", settled # "none", ref = "held", x # "release"
      PROVE  /\ x \notin {"outer"} \cup Caller
             /\ \E i \in 1 .. Len(jobs) - 1 :
                  /\ Tail(jobs)[i] = "release"
                  /\ \A j \in 1 .. i - 1 : Tail(jobs)[j] \notin {"outer"} \cup Caller
  <2>1. PICK i \in 1 .. Len(jobs) :
          jobs[i] = "release" /\ \A j \in 1 .. i - 1 : jobs[j] \notin {"outer"} \cup Caller
    BY <1>3, <1>5 DEF ReleaseIsFirst
  <2>2. i # 1
    BY <1>2, <1>5, <2>1
  <2>3. i - 1 \in 1 .. Len(jobs) - 1 /\ (i - 1) + 1 = i /\ 1 \in 1 .. i - 1
    BY <1>2, <2>1, <2>2
  <2>4. Tail(jobs)[i - 1] = "release"
    BY <1>2, <2>1, <2>3
  <2>5. \A j \in 1 .. (i - 1) - 1 : Tail(jobs)[j] \notin {"outer"} \cup Caller
    <3> SUFFICES ASSUME NEW j \in 1 .. (i - 1) - 1 PROVE Tail(jobs)[j] \notin {"outer"} \cup Caller
      OBVIOUS
    <3>1. j \in 1 .. Len(jobs) - 1 /\ j + 1 \in 1 .. i - 1
      BY <1>2
    <3>2. QED
      BY <1>2, <2>1, <3>1
  <2>6. QED
    BY <1>2, <2>1, <2>3, <2>4, <2>5
<1>6. QED
  BY <1>2, <1>3, <1>4, <1>5

(* wrapTask follows the promise of its inner task. *)
LEMMA AdoptJobPreserves == ASSUME IInv, AdoptJob PROVE IInv'
<1> USE DEF IInv
<1>0. "adopt" \in Job \ {"run", "attach"} /\ "outer" \in Job /\ "outer" \in AfterSettling
  BY DEF Job, Step, AfterSettling
<1>1. /\ IsNext("adopt")
      /\ UNCHANGED <<kind, pool, status, cancelRequested, aborted, progress, runner, settled,
                     ref, attached, cancelled, outer, buffer, call>>
      /\ \/ settled = "none" /\ jobs' = Tail(jobs) /\ reactions' = Append(reactions, "outer")
         \/ settled # "none" /\ jobs' = Append(Tail(jobs), "outer") /\ reactions' = reactions
  BY DEF AdoptJob, outerVars
<1>2. /\ Len(jobs) \in Nat \ {0} /\ jobs[1] = "adopt" /\ 1 \in 1 .. Len(jobs)
      /\ Tail(jobs) \in Seq(Job) /\ Len(Tail(jobs)) = Len(jobs) - 1
      /\ \A i \in 1 .. Len(jobs) - 1 :
           Tail(jobs)[i] = jobs[i + 1] /\ i + 1 \in 1 .. Len(jobs) /\ i + 1 # 1
      /\ pool = "ready" /\ (attached \/ kind = "direct")
  BY <1>0, <1>1, PopPreserves
<1>3. (kind = "engine" /\ settled # "none" /\ ref = "held") =>
        \E i \in 1 .. Len(jobs) - 1 :
            /\ Tail(jobs)[i] = "release"
            /\ \A j \in 1 .. i - 1 : Tail(jobs)[j] \notin {"outer"} \cup Caller
  BY <1>0, <1>1, PopPreserves
<1>4. attached
  BY <1>2 DEF JobsFit
<1>5. reactions \in Seq(Job)
  BY DEF TypeOK
<1>6. NothingWithoutPool' /\ AttachIsEarly' /\ SettledTells'
  BY <1>1, <1>2, <1>4 DEF NothingWithoutPool, AttachIsEarly, SettledTells
<1>7. \A i \in 1 .. Len(Tail(jobs)) :
        /\ Tail(jobs)[i] # "run" /\ Tail(jobs)[i] # "attach"
        /\ Tail(jobs)[i] = "release" => kind = "engine"
        /\ Tail(jobs)[i] \in AfterSettling => settled # "none"
  BY <1>2, <1>4 DEF JobsFit
<1>8. CASE settled = "none"
  <2>1. jobs' = Tail(jobs) /\ reactions' = Append(reactions, "outer")
    BY <1>1, <1>8
  <2>2. /\ reactions' \in Seq(Job) /\ Len(reactions) \in Nat /\ Len(reactions') = Len(reactions) + 1
        /\ \A i \in 1 .. Len(reactions) : reactions'[i] = reactions[i]
        /\ reactions'[Len(reactions) + 1] = "outer"
    BY <1>0, <1>5, <2>1, Appended
  <2>3. TypeOK'
    BY <1>1, <1>2, <2>1, <2>2 DEF TypeOK
  <2>4. JobsFit'
    BY <1>1, <1>4, <1>7, <2>1 DEF JobsFit
  <2>5. ReactionsFit'
    <3> SUFFICES ASSUME NEW i \in 1 .. Len(reactions) + 1
                 PROVE  /\ reactions'[i] \in AfterSettling
                        /\ reactions'[i] = "release" => kind = "engine"
      BY <1>1, <1>4, <2>2 DEF ReactionsFit
    <3>1. CASE i \in 1 .. Len(reactions)
      BY <2>2, <3>1 DEF ReactionsFit
    <3>2. CASE i = Len(reactions) + 1
      BY <1>0, <2>2, <3>2
    <3>3. QED
      BY <2>2, <3>1, <3>2
  <2>6. ReleaseIsFirst'
    <3>1. kind = "engine" => ref = "held" /\ Len(reactions') > 0 /\ reactions'[1] = "release"
      <4>1. kind = "engine" => ref = "held" /\ Len(reactions) > 0 /\ reactions[1] = "release"
        BY <1>2, <1>8 DEF ReleaseIsFirst
      <4>2. Len(reactions) > 0 => 1 \in 1 .. Len(reactions)
        BY <2>2
      <4>3. QED
        BY <2>2, <4>1, <4>2
    <3>2. QED
      BY <1>1, <1>8, <3>1 DEF ReleaseIsFirst
  <2>7. QED
    BY <1>6, <2>3, <2>4, <2>5, <2>6
<1>9. CASE settled # "none"
  <2> DEFINE t == Tail(jobs)
  <2>1. jobs' = Append(t, "outer") /\ reactions' = reactions
    BY <1>1, <1>9
  <2>2. /\ jobs' \in Seq(Job) /\ Len(t) \in Nat /\ Len(jobs') = Len(t) + 1
        /\ \A i \in 1 .. Len(t) : jobs'[i] = t[i]
        /\ jobs'[Len(t) + 1] = "outer"
    BY <1>0, <1>2, <2>1, Appended
  <2>3. TypeOK'
    BY <1>1, <2>1, <2>2 DEF TypeOK
  <2>4. JobsFit'
    <3> SUFFICES ASSUME NEW i \in 1 .. Len(t) + 1
                 PROVE  /\ jobs'[i] # "run" /\ jobs'[i] # "attach"
                        /\ jobs'[i] = "release" => kind = "engine"
      BY <1>1, <1>4, <1>9, <2>2 DEF JobsFit
    <3>1. CASE i \in 1 .. Len(t)
      BY <1>7, <2>2, <3>1
    <3>2. CASE i = Len(t) + 1
      BY <2>2, <3>2
    <3>3. QED
      BY <2>2, <3>1, <3>2
  <2>5. ReactionsFit'
    BY <1>1, <2>1 DEF ReactionsFit
  <2>6. ReleaseIsFirst'
    <3>1. ASSUME kind = "engine", ref = "held"
          PROVE  \E i \in 1 .. Len(jobs') :
                    jobs'[i] = "release" /\ \A j \in 1 .. i - 1 : jobs'[j] \notin {"outer"} \cup Caller
      <4>1. PICK i \in 1 .. Len(t) :
              t[i] = "release" /\ \A j \in 1 .. i - 1 : t[j] \notin {"outer"} \cup Caller
        BY <1>2, <1>3, <1>9, <3>1
      <4>2. i \in 1 .. Len(jobs') /\ \A j \in 1 .. i - 1 : j \in 1 .. Len(t)
        BY <2>2
      <4>3. QED
        BY <2>2, <4>1, <4>2
    <3>2. QED
      BY <1>1, <1>9, <3>1 DEF ReleaseIsFirst
  <2>7. QED
    BY <1>6, <2>3, <2>4, <2>5, <2>6
<1>10. QED
  BY <1>8, <1>9

(* The microtasks that add none: the signal, the engine's release, the     *)
(* answer of wrapTask and the rest of a cancel().                          *)
LEMMA LastJobsPreserve ==
    ASSUME IInv, AbortJob \/ ReleaseJob \/ OuterJob \/ \E k \in Caller : CallJob(k)
    PROVE  IInv'
<1> USE DEF IInv
<1>1. PICK x \in {"abort", "release", "outer"} \cup Caller :
        /\ IsNext(x) /\ jobs' = Tail(jobs)
        /\ UNCHANGED <<kind, pool, status, cancelRequested, progress, runner, settled, reactions,
                       attached, cancelled, buffer>>
        /\ aborted' \in {aborted, TRUE}
        /\ ref' = IF x = "release" THEN "released" ELSE ref
        /\ outer' = IF x = "outer" THEN settled ELSE outer
        /\ IF x \in Caller THEN call' = [call EXCEPT ![x] = "returned"] ELSE call' = call
  BY CallersAreJobs DEF AbortJob, ReleaseJob, OuterJob, CallJob, innerVars, outerVars, Step
<1>2. x \in Job \ {"run", "attach"} /\ (x # "abort" => x \in AfterSettling)
  BY CallersAreJobs DEF Job, Step, AfterSettling
<1>3. /\ Len(jobs) \in Nat \ {0} /\ jobs[1] = x /\ 1 \in 1 .. Len(jobs)
      /\ jobs' \in Seq(Job) /\ Len(jobs') = Len(jobs) - 1
      /\ \A i \in 1 .. Len(jobs) - 1 :
           jobs'[i] = jobs[i + 1] /\ i + 1 \in 1 .. Len(jobs) /\ i + 1 # 1
      /\ pool = "ready" /\ (attached \/ kind = "direct")
  BY <1>1, <1>2, PopPreserves
<1>4. (kind = "engine" /\ settled # "none" /\ ref = "held" /\ x # "release") =>
        /\ x \notin {"outer"} \cup Caller
        /\ \E i \in 1 .. Len(jobs') :
             /\ jobs'[i] = "release"
             /\ \A j \in 1 .. i - 1 : jobs'[j] \notin {"outer"} \cup Caller
  BY <1>1, <1>2, <1>3, PopPreserves
<1>5. x # "abort" => settled # "none"
  BY <1>2, <1>3 DEF JobsFit
<1>6. /\ x = "outer" => attached
      /\ x = "release" => kind = "engine"
  BY <1>3 DEF JobsFit
<1>7. TypeOK'
  <2>1. call' \in [Caller -> Call]
    BY <1>1 DEF TypeOK, Call
  <2>2. aborted' \in BOOLEAN
    BY <1>1 DEF TypeOK
  <2>3. QED
    BY <1>1, <1>3, <2>1, <2>2 DEF TypeOK
<1>8. NothingWithoutPool' /\ AttachIsEarly'
  BY <1>1, <1>3 DEF NothingWithoutPool, AttachIsEarly
<1>9. JobsFit'
  BY <1>1, <1>3 DEF JobsFit
<1>10. ReactionsFit'
  BY <1>1 DEF ReactionsFit
<1>11. SettledTells'
  BY <1>1, <1>6 DEF SettledTells
<1>12. ReleaseIsFirst'
  <2>1. kind # "engine" => ref' = "none"
    BY <1>1, <1>6 DEF ReleaseIsFirst
  <2>2. kind = "engine" => ref' # "none" /\ (settled = "none" => ref' = ref)
    BY <1>1, <1>3, <1>5 DEF ReleaseIsFirst
  <2>3. outer' # "none" => ref' # "held"
    <3>1. CASE x = "outer"
      BY <1>1, <1>4, <1>5, <2>1, <3>1 DEF TypeOK, Kind
    <3>2. CASE x # "outer"
      BY <1>1, <1>3, <3>2 DEF ReleaseIsFirst
    <3>3. QED
      BY <3>1, <3>2
  <2>4. \A k \in Caller : call'[k] = "returned" => settled # "none" /\ ref' # "held"
    <3> SUFFICES ASSUME NEW k \in Caller, call'[k] = "returned"
                 PROVE  settled # "none" /\ ref' # "held"
      OBVIOUS
    <3>1. CASE x = k
      <4>1. x # "abort" /\ x # "release" /\ settled # "none"
        BY <1>5, <3>1, CallersAreJobs DEF Step
      <4>2. kind = "engine" => ref # "held"
        BY <1>4, <3>1, <4>1
      <4>3. QED
        BY <1>1, <2>1, <4>1, <4>2
    <3>2. CASE x # k
      <4>1. call[k] = "returned"
        BY <1>1, <3>2 DEF TypeOK
      <4>2. QED
        BY <1>1, <4>1 DEF ReleaseIsFirst
    <3>3. QED
      BY <3>1, <3>2
  <2>5. (kind = "engine" /\ settled # "none" /\ ref' = "held") =>
          \E i \in 1 .. Len(jobs') :
              jobs'[i] = "release" /\ \A j \in 1 .. i - 1 : jobs'[j] \notin {"outer"} \cup Caller
    BY <1>1, <1>4
  <2>6. (kind = "engine" /\ settled = "none") =>
          ref' = "held" /\ Len(reactions) > 0 /\ reactions[1] = "release"
    BY <1>3, <2>2 DEF ReleaseIsFirst
  <2>7. QED
    BY <1>1, <2>1, <2>2, <2>3, <2>4, <2>5, <2>6 DEF ReleaseIsFirst
<1>13. QED
  BY <1>7, <1>8, <1>9, <1>10, <1>11, <1>12

-----------------------------------------------------------------------------
(* The runner. *)

(* What is so while the runner works: all callbacks of wrapTask's start    *)
(* are behind it.                                                          *)
LEMMA WhileRunning ==
    ASSUME IInv, RunnerContinues
    PROVE  /\ runner = "working" /\ settled = "none" /\ pool = "ready"
           /\ attached \/ kind = "direct"
           /\ \A i \in 1 .. Len(jobs) :
                jobs[i] \notin {"run", "attach"} /\ jobs[i] \notin AfterSettling
<1> USE DEF IInv
<1>1. runner = "working" /\ settled = "none" /\ pool = "ready"
  BY DEF RunnerContinues, SettledTells, NothingWithoutPool
<1>2. \A i \in 1 .. Len(jobs) : jobs[i] # "attach"
  BY DEF RunnerContinues, Contains
<1>3. attached \/ kind = "direct"
  <2> SUFFICES ASSUME ~attached, kind # "direct" PROVE FALSE
    OBVIOUS
  <2>1. jobs = <<"attach">>
    BY <1>1 DEF AttachIsEarly
  <2>2. Len(jobs) = 1 /\ jobs[1] = "attach"
    BY <2>1
  <2>3. QED
    BY <1>2, <2>2
<1>4. QED
  BY <1>1, <1>2, <1>3 DEF JobsFit

LEMMA ReportPreserves == ASSUME IInv, Report PROVE IInv'
<1> USE DEF IInv
<1>1. /\ RunnerContinues /\ Emit("report")
      /\ UNCHANGED <<kind, pool, status, cancelRequested, aborted, runner, settled, reactions,
                     jobs, ref, attached, cancelled, outer, call>>
  BY DEF Report
<1>2. runner = "working" /\ settled = "none" /\ pool = "ready"
  BY <1>1, WhileRunning
<1>3. TypeOK'
  <2>1. progress' \in Status \cup {"report"} /\ buffer' \in Seq(Status \cup {"report"})
    BY <1>1, Emitted
  <2>2. QED
    BY <1>1, <2>1 DEF TypeOK
<1>4. NothingWithoutPool' /\ AttachIsEarly' /\ SettledTells'
  BY <1>1, <1>2 DEF NothingWithoutPool, AttachIsEarly, SettledTells
<1>5. JobsFit' /\ ReactionsFit'
  BY <1>1 DEF JobsFit, ReactionsFit
<1>6. ReleaseIsFirst'
  BY <1>1 DEF ReleaseIsFirst
<1>7. QED
  BY <1>3, <1>4, <1>5, <1>6

(* The runner ends and the promise settles: its callbacks are queued, the  *)
(* engine's release ahead of the others.                                   *)
LEMMA RunnerEndsPreserves == ASSUME IInv, RunnerEnds PROVE IInv'
<1> USE DEF IInv
<1>1. PICK result \in {"result", "error", "cancelled"} :
        /\ RunnerContinues /\ Ends(StatusOf(result), result)
        /\ cancelRequested => result = "cancelled"
  BY DEF RunnerEnds, StatusOf
<1> DEFINE new == StatusOf(result)
<1>2. /\ runner' = "ended" /\ status' = new /\ Emit(new) /\ settled' = result
      /\ jobs' = jobs \o reactions /\ reactions' = <<>>
      /\ UNCHANGED <<kind, pool, cancelRequested, aborted, ref, attached, cancelled, outer, call>>
  BY <1>1 DEF Ends
<1>3. /\ runner = "working" /\ settled = "none" /\ pool = "ready"
      /\ attached \/ kind = "direct"
      /\ \A i \in 1 .. Len(jobs) :
           jobs[i] \notin {"run", "attach"} /\ jobs[i] \notin AfterSettling
  BY <1>1, WhileRunning
<1>4. new \in Status \cup {"report"} /\ result \in Outcome
  BY DEF StatusOf, Status, Outcome
<1> HIDE DEF new
<1>5. /\ jobs' \in Seq(Job) /\ Len(jobs) \in Nat /\ Len(reactions) \in Nat
      /\ Len(jobs') = Len(jobs) + Len(reactions)
      /\ \A i \in 1 .. Len(jobs) : jobs'[i] = jobs[i]
      /\ \A i \in 1 .. Len(reactions) : jobs'[Len(jobs) + i] = reactions[i]
      /\ \A i \in 1 .. Len(jobs) + Len(reactions) :
           i \notin 1 .. Len(jobs) =>
               i - Len(jobs) \in 1 .. Len(reactions) /\ jobs'[i] = reactions[i - Len(jobs)]
  <2>1. jobs \in Seq(Job) /\ reactions \in Seq(Job)
    BY DEF TypeOK
  <2>2. QED
    BY <1>2, <2>1, Joined
<1>6. /\ progress' \in Status \cup {"report"} /\ buffer' \in Seq(Status \cup {"report"})
      /\ Len(buffer') > 0 /\ buffer'[Len(buffer')] = new
  BY <1>2, <1>3, <1>4, Emitted
<1>7. TypeOK'
  <2>1. <<>> \in Seq(Job)
    OBVIOUS
  <2>2. new \in Status
    BY DEF new, StatusOf, Status
  <2>3. QED
    BY <1>2, <1>4, <1>5, <1>6, <2>1, <2>2 DEF TypeOK
<1>8. NothingWithoutPool' /\ AttachIsEarly'
  BY <1>2, <1>3 DEF NothingWithoutPool, AttachIsEarly
<1>9. JobsFit'
  <2> SUFFICES ASSUME NEW i \in 1 .. Len(jobs) + Len(reactions)
               PROVE  /\ jobs'[i] \notin {"run", "attach"}
                      /\ jobs'[i] \in {"adopt", "outer"} => attached
                      /\ jobs'[i] = "release" => kind = "engine"
    BY <1>1, <1>2, <1>5 DEF JobsFit
  <2>1. CASE i \in 1 .. Len(jobs)
    BY <1>3, <1>5, <2>1 DEF JobsFit
  <2>2. CASE i \notin 1 .. Len(jobs)
    <3>1. i - Len(jobs) \in 1 .. Len(reactions) /\ jobs'[i] = reactions[i - Len(jobs)]
      BY <1>5, <2>2
    <3>2. QED
      BY <3>1, CallersAreJobs DEF ReactionsFit
  <2>3. QED
    BY <2>1, <2>2
<1>10. ReactionsFit'
  BY <1>2 DEF ReactionsFit
<1>11. outer = "none" /\ \A k \in Caller : call[k] # "returned"
  BY <1>3 DEF SettledTells, ReleaseIsFirst
<1>12. SettledTells'
  BY <1>1, <1>2, <1>3, <1>6, <1>11 DEF SettledTells, new
<1>13. ReleaseIsFirst'
  <2>1. ASSUME kind = "engine"
        PROVE  \E i \in 1 .. Len(jobs') :
                  jobs'[i] = "release" /\ \A j \in 1 .. i - 1 : jobs'[j] \notin {"outer"} \cup Caller
    <3>1. 1 \in 1 .. Len(reactions) /\ reactions[1] = "release"
      BY <1>3, <1>5, <2>1 DEF ReleaseIsFirst
    <3>2. Len(jobs) + 1 \in 1 .. Len(jobs') /\ jobs'[Len(jobs) + 1] = "release"
      BY <1>5, <3>1
    <3>3. \A j \in 1 .. (Len(jobs) + 1) - 1 : j \in 1 .. Len(jobs)
      BY <1>5
    <3>4. \A j \in 1 .. Len(jobs) : jobs'[j] \notin {"outer"} \cup Caller
      BY <1>3, <1>5 DEF AfterSettling
    <3>5. QED
      BY <3>2, <3>3, <3>4
  <2>2. result # "none"
    OBVIOUS
  <2>3. QED
    BY <1>2, <1>3, <1>11, <2>1, <2>2 DEF ReleaseIsFirst
<1>14. QED
  BY <1>7, <1>8, <1>9, <1>10, <1>12, <1>13

-----------------------------------------------------------------------------
(* cancel() *)

LEMMA CancelPreserves == ASSUME IInv, NEW k \in Caller, Cancel(k) PROVE IInv'
<1> USE DEF IInv
<1>1. /\ cancelled' = (kind # "direct")
      /\ UNCHANGED <<kind, pool, aborted, runner, settled, ref, attached, outer>>
  BY DEF Cancel
<1>2. CASE (kind = "direct" \/ attached) /\ CancelInner(k)
  <2>1. /\ status \notin Final /\ cancelRequested' = TRUE /\ status' = "cancelled"
        /\ Emit("cancelled") /\ jobs' = Append(jobs, "abort") /\ reactions' = Append(reactions, k)
        /\ call' = [call EXCEPT ![k] = "waiting"]
    BY <1>2 DEF CancelInner
  <2>2. settled = "none"
    BY <2>1 DEF SettledTells, StatusOf, Final
  <2>3. pool = "ready"
    BY <1>2 DEF NothingWithoutPool
  <2>4. jobs \in Seq(Job) /\ reactions \in Seq(Job) /\ "abort" \in Job /\ k \in Job
    BY DEF TypeOK, Job, Step
  <2>5. /\ jobs' \in Seq(Job) /\ Len(jobs) \in Nat /\ Len(jobs') = Len(jobs) + 1
        /\ \A i \in 1 .. Len(jobs) : jobs'[i] = jobs[i]
        /\ jobs'[Len(jobs) + 1] = "abort"
    BY <2>1, <2>4, Appended
  <2>6. /\ reactions' \in Seq(Job) /\ Len(reactions) \in Nat /\ Len(reactions') = Len(reactions) + 1
        /\ \A i \in 1 .. Len(reactions) : reactions'[i] = reactions[i]
        /\ reactions'[Len(reactions) + 1] = k
    BY <2>1, <2>4, Appended
  <2>7. TypeOK'
    <3>1. progress' \in Status \cup {"report"} /\ buffer' \in Seq(Status \cup {"report"})
      BY <2>1, Emitted DEF Status
    <3>2. call' \in [Caller -> Call]
      BY <2>1 DEF TypeOK, Call
    <3>3. cancelRequested' \in BOOLEAN /\ cancelled' \in BOOLEAN
      BY <1>1, <2>1, Zenon
    <3>4. QED
      BY <1>1, <2>1, <2>5, <2>6, <3>1, <3>2, <3>3 DEF TypeOK, Status
  <2>8. NothingWithoutPool' /\ AttachIsEarly' /\ SettledTells'
    BY <1>1, <1>2, <2>2, <2>3 DEF NothingWithoutPool, AttachIsEarly, SettledTells
  <2>9. JobsFit'
    <3> SUFFICES ASSUME NEW i \in 1 .. Len(jobs) + 1
                 PROVE  /\ jobs'[i] = "run" => i = 1 /\ runner = "none"
                        /\ jobs'[i] = "attach" => kind # "direct" /\ ~attached
                        /\ jobs'[i] \in {"adopt", "outer"} => attached
                        /\ jobs'[i] = "release" => kind = "engine"
                        /\ jobs'[i] \notin AfterSettling
      BY <1>1, <2>5 DEF JobsFit
    <3>1. CASE i \in 1 .. Len(jobs)
      BY <2>2, <2>5, <3>1 DEF JobsFit
    <3>2. CASE i = Len(jobs) + 1
      BY <2>5, <3>2, CallersAreJobs
    <3>3. QED
      BY <2>5, <3>1, <3>2
  <2>10. ReactionsFit'
    <3> SUFFICES ASSUME NEW i \in 1 .. Len(reactions) + 1
                 PROVE  /\ reactions'[i] \in AfterSettling
                        /\ reactions'[i] = "outer" => attached
                        /\ reactions'[i] = "release" => kind = "engine"
      BY <1>1, <2>6 DEF ReactionsFit
    <3>1. CASE i \in 1 .. Len(reactions)
      BY <2>6, <3>1 DEF ReactionsFit
    <3>2. CASE i = Len(reactions) + 1
      BY <2>6, <3>2, CallersAreJobs DEF AfterSettling, Step
    <3>3. QED
      BY <2>6, <3>1, <3>2
  <2>11. ReleaseIsFirst'
    <3>1. kind = "engine" => ref = "held" /\ Len(reactions') > 0 /\ reactions'[1] = "release"
      <4>1. kind = "engine" => ref = "held" /\ Len(reactions) > 0 /\ reactions[1] = "release"
        BY <2>2, <2>3 DEF ReleaseIsFirst
      <4>2. Len(reactions) > 0 => 1 \in 1 .. Len(reactions)
        BY <2>6
      <4>3. QED
        BY <2>6, <4>1, <4>2
    <3>2. \A c \in Caller : call'[c] # "returned"
      BY <2>1, <2>2 DEF ReleaseIsFirst, TypeOK
    <3>3. QED
      BY <1>1, <2>2, <3>1, <3>2 DEF ReleaseIsFirst
  <2>12. QED
    BY <2>7, <2>8, <2>9, <2>10, <2>11
<1>3. CASE ~((kind = "direct" \/ attached) /\ CancelInner(k))
  <2>1. /\ UNCHANGED <<cancelRequested, status, progress, buffer, jobs, reactions>>
        /\ \E c \in {"late", "ignored"} : call' = [call EXCEPT ![k] = c]
    BY <1>3 DEF Cancel, CancelLate
  <2>2. call' \in [Caller -> Call] /\ \A c \in Caller : call'[c] = "returned" => call[c] = "returned"
    BY <2>1 DEF TypeOK, Call
  <2>3. TypeOK'
    <3>1. cancelled' \in BOOLEAN
      BY <1>1, Zenon
    <3>2. QED
      BY <1>1, <2>1, <2>2, <3>1 DEF TypeOK
  <2>4. NothingWithoutPool' /\ AttachIsEarly' /\ SettledTells'
    BY <1>1, <2>1, <2>2 DEF NothingWithoutPool, AttachIsEarly, SettledTells
  <2>5. JobsFit' /\ ReactionsFit'
    BY <1>1, <2>1 DEF JobsFit, ReactionsFit
  <2>6. ReleaseIsFirst'
    BY <1>1, <2>1, <2>2 DEF ReleaseIsFirst
  <2>7. QED
    BY <2>3, <2>4, <2>5, <2>6
<1>4. QED
  BY <1>2, <1>3

-----------------------------------------------------------------------------
LEMMA NextPreserves == IInv /\ [Next]_vars => IInv'
<1> SUFFICES ASSUME IInv, [Next]_vars PROVE IInv'
  OBVIOUS
<1>1. CASE PoolReady \/ PoolFails
  BY <1>1, PoolReadyPreserves, PoolFailsPreserves
<1>2. CASE Microtask
  BY <1>2, RunJobPreserves, AttachJobPreserves, AdoptJobPreserves, LastJobsPreserve DEF Microtask
<1>3. CASE Report \/ RunnerEnds
  BY <1>3, ReportPreserves, RunnerEndsPreserves
<1>4. CASE \E k \in Caller : Cancel(k)
  BY <1>4, CancelPreserves
<1>5. CASE UNCHANGED vars
  <2>1. UNCHANGED <<kind, pool, status, cancelRequested, aborted, progress, runner, settled,
                    reactions, jobs, ref, attached, cancelled, outer, buffer, call>>
    BY <1>5 DEF vars, innerVars, outerVars
  <2>2. TypeOK'
    BY <2>1 DEF IInv, TypeOK
  <2>3. NothingWithoutPool' /\ AttachIsEarly' /\ SettledTells'
    BY <2>1 DEF IInv, NothingWithoutPool, AttachIsEarly, SettledTells
  <2>4. JobsFit' /\ ReactionsFit' /\ ReleaseIsFirst'
    BY <2>1 DEF IInv, JobsFit, ReactionsFit, ReleaseIsFirst
  <2>5. QED
    BY <2>2, <2>3, <2>4 DEF IInv
<1>6. QED
  BY <1>1, <1>2, <1>3, <1>4, <1>5 DEF Next

LEMMA InvariantHolds == Spec => []IInv
BY InitEstablishes, NextPreserves, PTL DEF Spec

(* The variables of a task, of its wrapper and of the microtask queue keep *)
(* their types.                                                            *)
THEOREM TaskIsTyped == Spec => []TypeOK
<1>1. IInv => TypeOK
  BY DEF IInv
<1>2. QED
  BY <1>1, InvariantHolds, PTL

(* Once a cancel() has reached the inner task the user gets no result and  *)
(* no error of the runner any more.                                        *)
THEOREM CancelledTasksStayCancelled == Spec => []CancelPrevails
<1>1. IInv => CancelPrevails
  BY DEF IInv, CancelPrevails, Answer, SettledTells, NothingWithoutPool, TypeOK
<1>2. QED
  BY <1>1, InvariantHolds, PTL

(* The answer, the status shown and the last event agree. *)
THEOREM StatusAgreesWithAnswer == Spec => []StatusTellsAnswer
<1>1. IInv => StatusTellsAnswer
  <2> SUFFICES ASSUME IInv, Answer # "none", pool # "failed"
               PROVE  /\ ShownStatus = CASE Answer = "result" -> "done" [] Answer = "error" -> "failed"
                                         [] Answer = "cancelled" -> "cancelled"
                      /\ Last(buffer) = ShownStatus
    BY DEF StatusTellsAnswer
  <2>1. pool = "ready" /\ (kind = "direct" \/ attached) /\ Answer = settled
    BY DEF IInv, TypeOK, Answer, NothingWithoutPool, SettledTells
  <2>2. ShownStatus = status
    BY <2>1 DEF ShownStatus
  <2>3. status = StatusOf(settled) /\ Last(buffer) = status
    BY <2>1 DEF IInv, SettledTells, Last
  <2>4. settled \in {"result", "error", "cancelled"}
    BY <2>1 DEF IInv, TypeOK, Outcome
  <2>5. QED
    BY <2>1, <2>2, <2>3, <2>4 DEF StatusOf
<1>2. QED
  BY <1>1, InvariantHolds, PTL

(* The engine's reference covers the runner's work and is given back       *)
(* before the user has the answer or a cancel() returns.                   *)
THEOREM ReferencesCoverRunners == Spec => []ReferenceCoversRunner
<1>1. IInv => ReferenceCoversRunner
  <2> SUFFICES ASSUME IInv PROVE ReferenceCoversRunner
    OBVIOUS
  <2>1. ASSUME kind = "engine", runner = "working" PROVE ref = "held"
    <3>1. pool = "ready" /\ settled = "none"
      BY <2>1 DEF IInv, NothingWithoutPool, SettledTells
    <3>2. QED
      BY <2>1, <3>1 DEF IInv, ReleaseIsFirst
  <2>2. ASSUME kind = "engine", Answer # "none" PROVE ref # "held"
    <3>1. outer # "none"
      BY <2>2 DEF Answer
    <3>2. QED
      BY <3>1 DEF IInv, NothingWithoutPool, ReleaseIsFirst
  <2>3. ASSUME NEW k \in Caller, call[k] = "returned" PROVE runner = "ended" /\ ref # "held"
    BY <2>3 DEF IInv, ReleaseIsFirst, SettledTells
  <2>4. QED
    BY <2>1, <2>2, <2>3 DEF ReferenceCoversRunner
<1>2. QED
  BY <1>1, InvariantHolds, PTL

=============================================================================
