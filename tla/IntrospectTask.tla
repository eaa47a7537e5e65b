--------------------------- MODULE IntrospectTask ---------------------------
(***************************************************************************)
(* Long tasks: createTask and wrapTask of src/src/types/task.ts, as        *)
(* getAllTableSchemas uses them. createTask runs a driver's runner and     *)
(* settles a promise; wrapTask stands in for such a task while the         *)
(* connection pool is awaited, and SqlEngine holds a pool reference as     *)
(* long as the inner promise is not settled.                               *)
(*                                                                         *)
(* Who does what before whom is decided by the order of microtasks, so     *)
(* their queue is part of the state: jobs run in the order in which they   *)
(* were queued, the callbacks of a promise in the order they were added.   *)
(***************************************************************************)
EXTENDS Integers, Sequences, SequencesExt

CONSTANTS
    Caller,      \* the calls of cancel()
    MaxEvents    \* bound of the model: progress events

(* The microtasks that are not the rest of a cancel(). *)
Step == {"run", "attach", "adopt", "abort", "release", "outer"}

ASSUME TaskAssumption == MaxEvents \in Nat /\ Caller \cap Step = {}

VARIABLES
    kind,             \* who made the task, see Kind
    pool,             \* the promise createInner waits for
    status,           \* createTask: status
    cancelRequested,  \* createTask: cancelRequested
    aborted,          \* createTask: abort.signal.aborted
    progress,         \* createTask: progress.stage
    runner,           \* the runner: it is an async function of a driver
    settled,          \* createTask: how promise is settled
    reactions,        \* the callbacks of that promise, in order
    jobs,             \* the microtasks queued
    ref,              \* the engine's pool reference
    attached,         \* wrapTask: inner is set
    cancelled,        \* wrapTask: cancelled
    outer,            \* wrapTask: how promise is settled
    buffer,           \* the stages of the events subscribers get
    call              \* each call of cancel()

innerVars == <<status, cancelRequested, aborted, progress, runner, settled, reactions>>
outerVars == <<attached, cancelled, outer, buffer>>
vars == <<kind, pool, innerVars, jobs, ref, outerVars, call>>

(* direct: createTask alone, as analyzeCollection uses it; client:         *)
(* wrapped, without a reference of its own; engine: wrapped, with one.     *)
Kind == {"direct", "client", "engine"}
Status == {"pending", "running", "done", "failed", "cancelled"}
Final == {"done", "failed", "cancelled"}
Outcome == {"none", "result", "error", "cancelled"}

(* A caller as a job is the rest of its cancel(), after the await. *)
Job == Step \cup Caller

(* waiting: awaits the promise; returned: after that; late: the task was   *)
(* over or cancelled already; ignored: wrapTask had no inner task yet.     *)
Call == {"idle", "waiting", "returned", "late", "ignored"}

Init ==
    /\ kind \in Kind
    /\ pool = IF kind = "direct" THEN "ready" ELSE "pending"
    /\ status = "pending" /\ progress = "pending"
    /\ cancelRequested = FALSE /\ aborted = FALSE
    /\ runner = "none" /\ settled = "none" /\ reactions = <<>>
    /\ jobs = IF kind = "direct" THEN <<"run">> ELSE <<>>
    /\ ref = "none"
    /\ attached = FALSE /\ cancelled = FALSE /\ outer = "none"
    /\ buffer = <<>>
    /\ call = [k \in Caller |-> "idle"]

(* emit: the listeners of createTask get the event, among them wrapTask's  *)
(* push, which buffers it and passes it on.                                *)
Emit(stage) ==
    /\ progress' = stage
    /\ buffer' = IF attached \/ kind = "direct" THEN Append(buffer, stage) ELSE buffer

-----------------------------------------------------------------------------
(* createInner *)

(* Bug: the release does not wait for the task's promise. *)
BugPoolReady ==
    /\ pool = "pending"
    /\ pool' = "ready"
    /\ jobs' = jobs \o (IF kind = "engine" THEN <<"run", "release", "attach">> ELSE <<"run", "attach">>)
    /\ ref' = IF kind = "engine" THEN "held" ELSE ref
    /\ UNCHANGED <<kind, innerVars, outerVars, call>>

(* The pool is there: the driver makes its task, which queues run; the     *)
(* engine adds its release to the task's promise; wrapTask's continuation  *)
(* is queued when the callback has returned.                               *)
PoolReady ==
    /\ pool = "pending"
    /\ pool' = "ready"
    /\ jobs' = jobs \o <<"run", "attach">>
    /\ ref' = IF kind = "engine" THEN "held" ELSE ref
    /\ reactions' = IF kind = "engine" THEN <<"release">> ELSE <<>>
    /\ UNCHANGED <<kind, status, cancelRequested, aborted, progress, runner, settled, outerVars, call>>

(* No pool: the promise of wrapTask rejects and there is no inner task. *)
PoolFails ==
    /\ pool = "pending"
    /\ pool' = "failed"
    /\ outer' = "error"
    /\ UNCHANGED <<kind, innerVars, jobs, ref, attached, cancelled, buffer, call>>

-----------------------------------------------------------------------------
(* Microtasks *)

IsNext(job) == jobs # <<>> /\ Head(jobs) = job

(* run: whatever the status was, it is "running" now. *)
RunJob ==
    /\ IsNext("run")
    /\ jobs' = Tail(jobs)
    /\ status' = "running"
    /\ runner' = "working"
    /\ Emit("running")
    /\ UNCHANGED <<kind, pool, cancelRequested, aborted, settled, reactions, ref,
                   attached, cancelled, outer, call>>

(* Bug: the inner promise is not returned from the callback. *)
BugAttachJob ==
    /\ IsNext("attach")
    /\ jobs' = Tail(jobs)
    /\ attached' = TRUE
    /\ buffer' = Append(buffer, progress)
    /\ UNCHANGED <<kind, pool, innerVars, ref, cancelled, outer, call>>

(* wrapTask gets the inner task: subscribe, push a snapshot of its         *)
(* progress, and follow its promise, which takes one more job.             *)
AttachJob ==
    /\ IsNext("attach")
    /\ jobs' = Append(Tail(jobs), "adopt")
    /\ attached' = TRUE
    /\ buffer' = Append(buffer, progress)
    /\ UNCHANGED <<kind, pool, innerVars, ref, cancelled, outer, call>>

AdoptJob ==
    /\ IsNext("adopt")
    /\ IF settled = "none"
       THEN jobs' = Tail(jobs) /\ reactions' = Append(reactions, "outer")
       ELSE jobs' = Append(Tail(jobs), "outer") /\ UNCHANGED reactions
    /\ UNCHANGED <<kind, pool, status, cancelRequested, aborted, progress, runner, settled,
                   ref, outerVars, call>>

AbortJob ==
    /\ IsNext("abort")
    /\ jobs' = Tail(jobs)
    /\ aborted' = TRUE
    /\ UNCHANGED <<kind, pool, status, cancelRequested, progress, runner, settled, reactions,
                   ref, outerVars, call>>

ReleaseJob ==
    /\ IsNext("release")
    /\ jobs' = Tail(jobs)
    /\ ref' = "released"
    /\ UNCHANGED <<kind, pool, innerVars, outerVars, call>>

OuterJob ==
    /\ IsNext("outer")
    /\ jobs' = Tail(jobs)
    /\ outer' = settled
    /\ UNCHANGED <<kind, pool, innerVars, ref, attached, cancelled, buffer, call>>

CallJob(k) ==
    /\ IsNext(k)
    /\ jobs' = Tail(jobs)
    /\ call' = [call EXCEPT ![k] = "returned"]
    /\ UNCHANGED <<kind, pool, innerVars, ref, outerVars>>

Microtask ==
    \/ RunJob \/ AttachJob \/ AdoptJob \/ AbortJob \/ ReleaseJob \/ OuterJob
    \/ \E k \in Caller : CallJob(k)

-----------------------------------------------------------------------------
(* The runner *)

(* A runner starts with an await, so it continues behind what was queued   *)
(* when it began: after wrapTask's continuation.                           *)
RunnerContinues == runner = "working" /\ ~Contains(jobs, "attach")

(* ctx.report: nothing is passed on any more after cancel(). *)
Report ==
    /\ RunnerContinues
    /\ Len(buffer) < MaxEvents
    /\ ~cancelRequested
    /\ Emit("report")
    /\ UNCHANGED <<kind, pool, status, cancelRequested, aborted, runner, settled, reactions,
                   jobs, ref, attached, cancelled, outer, call>>

(* Bug: the status set by cancel() is taken to be still there. *)
BugEndsKeepsStatus(newStatus, result) ==
    /\ runner' = "ended"
    /\ status' = IF newStatus = "cancelled" THEN status ELSE newStatus
    /\ Emit(newStatus)
    /\ settled' = result
    /\ jobs' = jobs \o reactions
    /\ reactions' = <<>>
    /\ UNCHANGED <<kind, pool, cancelRequested, aborted, ref, attached, cancelled, outer, call>>

(* The status is set, then the event emitted, then the promise settled,    *)
(* which queues its callbacks.                                             *)
Ends(newStatus, result) ==
    /\ runner' = "ended"
    /\ status' = newStatus
    /\ Emit(newStatus)
    /\ settled' = result
    /\ jobs' = jobs \o reactions
    /\ reactions' = <<>>
    /\ UNCHANGED <<kind, pool, cancelRequested, aborted, ref, attached, cancelled, outer, call>>

(* Bug: a result that came after cancel() is still reported. *)
BugRunnerEnds ==
    /\ RunnerContinues
    /\ Ends("done", "result") \/ Ends("failed", "error")

(* The runner returns or throws; after cancel() it does not matter which.  *)
RunnerEnds ==
    /\ RunnerContinues
    /\ \/ cancelRequested /\ Ends("cancelled", "cancelled")
       \/ ~cancelRequested /\ Ends("done", "result")
       \/ ~cancelRequested /\ Ends("failed", "error")

-----------------------------------------------------------------------------
(* cancel() *)

(* createTask's cancel on a task that is not over: the status changes at   *)
(* once, the signal follows in a microtask, and the caller awaits the      *)
(* promise.                                                                *)
CancelInner(k) ==
    /\ status \notin Final
    /\ cancelRequested' = TRUE
    /\ status' = "cancelled"
    /\ Emit("cancelled")
    /\ jobs' = Append(jobs, "abort")
    /\ reactions' = Append(reactions, k)
    /\ call' = [call EXCEPT ![k] = "waiting"]

(* On a task that is over, or cancelled already, cancel returns. *)
CancelLate(k) ==
    /\ status \in Final
    /\ call' = [call EXCEPT ![k] = "late"]
    /\ UNCHANGED <<cancelRequested, status, progress, buffer, jobs, reactions>>

(* wrapTask's cancel sets its flag and passes the call on if it can. *)
Cancel(k) ==
    /\ call[k] = "idle"
    /\ cancelled' = (kind # "direct")
    /\ \/ /\ kind # "direct" /\ ~attached
          /\ call' = [call EXCEPT ![k] = "ignored"]
          /\ UNCHANGED <<cancelRequested, status, progress, buffer, jobs, reactions>>
       \/ /\ kind = "direct" \/ attached
          /\ CancelInner(k) \/ CancelLate(k)
    /\ UNCHANGED <<kind, pool, aborted, runner, settled, ref, attached, outer>>

-----------------------------------------------------------------------------

Next ==
    \/ PoolReady \/ PoolFails
    \/ Microtask
    \/ Report \/ RunnerEnds
    \/ \E k \in Caller : Cancel(k)

Spec == Init /\ [][Next]_vars

(* The event loop runs microtasks, getPool settles (see EngineCalls), and  *)
(* a runner ends: it walks over finitely many tables or sampled documents. *)
FairSpec == Spec /\ WF_vars(PoolReady \/ PoolFails) /\ WF_vars(Microtask) /\ WF_vars(RunnerEnds)

(* What the user of the task sees. *)
Answer == IF kind = "direct" THEN settled ELSE outer
ShownStatus ==
    CASE kind = "direct" \/ attached -> status
      [] OTHER -> IF cancelled THEN "cancelled" ELSE "pending"

TypeOK ==
    /\ kind \in Kind /\ pool \in {"pending", "ready", "failed"}
    /\ status \in Status /\ progress \in Status \cup {"report"}
    /\ cancelRequested \in BOOLEAN /\ aborted \in BOOLEAN
    /\ runner \in {"none", "working", "ended"}
    /\ settled \in Outcome /\ outer \in Outcome
    /\ reactions \in Seq(Job) /\ jobs \in Seq(Job)
    /\ ref \in {"none", "held", "released"}
    /\ attached \in BOOLEAN /\ cancelled \in BOOLEAN
    /\ buffer \in Seq(Status \cup {"report"})
    /\ call \in [Caller -> Call]

(* Once a cancel() has reached the inner task, the user gets no result and *)
(* no error of the runner any more, whatever the runner does after it.     *)
CancelPrevails == cancelRequested => Answer \in {"none", "cancelled"}

(* The answer agrees with the status shown from then on, and the last      *)
(* event that subscribers got is the one of this status, also when the     *)
(* task was cancelled before it ran; unless there was no pool: then the    *)
(* status stays what it was and says nothing.                              *)
StatusTellsAnswer ==
    (Answer # "none" /\ pool # "failed") =>
        /\ ShownStatus = CASE Answer = "result" -> "done" [] Answer = "error" -> "failed"
                           [] Answer = "cancelled" -> "cancelled"
        /\ Last(buffer) = ShownStatus

(* The engine's reference covers the runner's work, and it is given back   *)
(* before the user of the task has the answer. A cancel() that has reached *)
(* the task returns only when the runner does nothing any more and the     *)
(* reference is given back.                                                *)
ReferenceCoversRunner ==
    /\ kind = "engine" =>
          /\ runner = "working" => ref = "held"
          /\ Answer # "none" => ref # "held"
    /\ \A k \in Caller : call[k] = "returned" => runner = "ended" /\ ref # "held"

(* Every task is answered and every cancel() returns, whatever the order   *)
(* of pool, start, cancel() and runner.                                    *)
EveryTaskIsAnswered ==
    /\ <>(Answer # "none")
    /\ \A k \in Caller : call[k] = "waiting" ~> call[k] = "returned"

(* What the interface says of cancel(): the promise rejects with           *)
(* TASK_CANCELLED. So no cancel() of a task that was not over is followed  *)
(* by a result.                                                            *)
CancelledTaskRejects ==
    (\E k \in Caller : call[k] \in {"waiting", "returned", "ignored"}) => Answer # "result"

=============================================================================
