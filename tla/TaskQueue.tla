------------------------------ MODULE TaskQueue ------------------------------
(***************************************************************************)
(* The task queue of src/src/core/task-queue.ts: tasks wait in a list      *)
(* sorted by priority, at most Concurrency of them have a slot, and a slot *)
(* is given up when the task's promise settles. Signals, time limits,      *)
(* waitIdle() and close() interfere at any moment between two callbacks.   *)
(*                                                                         *)
(* A task is its item.id. enqueue on a closed queue, with a closure for a  *)
(* worker or with a signal that fired already is rejected before it has an *)
(* id and changes nothing, so it is not a step here; neither are waitIdle  *)
(* on an idle queue and a second close, which return at once.              *)
(***************************************************************************)
EXTENDS Integers, FiniteSets, Sequences, SequencesExt

CONSTANTS
    MaxTasks,     \* bound of the model: tasks ever enqueued
    Priority,     \* the values of opts.priority in use
    Concurrency,  \* options.concurrency
    Signalled,    \* the tasks enqueued with opts.signal
    Limited,      \* the tasks that have a timeoutMs
    Waiter        \* the callers of waitIdle() and close()

ASSUME QueueAssumption ==
    /\ MaxTasks \in Nat
    /\ Concurrency \in Nat
    /\ Priority \subseteq Int /\ 0 \in Priority

VARIABLES
    queue,      \* this.queue, as a sequence of ids
    active,     \* this.active
    closed,     \* this.closed
    seq,        \* this.seq
    priority,   \* item.priority
    phase,      \* where execute(item) is, see Phase
    fns,        \* the tasks whose function is running
    aborted,    \* the tasks whose opts.signal has fired
    outcome,    \* how the promise of enqueue settled, "none" before that
    wait        \* what each waiter awaits, see WaitState

vars == <<queue, active, closed, seq, priority, phase, fns, aborted, outcome, wait>>

Task == 1 .. MaxTasks

(* running: execute awaits the function; settled: the promise of execute   *)
(* is about to run its finally callback, the slot is still taken.          *)
Phase == {"new", "queued", "running", "settled", "finished"}
Outcome == {"none", "answered", "timeout", "cancelled", "closed"}

(* idle: awaits waitIdle(); closing: awaits it in close(); drained: its    *)
(* close() has returned.                                                   *)
WaitState == {"none", "idle", "closing", "drained"}

Init ==
    /\ queue = <<>> /\ active = 0 /\ closed = FALSE /\ seq = 0
    /\ priority = [t \in Task |-> 0]
    /\ phase = [t \in Task |-> "new"]
    /\ fns = {} /\ aborted = {}
    /\ outcome = [t \in Task |-> "none"]
    /\ wait = [w \in Waiter |-> "none"]

(* The promise settles the first time only. *)
SettledAs(out, S, result) ==
    [t \in Task |-> IF t \in S /\ out[t] = "none" THEN result ELSE out[t]]

(* The code's search for the index of a new item, from lo up to hi. *)
BinarySearch(p) ==
    LET search[range \in (0 .. Len(queue)) \X (0 .. Len(queue))] ==
            LET lo == range[1]
                hi == range[2]
                mid == (lo + hi) \div 2
            IN  IF lo >= hi THEN lo
                ELSE IF priority[queue[mid + 1]] < p THEN search[<<lo, mid>>]
                ELSE search[<<mid + 1, hi>>]
    IN  search[<<0, Len(queue)>>]

(* Bug: a new item overtakes those of its own priority. *)
BugIndexFor(p) == Cardinality({i \in DOMAIN queue : priority[queue[i]] > p})

(* What the search finds, see StartsInOrder: the items that stay ahead.    *)
IndexFor(p) == Cardinality({i \in DOMAIN queue : priority[queue[i]] >= p})

(* How many items the loop of pump takes from q when a slots are taken. *)
Slots(q, a) == IF closed \/ Concurrency <= a THEN 0
               ELSE IF Len(q) < Concurrency - a THEN Len(q) ELSE Concurrency - a

(* Bug: execute does not look at the signal. *)
BugPump(q, a, ph) ==
    LET n == Slots(q, a)
        started == {q[i] : i \in 1 .. n}
    IN  /\ queue' = SubSeq(q, n + 1, Len(q))
        /\ active' = a + n
        /\ phase' = [t \in Task |-> IF t \in started THEN "running" ELSE ph[t]]
        /\ fns' = fns \cup started
        /\ UNCHANGED outcome

(* pump, with the part of execute before its first await: items take the   *)
(* free slots in queue order; one that was cancelled while it was queued   *)
(* is rejected and its function never runs.                                *)
Pump(q, a, ph) ==
    LET n == Slots(q, a)
        started == {q[i] : i \in 1 .. n}
    IN  /\ queue' = SubSeq(q, n + 1, Len(q))
        /\ active' = a + n
        /\ phase' = [t \in Task |-> IF t \notin started THEN ph[t]
                                    ELSE IF t \in aborted THEN "settled" ELSE "running"]
        /\ fns' = fns \cup (started \ aborted)
        /\ outcome' = SettledAs(outcome, started \cap aborted, "cancelled")

(* enqueue: insert by priority, then pump. *)
Enqueue(p) ==
    /\ ~closed
    /\ seq < MaxTasks
    /\ seq' = seq + 1
    /\ priority' = [priority EXCEPT ![seq + 1] = p]
    /\ Pump(InsertAt(queue, IndexFor(p) + 1, seq + 1), active,
            [phase EXCEPT ![seq + 1] = "queued"])
    /\ UNCHANGED <<closed, aborted, wait>>

(* The signal of a task fires. Only a running task listens to it: a queued *)
(* one is rejected when it is taken from the queue.                        *)
Abort(t) ==
    /\ phase[t] \in {"queued", "running"}
    /\ t \in Signalled \ aborted
    /\ aborted' = aborted \cup {t}
    /\ outcome' = IF phase[t] = "running" THEN SettledAs(outcome, {t}, "cancelled") ELSE outcome
    /\ UNCHANGED <<queue, active, closed, seq, priority, phase, fns, wait>>

(* The function of a task returns or throws, and the promise settles with  *)
(* that answer. Nobody is interested when the time limit came first.       *)
FnEnds(t) ==
    /\ t \in fns
    /\ fns' = fns \ {t}
    /\ phase' = IF phase[t] = "running" THEN [phase EXCEPT ![t] = "settled"] ELSE phase
    /\ outcome' = SettledAs(outcome, {t}, "answered")
    /\ UNCHANGED <<queue, active, closed, seq, priority, aborted, wait>>

(* The timer of withTimeout fires: execute goes on, the function is not    *)
(* stopped.                                                                *)
TimesOut(t) ==
    /\ t \in Limited
    /\ phase[t] = "running"
    /\ phase' = [phase EXCEPT ![t] = "settled"]
    /\ outcome' = SettledAs(outcome, {t}, "timeout")
    /\ UNCHANGED <<queue, active, closed, seq, priority, fns, aborted, wait>>

(* A waiter is told that the queue is idle. *)
Woken == [w \in Waiter |-> CASE wait[w] = "idle" -> "none"
                             [] wait[w] = "closing" -> "drained"
                             [] OTHER -> wait[w]]

(* Bug: the waiters are told one task too early. *)
BugFinallyWakesEarly(t) ==
    /\ phase[t] = "settled"
    /\ Pump(queue, active - 1, [phase EXCEPT ![t] = "finished"])
    /\ wait' = IF active' <= 1 /\ queue' = <<>> THEN Woken ELSE wait
    /\ UNCHANGED <<closed, seq, priority, aborted>>

(* Bug: the slot is not given up. *)
BugFinallyForgetsSlot(t) ==
    /\ phase[t] = "settled"
    /\ Pump(queue, active, [phase EXCEPT ![t] = "finished"])
    /\ wait' = IF active' = 0 /\ queue' = <<>> THEN Woken ELSE wait
    /\ UNCHANGED <<closed, seq, priority, aborted>>

(* Bug: the idle test comes before the slot is given up. *)
BugFinallyTestsFirst(t) ==
    /\ phase[t] = "settled"
    /\ Pump(queue, active - 1, [phase EXCEPT ![t] = "finished"])
    /\ wait' = IF active = 0 /\ queue = <<>> THEN Woken ELSE wait
    /\ UNCHANGED <<closed, seq, priority, aborted>>

(* Bug: the slot is given up and nobody is started in it. *)
BugFinallyForgetsPump(t) ==
    /\ phase[t] = "settled"
    /\ active' = active - 1
    /\ phase' = [phase EXCEPT ![t] = "finished"]
    /\ wait' = IF active' = 0 /\ queue = <<>> THEN Woken ELSE wait
    /\ UNCHANGED <<queue, fns, outcome, closed, seq, priority, aborted>>

(* The finally callback of pump: free the slot, pump, wake the waiters if  *)
(* that leaves nothing to do.                                              *)
Finally(t) ==
    /\ phase[t] = "settled"
    /\ Pump(queue, active - 1, [phase EXCEPT ![t] = "finished"])
    /\ wait' = IF active' = 0 /\ queue' = <<>> THEN Woken ELSE wait
    /\ UNCHANGED <<closed, seq, priority, aborted>>

WaitIdle(w) ==
    /\ wait[w] = "none"
    /\ active # 0 \/ queue # <<>>
    /\ wait' = [wait EXCEPT ![w] = "idle"]
    /\ UNCHANGED <<queue, active, closed, seq, priority, phase, fns, aborted, outcome>>

(* close: reject what is queued and wait for what has a slot. *)
Close(w) ==
    /\ wait[w] = "none" /\ ~closed
    /\ closed' = TRUE
    /\ queue' = <<>>
    /\ phase' = [t \in Task |-> IF phase[t] = "queued" THEN "finished" ELSE phase[t]]
    /\ outcome' = SettledAs(outcome, {queue[i] : i \in DOMAIN queue}, "closed")
    /\ wait' = [wait EXCEPT ![w] = IF active = 0 THEN "drained" ELSE "closing"]
    /\ UNCHANGED <<active, seq, priority, fns, aborted>>

Ends(t) == TimesOut(t) \/ FnEnds(t)

Next ==
    \/ \E p \in Priority : Enqueue(p)
    \/ \E t \in Task : Abort(t) \/ Ends(t) \/ Finally(t)
    \/ \E w \in Waiter : WaitIdle(w) \/ Close(w)

Spec == Init /\ [][Next]_vars

(* The event loop runs the callbacks of settled promises. A task comes to  *)
(* an end: this is assumed of the functions the application enqueues, or   *)
(* of the time limit it sets for them.                                     *)
FairSpec == Spec /\ \A t \in Task : WF_vars(Finally(t)) /\ WF_vars(phase[t] = "running" /\ Ends(t))

-----------------------------------------------------------------------------

TypeOK ==
    /\ queue \in Seq(Task) /\ active \in Nat /\ closed \in BOOLEAN
    /\ seq \in 0 .. MaxTasks
    /\ priority \in [Task -> Priority]
    /\ phase \in [Task -> Phase]
    /\ fns \subseteq Task /\ aborted \subseteq Task
    /\ outcome \in [Task -> Outcome]
    /\ wait \in [Waiter -> WaitState]

(* The counter is the number of tasks that have a slot, never more than    *)
(* the limit, whatever cancels, times out or throws.                       *)
HasSlot == {t \in Task : phase[t] \in {"running", "settled"}}

SlotsAreCounted == active = Cardinality(HasSlot) /\ active <= Concurrency

(* No task waits while a slot is free. *)
WorkConserving == queue # <<>> => ~closed /\ active = Concurrency

(* A task starts before those of lower priority and, among equals, before  *)
(* those that came later; and for every queue that arises the search of    *)
(* the code ends after the last item of the same or a higher priority.     *)
Before(t, u) == priority[t] > priority[u] \/ (priority[t] = priority[u] /\ t < u)

StartsInOrder ==
    /\ [](\A p \in Priority : BinarySearch(p) = IndexFor(p))
    /\ [][\A t, u \in Task :
             (phase'[t] \in {"running", "settled"} /\ phase[t] \in {"new", "queued"} /\ phase'[u] = "queued")
                 => Before(t, u)']_vars

(* A task whose signal fired before it settled never reports a result, no  *)
(* matter whether it was queued or running then.                           *)
CancelledNeverAnswers ==
    [][\A t \in aborted : outcome[t] = "none" => outcome'[t] \in {"none", "cancelled", "closed"}]_vars

(* When close() returns to the caller that closed the queue, every task is *)
(* settled and no slot is taken, and it stays so.                          *)
CloseDrains ==
    (\E w \in Waiter : wait[w] = "drained") =>
        /\ closed /\ active = 0
        /\ \A t \in Task : phase[t] \in {"new", "finished"}

(* The promise of every accepted task settles, and everyone who waits for  *)
(* the queue to be idle, or to close, returns.                             *)
EverybodyIsAnswered ==
    /\ \A t \in Task : phase[t] = "queued" ~> outcome[t] # "none"
    /\ \A w \in Waiter : wait[w] \in {"idle", "closing"} ~> wait[w] \in {"none", "drained"}

=============================================================================
