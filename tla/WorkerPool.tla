----------------------------- MODULE WorkerPool -----------------------------
(***************************************************************************)
(* The worker pool behind the task queue: NodeWorkerPool                   *)
(* (src/src/core/worker/node-worker.ts) and BunWorkerPool (bun-worker.ts), *)
(* which differ in close() only.                                           *)
(*                                                                         *)
(* run() gives a task to the first worker without one, starts a worker     *)
(* when all have one, and polls once every millisecond when no more may be *)
(* started. A thread computes, answers by a message, may throw outside of  *)
(* the task (an error event) or exit (no event the pool listens to).       *)
(*                                                                         *)
(* run() is called by the task queue, which stops waiting for a task at    *)
(* its time limit and closes the pool once it waits for none; a task that  *)
(* it has given up keeps its slot, or goes on polling for one. It calls    *)
(* nothing after that, so run() on a closed pool is a poller's step only.  *)
(***************************************************************************)
EXTENDS Integers, FiniteSets, Sequences, FiniteSetsExt

CONSTANTS
    Task,         \* the specs given to run()
    NoTask,
    Count,        \* this.count, the number of workers the pool may start
    Unclonable    \* the specs whose args postMessage cannot clone

CrashEvent == "error"

ASSUME PoolAssumption ==
    /\ Count \in Nat \ {0}
    /\ Unclonable \subseteq Task
    /\ NoTask \notin Task /\ CrashEvent \notin Task

VARIABLES
    runtime,    \* which of the two implementations this is
    size,       \* workers.length
    worker,     \* workers[i]: "object", or "undefined" once its error event came
    pending,    \* pending[i]
    closed,     \* this.closed
    thread,     \* the thread of slot i: a slot gets one thread in its life
    work,       \* the tasks posted to the thread of slot i and not answered
    events,     \* what the thread of slot i has sent and the pool not handled
    state,      \* the promise run() returned for each task, see TaskState
    answer,     \* the task whose result a task's promise was resolved with
    givenUp     \* the tasks the queue waits for no longer

poolVars == <<size, worker, pending, closed>>
threadVars == <<thread, work, events>>
vars == <<runtime, poolVars, threadVars, state, answer, givenUp>>

Slot == 1 .. Count
Runtime == {"node", "bun"}
Thread == {"none", "alive", "dead", "terminated"}

(* polling: in the timer loop; assigned: the entry is in pending; refused: *)
(* postMessage threw; crashed: rejected by an error event; closed:         *)
(* rejected by the timer loop after close().                               *)
TaskState == {"new", "polling", "assigned", "answered", "refused", "crashed", "closed"}

Settled == {t \in Task : state[t] \in {"answered", "refused", "crashed", "closed"}}

Init ==
    /\ runtime \in Runtime
    /\ size = 0 /\ closed = FALSE
    /\ worker = [i \in Slot |-> "undefined"]
    /\ pending = [i \in Slot |-> NoTask]
    /\ thread = [i \in Slot |-> "none"]
    /\ work = [i \in Slot |-> {}]
    /\ events = [i \in Slot |-> <<>>]
    /\ state = [t \in Task |-> "new"]
    /\ answer = [t \in Task |-> NoTask]
    /\ givenUp = {}

(* Bug: a worker is chosen without a look at pending. *)
BugFreeSlots == 1 .. size

FreeSlots == {i \in 1 .. size : pending[i] = NoTask}

(* The last lines of run(): the slot is taken first, then postMessage is   *)
(* called. It throws when there is no worker object any more, or when the  *)
(* args cannot be cloned; run() rejects then and the slot stays taken.     *)
Assign(t, i, wk, th) ==
    LET posted == wk[i] = "object" /\ t \notin Unclonable
    IN  /\ pending' = [pending EXCEPT ![i] = t]
        /\ work' = IF posted /\ th[i] = "alive" THEN [work EXCEPT ![i] = @ \cup {t}] ELSE work
        /\ state' = [state EXCEPT ![t] = IF posted THEN "assigned" ELSE "refused"]

RunReuses(t) ==
    /\ FreeSlots # {}
    /\ Assign(t, Min(FreeSlots), worker, thread)
    /\ UNCHANGED <<size, worker, thread>>

RunSpawns(t) ==
    /\ FreeSlots = {} /\ size < Count
    /\ size' = size + 1
    /\ worker' = [worker EXCEPT ![size + 1] = "object"]
    /\ thread' = [thread EXCEPT ![size + 1] = "alive"]
    /\ Assign(t, size + 1, worker', thread')

(* Bug: the limit is tested with a post-increment. *)
BugRunPolls(t) ==
    /\ FreeSlots = {} /\ size = Count
    /\ size' = size + 1
    /\ state' = [state EXCEPT ![t] = "polling"]
    /\ UNCHANGED <<worker, pending, thread, work>>

RunPolls(t) ==
    /\ FreeSlots = {} /\ size = Count
    /\ state' = [state EXCEPT ![t] = "polling"]
    /\ UNCHANGED <<size, worker, pending, thread, work>>

Run(t) ==
    /\ state[t] = "new" /\ ~closed
    /\ RunReuses(t) \/ RunSpawns(t) \/ RunPolls(t)
    /\ UNCHANGED <<runtime, closed, events, answer, givenUp>>

(* The timer of a poller fires and finds the pool closed, or a free slot,  *)
(* which it takes by calling run() again. Otherwise it changes nothing.    *)
Poll(t) ==
    /\ state[t] = "polling"
    /\ \/ /\ closed
          /\ state' = [state EXCEPT ![t] = "closed"]
          /\ UNCHANGED <<size, worker, pending, thread, work>>
       \/ /\ ~closed
          /\ RunReuses(t)
    /\ UNCHANGED <<runtime, closed, events, answer, givenUp>>

(* The worker side: the function returned or threw, the runner posts what  *)
(* came of it.                                                             *)
Compute(i) ==
    /\ thread[i] = "alive"
    /\ \E t \in work[i] :
          /\ work' = [work EXCEPT ![i] = @ \ {t}]
          /\ events' = [events EXCEPT ![i] = Append(@, t)]
    /\ UNCHANGED <<runtime, poolVars, thread, state, answer, givenUp>>

(* An exception nobody catches ends the thread, at work or idle, with an   *)
(* error event; process.exit ends it without one.                          *)
Dies(i, sent) ==
    /\ thread[i] = "alive"
    /\ thread' = [thread EXCEPT ![i] = "dead"]
    /\ work' = [work EXCEPT ![i] = {}]
    /\ events' = [events EXCEPT ![i] = @ \o sent]
    /\ UNCHANGED <<runtime, poolVars, state, answer, givenUp>>

Crash(i) == Dies(i, <<CrashEvent>>)
Exit(i) == Dies(i, <<>>)

SettlePending(i, result) ==
    state' = IF pending[i] \in Task \ Settled THEN [state EXCEPT ![pending[i]] = result] ELSE state

(* Bug: the slot is cleared before the task is read from it. *)
BugMessageClearsFirst(i) ==
    /\ events[i] # <<>> /\ Head(events[i]) # CrashEvent
    /\ events' = [events EXCEPT ![i] = Tail(@)]
    /\ pending' = [pending EXCEPT ![i] = NoTask]
    /\ UNCHANGED <<runtime, size, worker, closed, thread, work, state, answer, givenUp>>

(* Bug: the slot is not cleared. *)
BugMessageKeepsSlot(i) ==
    /\ events[i] # <<>> /\ Head(events[i]) # CrashEvent
    /\ events' = [events EXCEPT ![i] = Tail(@)]
    /\ SettlePending(i, "answered")
    /\ answer' = IF pending[i] \in Task \ Settled
                 THEN [answer EXCEPT ![pending[i]] = Head(events[i])] ELSE answer
    /\ UNCHANGED <<runtime, size, worker, pending, closed, thread, work, givenUp>>

(* The 'message' listener: whatever task is pending in the slot gets it.   *)
HandleMessage(i) ==
    /\ events[i] # <<>> /\ Head(events[i]) # CrashEvent
    /\ events' = [events EXCEPT ![i] = Tail(@)]
    /\ SettlePending(i, "answered")
    /\ answer' = IF pending[i] \in Task \ Settled
                 THEN [answer EXCEPT ![pending[i]] = Head(events[i])] ELSE answer
    /\ pending' = [pending EXCEPT ![i] = NoTask]
    /\ UNCHANGED <<runtime, size, worker, closed, thread, work, givenUp>>

(* The 'error' listener: the pending task is rejected and the worker       *)
(* object dropped. Nothing starts another one in its place.                *)
HandleError(i) ==
    /\ events[i] # <<>> /\ Head(events[i]) = CrashEvent
    /\ events' = [events EXCEPT ![i] = Tail(@)]
    /\ SettlePending(i, "crashed")
    /\ pending' = [pending EXCEPT ![i] = NoTask]
    /\ worker' = [worker EXCEPT ![i] = "undefined"]
    /\ UNCHANGED <<runtime, size, closed, thread, work, answer, givenUp>>

(* The queue's time limit for a task. *)
GiveUp(t) ==
    /\ state[t] \in {"polling", "assigned"} /\ t \notin givenUp
    /\ givenUp' = givenUp \cup {t}
    /\ UNCHANGED <<runtime, poolVars, threadVars, state, answer>>

(* The workers close() terminates: node skips those that are undefined, in *)
(* bun the first of them makes forEach throw.                              *)
Terminated ==
    {i \in 1 .. size : /\ worker[i] = "object"
                       /\ runtime = "bun" => \A j \in 1 .. i : worker[j] = "object"}

(* Bug: only the workers without a task are terminated. *)
BugClose ==
    /\ ~closed
    /\ \A t \in Task : state[t] = "new" \/ t \in Settled \cup givenUp
    /\ closed' = TRUE
    /\ size' = 0
    /\ worker' = [i \in Slot |-> "undefined"]
    /\ pending' = [i \in Slot |-> NoTask]
    /\ thread' = [i \in Slot |-> IF i \in Terminated \cap FreeSlots THEN "terminated" ELSE thread[i]]
    /\ work' = [i \in Slot |-> IF thread'[i] = "alive" THEN work[i] ELSE {}]
    /\ events' = [i \in Slot |-> IF thread'[i] = "alive" THEN events[i] ELSE <<>>]
    /\ UNCHANGED <<runtime, state, answer, givenUp>>

Close ==
    /\ ~closed
    /\ \A t \in Task : state[t] = "new" \/ t \in Settled \cup givenUp
    /\ closed' = TRUE
    /\ size' = 0
    /\ worker' = [i \in Slot |-> "undefined"]
    /\ pending' = [i \in Slot |-> NoTask]
    /\ thread' = [i \in Slot |-> IF i \in Terminated THEN "terminated" ELSE thread[i]]
    /\ work' = [i \in Slot |-> IF i \in Terminated THEN {} ELSE work[i]]
    /\ events' = [i \in Slot |-> IF i \in Terminated THEN <<>> ELSE events[i]]
    /\ UNCHANGED <<runtime, state, answer, givenUp>>

Handle(i) == HandleMessage(i) \/ HandleError(i)

Next ==
    \/ \E t \in Task : Run(t) \/ Poll(t) \/ GiveUp(t)
    \/ \E i \in Slot : Compute(i) \/ Crash(i) \/ Exit(i) \/ Handle(i)
    \/ Close

Spec == Init /\ [][Next]_vars

(* The event loop handles what threads send and fires the pollers' timers; *)
(* a function that was given to a thread ends.                             *)
FairSpec ==
    /\ Spec
    /\ \A t \in Task : WF_vars(Poll(t))
    /\ \A i \in Slot : WF_vars(Compute(i)) /\ WF_vars(Handle(i))

-----------------------------------------------------------------------------

TypeOK ==
    /\ runtime \in Runtime /\ size \in 0 .. Count /\ closed \in BOOLEAN
    /\ worker \in [Slot -> {"object", "undefined"}]
    /\ pending \in [Slot -> Task \cup {NoTask}]
    /\ thread \in [Slot -> Thread]
    /\ work \in [Slot -> SUBSET Task]
    /\ events \in [Slot -> Seq(Task \cup {CrashEvent})]
    /\ state \in [Task -> TaskState]
    /\ answer \in [Task -> Task \cup {NoTask}]
    /\ givenUp \subseteq Task

(* A message is matched to a task by the slot alone, and still no task is  *)
(* ever answered with the result of another: also when threads crash with  *)
(* answers on the way and tasks are given up.                              *)
AnswersAreOwn == \A t \in Task : answer[t] \in {t, NoTask}

(* A slot that is taken and that no event will ever free.                  *)
Lost(i) == pending[i] # NoTask /\ work[i] = {} /\ events[i] = <<>>

(* A slot is lost only through a thread that died or args that could not   *)
(* be cloned: time limits and busy pollers never cost a slot.              *)
OnlyFaultsLoseSlots == \A i \in Slot : Lost(i) => thread[i] = "dead" \/ pending[i] \in Unclonable

(* After close() no thread is left running, except those that bun's        *)
(* close() does not reach because a worker before them has crashed.        *)
CloseStopsThreads ==
    closed => \A i \in Slot : thread[i] = "alive" =>
        runtime = "bun" /\ \E j \in 1 .. i : thread[j] = "dead"

(* A task that polls for a worker stops doing so, unless all the slots     *)
(* there may be are lost. One that a worker was given is settled, unless   *)
(* its slot is lost or the pool was closed after the queue gave it up.     *)
TasksSettle ==
    \A t \in Task :
        /\ state[t] = "polling" ~> (state[t] # "polling" \/ \A i \in Slot : Lost(i))
        /\ state[t] = "assigned" ~>
              \/ t \in Settled
              \/ closed
              \/ \E i \in Slot : pending[i] = t /\ Lost(i)

(* The comment on the error listener: a crashed worker is removed and made *)
(* again by the next run(). So a task is only given to a worker object.    *)
CrashedWorkersAreReplaced == \A i \in Slot : pending[i] # NoTask => worker[i] = "object"

=============================================================================
