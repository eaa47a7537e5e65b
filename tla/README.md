# TLA+ models of sql-translator

These modules model the concurrent core of sql-translator (`src/src`): the sharing of connection pools, the
task queue and its worker threads, long tasks, the cache of query results, the drivers with their pools, transactions and answers, and the
analysis of SQL text on which their guards rest. TLC checks each on a small instance; TLAPS proves their safety
properties for every value of their constants, and that the scanner reads texts of every length right; liveness is left to TLC.

`PROJECT.json` is the index: components, runs, mutants, the map from definitions to source lines, hazards, findings and theorems.

## 1. The system

Everything runs on one JavaScript event loop (worker threads compute, and talk to it by messages). So a step of a model is the code
between two awaits, and what interleaves is what awaits and callbacks let interleave.

| Part | State | Operations | Talks to |
|---|---|---|---|
| Pool registry (`client/registry.ts`) | map fingerprint -> record (handle, creating promise, refs, lastUsedAt), totalRefs | getPool, release, invalidate, destroyAll, collector | drivers (createPool, destroy) |
| SqlEngine (`facade/engine.ts`) | one result cache per fingerprint | runSql, explain, withTransaction, getAllTableSchemas, ... | registry: getPool ... finally release |
| DbClient (`client/client.ts`) | the promise of one getPool, destroyed, a result cache, a task queue | run, ping, destroy, introspection | registry, driver, cache, queue |
| ClientManager (`client/manager.ts`) | registry, map id -> client | getClient, register, release, invalidate, destroyAll | registry, clients |
| Task queue (`core/task-queue.ts`) | sorted queue, active, closed, idle waiters | enqueue, waitIdle, close, introspect | functions of the application, worker pool |
| Worker pools (`core/worker/*`) | workers, pending task per slot, closed | run, close, message and error listeners | worker threads |
| Long tasks (`types/task.ts`) | status, progress, listeners, abort controller, promise; wrapper: inner, buffer | cancel, onProgress, report | runner of a driver, pool promise |
| Result cache (`core/cache.ts`) | Map in insertion order | get, set, clear | runSql of engine and client |
| Drivers (`driver/*`) | pool handle (lazy backend, knex or client; mysql: version and key caches), destroyed | runSql, withTransaction, testConnection, introspection, destroy | databases, SQL text |
| SQLite store (`driver/sqlite/store.ts`) | map path -> backend, refs | getSqliteBackend, releaseSqliteBackend | SQLite handles, connection tests |
| SQL text (`core/sql/*`) | none | normalise, strip, statement type, WHERE guard, pagination, table names | drivers, caches |
| Static source (`optional/static-source.ts`) | none | import a table, run SQL with mapped names | SQLite driver |
| Config, field mappers, registry of drivers, errors, slow log | constants | pure functions | all |

### What is hard

* **getPool awaits in its middle.** Callers of one database join a creation; references are counted after the await. Failures, limits,
  invalidation and the collector act between the two halves.
* **release is by fingerprint, not by handle.** What it decrements is the record that has that fingerprint *now*.
* **Slots of the queue** are given back in a `finally` callback, whichever of result, error, time limit or signal came first, and the
  function a time limit abandoned goes on.
* **Worker slots** are matched with messages by index alone; threads crash or exit at any time.
* **Microtask order** decides whether a reference is released before the caller of a long task sees its answer.
* **The result cache** is filled after one await and cleared after another.
* **One SQLite file is one connection.** A transaction awaits the function of its caller on the connection that every other call uses; opening it awaits an import, and handles
  may be destroyed meanwhile.
* **Server calls take connections one at a time**, some from inside a transaction that holds one already.
* **Answers are put together from several statements** (count and page, insert and read-back, the parts of a schema), with others writing in between.
* **Guards look at text**, with one scanner for databases that do not agree on what is a comment or a literal.

Correctness of each part, in words: references are exact and a pool in use is never closed; clients share a pool until one is told otherwise;
no more than `concurrency` slots, none idle while tasks wait, order by priority, every promise settles; a task gets its own result; a cancelled
task never shows a result and its pool outlives its runner; a cached answer is old by a bounded time only; the SQLite store counts its users and closes a file with the last of
them; what a call answers is what happened to its writes; what a guard blocks is what the rule says and nothing else; a page, a total and a schema are true of some moment of the call.

## 2. Modules

| Module | Models | Notes |
|---|---|---|
| `SharedPools` | abstract: who uses which pool | no counters, no map, no promises |
| `IsolatedCalls` | abstract: what each call is told, what takes effect and when | no handles, pools, connections or dialects |
| `PoolRegistry` | `client/registry.ts` | state and one operator per method, no Next of its own |
| `EngineCalls` | calls of `facade/engine.ts` over the registry | extends `PoolRegistry`; implements `SharedPools` |
| `ClientLifecycle` | `client/client.ts`, and the registry calls of `client/manager.ts` | extends `PoolRegistry` |
| `TaskQueue` | `core/task-queue.ts` | |
| `WorkerPool` | `core/worker/node-worker.ts`, `bun-worker.ts` | one model; close() differs by `runtime` |
| `IntrospectTask` | `types/task.ts`, getAllTableSchemas of engine and client | microtask queue explicit |
| `QueryCache` | `core/cache.ts` with run / runSql | |
| `DbConnections` | external: connections, statements and transactions of the databases | a database is a value, a statement an operator on it |
| `SqliteStore` | `driver/sqlite/store.ts`, `SqlitePoolHandle` | extends `DbConnections` |
| `ServerPools` | `pool.ts` of mysql, postgresql, mongodb | extends `SqliteStore` |
| `DriverCalls` | runSql, withTransaction, testConnection, destroy of every driver, `importDataToSqlite` | composes the two: calls over handles and connections; implements `IsolatedCalls` |
| `SqlText` | `core/sql/normalize.ts`, `statement.ts`, `pagination.ts` | pure; with the databases' own reading as reference |
| `DriverAnswers` | runDml, runSelect, schema export of every driver, guards of `DbClient.run` | extends `SqlText` |
| `EngineCallsProofs`, `ClientLifecycleProofs`, `TaskQueueProofs`, `WorkerPoolProofs`, `IntrospectTaskProofs`, `QueryCacheProofs`, `DriverCallsProofs`, `DriverAnswersProofs` | theorems about the module of that name | see 4 |
| `MC...` | instances for TLC | |

Operators named `Bug...` are mutations of the definition that follows them: what a plausible mistake in the code would make of it. None is used by a
specification; each documents that some property depends on the detail it changes.

### How state corresponds to code

*PoolRegistry.* `pools[f]` is the Map entry of fingerprint `f`, as the number of a record; records are numbered in the order of creation, which is
also the Map's order. `handle[r]` folds `record.handle` and `record.creating` into *absent, creating, open, destroyed*. `promise[c]` is the promise of a
getPool call. The code of getPool before its await is `GetPool` (four cases: refused, shared, joins, creates); the code after it is `CreateResolves`: the
continuations of all callers that await one creation run back to back, so they are one step. `Release` contains the collector, as in the code. An unknown
dialect is rejected before any state is read, and is not a step.

*EngineCalls.* A call is one engine method: `Start` (getPool), the driver's work, `Finish` (finally release) or `Throw`. A cached SELECT that hits takes no
reference and is not a step here. `Shutdown` is destroyAll, which the application calls at its exit: only while no call runs. The code has no such condition; what the same destroyAll of the registry does to calls in flight, and to a pool that is being
created, is in `ClientLifecycle` (`ManagerDestroyAll`, at any moment).

*ClientLifecycle.* `handlePromise` is the client's one getPool promise: kept even when it was rejected. An operation awaits it, works, and completes; a ping
that fails invalidates the fingerprint, awaits, and forgets the promise. `disturbed` is a history variable that remembers invalidations and releases of
references that were never taken.

*TaskQueue.* A task is its `item.id`. `phase` says where `execute` is; *settled* is the moment between the settling of its promise and the finally callback of
`pump`, when the slot is still counted. `fns` are the functions that run: a time limit settles a task whose function stays in `fns`. enqueue on a closed queue,
waitIdle on an idle one and a second close return at once without a change and are not steps. (`size()` counts running tasks too, although
`types/queue.ts:45` says it counts waiting ones; nothing depends on it.)

`IndexFor` (how many items stay ahead) is the place of a new item; that the code's binary search returns just that is the first part of `StartsInOrder`.

*WorkerPool.* `worker[i]` is *object* or *undefined*, `pending[i]` the entry of that name, `thread[i]` the thread behind it, `work[i]` what was posted to it and
`events[i]` what it has sent. The pool never starts a second thread in a slot. `GiveUp` is the time limit of the task queue, the only caller of the pool, which closes it
only when it waits for no task any more.

*IntrospectTask.* `jobs` is the microtask queue and `reactions` the callbacks of the inner promise in the order in which they were added; user code (cancel) may run
between any two. One task is modelled; tasks share nothing. `kind` says who made it: bare createTask, through DbClient, or through SqlEngine with a reference.

*QueryCache.* A result is the version of the database it shows. Entries carry when they were asked for and stored; `announced` is the last version a reported write produced.

*SqliteStore.* `entry` and `entryRefs` are the record of the one file of the model (all handles name it; files share nothing). `promise[h]` is `backendPromise` of a handle: none, pending, rejected or
the connection; `field[h]` is `backend`, set by each call after its await. getSqliteBackend is `AskBackend` before its await and `BackendOpens` or `BackendFails` after it, so two first uses may overlap; `raced` remembers that they did.

*ServerPools.* An instance (knex or MongoClient) is its handle and a number: getKnex makes the next one when the field is null, whatever `destroyed` says. The pool inside it is external; the model has of it what the code configures: at most
`pool.max` connections, a time limit for acquiring one, destroy that waits for connections in use (knex) or does not (MongoDB). Reaping of idle connections is left out: it returns what the model keeps idle.

*DriverCalls.* `dialect` is chosen at the start, so one behaviour is about one kind of database. `call[c]` is one call: `waiting` for the backend or connect(), `ready` with it, `holding` a pooled connection, `running` the function given to
withTransaction, `probing` for a second connection from inside it, `applied` when a compound write is carried out and its caller not told, `rereading` while it waits for a connection to read the row back. A *compound* write is one that can fail after it has written:
an INSERT with `dml.returning` in MySQL, whose key column and row are read afterwards on connections asked for anew (`RereadAsks`, `RereadAnswers`, `RereadFails`), and insertMany, updateMany or deleteMany of MongoDB, which stop at the first document that is refused. All other statements fail only before they have written:
that a server carries one out and its answer is lost on the way is not modelled here (`QueryCache` has it). The version probe of a SELECT asks for the pool again while the statement keeps the one it was given; the probe of a plain SELECT is one step (`Probes`). In SQLite everything after the await of the backend is one step, as nothing else awaits; BEGIN, the function's statements and COMMIT are steps. A write is a pair of its call and its
number; the database has what is durable and, by connection, what an open transaction has written. `mixed` (calls that shared a connection with a transaction not theirs) and `late` (handles used after destroy) are histories.

*IsolatedCalls.* What a caller of a driver may rely on: calls that each work for themselves. `phase` is how far a call is and what it was told, `working` what it has written in its open transaction, `durable` what took effect, which only grows. A statement takes effect at once, a transaction in the step that
ends it, an import as its table first and then all rows. Four ways to be told otherwise are kept, because the code has them: a transaction that PostgreSQL drops although COMMIT was answered (`Drops`); the table an import has replaced before it failed (`Imports`); a write of many MongoDB documents that fails with
some of them written; and a MySQL INSERT that is in effect as a whole when its read-back fails (both `Compounds`). `DriverCalls` maps to it by `PhaseOf` and `Uncommitted`
(what is open on the connection whose transaction the call began) as long as `mixed` is empty; that it can cease to be empty in SQLite is what `shared_transaction` shows.

*SqlText.* A text is a sequence of tokens: punctuation is a character, a word is a token, for the code asks for whole words only. `Stripped` is the loop of stripSqlForSearch as a recursive function. `ReadBy(text, d)` is how database `d` itself divides a
text into code, literals and comments, and shares no definition with it; `Portable` names the texts on which the two can be compared. `RowsOf` likewise is a set of places in the text as the database reads it, where `CountInsertValueRows` is a loop with a depth of its own; `RowsInOrder` names the texts on which they can be compared.

*DriverAnswers.* A behaviour is about a text (only analysed), one statement that is sent, or one export. The database is a number of rows and a version number for each table's definition; others may change both between two statements of a call. `saw` remembers what there was,
`changed` what the call did. The options are those of the client, of the pool's creator, or none. `Forbids` is what guards with some options are to keep from the database; how many rows a client without options may insert is left open (`Unlimited`), since documents and code differ.

## 3. Runs

| Run | Question | Instance | Result |
|---|---|---|---|
| `engine_calls` | Are references exact, pools in use open, is the right pool collected, is every call answered, is `SharedPools` implemented? | 3 calls, 2 databases, 3 records, clock 0..1 | holds |
| `client_lifecycle` | What survives clients, pings and invalidation? | 3 clients (2 of one database, 1 of another), 2 operations, 2 records | holds |
| `foreign_release` | Does destroy() spare pools of others? (`client.ts:86`, `registry.ts:136`) | same | **violated** |
| `task_queue` | Slots, order, settlement, waiters | 4 tasks, 2 slots, 2 priorities, signals and limits, 2 waiters | holds |
| `worker_pool` | Own answers, no slot lost without a fault, progress, close | 3 tasks (one that cannot be cloned), 2 threads, both runtimes | holds |
| `crashed_worker` | Is a crashed worker replaced by the next run()? (`node-worker.ts:50`) | same | **violated** |
| `introspect_task` | Answer, status, events, reference and cancel() agree | one task of each kind, 2 cancel() calls, up to 4 events | holds |
| `lost_cancel` | Does cancel() always reject the promise? (`task.ts:38`) | same | **violated** |
| `query_cache` | How stale can a cached answer be? | 2 calls, 3 keys, 2 entries, 2 writes, clock 0..3, ttl 1 | holds |
| `driver_calls` | Does the store count its users, is nothing left open, are server transactions alone, does an answer tell the outcome, is `IsolatedCalls` implemented, is every call answered? | a transaction of 2 statements and a call of any kind (compound writes among them), 2 handles of one file or 1 of a server, 3 connections, pool of 2, all dialects | holds |
| `shared_transaction` | Is the connection of a SQLite transaction exclusive? (`sqlite/index.ts:242`, `USAGE.md:351`) | same | **violated** |
| `driver_answers` | Does the scanner read as databases do, do guards hold, are answers, pages, totals and schemas true? | all texts of up to 5 of 11 tokens; 19 statements, 3 x 3 options, up to 5 rows, 2 changes by others; 2 tables | holds |

The exact constants are in the `.cfg` files and MC modules.

**Why the bounds are enough.** The interesting cases need few actors. For the registry: two callers that join a creation and a third on another database whose release
collects; a third record for a database whose pool was collected. For clients: two clients of one pool, one of another whose release collects, and an invalidation in
between. For the queue: two running tasks, two queued ones of different priority, so an insertion has both a middle and an end. For workers: one slot lost to args that cannot
be cloned, one to a crash, and a task that polls. For the cache: two entries, three keys, one overlapping write. For drivers: one transaction and one other
call are all it takes to share a connection; a pool of two is exhausted when both hold a connection and ask for another. For the scanner: five tokens hold a literal with an escaped escape, a comment that
ends at the last character, and code behind it. The 19 statements are chosen one for each thing a guard could get wrong (a WHERE in code, comment, literal or sub-query; one row, two, nested parentheses, a clause behind the rows; a LIMIT in each of these places).
`MaxRecords`, `MaxTime`, `MaxTasks`, `MaxEvents`, `MaxWrites`, `MaxConns`, `MaxInstances`, `MaxStatements`, `MaxText`, `MaxRows` and `MaxOthers` cap counters and are bounds of the models only; the proofs hold for every value of those they are about.

**Where deadlock is not checked.** Queue, workers, long tasks and drivers come to rest when all tasks or calls are over, so these runs say `CHECK_DEADLOCK FALSE`.

**Fairness.**
`EngineCalls`: createPool settles (the drivers' createPool does not wait for the database). `TaskQueue`: callbacks of settled promises run; a running task ends, by itself or by its
time limit: that is the application's part, and without it close() waits for ever. `WorkerPool`: the event loop handles events and timers, and a function given to a living thread
ends; threads need not die. A poller's timer is weakly fair: a slot may be taken by others each time, but there are finitely many tasks. `IntrospectTask`: microtasks run, getPool
settles, runners end (they walk over finitely many tables or sampled documents). `DriverCalls`: databases answer, an acquire gives a connection or times out (`acquireTimeoutMillis`), and functions given to withTransaction end. Nothing is assumed of users: they may never cancel, destroy or close.

### What the violations show

* `foreign_release`: client A has its pool, client B never made a call. B.destroy() releases by fingerprint, A's count falls to zero, and with `maxIdlePools` exceeded the
  collector destroys the pool A holds.
* `crashed_worker`: the slot of the crashed worker is the first with nothing pending, so run() takes it and calls postMessage on `undefined`. The task is rejected with a TypeError and the
  slot is taken for ever. `OnlyFaultsLoseSlots` and `TasksSettle` say what remains true: nothing else loses slots, and tasks wait in vain only if all are lost.
* `lost_cancel`: cancel() while the pool is awaited sets a flag nobody reads; the task runs and delivers.
* `shared_transaction`: call A begins a transaction and awaits its function; call B writes through the same backend and is told of its success; A's function throws, and ROLLBACK takes B's write
  with it. `AnswersTellOutcome` says what remains true: calls that shared no transaction are told what happened, as far as a failure can tell it (see `IsolatedCalls` in 2). On servers transactions are alone (`ServerTransactionsAreAlone`), as long as nobody sends BEGIN as a statement of its own.

Disagreements between documents and code that no run shows; no property claims either side of them:

* TtlCache is described as LRU (`cache.ts:2`, `:7`, `:33`, `types/config.ts:80`, `USAGE.md:368`). `get` does not move an entry, so the code evicts the entry stored first: store `a`, store `b`, read `a`, store `c`, and with two entries it is `a` that is gone. `TypeOK` of `QueryCache` asks only for the size and distinct keys.
* `maxInsertRows` is documented to default to 10000 (`types/config.ts:48`, `USAGE.md:175`); in every driver it is off when it is not given. `GuardsHold` neither allows nor forbids a blocked INSERT of a client without options.
* A hit returns the stored object, although `USAGE.md:369` promises isolation.
* `withTransaction` does not clear the cache, although `client.ts:100` says writes do.
* A time limit frees the slot of a function that goes on (`task-queue.ts:161`), so more functions than `concurrency` may run (`types/queue.ts:9`).

**What the properties only delimit.** Some hazards are in the code, and the properties say where they end, not that they are absent; `hazards` lists these without a property. A pool is lost only by an invalidation; counts of clients are exact until the first disturbance; the SQLite store is exact and
leaks nothing unless two creations overlapped or a handle was used after its destroy(); bun leaves a thread only behind one that died; a write fails after it has written only in the two compound cases.
The guards of a client hold outside of transactions; in a transaction, or for a client without options, it is the client's or the pool's options that decide, which of them depends on who made the pool. A WHERE in a sub-query satisfies the guard and REPLACE is not counted. In PostgreSQL the word *returning* in a literal makes a
write report 0 rows. MongoDB takes a limit of 0 for no limit.

## 4. Proofs

tlapm checks eight modules of theorems, for every value of the constants, from no other assumptions than those named in the models. A few facts about numbers, sets and sequences stand at the head of each module that needs them.

| Assumption | Says | Why the code justifies it |
|---|---|---|
| `RegistryAssumption` | limits and bounds are natural numbers, finitely many getPool calls | sums over the holders need finite sets; a process makes finitely many calls |
| `ClientAssumption` | finitely many clients, each with one database; calls are numbered | `configOf` is the config a client is made with |
| `QueueAssumption` | slots are a natural number, none included; priorities are integers and 0 is one | `concurrency` is not checked, and a queue of no slots runs nothing, so only the liveness run needs its two; the default of `priority` |
| `PoolAssumption` of `WorkerPool` | at least one worker; *no task* and the error event are no tasks | `Math.max(1, Math.min(...))` (worker/index.ts:20); different kinds of messages |
| `TaskAssumption` | callers of cancel() are not microtask names | model values |
| `CacheAssumption` | time to live and size are natural numbers | |
| `ConnectionAssumption`, `PoolAssumption` of `ServerPools`, `StatementAssumption` | calls and handles are finite and disjoint sets; a pool has room for a connection; bounds are natural numbers | the store's count is the number of its users; `pool.max` of knex |
| `AnswerAssumption` | statements are sequences of strings; options are records of booleans and a number, and no options is none of them; there is a name for a table; bounds are natural numbers | the tokens of `SqlText`; `config.dml` |

None of the invariants that matter is inductive as it stands. Each module has an `IInv` that is, and that TLC checks as an invariant on an instance before it is proved.

**EngineCallsProofs.** `TypeCorrect`, `CountsAreExact` (RefsAreHolders), `NoPoolClosesUnderACall` (InUseStaysOpen), `NoPoolIsLost` (NoPoolLeaks), `OldestPoolsAreCollected` (CollectsOldestIdle) and
`ImplementsSharedPools` (every step is a step of `SharedPools` or a stutter under the mapping `LivePool`, `UsersOf`).
That a call's pool stays open is not inductive: the collector looks at `refs`, so counts must be known to be exact; that in turn needs that records are distinct per fingerprint, that a record not yet
made is untouched, that a waiting call waits for the record the map has, and that only open records are held. The invariant is the conjunction of these:
`RegTypeOK`, `RecordsAreDistinct`, `FreshIsUntouched`, `CallsAreOnTracked`, `LiveIsTracked`, `CreatingIsAwaited`, `RefsAreHolders`. The collector keeps the last `maxIdlePools` of the idle records in a total order (`OrderIsStrict`), so
the number it leaves is that of their ranks; they are in one-to-one correspondence with an interval (`RanksFollowTheOrder`, `KeepsTheLast`).

**ClientLifecycleProofs.** `ClientsAreTyped`, `ClientsAreCounted` (UndisturbedClientsAreCounted), `PoolsAreLostToInvalidation` (OnlyInvalidationLosesPools). What holds until the first disturbance is more than the counts: a client's promise
is of a call of its own (`PromisesAreOwn`), a pool being created is expected by a client that is still there (`PendingIsExpected`), and a pool that is held is the one registered (`HeldIsRegistered`). Only with the last does a
release by fingerprint give back the reference that was taken.

**TaskQueueProofs.** `TypesStayCorrect` (TypeOK), `SlotsStayBounded` (SlotsAreCounted), `NoIdleSlots` (WorkConserving), `CloseReturnsToADrainedQueue` (CloseDrains), `TasksStartInOrder` (StartsInOrder),
`CancelledTasksGiveNoAnswer` (CancelledNeverAnswers). The invariant adds to the types that the queue holds each queued task once and nothing else, that ids above `seq` are unused, and that a drained waiter implies a
closed and empty queue; the lemma about `Pump` is used by both actions that pump. For the order it adds that the queue is sorted. That the binary search finds the place that keeps it so (`SearchFindsIndex`) is an induction over the width of the
interval, done with the least width for which it would fail (`LeastMember`); each round halves an interval that always contains the place.

**WorkerPoolProofs.** `PoolIsTyped`, `NoForeignAnswer` (AnswersAreOwn), `SlotsAreLostToFaults` (OnlyFaultsLoseSlots), `ClosedPoolsStop` (CloseStopsThreads). A message names no task, so the invariant says what may be on its way in each slot: a slot is unused,
or has a living thread with its pending task either in work or answered, or a dead one whose last answer may still come before the error event (`Unused`, `Living`, `Dead`).

**IntrospectTaskProofs.** `TaskIsTyped`, `CancelledTasksStayCancelled` (CancelPrevails), `StatusAgreesWithAnswer` (StatusTellsAnswer), `ReferencesCoverRunners` (ReferenceCoversRunner). The invariant speaks of the order of the microtasks: which may be queued when (`JobsFit`, `ReactionsFit`,
`AttachIsEarly`), and that the engine's release is the first callback of the task's promise, ahead of the caller's and of every cancel() that returns (`ReleaseIsFirst`).

**QueryCacheProofs.** `MapStaysWithinItsSize` (TypeOK), `HitsAreFresh` (StalenessIsBounded), `OnlyOverlapsAreStale` (StaleOnlyByOverlap). A hit was a stored entry, and that was the result of a select; the invariant carries through all three when the version was asked for,
that what replaced it is not older than the question (`Shown`), and whether a write overlapped (`EntriesAreSound`, `CallsAreSound`).

**DriverCallsProofs.** `CallsAreTyped`, `AnswersAreOutcomes` (AnswersTellOutcome), `ServersKeepTransactionsApart` (ServerTransactionsAreAlone), `StoreCountsItsUsers` (StoreIsExact), `NothingStaysOpen` (NothingLeaks), for any calls, handles, pool sizes and each dialect. The invariant has two halves.
`Said` is about transactions: each open one belongs to a function that runs on that connection and has not ended it, or to a control statement (`TransactionsAreOwned`); on a server no two calls hold one connection (`ConnectionsAreHeldOnce`); and what a call has written is, depending on how
far it is, nowhere yet, in its open transaction, durable, or gone, and of a compound write durable whether it failed or not (`OutcomesAreTold`). `Accounts` is about connections: the backend a handle keeps is the one its promise was fulfilled with, until it is given back (`HandlesAgree`); the store's count is exact (`StoreCounts`); and every open connection has
at every moment somebody who will give it back: a test, a handle, or a call that still awaits the backend (`StoreIsHeld`, `PoolsAreHeld`). Steps are of two kinds. A *calm* one takes a call further or opens and closes connections, and keeps `Said` by one lemma each; a *statement* touches one connection
(`TransactionsOf`, `Undisturbed`) and keeps `Accounts` by one lemma (`InPlaceAccounts`), so that only the other half is a proof of its own for each action.
`ImplementsIsolatedCalls` (IsolatesCalls) is the refinement: the initial state maps to an initial state, and as long as nobody shared a connection every step is a step of `IsolatedCalls` or a stutter. For the mapping the invariant needs a little more (`Marked`): a call that has sent nothing has no transaction and no mark; where a
function has caught an error the database has aborted its transaction; one begun by a statement of its own stays empty until somebody shares it. From this `CallsOwn` says what the mapping sees of a call in each state. Calm steps map to `Pass` by one lemma (`CalmIsolates`); each statement maps to its own abstract
step, for which the others keep what they have (`OthersKeep`). `ServersIsolateCalls` draws the conclusion for servers: without control statements nobody ever shares a connection there, so `Isolated!ICSpec` holds there without assuming that nobody does.

**DriverAnswersProofs.** `AnswersAreTyped`, `AnswersTellTheTruth` (AnswersAreTrue), `ExportsAreWhole` (SchemasAreWhole), `SelectOnlyChangesNothing` (ReadOnlyHolds) and `GuardsHoldWhenAnalysed` (GuardsHold), for any statements, options, tables and row counts. What the scanner and the database make of a text stays closed in all
proofs about calls: they hold for any type, WHERE, paging clause and row count it may be taken to have. The invariant says which step belongs to which call (`Placed`), that nothing has changed or gone wrong before a write, and what MySQL's INSERT has changed and answered before its read-back (`Underway`); that the count and the page a SELECT goes on with are of a time since it began (`Seen`);
and that a table of an export is still to come, has been collected as it was, or is among those whose queries failed (`Collects`). For the guards it is that a write which they refuse has changed nothing and no other is called blocked (`Obeyed`), which needs nothing of the text;
that what they refuse is what the options forbid, the client's or the pool's, whichever the code took, then follows from two theorems about texts of any length.
`PortableTextsAreReadRight` (and from it `ScannerIsRight`, ScannerReadsCode): what the scanner leaves is what the database reads as code. The scanner goes by characters, the database by lexical elements. For one element they agree because the scanner, between two elements at its start (`Between`), takes all of it for a comment or
a literal and is between two elements behind it (`PassesOver`; one lemma for each kind of element, with the parity of a run of backslashes for escapes); for the text they agree from the last element to the first (`RestAgrees`).
`AnalysisIsRight` adds the rows: up to its place the loop knows the depth and has counted the rows so far (`Counting`), or it has ended with the last row (`Ended`). The hypothesis of `GuardsHoldWhenAnalysed` is `Analysable`: texts that are `Portable` and whose rows are in order. TLC checks it of all statements of its run (`StatementsAreAnalysed`).
The functions that the scanners are defined by exist and satisfy their equations because an induction, stated as *of the places at which it fails there is no least one* (`LeastMember`), says so; the induction theorems of the library cannot be used.
The proof of AnswersAreTrue corrected the property: PostgreSQL's driver looks for RETURNING anywhere in a text, so what it answers is right when the RETURNINGs of the text are those of the statement itself, which a text without literals does not ensure.

Left to TLC: all liveness properties (EveryCallIsAnswered of engine and drivers, EverybodyIsAnswered, TasksSettle, EveryTaskIsAnswered), since liveness under fairness
and ENABLED are out of the prover's reach. Every other property of the passing runs is stated by a theorem. The types of tasks (TypesStayCorrect, TaskIsTyped) are proved only: no run repeats them.

## 5. Not modelled

* *Databases*: execution plans, locks and isolation between connections (but for SQLite's write lock), reaping of idle connections, servers that die. Their statements succeed or fail.
* *Text*: normalizeSql, the table mapper and the extraction of table names, WITH and derived tables around a `whereClause`, the patterns FETCH FIRST and TOP, `$n` placeholders, SSL and URI building, version strings: they rewrite text by regular expressions, and what they are to produce is not stated
  anywhere but in the expressions. MongoDB's translation is done by libraries.
* *Mappings*: field types, display types, the statistics of sampled documents, configuration and fingerprints, errors, the slow query log, metrics: functions of one value without behaviour over time.
* *ClientManager's byId map*; subscribers that throw; functions that enqueue and await tasks of their own queue; the identity of cached objects. `hazards` in `PROJECT.json` says so at the lines concerned.

## 6. Plan

1. `ManagerRegistry`: the byId map over ClientLifecycle.

