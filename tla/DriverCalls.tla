---------------------------- MODULE DriverCalls ----------------------------
(***************************************************************************)
(* Calls of the application to a driver (the methods of SqlDriver) over    *)
(* pool handles for one database: plain statements, withTransaction, the   *)
(* import of a static table and testConnection, while handles are          *)
(* destroyed under them. One behaviour is about one dialect.               *)
(*                                                                         *)
(* A SQLite call awaits the handle's backend and then runs without an      *)
(* await; all calls of a handle share that one connection. A server call   *)
(* acquires a connection of the pool for each statement or transaction.    *)
(***************************************************************************)
EXTENDS ServerPools

CONSTANTS
    MaxStatements,  \* bound of the model: statements of one transaction, and those that
                    \* read a compound write back
    kindsOf,        \* bound of the model: the kinds each call may be of
    Pooled          \* bound of the model: the handles used except with "sqlite"; only
                    \* handles of one file share anything

(* read: SELECT; write: INSERT, UPDATE, DELETE; compound: an INSERT that   *)
(* MySQL reads back (dml.returning), a write of many MongoDB documents;    *)
(* control: BEGIN, COMMIT or ROLLBACK given to runSql, which passes them   *)
(* through.                                                                *)
Kind == {"read", "write", "compound", "control", "transaction", "import", "test"}

ASSUME StatementAssumption ==
    /\ MaxStatements \in {1, 2} /\ Pooled \subseteq Handle
    /\ kindsOf \in [Call -> SUBSET Kind]

(* waiting: awaits the backend or the MongoDB connect; ready: has it, or   *)
(* awaits a pooled connection; holding: has one; running: inside the       *)
(* function given to withTransaction; probing: inside it, awaiting another *)
(* pooled connection; applied: its compound write is done and its caller   *)
(* not told; rereading: and it awaits a pooled connection to read it back; *)
(* answered, failed: the promise has settled.                              *)
CallState == {"none", "waiting", "ready", "holding", "running", "probing",
              "applied", "rereading", "answered", "failed"}

VARIABLES
    call,       \* the calls
    mixed,      \* history: calls that shared a connection with a transaction not theirs
    late        \* history: handles used by a call after destroy()

vars == <<dialect, db, storeVars, destroyed, poolVars, call, mixed, late>>

CallRecord == [st : CallState, kind : Kind, on : Handle \cup {NoHandle},
               gen : 0 .. MaxInstances,             \* the instance it was given
               conn : Conn \cup {NoConn},           \* the connection it was given
               n : 0 .. MaxStatements,              \* statements of its transaction or read-back
               finished : {"no", "commit", "rollback"},  \* by tx.commit, tx.rollback
               caught : BOOLEAN,                    \* its function caught an error
               again : BOOLEAN]                     \* its function was run again

Lite == dialect \in {"sqlite", "memory"}
Knex == dialect \in {"mysql", "postgresql"}
Over(c) == call[c].st \in {"none", "answered", "failed"}
Held == {call[c].conn : c \in {d \in Call : call[d].st \in {"holding", "running", "probing"}}}

Init ==
    /\ dialect \in Dialect
    /\ StoreInit /\ PoolInit
    /\ call = [c \in Call |-> [st |-> "none", kind |-> "read", on |-> NoHandle, gen |-> 0,
                               conn |-> NoConn, n |-> 0, finished |-> "no", caught |-> FALSE,
                               again |-> FALSE]]
    /\ mixed = {} /\ late = {}

Goes(c, s) == call' = [call EXCEPT ![c].st = s]

(* The promise of the call settles; of its locals nothing is left. *)
Settled(r, s) == [r EXCEPT !.st = s, !.on = NoHandle, !.gen = 0, !.conn = NoConn, !.n = 0, !.again = FALSE]
Ends(c, s) == call' = [call EXCEPT ![c] = Settled(@, s)]

(* The calls that share a transaction when c uses connection b. *)
Mixing(c, b) == IF db.txOf[b] \in {NoCall, c} THEN {} ELSE {c, db.txOf[b]}

-----------------------------------------------------------------------------
(* Getting a connection. *)

Supports(h, k) ==
    /\ h \in Pooled \/ File
    /\ CASE k = "import" -> Lite
         [] k = "compound" -> dialect \in {"mysql", "mongodb"}
         [] k = "control" -> dialect # "mongodb"
         [] k = "test" -> FALSE
         [] OTHER -> TRUE

LateUse(h) == late' = IF h \in destroyed THEN late \cup {h} ELSE late

(* A call on a SQLite handle: getBackend makes the handle's promise if     *)
(* there is none, and awaits it, whatever became of it.                    *)
StartLite(c, h, k) ==
    /\ Lite /\ call[c].st = "none" /\ Supports(h, k)
    /\ IF promise[h] = NoConn
       THEN AskBackend(h) /\ promise' = [promise EXCEPT ![h] = Found]
       ELSE UNCHANGED <<db, entry, entryRefs, opening, raced, promise>>
    /\ call' = [call EXCEPT ![c] =
           IF promise[h] = Rejected THEN Settled([@ EXCEPT !.kind = k], "failed")
           ELSE [@ EXCEPT !.st = "waiting", !.kind = k, !.on = h,
                          !.conn = IF promise'[h] > 0 THEN promise'[h] ELSE NoConn]]
    /\ LateUse(h)
    /\ UNCHANGED <<dialect, field, destroyed, poolVars, mixed>>

(* createBackend settles for a handle: all its calls have their answer. *)
HandleOpens(h) ==
    /\ BackendOpens(h)
    /\ promise' = [promise EXCEPT ![h] = db'.made]
    /\ call' = [c \in Call |-> IF call[c].st = "waiting" /\ call[c].on = h /\ call[c].conn = NoConn
                               THEN [call[c] EXCEPT !.conn = db'.made] ELSE call[c]]
    /\ LateUse(h)
    /\ UNCHANGED <<dialect, field, destroyed, poolVars, mixed>>

HandleFails(h) ==
    /\ BackendFails(h)
    /\ promise' = [promise EXCEPT ![h] = Rejected]
    /\ call' = [c \in Call |-> IF call[c].st = "waiting" /\ call[c].on = h /\ call[c].conn = NoConn
                               THEN Settled(call[c], "failed") ELSE call[c]]
    /\ UNCHANGED <<dialect, field, destroyed, poolVars, mixed, late>>

(* The await of getBackend returns: the handle keeps the backend, also     *)
(* when it has been destroyed meanwhile.                                   *)
GetsBackend(c) ==
    /\ call[c].st = "waiting" /\ call[c].conn # NoConn
    /\ field' = [field EXCEPT ![call[c].on] = call[c].conn]
    /\ Goes(c, "ready")
    /\ LateUse(call[c].on)
    /\ UNCHANGED <<dialect, db, entry, entryRefs, opening, promise, raced, destroyed, poolVars, mixed>>

(* A call on a server handle: getKnex is synchronous; the first getClient  *)
(* of MongoDB awaits connect(), a later one takes the client as it is.     *)
StartServer(c, h, k) ==
    /\ ~Lite /\ call[c].st = "none" /\ Supports(h, k)
    /\ GetInstance(h)
    /\ call' = [call EXCEPT ![c] = [@ EXCEPT
           !.st = IF dialect = "mongodb" /\ inst[h] = 0 THEN "waiting" ELSE "ready",
           !.kind = k, !.on = h, !.gen = inst'[h]]]
    /\ LateUse(h)
    /\ UNCHANGED <<dialect, db, storeVars, destroyed, mixed>>

Connects(c) ==
    /\ ~Lite /\ call[c].st = "waiting" /\ call[c].kind # "test"
    /\ Goes(c, "ready") \/ Ends(c, "failed")
    /\ UNCHANGED <<dialect, db, storeVars, destroyed, poolVars, mixed, late>>

Acquires(c) ==
    /\ ~Lite /\ call[c].st = "ready" /\ call[c].kind # "test"
    /\ \E b \in Conn :
         /\ CanAcquire(call[c].on, call[c].gen, b, Held)
         /\ db' = Acquired(call[c].on, call[c].gen, b)
         /\ call' = [call EXCEPT ![c] = [@ EXCEPT !.st = "holding", !.conn = b]]
    /\ UNCHANGED <<dialect, storeVars, destroyed, poolVars, mixed, late>>

(* acquireTimeoutMillis: the statement fails. *)
AcquireFails(c) ==
    /\ ~Lite /\ call[c].st = "ready" /\ call[c].kind # "test"
    /\ Ends(c, "failed")
    /\ UNCHANGED <<dialect, db, storeVars, destroyed, poolVars, mixed, late>>

HasConnection(c) == call[c].st = IF Lite THEN "ready" ELSE "holding"

-----------------------------------------------------------------------------
(* runSql. *)

(* mysql: a SELECT probes the server version first, on a connection of its *)
(* own that it gives back.                                                 *)
Probes(c) ==
    /\ dialect = "mysql" /\ call[c].st = "holding" /\ call[c].kind = "read"
    /\ call[c].on \notin caps
    /\ caps' = caps \cup {call[c].on}
    /\ Goes(c, "ready")
    /\ UNCHANGED <<dialect, db, storeVars, destroyed, inst, gens, dying, mixed, late>>

ReadEnds(c) ==
    /\ HasConnection(c) /\ call[c].kind = "read"
    /\ dialect = "mysql" => call[c].on \in caps
    /\ \/ call[c].conn \in db.open \ db.aborted /\ Ends(c, "answered")
       \/ Ends(c, "failed")
    /\ UNCHANGED <<dialect, db, storeVars, destroyed, poolVars, mixed, late>>

(* A statement that writes is carried out, or it fails: blocked by a       *)
(* guard of runDml, refused by the database, or sent to a closed one.      *)
WriteEnds(c) ==
    /\ HasConnection(c) /\ call[c].kind = "write"
    /\ LET b == call[c].conn
       IN  \/ /\ CanWrite(db, b, dialect)
              /\ db' = Exec(db, b, <<c, 1>>)
              /\ mixed' = mixed \cup Mixing(c, b)
              /\ Ends(c, "answered")
           \/ db' = Fail(db, b, dialect) /\ Ends(c, "failed") /\ UNCHANGED mixed
    /\ UNCHANGED <<dialect, storeVars, destroyed, poolVars, late>>

(* One INSERT of MySQL writes all rows or none. MongoDB writes one         *)
(* document after the other; when one is refused, the call fails and those *)
(* before it stay.                                                         *)
CompoundRuns(c) ==
    /\ HasConnection(c) /\ call[c].kind = "compound"
    /\ LET b    == call[c].conn
           some == Exec(db, b, <<c, 1>>)
       IN  \/ /\ CanWrite(db, b, dialect)
              /\ mixed' = mixed \cup Mixing(c, b)
              /\ \/ db' = Exec(some, b, <<c, 2>>) /\ Goes(c, "applied")
                 \/ dialect = "mongodb" /\ db' = some /\ Ends(c, "failed")
           \/ db' = Fail(db, b, dialect) /\ Ends(c, "failed") /\ UNCHANGED mixed
    /\ UNCHANGED <<dialect, storeVars, destroyed, poolVars, late>>

(* mysql: the key column of the table, unless it is cached, and the new    *)
(* row are read on connections that the handle is asked for each time. The *)
(* connection of the INSERT has gone back to its pool.                     *)
RereadAsks(c) ==
    /\ call[c].st = "applied" /\ dialect = "mysql" /\ call[c].n < MaxStatements
    /\ GetInstance(call[c].on)
    /\ call' = [call EXCEPT ![c] = [@ EXCEPT !.st = "rereading", !.n = call[c].n + 1, !.gen = inst'[call[c].on]]]
    /\ LateUse(call[c].on)
    /\ UNCHANGED <<dialect, db, storeVars, destroyed, mixed>>

RereadAnswers(c) ==
    /\ call[c].st = "rereading"
    /\ \E b \in Conn :
         /\ CanAcquire(call[c].on, call[c].gen, b, Held)
         /\ db' = Acquired(call[c].on, call[c].gen, b)
    /\ Goes(c, "applied")
    /\ UNCHANGED <<dialect, storeVars, destroyed, poolVars, mixed, late>>

(* No connection in time, or the SELECT is refused: the call fails and the *)
(* rows stay.                                                              *)
RereadFails(c) ==
    /\ call[c].st = "rereading"
    /\ Ends(c, "failed")
    /\ UNCHANGED <<dialect, db, storeVars, destroyed, poolVars, mixed, late>>

(* Nothing is left to read: no generated key, no key column, or both read. *)
CompoundEnds(c) ==
    /\ call[c].st = "applied"
    /\ Ends(c, "answered")
    /\ UNCHANGED <<dialect, db, storeVars, destroyed, poolVars, mixed, late>>

(* BEGIN, COMMIT or ROLLBACK as a statement of its own, on whatever        *)
(* connection the call was given: a transaction it begins stays open, one  *)
(* it ends was begun by another.                                           *)
ControlPasses(c) ==
    /\ HasConnection(c) /\ call[c].kind = "control"
    /\ LET b == call[c].conn
       IN  \/ /\ CanBegin(db, b, dialect)
              /\ db' = Begin(db, b, c, dialect)
              /\ mixed' = mixed \cup Mixing(c, b)
              /\ Ends(c, "answered")
           \/ /\ b \in db.open /\ db.txOf[b] # NoCall
              /\ db' \in {Commit(db, b), Rollback(db, b)}
              /\ mixed' = mixed \cup Mixing(c, b)
              /\ Ends(c, "answered")
           \/ db' = Fail(db, b, dialect) /\ Ends(c, "failed") /\ UNCHANGED mixed
    /\ UNCHANGED <<dialect, storeVars, destroyed, poolVars, late>>

-----------------------------------------------------------------------------
(* withTransaction. *)

TxBegins(c) ==
    /\ HasConnection(c) /\ call[c].kind = "transaction"
    /\ LET b == call[c].conn
       IN  \/ /\ CanBegin(db, b, dialect)
              /\ db' = Begin(db, b, c, dialect)
              /\ mixed' = mixed \cup Mixing(c, b)
              /\ Goes(c, "running")
           \/ Ends(c, "failed") /\ UNCHANGED <<db, mixed>>
    /\ UNCHANGED <<dialect, storeVars, destroyed, poolVars, late>>

InTx(c) == call[c].st = "running"
Statement(c) == InTx(c) /\ call[c].n < MaxStatements

(* Bug: the statement is sent through the pool, outside the transaction. *)
BugTxWrites(c) ==
    /\ Statement(c) /\ CanWrite(db, call[c].conn, dialect)
    /\ db' = [db EXCEPT !.durable = @ \cup {<<c, call[c].n + 1>>}, !.written = @ \cup {<<c, call[c].n + 1>>}]
    /\ call' = [call EXCEPT ![c].n = @ + 1]
    /\ UNCHANGED <<dialect, storeVars, destroyed, poolVars, mixed, late>>

(* knex refuses statements on a transaction that tx.commit or tx.rollback  *)
(* has ended, SQLite and MongoDB run them outside of any. A statement that *)
(* fails and whose error the function catches matters in PostgreSQL only.  *)
TxWrites(c) ==
    /\ Statement(c)
    /\ LET b == call[c].conn
           m == call[c].n + 1
       IN  \/ /\ CanWrite(db, b, dialect)
              /\ call[c].finished # "no" => ~Knex
              /\ db' = Exec(db, b, <<c, m>>)
              /\ mixed' = mixed \cup Mixing(c, b)
              /\ call' = [call EXCEPT ![c].n = m]
           \/ /\ dialect = "postgresql"
              /\ db' = Fail(db, b, dialect)
              /\ call' = [call EXCEPT ![c] = [@ EXCEPT !.n = m, !.caught = TRUE]]
              /\ UNCHANGED mixed
    /\ UNCHANGED <<dialect, storeVars, destroyed, poolVars, late>>

(* mysql: a SELECT that probes the version, or an INSERT whose row is read *)
(* back, asks the handle for a connection and not the transaction's.       *)
TxProbes(c) ==
    /\ Statement(c) /\ dialect = "mysql"
    /\ GetInstance(call[c].on)
    /\ call' = [call EXCEPT ![c] = [@ EXCEPT !.st = "probing", !.n = call[c].n + 1, !.gen = inst'[call[c].on]]]
    /\ LateUse(call[c].on)
    /\ UNCHANGED <<dialect, db, storeVars, destroyed, mixed>>

ProbeAnswers(c) ==
    /\ call[c].st = "probing"
    /\ \E b \in Conn :
         /\ CanAcquire(call[c].on, call[c].gen, b, Held)
         /\ db' = Acquired(call[c].on, call[c].gen, b)
    /\ caps' = caps \cup {call[c].on}
    /\ Goes(c, "running")
    /\ UNCHANGED <<dialect, storeVars, destroyed, inst, gens, dying, mixed, late>>

(* Bug: the second acquire waits without a time limit. *)
BugProbeFails(c) ==
    /\ call[c].st = "probing" /\ call[c].gen = dying[call[c].on]
    /\ Goes(c, "running")
    /\ UNCHANGED <<dialect, db, storeVars, destroyed, poolVars, mixed, late>>

ProbeFails(c) ==
    /\ call[c].st = "probing"
    /\ Goes(c, "running")
    /\ UNCHANGED <<dialect, db, storeVars, destroyed, poolVars, mixed, late>>

(* tx.commit() and tx.rollback(): only once, and only while the connection *)
(* lives. The promise of a knex transaction settles with them.             *)
TxFinishes(c, how) ==
    /\ InTx(c) /\ call[c].finished = "no"
    /\ call[c].conn \in db.open /\ db.txOf[call[c].conn] # NoCall
    /\ db' = IF how = "commit" THEN Commit(db, call[c].conn) ELSE Rollback(db, call[c].conn)
    /\ mixed' = mixed \cup Mixing(c, call[c].conn)
    /\ call' = [call EXCEPT ![c] =
           LET r == [@ EXCEPT !.finished = how]
           IN  IF ~Knex THEN r ELSE Settled(r, IF how = "commit" THEN "answered" ELSE "failed")]
    /\ UNCHANGED <<dialect, storeVars, destroyed, poolVars, late>>

(* The function returns: COMMIT unless finished; if that fails, ROLLBACK   *)
(* and the error.                                                          *)
TxReturns(c) ==
    /\ InTx(c)
    /\ LET b == call[c].conn
       IN  CASE call[c].finished # "no" -> Ends(c, "answered") /\ UNCHANGED <<db, mixed>>
             [] call[c].finished = "no" /\ b \in db.open /\ db.txOf[b] # NoCall ->
                  /\ mixed' = mixed \cup Mixing(c, b)
                  /\ \/ db' = Commit(db, b) /\ Ends(c, "answered")
                     \/ db' = Rollback(db, b) /\ Ends(c, "failed")
             [] OTHER -> Ends(c, "failed") /\ UNCHANGED <<db, mixed>>
    /\ UNCHANGED <<dialect, storeVars, destroyed, poolVars, late>>

(* Bug: the error is passed on and the transaction left open. *)
BugTxThrows(c) ==
    /\ InTx(c)
    /\ Ends(c, "failed")
    /\ UNCHANGED <<dialect, db, storeVars, destroyed, poolVars, mixed, late>>

(* The function throws: ROLLBACK unless finished. *)
TxThrows(c) ==
    /\ InTx(c)
    /\ IF call[c].finished = "no" /\ call[c].conn \in db.open
       THEN db' = Rollback(db, call[c].conn) /\ mixed' = mixed \cup Mixing(c, call[c].conn)
       ELSE UNCHANGED <<db, mixed>>
    /\ Ends(c, "failed")
    /\ UNCHANGED <<dialect, storeVars, destroyed, poolVars, late>>

(* session.withTransaction of MongoDB runs the function again after a      *)
(* transient error; what it wrote is undone.                               *)
TxRetries(c) ==
    /\ InTx(c) /\ dialect = "mongodb" /\ call[c].finished = "no" /\ call[c].n > 0
    /\ call[c].conn \in db.open /\ ~call[c].again
    /\ db' = Forgotten(Begin(Rollback(db, call[c].conn), call[c].conn, c, dialect), c)
    /\ call' = [call EXCEPT ![c] = [@ EXCEPT !.n = 0, !.again = TRUE]]
    /\ UNCHANGED <<dialect, storeVars, destroyed, poolVars, mixed, late>>

-----------------------------------------------------------------------------
(* importDataToSqlite, testConnection, destroy. *)

(* DROP and CREATE come before BEGIN, and so belong to a transaction that  *)
(* somebody else has open: BEGIN then fails. The rows are all or none.     *)
Imports(c) ==
    /\ HasConnection(c) /\ call[c].kind = "import"
    /\ LET b     == call[c].conn
           table == Exec(db, b, <<c, 1>>)
       IN  \/ /\ CanWrite(db, b, dialect)
              /\ mixed' = mixed \cup Mixing(c, b)
              /\ IF CanBegin(table, b, dialect)
                 THEN \/ db' = Commit(Exec(Begin(table, b, c, dialect), b, <<c, 2>>), b)
                         /\ Ends(c, "answered")
                      \/ db' = table /\ Ends(c, "failed")
                 ELSE db' = table /\ Ends(c, "failed")
           \/ Ends(c, "failed") /\ UNCHANGED <<db, mixed>>
    /\ UNCHANGED <<dialect, storeVars, destroyed, poolVars, late>>

TestStarts(c) ==
    /\ call[c].st = "none" /\ "test" \in kindsOf[c]
    /\ IF Lite THEN AskBackend(c) ELSE UNCHANGED <<db, entry, entryRefs, opening, raced>>
    /\ call' = [call EXCEPT ![c] = [@ EXCEPT !.kind = "test",
                   !.st = IF Lite /\ Found # Pending THEN "ready" ELSE "waiting",
                   !.conn = IF Lite /\ Found # Pending THEN Found ELSE NoConn]]
    /\ UNCHANGED <<dialect, promise, field, destroyed, poolVars, mixed, late>>

(* A test of SQLite goes through the shared store; the other drivers open  *)
(* a connection of their own and close it in a finally block.              *)
TestConnects(c) ==
    /\ call[c].kind = "test" /\ call[c].st = "waiting"
    /\ \/ /\ IF Lite THEN BackendOpens(c)
                     ELSE /\ db.made < MaxConns
                          /\ db' = Opened(db, <<NoHandle, 0>>)
                          /\ UNCHANGED <<entry, entryRefs, opening, raced>>
          /\ call' = [call EXCEPT ![c] = [@ EXCEPT !.st = "ready", !.conn = db'.made]]
       \/ /\ IF Lite THEN BackendFails(c) ELSE UNCHANGED <<db, entry, entryRefs, opening, raced>>
          /\ Ends(c, "failed")
    /\ UNCHANGED <<dialect, promise, field, destroyed, poolVars, mixed, late>>

TestEnds(c) ==
    /\ call[c].kind = "test" /\ call[c].st = "ready"
    /\ CASE File /\ call[c].conn \in db.open -> ReleaseBackend /\ Ends(c, "answered")
         [] File /\ call[c].conn \notin db.open -> UNCHANGED <<db, entry, entryRefs>> /\ Ends(c, "failed")
         [] OTHER -> /\ db' = Close(db, call[c].conn)
                     /\ Ends(c, "answered") \/ Ends(c, "failed")
                     /\ UNCHANGED <<entry, entryRefs>>
    /\ UNCHANGED <<dialect, opening, promise, field, raced, destroyed, poolVars, mixed, late>>

Destroy(h) ==
    /\ h \in Pooled \/ File
    /\ IF Lite THEN DestroyStoreHandle(h) /\ UNCHANGED poolVars
               ELSE DestroyPoolHandle(h) /\ UNCHANGED storeVars
    /\ UNCHANGED <<dialect, call, mixed, late>>

DestroyEnds(h) ==
    /\ ~Lite /\ InstanceCloses(h, Held)
    /\ UNCHANGED <<dialect, storeVars, destroyed, call, mixed, late>>

-----------------------------------------------------------------------------

Starts(c) ==
    \/ \E h \in Handle, k \in kindsOf[c] : StartLite(c, h, k) \/ StartServer(c, h, k)
    \/ TestStarts(c)

InTransaction(c) ==
    \/ TxWrites(c) \/ TxProbes(c) \/ ProbeAnswers(c) \/ ProbeFails(c) \/ TxRetries(c)
    \/ \E how \in {"commit", "rollback"} : TxFinishes(c, how)
    \/ TxReturns(c) \/ TxThrows(c)

Continues(c) ==
    \/ GetsBackend(c) \/ Connects(c) \/ Acquires(c) \/ AcquireFails(c)
    \/ Probes(c) \/ ReadEnds(c) \/ WriteEnds(c) \/ ControlPasses(c) \/ Imports(c)
    \/ CompoundRuns(c) \/ RereadAsks(c) \/ RereadAnswers(c) \/ RereadFails(c) \/ CompoundEnds(c)
    \/ TxBegins(c) \/ InTransaction(c)
    \/ TestConnects(c) \/ TestEnds(c)

Settles(h) == HandleOpens(h) \/ HandleFails(h)

Next ==
    \/ \E c \in Call : Starts(c) \/ Continues(c)
    \/ \E h \in Handle : Settles(h) \/ Destroy(h) \/ DestroyEnds(h)

Spec == Init /\ [][Next]_vars

(* Databases answer, acquires time out and the functions given to          *)
(* withTransaction come to an end; nothing is assumed of new calls.        *)
FairSpec ==
    /\ Spec
    /\ \A c \in Call : WF_vars(Continues(c))
    /\ \A h \in Handle : WF_vars(Settles(h))

-----------------------------------------------------------------------------

TypeOK ==
    /\ dialect \in Dialect /\ db \in Database
    /\ entry \in Conn \cup {NoConn} /\ entryRefs \in Nat
    /\ opening \subseteq Handle \cup Call
    /\ promise \in [Handle -> Conn \cup {NoConn, Pending, Rejected}]
    /\ field \in [Handle -> Conn \cup {NoConn}]
    /\ destroyed \subseteq Handle /\ late \subseteq Handle /\ raced \in BOOLEAN
    /\ inst \in [Handle -> 0 .. MaxInstances] /\ gens \in [Handle -> 0 .. MaxInstances]
    /\ dying \in [Handle -> 0 .. MaxInstances] /\ caps \subseteq Handle
    /\ call \in [Call -> CallRecord] /\ mixed \subseteq Call

(* Unless two creations of the backend overlapped, the store counts every  *)
(* handle and test that was given the backend of the file and has not      *)
(* given it back, they all have the same one, and it is open.              *)
BackendUsers == {h \in Handle : promise[h] > 0}
                  \cup {c \in Call : call[c].kind = "test" /\ call[c].st = "ready"}
StoreIsExact ==
    File /\ ~raced =>
        /\ entryRefs = Cardinality(BackendUsers)
        /\ \A h \in Handle : promise[h] > 0 => promise[h] = entry /\ entry \in db.open
        /\ entry = NoConn => db.open = {}

(* Once every handle is destroyed and all calls are over nothing is left   *)
(* open, unless a handle was used after its destroy() or two creations     *)
(* overlapped.                                                             *)
NothingLeaks ==
    /\ destroyed = (IF File THEN Handle ELSE Pooled) /\ late = {} /\ ~raced
    /\ \A c \in Call : Over(c)
    /\ \A h \in Handle : inst[h] = 0
    => db.open = {}

(* No call runs inside the transaction of another, on a server, as long as *)
(* nobody sends BEGIN, COMMIT or ROLLBACK as a statement of its own.       *)
NoControls == \A c \in Call : call[c].kind # "control"
ServerTransactionsAreAlone == ~Lite /\ NoControls => mixed = {}

(* What a call answered is what happened to its writes, as long as it ran  *)
(* in no other transaction. If it succeeds all of them are committed; if   *)
(* it fails a statement or a transaction has left none, an import none of  *)
(* its rows, and what a compound write has done stays, be it a part or,    *)
(* where only the read-back failed, all of it.                             *)
(* PostgreSQL is exempt where the function caught an error and returned.   *)
Written(c) == {w \in db.written : w[1] = c}
AnswersTellOutcome ==
    \A c \in Call \ mixed :
        /\ /\ call[c].st = "answered" /\ call[c].finished # "rollback"
           /\ dialect = "postgresql" => ~call[c].caught
           => Written(c) \subseteq db.durable
        /\ call[c].st = "failed" =>
             CASE call[c].kind = "import" -> <<c, 2>> \notin db.durable
               [] call[c].kind = "compound" -> Written(c) \subseteq db.durable
               [] OTHER -> call[c].finished = "no" =>
                     \A b \in Conn : Written(c) \cap (db.durable \cup db.dirty[b]) = {}

(* Every call has its answer: it waits for no backend that failed and for  *)
(* no connection for ever, also when transactions that hold all of them    *)
(* each ask for one more.                                                  *)
EveryCallIsAnswered == \A c \in Call : call[c].st # "none" ~> Over(c)

(* USAGE.md says of transactions that their connection is exclusive: the   *)
(* write of a call that was told of its success is not undone by another.  *)
AcknowledgedWritesLast ==
    NoControls => \A c \in Call : call[c].kind = "write" /\ call[c].st = "answered" =>
                     <<c, 1>> \in db.durable \cup UNION {db.dirty[b] : b \in Conn}

(* As long as no call has shared a connection with a transaction that is   *)
(* not its own (on a server: see above) the calls are isolated ones: all   *)
(* writes of a transaction take effect in one step, the one that ends it,  *)
(* and none when it fails or its connection is closed under it.            *)
PhaseOf(r) ==
    CASE r.st = "none" -> "idle"
      [] r.st \in {"waiting", "ready", "holding"} -> r.kind
      [] r.st \in {"running", "probing"} ->
            IF r.finished # "no" THEN "ended" ELSE
            IF r.conn \notin db.open THEN "lost" ELSE
            IF r.caught THEN "broken" ELSE "inside"
      [] r.st \in {"applied", "rereading"} -> "applied"
      [] r.st = "answered" -> IF r.caught THEN "dropped" ELSE "succeeded"
      [] r.st = "failed" -> "failed"

Uncommitted(c) == UNION {db.dirty[b] : b \in {o \in Conn : db.txOf[o] = c}}

Isolated == INSTANCE IsolatedCalls WITH
    writesOf <- [c \in Call |-> {c} \X (1 .. 2)],
    phase <- [c \in Call |-> PhaseOf(call[c])],
    working <- [c \in Call |-> Uncommitted(c)],
    durable <- db.durable

IsolatesCalls ==
    /\ Isolated!ICInit
    /\ [][mixed' = {} => Isolated!ICNext]_(Isolated!icVars)

=============================================================================
