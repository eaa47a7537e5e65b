---------------------------- MODULE ServerPools ----------------------------
(***************************************************************************)
(* The pool handles of the server drivers (pool.ts of mysql, postgresql    *)
(* and mongodb): a knex instance or MongoClient made at first use, which   *)
(* destroy() closes once and getKnex would make again.                     *)
(* Of the pool inside it (external: tarn, the MongoDB client) the model    *)
(* has what the drivers configure and rely on: at most PoolMax connections *)
(* that one call holds at a time, and an acquire that gives up.            *)
(***************************************************************************)
EXTENDS SqliteStore

CONSTANTS
    PoolMax,        \* pool.max of knex
    MaxInstances    \* bound of the model: instances a handle ever makes

ASSUME PoolAssumption == PoolMax \in Nat \ {0} /\ MaxInstances \in Nat

VARIABLES
    inst,   \* handle.knexInstance or handle.client: a number, 0 for null
    gens,   \* how many instances the handle has made
    dying,  \* the instance that destroy() closes or has closed, 0 if none
    caps    \* mysql: handles whose version was probed (handle.caps)

poolVars == <<inst, gens, dying, caps>>

PoolInit ==
    /\ inst = [h \in Handle |-> 0]
    /\ gens = [h \in Handle |-> 0]
    /\ dying = [h \in Handle |-> 0]
    /\ caps = {}

(* getKnex, getClient: the flag destroyed is not asked. *)
GetInstance(h) ==
    /\ inst[h] = 0 => gens[h] < MaxInstances
    /\ gens' = IF inst[h] = 0 THEN [gens EXCEPT ![h] = @ + 1] ELSE gens
    /\ inst' = IF inst[h] = 0 THEN [inst EXCEPT ![h] = gens[h] + 1] ELSE inst
    /\ UNCHANGED <<dying, caps>>

ConnsOf(h, g) == {b \in db.open : db.home[b] = <<h, g>>}

(* Bug: a connection is given to a second call. *)
BugCanAcquire(h, g, b, held) == g # dying[h] /\ (b \in ConnsOf(h, g) \/ b = db.made + 1)

(* Instance g of the handle can give connection b: an idle one, or a new   *)
(* one while it has fewer than PoolMax. The MongoDB client has a pool of   *)
(* 100, no bound here.                                                     *)
CanAcquire(h, g, b, held) ==
    /\ g # dying[h]
    /\ LET all == ConnsOf(h, g)
       IN  \/ b \in all \ held
           \/ /\ b = db.made + 1 /\ db.made < MaxConns /\ all \subseteq held
              /\ dialect = "mongodb" \/ Cardinality(all) < PoolMax

(* The database after connection b was acquired. *)
Acquired(h, g, b) == IF b \in db.open THEN db ELSE Opened(db, <<h, g>>)

(* destroy(): the flag, then the instance's own destroy, which is awaited  *)
(* while the field still has it.                                           *)
DestroyPoolHandle(h) ==
    /\ h \notin destroyed
    /\ destroyed' = destroyed \cup {h}
    /\ dying' = [dying EXCEPT ![h] = inst[h]]
    /\ UNCHANGED <<db, inst, gens, caps>>

(* Bug: the field is cleared and the instance never closed. *)
BugInstanceCloses(h, held) ==
    /\ dying[h] # 0 /\ inst[h] = dying[h]
    /\ inst' = [inst EXCEPT ![h] = 0]
    /\ UNCHANGED <<db, gens, dying, caps>>

(* knex waits for the connections in use, MongoClient.close() does not.    *)
InstanceCloses(h, held) ==
    /\ dying[h] # 0 /\ inst[h] = dying[h]
    /\ dialect = "mongodb" \/ ConnsOf(h, inst[h]) \cap held = {}
    /\ db' = CloseAll(db, ConnsOf(h, inst[h]))
    /\ inst' = [inst EXCEPT ![h] = 0]
    /\ UNCHANGED <<gens, dying, caps>>

=============================================================================
