---------------------------- MODULE PoolRegistry ----------------------------
(***************************************************************************)
(* The pool registry (src/src/client/registry.ts): a map from config       *)
(* fingerprints to pool records, reference counts, lazy creation shared by *)
(* concurrent callers, and collection of idle pools.                       *)
(*                                                                         *)
(* The module holds the registry's state and one operator per method; the  *)
(* modules that extend it say who calls the methods and in what order.     *)
(* getPool is the one method with an await, so it is two steps: the code   *)
(* before the await (GetPool) and the code after it, when the driver's     *)
(* createPool settles (CreateResolves, CreateRejects).                     *)
(***************************************************************************)
EXTENDS Integers, FiniteSets

CONSTANTS
    Fingerprint,    \* configKey(config) of the databases in use
    NoDatabase,     \* stands for the config of a caller that has made no call
    Caller,         \* the getPool calls: one promise each
    MaxRecords,     \* bound of the model: pool records ever created
    MaxTime,        \* bound of the model: largest value of the clock
    MaxClients,     \* options.maxClients
    LruEnabled,     \* options.lru.enabled
    MaxIdlePools    \* options.lru.maxIdlePools

ASSUME RegistryAssumption ==
    /\ MaxRecords \in Nat /\ MaxTime \in Nat
    /\ MaxClients \in Nat /\ MaxIdlePools \in Nat
    /\ LruEnabled \in BOOLEAN
    /\ IsFiniteSet(Caller)

VARIABLES
    pools,        \* the Map: fingerprint -> record, NoRecord where it has no entry
    created,      \* how many records were ever made; they are numbered in that order
    handle,       \* record.handle and record.creating of each record, see HandleState
    refs,         \* record.refs
    lastUsedAt,   \* record.lastUsedAt
    totalRefs,    \* the registry's totalRefs
    promise,      \* the promise each getPool call returned, see Promise
    now           \* Date.now()

regVars == <<pools, created, handle, refs, lastUsedAt, totalRefs, promise, now>>

Record == 1 .. MaxRecords
NoRecord == 0

(* absent: handle and creating are null; creating: createPool is awaited;  *)
(* open: the handle is there; destroyed: its destroy() has been called.    *)
HandleState == {"absent", "creating", "open", "destroyed"}

Promise == [state : {"none", "pending", "fulfilled", "rejected"},
            fp : Fingerprint \cup {NoDatabase}, rec : Record \cup {NoRecord}]

NoPromise == [state |-> "none", fp |-> NoDatabase, rec |-> NoRecord]

(* Variants named Bug... change one definition the way a mistake in the    *)
(* code would; each is there to show that some property depends on it.     *)

(* Bug: the operands of a subtraction swapped. *)
BugMonusSwapped(a, b) == b - a

(* Math.max(0, a - b). *)
Monus(a, b) == IF a > b THEN a - b ELSE 0

Tracked == {r \in Record : \E f \in Fingerprint : pools[f] = r}

(* The callers that await record.creating of r. *)
Waiting(r) == {c \in Caller : promise[c].state = "pending" /\ promise[c].rec = r}

(* The callers whose getPool returned the handle of r. *)
Holding(r) == {c \in Caller : promise[c].state = "fulfilled" /\ promise[c].rec = r}

-----------------------------------------------------------------------------

RegInit ==
    /\ pools = [f \in Fingerprint |-> NoRecord]
    /\ created = 0
    /\ handle = [r \in Record |-> "absent"]
    /\ refs = [r \in Record |-> 0]
    /\ lastUsedAt = [r \in Record |-> 0]
    /\ totalRefs = 0
    /\ promise = [c \in Caller |-> NoPromise]
    /\ now = 0

(* getPool at the limit: rejected before anything is read or made. *)
GetPoolRefused(c, f) ==
    /\ totalRefs >= MaxClients
    /\ promise' = [promise EXCEPT ![c] = [state |-> "rejected", fp |-> f, rec |-> NoRecord]]
    /\ UNCHANGED <<pools, created, handle, refs, lastUsedAt, totalRefs, now>>

(* getPool finds a pool that is open: no await, the reference is taken. *)
GetPoolShared(c, f) ==
    /\ totalRefs < MaxClients
    /\ pools[f] # NoRecord
    /\ handle[pools[f]] = "open"
    /\ refs' = [refs EXCEPT ![pools[f]] = @ + 1]
    /\ totalRefs' = totalRefs + 1
    /\ lastUsedAt' = [lastUsedAt EXCEPT ![pools[f]] = now]
    /\ promise' = [promise EXCEPT ![c] = [state |-> "fulfilled", fp |-> f, rec |-> pools[f]]]
    /\ UNCHANGED <<pools, created, handle, now>>

(* getPool finds a record without a handle: it starts createPool unless    *)
(* another caller has, and awaits it.                                      *)
GetPoolAwaits(c, f) ==
    /\ totalRefs < MaxClients
    /\ pools[f] # NoRecord
    /\ handle[pools[f]] \in {"absent", "creating"}
    /\ handle' = [handle EXCEPT ![pools[f]] = "creating"]
    /\ promise' = [promise EXCEPT ![c] = [state |-> "pending", fp |-> f, rec |-> pools[f]]]
    /\ UNCHANGED <<pools, created, refs, lastUsedAt, totalRefs, now>>

(* getPool finds no record: it adds one, starts createPool and awaits it. *)
GetPoolCreates(c, f) ==
    /\ totalRefs < MaxClients
    /\ pools[f] = NoRecord
    /\ created < MaxRecords
    /\ created' = created + 1
    /\ pools' = [pools EXCEPT ![f] = created + 1]
    /\ handle' = [handle EXCEPT ![created + 1] = "creating"]
    /\ lastUsedAt' = [lastUsedAt EXCEPT ![created + 1] = now]
    /\ promise' = [promise EXCEPT ![c] = [state |-> "pending", fp |-> f, rec |-> created + 1]]
    /\ UNCHANGED <<refs, totalRefs, now>>

GetPool(c, f) ==
    \/ GetPoolRefused(c, f)
    \/ GetPoolShared(c, f)
    \/ GetPoolAwaits(c, f)
    \/ GetPoolCreates(c, f)

(* Bug: the reference is counted once per creation, not once per caller. *)
BugCreateCountsOnce(r) ==
    /\ handle[r] = "creating"
    /\ handle' = [handle EXCEPT ![r] = "open"]
    /\ refs' = [refs EXCEPT ![r] = @ + 1]
    /\ totalRefs' = totalRefs + 1
    /\ lastUsedAt' = [lastUsedAt EXCEPT ![r] = now]
    /\ promise' = [c \in Caller |->
                     IF c \in Waiting(r) THEN [promise[c] EXCEPT !.state = "fulfilled"]
                                         ELSE promise[c]]
    /\ UNCHANGED <<pools, created, now>>

(* createPool of r fulfils. Every caller that awaits it resumes: the       *)
(* continuations of one promise run back to back. Nothing checks the limit *)
(* again, nor whether r is still the record of the map.                    *)
CreateResolves(r) ==
    /\ handle[r] = "creating"
    /\ handle' = [handle EXCEPT ![r] = "open"]
    /\ refs' = [refs EXCEPT ![r] = @ + Cardinality(Waiting(r))]
    /\ totalRefs' = totalRefs + Cardinality(Waiting(r))
    /\ lastUsedAt' = [lastUsedAt EXCEPT ![r] = now]
    /\ promise' = [c \in Caller |->
                     IF c \in Waiting(r) THEN [promise[c] EXCEPT !.state = "fulfilled"]
                                         ELSE promise[c]]
    /\ UNCHANGED <<pools, created, now>>

(* Bug: the error of createPool reaches one of its callers only. *)
BugRejectsOne(r) ==
    /\ handle[r] = "creating"
    /\ handle' = [handle EXCEPT ![r] = "absent"]
    /\ \E c \in Waiting(r) : promise' = [promise EXCEPT ![c].state = "rejected"]
    /\ UNCHANGED <<pools, created, refs, lastUsedAt, totalRefs, now>>

(* createPool of r rejects: creating is reset and every caller gets the    *)
(* error; the record stays in the map without a handle.                    *)
CreateRejects(r) ==
    /\ handle[r] = "creating"
    /\ handle' = [handle EXCEPT ![r] = "absent"]
    /\ promise' = [c \in Caller |->
                     IF c \in Waiting(r) THEN [promise[c] EXCEPT !.state = "rejected"]
                                         ELSE promise[c]]
    /\ UNCHANGED <<pools, created, refs, lastUsedAt, totalRefs, now>>

(* Bug: the collector does not ask for refs = 0. *)
BugIdleIgnoresRefs(rf) == {r \in Tracked : handle[r] = "open"}

(* maybeCollectIdle: of the tracked open pools without references, all but *)
(* the MaxIdlePools used last. Equal times keep the Map's order, which is  *)
(* the order the records were made in.                                     *)
IdlePools(rf) == {r \in Tracked : rf[r] = 0 /\ handle[r] = "open"}

(* s comes after r in the collector's order. *)
UsedAfter(s, r, lu) == lu[s] > lu[r] \/ (lu[s] = lu[r] /\ s > r)

(* Bug: the pools used last are collected. *)
BugCollectsNewest(rf, lu) ==
    {r \in IdlePools(rf) :
        LruEnabled /\ Cardinality({s \in IdlePools(rf) : UsedAfter(r, s, lu)}) >= MaxIdlePools}

Collected(rf, lu) ==
    {r \in IdlePools(rf) :
        LruEnabled /\ Cardinality({s \in IdlePools(rf) : UsedAfter(s, r, lu)}) >= MaxIdlePools}

(* Bug: collected pools leave the map and are never destroyed. *)
BugReleaseForgetsDestroy(f) ==
    /\ refs' = IF pools[f] = NoRecord THEN refs ELSE [refs EXCEPT ![pools[f]] = Monus(@, 1)]
    /\ totalRefs' = IF pools[f] = NoRecord THEN totalRefs ELSE Monus(totalRefs, 1)
    /\ lastUsedAt' = IF pools[f] = NoRecord THEN lastUsedAt ELSE [lastUsedAt EXCEPT ![pools[f]] = now]
    /\ pools' = [g \in Fingerprint |-> IF pools[g] \in Collected(refs', lastUsedAt') THEN NoRecord
                                                                                    ELSE pools[g]]
    /\ UNCHANGED <<created, handle, now>>

(* release: by fingerprint, whoever calls it. The promises are untouched.  *)
Release(f) ==
    IF pools[f] = NoRecord
    THEN UNCHANGED <<pools, created, handle, refs, lastUsedAt, totalRefs, now>>
    ELSE LET r  == pools[f]
             rf == [refs EXCEPT ![r] = Monus(@, 1)]
             lu == [lastUsedAt EXCEPT ![r] = now]
             dead == Collected(rf, lu)
         IN  /\ refs' = rf
             /\ lastUsedAt' = lu
             /\ totalRefs' = Monus(totalRefs, 1)
             /\ pools' = [g \in Fingerprint |-> IF pools[g] \in dead THEN NoRecord ELSE pools[g]]
             /\ handle' = [s \in Record |-> IF s \in dead THEN "destroyed" ELSE handle[s]]
             /\ UNCHANGED <<created, now>>

(* What handle.destroy() does to the records of a set: a pool that is      *)
(* still being created is dropped from the map but not destroyed.          *)
DestroyHandles(S) ==
    [r \in Record |-> IF r \in S /\ handle[r] = "open" THEN "destroyed" ELSE handle[r]]

(* invalidate: drop the record and destroy its pool, whoever uses it. *)
Invalidate(f) ==
    IF pools[f] = NoRecord
    THEN UNCHANGED <<pools, created, handle, refs, lastUsedAt, totalRefs, now>>
    ELSE /\ pools' = [pools EXCEPT ![f] = NoRecord]
         /\ totalRefs' = Monus(totalRefs, refs[pools[f]])
         /\ handle' = DestroyHandles({pools[f]})
         /\ UNCHANGED <<created, refs, lastUsedAt, now>>

DestroyAll ==
    /\ pools' = [f \in Fingerprint |-> NoRecord]
    /\ totalRefs' = 0
    /\ handle' = DestroyHandles(Tracked)
    /\ UNCHANGED <<created, refs, lastUsedAt, now>>

(* Date.now() moves between two calls or does not. *)
Tick ==
    /\ now < MaxTime
    /\ now' = now + 1
    /\ UNCHANGED <<pools, created, handle, refs, lastUsedAt, totalRefs, promise>>

-----------------------------------------------------------------------------
(* Facts about the registry alone, whoever calls it. *)

RegTypeOK ==
    /\ pools \in [Fingerprint -> Record \cup {NoRecord}]
    /\ created \in 0 .. MaxRecords
    /\ handle \in [Record -> HandleState]
    /\ refs \in [Record -> Nat]
    /\ lastUsedAt \in [Record -> 0 .. MaxTime]
    /\ totalRefs \in Nat
    /\ promise \in [Caller -> Promise]
    /\ now \in 0 .. MaxTime

(* maxIdlePools bounds the open pools that nobody references.              *)
IdleBound == LruEnabled => Cardinality(IdlePools(refs)) <= MaxIdlePools

=============================================================================
