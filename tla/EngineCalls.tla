----------------------------- MODULE EngineCalls -----------------------------
(***************************************************************************)
(* Concurrent SqlEngine calls over the pool registry.                      *)
(* Every engine method that runs SQL (runSql, explain, withTransaction,    *)
(* getAllTableSchemas and those built on withHandle) has one shape: await  *)
(* registry.getPool(config), run the driver, and release the reference in  *)
(* a finally block. A call here is one such invocation.                    *)
(***************************************************************************)
EXTENDS PoolRegistry

Init == RegInit

(* A caller invokes an engine method on a database. *)
Start(c, f) ==
    /\ promise[c].state = "none"
    /\ GetPool(c, f)

(* The driver's work is over, with a result or an error: the finally block *)
(* releases the reference.                                                 *)
Finish(c) ==
    /\ promise[c].state = "fulfilled"
    /\ Release(promise[c].fp)
    /\ promise' = [promise EXCEPT ![c] = NoPromise]

(* getPool rejected: the method rejects, and has no reference to release. *)
Throw(c) ==
    /\ promise[c].state = "rejected"
    /\ promise' = [promise EXCEPT ![c] = NoPromise]
    /\ UNCHANGED <<pools, created, handle, refs, lastUsedAt, totalRefs, now>>

(* engine.destroyAll, for the exit of the application: once no call runs. *)
Shutdown ==
    /\ \A c \in Caller : promise[c].state = "none"
    /\ DestroyAll
    /\ UNCHANGED promise

Settle(r) == CreateResolves(r) \/ CreateRejects(r)

Next ==
    \/ \E c \in Caller, f \in Fingerprint : Start(c, f)
    \/ \E r \in Record : Settle(r)
    \/ \E c \in Caller : Finish(c) \/ Throw(c)
    \/ Shutdown
    \/ Tick

Spec == Init /\ [][Next]_regVars

(* createPool settles: the drivers of the repository return a promise that *)
(* does not wait for the database. Nothing is assumed of the callers.      *)
FairSpec == Spec /\ \A r \in Record : WF_regVars(Settle(r))

-----------------------------------------------------------------------------
(* The reference counts are exact: a record counts the calls that hold its *)
(* handle, the registry counts all of them. Joined creations, failed       *)
(* creations and the finally blocks neither lose a reference nor keep one. *)
Working == {c \in Caller : promise[c].state = "fulfilled"}

RefsAreHolders ==
    /\ \A r \in Record : refs[r] = Cardinality(Holding(r))
    /\ totalRefs = Cardinality(Working)

(* A call that has a handle works on the pool that is open and registered  *)
(* for its database: the collector never closes a pool under a call.       *)
InUseStaysOpen ==
    \A c \in Caller : promise[c].state = "fulfilled" =>
        /\ pools[promise[c].fp] = promise[c].rec
        /\ handle[promise[c].rec] = "open"

(* Every open pool can still be found, and so reused and closed: none is   *)
(* left behind by a removal from the map.                                  *)
NoPoolLeaks == \A r \in Record : handle[r] = "open" => r \in Tracked

(* maxIdlePools bounds the open pools that nobody references, and when the *)
(* collector closes pools, each one was used less recently than every idle *)
(* pool it keeps, and it keeps exactly MaxIdlePools.                       *)
CollectsOldestIdle ==
    /\ []IdleBound
    /\ [][(\E c \in Caller : promise[c].state = "fulfilled" /\ promise'[c].state = "none") =>
             \A r \in Record : (handle[r] = "open" /\ handle'[r] = "destroyed") =>
                 /\ \A s \in IdlePools(refs)' : UsedAfter(s, r, lastUsedAt')
                 /\ Cardinality(IdlePools(refs)') = MaxIdlePools]_regVars

(* Every call that awaits a pool gets a handle or an error, also when the  *)
(* creation it waits for was started by another call and fails.            *)
EveryCallIsAnswered == \A c \in Caller : promise[c].state = "pending" ~> promise[c].state # "pending"

(* The registry under engine calls implements the sharing of SharedPools:  *)
(* the live pool of a database is the open handle its record has.          *)
LivePool == [f \in Fingerprint |->
               IF pools[f] # NoRecord /\ handle[pools[f]] = "open" THEN pools[f] ELSE NoRecord]
UsersOf == [f \in Fingerprint |->
               {c \in Caller : promise[c].state = "fulfilled" /\ promise[c].fp = f}]

Abstract == INSTANCE SharedPools WITH
    Pool <- Record, NoPool <- NoRecord, live <- LivePool, users <- UsersOf

SharesPools == Abstract!SPSpec

=============================================================================
