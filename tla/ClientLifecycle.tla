--------------------------- MODULE ClientLifecycle ---------------------------
(***************************************************************************)
(* DbClients (src/src/client/client.ts) over one shared pool registry.     *)
(*                                                                         *)
(* A client asks the registry for its pool on its first operation and      *)
(* keeps the promise of that call, whatever becomes of it, until a failed  *)
(* ping resets it. destroy() gives back a reference by fingerprint,        *)
(* whether or not the client ever got one. The owner of the registry       *)
(* (ClientManager) may invalidate a database or destroy all pools between  *)
(* any two steps.                                                          *)
(***************************************************************************)
EXTENDS PoolRegistry

CONSTANTS
    Client,      \* the DbClient objects
    configOf,    \* the fingerprint of each client's config
    Op           \* operations of clients that may be in flight at once

ASSUME ClientAssumption ==
    /\ IsFiniteSet(Client)
    /\ configOf \in [Client -> Fingerprint]
    /\ Caller = 1 .. Cardinality(Caller)

VARIABLES
    handlePromise,   \* client.handlePromise: the getPool call it keeps, or NoCall
    destroyed,       \* client.destroyed
    op,              \* each operation in flight, see OpState
    disturbed        \* history: what has happened that the counts do not survive

clientVars == <<handlePromise, destroyed, op, disturbed>>
vars == <<regVars, clientVars>>

NoCall == 0
NoOp == [at |-> "idle"]

(* A ping that failed first invalidates the pool, then forgets its promise. *)
OpState == {NoOp} \cup
    [at : {"await", "exec", "invalidating"}, kind : {"use", "ping"}, client : Client, call : Caller]

Disturbance == {"foreignRelease", "invalidation"}

(* The client got a pool, has not reset it and has not been destroyed. *)
Holds(k) == ~destroyed[k] /\ handlePromise[k] # NoCall /\ promise[handlePromise[k]].state = "fulfilled"
PoolOf(k) == promise[handlePromise[k]].rec

NextCall(c) == promise[c].state = "none" /\ \A d \in Caller : d < c => promise[d].state # "none"

-----------------------------------------------------------------------------

Init ==
    /\ RegInit
    /\ handlePromise = [k \in Client |-> NoCall]
    /\ destroyed = [k \in Client |-> FALSE]
    /\ op = [o \in Op |-> NoOp]
    /\ disturbed = {}

(* Bug: every operation asks the registry for a pool of its own. *)
BugBeginForgetsPromise(o, k, kind) ==
    /\ op[o] = NoOp
    /\ ~destroyed[k]
    /\ \E c \in Caller :
          /\ NextCall(c)
          /\ GetPool(c, configOf[k])
          /\ handlePromise' = [handlePromise EXCEPT ![k] = c]
          /\ op' = [op EXCEPT ![o] = [at |-> "await", kind |-> kind, client |-> k, call |-> c]]
    /\ UNCHANGED <<destroyed, disturbed>>

(* An operation starts with getHandle: it calls getPool unless the client  *)
(* has a promise already, fulfilled, pending or rejected. On a destroyed   *)
(* client it is rejected and nothing changes.                              *)
Begin(o, k, kind) ==
    /\ op[o] = NoOp
    /\ ~destroyed[k]
    /\ \/ /\ handlePromise[k] = NoCall
          /\ \E c \in Caller :
                /\ NextCall(c)
                /\ GetPool(c, configOf[k])
                /\ handlePromise' = [handlePromise EXCEPT ![k] = c]
                /\ op' = [op EXCEPT ![o] = [at |-> "await", kind |-> kind, client |-> k, call |-> c]]
       \/ /\ handlePromise[k] # NoCall
          /\ op' = [op EXCEPT ![o] = [at |-> "await", kind |-> kind, client |-> k,
                                      call |-> handlePromise[k]]]
          /\ UNCHANGED <<regVars, handlePromise>>
    /\ UNCHANGED <<destroyed, disturbed>>

(* The awaited handle arrives and the driver works with it, or the call    *)
(* was rejected and so is the operation; the client keeps the promise.     *)
Resume(o) ==
    /\ op[o].at = "await"
    /\ \/ /\ promise[op[o].call].state = "fulfilled"
          /\ op' = [op EXCEPT ![o].at = "exec"]
       \/ /\ promise[op[o].call].state = "rejected"
          /\ op' = [op EXCEPT ![o] = NoOp]
    /\ UNCHANGED <<regVars, handlePromise, destroyed, disturbed>>

(* The driver is done: a statement ended, or the pool answered the ping. *)
Complete(o) ==
    /\ op[o].at = "exec"
    /\ op' = [op EXCEPT ![o] = NoOp]
    /\ UNCHANGED <<regVars, handlePromise, destroyed, disturbed>>

(* The pool does not answer: the registry drops whatever pool it has for   *)
(* the fingerprint now, and the ping awaits its destruction.               *)
PingFails(o) ==
    /\ op[o].at = "exec" /\ op[o].kind = "ping"
    /\ Invalidate(configOf[op[o].client])
    /\ op' = [op EXCEPT ![o].at = "invalidating"]
    /\ disturbed' = disturbed \cup {"invalidation"}
    /\ UNCHANGED <<promise, handlePromise, destroyed>>

(* After that await the client forgets its promise, so that the next       *)
(* operation asks for a pool again, and the ping rejects.                  *)
PingResets(o) ==
    /\ op[o].at = "invalidating"
    /\ handlePromise' = [handlePromise EXCEPT ![op[o].client] = NoCall]
    /\ op' = [op EXCEPT ![o] = NoOp]
    /\ UNCHANGED <<regVars, destroyed, disturbed>>

(* destroy: once, and a reference is released by fingerprint. *)
Destroy(k) ==
    /\ ~destroyed[k]
    /\ destroyed' = [destroyed EXCEPT ![k] = TRUE]
    /\ Release(configOf[k])
    /\ disturbed' = IF Holds(k) THEN disturbed ELSE disturbed \cup {"foreignRelease"}
    /\ UNCHANGED <<promise, handlePromise, op>>

(* manager.invalidate: the data source was updated or removed. *)
ManagerInvalidate(f) ==
    /\ Invalidate(f)
    /\ disturbed' = disturbed \cup {"invalidation"}
    /\ UNCHANGED <<promise, handlePromise, destroyed, op>>

ManagerDestroyAll ==
    /\ DestroyAll
    /\ disturbed' = disturbed \cup {"invalidation"}
    /\ UNCHANGED <<promise, handlePromise, destroyed, op>>

Environment ==
    \/ \E r \in Record : CreateResolves(r) \/ CreateRejects(r)
    \/ Tick

Next ==
    \/ \E o \in Op, k \in Client, kind \in {"use", "ping"} : Begin(o, k, kind)
    \/ \E o \in Op : Resume(o) \/ Complete(o) \/ PingFails(o) \/ PingResets(o)
    \/ \E k \in Client : Destroy(k)
    \/ \E f \in Fingerprint : ManagerInvalidate(f)
    \/ ManagerDestroyAll
    \/ Environment /\ UNCHANGED clientVars

Spec == Init /\ [][Next]_vars

-----------------------------------------------------------------------------

TypeOK ==
    /\ RegTypeOK
    /\ handlePromise \in [Client -> Caller \cup {NoCall}]
    /\ destroyed \in [Client -> BOOLEAN]
    /\ op \in [Op -> OpState]
    /\ disturbed \subseteq Disturbance

(* As long as no pool is invalidated and every client that is destroyed    *)
(* had got its pool, counts are exact: a record counts the clients that    *)
(* hold it, the registry counts all of them, and a client that has its     *)
(* pool finds it open and registered at each operation.                    *)
UndisturbedClientsAreCounted ==
    disturbed = {} =>
        /\ \A r \in Record : refs[r] = Cardinality({k \in Client : Holds(k) /\ PoolOf(k) = r})
        /\ totalRefs = Cardinality({k \in Client : Holds(k)})
        /\ \A k \in Client : Holds(k) =>
              handle[PoolOf(k)] = "open" /\ pools[configOf[k]] = PoolOf(k)

(* An open pool that the map no longer knows was invalidated while it was  *)
(* being created: nothing else makes the registry lose a pool.             *)
OnlyInvalidationLosesPools ==
    "invalidation" \notin disturbed => \A r \in Record : handle[r] = "open" => r \in Tracked

(* What the comments on release, destroy and the collector say: releasing  *)
(* references never closes a pool another client still references. Only    *)
(* invalidation does.                                                      *)
ReleaseSparesPoolsInUse ==
    "invalidation" \notin disturbed =>
        \A k \in Client : Holds(k) => handle[PoolOf(k)] = "open"

=============================================================================
