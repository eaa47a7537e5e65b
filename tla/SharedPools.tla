---------------------------- MODULE SharedPools ----------------------------
(***************************************************************************)
(* What the pool registry promises to the code that runs SQL through it,   *)
(* without its counters, its map or its promises: callers of one database  *)
(* share one pool, and a pool is closed only when nobody uses it.          *)
(***************************************************************************)
EXTENDS Naturals

CONSTANTS
    Fingerprint,   \* the databases: one element per distinct config fingerprint
    Caller,        \* the concurrent calls that may use a pool
    Pool,          \* identities of pools ever created
    NoPool         \* marks a database without a live pool

VARIABLES
    live,          \* live[f] is the pool callers of f are given, or NoPool
    users          \* users[f] is the set of calls now using the pool of f

spVars == <<live, users>>

SPInit ==
    /\ live = [f \in Fingerprint |-> NoPool]
    /\ users = [f \in Fingerprint |-> {}]

(* A first group of calls gets a pool that was opened for them alone. *)
Open(f, S, p) ==
    /\ live[f] = NoPool
    /\ users[f] = {}
    /\ \A g \in Fingerprint : live[g] # p
    /\ live' = [live EXCEPT ![f] = p]
    /\ users' = [users EXCEPT ![f] = S]

(* Another call shares the pool that is there. *)
Join(f, c) ==
    /\ live[f] # NoPool
    /\ c \notin users[f]
    /\ users' = [users EXCEPT ![f] = @ \cup {c}]
    /\ UNCHANGED live

(* A call ends; any set of pools that nobody uses may be closed with it. *)
Leave(f, c, closed) ==
    /\ c \in users[f]
    /\ users' = [users EXCEPT ![f] = @ \ {c}]
    /\ \A g \in closed : users'[g] = {}
    /\ live' = [g \in Fingerprint |-> IF g \in closed THEN NoPool ELSE live[g]]

(* Everything is closed at once, when nothing is in use. *)
CloseAll ==
    /\ \A f \in Fingerprint : users[f] = {}
    /\ live' = [f \in Fingerprint |-> NoPool]
    /\ UNCHANGED users

SPNext ==
    \/ \E f \in Fingerprint, S \in SUBSET Caller, p \in Pool : Open(f, S, p)
    \/ \E f \in Fingerprint, c \in Caller : Join(f, c)
    \/ \E f \in Fingerprint, c \in Caller, closed \in SUBSET Fingerprint : Leave(f, c, closed)
    \/ CloseAll

SPSpec == SPInit /\ [][SPNext]_spVars

============================================================================
