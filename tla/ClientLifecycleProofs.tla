------------------------ MODULE ClientLifecycleProofs ------------------------
(***************************************************************************)
(* For any number of clients, databases, operations and pools: as long as  *)
(* nothing disturbs them the reference counts of the registry are exactly  *)
(* the clients that hold a pool, and only an invalidation makes the        *)
(* registry lose a pool.                                                   *)
(***************************************************************************)
EXTENDS ClientLifecycle, FiniteSetTheorems, TLAPS

(* Facts about numbers, sets and sequences, without the variables of the   *)
(* model.                                                                  *)

(* Joining two finite sets that share no member adds their numbers. *)
LEMMA DisjointUnion ==
    ASSUME NEW S, NEW T, IsFiniteSet(S), IsFiniteSet(T), S \cap T = {}
    PROVE  Cardinality(S \cup T) = Cardinality(S) + Cardinality(T)
<1>1. Cardinality(S \cup T) = Cardinality(S) + Cardinality(T) - Cardinality(S \cap T)
  BY FS_Union
<1>2. Cardinality(S \cap T) = 0
  BY FS_EmptySet
<1>3. Cardinality(S) \in Nat /\ Cardinality(T) \in Nat
  BY FS_CardinalityType
<1>4. QED
  BY <1>1, <1>2, <1>3

(* A one-to-one correspondence between finite sets equates their numbers. *)
LEMMA Pairing ==
    ASSUME NEW S, NEW T, NEW g \in [S -> T], IsFiniteSet(S),
           \A a, b \in S : g[a] = g[b] => a = b,
           \A t \in T : \E a \in S : g[a] = t
    PROVE  Cardinality(S) = Cardinality(T)
<1>1. g \in Bijection(S, T)
  BY DEF Bijection, Injection, Surjection, IsInjective
<1>2. ExistsBijection(S, T)
  BY <1>1 DEF ExistsBijection
<1>3. QED
  BY <1>2, FS_Bijection

-----------------------------------------------------------------------------

HoldersOf(r) == {k \in Client : Holds(k) /\ PoolOf(k) = r}
Holders == {k \in Client : Holds(k)}

(* The promise a client keeps is of a call for its own database, and no    *)
(* other client keeps it.                                                  *)
PromisesAreOwn ==
    /\ \A k \in Client : handlePromise[k] # NoCall =>
          promise[handlePromise[k]].state # "none" /\ promise[handlePromise[k]].fp = configOf[k]
    /\ \A j, k \in Client : handlePromise[j] = handlePromise[k] /\ handlePromise[k] # NoCall => j = k

(* A pool that is being created is registered for the calls that wait for  *)
(* it, and each of them belongs to a client that is there to take it.      *)
PendingIsExpected ==
    \A c \in Caller : promise[c].state = "pending" =>
        /\ promise[c].rec \in Record
        /\ handle[promise[c].rec] = "creating"
        /\ pools[promise[c].fp] = promise[c].rec
        /\ \E k \in Client : ~destroyed[k] /\ handlePromise[k] = c

HeldIsRegistered ==
    \A k \in Client : Holds(k) =>
        /\ PoolOf(k) \in Record
        /\ handle[PoolOf(k)] = "open"
        /\ pools[configOf[k]] = PoolOf(k)

CountsAreHolders ==
    /\ \A r \in Record : refs[r] = Cardinality(HoldersOf(r))
    /\ totalRefs = Cardinality(Holders)

FreshIsUnknown == \A f \in Fingerprint : pools[f] <= created

(* What holds until the first disturbance. The counts alone are not        *)
(* inductive: the clients of a pool that opens are counted as calls, and   *)
(* destroy() releases by fingerprint.                                      *)
Undisturbed ==
    /\ PromisesAreOwn
    /\ PendingIsExpected
    /\ HeldIsRegistered
    /\ CountsAreHolders
    /\ FreshIsUnknown

LiveIsTracked == \A r \in Record : handle[r] \in {"creating", "open"} => r \in Tracked

(* A ping forgets its promise only after an invalidation. *)
ResetsFollowInvalidations ==
    \A o \in Op : op[o].at = "invalidating" => "invalidation" \in disturbed

IInv ==
    /\ TypeOK
    /\ ResetsFollowInvalidations
    /\ "invalidation" \notin disturbed => LiveIsTracked
    /\ disturbed = {} => Undisturbed

-----------------------------------------------------------------------------

LEMMA NoCallIsNone == NoCall \notin Caller
<1>1. Cardinality(Caller) \in Nat
  BY RegistryAssumption, FS_CardinalityType DEF RegistryAssumption
<1>2. QED
  BY <1>1, ClientAssumption DEF ClientAssumption, NoCall

(* There are finitely many clients, before a step and after it. *)
LEMMA ClientsAreFinite ==
    ASSUME NEW r
    PROVE  /\ IsFiniteSet(HoldersOf(r)) /\ Cardinality(HoldersOf(r)) \in Nat
           /\ IsFiniteSet(Holders) /\ Cardinality(Holders) \in Nat
<1>1. HoldersOf(r) \in SUBSET Client /\ Holders \in SUBSET Client
  BY DEF HoldersOf, Holders
<1>2. IsFiniteSet(HoldersOf(r)) /\ IsFiniteSet(Holders)
  BY <1>1, FS_Subset, ClientAssumption DEF ClientAssumption
<1>3. QED
  BY <1>2, FS_CardinalityType

LEMMA ClientsAreFiniteNext ==
    ASSUME NEW r
    PROVE  /\ IsFiniteSet(HoldersOf(r)') /\ Cardinality(HoldersOf(r)') \in Nat
           /\ IsFiniteSet(Holders') /\ Cardinality(Holders') \in Nat
<1>1. HoldersOf(r)' \in SUBSET Client /\ Holders' \in SUBSET Client
  BY DEF HoldersOf, Holders
<1>2. IsFiniteSet(HoldersOf(r)') /\ IsFiniteSet(Holders')
  BY <1>1, FS_Subset, ClientAssumption DEF ClientAssumption
<1>3. QED
  BY <1>2, FS_CardinalityType

LEMMA InitEstablishes == Init => IInv
<1> SUFFICES ASSUME Init PROVE IInv
  OBVIOUS
<1> USE RegistryAssumption, ClientAssumption
    DEF Init, RegInit, RegistryAssumption, ClientAssumption, Record, NoRecord
<1>1. TypeOK
  <2>1. RegTypeOK
    BY DEF RegTypeOK, HandleState, Promise, NoPromise
  <2>2. QED
    BY <2>1 DEF TypeOK, OpState, NoOp, Disturbance
<1>2. ResetsFollowInvalidations /\ LiveIsTracked
  BY DEF ResetsFollowInvalidations, LiveIsTracked, NoOp
<1>3. PromisesAreOwn /\ PendingIsExpected /\ FreshIsUnknown
  BY DEF PromisesAreOwn, PendingIsExpected, FreshIsUnknown, NoPromise
<1>4. Holders = {} /\ \A r \in Record : HoldersOf(r) = {}
  BY DEF Holders, HoldersOf, Holds
<1>5. CountsAreHolders
  BY <1>4, FS_EmptySet DEF CountsAreHolders
<1>6. HeldIsRegistered
  BY DEF HeldIsRegistered, Holds
<1>7. QED
  BY <1>1, <1>2, <1>3, <1>5, <1>6 DEF IInv, Undisturbed

-----------------------------------------------------------------------------
(* The types of the registry, whoever calls it. *)

LEMMA GetPoolTypes ==
    ASSUME RegTypeOK, NEW c \in Caller, NEW f \in Fingerprint, GetPool(c, f)
    PROVE  RegTypeOK'
<1> USE RegistryAssumption DEF RegistryAssumption, Record, NoRecord
<1>1. CASE GetPoolRefused(c, f)
  <2>1. [state |-> "rejected", fp |-> f, rec |-> NoRecord] \in Promise
    BY DEF Promise
  <2>2. QED
    BY <1>1, <2>1 DEF GetPoolRefused, RegTypeOK
<1>2. CASE GetPoolShared(c, f)
  <2>1. pools[f] \in Record
    BY <1>2 DEF GetPoolShared, RegTypeOK
  <2>2. promise' \in [Caller -> Promise]
    BY <1>2, <2>1 DEF GetPoolShared, RegTypeOK, Promise
  <2>3. refs' \in [Record -> Nat] /\ totalRefs' \in Nat /\ lastUsedAt' \in [Record -> 0 .. MaxTime]
    BY <1>2, <2>1 DEF GetPoolShared, RegTypeOK
  <2>4. QED
    BY <1>2, <2>2, <2>3 DEF GetPoolShared, RegTypeOK
<1>3. CASE GetPoolAwaits(c, f)
  BY <1>3 DEF GetPoolAwaits, RegTypeOK, Promise, HandleState
<1>4. CASE GetPoolCreates(c, f)
  <2>1. created + 1 \in Record /\ created + 1 \in 0 .. MaxRecords
    BY <1>4 DEF GetPoolCreates, RegTypeOK
  <2>2. QED
    BY <1>4, <2>1 DEF GetPoolCreates, RegTypeOK, Promise, HandleState
<1>5. QED
  BY <1>1, <1>2, <1>3, <1>4 DEF GetPool

LEMMA SettleTypes ==
    ASSUME RegTypeOK, NEW r \in Record, CreateResolves(r) \/ CreateRejects(r)
    PROVE  RegTypeOK'
<1> USE RegistryAssumption DEF RegistryAssumption, Record, NoRecord
<1>1. CASE CreateResolves(r)
  <2>1. handle' \in [Record -> HandleState] /\ lastUsedAt' \in [Record -> 0 .. MaxTime]
    BY <1>1 DEF CreateResolves, RegTypeOK, HandleState
  <2>2. refs' \in [Record -> Nat] /\ totalRefs' \in Nat
    <3> DEFINE n == Cardinality(Waiting(r))
    <3>1. n \in Nat
      <4>1. Waiting(r) \subseteq Caller
        BY DEF Waiting
      <4>2. QED
        BY <4>1, FS_Subset, FS_CardinalityType
    <3>2. refs' = [refs EXCEPT ![r] = @ + n] /\ totalRefs' = totalRefs + n
      BY <1>1 DEF CreateResolves
    <3> HIDE DEF n
    <3>3. QED
      BY <3>1, <3>2 DEF RegTypeOK
  <2>3. promise' \in [Caller -> Promise]
    <3>1. \A c \in Caller : [promise[c] EXCEPT !.state = "fulfilled"] \in Promise
      BY DEF RegTypeOK, Promise
    <3>2. QED
      BY <1>1, <3>1 DEF CreateResolves, RegTypeOK
  <2>4. QED
    BY <1>1, <2>1, <2>2, <2>3 DEF CreateResolves, RegTypeOK
<1>2. CASE CreateRejects(r)
  <2>1. promise' \in [Caller -> Promise]
    <3>1. \A c \in Caller : [promise[c] EXCEPT !.state = "rejected"] \in Promise
      BY DEF RegTypeOK, Promise
    <3>2. QED
      BY <1>2, <3>1 DEF CreateRejects, RegTypeOK
  <2>2. QED
    BY <1>2, <2>1 DEF CreateRejects, RegTypeOK, HandleState
<1>3. QED
  BY <1>1, <1>2

(* What release does, without how the collector chooses; the collected     *)
(* pools are open and not referenced.                                      *)
LEMMA ReleaseEffect ==
    ASSUME RegTypeOK, NEW f \in Fingerprint, Release(f)
    PROVE  \E dead \in SUBSET Record :
             /\ \A s \in dead : handle[s] = "open" /\ refs'[s] = 0
             /\ pools' = [g \in Fingerprint |-> IF pools[g] \in dead THEN NoRecord ELSE pools[g]]
             /\ handle' = [s \in Record |-> IF s \in dead THEN "destroyed" ELSE handle[s]]
             /\ pools[f] # NoRecord =>
                  /\ refs' = [refs EXCEPT ![pools[f]] = Monus(@, 1)]
                  /\ totalRefs' = Monus(totalRefs, 1)
             /\ pools[f] = NoRecord => refs' = refs /\ totalRefs' = totalRefs
             /\ lastUsedAt' \in [Record -> 0 .. MaxTime]
             /\ created' = created /\ now' = now
<1> USE DEF NoRecord
<1>1. CASE pools[f] = NoRecord
  <2>1. UNCHANGED <<pools, created, handle, refs, lastUsedAt, totalRefs, now>>
    BY <1>1 DEF Release
  <2>2. PICK dead \in SUBSET Record : dead = {}
    OBVIOUS
  <2>3. /\ pools' = [g \in Fingerprint |-> IF pools[g] \in dead THEN NoRecord ELSE pools[g]]
        /\ handle' = [s \in Record |-> IF s \in dead THEN "destroyed" ELSE handle[s]]
    BY <2>1, <2>2 DEF RegTypeOK
  <2>4. \A s \in dead : handle[s] = "open" /\ refs'[s] = 0
    BY <2>2
  <2>5. lastUsedAt' \in [Record -> 0 .. MaxTime]
    BY <2>1 DEF RegTypeOK
  <2>6. QED
    BY <1>1, <2>1, <2>3, <2>4, <2>5
<1>2. CASE pools[f] # NoRecord
  <2> DEFINE rf == [refs EXCEPT ![pools[f]] = Monus(@, 1)]
             lu == [lastUsedAt EXCEPT ![pools[f]] = now]
             dead == Collected(rf, lu)
  <2>1. /\ refs' = rf /\ lastUsedAt' = lu /\ totalRefs' = Monus(totalRefs, 1)
        /\ pools' = [g \in Fingerprint |-> IF pools[g] \in dead THEN NoRecord ELSE pools[g]]
        /\ handle' = [s \in Record |-> IF s \in dead THEN "destroyed" ELSE handle[s]]
        /\ created' = created /\ now' = now
    BY <1>2 DEF Release
  <2>2. dead \in SUBSET Record /\ \A s \in dead : handle[s] = "open" /\ refs'[s] = 0
    BY <2>1 DEF Collected, IdlePools, Tracked
  <2>3. lu \in [Record -> 0 .. MaxTime]
    BY DEF RegTypeOK
  <2> HIDE DEF dead
  <2>4. QED
    BY <1>2, <2>1, <2>2, <2>3
<1>3. QED
  BY <1>1, <1>2

LEMMA DropTypes ==
    ASSUME RegTypeOK, promise' = promise,
           (\E f \in Fingerprint : Release(f) \/ Invalidate(f)) \/ DestroyAll
    PROVE  RegTypeOK'
<1> USE RegistryAssumption DEF RegistryAssumption, Record, NoRecord
<1>1. ASSUME NEW f \in Fingerprint, Release(f) PROVE RegTypeOK'
  <2>1. PICK dead \in SUBSET Record :
             /\ pools' = [g \in Fingerprint |-> IF pools[g] \in dead THEN NoRecord ELSE pools[g]]
             /\ handle' = [s \in Record |-> IF s \in dead THEN "destroyed" ELSE handle[s]]
             /\ pools[f] # NoRecord =>
                  /\ refs' = [refs EXCEPT ![pools[f]] = Monus(@, 1)]
                  /\ totalRefs' = Monus(totalRefs, 1)
             /\ pools[f] = NoRecord => refs' = refs /\ totalRefs' = totalRefs
             /\ lastUsedAt' \in [Record -> 0 .. MaxTime]
             /\ created' = created /\ now' = now
    BY <1>1, ReleaseEffect
  <2>2. pools' \in [Fingerprint -> Record \cup {NoRecord}] /\ handle' \in [Record -> HandleState]
    BY <2>1 DEF RegTypeOK, HandleState
  <2>3. refs' \in [Record -> Nat] /\ totalRefs' \in Nat
    <3>1. CASE pools[f] = NoRecord
      BY <2>1, <3>1 DEF RegTypeOK
    <3>2. CASE pools[f] # NoRecord
      <4>1. pools[f] \in Record /\ refs[pools[f]] \in Nat /\ totalRefs \in Nat
        BY <3>2 DEF RegTypeOK
      <4>2. Monus(refs[pools[f]], 1) \in Nat /\ Monus(totalRefs, 1) \in Nat
        BY <4>1 DEF Monus
      <4>3. QED
        BY <2>1, <3>2, <4>1, <4>2 DEF RegTypeOK
    <3>3. QED
      BY <3>1, <3>2
  <2>4. QED
    BY <2>1, <2>2, <2>3 DEF RegTypeOK
<1>2. ASSUME NEW f \in Fingerprint, Invalidate(f) PROVE RegTypeOK'
  <2>1. CASE pools[f] = NoRecord
    BY <1>2, <2>1 DEF Invalidate, RegTypeOK
  <2>2. CASE pools[f] # NoRecord
    <3>1. pools[f] \in Record /\ Monus(totalRefs, refs[pools[f]]) \in Nat
      BY <2>2 DEF RegTypeOK, Monus
    <3>2. DestroyHandles({pools[f]}) \in [Record -> HandleState]
      BY DEF DestroyHandles, RegTypeOK, HandleState
    <3>3. QED
      BY <1>2, <2>2, <3>1, <3>2 DEF Invalidate, RegTypeOK
  <2>3. QED
    BY <2>1, <2>2
<1>3. ASSUME DestroyAll PROVE RegTypeOK'
  <2>1. DestroyHandles(Tracked) \in [Record -> HandleState]
    BY DEF DestroyHandles, RegTypeOK, HandleState
  <2>2. QED
    BY <1>3, <2>1 DEF DestroyAll, RegTypeOK
<1>4. QED
  BY <1>1, <1>2, <1>3

-----------------------------------------------------------------------------
(* Without an invalidation a live pool stays in the map. *)

LEMMA StaysTracked ==
    ASSUME RegTypeOK, LiveIsTracked,
           \/ \E c \in Caller, f \in Fingerprint : GetPool(c, f)
           \/ \E r \in Record : CreateResolves(r) \/ CreateRejects(r)
           \/ \E f \in Fingerprint : Release(f)
           \/ Tick
           \/ UNCHANGED regVars
    PROVE  LiveIsTracked'
<1> USE RegistryAssumption DEF RegistryAssumption, Record, NoRecord
<1> SUFFICES ASSUME NEW s \in Record, handle'[s] \in {"creating", "open"}
             PROVE  \E g \in Fingerprint : pools'[g] = s
  BY DEF LiveIsTracked, Tracked
<1>1. \A t \in Record : handle[t] \in {"creating", "open"} => \E g \in Fingerprint : pools[g] = t
  BY DEF LiveIsTracked, Tracked
<1>2. ASSUME NEW c \in Caller, NEW f \in Fingerprint, GetPoolRefused(c, f) \/ GetPoolShared(c, f)
      PROVE  \E g \in Fingerprint : pools'[g] = s
  BY <1>1, <1>2 DEF GetPoolRefused, GetPoolShared
<1>3. ASSUME NEW c \in Caller, NEW f \in Fingerprint, GetPoolAwaits(c, f)
      PROVE  \E g \in Fingerprint : pools'[g] = s
  BY <1>1, <1>3 DEF GetPoolAwaits, RegTypeOK
<1>4. ASSUME NEW c \in Caller, NEW f \in Fingerprint, GetPoolCreates(c, f)
      PROVE  \E g \in Fingerprint : pools'[g] = s
  <2>1. /\ pools[f] = 0 /\ pools'[f] = created + 1
        /\ \A g \in Fingerprint : g # f => pools'[g] = pools[g]
        /\ s # created + 1 => handle'[s] = handle[s]
    BY <1>4 DEF GetPoolCreates, RegTypeOK
  <2>2. CASE s = created + 1
    BY <2>1, <2>2
  <2>3. CASE s # created + 1
    <3>1. PICK g \in Fingerprint : pools[g] = s
      BY <1>1, <2>1, <2>3
    <3>2. g # f
      BY <2>1, <3>1
    <3>3. QED
      BY <2>1, <3>1, <3>2
  <2>4. QED
    BY <2>2, <2>3
<1>5. ASSUME NEW r \in Record, CreateResolves(r) \/ CreateRejects(r)
      PROVE  \E g \in Fingerprint : pools'[g] = s
  <2>1. pools' = pools /\ handle[r] = "creating" /\ (s # r => handle'[s] = handle[s])
    BY <1>5 DEF CreateResolves, CreateRejects, RegTypeOK
  <2>2. QED
    BY <1>1, <2>1
<1>6. ASSUME NEW f \in Fingerprint, Release(f)
      PROVE  \E g \in Fingerprint : pools'[g] = s
  <2>1. PICK dead \in SUBSET Record :
             /\ pools' = [g \in Fingerprint |-> IF pools[g] \in dead THEN NoRecord ELSE pools[g]]
             /\ handle' = [t \in Record |-> IF t \in dead THEN "destroyed" ELSE handle[t]]
    BY <1>6, ReleaseEffect
  <2>2. s \notin dead /\ handle[s] \in {"creating", "open"}
    BY <2>1
  <2>3. PICK g \in Fingerprint : pools[g] = s
    BY <1>1, <2>2
  <2>4. pools'[g] = s
    BY <2>1, <2>2, <2>3
  <2>5. QED
    BY <2>4
<1>7. ASSUME Tick \/ UNCHANGED regVars
      PROVE  \E g \in Fingerprint : pools'[g] = s
  BY <1>1, <1>7 DEF Tick, regVars
<1>8. QED
  BY <1>2, <1>3, <1>4, <1>5, <1>6, <1>7 DEF GetPool

-----------------------------------------------------------------------------
(* An operation that asks for a pool. *)

(* The client gets the promise of a new call; nobody else notices. *)
LEMMA AskingIsPrivate ==
    ASSUME TypeOK, PromisesAreOwn, NEW k \in Client, NEW c \in Caller,
           handlePromise[k] = NoCall, ~destroyed[k], promise[c].state = "none",
           handlePromise' = [handlePromise EXCEPT ![k] = c], destroyed' = destroyed,
           \A d \in Caller : d # c => promise'[d] = promise[d],
           promise'[c].state # "none", promise'[c].fp = configOf[k]
    PROVE  /\ PromisesAreOwn'
           /\ ~Holds(k) /\ (Holds(k)' <=> promise'[c].state = "fulfilled")
           /\ PoolOf(k)' = promise'[c].rec
           /\ \A j \in Client : j # k =>
                 /\ Holds(j)' <=> Holds(j)
                 /\ Holds(j) => PoolOf(j)' = PoolOf(j)
<1>1. /\ handlePromise'[k] = c
      /\ \A j \in Client : j # k => handlePromise'[j] = handlePromise[j]
  BY DEF TypeOK
<1>2. \A j \in Client : handlePromise[j] # NoCall =>
        handlePromise[j] \in Caller /\ handlePromise[j] # c
  BY DEF TypeOK, PromisesAreOwn
<1>3. \A j \in Client : j # k /\ handlePromise[j] # NoCall =>
        promise'[handlePromise'[j]] = promise[handlePromise[j]]
  BY <1>1, <1>2
<1>4. c # NoCall
  BY NoCallIsNone
<1>5. PromisesAreOwn'
  <2>1. ASSUME NEW j \in Client, handlePromise'[j] # NoCall
        PROVE  promise'[handlePromise'[j]].state # "none" /\ promise'[handlePromise'[j]].fp = configOf[j]
    <3>1. CASE j = k
      BY <1>1, <3>1
    <3>2. CASE j # k
      BY <1>1, <1>3, <2>1, <3>2 DEF PromisesAreOwn
    <3>3. QED
      BY <3>1, <3>2
  <2>2. ASSUME NEW i \in Client, NEW j \in Client,
               handlePromise'[i] = handlePromise'[j], handlePromise'[j] # NoCall
        PROVE  i = j
    BY <1>1, <1>2, <1>4, <2>2 DEF PromisesAreOwn
  <2>3. QED
    BY <2>1, <2>2 DEF PromisesAreOwn
<1>6. ~Holds(k) /\ (Holds(k)' <=> promise'[c].state = "fulfilled") /\ PoolOf(k)' = promise'[c].rec
  BY <1>1, <1>4 DEF Holds, PoolOf
<1>7. ASSUME NEW j \in Client, j # k
      PROVE  (Holds(j)' <=> Holds(j)) /\ (Holds(j) => PoolOf(j)' = PoolOf(j))
  <2>1. CASE handlePromise[j] = NoCall
    BY <1>1, <1>7, <2>1 DEF Holds
  <2>2. CASE handlePromise[j] # NoCall
    BY <1>1, <1>3, <1>7, <2>2 DEF Holds, PoolOf
  <2>3. QED
    BY <2>1, <2>2
<1>8. QED
  BY <1>5, <1>6, <1>7

(* While no client gains or loses a pool, the counts need not change. *)
LEMMA SameHolders ==
    ASSUME CountsAreHolders, refs' = refs, totalRefs' = totalRefs,
           \A j \in Client : Holds(j)' <=> Holds(j),
           \A j \in Client : Holds(j) => PoolOf(j)' = PoolOf(j)
    PROVE  CountsAreHolders'
<1>1. Holders' = Holders /\ \A r \in Record : HoldersOf(r)' = HoldersOf(r)
  BY DEF Holders, HoldersOf
<1>2. QED
  BY <1>1 DEF CountsAreHolders

LEMMA AskingKeepsOrder ==
    ASSUME TypeOK, Undisturbed, NEW k \in Client, NEW c \in Caller,
           handlePromise[k] = NoCall, ~destroyed[k], promise[c].state = "none",
           GetPool(c, configOf[k]),
           handlePromise' = [handlePromise EXCEPT ![k] = c], destroyed' = destroyed
    PROVE  Undisturbed'
<1> USE RegistryAssumption, ClientAssumption
    DEF RegistryAssumption, ClientAssumption, Record, NoRecord, Undisturbed
<1> DEFINE f == configOf[k]
<1>1. f \in Fingerprint
  OBVIOUS
<1>2. /\ RegTypeOK /\ c \in Caller
      /\ handlePromise'[k] = c
      /\ \A j \in Client : j # k => handlePromise'[j] = handlePromise[j]
  BY DEF TypeOK
<1>3. /\ \A d \in Caller : d # c => promise'[d] = promise[d]
      /\ promise'[c].state \in {"pending", "fulfilled", "rejected"}
      /\ promise'[c].fp = f
  BY <1>2 DEF GetPool, GetPoolRefused, GetPoolShared, GetPoolAwaits, GetPoolCreates, RegTypeOK
<1> HIDE DEF f
<1>4. /\ PromisesAreOwn'
      /\ ~Holds(k) /\ (Holds(k)' <=> promise'[c].state = "fulfilled")
      /\ PoolOf(k)' = promise'[c].rec
      /\ \A j \in Client : j # k =>
            /\ Holds(j)' <=> Holds(j)
            /\ Holds(j) => PoolOf(j)' = PoolOf(j)
  BY <1>3, AskingIsPrivate DEF f
<1>5. \A d \in Caller : promise[d].state = "pending" =>
        /\ d # c /\ promise'[d] = promise[d]
        /\ \E j \in Client : ~destroyed'[j] /\ handlePromise'[j] = d
  <2> SUFFICES ASSUME NEW d \in Caller, promise[d].state = "pending"
               PROVE  /\ d # c /\ promise'[d] = promise[d]
                      /\ \E j \in Client : ~destroyed'[j] /\ handlePromise'[j] = d
    OBVIOUS
  <2>1. d # c /\ promise'[d] = promise[d]
    BY <1>3
  <2>2. PICK j \in Client : ~destroyed[j] /\ handlePromise[j] = d
    BY DEF PendingIsExpected
  <2>3. j # k
    BY <2>2, NoCallIsNone
  <2>4. QED
    BY <1>2, <2>1, <2>2, <2>3
<1>6. \E j \in Client : ~destroyed'[j] /\ handlePromise'[j] = c
  BY <1>2
<1>7. CASE GetPoolRefused(c, f)
  <2>1. promise'[c].state = "rejected"
    BY <1>2, <1>7 DEF GetPoolRefused, RegTypeOK
  <2>2. PendingIsExpected'
    BY <1>3, <1>5, <1>7, <2>1 DEF PendingIsExpected, GetPoolRefused
  <2>3. HeldIsRegistered'
    BY <1>4, <1>7, <2>1 DEF HeldIsRegistered, GetPoolRefused
  <2>4. CountsAreHolders'
    BY <1>4, <1>7, <2>1, SameHolders DEF GetPoolRefused
  <2>5. FreshIsUnknown'
    BY <1>7 DEF FreshIsUnknown, GetPoolRefused
  <2>6. QED
    BY <1>4, <2>2, <2>3, <2>4, <2>5
<1>8. CASE GetPoolShared(c, f)
  <2>0. PICK r \in Record : r = pools[f]
    BY <1>1, <1>2, <1>8 DEF GetPoolShared, RegTypeOK
  <2>1. /\ r = pools[f] /\ handle[r] = "open"
        /\ promise'[c].state = "fulfilled" /\ promise'[c].rec = r
    BY <1>1, <1>2, <1>8, <2>0 DEF GetPoolShared, RegTypeOK
  <2>2. PendingIsExpected'
    BY <1>3, <1>5, <1>8, <2>1 DEF PendingIsExpected, GetPoolShared
  <2>3. HeldIsRegistered'
    BY <1>4, <1>8, <2>1 DEF HeldIsRegistered, GetPoolShared, f
  <2>4. CountsAreHolders'
    <3>1. /\ Holders' = Holders \cup {k} /\ k \notin Holders
          /\ HoldersOf(r)' = HoldersOf(r) \cup {k} /\ k \notin HoldersOf(r)
          /\ \A s \in Record : s # r => HoldersOf(s)' = HoldersOf(s)
      BY <1>4, <2>1 DEF Holders, HoldersOf
    <3>2. Cardinality(Holders') = Cardinality(Holders) + 1
      BY <3>1, ClientsAreFinite, FS_AddElement
    <3>3. Cardinality(HoldersOf(r)') = Cardinality(HoldersOf(r)) + 1
      BY <3>1, ClientsAreFinite, FS_AddElement
    <3>4. /\ totalRefs' = totalRefs + 1 /\ refs'[r] = refs[r] + 1
          /\ \A s \in Record : s # r => refs'[s] = refs[s]
      BY <1>2, <1>8, <2>1 DEF GetPoolShared, RegTypeOK
    <3>5. totalRefs' = Cardinality(Holders')
      BY <3>2, <3>4 DEF CountsAreHolders
    <3>6. refs'[r] = Cardinality(HoldersOf(r)')
      BY <2>1, <3>3, <3>4 DEF CountsAreHolders
    <3>7. \A s \in Record : s # r => refs'[s] = Cardinality(HoldersOf(s)')
      BY <3>1, <3>4 DEF CountsAreHolders
    <3>8. QED
      BY <3>5, <3>6, <3>7 DEF CountsAreHolders
  <2>5. FreshIsUnknown'
    BY <1>8 DEF FreshIsUnknown, GetPoolShared
  <2>6. QED
    BY <1>4, <2>2, <2>3, <2>4, <2>5
<1>9. CASE GetPoolAwaits(c, f)
  <2> DEFINE r == pools[f]
  <2>1. /\ r \in Record /\ handle[r] \in {"absent", "creating"} /\ handle'[r] = "creating"
        /\ \A s \in Record : s # r => handle'[s] = handle[s]
        /\ promise'[c].state = "pending" /\ promise'[c].rec = r
        /\ pools' = pools
    BY <1>1, <1>2, <1>9 DEF GetPoolAwaits, RegTypeOK
  <2>2. PendingIsExpected'
    BY <1>3, <1>5, <1>6, <2>1 DEF PendingIsExpected
  <2>3. HeldIsRegistered'
    BY <1>4, <2>1 DEF HeldIsRegistered
  <2>4. CountsAreHolders'
    BY <1>4, <1>9, <2>1, SameHolders DEF GetPoolAwaits
  <2>5. FreshIsUnknown'
    BY <1>9 DEF FreshIsUnknown, GetPoolAwaits
  <2>6. QED
    BY <1>4, <2>2, <2>3, <2>4, <2>5
<1>10. CASE GetPoolCreates(c, f)
  <2> DEFINE n == created + 1
  <2>1. /\ n \in Record /\ created \in Nat /\ n > created /\ pools[f] = 0 /\ created' = n
        /\ pools'[f] = n /\ \A g \in Fingerprint : g # f => pools'[g] = pools[g]
        /\ handle'[n] = "creating" /\ \A s \in Record : s # n => handle'[s] = handle[s]
        /\ promise'[c].state = "pending" /\ promise'[c].rec = n
    BY <1>1, <1>2, <1>10 DEF GetPoolCreates, RegTypeOK
  <2>2. \A g \in Fingerprint : pools[g] \in Int /\ pools[g] <= created /\ pools[g] # n
    BY <1>2, <2>1 DEF FreshIsUnknown, RegTypeOK
  <2> HIDE DEF n
  <2>3. PendingIsExpected'
    <3> SUFFICES ASSUME NEW d \in Caller, promise'[d].state = "pending"
                 PROVE  /\ promise'[d].rec \in Record
                        /\ handle'[promise'[d].rec] = "creating"
                        /\ pools'[promise'[d].fp] = promise'[d].rec
                        /\ \E j \in Client : ~destroyed'[j] /\ handlePromise'[j] = d
      BY DEF PendingIsExpected
    <3>1. CASE d = c
      BY <1>3, <1>6, <2>1, <3>1
    <3>2. CASE d # c
      <4>1. promise'[d] = promise[d] /\ \E j \in Client : ~destroyed'[j] /\ handlePromise'[j] = d
        BY <1>3, <1>5, <3>2
      <4>2. /\ promise[d].rec \in Record /\ handle[promise[d].rec] = "creating"
            /\ pools[promise[d].fp] = promise[d].rec
        BY <4>1 DEF PendingIsExpected
      <4>3. PICK i \in Client : handlePromise[i] = d
        BY <4>1 DEF PendingIsExpected
      <4>4. promise[d].fp \in Fingerprint
        BY <4>3, NoCallIsNone DEF PromisesAreOwn
      <4>5. promise[d].rec # n /\ promise[d].fp # f
        BY <2>1, <2>2, <4>2, <4>4
      <4>6. QED
        BY <2>1, <4>1, <4>2, <4>4, <4>5
    <3>3. QED
      BY <3>1, <3>2
  <2>4. HeldIsRegistered'
    <3> SUFFICES ASSUME NEW j \in Client, Holds(j)'
                 PROVE  /\ PoolOf(j)' \in Record /\ handle'[PoolOf(j)'] = "open"
                        /\ pools'[configOf[j]] = PoolOf(j)'
      BY DEF HeldIsRegistered
    <3>1. Holds(j) /\ PoolOf(j)' = PoolOf(j)
      BY <1>4, <2>1
    <3>2. /\ PoolOf(j) \in Record /\ handle[PoolOf(j)] = "open" /\ pools[configOf[j]] = PoolOf(j)
      BY <3>1 DEF HeldIsRegistered
    <3>3. configOf[j] \in Fingerprint /\ configOf[j] # f /\ PoolOf(j) # n
      BY <2>1, <2>2, <3>2
    <3>4. QED
      BY <2>1, <3>1, <3>2, <3>3
  <2>5. CountsAreHolders'
    BY <1>4, <1>10, <2>1, SameHolders DEF GetPoolCreates
  <2>6. FreshIsUnknown'
    <3> SUFFICES ASSUME NEW g \in Fingerprint PROVE pools'[g] <= created'
      BY DEF FreshIsUnknown
    <3>1. CASE g = f
      BY <2>1, <3>1 DEF n
    <3>2. CASE g # f
      BY <2>1, <2>2, <3>2 DEF n
    <3>3. QED
      BY <3>1, <3>2
  <2>7. QED
    BY <1>4, <2>3, <2>4, <2>5, <2>6
<1>11. QED
  BY <1>7, <1>8, <1>9, <1>10 DEF GetPool, f

-----------------------------------------------------------------------------
(* The end of a creation. *)

LEMMA ResolvingKeepsOrder ==
    ASSUME TypeOK, Undisturbed, NEW r \in Record, CreateResolves(r),
           handlePromise' = handlePromise, destroyed' = destroyed
    PROVE  Undisturbed'
<1> USE RegistryAssumption, ClientAssumption
    DEF RegistryAssumption, ClientAssumption, Record, NoRecord, Undisturbed
<1>1. /\ handle[r] = "creating" /\ handle'[r] = "open"
      /\ \A s \in Record : s # r => handle'[s] = handle[s]
      /\ pools' = pools /\ created' = created
  BY DEF CreateResolves, TypeOK, RegTypeOK
<1>2. \A c \in Caller :
        /\ promise'[c].rec = promise[c].rec
        /\ promise'[c].fp = promise[c].fp
        /\ promise'[c].state = IF c \in Waiting(r) THEN "fulfilled" ELSE promise[c].state
  BY DEF CreateResolves, TypeOK, RegTypeOK, Promise
<1>3. \A j \in Client : handlePromise[j] # NoCall => handlePromise[j] \in Caller
  BY DEF TypeOK
<1>4. PromisesAreOwn'
  <2>1. ASSUME NEW j \in Client, handlePromise[j] # NoCall
        PROVE  promise'[handlePromise[j]].state # "none" /\ promise'[handlePromise[j]].fp = configOf[j]
    BY <1>2, <1>3, <2>1 DEF PromisesAreOwn
  <2>2. QED
    BY <2>1 DEF PromisesAreOwn
<1>5. PendingIsExpected'
  <2> SUFFICES ASSUME NEW c \in Caller, promise'[c].state = "pending"
               PROVE  /\ promise'[c].rec \in Record
                      /\ handle'[promise'[c].rec] = "creating"
                      /\ pools'[promise'[c].fp] = promise'[c].rec
                      /\ \E j \in Client : ~destroyed'[j] /\ handlePromise'[j] = c
    BY DEF PendingIsExpected
  <2>1. c \notin Waiting(r) /\ promise[c].state = "pending"
    BY <1>2
  <2>2. promise[c].rec # r
    BY <2>1 DEF Waiting
  <2>3. QED
    BY <1>1, <1>2, <2>1, <2>2 DEF PendingIsExpected
<1> DEFINE New == {k \in Client : ~destroyed[k] /\ handlePromise[k] \in Waiting(r)}
<1>6. ASSUME NEW k \in Client
      PROVE  /\ Holds(k)' <=> Holds(k) \/ k \in New
             /\ Holds(k) => k \notin New /\ PoolOf(k) # r
             /\ k \in New => PoolOf(k)' = r
             /\ Holds(k) => PoolOf(k)' = PoolOf(k)
  <2>1. CASE handlePromise[k] = NoCall
    BY <2>1, NoCallIsNone DEF Holds, Waiting
  <2>2. CASE handlePromise[k] # NoCall
    <3>1. PICK c \in Caller : c = handlePromise[k]
      BY <1>3, <2>2
    <3>2. Holds(k)' <=> ~destroyed[k] /\ promise'[c].state = "fulfilled"
      BY <2>2, <3>1 DEF Holds
    <3>3. Holds(k) <=> ~destroyed[k] /\ promise[c].state = "fulfilled"
      BY <2>2, <3>1 DEF Holds
    <3>4. PoolOf(k)' = promise'[c].rec /\ PoolOf(k) = promise[c].rec
      BY <3>1 DEF PoolOf
    <3>5. k \in New <=> ~destroyed[k] /\ c \in Waiting(r)
      BY <3>1
    <3>6. c \in Waiting(r) => promise[c].state = "pending" /\ promise[c].rec = r
      BY DEF Waiting
    <3>7. Holds(k) => PoolOf(k) # r
      BY <1>1 DEF HeldIsRegistered
    <3>8. QED
      BY <1>2, <3>2, <3>3, <3>4, <3>5, <3>6, <3>7
  <2>3. QED
    BY <2>1, <2>2
<1>7. HeldIsRegistered'
  <2> SUFFICES ASSUME NEW k \in Client, Holds(k)'
               PROVE  /\ PoolOf(k)' \in Record
                      /\ handle'[PoolOf(k)'] = "open"
                      /\ pools'[configOf[k]] = PoolOf(k)'
    BY DEF HeldIsRegistered
  <2>1. CASE Holds(k)
    <3>1. /\ PoolOf(k) \in Record /\ handle[PoolOf(k)] = "open" /\ pools[configOf[k]] = PoolOf(k)
      BY <2>1 DEF HeldIsRegistered
    <3>2. QED
      BY <1>1, <1>6, <2>1, <3>1
  <2>2. CASE ~Holds(k)
    <3>1. k \in New /\ PoolOf(k)' = r
      BY <1>6, <2>2
    <3>2. PICK c \in Waiting(r) : c = handlePromise[k]
      BY <3>1
    <3>3. c \in Caller /\ promise[c].state = "pending" /\ promise[c].rec = r
      BY DEF Waiting
    <3>4. promise[c].fp = configOf[k]
      BY <3>2, <3>3, NoCallIsNone DEF PromisesAreOwn
    <3>5. pools[promise[c].fp] = r
      BY <3>3 DEF PendingIsExpected
    <3>6. QED
      BY <1>1, <3>1, <3>4, <3>5
  <2>3. QED
    BY <2>1, <2>2
<1>8. Cardinality(New) = Cardinality(Waiting(r)) /\ IsFiniteSet(New) /\ Cardinality(New) \in Nat
  <2> DEFINE g == [k \in New |-> handlePromise[k]]
  <2>1. IsFiniteSet(New) /\ Cardinality(New) \in Nat
    BY FS_Subset, FS_CardinalityType
  <2>2. g \in [New -> Waiting(r)]
    OBVIOUS
  <2>3. \A a, b \in New : g[a] = g[b] => a = b
    <3> SUFFICES ASSUME NEW a \in New, NEW b \in New, handlePromise[a] = handlePromise[b]
                 PROVE  a = b
      OBVIOUS
    <3>1. handlePromise[b] \in Caller
      BY DEF Waiting
    <3>2. QED
      BY <3>1, NoCallIsNone DEF PromisesAreOwn
  <2>4. \A c \in Waiting(r) : \E a \in New : g[a] = c
    <3> SUFFICES ASSUME NEW c \in Waiting(r) PROVE \E a \in New : handlePromise[a] = c
      OBVIOUS
    <3>1. c \in Caller /\ promise[c].state = "pending"
      BY DEF Waiting
    <3>2. PICK a \in Client : ~destroyed[a] /\ handlePromise[a] = c
      BY <3>1 DEF PendingIsExpected
    <3>3. QED
      BY <3>2
  <2> HIDE DEF g, New
  <2>5. Cardinality(New) = Cardinality(Waiting(r))
    BY <2>1, <2>2, <2>3, <2>4, Pairing
  <2>6. QED
    BY <2>1, <2>5
<1>9. CountsAreHolders'
  <2>1. /\ refs'[r] = refs[r] + Cardinality(New) /\ totalRefs' = totalRefs + Cardinality(New)
        /\ \A s \in Record : s # r => refs'[s] = refs[s]
    <3>1. PICK n \in Nat : n = Cardinality(Waiting(r)) /\ n = Cardinality(New)
      BY <1>8
    <3>2. refs' = [refs EXCEPT ![r] = @ + n] /\ totalRefs' = totalRefs + n
      BY <3>1 DEF CreateResolves
    <3>3. QED
      BY <3>1, <3>2 DEF TypeOK, RegTypeOK
  <2>2. PICK new : new = New
    OBVIOUS
  <2> HIDE DEF New
  <2>3. \A k \in new : k \in Client
    BY <2>2 DEF New
  <2>4. /\ Holders' = Holders \cup new /\ Holders \cap new = {}
        /\ HoldersOf(r)' = new /\ HoldersOf(r) = {}
        /\ \A s \in Record : s # r => HoldersOf(s)' = HoldersOf(s)
    <3>1. Holders' = Holders \cup new /\ Holders \cap new = {}
      BY <1>6, <2>2, <2>3 DEF Holders
    <3>2. HoldersOf(r)' = new /\ HoldersOf(r) = {}
      BY <1>6, <2>2, <2>3 DEF HoldersOf
    <3>3. ASSUME NEW s \in Record, s # r PROVE HoldersOf(s)' = HoldersOf(s)
      BY <1>6, <2>2, <2>3, <3>3 DEF HoldersOf
    <3>4. QED
      BY <3>1, <3>2, <3>3
  <2>5. totalRefs' = Cardinality(Holders')
    <3>1. Cardinality(Holders \cup new) = Cardinality(Holders) + Cardinality(new)
      BY <1>8, <2>2, <2>4, ClientsAreFinite, DisjointUnion
    <3>2. QED
      BY <2>1, <2>2, <2>4, <3>1 DEF CountsAreHolders
  <2>6. refs'[r] = Cardinality(HoldersOf(r)')
    <3>1. refs[r] = 0
      BY <2>4, FS_EmptySet DEF CountsAreHolders
    <3>2. QED
      BY <1>8, <2>1, <2>2, <2>4, <3>1
  <2>7. \A s \in Record : s # r => refs'[s] = Cardinality(HoldersOf(s)')
    BY <2>1, <2>4 DEF CountsAreHolders
  <2>8. QED
    BY <2>5, <2>6, <2>7 DEF CountsAreHolders
<1>10. FreshIsUnknown'
  BY <1>1 DEF FreshIsUnknown
<1>11. QED
  BY <1>4, <1>5, <1>7, <1>9, <1>10

LEMMA RejectingKeepsOrder ==
    ASSUME TypeOK, Undisturbed, NEW r \in Record, CreateRejects(r),
           handlePromise' = handlePromise, destroyed' = destroyed
    PROVE  Undisturbed'
<1> USE RegistryAssumption, ClientAssumption
    DEF RegistryAssumption, ClientAssumption, Record, NoRecord, Undisturbed
<1>1. /\ handle[r] = "creating"
      /\ \A s \in Record : s # r => handle'[s] = handle[s]
      /\ pools' = pools /\ created' = created /\ refs' = refs /\ totalRefs' = totalRefs
  BY DEF CreateRejects, TypeOK, RegTypeOK
<1>2. \A c \in Caller :
        /\ promise'[c].rec = promise[c].rec
        /\ promise'[c].fp = promise[c].fp
        /\ promise'[c].state = IF c \in Waiting(r) THEN "rejected" ELSE promise[c].state
  BY DEF CreateRejects, TypeOK, RegTypeOK, Promise
<1>3. \A j \in Client : handlePromise[j] # NoCall => handlePromise[j] \in Caller
  BY DEF TypeOK
<1>4. PromisesAreOwn'
  <2>1. ASSUME NEW j \in Client, handlePromise[j] # NoCall
        PROVE  promise'[handlePromise[j]].state # "none" /\ promise'[handlePromise[j]].fp = configOf[j]
    BY <1>2, <1>3, <2>1 DEF PromisesAreOwn
  <2>2. QED
    BY <2>1 DEF PromisesAreOwn
<1>5. PendingIsExpected'
  <2> SUFFICES ASSUME NEW c \in Caller, promise'[c].state = "pending"
               PROVE  /\ promise'[c].rec \in Record
                      /\ handle'[promise'[c].rec] = "creating"
                      /\ pools'[promise'[c].fp] = promise'[c].rec
                      /\ \E j \in Client : ~destroyed'[j] /\ handlePromise'[j] = c
    BY DEF PendingIsExpected
  <2>1. c \notin Waiting(r) /\ promise[c].state = "pending"
    BY <1>2
  <2>2. promise[c].rec # r
    BY <2>1 DEF Waiting
  <2>3. QED
    BY <1>1, <1>2, <2>1, <2>2 DEF PendingIsExpected
<1>6. ASSUME NEW k \in Client
      PROVE  (Holds(k)' <=> Holds(k)) /\ (Holds(k) => PoolOf(k)' = PoolOf(k))
  <2>1. CASE handlePromise[k] = NoCall
    BY <2>1 DEF Holds
  <2>2. CASE handlePromise[k] # NoCall
    BY <1>2, <1>3, <2>2 DEF Holds, PoolOf, Waiting
  <2>3. QED
    BY <2>1, <2>2
<1>7. HeldIsRegistered'
  <2> SUFFICES ASSUME NEW k \in Client, Holds(k)'
               PROVE  /\ PoolOf(k)' \in Record
                      /\ handle'[PoolOf(k)'] = "open"
                      /\ pools'[configOf[k]] = PoolOf(k)'
    BY DEF HeldIsRegistered
  <2>1. /\ PoolOf(k) \in Record /\ handle[PoolOf(k)] = "open" /\ pools[configOf[k]] = PoolOf(k)
    BY <1>6 DEF HeldIsRegistered
  <2>2. QED
    BY <1>1, <1>6, <2>1
<1>8. CountsAreHolders'
  BY <1>1, <1>6, SameHolders
<1>9. FreshIsUnknown'
  BY <1>1 DEF FreshIsUnknown
<1>10. QED
  BY <1>4, <1>5, <1>7, <1>8, <1>9

-----------------------------------------------------------------------------
(* A client that has its pool is destroyed. *)

LEMMA DestroyingKeepsOrder ==
    ASSUME TypeOK, Undisturbed, NEW k \in Client, Holds(k), Release(configOf[k]),
           destroyed' = [destroyed EXCEPT ![k] = TRUE],
           promise' = promise, handlePromise' = handlePromise
    PROVE  Undisturbed'
<1> USE RegistryAssumption, ClientAssumption
    DEF RegistryAssumption, ClientAssumption, Record, NoRecord, Undisturbed
<1>1. PICK f \in Fingerprint, r \in Record :
        f = configOf[k] /\ r = PoolOf(k) /\ pools[f] = r
  BY DEF HeldIsRegistered
<1>2. PICK dead \in SUBSET Record :
        /\ \A s \in dead : handle[s] = "open" /\ refs'[s] = 0
        /\ pools' = [g \in Fingerprint |-> IF pools[g] \in dead THEN NoRecord ELSE pools[g]]
        /\ handle' = [s \in Record |-> IF s \in dead THEN "destroyed" ELSE handle[s]]
        /\ refs' = [refs EXCEPT ![r] = Monus(@, 1)]
        /\ totalRefs' = Monus(totalRefs, 1)
        /\ created' = created
  <2>1. RegTypeOK /\ pools[f] # NoRecord
    BY <1>1 DEF TypeOK
  <2>2. Release(f)
    BY <1>1
  <2>3. QED
    BY <1>1, <2>1, <2>2, ReleaseEffect
<1>3. ASSUME NEW j \in Client
      PROVE  /\ Holds(j)' <=> Holds(j) /\ j # k
             /\ PoolOf(j)' = PoolOf(j)
             /\ destroyed'[j] <=> destroyed[j] \/ j = k
  BY DEF Holds, PoolOf, TypeOK
<1>4. CountsAreHolders'
  <2>1. /\ refs'[r] = Monus(refs[r], 1)
        /\ \A s \in Record : s # r => refs'[s] = refs[s]
    BY <1>2 DEF TypeOK, RegTypeOK
  <2>2. Holders' = Holders \ {k} /\ k \in Holders
    BY <1>3 DEF Holders
  <2>3. HoldersOf(r)' = HoldersOf(r) \ {k} /\ k \in HoldersOf(r)
    BY <1>1, <1>3 DEF HoldersOf
  <2>4. \A s \in Record : s # r => HoldersOf(s)' = HoldersOf(s)
    BY <1>1, <1>3 DEF HoldersOf
  <2>5. totalRefs' = Cardinality(Holders')
    <3>1. Cardinality(Holders') = Cardinality(Holders) - 1
      BY <2>2, ClientsAreFinite, FS_RemoveElement
    <3>2. Cardinality(Holders) \in Nat /\ Cardinality(Holders') \in Nat
      BY ClientsAreFinite, ClientsAreFiniteNext
    <3>3. QED
      BY <1>2, <3>1, <3>2 DEF Monus, CountsAreHolders
  <2>6. refs'[r] = Cardinality(HoldersOf(r)')
    <3>1. Cardinality(HoldersOf(r)') = Cardinality(HoldersOf(r)) - 1
      BY <2>3, ClientsAreFinite, FS_RemoveElement
    <3>2. Cardinality(HoldersOf(r)) \in Nat /\ Cardinality(HoldersOf(r)') \in Nat
      BY ClientsAreFinite, ClientsAreFiniteNext
    <3>3. refs[r] = Cardinality(HoldersOf(r))
      BY DEF CountsAreHolders
    <3>4. QED
      BY <2>1, <3>1, <3>2, <3>3 DEF Monus
  <2>7. \A s \in Record : s # r => refs'[s] = Cardinality(HoldersOf(s)')
    BY <2>1, <2>4 DEF CountsAreHolders
  <2>8. QED
    BY <2>5, <2>6, <2>7 DEF CountsAreHolders
<1>5. \A s \in dead : HoldersOf(s)' = {}
  <2> SUFFICES ASSUME NEW s \in dead PROVE HoldersOf(s)' = {}
    OBVIOUS
  <2>1. Cardinality(HoldersOf(s)') = 0
    BY <1>2, <1>4 DEF CountsAreHolders
  <2>2. QED
    BY <2>1, ClientsAreFiniteNext, FS_EmptySet
<1>6. HeldIsRegistered'
  <2> SUFFICES ASSUME NEW j \in Client, Holds(j)'
               PROVE  /\ PoolOf(j)' \in Record
                      /\ handle'[PoolOf(j)'] = "open"
                      /\ pools'[configOf[j]] = PoolOf(j)'
    BY DEF HeldIsRegistered
  <2>1. Holds(j) /\ PoolOf(j)' = PoolOf(j)
    BY <1>3
  <2>2. PICK s \in Record : PoolOf(j) = s /\ handle[s] = "open" /\ pools[configOf[j]] = s
    BY <2>1 DEF HeldIsRegistered
  <2>3. s \notin dead
    <3>1. j \in HoldersOf(s)'
      BY <2>1, <2>2 DEF HoldersOf
    <3>2. QED
      BY <1>5, <3>1
  <2>4. QED
    BY <1>2, <2>1, <2>2, <2>3
<1>7. PromisesAreOwn'
  BY DEF PromisesAreOwn
<1>8. PendingIsExpected'
  <2> SUFFICES ASSUME NEW c \in Caller, promise[c].state = "pending"
               PROVE  /\ promise[c].rec \in Record
                      /\ handle'[promise[c].rec] = "creating"
                      /\ pools'[promise[c].fp] = promise[c].rec
                      /\ \E j \in Client : ~destroyed'[j] /\ handlePromise[j] = c
    BY DEF PendingIsExpected
  <2>1. PICK s \in Record :
          promise[c].rec = s /\ handle[s] = "creating" /\ pools[promise[c].fp] = s
    BY DEF PendingIsExpected
  <2>2. PICK j \in Client : ~destroyed[j] /\ handlePromise[j] = c
    BY DEF PendingIsExpected
  <2>3. promise[c].fp \in Fingerprint
    BY <2>2, NoCallIsNone DEF PromisesAreOwn
  <2>4. s \notin dead
    BY <1>2, <2>1
  <2>5. j # k
    BY <2>2 DEF Holds
  <2>6. QED
    BY <1>2, <1>3, <2>1, <2>2, <2>3, <2>4, <2>5
<1>9. FreshIsUnknown'
  <2>1. created \in Nat /\ \A g \in Fingerprint : pools[g] <= created
    BY DEF FreshIsUnknown, TypeOK, RegTypeOK
  <2>2. \A g \in Fingerprint : pools'[g] \in {pools[g], 0}
    BY <1>2
  <2>3. QED
    BY <1>2, <2>1, <2>2 DEF FreshIsUnknown
<1>10. QED
  BY <1>4, <1>6, <1>7, <1>8, <1>9

-----------------------------------------------------------------------------
(* The steps. *)

(* What happens to operations only is not seen by the rest. *)
LEMMA NothingMoves ==
    ASSUME UNCHANGED <<pools, created, handle, refs, totalRefs, promise>>,
           handlePromise' = handlePromise, destroyed' = destroyed
    PROVE  /\ Undisturbed => Undisturbed'
           /\ LiveIsTracked => LiveIsTracked'
<1>1. \A k \in Client : (Holds(k)' <=> Holds(k)) /\ PoolOf(k)' = PoolOf(k)
  BY DEF Holds, PoolOf
<1>2. LiveIsTracked => LiveIsTracked'
  BY DEF LiveIsTracked, Tracked
<1>3. PromisesAreOwn => PromisesAreOwn'
  BY DEF PromisesAreOwn
<1>4. PendingIsExpected => PendingIsExpected'
  BY DEF PendingIsExpected
<1>5. HeldIsRegistered => HeldIsRegistered'
  BY <1>1 DEF HeldIsRegistered
<1>6. CountsAreHolders => CountsAreHolders'
  BY <1>1, SameHolders
<1>7. FreshIsUnknown => FreshIsUnknown'
  BY DEF FreshIsUnknown
<1>8. QED
  BY <1>2, <1>3, <1>4, <1>5, <1>6, <1>7 DEF Undisturbed

LEMMA BeginPreserves ==
    ASSUME IInv, NEW o \in Op, NEW k \in Client, NEW kind \in {"use", "ping"}, Begin(o, k, kind)
    PROVE  IInv'
<1> USE DEF IInv
<1>1. disturbed' = disturbed /\ destroyed' = destroyed /\ ~destroyed[k]
  BY DEF Begin
<1>2. CASE /\ handlePromise[k] # NoCall
           /\ op' = [op EXCEPT ![o] = [at |-> "await", kind |-> kind, client |-> k,
                                       call |-> handlePromise[k]]]
           /\ UNCHANGED <<regVars, handlePromise>>
  <2>1. [at |-> "await", kind |-> kind, client |-> k, call |-> handlePromise[k]] \in OpState
    BY <1>2 DEF OpState, TypeOK
  <2>2. TypeOK'
    BY <1>1, <1>2, <2>1 DEF TypeOK, RegTypeOK, regVars
  <2>3. ResetsFollowInvalidations'
    BY <1>1, <1>2 DEF ResetsFollowInvalidations, TypeOK
  <2>4. (Undisturbed => Undisturbed') /\ (LiveIsTracked => LiveIsTracked')
    BY <1>1, <1>2, NothingMoves DEF regVars
  <2>5. QED
    BY <1>1, <2>2, <2>3, <2>4
<1>3. ASSUME handlePromise[k] = NoCall, NEW c \in Caller,
             promise[c].state = "none", GetPool(c, configOf[k]),
             handlePromise' = [handlePromise EXCEPT ![k] = c],
             op' = [op EXCEPT ![o] = [at |-> "await", kind |-> kind, client |-> k, call |-> c]]
      PROVE  IInv'
  <2>1. configOf[k] \in Fingerprint
    BY ClientAssumption DEF ClientAssumption
  <2>2. RegTypeOK /\ RegTypeOK'
    BY <1>3, <2>1, GetPoolTypes DEF TypeOK
  <2>3. TypeOK'
    <3>1. [at |-> "await", kind |-> kind, client |-> k, call |-> c] \in OpState
      BY DEF OpState
    <3>2. QED
      BY <1>1, <1>3, <2>2, <3>1 DEF TypeOK
  <2>4. ResetsFollowInvalidations'
    BY <1>1, <1>3 DEF ResetsFollowInvalidations, TypeOK
  <2>5. LiveIsTracked => LiveIsTracked'
    BY <1>3, <2>1, <2>2, StaysTracked
  <2>6. Undisturbed => Undisturbed'
    BY <1>1, <1>3, AskingKeepsOrder
  <2>7. QED
    BY <1>1, <2>3, <2>4, <2>5, <2>6
<1>4. QED
  BY <1>2, <1>3 DEF Begin, NextCall

(* The handle arrives, the driver is done, a ping that failed resets. *)
LEMMA OperationPreserves ==
    ASSUME IInv, NEW o \in Op, Resume(o) \/ Complete(o) \/ PingResets(o)
    PROVE  IInv'
<1> USE DEF IInv
<1>1. disturbed' = disturbed /\ UNCHANGED <<regVars, destroyed>>
  BY DEF Resume, Complete, PingResets
<1>2. /\ op' \in [Op -> OpState]
      /\ \A p \in Op : op'[p].at = "invalidating" => op[p].at = "invalidating"
  <2>1. CASE Resume(o) /\ op' = [op EXCEPT ![o].at = "exec"]
    <3>1. op[o].at = "await" /\ op[o] \in OpState
      BY <2>1 DEF Resume, TypeOK
    <3>2. [op[o] EXCEPT !.at = "exec"] \in OpState
      BY <3>1 DEF OpState, NoOp
    <3>3. op' = [op EXCEPT ![o] = [op[o] EXCEPT !.at = "exec"]]
      BY <2>1
    <3>4. [op[o] EXCEPT !.at = "exec"].at = "exec"
      BY <3>1 DEF OpState, NoOp
    <3>5. QED
      BY <3>2, <3>3, <3>4 DEF TypeOK
  <2>2. CASE op' = [op EXCEPT ![o] = NoOp]
    <3>1. NoOp \in OpState /\ NoOp.at = "idle"
      BY DEF OpState, NoOp
    <3>2. QED
      BY <2>2, <3>1 DEF TypeOK
  <2>3. QED
    BY <2>1, <2>2 DEF Resume, Complete, PingResets
<1>3. ResetsFollowInvalidations'
  BY <1>1, <1>2 DEF ResetsFollowInvalidations
<1>4. CASE handlePromise' = handlePromise
  <2>1. TypeOK'
    BY <1>1, <1>2, <1>4 DEF TypeOK, RegTypeOK, regVars
  <2>2. (Undisturbed => Undisturbed') /\ (LiveIsTracked => LiveIsTracked')
    BY <1>1, <1>4, NothingMoves DEF regVars
  <2>3. QED
    BY <1>1, <1>3, <2>1, <2>2
<1>5. CASE PingResets(o)
  <2>1. "invalidation" \in disturbed
    BY <1>5 DEF PingResets, ResetsFollowInvalidations
  <2>2. handlePromise' \in [Client -> Caller \cup {NoCall}]
    BY <1>5 DEF PingResets, TypeOK
  <2>3. TypeOK'
    BY <1>1, <1>2, <2>2 DEF TypeOK, RegTypeOK, regVars
  <2>4. QED
    BY <1>1, <1>3, <2>1, <2>3
<1>6. QED
  BY <1>4, <1>5 DEF Resume, Complete

(* A ping that fails, or the manager, invalidates. *)
LEMMA InvalidationPreserves ==
    ASSUME IInv,
           (\E o \in Op : PingFails(o)) \/ (\E f \in Fingerprint : ManagerInvalidate(f)) \/ ManagerDestroyAll
    PROVE  IInv'
<1> USE DEF IInv
<1>1. disturbed' = disturbed \cup {"invalidation"} /\ UNCHANGED <<promise, handlePromise, destroyed>>
  BY DEF PingFails, ManagerInvalidate, ManagerDestroyAll
<1>2. op' \in [Op -> OpState]
  <2>1. ASSUME NEW o \in Op, PingFails(o) PROVE op' \in [Op -> OpState]
    <3>1. op[o].at = "exec" /\ op[o] \in OpState
      BY <2>1 DEF PingFails, TypeOK
    <3>2. [op[o] EXCEPT !.at = "invalidating"] \in OpState
      BY <3>1 DEF OpState, NoOp
    <3>3. op' = [op EXCEPT ![o] = [op[o] EXCEPT !.at = "invalidating"]]
      BY <2>1 DEF PingFails
    <3>4. QED
      BY <3>2, <3>3 DEF TypeOK
  <2>2. QED
    BY <2>1 DEF ManagerInvalidate, ManagerDestroyAll, TypeOK
<1>3. RegTypeOK'
  <2>1. ASSUME NEW o \in Op, PingFails(o)
        PROVE  \E f \in Fingerprint : Invalidate(f)
    <3>1. op[o].at = "exec" /\ op[o] \in OpState
      BY <2>1 DEF PingFails, TypeOK
    <3>2. op[o].client \in Client
      BY <3>1 DEF OpState, NoOp
    <3>3. configOf[op[o].client] \in Fingerprint
      BY <3>2, ClientAssumption DEF ClientAssumption
    <3>4. QED
      BY <2>1, <3>3 DEF PingFails
  <2>2. (\E f \in Fingerprint : Invalidate(f)) \/ DestroyAll
    BY <2>1 DEF ManagerInvalidate, ManagerDestroyAll
  <2>3. QED
    BY <1>1, <2>2, DropTypes DEF TypeOK
<1>4. TypeOK'
  BY <1>1, <1>2, <1>3 DEF TypeOK, Disturbance
<1>5. ResetsFollowInvalidations' /\ "invalidation" \in disturbed'
  BY <1>1 DEF ResetsFollowInvalidations
<1>6. QED
  BY <1>4, <1>5

LEMMA DestroyPreserves ==
    ASSUME IInv, NEW k \in Client, Destroy(k)
    PROVE  IInv'
<1> USE DEF IInv
<1>1. /\ destroyed' = [destroyed EXCEPT ![k] = TRUE]
      /\ Release(configOf[k]) /\ UNCHANGED <<promise, handlePromise, op>>
      /\ disturbed' = IF Holds(k) THEN disturbed ELSE disturbed \cup {"foreignRelease"}
  BY DEF Destroy
<1>2. configOf[k] \in Fingerprint
  BY ClientAssumption DEF ClientAssumption
<1>3. RegTypeOK'
  BY <1>1, <1>2, DropTypes DEF TypeOK
<1>4. TypeOK'
  BY <1>1, <1>3 DEF TypeOK, Disturbance
<1>5. ResetsFollowInvalidations'
  BY <1>1 DEF ResetsFollowInvalidations
<1>6. LiveIsTracked => LiveIsTracked'
  BY <1>1, <1>2, StaysTracked DEF TypeOK
<1>7. "invalidation" \notin disturbed' => "invalidation" \notin disturbed
  BY <1>1
<1>8. disturbed' = {} => disturbed = {} /\ Undisturbed'
  <2> SUFFICES ASSUME disturbed' = {} PROVE disturbed = {} /\ Undisturbed'
    OBVIOUS
  <2>1. Holds(k) /\ disturbed = {}
    BY <1>1
  <2>2. QED
    BY <1>1, <2>1, DestroyingKeepsOrder
<1>9. QED
  BY <1>4, <1>5, <1>6, <1>7, <1>8

LEMMA EnvironmentPreserves ==
    ASSUME IInv, Environment \/ UNCHANGED regVars, UNCHANGED clientVars
    PROVE  IInv'
<1> USE DEF IInv
<1>1. UNCHANGED <<handlePromise, destroyed, op, disturbed>>
  BY DEF clientVars
<1>2. RegTypeOK /\ RegTypeOK'
  <2>1. RegTypeOK
    BY DEF TypeOK
  <2>2. ASSUME NEW r \in Record, CreateResolves(r) \/ CreateRejects(r) PROVE RegTypeOK'
    BY <2>1, <2>2, SettleTypes
  <2>3. ASSUME Tick PROVE RegTypeOK'
    BY <2>1, <2>3, RegistryAssumption DEF Tick, RegTypeOK, RegistryAssumption
  <2>4. ASSUME UNCHANGED regVars PROVE RegTypeOK'
    BY <2>1, <2>4 DEF regVars, RegTypeOK
  <2>5. QED
    BY <2>1, <2>2, <2>3, <2>4 DEF Environment
<1>3. TypeOK' /\ ResetsFollowInvalidations'
  BY <1>1, <1>2 DEF TypeOK, ResetsFollowInvalidations
<1>4. LiveIsTracked => LiveIsTracked'
  BY <1>2, StaysTracked DEF Environment
<1>5. Undisturbed => Undisturbed'
  <2>1. ASSUME Undisturbed, NEW r \in Record, CreateResolves(r) \/ CreateRejects(r) PROVE Undisturbed'
    BY <1>1, <2>1, ResolvingKeepsOrder, RejectingKeepsOrder
  <2>2. ASSUME Undisturbed, Tick \/ UNCHANGED regVars PROVE Undisturbed'
    BY <1>1, <2>2, NothingMoves DEF Tick, regVars
  <2>3. QED
    BY <2>1, <2>2 DEF Environment
<1>6. QED
  BY <1>1, <1>3, <1>4, <1>5

(* Every step preserves the inductive invariant. *)
LEMMA NextPreserves == IInv /\ [Next]_vars => IInv'
<1> SUFFICES ASSUME IInv, [Next]_vars PROVE IInv'
  OBVIOUS
<1>1. ASSUME NEW o \in Op, NEW k \in Client, NEW kind \in {"use", "ping"}, Begin(o, k, kind)
      PROVE  IInv'
  BY <1>1, BeginPreserves
<1>2. ASSUME NEW o \in Op, Resume(o) \/ Complete(o) \/ PingResets(o) PROVE IInv'
  BY <1>2, OperationPreserves
<1>3. ASSUME (\E o \in Op : PingFails(o)) \/ (\E f \in Fingerprint : ManagerInvalidate(f)) \/ ManagerDestroyAll
      PROVE  IInv'
  BY <1>3, InvalidationPreserves
<1>4. ASSUME NEW k \in Client, Destroy(k) PROVE IInv'
  BY <1>4, DestroyPreserves
<1>5. ASSUME (Environment /\ UNCHANGED clientVars) \/ UNCHANGED vars PROVE IInv'
  BY <1>5, EnvironmentPreserves DEF vars
<1>6. QED
  BY <1>1, <1>2, <1>3, <1>4, <1>5 DEF Next

(* The inductive invariant holds throughout. *)
THEOREM Inductive == Spec => []IInv
<1>1. QED
  BY InitEstablishes, NextPreserves, PTL DEF Spec

(* Type correctness of the clients and of the registry under them: the     *)
(* counts stay natural numbers even after releases by clients that hold no *)
(* reference and after invalidations.                                      *)
THEOREM ClientsAreTyped == Spec => []TypeOK
<1>1. IInv => TypeOK
  BY DEF IInv
<1>2. QED
  BY <1>1, Inductive, PTL

(* Until a pool is invalidated or a client is destroyed without its pool,  *)
(* each record counts exactly the clients that hold it, the registry all   *)
(* of them, and each client finds its pool open and registered.            *)
THEOREM ClientsAreCounted == Spec => []UndisturbedClientsAreCounted
<1>1. IInv => UndisturbedClientsAreCounted
  BY DEF IInv, Undisturbed, CountsAreHolders, HeldIsRegistered, Holders, HoldersOf,
         UndisturbedClientsAreCounted
<1>2. QED
  BY <1>1, Inductive, PTL

(* Whatever else the clients do, the registry loses an open pool only when *)
(* somebody invalidates.                                                   *)
THEOREM PoolsAreLostToInvalidation == Spec => []OnlyInvalidationLosesPools
<1>1. IInv => OnlyInvalidationLosesPools
  BY DEF IInv, LiveIsTracked, OnlyInvalidationLosesPools
<1>2. QED
  BY <1>1, Inductive, PTL

=============================================================================
