-------------------------- MODULE EngineCallsProofs --------------------------
(***************************************************************************)
(* For any number of calls, databases and pools: the registry's reference  *)
(* counts are exact under engine calls, no pool is closed under a call and *)
(* none is lost, and the registry implements SharedPools.                  *)
(***************************************************************************)
EXTENDS EngineCalls, FiniteSetTheorems, WellFoundedInduction, TLAPS

(* Facts about numbers, sets and sequences, without the variables of the   *)
(* model.                                                                  *)

(* A set of natural numbers that has a member has a least one: induction   *)
(* in the form of a statement about sets.                                  *)
LEMMA LeastMember ==
    ASSUME NEW T, T \subseteq Nat, T # {}
    PROVE  \E n \in T : \A m \in T : n <= m
<1> DEFINE R == OpToRel(<, Nat)
<1>1. IsWellFoundedOn(R, Nat)
  BY NatLessThanWellFounded
<1>2. \A m, n \in Nat : m < n => <<m, n>> \in R
  BY DEF OpToRel
<1> HIDE DEF R
<1>3. PICK n \in T : \A m \in T : ~(<<m, n>> \in R)
  BY <1>1, WFMin
<1>4. ASSUME NEW m \in T PROVE n <= m
  <2>1. m \in Nat /\ n \in Nat
    OBVIOUS
  <2>2. ~(m < n)
    BY <2>1, <1>2, <1>3
  <2>3. QED
    BY <2>1, <2>2
<1>5. QED
  BY <1>4

(* Joining two finite sets that share no member adds their numbers. *)
LEMMA DisjointUnion ==
    ASSUME NEW S, NEW T, IsFiniteSet(S), IsFiniteSet(T), S \cap T = {}
    PROVE  Cardinality(S \cup T) = Cardinality(S) + Cardinality(T)
<1>1. Cardinality(S \cup T) = Cardinality(S) + Cardinality(T) - Cardinality(S \cap T)
  BY FS_Union
<1>2. Cardinality(S \cap T) = 0
  BY FS_EmptySet
<1>3. Cardinality(S) \in Nat /\ Cardinality(T) \in Nat
  BY FS_CardinalityType
<1>4. QED
  BY <1>1, <1>2, <1>3

-----------------------------------------------------------------------------

(* Two databases never share a record. *)
RecordsAreDistinct ==
    \A f, g \in Fingerprint : pools[f] = pools[g] /\ pools[f] # NoRecord => f = g

(* What was not created yet is not referred to. *)
FreshIsUntouched ==
    /\ \A f \in Fingerprint : pools[f] <= created
    /\ \A c \in Caller : promise[c].rec <= created
    /\ \A r \in Record : r > created => handle[r] = "absent"

(* A call that awaits or has a pool refers to the registered one. *)
CallsAreOnTracked ==
    \A c \in Caller : promise[c].state \in {"pending", "fulfilled"} =>
        /\ promise[c].fp \in Fingerprint
        /\ promise[c].rec \in Record
        /\ pools[promise[c].fp] = promise[c].rec
        /\ handle[promise[c].rec] = IF promise[c].state = "pending" THEN "creating" ELSE "open"

LiveIsTracked ==
    \A r \in Record : handle[r] \in {"creating", "open"} => \E f \in Fingerprint : pools[f] = r

(* A creation was started by a call that still awaits it. *)
CreatingIsAwaited ==
    \A r \in Record : handle[r] = "creating" =>
        \E c \in Caller : promise[c].state = "pending" /\ promise[c].rec = r

(* The inductive invariant: exact counts alone are not inductive, because  *)
(* release finds its record by fingerprint. It must be known that a call's *)
(* fingerprint still leads to the record the call took its reference from. *)
IInv ==
    /\ RegTypeOK
    /\ RecordsAreDistinct
    /\ FreshIsUntouched
    /\ CallsAreOnTracked
    /\ LiveIsTracked
    /\ CreatingIsAwaited
    /\ RefsAreHolders


-----------------------------------------------------------------------------
(* Counting the calls of a record. *)

(* The sets of calls are finite, because the callers are. *)
LEMMA CallsAreFinite ==
    ASSUME NEW r
    PROVE  /\ IsFiniteSet(Holding(r)) /\ Cardinality(Holding(r)) \in Nat
           /\ IsFiniteSet(Waiting(r)) /\ Cardinality(Waiting(r)) \in Nat
           /\ IsFiniteSet(Working) /\ Cardinality(Working) \in Nat
<1>1. /\ Holding(r) \in SUBSET Caller
      /\ Waiting(r) \in SUBSET Caller
      /\ Working \in SUBSET Caller
  BY DEF Holding, Waiting, Working
<1>2. IsFiniteSet(Holding(r)) /\ IsFiniteSet(Waiting(r)) /\ IsFiniteSet(Working)
  BY <1>1, FS_Subset, RegistryAssumption DEF RegistryAssumption
<1>3. QED
  BY <1>2, FS_CardinalityType

(* The same after a step. *)
LEMMA CallsAreFiniteNext ==
    ASSUME NEW r
    PROVE  /\ IsFiniteSet(Holding(r)') /\ Cardinality(Holding(r)') \in Nat
           /\ IsFiniteSet(Working') /\ Cardinality(Working') \in Nat
<1>1. /\ Holding(r)' \in SUBSET Caller
      /\ Working' \in SUBSET Caller
  BY DEF Holding, Working
<1>2. IsFiniteSet(Holding(r)') /\ IsFiniteSet(Working')
  BY <1>1, FS_Subset, RegistryAssumption DEF RegistryAssumption
<1>3. QED
  BY <1>2, FS_CardinalityType

-----------------------------------------------------------------------------

LEMMA InitEstablishes == Init => IInv
<1> SUFFICES ASSUME Init PROVE IInv
  OBVIOUS
<1> USE RegistryAssumption DEF Init, RegInit, RegistryAssumption, Record, NoRecord
<1>1. RegTypeOK
  BY DEF RegTypeOK, HandleState, Promise, NoPromise
<1>2. RecordsAreDistinct /\ FreshIsUntouched /\ CallsAreOnTracked
      /\ LiveIsTracked /\ CreatingIsAwaited
  BY DEF RecordsAreDistinct, FreshIsUntouched, CallsAreOnTracked, LiveIsTracked, CreatingIsAwaited, NoPromise
<1>3. RefsAreHolders
  <2>1. Working = {} /\ \A r \in Record : Holding(r) = {}
    BY DEF Working, Holding, NoPromise
  <2>2. QED
    BY <2>1, FS_EmptySet DEF RefsAreHolders
<1>4. QED
  BY <1>1, <1>2, <1>3 DEF IInv

(* A call that getPool refuses at the limit. *)
LEMMA RefusedPreserves ==
    ASSUME IInv, NEW c \in Caller, NEW f \in Fingerprint,
           promise[c].state = "none", GetPoolRefused(c, f)
    PROVE  IInv'
<1> USE RegistryAssumption DEF RegistryAssumption, Record, NoRecord, IInv, GetPoolRefused
<1>1. RegTypeOK'
  <2>1. [state |-> "rejected", fp |-> f, rec |-> NoRecord] \in Promise
    BY DEF Promise
  <2>2. QED
    BY <2>1 DEF RegTypeOK
<1>2. /\ promise'[c].state = "rejected" /\ promise'[c].rec = 0
      /\ \A d \in Caller : d # c => promise'[d] = promise[d]
  BY DEF RegTypeOK
<1>3. RecordsAreDistinct' /\ FreshIsUntouched' /\ LiveIsTracked' /\ CreatingIsAwaited'
  BY <1>2 DEF RecordsAreDistinct, FreshIsUntouched, LiveIsTracked, CreatingIsAwaited, RegTypeOK
<1>4. CallsAreOnTracked'
  BY <1>2 DEF CallsAreOnTracked
<1>5. RefsAreHolders'
  <2>1. Working' = Working /\ \A r \in Record : Holding(r)' = Holding(r)
    BY <1>2 DEF Working, Holding
  <2>2. QED
    BY <2>1 DEF RefsAreHolders
<1>6. QED
  BY <1>1, <1>3, <1>4, <1>5

(* A call that shares an open pool. *)
LEMMA SharedPreserves ==
    ASSUME IInv, NEW c \in Caller, NEW f \in Fingerprint,
           promise[c].state = "none", GetPoolShared(c, f)
    PROVE  IInv'
<1> USE RegistryAssumption DEF RegistryAssumption, Record, NoRecord, IInv, GetPoolShared
<1>1. RegTypeOK'
  <2>1. pools[f] \in Record
    BY DEF RegTypeOK
  <2>2. promise' \in [Caller -> Promise]
    BY <2>1 DEF RegTypeOK, Promise
  <2>3. refs' \in [Record -> Nat] /\ totalRefs' \in Nat /\ lastUsedAt' \in [Record -> 0 .. MaxTime]
    BY <2>1 DEF RegTypeOK
  <2>4. QED
    BY <2>2, <2>3 DEF RegTypeOK
<1>2. /\ promise'[c] = [state |-> "fulfilled", fp |-> f, rec |-> pools[f]]
      /\ \A d \in Caller : d # c => promise'[d] = promise[d]
      /\ pools[f] \in Record
  BY DEF RegTypeOK
<1>3. RecordsAreDistinct' /\ FreshIsUntouched' /\ LiveIsTracked' /\ CreatingIsAwaited'
  <2>1. RecordsAreDistinct' /\ LiveIsTracked'
    BY DEF RecordsAreDistinct, LiveIsTracked
  <2>2. FreshIsUntouched'
    BY <1>2 DEF FreshIsUntouched
  <2>3. CreatingIsAwaited'
    BY <1>2 DEF CreatingIsAwaited
  <2>4. QED
    BY <2>1, <2>2, <2>3
<1>4. CallsAreOnTracked'
  BY <1>2 DEF CallsAreOnTracked
<1>5. RefsAreHolders'
  <2>1. Working' = Working \cup {c} /\ c \notin Working
    BY <1>2 DEF Working
  <2>2. Holding(pools[f])' = Holding(pools[f]) \cup {c} /\ c \notin Holding(pools[f])
    BY <1>2 DEF Holding
  <2>3. \A r \in Record : r # pools[f] => Holding(r)' = Holding(r)
    BY <1>2 DEF Holding
  <2>4. totalRefs' = Cardinality(Working')
    BY <2>1, CallsAreFinite, FS_AddElement DEF RefsAreHolders
  <2>5. refs'[pools[f]] = Cardinality(Holding(pools[f])')
    <3>1. refs'[pools[f]] = refs[pools[f]] + 1
      BY <1>2 DEF RegTypeOK
    <3>2. refs[pools[f]] = Cardinality(Holding(pools[f]))
      BY <1>2 DEF RefsAreHolders
    <3>3. Cardinality(Holding(pools[f])') = Cardinality(Holding(pools[f])) + 1
      BY <2>2, CallsAreFinite, FS_AddElement
    <3>4. QED
      BY <3>1, <3>2, <3>3
  <2>6. \A r \in Record : r # pools[f] => refs'[r] = Cardinality(Holding(r)')
    BY <2>3 DEF RefsAreHolders, RegTypeOK
  <2>7. QED
    BY <2>4, <2>5, <2>6 DEF RefsAreHolders
<1>6. QED
  BY <1>1, <1>3, <1>4, <1>5


(* A call that awaits the pool another call, or a new one, is creating. *)
LEMMA AwaitsPreserves ==
    ASSUME IInv, NEW c \in Caller, NEW f \in Fingerprint,
           promise[c].state = "none", GetPoolAwaits(c, f)
    PROVE  IInv'
<1> USE RegistryAssumption DEF RegistryAssumption, Record, NoRecord, IInv, GetPoolAwaits
<1>1. RegTypeOK'
  BY DEF RegTypeOK, Promise, HandleState
<1>2. /\ promise'[c] = [state |-> "pending", fp |-> f, rec |-> pools[f]]
      /\ \A d \in Caller : d # c => promise'[d] = promise[d]
      /\ pools[f] \in Record
      /\ handle'[pools[f]] = "creating"
      /\ \A r \in Record : r # pools[f] => handle'[r] = handle[r]
  BY DEF RegTypeOK
<1>3. RecordsAreDistinct' /\ FreshIsUntouched' /\ LiveIsTracked' /\ CreatingIsAwaited'
  BY <1>2 DEF RecordsAreDistinct, FreshIsUntouched, LiveIsTracked, CreatingIsAwaited, RegTypeOK
<1>4. CallsAreOnTracked'
  BY <1>2 DEF CallsAreOnTracked
<1>5. RefsAreHolders'
  <2>1. Working' = Working /\ \A r \in Record : Holding(r)' = Holding(r)
    BY <1>2 DEF Working, Holding
  <2>2. QED
    BY <2>1 DEF RefsAreHolders
<1>6. QED
  BY <1>1, <1>3, <1>4, <1>5

(* A call that adds the record of its database. *)
LEMMA CreatesPreserves ==
    ASSUME IInv, NEW c \in Caller, NEW f \in Fingerprint,
           promise[c].state = "none", GetPoolCreates(c, f)
    PROVE  IInv'
<1> USE RegistryAssumption DEF RegistryAssumption, Record, NoRecord, IInv, GetPoolCreates
<1> DEFINE n == created + 1
<1>1. n \in Record /\ n > created /\ created \in Nat
  BY DEF RegTypeOK
<1>2. RegTypeOK'
  BY <1>1 DEF RegTypeOK, Promise, HandleState
<1>3. /\ promise'[c] = [state |-> "pending", fp |-> f, rec |-> n]
      /\ \A d \in Caller : d # c => promise'[d] = promise[d]
      /\ pools'[f] = n
      /\ \A g \in Fingerprint : g # f => pools'[g] = pools[g]
      /\ handle'[n] = "creating"
      /\ \A r \in Record : r # n => handle'[r] = handle[r]
  BY <1>1 DEF RegTypeOK
<1>4. \A g \in Fingerprint : pools[g] # n
  BY <1>1 DEF FreshIsUntouched, RegTypeOK
<1>5. RecordsAreDistinct'
  BY <1>3, <1>4 DEF RecordsAreDistinct
<1>6. FreshIsUntouched'
  <2>1. created' = n
    OBVIOUS
  <2>2. \A g \in Fingerprint : pools'[g] <= n
    BY <1>1, <1>3 DEF FreshIsUntouched, RegTypeOK
  <2>3. \A d \in Caller : promise'[d].rec <= n
    <3> SUFFICES ASSUME NEW d \in Caller PROVE promise'[d].rec <= n
      OBVIOUS
    <3>1. CASE d = c
      BY <3>1, <1>1, <1>3
    <3>2. CASE d # c
      <4>1. promise'[d].rec = promise[d].rec
        BY <3>2, <1>3
      <4>2. promise[d].rec \in 0 .. MaxRecords
        BY DEF RegTypeOK, Promise
      <4>3. promise[d].rec <= created
        BY DEF FreshIsUntouched
      <4>4. QED
        BY <4>1, <4>2, <4>3, <1>1
    <3>3. QED
      BY <3>1, <3>2
  <2>4. \A r \in Record : r > n => handle'[r] = "absent"
    BY <1>1, <1>3 DEF FreshIsUntouched
  <2>5. QED
    BY <2>1, <2>2, <2>3, <2>4 DEF FreshIsUntouched
<1>7. LiveIsTracked' /\ CreatingIsAwaited'
  BY <1>3 DEF LiveIsTracked, CreatingIsAwaited, RegTypeOK
<1>8. CallsAreOnTracked'
  <2> SUFFICES ASSUME NEW d \in Caller, promise'[d].state \in {"pending", "fulfilled"}
               PROVE  /\ promise'[d].fp \in Fingerprint
                      /\ promise'[d].rec \in Record
                      /\ pools'[promise'[d].fp] = promise'[d].rec
                      /\ handle'[promise'[d].rec] =
                           IF promise'[d].state = "pending" THEN "creating" ELSE "open"
    BY DEF CallsAreOnTracked
  <2>1. CASE d = c
    BY <2>1, <1>1, <1>3
  <2>2. CASE d # c
    <3>1. promise'[d] = promise[d]
      BY <2>2, <1>3
    <3>2. /\ promise[d].fp \in Fingerprint
          /\ promise[d].rec \in Record
          /\ pools[promise[d].fp] = promise[d].rec
          /\ handle[promise[d].rec] = IF promise[d].state = "pending" THEN "creating" ELSE "open"
      BY <3>1 DEF CallsAreOnTracked
    <3>3. promise[d].rec # n /\ promise[d].fp # f
      BY <3>2, <1>4
    <3>4. QED
      BY <3>1, <3>2, <3>3, <1>3
  <2>3. QED
    BY <2>1, <2>2
<1>9. RefsAreHolders'
  <2>1. Working' = Working /\ \A r \in Record : Holding(r)' = Holding(r)
    BY <1>3 DEF Working, Holding
  <2>2. QED
    BY <2>1 DEF RefsAreHolders
<1>10. QED
  BY <1>2, <1>5, <1>6, <1>7, <1>8, <1>9

(* The driver delivers a pool to all the calls that await it. *)
LEMMA ResolvesPreserves ==
    ASSUME IInv, NEW r \in Record, CreateResolves(r)
    PROVE  IInv'
<1> USE RegistryAssumption DEF RegistryAssumption, Record, NoRecord, IInv, CreateResolves
<1>1. Cardinality(Waiting(r)) \in Nat /\ IsFiniteSet(Waiting(r))
  BY CallsAreFinite
<1>2. RegTypeOK'
  <2>1. handle' \in [Record -> HandleState] /\ lastUsedAt' \in [Record -> 0 .. MaxTime]
    BY DEF RegTypeOK, HandleState
  <2>2. refs' \in [Record -> Nat] /\ totalRefs' \in Nat
    <3> DEFINE n == Cardinality(Waiting(r))
    <3>1. n \in Nat
      BY <1>1
    <3>2. refs' = [refs EXCEPT ![r] = @ + n] /\ totalRefs' = totalRefs + n
      OBVIOUS
    <3> HIDE DEF n
    <3>3. QED
      BY <3>1, <3>2 DEF RegTypeOK
  <2>3. promise' \in [Caller -> Promise]
    <3>1. \A c \in Caller : [promise[c] EXCEPT !.state = "fulfilled"] \in Promise
      BY DEF RegTypeOK, Promise
    <3>2. QED
      BY <3>1 DEF RegTypeOK
  <2>4. QED
    BY <2>1, <2>2, <2>3 DEF RegTypeOK
<1>3. /\ \A c \in Waiting(r) : promise'[c] = [promise[c] EXCEPT !.state = "fulfilled"]
      /\ \A c \in Caller \ Waiting(r) : promise'[c] = promise[c]
      /\ handle'[r] = "open"
      /\ \A s \in Record : s # r => handle'[s] = handle[s]
  BY DEF RegTypeOK, Waiting
<1>4. \A c \in Caller :
        /\ promise'[c].rec = promise[c].rec
        /\ promise'[c].fp = promise[c].fp
        /\ promise'[c].state = IF c \in Waiting(r) THEN "fulfilled" ELSE promise[c].state
  BY <1>3 DEF RegTypeOK, Promise
<1>5. RecordsAreDistinct' /\ LiveIsTracked' /\ CreatingIsAwaited'
  <2>1. RecordsAreDistinct' /\ LiveIsTracked'
    BY <1>3 DEF RecordsAreDistinct, LiveIsTracked, RegTypeOK
  <2>2. CreatingIsAwaited'
    <3> SUFFICES ASSUME NEW s \in Record, handle'[s] = "creating"
                 PROVE  \E c \in Caller : promise'[c].state = "pending" /\ promise'[c].rec = s
      BY DEF CreatingIsAwaited
    <3>1. s # r /\ handle[s] = "creating"
      BY <1>3
    <3>2. PICK c \in Caller : promise[c].state = "pending" /\ promise[c].rec = s
      BY <3>1 DEF CreatingIsAwaited
    <3>3. QED
      BY <3>1, <3>2, <1>4 DEF Waiting
  <2>3. QED
    BY <2>1, <2>2
<1>6. FreshIsUntouched'
  BY <1>3, <1>4 DEF FreshIsUntouched, RegTypeOK
<1>7. CallsAreOnTracked'
  <2> SUFFICES ASSUME NEW c \in Caller, promise'[c].state \in {"pending", "fulfilled"}
               PROVE  /\ promise'[c].fp \in Fingerprint
                      /\ promise'[c].rec \in Record
                      /\ pools'[promise'[c].fp] = promise'[c].rec
                      /\ handle'[promise'[c].rec] =
                           IF promise'[c].state = "pending" THEN "creating" ELSE "open"
    BY DEF CallsAreOnTracked
  <2>1. CASE c \in Waiting(r)
    BY <2>1, <1>3, <1>4 DEF Waiting, CallsAreOnTracked
  <2>2. CASE c \notin Waiting(r)
    <3>1. promise[c].state \in {"pending", "fulfilled"} /\ promise'[c] = promise[c]
      BY <2>2, <1>3, <1>4
    <3>2. promise[c].rec # r
      BY <2>2, <3>1 DEF Waiting, CallsAreOnTracked
    <3>3. /\ promise[c].fp \in Fingerprint
          /\ promise[c].rec \in Record
          /\ pools[promise[c].fp] = promise[c].rec
          /\ handle[promise[c].rec] = IF promise[c].state = "pending" THEN "creating" ELSE "open"
      BY <3>1 DEF CallsAreOnTracked
    <3>4. handle'[promise[c].rec] = handle[promise[c].rec]
      BY <3>2, <3>3, <1>3
    <3>5. QED
      BY <3>1, <3>3, <3>4
  <2>3. QED
    BY <2>1, <2>2
<1>8. RefsAreHolders'
  <2>1. Holding(r) = {}
    BY DEF Holding, CallsAreOnTracked
  <2>2. Holding(r)' = Waiting(r)
    BY <2>1, <1>4 DEF Holding, Waiting
  <2>3. \A s \in Record : s # r => Holding(s)' = Holding(s)
    BY <1>4 DEF Holding, Waiting
  <2>4. Working' = Working \cup Waiting(r) /\ Working \cap Waiting(r) = {}
    BY <1>4 DEF Working, Waiting
  <2>5. refs[r] = 0
    BY <2>1, FS_EmptySet DEF RefsAreHolders
  <2>6. refs'[r] = Cardinality(Holding(r)')
    BY <2>2, <2>5, <1>1 DEF RegTypeOK
  <2>7. \A s \in Record : s # r => refs'[s] = Cardinality(Holding(s)')
    BY <2>3 DEF RefsAreHolders, RegTypeOK
  <2>8. totalRefs' = Cardinality(Working')
    BY <2>4, <1>1, CallsAreFinite, DisjointUnion DEF RefsAreHolders
  <2>9. QED
    BY <2>6, <2>7, <2>8 DEF RefsAreHolders
<1>9. QED
  BY <1>2, <1>5, <1>6, <1>7, <1>8

(* The driver fails to create the pool. *)
LEMMA RejectsPreserves ==
    ASSUME IInv, NEW r \in Record, CreateRejects(r)
    PROVE  IInv'
<1> USE RegistryAssumption DEF RegistryAssumption, Record, NoRecord, IInv, CreateRejects
<1>1. RegTypeOK'
  BY DEF RegTypeOK, Promise, HandleState
<1>2. /\ handle'[r] = "absent"
      /\ \A s \in Record : s # r => handle'[s] = handle[s]
  BY DEF RegTypeOK
<1>3. \A c \in Caller :
        /\ promise'[c].rec = promise[c].rec
        /\ promise'[c].fp = promise[c].fp
        /\ promise'[c].state = IF c \in Waiting(r) THEN "rejected" ELSE promise[c].state
  BY DEF RegTypeOK, Promise
<1>4. RecordsAreDistinct' /\ LiveIsTracked' /\ CreatingIsAwaited'
  <2>1. RecordsAreDistinct' /\ LiveIsTracked'
    BY <1>2 DEF RecordsAreDistinct, LiveIsTracked, RegTypeOK
  <2>2. CreatingIsAwaited'
    <3> SUFFICES ASSUME NEW s \in Record, handle'[s] = "creating"
                 PROVE  \E c \in Caller : promise'[c].state = "pending" /\ promise'[c].rec = s
      BY DEF CreatingIsAwaited
    <3>1. s # r /\ handle[s] = "creating"
      BY <1>2
    <3>2. PICK c \in Caller : promise[c].state = "pending" /\ promise[c].rec = s
      BY <3>1 DEF CreatingIsAwaited
    <3>3. QED
      BY <3>1, <3>2, <1>3 DEF Waiting
  <2>3. QED
    BY <2>1, <2>2
<1>5. FreshIsUntouched'
  BY <1>2, <1>3 DEF FreshIsUntouched, RegTypeOK
<1>6. CallsAreOnTracked'
  <2> SUFFICES ASSUME NEW c \in Caller, promise'[c].state \in {"pending", "fulfilled"}
               PROVE  /\ promise'[c].fp \in Fingerprint
                      /\ promise'[c].rec \in Record
                      /\ pools'[promise'[c].fp] = promise'[c].rec
                      /\ handle'[promise'[c].rec] =
                           IF promise'[c].state = "pending" THEN "creating" ELSE "open"
    BY DEF CallsAreOnTracked
  <2>1. c \notin Waiting(r) /\ promise'[c].state = promise[c].state
    BY <1>3
  <2>2. promise[c].rec # r
    BY <2>1 DEF Waiting, CallsAreOnTracked
  <2>3. QED
    BY <2>1, <2>2, <1>2, <1>3 DEF CallsAreOnTracked
<1>7. RefsAreHolders'
  <2>1. Working' = Working /\ \A s \in Record : Holding(s)' = Holding(s)
    BY <1>3 DEF Working, Holding, Waiting
  <2>2. QED
    BY <2>1 DEF RefsAreHolders
<1>8. QED
  BY <1>1, <1>4, <1>5, <1>6, <1>7

(* What the end of a call does, without how the collector chooses. *)
LEMMA FinishEffect ==
    ASSUME IInv, NEW c \in Caller, Finish(c)
    PROVE  \E f \in Fingerprint, dead \in SUBSET Record :
             /\ promise[c].state = "fulfilled" /\ promise[c].fp = f
             /\ \A g \in Fingerprint : pools'[g] = IF pools[g] \in dead THEN 0 ELSE pools[g]
             /\ \A s \in Record : handle'[s] = IF s \in dead THEN "destroyed" ELSE handle[s]
             /\ promise' = [promise EXCEPT ![c] = NoPromise]
<1> USE DEF NoRecord
<1>1. PICK f \in Fingerprint :
        promise[c].state = "fulfilled" /\ promise[c].fp = f /\ pools[f] # NoRecord
  BY RegistryAssumption DEF Finish, IInv, CallsAreOnTracked, Record
<1> DEFINE dead == Collected([refs EXCEPT ![pools[f]] = Monus(@, 1)],
                             [lastUsedAt EXCEPT ![pools[f]] = now])
<1>2. dead \in SUBSET Record
  BY DEF Collected, IdlePools, Tracked
<1>3. Release(f) /\ promise' = [promise EXCEPT ![c] = NoPromise]
  BY <1>1 DEF Finish
<1>4. /\ pools' = [g \in Fingerprint |-> IF pools[g] \in dead THEN NoRecord ELSE pools[g]]
      /\ handle' = [s \in Record |-> IF s \in dead THEN "destroyed" ELSE handle[s]]
  BY <1>1, <1>3 DEF Release
<1> HIDE DEF dead
<1>5. QED
  BY <1>1, <1>2, <1>3, <1>4

(* A call ends: its reference is released and idle pools are collected. *)
LEMMA FinishPreserves ==
    ASSUME IInv, NEW c \in Caller, Finish(c)
    PROVE  IInv'
<1> USE RegistryAssumption DEF RegistryAssumption, Record, NoRecord, IInv
<1>1. promise[c].state = "fulfilled"
  BY DEF Finish
<1>2. PICK f \in Fingerprint, r \in Record :
        promise[c].fp = f /\ promise[c].rec = r /\ pools[f] = r /\ handle[r] = "open"
  BY <1>1 DEF CallsAreOnTracked
<1> DEFINE rf == [refs EXCEPT ![r] = Monus(@, 1)]
           lu == [lastUsedAt EXCEPT ![r] = now]
           dead == Collected(rf, lu)
<1>3. /\ refs' = rf /\ lastUsedAt' = lu
      /\ totalRefs' = Monus(totalRefs, 1)
      /\ pools' = [g \in Fingerprint |-> IF pools[g] \in dead THEN NoRecord ELSE pools[g]]
      /\ handle' = [s \in Record |-> IF s \in dead THEN "destroyed" ELSE handle[s]]
      /\ created' = created /\ now' = now
      /\ promise' = [promise EXCEPT ![c] = NoPromise]
  <2>1. Release(f) /\ promise' = [promise EXCEPT ![c] = NoPromise]
    BY <1>2 DEF Finish
  <2>2. f \in Fingerprint /\ pools[f] = r /\ r # NoRecord
    BY <1>2
  <2>3. QED
    BY <2>1, <2>2 DEF Release
<1>4. /\ promise'[c] = NoPromise
      /\ \A d \in Caller : d # c => promise'[d] = promise[d]
  BY <1>3 DEF RegTypeOK
<1>5. /\ refs'[r] = Monus(refs[r], 1)
      /\ \A s \in Record : s # r => refs'[s] = refs[s]
  BY <1>2, <1>3 DEF RegTypeOK
<1>6. RefsAreHolders'
  <2>1. Working' = Working \ {c} /\ c \in Working
    BY <1>1, <1>4 DEF Working, NoPromise
  <2>2. Holding(r)' = Holding(r) \ {c} /\ c \in Holding(r)
    BY <1>1, <1>2, <1>4 DEF Holding, NoPromise
  <2>3. \A s \in Record : s # r => Holding(s)' = Holding(s)
    BY <1>2, <1>4 DEF Holding, NoPromise
  <2>4. totalRefs' = Cardinality(Working')
    <3>1. Cardinality(Working') = Cardinality(Working) - 1
      BY <2>1, CallsAreFinite, FS_RemoveElement
    <3>2. Cardinality(Working) \in Nat /\ Cardinality(Working') \in Nat
      BY CallsAreFinite, CallsAreFiniteNext
    <3>3. QED
      BY <1>3, <3>1, <3>2 DEF Monus, RefsAreHolders
  <2>5. refs'[r] = Cardinality(Holding(r)')
    <3>1. Cardinality(Holding(r)') = Cardinality(Holding(r)) - 1
      BY <2>2, CallsAreFinite, FS_RemoveElement
    <3>2. Cardinality(Holding(r)) \in Nat /\ Cardinality(Holding(r)') \in Nat
      BY CallsAreFinite, CallsAreFiniteNext
    <3>3. refs[r] = Cardinality(Holding(r))
      BY <1>2 DEF RefsAreHolders
    <3>4. QED
      BY <1>5, <3>1, <3>2, <3>3 DEF Monus
  <2>6. \A s \in Record : s # r => refs'[s] = Cardinality(Holding(s)')
    BY <1>5, <2>3 DEF RefsAreHolders
  <2>7. QED
    BY <2>4, <2>5, <2>6 DEF RefsAreHolders
<1>7. \A s \in dead : s \in Record /\ handle[s] = "open" /\ refs'[s] = 0
  BY <1>3 DEF Collected, IdlePools, Tracked
<1>8. \A s \in dead : Holding(s)' = {}
  BY <1>6, <1>7, CallsAreFiniteNext, FS_EmptySet DEF RefsAreHolders
<1>9. RegTypeOK'
  <2>1. refs' \in [Record -> Nat] /\ totalRefs' \in Nat
    <3>1. Monus(refs[r], 1) \in Nat /\ Monus(totalRefs, 1) \in Nat
      BY <1>2 DEF Monus, RegTypeOK
    <3>2. QED
      BY <1>2, <1>3, <3>1 DEF RegTypeOK
  <2>2. lastUsedAt' \in [Record -> 0 .. MaxTime] /\ created' \in 0 .. MaxRecords /\ now' \in 0 .. MaxTime
    BY <1>2, <1>3 DEF RegTypeOK
  <2>3. /\ pools' \in [Fingerprint -> Record \cup {NoRecord}]
        /\ handle' \in [Record -> HandleState]
    <3> HIDE DEF dead
    <3>1. QED
      BY <1>3 DEF RegTypeOK, HandleState
  <2>4. promise' \in [Caller -> Promise]
    BY <1>3 DEF RegTypeOK, Promise, NoPromise
  <2>5. QED
    BY <2>1, <2>2, <2>3, <2>4 DEF RegTypeOK
<1> HIDE DEF dead
<1>10. /\ \A g \in Fingerprint : pools'[g] = IF pools[g] \in dead THEN 0 ELSE pools[g]
       /\ \A s \in Record : handle'[s] = IF s \in dead THEN "destroyed" ELSE handle[s]
  BY <1>3
<1>11. RecordsAreDistinct'
  BY <1>10 DEF RecordsAreDistinct
<1>12. FreshIsUntouched'
  <2>1. created \in Nat /\ \A g \in Fingerprint : pools'[g] <= created
    BY <1>10 DEF FreshIsUntouched, RegTypeOK
  <2>2. \A d \in Caller : promise'[d].rec <= created
    BY <1>4, <2>1 DEF FreshIsUntouched, NoPromise
  <2>3. \A s \in Record : s > created => handle'[s] = "absent"
    BY <1>7, <1>10 DEF FreshIsUntouched
  <2>4. QED
    BY <1>3, <2>1, <2>2, <2>3 DEF FreshIsUntouched
<1>13. LiveIsTracked'
  <2> SUFFICES ASSUME NEW s \in Record, handle'[s] \in {"creating", "open"}
               PROVE  \E g \in Fingerprint : pools'[g] = s
    BY DEF LiveIsTracked
  <2>1. s \notin dead /\ handle[s] \in {"creating", "open"}
    BY <1>10
  <2>2. PICK g \in Fingerprint : pools[g] = s
    BY <2>1 DEF LiveIsTracked
  <2>3. QED
    BY <1>10, <2>1, <2>2
<1>14. CallsAreOnTracked'
  <2> SUFFICES ASSUME NEW d \in Caller, promise'[d].state \in {"pending", "fulfilled"}
               PROVE  /\ promise'[d].fp \in Fingerprint
                      /\ promise'[d].rec \in Record
                      /\ pools'[promise'[d].fp] = promise'[d].rec
                      /\ handle'[promise'[d].rec] =
                           IF promise'[d].state = "pending" THEN "creating" ELSE "open"
    BY DEF CallsAreOnTracked
  <2>1. promise'[d] = promise[d]
    BY <1>4 DEF NoPromise
  <2>2. /\ promise[d].fp \in Fingerprint
        /\ promise[d].rec \in Record
        /\ pools[promise[d].fp] = promise[d].rec
        /\ handle[promise[d].rec] = IF promise[d].state = "pending" THEN "creating" ELSE "open"
    BY <2>1 DEF CallsAreOnTracked
  <2>3. promise[d].rec \notin dead
    <3>1. CASE promise[d].state = "pending"
      BY <1>7, <2>2, <3>1
    <3>2. CASE promise[d].state = "fulfilled"
      <4> SUFFICES ASSUME NEW s \in dead, promise[d].rec = s PROVE FALSE
        OBVIOUS
      <4>1. d \in Holding(s)'
        BY <2>1, <3>2 DEF Holding
      <4>2. QED
        BY <1>8, <4>1
    <3>3. QED
      BY <2>1, <3>1, <3>2
  <2>4. QED
    BY <1>10, <2>1, <2>2, <2>3
<1>15. CreatingIsAwaited'
  <2> SUFFICES ASSUME NEW s \in Record, handle'[s] = "creating"
               PROVE  \E d \in Caller : promise'[d].state = "pending" /\ promise'[d].rec = s
    BY DEF CreatingIsAwaited
  <2>1. PICK d \in Caller : promise[d].state = "pending" /\ promise[d].rec = s
    BY <1>10 DEF CreatingIsAwaited
  <2>2. QED
    BY <1>1, <1>4, <2>1
<1>16. QED
  BY <1>6, <1>9, <1>11, <1>12, <1>13, <1>14, <1>15

(* A call that getPool rejected ends. *)
LEMMA ThrowPreserves ==
    ASSUME IInv, NEW c \in Caller, Throw(c)
    PROVE  IInv'
<1> USE RegistryAssumption DEF RegistryAssumption, Record, NoRecord, IInv, Throw
<1>1. RegTypeOK'
  BY DEF RegTypeOK, Promise, NoPromise
<1>2. /\ promise'[c] = NoPromise
      /\ \A d \in Caller : d # c => promise'[d] = promise[d]
  BY DEF RegTypeOK
<1>3. RecordsAreDistinct' /\ FreshIsUntouched' /\ LiveIsTracked' /\ CreatingIsAwaited'
  BY <1>2 DEF RecordsAreDistinct, FreshIsUntouched, LiveIsTracked, CreatingIsAwaited, RegTypeOK, NoPromise
<1>4. CallsAreOnTracked'
  BY <1>2 DEF CallsAreOnTracked, NoPromise
<1>5. RefsAreHolders'
  <2>1. Working' = Working /\ \A r \in Record : Holding(r)' = Holding(r)
    BY <1>2 DEF Working, Holding, NoPromise
  <2>2. QED
    BY <2>1 DEF RefsAreHolders
<1>6. QED
  BY <1>1, <1>3, <1>4, <1>5

(* The engine is shut down while no call runs. *)
LEMMA ShutdownPreserves ==
    ASSUME IInv, Shutdown
    PROVE  IInv'
<1> USE RegistryAssumption DEF RegistryAssumption, Record, NoRecord, IInv, Shutdown, DestroyAll
<1>1. \A r \in Record : handle'[r] = IF r \in Tracked /\ handle[r] = "open"
                                     THEN "destroyed" ELSE handle[r]
  BY DEF DestroyHandles
<1>2. RegTypeOK'
  BY DEF RegTypeOK, HandleState, DestroyHandles
<1>3. RecordsAreDistinct' /\ CallsAreOnTracked'
  BY DEF RecordsAreDistinct, CallsAreOnTracked
<1>4. FreshIsUntouched'
  BY <1>1 DEF FreshIsUntouched, RegTypeOK
<1>5. LiveIsTracked' /\ CreatingIsAwaited'
  <2>1. \A r \in Record : handle[r] # "creating"
    BY DEF CreatingIsAwaited
  <2>2. \A r \in Record : handle'[r] \notin {"creating", "open"}
    BY <1>1, <2>1 DEF LiveIsTracked, Tracked
  <2>3. QED
    BY <2>2 DEF LiveIsTracked, CreatingIsAwaited
<1>6. RefsAreHolders'
  <2>1. Working = {} /\ Working' = Working
    BY DEF Working
  <2>2. \A r \in Record : Holding(r)' = Holding(r)
    BY DEF Holding
  <2>3. totalRefs' = Cardinality(Working')
    BY <2>1, FS_EmptySet
  <2>4. QED
    BY <2>2, <2>3 DEF RefsAreHolders
<1>7. QED
  BY <1>2, <1>3, <1>4, <1>5, <1>6

(* Time passes, or nothing happens. *)
LEMMA OthersPreserve ==
    ASSUME IInv, Tick \/ UNCHANGED regVars
    PROVE  IInv'
<1> USE RegistryAssumption DEF RegistryAssumption, Record, NoRecord, IInv, Tick, regVars
<1>1. RegTypeOK'
  BY DEF RegTypeOK
<1>2. RecordsAreDistinct' /\ FreshIsUntouched' /\ CallsAreOnTracked'
  BY DEF RecordsAreDistinct, FreshIsUntouched, CallsAreOnTracked
<1>3. LiveIsTracked' /\ CreatingIsAwaited'
  BY DEF LiveIsTracked, CreatingIsAwaited
<1>4. RefsAreHolders'
  <2>1. Working' = Working /\ \A r \in Record : Holding(r)' = Holding(r)
    BY DEF Working, Holding
  <2>2. QED
    BY <2>1 DEF RefsAreHolders
<1>5. QED
  BY <1>1, <1>2, <1>3, <1>4

(* Every step preserves the inductive invariant. *)
LEMMA NextPreserves == IInv /\ [Next]_regVars => IInv'
<1> SUFFICES ASSUME IInv, [Next]_regVars PROVE IInv'
  OBVIOUS
<1>1. ASSUME NEW c \in Caller, NEW f \in Fingerprint, Start(c, f) PROVE IInv'
  BY <1>1, RefusedPreserves, SharedPreserves, AwaitsPreserves, CreatesPreserves DEF Start, GetPool
<1>2. ASSUME NEW r \in Record, Settle(r) PROVE IInv'
  BY <1>2, ResolvesPreserves, RejectsPreserves DEF Settle
<1>3. ASSUME NEW c \in Caller, Finish(c) \/ Throw(c) PROVE IInv'
  BY <1>3, FinishPreserves, ThrowPreserves
<1>4. ASSUME Shutdown PROVE IInv'
  BY <1>4, ShutdownPreserves
<1>5. ASSUME Tick \/ UNCHANGED regVars PROVE IInv'
  BY <1>5, OthersPreserve
<1>6. QED
  BY <1>1, <1>2, <1>3, <1>4, <1>5 DEF Next

-----------------------------------------------------------------------------

(* The inductive invariant holds throughout. *)
THEOREM Inductive == Spec => []IInv
<1>1. QED
  BY InitEstablishes, NextPreserves, PTL DEF Spec

(* Type correctness: in particular neither count goes below zero. *)
THEOREM TypeCorrect == Spec => []RegTypeOK
<1>1. IInv => RegTypeOK
  BY DEF IInv
<1>2. QED
  BY <1>1, Inductive, PTL

(* The reference counts equal the calls at work, for any number of calls. *)
THEOREM CountsAreExact == Spec => []RefsAreHolders
<1>1. IInv => RefsAreHolders
  BY DEF IInv
<1>2. QED
  BY <1>1, Inductive, PTL

(* The collector and the releases of other calls never close the pool a    *)
(* call works on.                                                          *)
THEOREM NoPoolClosesUnderACall == Spec => []InUseStaysOpen
<1>1. IInv => InUseStaysOpen
  BY DEF IInv, CallsAreOnTracked, InUseStaysOpen
<1>2. QED
  BY <1>1, Inductive, PTL

(* Every open pool is registered under its database: none is lost. *)
THEOREM NoPoolIsLost == Spec => []NoPoolLeaks
<1>1. IInv => NoPoolLeaks
  BY DEF IInv, LiveIsTracked, NoPoolLeaks, Tracked
<1>2. QED
  BY <1>1, Inductive, PTL

-----------------------------------------------------------------------------
(* What the collector leaves. *)

(* The pools used after a given one, counted. *)
After(S, r, lu) == {s \in S : UsedAfter(s, r, lu)}
Rank(S, r, lu) == Cardinality(After(S, r, lu))

(* The collector's order is total and transitive. *)
LEMMA OrderIsStrict ==
    ASSUME NEW lu \in [Record -> Nat], NEW a \in Record, NEW b \in Record
    PROVE  /\ ~UsedAfter(a, a, lu)
           /\ a # b => UsedAfter(a, b, lu) \/ UsedAfter(b, a, lu)
           /\ \A c \in Record : UsedAfter(a, b, lu) /\ UsedAfter(b, c, lu) => UsedAfter(a, c, lu)
<1>1. lu[a] \in Nat /\ lu[b] \in Nat /\ \A c \in Record : lu[c] \in Nat
  OBVIOUS
<1>2. a \in Int /\ b \in Int /\ \A c \in Record : c \in Int
  BY RegistryAssumption DEF Record, RegistryAssumption
<1>3. QED
  BY <1>1, <1>2 DEF UsedAfter

(* Of two pools the one used before has more pools after it. *)
LEMMA RanksFollowTheOrder ==
    ASSUME NEW lu \in [Record -> Nat], NEW S \in SUBSET Record, IsFiniteSet(S),
           NEW a \in S, NEW b \in S
    PROVE  /\ IsFiniteSet(After(S, a, lu)) /\ Rank(S, a, lu) \in Nat
           /\ UsedAfter(a, b, lu) => Rank(S, a, lu) < Rank(S, b, lu)
<1>1. IsFiniteSet(After(S, a, lu)) /\ IsFiniteSet(After(S, b, lu))
  BY FS_Subset DEF After
<1>2. Rank(S, a, lu) \in Nat /\ Rank(S, b, lu) \in Nat
  BY <1>1, FS_CardinalityType DEF Rank
<1>3. ASSUME UsedAfter(a, b, lu) PROVE Rank(S, a, lu) < Rank(S, b, lu)
  <2>1. After(S, a, lu) \subseteq After(S, b, lu)
    BY <1>3, OrderIsStrict DEF After
  <2>2. a \in After(S, b, lu) /\ a \notin After(S, a, lu)
    BY <1>3, OrderIsStrict DEF After
  <2>3. After(S, a, lu) # After(S, b, lu)
    BY <2>2
  <2>4. Rank(S, a, lu) <= Rank(S, b, lu) /\ Rank(S, a, lu) # Rank(S, b, lu)
    BY <1>1, <2>1, <2>3, FS_Subset DEF Rank
  <2>5. QED
    BY <1>2, <2>4
<1>4. QED
  BY <1>1, <1>2, <1>3

(* Keeping the pools that have less than n after them keeps the n used     *)
(* last, or all when there are no more than that.                          *)
LEMMA KeepsTheLast ==
    ASSUME NEW lu \in [Record -> Nat], NEW S \in SUBSET Record, IsFiniteSet(S), NEW n \in Nat
    PROVE  LET kept == {r \in S : Rank(S, r, lu) < n}
           IN  /\ Cardinality(kept) <= n
               /\ kept # S => Cardinality(kept) = n
               /\ \A s \in kept, r \in S \ kept : UsedAfter(s, r, lu)
<1> DEFINE rank(r) == Rank(S, r, lu)
           kept == {r \in S : rank(r) < n}
<1>1. /\ \A a \in S : IsFiniteSet(After(S, a, lu)) /\ rank(a) \in Nat
      /\ \A a, b \in S : UsedAfter(a, b, lu) => rank(a) < rank(b)
  BY RanksFollowTheOrder
<1>2. \A a, b \in S : a # b => UsedAfter(a, b, lu) \/ UsedAfter(b, a, lu)
  BY OrderIsStrict
<1>3. IsFiniteSet(kept) /\ Cardinality(kept) \in Nat
  BY FS_Subset, FS_CardinalityType
<1>4. \A a \in S : rank(a) = Cardinality(After(S, a, lu))
  BY DEF Rank
<1> HIDE DEF rank
<1>5. ASSUME NEW s \in kept, NEW r \in S \ kept PROVE UsedAfter(s, r, lu)
  <2>1. s # r /\ rank(s) < n /\ ~(rank(r) < n)
    OBVIOUS
  <2>2. ~UsedAfter(r, s, lu)
    <3>1. rank(r) \in Nat /\ rank(s) \in Nat
      BY <1>1
    <3>2. ~(rank(r) < rank(s))
      BY <2>1, <3>1
    <3>3. QED
      BY <1>1, <3>2
  <2>3. QED
    BY <1>2, <2>1, <2>2
<1>6. Cardinality(kept) <= n
  <2>1. CASE kept = {}
    BY <2>1, FS_EmptySet
  <2>2. CASE kept # {}
    <3> DEFINE gaps == {n - rank(r) : r \in kept}
    <3>1. gaps \subseteq Nat /\ gaps # {}
      BY <1>1, <2>2
    <3>2. PICK g \in gaps : \A h \in gaps : g <= h
      BY <3>1, LeastMember
    <3>3. PICK m \in kept : g = n - rank(m)
      OBVIOUS
    <3>4. \A k \in kept : rank(k) <= rank(m)
      BY <1>1, <3>2, <3>3
    <3>5. kept \subseteq After(S, m, lu) \cup {m}
      <4> SUFFICES ASSUME NEW k \in kept, k # m PROVE k \in After(S, m, lu)
        OBVIOUS
      <4>1. ~UsedAfter(m, k, lu)
        BY <1>1, <3>4
      <4>2. QED
        BY <1>2, <4>1 DEF After
    <3>6. m \notin After(S, m, lu)
      BY OrderIsStrict DEF After
    <3>7. /\ IsFiniteSet(After(S, m, lu) \cup {m})
          /\ Cardinality(After(S, m, lu) \cup {m}) = rank(m) + 1
      BY <1>1, <1>4, <3>6, FS_AddElement
    <3>8. Cardinality(kept) <= rank(m) + 1
      BY <3>5, <3>7, FS_Subset
    <3>9. QED
      BY <1>1, <1>3, <3>8
  <2>3. QED
    BY <2>1, <2>2
<1>7. ASSUME kept # S PROVE Cardinality(kept) = n
  <2> DEFINE outside == {rank(r) : r \in S \ kept}
  <2>1. outside \subseteq Nat /\ outside # {}
    BY <1>1, <1>7
  <2>2. PICK l \in outside : \A h \in outside : l <= h
    BY <2>1, LeastMember
  <2>3. PICK x \in S \ kept : l = rank(x)
    OBVIOUS
  <2>4. After(S, x, lu) \subseteq kept
    <3> SUFFICES ASSUME NEW y \in S, UsedAfter(y, x, lu) PROVE y \in kept
      BY DEF After
    <3>1. rank(y) < rank(x) /\ rank(y) \in Nat /\ rank(x) \in Nat
      BY <1>1
    <3>2. y \notin S \ kept
      BY <2>2, <2>3, <3>1
    <3>3. QED
      BY <3>2
  <2>5. rank(x) <= Cardinality(kept)
    BY <1>3, <1>4, <2>4, FS_Subset
  <2>6. n <= rank(x) /\ rank(x) \in Nat
    BY <1>1
  <2>7. QED
    BY <1>3, <1>6, <2>5, <2>6
<1>8. QED
  BY <1>5, <1>6, <1>7 DEF rank

(* What the end of a call collects, and which idle pools it keeps. *)
LEMMA FinishCollects ==
    ASSUME IInv, NEW c \in Caller, Finish(c)
    PROVE  /\ IdleBound'
           /\ \A r \in Record : (handle[r] = "open" /\ handle'[r] = "destroyed") =>
                 /\ \A s \in IdlePools(refs)' : UsedAfter(s, r, lastUsedAt')
                 /\ Cardinality(IdlePools(refs)') = MaxIdlePools
<1> USE RegistryAssumption DEF RegistryAssumption, Record, NoRecord
<1>1. PICK f \in Fingerprint :
        promise[c].state = "fulfilled" /\ promise[c].fp = f /\ pools[f] # NoRecord
  BY DEF Finish, IInv, CallsAreOnTracked
<1>2. PICK rf, lu, S :
        /\ rf = [refs EXCEPT ![pools[f]] = Monus(@, 1)]
        /\ lu = [lastUsedAt EXCEPT ![pools[f]] = now]
        /\ S = IdlePools(rf)
  OBVIOUS
<1>3. PICK dead : dead = Collected(rf, lu)
  OBVIOUS
<1>4. /\ refs' = rf /\ lastUsedAt' = lu
      /\ pools' = [g \in Fingerprint |-> IF pools[g] \in dead THEN NoRecord ELSE pools[g]]
      /\ handle' = [s \in Record |-> IF s \in dead THEN "destroyed" ELSE handle[s]]
  <2>1. Release(f)
    BY <1>1 DEF Finish
  <2>2. QED
    BY <1>1, <1>2, <1>3, <2>1 DEF Release
<1>5. lu \in [Record -> Nat]
  <2>1. lastUsedAt \in [Record -> 0 .. MaxTime] /\ now \in 0 .. MaxTime
    BY DEF IInv, RegTypeOK
  <2>2. 0 .. MaxTime \subseteq Nat
    OBVIOUS
  <2>3. QED
    BY <1>2, <2>1, <2>2
<1>6. S \in SUBSET Record /\ IsFiniteSet(S)
  <2>1. S \in SUBSET Record
    BY <1>2 DEF IdlePools, Tracked
  <2>2. IsFiniteSet(Record)
    BY FS_Interval
  <2>3. QED
    BY <2>1, <2>2, FS_Subset
<1>7. dead = {r \in S : LruEnabled /\ Rank(S, r, lu) >= MaxIdlePools}
  BY <1>2, <1>3 DEF Collected, Rank, After
<1>8. IdlePools(refs)' = S \ dead
  <2>1. \A s \in Record : s \in Tracked' <=> s \in Tracked /\ s \notin dead
    BY <1>4 DEF Tracked
  <2>2. \A s \in Record : handle'[s] = "open" <=> s \notin dead /\ handle[s] = "open"
    BY <1>4
  <2>3. S = {s \in Tracked : rf[s] = 0 /\ handle[s] = "open"}
    BY <1>2 DEF IdlePools
  <2>4. IdlePools(refs)' = {s \in Tracked' : rf[s] = 0 /\ handle'[s] = "open"}
    BY <1>4 DEF IdlePools
  <2>5. Tracked \subseteq Record /\ Tracked' \subseteq Record
    BY DEF Tracked
  <2>6. QED
    BY <2>1, <2>2, <2>3, <2>4, <2>5
<1>9. CASE LruEnabled
  <2> DEFINE kept == {r \in S : Rank(S, r, lu) < MaxIdlePools}
  <2>1. \A r \in S : Rank(S, r, lu) \in Nat
    BY <1>5, <1>6, RanksFollowTheOrder
  <2>2. S \ dead = kept
    BY <1>7, <1>9, <2>1
  <2>3. /\ Cardinality(kept) <= MaxIdlePools
        /\ kept # S => Cardinality(kept) = MaxIdlePools
        /\ \A s \in kept, r \in S \ kept : UsedAfter(s, r, lu)
    BY <1>5, <1>6, KeepsTheLast
  <2> HIDE DEF kept
  <2>4. IdleBound'
    BY <1>8, <2>2, <2>3 DEF IdleBound
  <2>5. ASSUME NEW r \in Record, handle[r] = "open" /\ handle'[r] = "destroyed"
        PROVE  /\ \A s \in IdlePools(refs)' : UsedAfter(s, r, lastUsedAt')
               /\ Cardinality(IdlePools(refs)') = MaxIdlePools
    <3>1. r \in dead /\ dead \subseteq S
      BY <1>4, <1>7, <2>5
    <3>2. r \in S \ kept /\ kept # S
      BY <2>2, <3>1
    <3>3. QED
      BY <1>4, <1>8, <2>2, <2>3, <3>2
  <2>6. QED
    BY <2>4, <2>5
<1>10. CASE ~LruEnabled
  <2>1. dead = {}
    BY <1>7, <1>10
  <2>2. QED
    BY <1>4, <1>10, <2>1 DEF IdleBound
<1>11. QED
  BY <1>9, <1>10

(* No other step adds an idle pool: a pool that opens is referenced by the *)
(* calls that awaited it.                                                  *)
LEMMA OthersAddNoIdlePool ==
    ASSUME IInv, [Next]_regVars, ~\E c \in Caller : Finish(c)
    PROVE  IdlePools(refs)' \subseteq IdlePools(refs)
<1> USE RegistryAssumption DEF RegistryAssumption, Record, NoRecord
<1> SUFFICES ASSUME NEW s \in Record, s \in Tracked', refs'[s] = 0, handle'[s] = "open"
             PROVE  s \in Tracked /\ refs[s] = 0 /\ handle[s] = "open"
  BY DEF IdlePools, Tracked
<1>1. ASSUME NEW c \in Caller, NEW f \in Fingerprint, GetPoolShared(c, f)
      PROVE  s \in Tracked /\ refs[s] = 0 /\ handle[s] = "open"
  <2>1. s \in Tracked /\ handle[s] = "open"
    BY <1>1 DEF GetPoolShared, Tracked
  <2>2. refs[pools[f]] \in Nat /\ refs'[pools[f]] = refs[pools[f]] + 1
    BY <1>1 DEF GetPoolShared, IInv, RegTypeOK
  <2>3. s # pools[f]
    BY <2>2
  <2>4. refs'[s] = refs[s]
    BY <1>1, <2>3 DEF GetPoolShared, IInv, RegTypeOK
  <2>5. QED
    BY <2>1, <2>4
<1>2. ASSUME NEW c \in Caller, NEW f \in Fingerprint, GetPoolRefused(c, f) \/ GetPoolAwaits(c, f)
      PROVE  s \in Tracked /\ refs[s] = 0 /\ handle[s] = "open"
  BY <1>2 DEF GetPoolRefused, GetPoolAwaits, Tracked, IInv, RegTypeOK
<1>3. ASSUME NEW c \in Caller, NEW f \in Fingerprint, GetPoolCreates(c, f)
      PROVE  s \in Tracked /\ refs[s] = 0 /\ handle[s] = "open"
  <2>1. created + 1 \in Record /\ handle'[created + 1] = "creating"
    BY <1>3 DEF GetPoolCreates, IInv, RegTypeOK
  <2>2. s # created + 1
    BY <2>1
  <2>3. refs[s] = 0 /\ handle[s] = "open"
    BY <1>3, <2>2 DEF GetPoolCreates, IInv, RegTypeOK
  <2>4. s \in Tracked
    BY <2>3 DEF IInv, LiveIsTracked, Tracked
  <2>5. QED
    BY <2>3, <2>4
<1>4. ASSUME NEW r \in Record, CreateResolves(r)
      PROVE  s \in Tracked /\ refs[s] = 0 /\ handle[s] = "open"
  <2>1. Waiting(r) # {}
    BY <1>4 DEF CreateResolves, IInv, CreatingIsAwaited, Waiting
  <2>2. Cardinality(Waiting(r)) \in Nat /\ Cardinality(Waiting(r)) # 0
    BY <2>1, CallsAreFinite, FS_EmptySet
  <2>3. refs[r] \in Nat /\ refs'[r] = refs[r] + Cardinality(Waiting(r))
    BY <1>4 DEF CreateResolves, IInv, RegTypeOK
  <2>4. s # r
    BY <2>2, <2>3
  <2>5. QED
    BY <1>4, <2>4 DEF CreateResolves, IInv, RegTypeOK, Tracked
<1>5. ASSUME NEW r \in Record, CreateRejects(r)
      PROVE  s \in Tracked /\ refs[s] = 0 /\ handle[s] = "open"
  BY <1>5 DEF CreateRejects, IInv, RegTypeOK, Tracked
<1>6. ASSUME NEW c \in Caller, Throw(c)
      PROVE  s \in Tracked /\ refs[s] = 0 /\ handle[s] = "open"
  BY <1>6 DEF Throw, Tracked
<1>7. ASSUME Shutdown
      PROVE  s \in Tracked /\ refs[s] = 0 /\ handle[s] = "open"
  BY <1>7 DEF Shutdown, DestroyAll, Tracked
<1>8. ASSUME Tick \/ UNCHANGED regVars
      PROVE  s \in Tracked /\ refs[s] = 0 /\ handle[s] = "open"
  BY <1>8 DEF Tick, regVars, Tracked
<1>9. QED
  BY <1>1, <1>2, <1>3, <1>4, <1>5, <1>6, <1>7, <1>8 DEF Next, Start, GetPool, Settle

(* The collector bounds the idle pools after every step, and what it       *)
(* closes was used before all it keeps.                                    *)
LEMMA StepCollects ==
    ASSUME IInv, IdleBound, [Next]_regVars
    PROVE  /\ IdleBound'
           /\ (\E c \in Caller : promise[c].state = "fulfilled" /\ promise'[c].state = "none") =>
                 \A r \in Record : (handle[r] = "open" /\ handle'[r] = "destroyed") =>
                    /\ \A s \in IdlePools(refs)' : UsedAfter(s, r, lastUsedAt')
                    /\ Cardinality(IdlePools(refs)') = MaxIdlePools
<1> USE RegistryAssumption DEF RegistryAssumption, Record, NoRecord
<1>1. CASE \E c \in Caller : Finish(c)
  BY <1>1, FinishCollects
<1>2. CASE ~\E c \in Caller : Finish(c)
  <2>1. IdlePools(refs)' \subseteq IdlePools(refs)
    BY <1>2, OthersAddNoIdlePool
  <2>2. IsFiniteSet(IdlePools(refs))
    <3>1. IdlePools(refs) \subseteq Record
      BY DEF IdlePools, Tracked
    <3>2. IsFiniteSet(Record)
      BY FS_Interval
    <3>3. QED
      BY <3>1, <3>2, FS_Subset
  <2>3. IdleBound'
    <3>1. PICK now1, now2 : now1 = IdlePools(refs) /\ now2 = IdlePools(refs)'
      OBVIOUS
    <3>2. IsFiniteSet(now1) /\ now2 \subseteq now1
      BY <2>1, <2>2, <3>1
    <3>3. /\ Cardinality(now2) <= Cardinality(now1)
          /\ Cardinality(now1) \in Nat /\ Cardinality(now2) \in Nat
      BY <3>2, FS_Subset, FS_CardinalityType
    <3>4. QED
      BY <3>1, <3>3 DEF IdleBound
  <2>4. ASSUME NEW c \in Caller, promise[c].state = "fulfilled", promise'[c].state = "none"
        PROVE  FALSE
    <3>1. ASSUME NEW d \in Caller, NEW f \in Fingerprint, Start(d, f) PROVE FALSE
      <4>1. d # c
        BY <2>4, <3>1 DEF Start
      <4>2. promise'[c] = promise[c]
        BY <3>1, <4>1 DEF Start, GetPool, GetPoolRefused, GetPoolShared, GetPoolAwaits,
                          GetPoolCreates, IInv, RegTypeOK
      <4>3. QED
        BY <2>4, <4>2
    <3>2. ASSUME NEW r \in Record, Settle(r) PROVE FALSE
      <4>1. c \notin Waiting(r)
        BY <2>4 DEF Waiting
      <4>2. promise'[c] = promise[c]
        BY <3>2, <4>1 DEF Settle, CreateResolves, CreateRejects
      <4>3. QED
        BY <2>4, <4>2
    <3>3. ASSUME NEW d \in Caller, Throw(d) PROVE FALSE
      BY <2>4, <3>3 DEF Throw, IInv, RegTypeOK
    <3>4. ASSUME Shutdown \/ Tick \/ UNCHANGED regVars PROVE FALSE
      BY <2>4, <3>4 DEF Shutdown, Tick, regVars
    <3>5. QED
      BY <1>2, <3>1, <3>2, <3>3, <3>4 DEF Next
  <2>5. QED
    BY <2>3, <2>4
<1>3. QED
  BY <1>1, <1>2

(* At most MaxIdlePools idle pools stay open, and the collector closes     *)
(* those used longest ago and no more than it must: for any number of      *)
(* pools, any clock and any bound.                                         *)
THEOREM OldestPoolsAreCollected == Spec => CollectsOldestIdle
<1>1. Init => IdleBound
  <2>1. Init => IdlePools(refs) = {}
    BY DEF Init, RegInit, IdlePools, Tracked, NoRecord, Record
  <2>2. QED
    BY <2>1, FS_EmptySet, RegistryAssumption DEF IdleBound, RegistryAssumption
<1>2. IInv /\ IdleBound /\ [Next]_regVars => IdleBound'
  BY StepCollects
<1>3. IInv /\ IdleBound /\ [Next]_regVars =>
        [(\E c \in Caller : promise[c].state = "fulfilled" /\ promise'[c].state = "none") =>
             \A r \in Record : (handle[r] = "open" /\ handle'[r] = "destroyed") =>
                 /\ \A s \in IdlePools(refs)' : UsedAfter(s, r, lastUsedAt')
                 /\ Cardinality(IdlePools(refs)') = MaxIdlePools]_regVars
  BY StepCollects
<1>4. QED
  BY <1>1, <1>2, <1>3, Inductive, PTL DEF Spec, CollectsOldestIdle

-----------------------------------------------------------------------------
(* The registry implements SharedPools, see LivePool and UsersOf. *)

(* A step that leaves both as they are is a stuttering step of SharedPools. *)
LEMMA Stutters ==
    ASSUME LivePool' = LivePool, UsersOf' = UsersOf
    PROVE  [Abstract!SPNext]_(Abstract!spVars)
BY DEF Abstract!spVars

(* getPool, when it does not return a pool at once, changes neither. *)
LEMMA PendingIsInvisible ==
    ASSUME IInv, NEW c \in Caller, NEW f \in Fingerprint, promise[c].state = "none",
           GetPoolRefused(c, f) \/ GetPoolAwaits(c, f) \/ GetPoolCreates(c, f)
    PROVE  [Abstract!SPNext]_(Abstract!spVars)
<1> USE RegistryAssumption DEF RegistryAssumption, Record, NoRecord, IInv
<1>1. /\ promise'[c].state \in {"rejected", "pending"}
      /\ \A d \in Caller : d # c => promise'[d] = promise[d]
  BY DEF GetPoolRefused, GetPoolAwaits, GetPoolCreates, RegTypeOK
<1>2. UsersOf' = UsersOf
  BY <1>1 DEF UsersOf
<1>3. CASE GetPoolRefused(c, f)
  BY <1>2, <1>3, Stutters DEF GetPoolRefused, LivePool
<1>4. CASE GetPoolAwaits(c, f)
  <2>1. \A r \in Record : handle'[r] = "open" <=> handle[r] = "open"
    BY <1>4 DEF GetPoolAwaits, RegTypeOK
  <2>2. LivePool' = LivePool
    BY <1>4, <2>1 DEF GetPoolAwaits, LivePool, RegTypeOK
  <2>3. QED
    BY <1>2, <2>2, Stutters
<1>5. CASE GetPoolCreates(c, f)
  <2>1. created + 1 \in Record /\ handle'[created + 1] = "creating" /\ pools'[f] = created + 1
    BY <1>5 DEF GetPoolCreates, RegTypeOK
  <2>2. /\ \A g \in Fingerprint : g # f => pools'[g] = pools[g]
        /\ \A r \in Record : r # created + 1 => handle'[r] = handle[r]
    BY <1>5 DEF GetPoolCreates, RegTypeOK
  <2>3. pools[f] = 0 /\ \A g \in Fingerprint : pools[g] # created + 1
    BY <1>5 DEF GetPoolCreates, FreshIsUntouched, RegTypeOK
  <2>4. \A g \in Fingerprint : LivePool'[g] = LivePool[g]
    <3> SUFFICES ASSUME NEW g \in Fingerprint PROVE LivePool'[g] = LivePool[g]
      OBVIOUS
    <3>1. CASE g = f
      BY <2>1, <2>3, <3>1 DEF LivePool
    <3>2. CASE g # f
      <4>1. pools'[g] = pools[g] /\ pools[g] # created + 1 /\ pools[g] \in Record \cup {0}
        BY <2>2, <2>3, <3>2 DEF RegTypeOK
      <4>2. pools[g] # 0 => handle'[pools[g]] = handle[pools[g]]
        BY <2>2, <4>1
      <4>3. QED
        BY <4>1, <4>2 DEF LivePool
    <3>3. QED
      BY <3>1, <3>2
  <2>5. LivePool' = LivePool
    BY <2>4 DEF LivePool
  <2>6. QED
    BY <1>2, <2>5, Stutters
<1>6. QED
  BY <1>3, <1>4, <1>5

(* Sharing an open pool is a Join. *)
LEMMA SharedJoins ==
    ASSUME IInv, NEW c \in Caller, NEW f \in Fingerprint,
           promise[c].state = "none", GetPoolShared(c, f)
    PROVE  [Abstract!SPNext]_(Abstract!spVars)
<1> USE RegistryAssumption DEF RegistryAssumption, Record, NoRecord, IInv, GetPoolShared
<1>1. /\ promise'[c].state = "fulfilled" /\ promise'[c].fp = f
      /\ \A d \in Caller : d # c => promise'[d] = promise[d]
  BY DEF RegTypeOK
<1>2. LivePool' = LivePool /\ LivePool[f] # NoRecord
  BY DEF LivePool
<1>3. UsersOf' = [UsersOf EXCEPT ![f] = @ \cup {c}] /\ c \notin UsersOf[f]
  <2>1. \A g \in Fingerprint : c \notin UsersOf[g]
    BY DEF UsersOf
  <2>2. \A g \in Fingerprint : UsersOf'[g] = IF g = f THEN UsersOf[g] \cup {c} ELSE UsersOf[g]
    BY <1>1 DEF UsersOf
  <2>3. DOMAIN UsersOf = Fingerprint /\ UsersOf' = [g \in Fingerprint |-> UsersOf'[g]]
    BY DEF UsersOf
  <2>4. [UsersOf EXCEPT ![f] = @ \cup {c}] =
            [g \in Fingerprint |-> IF g = f THEN UsersOf[g] \cup {c} ELSE UsersOf[g]]
    BY <2>3
  <2>5. QED
    BY <2>1, <2>2, <2>3, <2>4
<1>4. Abstract!Join(f, c)
  BY <1>2, <1>3 DEF Abstract!Join
<1>5. QED
  BY <1>4 DEF Abstract!SPNext

(* The end of a creation is an Open for all the calls that awaited it. *)
LEMMA ResolvesOpens ==
    ASSUME IInv, NEW r \in Record, CreateResolves(r)
    PROVE  [Abstract!SPNext]_(Abstract!spVars)
<1> USE RegistryAssumption DEF RegistryAssumption, Record, NoRecord, IInv
<1>1. PICK f \in Fingerprint : pools[f] = r
  BY DEF CreateResolves, LiveIsTracked
<1>2. \A g \in Fingerprint : g # f => pools[g] # r
  BY <1>1 DEF RecordsAreDistinct
<1>3. /\ pools' = pools /\ handle[r] = "creating" /\ handle'[r] = "open"
      /\ \A s \in Record : s # r => handle'[s] = handle[s]
  BY DEF CreateResolves, RegTypeOK
<1>4. \A c \in Caller :
        /\ promise'[c].fp = promise[c].fp
        /\ promise'[c].state = IF c \in Waiting(r) THEN "fulfilled" ELSE promise[c].state
  BY DEF CreateResolves, RegTypeOK, Promise
<1>5. \A c \in Waiting(r) : promise[c].fp = f
  BY <1>2 DEF Waiting, CallsAreOnTracked
<1>6. LivePool' = [LivePool EXCEPT ![f] = r] /\ LivePool[f] = NoRecord
  BY <1>1, <1>2, <1>3 DEF LivePool, RegTypeOK
<1>7. \A g \in Fingerprint : LivePool[g] # r
  BY <1>3 DEF LivePool
<1>8. UsersOf[f] = {}
  BY <1>1, <1>3 DEF UsersOf, CallsAreOnTracked
<1>9. UsersOf' = [UsersOf EXCEPT ![f] = Waiting(r)]
  <2>1. \A c \in Caller : promise[c].state = "fulfilled" => promise[c].fp # f
    BY <1>8 DEF UsersOf
  <2>2. \A c \in Caller : c \in Waiting(r) => promise[c].state # "fulfilled"
    BY DEF Waiting
  <2>3. Waiting(r) \subseteq Caller
    BY DEF Waiting
  <2>4. \A g \in Fingerprint : UsersOf'[g] = IF g = f THEN Waiting(r) ELSE UsersOf[g]
    BY <1>4, <1>5, <2>1, <2>2, <2>3 DEF UsersOf
  <2>5. QED
    BY <2>4 DEF UsersOf
<1>10. Waiting(r) \in SUBSET Caller
  BY DEF Waiting
<1>11. Abstract!Open(f, Waiting(r), r)
  BY <1>6, <1>7, <1>8, <1>9 DEF Abstract!Open
<1>12. QED
  BY <1>10, <1>11 DEF Abstract!SPNext

(* A failed creation was never visible. *)
LEMMA RejectsIsInvisible ==
    ASSUME IInv, NEW r \in Record, CreateRejects(r)
    PROVE  [Abstract!SPNext]_(Abstract!spVars)
<1> USE RegistryAssumption DEF RegistryAssumption, Record, NoRecord, IInv
<1>1. /\ pools' = pools
      /\ \A s \in Record : handle'[s] = "open" <=> handle[s] = "open"
  BY DEF CreateRejects, RegTypeOK
<1>2. LivePool' = LivePool
  BY <1>1 DEF LivePool, RegTypeOK
<1>3. \A c \in Caller :
        /\ promise'[c].fp = promise[c].fp
        /\ promise'[c].state = "fulfilled" <=> promise[c].state = "fulfilled"
  BY DEF CreateRejects, RegTypeOK, Promise, Waiting
<1>4. UsersOf' = UsersOf
  BY <1>3 DEF UsersOf
<1>5. QED
  BY <1>2, <1>4, Stutters

(* The end of a call is a Leave that closes the databases of the collected *)
(* pools.                                                                  *)
LEMMA FinishLeaves ==
    ASSUME IInv, IInv', NEW c \in Caller, Finish(c)
    PROVE  [Abstract!SPNext]_(Abstract!spVars)
<1> USE RegistryAssumption DEF RegistryAssumption, Record, NoRecord
<1>1. PICK f \in Fingerprint, dead \in SUBSET Record :
        /\ promise[c].state = "fulfilled" /\ promise[c].fp = f
        /\ \A g \in Fingerprint : pools'[g] = IF pools[g] \in dead THEN 0 ELSE pools[g]
        /\ \A s \in Record : handle'[s] = IF s \in dead THEN "destroyed" ELSE handle[s]
        /\ promise' = [promise EXCEPT ![c] = NoPromise]
  BY FinishEffect
<1>2. /\ promise'[c].state = "none"
      /\ \A d \in Caller : d # c => promise'[d] = promise[d]
  BY <1>1 DEF IInv, RegTypeOK, NoPromise
<1> DEFINE closed == {g \in Fingerprint : pools[g] \in dead}
<1>3. c \in UsersOf[f] /\ UsersOf' = [UsersOf EXCEPT ![f] = @ \ {c}]
  <2>1. c \in UsersOf[f]
    BY <1>1 DEF UsersOf
  <2>2. \A g \in Fingerprint : g # f => c \notin UsersOf[g]
    BY <1>1 DEF UsersOf
  <2>3. \A g \in Fingerprint : UsersOf'[g] = UsersOf[g] \ {c}
    BY <1>2 DEF UsersOf
  <2>4. \A g \in Fingerprint : UsersOf'[g] = IF g = f THEN UsersOf[g] \ {c} ELSE UsersOf[g]
    BY <2>2, <2>3
  <2>5. DOMAIN UsersOf = Fingerprint /\ UsersOf' = [g \in Fingerprint |-> UsersOf'[g]]
    BY DEF UsersOf
  <2>6. [UsersOf EXCEPT ![f] = @ \ {c}] =
          [g \in Fingerprint |-> IF g = f THEN UsersOf[g] \ {c} ELSE UsersOf[g]]
    BY <2>5
  <2>7. QED
    BY <2>1, <2>4, <2>5, <2>6
<1>4. \A g \in closed : UsersOf'[g] = {}
  <2> SUFFICES ASSUME NEW g \in closed, NEW d \in Caller,
                      promise'[d].state = "fulfilled", promise'[d].fp = g
               PROVE  FALSE
    BY DEF UsersOf
  <2>1. pools'[g] = 0
    BY <1>1
  <2>2. pools'[promise'[d].fp] \in Record
    BY DEF IInv, CallsAreOnTracked
  <2>3. QED
    BY <2>1, <2>2
<1>5. LivePool' = [g \in Fingerprint |-> IF g \in closed THEN NoRecord ELSE LivePool[g]]
  BY <1>1 DEF LivePool, IInv, RegTypeOK
<1>6. closed \in SUBSET Fingerprint
  OBVIOUS
<1> HIDE DEF closed
<1>7. Abstract!Leave(f, c, closed)
  BY <1>3, <1>4, <1>5 DEF Abstract!Leave
<1>8. QED
  BY <1>6, <1>7 DEF Abstract!SPNext

(* A shutdown is a CloseAll. *)
LEMMA ShutdownCloses ==
    ASSUME IInv, Shutdown
    PROVE  [Abstract!SPNext]_(Abstract!spVars)
<1>1. \A f \in Fingerprint : UsersOf[f] = {}
  BY DEF Shutdown, UsersOf
<1>2. LivePool' = [f \in Fingerprint |-> NoRecord] /\ UsersOf' = UsersOf
  BY DEF Shutdown, DestroyAll, LivePool, UsersOf
<1>3. Abstract!CloseAll
  BY <1>1, <1>2 DEF Abstract!CloseAll
<1>4. QED
  BY <1>3 DEF Abstract!SPNext

(* Every step of the registry is one of SharedPools or leaves it as it is. *)
LEMMA StepImplements == IInv /\ IInv' /\ [Next]_regVars => [Abstract!SPNext]_(Abstract!spVars)
<1> SUFFICES ASSUME IInv, IInv', [Next]_regVars PROVE [Abstract!SPNext]_(Abstract!spVars)
  OBVIOUS
<1>1. ASSUME NEW c \in Caller, NEW f \in Fingerprint, Start(c, f)
      PROVE  [Abstract!SPNext]_(Abstract!spVars)
  BY <1>1, PendingIsInvisible, SharedJoins DEF Start, GetPool
<1>2. ASSUME NEW r \in Record, Settle(r) PROVE [Abstract!SPNext]_(Abstract!spVars)
  BY <1>2, ResolvesOpens, RejectsIsInvisible DEF Settle
<1>3. ASSUME NEW c \in Caller, Finish(c) PROVE [Abstract!SPNext]_(Abstract!spVars)
  BY <1>3, FinishLeaves
<1>4. ASSUME NEW c \in Caller, Throw(c) PROVE [Abstract!SPNext]_(Abstract!spVars)
  <2>1. promise'[c].state # "fulfilled" /\ \A d \in Caller : d # c => promise'[d] = promise[d]
    BY <1>4 DEF Throw, NoPromise, IInv, RegTypeOK
  <2>2. UsersOf' = UsersOf /\ LivePool' = LivePool
    BY <1>4, <2>1 DEF Throw, UsersOf, LivePool
  <2>3. QED
    BY <2>2, Stutters
<1>5. ASSUME Shutdown PROVE [Abstract!SPNext]_(Abstract!spVars)
  BY <1>5, ShutdownCloses
<1>6. ASSUME Tick \/ UNCHANGED regVars PROVE [Abstract!SPNext]_(Abstract!spVars)
  <2>1. UsersOf' = UsersOf /\ LivePool' = LivePool
    BY <1>6 DEF Tick, regVars, UsersOf, LivePool
  <2>2. QED
    BY <2>1, Stutters
<1>7. QED
  BY <1>1, <1>2, <1>3, <1>4, <1>5, <1>6 DEF Next

(* Under engine calls the registry implements SharedPools: a database has  *)
(* one pool, all its calls share it, and it closes only when unused.       *)
THEOREM ImplementsSharedPools == Spec => SharesPools
<1>1. Init => Abstract!SPInit
  BY DEF Init, RegInit, NoPromise, LivePool, UsersOf, Abstract!SPInit, NoRecord
<1>2. QED
  BY <1>1, Inductive, StepImplements, PTL DEF Spec, SharesPools, Abstract!SPSpec

=============================================================================
