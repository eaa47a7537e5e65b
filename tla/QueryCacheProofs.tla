--------------------------- MODULE QueryCacheProofs ---------------------------
(***************************************************************************)
(* For any keys, calls, size and life of the cache: the Map stays within   *)
(* its size and without duplicates, and how old a cached answer can be is  *)
(* bounded, whatever overlaps.                                             *)
(***************************************************************************)
EXTENDS QueryCache, SequencesExt, SequenceTheorems, FiniteSetTheorems, TLAPS

(* Facts about numbers, sets and sequences, without the variables of the   *)
(* model.                                                                  *)

(* What is where after an element was taken out of a sequence. *)
LEMMA Removal ==
    ASSUME NEW S, NEW s \in Seq(S), NEW k \in 1 .. Len(s)
    PROVE  LET r == RemoveAt(s, k)
           IN  /\ r \in Seq(S)
               /\ Len(r) = Len(s) - 1
               /\ \A i \in 1 .. Len(s) - 1 : r[i] = IF i < k THEN s[i] ELSE s[i + 1]
<1> DEFINE a == SubSeq(s, 1, k - 1)
           b == SubSeq(s, k + 1, Len(s))
           r == RemoveAt(s, k)
<1>1. a \in Seq(S) /\ Len(a) = k - 1 /\ \A i \in 1 .. k - 1 : a[i] = s[i]
  OBVIOUS
<1>2. b \in Seq(S) /\ Len(b) = Len(s) - k /\ \A i \in 1 .. Len(s) - k : b[i] = s[k + i]
  OBVIOUS
<1>3. r = a \o b
  BY Zenon DEF RemoveAt
<1>4. Len(s) \in Nat
  OBVIOUS
<1> HIDE DEF a, b, r
<1>5. r \in Seq(S) /\ Len(r) = Len(s) - 1
  BY <1>1, <1>2, <1>3, <1>4
<1>6. \A i \in 1 .. Len(s) - 1 : r[i] = IF i <= k - 1 THEN a[i] ELSE b[i - (k - 1)]
  BY <1>1, <1>2, <1>3, <1>4
<1>7. ASSUME NEW i \in 1 .. Len(s) - 1
      PROVE  r[i] = IF i < k THEN s[i] ELSE s[i + 1]
  <2>1. CASE i < k
    BY <2>1, <1>1, <1>4, <1>6
  <2>2. CASE i >= k
    <3>1. i - (k - 1) \in 1 .. Len(s) - k /\ k + (i - (k - 1)) = i + 1 /\ ~(i <= k - 1)
      BY <2>2, <1>4
    <3>2. r[i] = b[i - (k - 1)]
      BY <3>1, <1>6
    <3>3. QED
      BY <2>2, <3>1, <3>2, <1>2
  <2>3. QED
    BY <2>1, <2>2, <1>4
<1>8. QED
  BY <1>5, <1>7 DEF r

(* What is where in the last part of a sequence. *)
LEMMA LastPart ==
    ASSUME NEW S, NEW s \in Seq(S), NEW n \in Nat, n <= Len(s)
    PROVE  LET r == SubSeq(s, Len(s) - n + 1, Len(s))
           IN  /\ r \in Seq(S)
               /\ Len(r) = n
               /\ \A i \in 1 .. n : r[i] = s[Len(s) - n + i]
<1>1. Len(s) \in Nat
  OBVIOUS
<1> DEFINE k == Len(s) - n
           r == SubSeq(s, k + 1, Len(s))
<1>2. k \in 0 .. Len(s) /\ Len(s) - k = n
  BY <1>1
<1>3. ASSUME NEW j \in 0 .. Len(s)
      PROVE  LET q == SubSeq(s, j + 1, Len(s))
             IN  q \in Seq(S) /\ Len(q) = Len(s) - j /\ \A i \in 1 .. Len(s) - j : q[i] = s[j + i]
  OBVIOUS
<1> HIDE DEF k
<1>4. r \in Seq(S) /\ Len(r) = Len(s) - k /\ \A i \in 1 .. Len(s) - k : r[i] = s[k + i]
  BY <1>2, <1>3
<1>5. QED
  BY <1>2, <1>4 DEF k

-----------------------------------------------------------------------------

(* EntriesFit without the size. *)
Distinct(es) == \A i, j \in DOMAIN es : i < j => es[i].key # es[j].key

(* A result of version v that was asked for at time a: versions are made   *)
(* before they are shown, and one that replaced it is not older than the   *)
(* question.                                                               *)
Shown(v, a) == v <= db /\ (v < db => a <= writtenAt[v + 1])

(* What holds of an entry. *)
Sound(e) ==
    /\ e.asked <= e.setAt /\ e.setAt <= now
    /\ e.expiresAt = e.setAt + Ttl
    /\ Shown(e.version, e.asked)
    /\ e.version < announced => e.overlapped

EntriesAreSound == \A i \in DOMAIN entries : Sound(entries[i])

(* What holds of a call, so that what it stores is sound. *)
CallIsSound(c) ==
    /\ call[c].at \in {"selecting", "selected"} => call[c].asked <= now /\ call[c].key \in Key
    /\ call[c].at = "selected" =>
          /\ Shown(call[c].version, call[c].asked)
          /\ call[c].version < announced => call[c].overlapped
    /\ call[c].at = "written" => call[c].version <= db

CallsAreSound == \A c \in Call : CallIsSound(c)

HistoryIsSound ==
    /\ announced <= db
    /\ \A v \in 1 .. MaxWrites : v <= db => writtenAt[v] <= now

(* The inductive invariant. *)
IInv == TypeOK /\ EntriesAreSound /\ CallsAreSound /\ HistoryIsSound

-----------------------------------------------------------------------------
(* The operators on the Map. *)

(* What is known of an entry when it is found by its key. *)
LEMMA PlaceIsThere ==
    ASSUME NEW es, NEW k, Has(es, k)
    PROVE  Place(es, k) \in DOMAIN es /\ es[Place(es, k)].key = k
BY DEF Has, Place

(* What is kept when a key is deleted: the other entries.                  *)
LEMMA WithoutKeeps ==
    ASSUME NEW es \in Seq(Entry), Distinct(es), NEW k
    PROVE  LET r == Without(es, k)
           IN  /\ r \in Seq(Entry) /\ Len(r) <= Len(es)
               /\ Distinct(r)
               /\ \A i \in DOMAIN r : r[i].key # k /\ \E j \in DOMAIN es : r[i] = es[j]
<1> DEFINE r == Without(es, k)
           p == Place(es, k)
           n == Len(es)
<1>1. n \in Nat /\ DOMAIN es = 1 .. n
  OBVIOUS
<1>2. CASE ~Has(es, k)
  BY <1>2, <1>1 DEF Without, Has
<1>3. CASE Has(es, k)
  <2>1. p \in 1 .. n /\ es[p].key = k
    BY <1>1, <1>3, PlaceIsThere
  <2>2. r = RemoveAt(es, p)
    BY <1>3 DEF Without
  <2> HIDE DEF p, r
  <2>3. /\ r \in Seq(Entry) /\ Len(r) = n - 1
        /\ \A i \in 1 .. n - 1 : r[i] = IF i < p THEN es[i] ELSE es[i + 1]
    BY <2>1, <2>2, Removal
  <2>4. DOMAIN r = 1 .. n - 1
    BY <2>3
  <2> DEFINE old(i) == IF i < p THEN i ELSE i + 1
  <2>5. \A i \in 1 .. n - 1 : old(i) \in 1 .. n /\ old(i) # p /\ r[i] = es[old(i)]
    BY <1>1, <2>1, <2>3
  <2>6. \A i, j \in 1 .. n - 1 : i < j => old(i) < old(j)
    BY <1>1, <2>1
  <2> HIDE DEF old
  <2>7. \A i \in 1 .. n : i # p => es[i].key # k
    BY <1>1, <2>1 DEF Distinct
  <2>8. Distinct(r)
    BY <1>1, <2>4, <2>5, <2>6 DEF Distinct
  <2>9. \A i \in DOMAIN r : r[i].key # k /\ \E j \in DOMAIN es : r[i] = es[j]
    BY <1>1, <2>4, <2>5, <2>7
  <2>10. QED
    BY <1>1, <2>3, <2>8, <2>9 DEF r
<1>4. QED
  BY <1>2, <1>3

(* The same of get, which may delete an entry that is no longer alive. *)
LEMMA GetKeeps ==
    ASSUME NEW es \in Seq(Entry), Distinct(es), NEW k
    PROVE  LET r == Get(es, k)
           IN  /\ r \in Seq(Entry) /\ Len(r) <= Len(es)
               /\ Distinct(r)
               /\ \A i \in DOMAIN r : \E j \in DOMAIN es : r[i] = es[j]
<1>1. CASE Has(es, k) /\ now > es[Place(es, k)].expiresAt
  BY <1>1, WithoutKeeps DEF Get
<1>2. CASE ~(Has(es, k) /\ now > es[Place(es, k)].expiresAt)
  BY <1>2 DEF Get
<1>3. QED
  BY <1>1, <1>2

(* The same of set. *)
LEMMA SetKeeps ==
    ASSUME NEW es \in Seq(Entry), Distinct(es), NEW e \in Entry
    PROVE  LET r == Set(es, e)
           IN  /\ r \in Seq(Entry) /\ Len(r) <= MaxEntries
               /\ Distinct(r)
               /\ \A i \in DOMAIN r : r[i] = e \/ \E j \in DOMAIN es : r[i] = es[j]
<1> USE CacheAssumption DEF CacheAssumption
<1> DEFINE w == Without(es, e.key)
           a == Append(w, e)
           n == Len(w)
<1>1. /\ w \in Seq(Entry) /\ Distinct(w)
      /\ \A i \in DOMAIN w : w[i].key # e.key /\ \E j \in DOMAIN es : w[i] = es[j]
  BY WithoutKeeps
<1> HIDE DEF w
<1>2. n \in Nat /\ DOMAIN w = 1 .. n
  BY <1>1
<1>3. /\ a \in Seq(Entry) /\ Len(a) = n + 1 /\ DOMAIN a = 1 .. n + 1
      /\ \A i \in 1 .. n : a[i] = w[i]
      /\ a[n + 1] = e
  BY <1>1, <1>2
<1> HIDE DEF a
<1>4. Distinct(a)
  <2> SUFFICES ASSUME NEW i \in 1 .. n + 1, NEW j \in 1 .. n + 1, i < j
               PROVE  a[i].key # a[j].key
    BY <1>3 DEF Distinct
  <2>1. i \in 1 .. n /\ a[i] = w[i]
    BY <1>2, <1>3
  <2>2. CASE j = n + 1
    BY <2>1, <2>2, <1>1, <1>2, <1>3
  <2>3. CASE j # n + 1
    <3>1. j \in 1 .. n /\ a[j] = w[j]
      BY <2>3, <1>2, <1>3
    <3>2. QED
      BY <2>1, <3>1, <1>1, <1>2 DEF Distinct
  <2>4. QED
    BY <2>2, <2>3
<1>5. \A i \in 1 .. n + 1 : a[i] = e \/ \E j \in DOMAIN es : a[i] = es[j]
  <2> SUFFICES ASSUME NEW i \in 1 .. n + 1 PROVE a[i] = e \/ \E j \in DOMAIN es : a[i] = es[j]
    OBVIOUS
  <2>1. CASE i = n + 1
    BY <2>1, <1>3
  <2>2. CASE i # n + 1
    BY <2>2, <1>1, <1>2, <1>3
  <2>3. QED
    BY <2>1, <2>2
<1>6. Set(es, e) = IF Len(a) > MaxEntries
                   THEN SubSeq(a, Len(a) - MaxEntries + 1, Len(a)) ELSE a
  BY Zenon DEF Set, a, w
<1>7. CASE Len(a) <= MaxEntries
  <2>1. Set(es, e) = a
    BY <1>6, <1>7, <1>2, <1>3
  <2>2. QED
    BY <2>1, <1>3, <1>4, <1>5, <1>7
<1>8. CASE Len(a) > MaxEntries
  <2> DEFINE r == Set(es, e)
             k == Len(a) - MaxEntries
  <2>1. r = SubSeq(a, Len(a) - MaxEntries + 1, Len(a))
    BY <1>6, <1>8
  <2>2. /\ r \in Seq(Entry) /\ Len(r) = MaxEntries
        /\ \A i \in 1 .. MaxEntries : r[i] = a[k + i]
    <3>1. a \in Seq(Entry) /\ MaxEntries \in Nat /\ MaxEntries <= Len(a)
      BY <1>2, <1>3, <1>8
    <3>2. QED
      BY <2>1, <3>1, LastPart
  <2> HIDE DEF r
  <2>3. \A i \in 1 .. MaxEntries : k + i \in 1 .. n + 1
    BY <1>2, <1>3, <1>8
  <2>4. DOMAIN r = 1 .. MaxEntries
    BY <2>2
  <2>5. \A i, j \in 1 .. MaxEntries : i < j => k + i < k + j
    BY <1>2, <1>3
  <2> HIDE DEF k
  <2>6. Distinct(r)
    BY <2>2, <2>3, <2>4, <2>5, <1>3, <1>4 DEF Distinct
  <2>7. \A i \in DOMAIN r : r[i] = e \/ \E j \in DOMAIN es : r[i] = es[j]
    BY <2>2, <2>3, <2>4, <1>5
  <2>8. QED
    BY <2>2, <2>6, <2>7 DEF r
<1>9. QED
  BY <1>2, <1>3, <1>7, <1>8


-----------------------------------------------------------------------------
(* The invariant is established and preserved. *)

LEMMA InitEstablishes == Init => IInv
<1> SUFFICES ASSUME Init PROVE IInv
  OBVIOUS
<1> USE CacheAssumption DEF Init, CacheAssumption
<1>1. TypeOK
  <2>1. Idle \in CallState
    BY DEF Idle, CallState, Stage, Version, Time
  <2>2. EntriesFit
    BY DEF EntriesFit
  <2>3. QED
    BY <2>1, <2>2 DEF TypeOK, Version, Time
<1>2. EntriesAreSound /\ CallsAreSound /\ HistoryIsSound
  BY DEF EntriesAreSound, CallsAreSound, CallIsSound, HistoryIsSound, Idle
<1>3. QED
  BY <1>1, <1>2 DEF IInv

(* A lookup keeps the Map sound, whatever it deletes. *)
LEMMA LookupKeeps ==
    ASSUME TypeOK, EntriesAreSound, NEW k, entries' = Get(entries, k),
           UNCHANGED <<db, now, writtenAt, announced>>
    PROVE  entries' \in Seq(Entry) /\ EntriesFit' /\ EntriesAreSound'
<1>1. entries \in Seq(Entry) /\ Distinct(entries) /\ Len(entries) <= MaxEntries
  BY DEF TypeOK, EntriesFit, Distinct
<1>2. /\ entries' \in Seq(Entry) /\ Len(entries') <= Len(entries)
      /\ Distinct(entries')
      /\ \A i \in DOMAIN entries' : \E j \in DOMAIN entries : entries'[i] = entries[j]
  BY <1>1, GetKeeps
<1>3. EntriesFit'
  <2>1. Len(entries') <= MaxEntries
    BY <1>1, <1>2, CacheAssumption DEF CacheAssumption
  <2>2. QED
    BY <2>1, <1>2 DEF EntriesFit, Distinct
<1>4. EntriesAreSound'
  BY <1>2 DEF EntriesAreSound, Sound, Shown
<1>5. QED
  BY <1>2, <1>3, <1>4

LEMMA SelectHitsPreserves ==
    ASSUME IInv, NEW c \in Call, NEW k \in Key, SelectHits(c, k)
    PROVE  IInv'
<1> USE DEF IInv, SelectHits
<1>1. entries' \in Seq(Entry) /\ EntriesFit' /\ EntriesAreSound'
  BY LookupKeeps
<1>2. TypeOK'
  BY <1>1 DEF TypeOK
<1>3. CallsAreSound' /\ HistoryIsSound'
  BY DEF CallsAreSound, CallIsSound, HistoryIsSound, Shown
<1>4. QED
  BY <1>1, <1>2, <1>3

LEMMA SelectMissesPreserves ==
    ASSUME IInv, NEW c \in Call, NEW k \in Key, SelectMisses(c, k)
    PROVE  IInv'
<1> USE DEF IInv, SelectMisses
<1> DEFINE r == [Idle EXCEPT !.at = "selecting", !.key = k, !.asked = now]
<1>1. entries' \in Seq(Entry) /\ EntriesFit' /\ EntriesAreSound'
  BY LookupKeeps
<1>2. Idle \in CallState
  BY CacheAssumption DEF Idle, CallState, Stage, Version, Time, CacheAssumption
<1>3. r \in CallState /\ r.at = "selecting" /\ r.key = k /\ r.asked = now
  BY <1>2 DEF CallState, Stage, TypeOK
<1>4. TypeOK'
  BY <1>1, <1>3 DEF TypeOK
<1>5. \A d \in Call : call'[d] = IF d = c THEN r ELSE call[d]
  BY DEF TypeOK
<1>6. CallsAreSound'
  BY <1>3, <1>5 DEF CallsAreSound, CallIsSound, Shown, TypeOK, Time
<1>7. HistoryIsSound'
  BY DEF HistoryIsSound
<1>8. QED
  BY <1>1, <1>4, <1>6, <1>7

LEMMA SelectsPreserves ==
    ASSUME IInv, NEW c \in Call, Selects(c)
    PROVE  IInv'
<1> USE DEF IInv, Selects
<1>1. call[c] \in CallState /\ call[c].at = "selecting"
  BY DEF TypeOK
<1>2. \A d \in Call : call'[d] = IF d = c THEN [call[c] EXCEPT !.at = "selected", !.version = db]
                                            ELSE call[d]
  BY DEF TypeOK
<1>3. TypeOK'
  <2>1. [call[c] EXCEPT !.at = "selected", !.version = db] \in CallState
    BY <1>1 DEF TypeOK, CallState, Stage
  <2>2. QED
    BY <2>1 DEF TypeOK, EntriesFit
<1>4. /\ call'[c].at = "selected" /\ call'[c].version = db
      /\ call'[c].asked = call[c].asked /\ call'[c].key = call[c].key
  <2> DEFINE r == call[c]
             q == [r EXCEPT !.at = "selected", !.version = db]
  <2>1. r \in CallState
    BY <1>1
  <2> HIDE DEF r
  <2>2. q.at = "selected" /\ q.version = db /\ q.asked = r.asked /\ q.key = r.key
    BY <2>1 DEF CallState
  <2>3. QED
    BY <2>2, <1>2 DEF r
<1>5. ~(db < db) /\ db <= db /\ ~(db < announced)
  BY CacheAssumption DEF TypeOK, Version, HistoryIsSound, CacheAssumption
<1>6. CallsAreSound'
  <2> SUFFICES ASSUME NEW d \in Call PROVE CallIsSound(d)'
    BY DEF CallsAreSound
  <2>1. CASE d = c
    BY <2>1, <1>1, <1>4, <1>5 DEF CallsAreSound, CallIsSound, Shown
  <2>2. CASE d # c
    BY <2>2, <1>2 DEF CallsAreSound, CallIsSound, Shown
  <2>3. QED
    BY <2>1, <2>2
<1>7. EntriesAreSound' /\ HistoryIsSound'
  BY DEF EntriesAreSound, Sound, Shown, HistoryIsSound
<1>8. QED
  BY <1>3, <1>6, <1>7

(* Storing a result: the new entry is sound because the call was. *)
LEMMA SelectEndsPreserves ==
    ASSUME IInv, NEW c \in Call, SelectEnds(c)
    PROVE  IInv'
<1> USE CacheAssumption DEF IInv, SelectEnds, CacheAssumption
<1> DEFINE e == [key |-> call[c].key, version |-> call[c].version,
                 expiresAt |-> now + Ttl, asked |-> call[c].asked,
                 setAt |-> now, overlapped |-> call[c].overlapped]
<1>1. call[c] \in CallState /\ call[c].at = "selected" /\ call[c].key \in Key
  BY DEF TypeOK, CallsAreSound, CallIsSound
<1>2. now \in Time /\ now + Ttl \in 0 .. MaxTime + Ttl
  BY DEF TypeOK, Time
<1>3. e \in Entry
  BY <1>1, <1>2 DEF Entry, CallState
<1>4. Sound(e)
  BY <1>1 DEF Sound, CallsAreSound, CallIsSound, TypeOK, Time
<1>5. entries \in Seq(Entry) /\ Distinct(entries)
  BY DEF TypeOK, EntriesFit, Distinct
<1>6. entries' = Set(entries, e)
  OBVIOUS
<1> HIDE DEF e
<1>7. /\ entries' \in Seq(Entry) /\ Len(entries') <= MaxEntries
      /\ Distinct(entries')
      /\ \A i \in DOMAIN entries' : entries'[i] = e \/ \E j \in DOMAIN entries : entries'[i] = entries[j]
  <2>1. LET r == Set(entries, e)
        IN  /\ r \in Seq(Entry) /\ Len(r) <= MaxEntries
            /\ Distinct(r)
            /\ \A i \in DOMAIN r : r[i] = e \/ \E j \in DOMAIN entries : r[i] = entries[j]
    BY <1>3, <1>5, SetKeeps, Zenon
  <2>2. QED
    BY <2>1, <1>6, Zenon
<1>8. EntriesFit'
  BY <1>7 DEF EntriesFit, Distinct
<1>9. EntriesAreSound'
  <2>1. \A i \in DOMAIN entries' : Sound(entries'[i])
    BY <1>4, <1>7 DEF EntriesAreSound
  <2>2. QED
    BY <2>1 DEF EntriesAreSound, Sound, Shown
<1>10. Idle \in CallState
  BY DEF Idle, CallState, Stage, Version, Time
<1>11. TypeOK'
  BY <1>7, <1>8, <1>10 DEF TypeOK
<1>12. \A d \in Call : call'[d] = IF d = c THEN Idle ELSE call[d]
  BY DEF TypeOK
<1>13. CallsAreSound' /\ HistoryIsSound'
  BY <1>12 DEF CallsAreSound, CallIsSound, HistoryIsSound, Shown, Idle
<1>14. QED
  BY <1>9, <1>11, <1>13


LEMMA WriteStartsPreserves ==
    ASSUME IInv, NEW c \in Call, WriteStarts(c)
    PROVE  IInv'
<1> USE DEF IInv, WriteStarts
<1> DEFINE r == [Idle EXCEPT !.at = "writing"]
<1>1. Idle \in CallState
  BY CacheAssumption DEF Idle, CallState, Stage, Version, Time, CacheAssumption
<1>2. r \in CallState /\ r.at = "writing"
  BY <1>1 DEF CallState, Stage
<1>3. \A d \in Call : call'[d] = IF d = c THEN r ELSE call[d]
  BY DEF TypeOK
<1>4. TypeOK' /\ EntriesAreSound' /\ HistoryIsSound'
  BY <1>2 DEF TypeOK, EntriesFit, EntriesAreSound, Sound, Shown, HistoryIsSound
<1>5. CallsAreSound'
  BY <1>2, <1>3 DEF CallsAreSound, CallIsSound, Shown
<1>6. QED
  BY <1>4, <1>5

(* A new version of the database replaces the last one now, and no result  *)
(* was asked for later than that.                                          *)
LEMMA CommitKeeps ==
    ASSUME TypeOK, HistoryIsSound, Commit, UNCHANGED now
    PROVE  /\ db' \in Version /\ db' = db + 1 /\ writtenAt' \in [1 .. MaxWrites -> Time]
           /\ \A v \in Version, a \in Time : Shown(v, a) /\ a <= now => Shown(v, a)'
           /\ \A v \in 1 .. MaxWrites : v <= db' => writtenAt'[v] <= now
<1> USE CacheAssumption DEF CacheAssumption, Commit, TypeOK, Version, Time
<1>1. db' \in Version /\ db' = db + 1 /\ writtenAt' \in [1 .. MaxWrites -> Time]
  OBVIOUS
<1>2. \A v \in 1 .. MaxWrites : writtenAt'[v] = IF v = db + 1 THEN now ELSE writtenAt[v]
  OBVIOUS
<1>3. \A v \in Version, a \in Time : Shown(v, a) /\ a <= now => Shown(v, a)'
  <2> SUFFICES ASSUME NEW v \in Version, NEW a \in Time, Shown(v, a), a <= now
               PROVE  v <= db' /\ (v < db' => a <= writtenAt'[v + 1])
    BY DEF Shown
  <2>1. v <= db
    BY DEF Shown
  <2>2. CASE v = db
    BY <2>2, <1>2
  <2>3. CASE v < db
    <3>1. v + 1 \in 1 .. MaxWrites /\ v + 1 # db + 1 /\ a <= writtenAt[v + 1]
      BY <2>3 DEF Shown
    <3>2. QED
      BY <3>1, <1>2, <2>1
  <2>4. QED
    BY <2>1, <2>2, <2>3
<1>4. \A v \in 1 .. MaxWrites : v <= db' => writtenAt'[v] <= now
  BY <1>1, <1>2 DEF HistoryIsSound
<1>5. QED
  BY <1>1, <1>3, <1>4

(* What a commit leaves of the entries. *)
LEMMA CommitKeepsEntries ==
    ASSUME IInv, Commit, UNCHANGED <<entries, now, announced>>
    PROVE  EntriesAreSound' /\ HistoryIsSound'
<1> USE DEF IInv
<1>1. /\ \A v \in Version, a \in Time : Shown(v, a) /\ a <= now => Shown(v, a)'
      /\ \A v \in 1 .. MaxWrites : v <= db' => writtenAt'[v] <= now
      /\ db' = db + 1
  BY CommitKeeps
<1>2. EntriesAreSound'
  <2> SUFFICES ASSUME NEW i \in DOMAIN entries PROVE Sound(entries[i])'
    BY DEF EntriesAreSound
  <2> DEFINE e == entries[i]
  <2>1. e \in Entry /\ Sound(e)
    BY DEF TypeOK, EntriesAreSound
  <2>2. e.version \in Version /\ e.asked \in Time /\ e.setAt \in Time
    BY <2>1 DEF Entry
  <2>3. e.asked <= now
    BY <2>1, <2>2, CacheAssumption DEF Sound, Time, TypeOK, CacheAssumption
  <2>4. Shown(e.version, e.asked)'
    BY <1>1, <2>1, <2>2, <2>3 DEF Sound
  <2>5. QED
    BY <2>1, <2>4 DEF Sound
<1>3. announced <= db'
  BY <1>1, CacheAssumption DEF HistoryIsSound, TypeOK, Version, CacheAssumption
<1>4. HistoryIsSound'
  BY <1>1, <1>3 DEF HistoryIsSound
<1>5. QED
  BY <1>2, <1>4

(* What a commit leaves of a call that does not change. *)
LEMMA CommitKeepsCall ==
    ASSUME IInv, Commit, UNCHANGED <<now, announced>>, NEW d \in Call, call'[d] = call[d]
    PROVE  CallIsSound(d)'
<1> USE DEF IInv
<1>1. /\ \A v \in Version, a \in Time : Shown(v, a) /\ a <= now => Shown(v, a)'
      /\ db' = db + 1 /\ db \in Nat
  BY CommitKeeps, CacheAssumption DEF TypeOK, Version, CacheAssumption
<1>2. call[d].version \in Version /\ call[d].asked \in Time
  BY DEF TypeOK, CallState
<1>3. call[d].at = "written" => call[d].version <= db'
  BY <1>1, <1>2, CacheAssumption DEF CallsAreSound, CallIsSound, Version, CacheAssumption
<1>4. call[d].at = "selected" => Shown(call[d].version, call[d].asked)'
  BY <1>1, <1>2 DEF CallsAreSound, CallIsSound
<1>5. CallIsSound(d)
  BY DEF CallsAreSound
<1>6. QED
  BY <1>3, <1>4, <1>5 DEF CallIsSound

LEMMA WritesPreserves ==
    ASSUME IInv, NEW c \in Call, Writes(c)
    PROVE  IInv'
<1> USE DEF IInv, Writes
<1>1. EntriesAreSound' /\ HistoryIsSound'
  BY CommitKeepsEntries
<1>2. db' \in Version /\ db' = db + 1 /\ writtenAt' \in [1 .. MaxWrites -> Time]
  BY CommitKeeps
<1> DEFINE r == call[c]
           q == [r EXCEPT !.at = "written", !.version = db + 1]
<1>3. r \in CallState
  BY DEF TypeOK
<1>4. \A d \in Call : call'[d] = IF d = c THEN q ELSE call[d]
  BY DEF TypeOK
<1> HIDE DEF r
<1>5. q \in CallState /\ q.at = "written" /\ q.version = db + 1
  BY <1>2, <1>3 DEF CallState, Stage
<1> HIDE DEF q
<1>6. call' \in [Call -> CallState]
  <2>1. call' = [call EXCEPT ![c] = q]
    BY DEF q, r
  <2>2. QED
    BY <2>1, <1>5 DEF TypeOK
<1>7. TypeOK'
  BY <1>2, <1>6 DEF TypeOK, EntriesFit
<1>8. CallsAreSound'
  <2>1. ASSUME NEW d \in Call, d # c
        PROVE  CallIsSound(d)'
    <3>1. call'[d] = call[d]
      BY <2>1, <1>4
    <3>2. QED
      BY <3>1, CommitKeepsCall
  <2>2. call'[c].at = "written" /\ call'[c].version = db'
    BY <1>2, <1>4, <1>5
  <2>3. db' <= db'
    BY <1>2, CacheAssumption DEF Version, CacheAssumption
  <2>4. CallIsSound(c)'
    BY <2>2, <2>3 DEF CallIsSound
  <2>5. QED
    BY <2>1, <2>4 DEF CallsAreSound
<1>9. QED
  BY <1>1, <1>7, <1>8

LEMMA OtherWritePreserves ==
    ASSUME IInv, OtherWrite
    PROVE  IInv'
<1> USE DEF IInv, OtherWrite
<1>1. EntriesAreSound' /\ HistoryIsSound'
  BY CommitKeepsEntries
<1>2. db' \in Version /\ writtenAt' \in [1 .. MaxWrites -> Time]
  BY CommitKeeps
<1>3. TypeOK'
  BY <1>2 DEF TypeOK, EntriesFit
<1>4. CallsAreSound'
  <2>1. \A d \in Call : call'[d] = call[d]
    OBVIOUS
  <2>2. QED
    BY <2>1, CommitKeepsCall DEF CallsAreSound
<1>5. QED
  BY <1>1, <1>3, <1>4


(* The report of a write clears the cache and marks what is in flight: a   *)
(* result of an older version that comes later is one of those marked.     *)
LEMMA WriteEndsPreserves ==
    ASSUME IInv, NEW c \in Call, WriteEnds(c)
    PROVE  IInv'
<1> USE CacheAssumption DEF IInv, WriteEnds, CacheAssumption
<1>1. entries' \in Seq(Entry) /\ EntriesFit' /\ EntriesAreSound'
  BY DEF EntriesFit, EntriesAreSound
<1>2. Idle \in CallState
  BY DEF Idle, CallState, Stage, Version, Time
<1>3. ASSUME NEW d \in Call
      PROVE  /\ call'[d] \in CallState
             /\ \/ call'[d] = Idle
                \/ /\ call[d].at \in {"selecting", "selected"}
                   /\ call'[d].overlapped
                   /\ \A f \in {"at", "key", "version", "asked"} : call'[d][f] = call[d][f]
                \/ call'[d] = call[d] /\ call[d].at \notin {"selecting", "selected"}
  <2> DEFINE r == call[d]
             q == [r EXCEPT !.overlapped = TRUE]
  <2>1. r \in CallState
    BY DEF TypeOK
  <2>2. call'[d] = IF d = c THEN Idle
                   ELSE IF r.at \in {"selecting", "selected"} THEN q ELSE r
    BY DEF Marked
  <2> HIDE DEF r
  <2>3. q \in CallState /\ q.overlapped /\ \A f \in {"at", "key", "version", "asked"} : q[f] = r[f]
    BY <2>1 DEF CallState
  <2> HIDE DEF q
  <2>4. QED
    BY <1>2, <2>1, <2>2, <2>3 DEF r
<1>4. call' \in [Call -> CallState]
  BY <1>3 DEF Marked
<1>5. announced' \in Version /\ announced' <= db
  <2>1. call[c].version \in Version /\ call[c].version <= db
    BY DEF TypeOK, CallState, CallsAreSound, CallIsSound
  <2>2. QED
    BY <2>1 DEF TypeOK, HistoryIsSound
<1>6. TypeOK'
  BY <1>1, <1>4, <1>5 DEF TypeOK
<1>7. CallsAreSound'
  <2> SUFFICES ASSUME NEW d \in Call PROVE CallIsSound(d)'
    BY DEF CallsAreSound
  <2>1. CallIsSound(d)
    BY DEF CallsAreSound
  <2>2. CASE call'[d] = Idle
    BY <2>2 DEF CallIsSound, Idle
  <2>3. CASE /\ call[d].at \in {"selecting", "selected"}
             /\ call'[d].overlapped
             /\ \A f \in {"at", "key", "version", "asked"} : call'[d][f] = call[d][f]
    <3>1. /\ call'[d].at = call[d].at /\ call'[d].key = call[d].key
          /\ call'[d].version = call[d].version /\ call'[d].asked = call[d].asked
      BY <2>3
    <3>2. QED
      BY <2>1, <2>3, <3>1 DEF CallIsSound, Shown
  <2>4. CASE call'[d] = call[d] /\ call[d].at \notin {"selecting", "selected"}
    BY <2>1, <2>4 DEF CallIsSound
  <2>5. QED
    BY <1>3, <2>2, <2>3, <2>4
<1>8. HistoryIsSound'
  BY <1>5 DEF HistoryIsSound
<1>9. QED
  BY <1>1, <1>6, <1>7, <1>8

LEMMA FailsPreserves ==
    ASSUME IInv, NEW c \in Call, Fails(c)
    PROVE  IInv'
<1> USE CacheAssumption DEF IInv, Fails, CacheAssumption
<1>1. Idle \in CallState
  BY DEF Idle, CallState, Stage, Version, Time
<1>2. \A d \in Call : call'[d] = IF d = c THEN Idle ELSE call[d]
  BY DEF TypeOK
<1>3. TypeOK' /\ EntriesAreSound' /\ HistoryIsSound'
  BY <1>1 DEF TypeOK, EntriesFit, EntriesAreSound, Sound, Shown, HistoryIsSound
<1>4. CallsAreSound'
  BY <1>2 DEF CallsAreSound, CallIsSound, Shown, Idle
<1>5. QED
  BY <1>3, <1>4

LEMMA ShutdownPreserves ==
    ASSUME IInv, Shutdown
    PROVE  IInv'
BY CacheAssumption DEF IInv, Shutdown, TypeOK, EntriesFit, EntriesAreSound, CallsAreSound,
   CallIsSound, Shown, HistoryIsSound, CacheAssumption

LEMMA TickPreserves ==
    ASSUME IInv, Tick
    PROVE  IInv'
<1> USE CacheAssumption DEF IInv, Tick, CacheAssumption
<1>1. now \in Nat /\ now' = now + 1 /\ now' \in Time
  BY DEF TypeOK, Time
<1>2. TypeOK'
  BY <1>1 DEF TypeOK, EntriesFit
<1>3. EntriesAreSound'
  <2> SUFFICES ASSUME NEW i \in DOMAIN entries PROVE Sound(entries[i])'
    BY DEF EntriesAreSound
  <2> DEFINE e == entries[i]
  <2>1. Sound(e) /\ e \in Entry
    BY DEF EntriesAreSound, TypeOK
  <2>2. e.setAt \in Time
    BY <2>1 DEF Entry
  <2>3. QED
    BY <1>1, <2>1, <2>2 DEF Sound, Shown, Time
<1>4. CallsAreSound'
  <2> SUFFICES ASSUME NEW d \in Call PROVE CallIsSound(d)'
    BY DEF CallsAreSound
  <2>1. CallIsSound(d) /\ call[d].asked \in Time
    BY DEF CallsAreSound, TypeOK, CallState
  <2>2. QED
    BY <1>1, <2>1 DEF CallIsSound, Shown, Time
<1>5. HistoryIsSound'
  <2> SUFFICES ASSUME NEW v \in 1 .. MaxWrites, v <= db PROVE writtenAt[v] <= now'
    BY DEF HistoryIsSound
  <2>1. writtenAt[v] <= now /\ writtenAt[v] \in Time
    BY DEF HistoryIsSound, TypeOK
  <2>2. QED
    BY <1>1, <2>1 DEF Time
<1>6. QED
  BY <1>2, <1>3, <1>4, <1>5

LEMMA NextPreserves == IInv /\ [Next]_vars => IInv'
<1> SUFFICES ASSUME IInv, [Next]_vars PROVE IInv'
  OBVIOUS
<1>1. CASE UNCHANGED vars
  BY <1>1 DEF IInv, vars, TypeOK, EntriesFit, EntriesAreSound, Sound, CallsAreSound, CallIsSound,
     Shown, HistoryIsSound
<1>2. CASE Next
  BY <1>2, SelectHitsPreserves, SelectMissesPreserves, SelectsPreserves, SelectEndsPreserves,
     WriteStartsPreserves, WritesPreserves, WriteEndsPreserves, FailsPreserves,
     OtherWritePreserves, ShutdownPreserves, TickPreserves
     DEF Next
<1>3. QED
  BY <1>1, <1>2

(* What the cache holds at any time. *)
LEMMA InvariantHolds == Spec => []IInv
BY InitEstablishes, NextPreserves, PTL DEF Spec

-----------------------------------------------------------------------------
(* The properties. *)

(* The Map is a map within its size, and every variable has its type.      *)
THEOREM MapStaysWithinItsSize == Spec => []TypeOK
BY InvariantHolds, PTL DEF IInv

(* An entry that can be hit shows nothing that was replaced longer ago     *)
(* than the ttl and the time its own SELECT took.                          *)
THEOREM HitsAreFresh == Spec => []StalenessIsBounded
<1>1. IInv => StalenessIsBounded
  <2> SUFFICES ASSUME IInv, NEW i \in DOMAIN entries,
                      now <= entries[i].expiresAt, entries[i].version < db
               PROVE  now <= writtenAt[entries[i].version + 1] + Ttl
                               + (entries[i].setAt - entries[i].asked)
    BY DEF StalenessIsBounded
  <2> DEFINE e == entries[i]
  <2>1. e \in Entry /\ Sound(e)
    BY DEF IInv, TypeOK, EntriesAreSound
  <2>2. e.asked \in Time /\ e.setAt \in Time /\ e.version \in Version
    BY <2>1 DEF Entry
  <2>3. e.expiresAt = e.setAt + Ttl /\ e.asked <= writtenAt[e.version + 1]
    BY <2>1 DEF Sound, Shown
  <2>4. e.version + 1 \in 1 .. MaxWrites
    BY <2>2, CacheAssumption DEF IInv, TypeOK, Version, CacheAssumption
  <2>5. writtenAt[e.version + 1] \in Time /\ now \in Time
    BY <2>4 DEF IInv, TypeOK
  <2> HIDE DEF e
  <2>6. now <= writtenAt[e.version + 1] + Ttl + (e.setAt - e.asked)
    <3>1. now <= e.setAt + Ttl
      BY <2>3 DEF e
    <3>2. QED
      BY <3>1, <2>2, <2>3, <2>5, CacheAssumption DEF Time, CacheAssumption
  <2>7. QED
    BY <2>6 DEF e
<1>2. QED
  BY <1>1, InvariantHolds, PTL

(* An entry older than a reported write comes from a SELECT that was in    *)
(* flight at the report.                                                   *)
THEOREM OnlyOverlapsAreStale == Spec => []StaleOnlyByOverlap
<1>1. IInv => StaleOnlyByOverlap
  BY DEF IInv, EntriesAreSound, Sound, StaleOnlyByOverlap
<1>2. QED
  BY <1>1, InvariantHolds, PTL

=============================================================================
