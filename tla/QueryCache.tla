----------------------------- MODULE QueryCache -----------------------------
(***************************************************************************)
(* The cache of query results: TtlCache (src/src/core/cache.ts) as         *)
(* DbClient.run (src/src/client/client.ts) and SqlEngine.runSql            *)
(* (src/src/facade/engine.ts) use it. A SELECT is answered from the cache  *)
(* or sent to the database and stored; every other statement clears the    *)
(* cache once it has succeeded. Statements of concurrent calls overlap.    *)
(*                                                                         *)
(* A result is the version of the database that it shows: the number of    *)
(* writes before it. Other connections and transactions write too, without *)
(* any word to this cache.                                                 *)
(***************************************************************************)
EXTENDS Integers, Sequences, SequencesExt

CONSTANTS
    Call,         \* the concurrent calls
    Key,          \* queryCacheKey of the SELECTs in use
    NoKey,
    Ttl,          \* ttlMs
    MaxEntries,   \* maxEntries
    MaxTime,      \* bound of the model: largest value of the clock
    MaxWrites     \* bound of the model: writes

ASSUME CacheAssumption ==
    /\ Ttl \in Nat /\ MaxEntries \in Nat /\ MaxTime \in Nat /\ MaxWrites \in Nat
    /\ NoKey \notin Key

VARIABLES
    entries,    \* the Map, in its insertion order
    db,         \* the version of the database
    call,       \* each call, see Idle
    now,        \* Date.now()
    writtenAt,  \* history: when each write was committed
    announced   \* history: the last version a write reported to this cache

vars == <<entries, db, call, now, writtenAt, announced>>

Version == 0 .. MaxWrites
Time == 0 .. MaxTime

(* asked, setAt: when the SELECT was sent and its result stored;           *)
(* overlapped: history, the cache was cleared while it was in flight.      *)
Entry == [key : Key, version : Version, expiresAt : 0 .. MaxTime + Ttl,
          asked : Time, setAt : Time, overlapped : BOOLEAN]

(* selecting, writing: in the driver, the database has not done it yet;    *)
(* selected, written: the database has, the answer is on its way.          *)
Stage == {"idle", "selecting", "selected", "writing", "written"}
CallState == [at : Stage, key : Key \cup {NoKey}, version : Version,
              asked : Time, overlapped : BOOLEAN]

Idle == [at |-> "idle", key |-> NoKey, version |-> 0, asked |-> 0, overlapped |-> FALSE]

Init ==
    /\ entries = <<>> /\ db = 0 /\ now = 0
    /\ call = [c \in Call |-> Idle]
    /\ writtenAt = [v \in 1 .. MaxWrites |-> 0]
    /\ announced = 0

Has(es, k) == \E i \in DOMAIN es : es[i].key = k

Place(es, k) == CHOOSE i \in DOMAIN es : es[i].key = k

Without(es, k) == IF Has(es, k) THEN RemoveAt(es, Place(es, k)) ELSE es

(* Bug: every hit prolongs the life of its entry. *)
BugGet(es, k) ==
    IF ~Has(es, k) THEN es
    ELSE IF now > es[Place(es, k)].expiresAt THEN Without(es, k)
    ELSE [es EXCEPT ![Place(es, k)].expiresAt = now + Ttl]

(* What get leaves of the Map: an entry found expired is deleted. *)
Get(es, k) == IF Has(es, k) /\ now > es[Place(es, k)].expiresAt THEN Without(es, k) ELSE es

(* Bug: room is made before the entry is added. *)
BugSet(es, e) ==
    LET added == Append(Without(es, e.key), e)
    IN  IF Len(es) > MaxEntries
        THEN SubSeq(added, Len(added) - MaxEntries + 1, Len(added)) ELSE added

(* set: the entry goes to the end, the first ones make room. *)
Set(es, e) ==
    LET added == Append(Without(es, e.key), e)
    IN  IF Len(added) > MaxEntries
        THEN SubSeq(added, Len(added) - MaxEntries + 1, Len(added)) ELSE added

-----------------------------------------------------------------------------

(* A SELECT with a live entry: answered at once. *)
SelectHits(c, k) ==
    /\ call[c] = Idle
    /\ Has(Get(entries, k), k)
    /\ entries' = Get(entries, k)
    /\ UNCHANGED <<db, call, now, writtenAt, announced>>

SelectMisses(c, k) ==
    /\ call[c] = Idle
    /\ ~Has(Get(entries, k), k)
    /\ entries' = Get(entries, k)
    /\ call' = [call EXCEPT ![c] = [Idle EXCEPT !.at = "selecting", !.key = k, !.asked = now]]
    /\ UNCHANGED <<db, now, writtenAt, announced>>

(* The database evaluates the SELECT. *)
Selects(c) ==
    /\ call[c].at = "selecting"
    /\ call' = [call EXCEPT ![c].at = "selected", ![c].version = db]
    /\ UNCHANGED <<entries, db, now, writtenAt, announced>>

(* The result arrives and is stored, whatever happened in the meantime. *)
SelectEnds(c) ==
    /\ call[c].at = "selected"
    /\ entries' = Set(entries, [key |-> call[c].key, version |-> call[c].version,
                                expiresAt |-> now + Ttl, asked |-> call[c].asked,
                                setAt |-> now, overlapped |-> call[c].overlapped])
    /\ call' = [call EXCEPT ![c] = Idle]
    /\ UNCHANGED <<db, now, writtenAt, announced>>

WriteStarts(c) ==
    /\ call[c] = Idle
    /\ call' = [call EXCEPT ![c] = [Idle EXCEPT !.at = "writing"]]
    /\ UNCHANGED <<entries, db, now, writtenAt, announced>>

Commit ==
    /\ db < MaxWrites
    /\ db' = db + 1
    /\ writtenAt' = [writtenAt EXCEPT ![db + 1] = now]

(* The database carries out the write of a call. *)
Writes(c) ==
    /\ call[c].at = "writing"
    /\ Commit
    /\ call' = [call EXCEPT ![c].at = "written", ![c].version = db + 1]
    /\ UNCHANGED <<entries, now, announced>>

(* History: the calls whose SELECT is in flight now. *)
Marked(c) ==
    [d \in Call |-> IF d = c THEN Idle
                    ELSE IF call[d].at \in {"selecting", "selected"}
                         THEN [call[d] EXCEPT !.overlapped = TRUE] ELSE call[d]]

(* Bug: the cache is not cleared. *)
BugWriteEnds(c) ==
    /\ call[c].at = "written"
    /\ call' = Marked(c)
    /\ announced' = IF announced < call[c].version THEN call[c].version ELSE announced
    /\ UNCHANGED <<entries, db, now, writtenAt>>

(* The write is reported: the cache is cleared. *)
WriteEnds(c) ==
    /\ call[c].at = "written"
    /\ entries' = <<>>
    /\ call' = Marked(c)
    /\ announced' = IF announced < call[c].version THEN call[c].version ELSE announced
    /\ UNCHANGED <<db, now, writtenAt>>

(* The driver throws, before or after the database has done its part: the  *)
(* cache is left as it is.                                                 *)
Fails(c) ==
    /\ call[c] # Idle
    /\ call' = [call EXCEPT ![c] = Idle]
    /\ UNCHANGED <<entries, db, now, writtenAt, announced>>

(* A transaction of this client, or another client, writes. *)
OtherWrite ==
    /\ Commit
    /\ UNCHANGED <<entries, call, now, announced>>

(* engine.destroyAll, for the exit of the application: once no call runs. *)
Shutdown ==
    /\ \A c \in Call : call[c] = Idle
    /\ entries' = <<>>
    /\ UNCHANGED <<db, call, now, writtenAt, announced>>

Tick ==
    /\ now < MaxTime
    /\ now' = now + 1
    /\ UNCHANGED <<entries, db, call, writtenAt, announced>>

Next ==
    \/ \E c \in Call, k \in Key : SelectHits(c, k) \/ SelectMisses(c, k)
    \/ \E c \in Call : Selects(c) \/ SelectEnds(c) \/ WriteStarts(c) \/ Writes(c)
                       \/ WriteEnds(c) \/ Fails(c)
    \/ OtherWrite \/ Shutdown \/ Tick

Spec == Init /\ [][Next]_vars

-----------------------------------------------------------------------------

(* The Map never outgrows maxEntries and has one entry per key. Which one  *)
(* eviction takes is no part of this.                                      *)
EntriesFit ==
    /\ Len(entries) <= MaxEntries
    /\ \A i, j \in DOMAIN entries : i < j => entries[i].key # entries[j].key

TypeOK ==
    /\ entries \in Seq(Entry) /\ EntriesFit
    /\ db \in Version /\ now \in Time
    /\ call \in [Call -> CallState]
    /\ writtenAt \in [1 .. MaxWrites -> Time]
    /\ announced \in Version

(* An entry that can still be hit may show an old version, but not one     *)
(* that was replaced longer ago than ttlMs and the time its own SELECT     *)
(* took: hits do not prolong its life, nor do SELECTs of other calls.      *)
StalenessIsBounded ==
    \A i \in DOMAIN entries :
        LET e == entries[i] IN
        (now <= e.expiresAt /\ e.version < db) =>
            now <= writtenAt[e.version + 1] + Ttl + (e.setAt - e.asked)

(* An entry older than a write that was reported to this cache comes from  *)
(* a SELECT that was in flight when the cache was cleared: no other order  *)
(* of calls, failures and clears leaves one behind.                        *)
StaleOnlyByOverlap ==
    \A i \in DOMAIN entries : entries[i].version < announced => entries[i].overlapped

=============================================================================
