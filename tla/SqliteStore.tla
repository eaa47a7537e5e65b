---------------------------- MODULE SqliteStore ----------------------------
(***************************************************************************)
(* The SQLite backend store (src/src/driver/sqlite/store.ts) and the pool  *)
(* handles over it (SqlitePoolHandle): one backend per file, shared by     *)
(* reference count and found by path; ':memory:' always makes a new one.   *)
(*                                                                         *)
(* getSqliteBackend awaits the import of the backend class, so it is two   *)
(* steps: the code before (AskBackend) and the code after (BackendOpens,   *)
(* BackendFails). All handles of the model name the same file.             *)
(***************************************************************************)
EXTENDS DbConnections

VARIABLES
    dialect,    \* which driver the behaviour is about
    db,         \* the database, see DbConnections
    entry,      \* instances.get(key).backend, NoConn where there is no record
    entryRefs,  \* instances.get(key).refs
    opening,    \* who awaits createBackend: handles, and calls of testConnection
    promise,    \* handle.backendPromise, see below
    field,      \* handle.backend
    destroyed,  \* handles whose destroyedFlag is set
    raced       \* history: a creation has overwritten the record of another

storeVars == <<entry, entryRefs, opening, promise, field, raced>>

(* backendPromise: NoConn is null, a connection is what it fulfilled with. *)
Pending == -1
Rejected == -2

File == dialect = "sqlite"

StoreInit ==
    /\ db = NoDatabaseYet
    /\ entry = NoConn /\ entryRefs = 0 /\ opening = {}
    /\ promise = [h \in Handle |-> NoConn]
    /\ field = [h \in Handle |-> NoConn]
    /\ destroyed = {} /\ raced = FALSE

(* The part of getSqliteBackend before its await; what it returns at once, *)
(* Pending when r has to wait for a backend to be made.                    *)
Found == IF File /\ entry # NoConn THEN entry ELSE Pending

AskBackend(r) ==
    /\ entryRefs' = IF Found = Pending THEN entryRefs ELSE entryRefs + 1
    /\ opening' = IF Found = Pending THEN opening \cup {r} ELSE opening
    /\ UNCHANGED <<db, entry, raced>>

(* Bug: whoever makes the record does not count as its user. *)
BugBackendOpens(r) ==
    /\ r \in opening /\ db.made < MaxConns
    /\ db' = Opened(db, <<NoHandle, 0>>)
    /\ opening' = opening \ {r}
    /\ entry' = IF File THEN db'.made ELSE entry
    /\ entryRefs' = IF File THEN 0 ELSE entryRefs
    /\ raced' = (raced \/ entry # NoConn)

(* createBackend fulfils: the record is stored, over one that was made in  *)
(* the meantime.                                                           *)
BackendOpens(r) ==
    /\ r \in opening /\ db.made < MaxConns
    /\ db' = Opened(db, <<NoHandle, 0>>)
    /\ opening' = opening \ {r}
    /\ entry' = IF File THEN db'.made ELSE entry
    /\ entryRefs' = IF File THEN 1 ELSE entryRefs
    /\ raced' = (raced \/ entry # NoConn)

BackendFails(r) ==
    /\ r \in opening
    /\ opening' = opening \ {r}
    /\ UNCHANGED <<db, entry, entryRefs, raced>>

(* Bug: a missing record is not noticed. *)
BugReleaseBackend ==
    /\ entryRefs' = entryRefs - 1
    /\ entry' = IF entryRefs <= 1 THEN NoConn ELSE entry
    /\ db' = IF entry # NoConn /\ entryRefs <= 1 THEN Close(db, entry) ELSE db

(* releaseSqliteBackend: by path, whichever backend the caller had. *)
ReleaseBackend ==
    /\ entryRefs' = IF entry = NoConn THEN 0 ELSE entryRefs - 1
    /\ entry' = IF entryRefs <= 1 THEN NoConn ELSE entry
    /\ db' = IF entry # NoConn /\ entryRefs <= 1 THEN Close(db, entry) ELSE db

(* SqlitePoolHandle.destroy: only what this.backend holds is given back; a *)
(* backend that is still awaited is not.                                   *)
DestroyStoreHandle(h) ==
    /\ h \notin destroyed
    /\ destroyed' = destroyed \cup {h}
    /\ field' = [field EXCEPT ![h] = NoConn]
    /\ promise' = IF field[h] = NoConn THEN promise ELSE [promise EXCEPT ![h] = NoConn]
    /\ CASE field[h] = NoConn -> UNCHANGED <<db, entry, entryRefs>>
         [] field[h] # NoConn /\ File -> ReleaseBackend
         [] OTHER -> db' = Close(db, field[h]) /\ UNCHANGED <<entry, entryRefs>>
    /\ UNCHANGED <<opening, raced>>

=============================================================================
