--------------------------- MODULE DbConnections ---------------------------
(***************************************************************************)
(* The databases behind the drivers: connections, what a statement on a    *)
(* connection does, and transactions on it. None of this is code of the    *)
(* repository; it is what SQLite, MySQL, PostgreSQL and MongoDB do with    *)
(* the statements that the drivers send.                                   *)
(*                                                                         *)
(* A database is a value d and a statement an operator that maps it to     *)
(* the next one, so that a driver step can send several in a row.          *)
(***************************************************************************)
EXTENDS Integers, FiniteSets

CONSTANTS
    Call,       \* calls of the application to a driver
    NoCall,
    Handle,     \* pool handles, all for one database
    NoHandle,
    MaxConns    \* bound of the model: connections ever opened

ASSUME ConnectionAssumption ==
    /\ MaxConns \in Nat
    /\ IsFiniteSet(Call) /\ IsFiniteSet(Handle) /\ Call \cap Handle = {}
    /\ NoCall \notin Call
    /\ NoHandle \notin Handle

(* "memory" is a SQLite handle on ':memory:'; mariadb is mysql here. *)
Dialect == {"sqlite", "memory", "mysql", "postgresql", "mongodb"}

Conn == 1 .. MaxConns
NoConn == 0

(* Each call writes once or twice; a write is told by its call and number. *)
Write == Call \X (1 .. 2)

(* The pool instances of a handle, numbered; <<NoHandle, 0>> owns what     *)
(* belongs to no pool.                                                     *)
Instance == (Handle \X Nat) \cup {<<NoHandle, 0>>}

Database == [made : 0 .. MaxConns,                \* connections opened so far
             open : SUBSET Conn,
             home : [Conn -> Instance],           \* the pool that opened it
             txOf : [Conn -> Call \cup {NoCall}], \* who began its open transaction
             aborted : SUBSET Conn,               \* PostgreSQL: a statement failed in it
             dirty : [Conn -> SUBSET Write],      \* written in the open transaction
             durable : SUBSET Write,              \* committed
             written : SUBSET Write]              \* carried out, committed or not

NoDatabaseYet ==
    [made |-> 0, open |-> {}, home |-> [b \in Conn |-> <<NoHandle, 0>>],
     txOf |-> [b \in Conn |-> NoCall], aborted |-> {},
     dirty |-> [b \in Conn |-> {}], durable |-> {}, written |-> {}]

Opened(d, i) ==
    [d EXCEPT !.made = @ + 1, !.open = @ \cup {d.made + 1}, !.home[d.made + 1] = i]

Commit(d, b) ==
    [d EXCEPT !.durable = IF b \in d.aborted THEN @ ELSE @ \cup d.dirty[b],
              !.dirty[b] = {}, !.txOf[b] = NoCall, !.aborted = @ \ {b}]

Rollback(d, b) ==
    [d EXCEPT !.dirty[b] = {}, !.txOf[b] = NoCall, !.aborted = @ \ {b}]

(* MySQL commits an open transaction when another begins; PostgreSQL goes  *)
(* on with it, SQLite refuses, see CanBegin.                               *)
Begin(d, b, c, dialect) ==
    [IF dialect = "mysql" THEN Commit(d, b) ELSE d EXCEPT !.txOf[b] = c]

Exec(d, b, w) ==
    [IF d.txOf[b] = NoCall THEN [d EXCEPT !.durable = @ \cup {w}]
                           ELSE [d EXCEPT !.dirty[b] = @ \cup {w}] EXCEPT !.written = @ \cup {w}]

(* What call c wrote is undone and will be written anew. *)
Forgotten(d, c) == [d EXCEPT !.written = {w \in @ : w[1] # c}]

(* A statement fails: PostgreSQL then refuses all others until the end of  *)
(* the transaction, whose COMMIT it answers with a ROLLBACK.               *)
Fail(d, b, dialect) ==
    IF dialect = "postgresql" /\ d.txOf[b] # NoCall THEN [d EXCEPT !.aborted = @ \cup {b}] ELSE d

Close(d, b) == [Rollback(d, b) EXCEPT !.open = @ \ {b}]

CloseAll(d, S) ==
    [d EXCEPT !.open = @ \ S, !.aborted = @ \ S,
              !.dirty = [b \in Conn |-> IF b \in S THEN {} ELSE @[b]],
              !.txOf = [b \in Conn |-> IF b \in S THEN NoCall ELSE @[b]]]

(* SQLite: another connection holds the write lock of the file. *)
Busy(d, b, dialect) ==
    dialect = "sqlite" /\ \E o \in d.open \ {b} : d.txOf[o] # NoCall

CanWrite(d, b, dialect) == b \in d.open /\ b \notin d.aborted /\ ~Busy(d, b, dialect)

CanBegin(d, b, dialect) ==
    /\ CanWrite(d, b, dialect)
    /\ dialect \in {"sqlite", "memory"} => d.txOf[b] = NoCall

=============================================================================
