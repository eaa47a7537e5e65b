--------------------------- MODULE DriverAnswers ---------------------------
(***************************************************************************)
(* What the drivers answer: one call of DbClient to a driver, a statement  *)
(* or an export of all table schemas, which sends several statements while *)
(* others change the database between them.                                *)
(*                                                                         *)
(* The database has some tables and, in one of them, rows that are only    *)
(* counted. Every version of a table's definition has a number of its own, *)
(* 0 where there is no table. A statement is a text of SqlText, analysed   *)
(* by the drivers and read by the database. Texts that are not Statements  *)
(* are only analysed.                                                      *)
(***************************************************************************)
EXTENDS SqlText

CONSTANTS
    Alphabet, MaxText,  \* bounds of the model: the texts that are only analysed
    Statements,         \* bound of the model: the texts that are sent
    Table,
    Options,            \* values of config.dml
    NoOptions,          \* config.dml is undefined
    MaxRows, MaxOthers  \* bounds of the model: rows of the table, changes by others

ASSUME AnswerAssumption ==
    /\ MaxText \in Nat /\ MaxRows \in Nat /\ MaxOthers \in Nat
    /\ Options \subseteq [where : BOOLEAN, max : Nat, returning : BOOLEAN]
    /\ NoOptions \notin Options
    /\ Statements \subseteq Seq(STRING) /\ Alphabet \subseteq STRING
    /\ Table # {}

VARIABLES
    about,      \* what the behaviour is about: a text, a statement that is sent, an export
    text,       \* request.sql
    dialect,    \* mariadb is mysql here
    own,        \* dml of the client's config
    pooled,     \* dml of the config that the shared pool was made with
    readOnly,   \* selectOnly of the client's config
    rows,       \* the database: rows of the table the statements are about
    shape,      \* the database: version of each table
    call,       \* the call, see CallRecord
    answer,     \* what it settled with
    schemas,    \* the schemas it has collected, by table
    others,     \* changes that others have made
    saw,        \* history: the rows and versions that there were since the call began
    changed,    \* history: the rows that the call has changed
    lost        \* history: tables one of whose queries failed

vars == <<about, text, dialect, own, pooled, readOnly, rows, shape, call, answer, schemas, others, saw, changed, lost>>

config == <<about, text, dialect, own, pooled, readOnly>>
database == <<rows, shape, others, saw>>

Dialect == {"sqlite", "mysql", "postgresql", "mongodb"}

(* NoTotal: the field is not in the result. NoParts: no schema yet. *)
NoTotal == -1
NoParts == <<>>

CallRecord == [st : {"none", "write", "readback", "pass", "count", "page", "list", "tables", "rest", "done"},
               tx : BOOLEAN,            \* a statement of a transaction
               limit : 0 .. 1, offset : 0 .. 1,
               aggregate : BOOLEAN,     \* mongodb: noql made a pipeline and no query
               count : 0 .. MaxRows,    \* the result of the first of two statements
               todo : SUBSET Table, table : Table, first : Nat]

Errors == {"", "READ_ONLY", "DML_BLOCKED", "QUERY_FAILED", "TABLE_NOT_FOUND"}
Answer == [error : Errors, affected : 0 .. MaxRows, returned : 0 .. MaxRows,
           rows : 0 .. MaxRows, total : 0 .. MaxRows \cup {NoTotal}]
Empty == [error |-> "", affected |-> 0, returned |-> 0, rows |-> 0, total |-> NoTotal]

Init ==
    /\ about \in {"text", "statement", "export"}
    /\ dialect \in Dialect
    /\ CASE about = "text" ->
              text = <<>> /\ dialect = "sqlite"
         [] about = "export" ->
              text = <<>>
         [] about = "statement" ->
              text \in Statements
    /\ own \in IF about = "statement" THEN Options \cup {NoOptions} ELSE {NoOptions}
    /\ pooled \in IF about = "statement" THEN Options \cup {NoOptions} ELSE {NoOptions}
    /\ readOnly \in IF about = "statement" THEN BOOLEAN ELSE {FALSE}
    /\ rows \in IF about = "statement" THEN {2, 3} \cap 0 .. MaxRows ELSE {0}
    /\ shape \in [Table -> IF about = "export" THEN {0, 1} ELSE {0}]
    /\ call = [st |-> "none", tx |-> FALSE, limit |-> 0, offset |-> 0, aggregate |-> FALSE,
               count |-> 0, todo |-> {}, table |-> CHOOSE t \in Table : TRUE, first |-> 0]
    /\ answer = Empty /\ schemas = [t \in Table |-> NoParts]
    /\ others = 0 /\ changed = 0 /\ lost = {}
    /\ saw = [rows |-> {rows}, shapes |-> [t \in Table |-> {shape[t]}]]

(* The texts that are only analysed. *)
Type(t) ==
    /\ about = "text" /\ Len(text) < MaxText
    /\ text' = Append(text, t)
    /\ UNCHANGED <<about, dialect, own, pooled, readOnly, database, call, answer, schemas, changed, lost>>

Goes(s) == call' = [call EXCEPT !.st = s]
Ends(a) == Goes("done") /\ answer' = a
Fails(e) == Ends([Empty EXCEPT !.error = e])

-----------------------------------------------------------------------------
(* What the database does with a text (external). mongodb: the libraries   *)
(* that translate the text read it as MySQL does.                          *)

Read == ReadBy(text, IF dialect = "mongodb" THEN "mysql" ELSE dialect)
Filtered == TopWords(Read, "where") # {}
Paged == TopWords(Read, "limit") # {}
Least(m, n) == IF m < n THEN m ELSE n

(* The rows that a write changes: the filters of the texts select one. *)
Hits(type) ==
    CASE type = "INSERT" -> RowsOf(Read)
      [] type # "INSERT" /\ Filtered -> Least(rows, 1)
      [] OTHER -> rows

RowsAfter(type, n) ==
    CASE type = "INSERT" -> rows + n
      [] type = "DELETE" -> rows - n
      [] OTHER -> rows

Writes(n) ==
    LET type == DetectStatementType(text)
    IN  /\ RowsAfter(type, n) <= MaxRows
        /\ rows' = RowsAfter(type, n)
        /\ changed' = n
        /\ UNCHANGED <<shape, others, saw>>

(* The rows of a page out of n rows. *)
Page(n) ==
    IF Paged THEN Least(n, 1)
    ELSE Least(call.limit, IF n > call.offset THEN n - call.offset ELSE 0)

-----------------------------------------------------------------------------
(* DbClient.run and tx.execute: the guards, and the way of a statement.    *)

Unset == [where |-> TRUE, max |-> 0, returning |-> FALSE]

(* request.dml, which run fills in and a transaction does not, or else the *)
(* dml of the handle.                                                      *)
Dml == IF own # NoOptions /\ ~call.tx THEN own ELSE IF pooled # NoOptions THEN pooled ELSE Unset

Blocked(type) ==
    \/ type \in {"UPDATE", "DELETE"} /\ Dml.where /\ ~HasDmlWhere(text)
    \/ type = "INSERT" /\ Dml.max > 0 /\ CountInsertValueRows(text) > Dml.max

Run(tx, limit, offset, aggregate) ==
    LET type == DetectStatementType(text)
        sent == [call EXCEPT !.tx = tx, !.limit = limit, !.offset = offset, !.aggregate = aggregate]
    IN  /\ call.st = "none" /\ about = "statement"
        /\ tx => IsDml(type)
        /\ IsDml(type) => limit = 0 /\ offset = 0
        /\ aggregate => dialect = "mongodb" /\ type = "SELECT"
        /\ CASE readOnly /\ (type # "SELECT" \/ tx) -> Fails("READ_ONLY")
             [] ~readOnly /\ IsDml(type) -> call' = [sent EXCEPT !.st = "write"] /\ UNCHANGED answer
             [] type = "SELECT" /\ ~tx ->
                  call' = [sent EXCEPT !.st = IF HasPaginationClause(text) THEN "page" ELSE "count"]
                  /\ UNCHANGED answer
             [] ~readOnly /\ type \in {"DDL", "TRANSACTION"} /\ dialect # "mongodb" ->
                  call' = [sent EXCEPT !.st = "pass"] /\ UNCHANGED answer
             [] OTHER -> Fails("QUERY_FAILED")
        /\ UNCHANGED <<config, database, schemas, changed, lost>>

(* DDL is passed on; the texts of the model leave the rows as they are.    *)
(* What BEGIN, COMMIT and ROLLBACK do is the subject of DriverCalls.       *)
PassesThrough ==
    /\ call.st = "pass"
    /\ Ends(Empty) \/ Fails("QUERY_FAILED")
    /\ UNCHANGED <<config, database, schemas, changed, lost>>

-----------------------------------------------------------------------------
(* runDml. *)

GuardBlocks ==
    /\ call.st = "write" /\ dialect # "mongodb"
    /\ Blocked(DetectStatementType(text))
    /\ Fails("DML_BLOCKED")
    /\ UNCHANGED <<config, database, schemas, changed, lost>>

Passes(d) == call.st = "write" /\ dialect = d /\ ~Blocked(DetectStatementType(text))

WriteFails ==
    /\ call.st = "write" /\ ~Blocked(DetectStatementType(text))
    /\ Fails("QUERY_FAILED")
    /\ UNCHANGED <<config, database, schemas, changed, lost>>

(* RETURNING * is appended also to a text that has a RETURNING, which the  *)
(* database refuses.                                                       *)
SqliteDml ==
    /\ Passes("sqlite")
    /\ ~(Dml.returning /\ TopWords(Read, "returning") # {})
    /\ LET n == Hits(DetectStatementType(text))
       IN  Writes(n) /\ Ends([Empty EXCEPT !.affected = n, !.returned = IF Dml.returning THEN n ELSE 0])
    /\ UNCHANGED <<config, schemas, lost>>

MysqlDml ==
    /\ Passes("mysql")
    /\ LET type == DetectStatementType(text)
           n    == Hits(type)
       IN  /\ Writes(n)
           /\ answer' = [Empty EXCEPT !.affected = n]
           /\ Goes(IF type = "INSERT" /\ Dml.returning THEN "readback" ELSE "done")
    /\ UNCHANGED <<config, schemas, lost>>

(* The row of the first generated key is read back on another connection,  *)
(* which does not see what a transaction has written. No key, no rows.     *)
MysqlReadsBack ==
    /\ call.st = "readback"
    /\ \/ \E n \in 0 .. Least(rows, IF call.tx THEN 0 ELSE 1) : Ends([answer EXCEPT !.returned = n])
       \/ Fails("QUERY_FAILED")
    /\ UNCHANGED <<config, database, schemas, changed, lost>>

(* Whether a text has a RETURNING is asked of the text as it is, literals  *)
(* and all; the rows the database returns are then the rows affected.      *)
PostgresDml ==
    /\ Passes("postgresql")
    /\ LET n        == Hits(DetectStatementType(text))
           has      == Words(text, "returning") # {}
           needs    == Dml.returning /\ ~has
           returned == IF needs \/ TopWords(Read, "returning") # {} THEN n ELSE 0
       IN  /\ Writes(n)
           /\ Ends([Empty EXCEPT !.affected = IF has \/ needs THEN returned ELSE n,
                                 !.returned = returned])
    /\ UNCHANGED <<config, schemas, lost>>

(* The documents are counted after the translation. They are written one   *)
(* after the other, up to the first that fails.                            *)
MongoDml ==
    /\ call.st = "write" /\ dialect = "mongodb"
    /\ LET type == DetectStatementType(text)
           n    == Hits(type)
       IN  CASE type = "INSERT" /\ Words(Read, "insert") = {} ->
                  Fails("QUERY_FAILED") /\ UNCHANGED <<database, changed>>
             [] \/ type = "INSERT" /\ Words(Read, "insert") # {} /\ Dml.max > 0 /\ n > Dml.max
                \/ type # "INSERT" /\ Blocked(type) ->
                  Fails("DML_BLOCKED") /\ UNCHANGED <<database, changed>>
             [] OTHER ->
                  \/ Writes(n) /\ Ends([Empty EXCEPT !.affected = n])
                  \/ (\E k \in 0 .. n - 1 : Writes(k)) /\ Fails("QUERY_FAILED")
    /\ UNCHANGED <<config, schemas, lost>>

-----------------------------------------------------------------------------
(* runSelect: the count of the rows and a page of them, or a text with a   *)
(* paging clause as it is, whose rows are then the total.                  *)

SqliteSelects ==
    /\ call.st \in {"count", "page"} /\ dialect = "sqlite"
    /\ LET n == IF call.st = "count" \/ Paged THEN Page(rows) ELSE rows
       IN  Ends([Empty EXCEPT !.rows = n, !.total = IF call.st = "count" THEN rows ELSE n])
    /\ UNCHANGED <<config, database, schemas, changed, lost>>

(* Bug: a result without a count is not taken for 0. *)
BugCounts ==
    /\ call.st = "count" /\ dialect \in {"mysql", "postgresql", "mongodb"}
    /\ dialect = "mongodb" => call.aggregate
    /\ call' = [call EXCEPT !.st = "page", !.count = IF rows = 0 THEN NoTotal ELSE rows]
    /\ UNCHANGED <<config, database, answer, schemas, changed, lost>>

Counts ==
    /\ call.st = "count" /\ dialect \in {"mysql", "postgresql", "mongodb"}
    /\ dialect = "mongodb" => call.aggregate
    /\ call' = [call EXCEPT !.st = "page", !.count = rows]
    /\ UNCHANGED <<config, database, answer, schemas, changed, lost>>

(* Bug: the total is the number of rows on the page. *)
BugMysqlPages ==
    /\ call.st = "page" /\ dialect = "mysql"
    /\ IF HasPaginationClause(text)
       THEN Ends([Empty EXCEPT !.rows = IF Paged THEN Page(rows) ELSE rows])
       ELSE Ends([Empty EXCEPT !.rows = Page(rows), !.total = Page(rows)])
    /\ UNCHANGED <<config, database, schemas, changed, lost>>

MysqlPages ==
    /\ call.st = "page" /\ dialect = "mysql"
    /\ IF HasPaginationClause(text)
       THEN Ends([Empty EXCEPT !.rows = IF Paged THEN Page(rows) ELSE rows])
       ELSE Ends([Empty EXCEPT !.rows = Page(rows), !.total = call.count])
    /\ UNCHANGED <<config, database, schemas, changed, lost>>

PostgresPages ==
    /\ call.st = "page" /\ dialect = "postgresql"
    /\ LET n == IF Paged THEN Page(rows) ELSE rows
       IN  IF HasPaginationClause(text)
           THEN Ends([Empty EXCEPT !.rows = n, !.total = n])
           ELSE Ends([Empty EXCEPT !.rows = Page(rows), !.total = call.count])
    /\ UNCHANGED <<config, database, schemas, changed, lost>>

(* A limit of 0 is no limit in a find, and an error in a pipeline. *)
MongoPage(n) ==
    IF call.limit = 0 /\ ~Paged THEN (IF n > call.offset THEN n - call.offset ELSE 0) ELSE Page(n)

(* A query that noql gave: the page, then the count. *)
MongoFinds ==
    /\ dialect = "mongodb" /\ ~call.aggregate
    /\ \/ /\ call.st = "page"
          /\ Ends([Empty EXCEPT !.rows = MongoPage(rows), !.total = MongoPage(rows)])
       \/ /\ call.st = "count" /\ answer.total = NoTotal
          /\ answer' = [Empty EXCEPT !.rows = MongoPage(rows), !.total = 0]
          /\ UNCHANGED call
       \/ /\ call.st = "count" /\ answer.total # NoTotal
          /\ Ends([answer EXCEPT !.total = rows])
    /\ UNCHANGED <<config, database, schemas, changed, lost>>

(* A pipeline that noql gave: the count, then the page. *)
MongoAggregates ==
    /\ dialect = "mongodb" /\ call.aggregate /\ call.st = "page"
    /\ CASE HasPaginationClause(text) -> Ends([Empty EXCEPT !.rows = Page(rows), !.total = Page(rows)])
         [] ~HasPaginationClause(text) /\ call.limit = 0 -> Fails("QUERY_FAILED")
         [] OTHER -> Ends([Empty EXCEPT !.rows = Page(rows), !.total = call.count])
    /\ UNCHANGED <<config, database, schemas, changed, lost>>

SelectFails ==
    /\ call.st \in {"count", "page"}
    /\ Fails("QUERY_FAILED")
    /\ UNCHANGED <<config, database, schemas, changed, lost>>

-----------------------------------------------------------------------------
(* getAllTableSchemas and getTableSchema. *)

Export ==
    /\ call.st = "none" /\ about = "export"
    /\ Goes("list")
    /\ UNCHANGED <<config, database, answer, schemas, changed, lost>>

ListTables ==
    /\ call.st = "list"
    /\ \/ call' = [call EXCEPT !.st = "tables", !.todo = {t \in Table : shape[t] # 0}] /\ UNCHANGED answer
       \/ Fails("QUERY_FAILED")
    /\ UNCHANGED <<config, database, schemas, changed, lost>>

Collected(t, parts) ==
    /\ schemas' = [schemas EXCEPT ![t] = parts]
    /\ call' = [call EXCEPT !.st = "tables", !.todo = @ \ {t}]

(* The statements about one table run without an await between them. A     *)
(* table that is gone ends the whole export.                               *)
SqliteDescribes(t) ==
    /\ call.st = "tables" /\ dialect = "sqlite" /\ t \in call.todo
    /\ IF shape[t] # 0
       THEN Collected(t, <<shape[t], shape[t]>>) /\ UNCHANGED answer
       ELSE Fails("TABLE_NOT_FOUND") /\ UNCHANGED schemas
    /\ UNCHANGED <<config, database, changed, lost>>

(* mysql, postgresql: the columns come first; the indexes, foreign keys,   *)
(* comment and DDL later.                                                  *)
ServerColumns(t) ==
    /\ call.st = "tables" /\ dialect \in {"mysql", "postgresql"} /\ t \in call.todo
    /\ shape[t] # 0
    /\ call' = [call EXCEPT !.st = "rest", !.table = t, !.first = shape[t]]
    /\ UNCHANGED <<config, database, answer, schemas, changed, lost>>

ServerRest ==
    /\ call.st = "rest" /\ shape[call.table] # 0
    /\ Collected(call.table, <<call.first, shape[call.table]>>)
    /\ UNCHANGED <<config, database, answer, changed, lost>>

(* Bug: the loop ends with the first table that fails. *)
BugServerSkips(t) ==
    /\ dialect \in {"mysql", "postgresql"} /\ t \in call.todo
    /\ call.st = "tables" \/ (call.st = "rest" /\ t = call.table)
    /\ call' = [call EXCEPT !.st = "tables", !.todo = {}]
    /\ lost' = lost \cup {t}
    /\ UNCHANGED <<config, database, answer, schemas, changed>>

(* A table that is gone or one of whose queries fails is left out. *)
ServerSkips(t) ==
    /\ dialect \in {"mysql", "postgresql"} /\ t \in call.todo
    /\ call.st = "tables" \/ (call.st = "rest" /\ t = call.table)
    /\ call' = [call EXCEPT !.st = "tables", !.todo = @ \ {t}]
    /\ lost' = lost \cup {t}
    /\ UNCHANGED <<config, database, answer, schemas, changed>>

(* A sample of the documents; a collection that is gone has none, and so a *)
(* schema without columns.                                                 *)
MongoSamples(t) ==
    /\ call.st = "tables" /\ dialect = "mongodb" /\ t \in call.todo
    /\ \/ Collected(t, <<shape[t], shape[t]>>) /\ UNCHANGED lost
       \/ call' = [call EXCEPT !.todo = @ \ {t}] /\ lost' = lost \cup {t} /\ UNCHANGED schemas
    /\ UNCHANGED <<config, database, answer, changed>>

ExportEnds ==
    /\ call.st = "tables" /\ call.todo = {}
    /\ Ends(Empty)
    /\ UNCHANGED <<config, database, schemas, changed, lost>>

-----------------------------------------------------------------------------
(* Other sessions, between the statements of the call (external).          *)

OtherWrites ==
    /\ call.st \in {"count", "page", "readback"} /\ others < MaxOthers
    /\ others' = others + 1
    /\ rows' \in {rows - 1, rows + 1} \cap 0 .. MaxRows
    /\ saw' = [saw EXCEPT !.rows = @ \cup {rows'}]
    /\ UNCHANGED <<config, shape, call, answer, schemas, changed, lost>>

OtherAlters(t) ==
    /\ call.st \in {"list", "tables", "rest"} /\ others < MaxOthers
    /\ others' = others + 1
    /\ shape' \in {[shape EXCEPT ![t] = v] : v \in {0, others + 2}}
    /\ saw' = [saw EXCEPT !.shapes[t] = @ \cup {shape'[t]}]
    /\ UNCHANGED <<config, rows, call, answer, schemas, changed, lost>>

-----------------------------------------------------------------------------

Dmls ==
    \/ PassesThrough \/ GuardBlocks \/ WriteFails
    \/ SqliteDml \/ MysqlDml \/ MysqlReadsBack \/ PostgresDml \/ MongoDml
Selects ==
    \/ SqliteSelects \/ Counts \/ MysqlPages \/ PostgresPages
    \/ MongoFinds \/ MongoAggregates \/ SelectFails
Exports ==
    \/ Export \/ ListTables \/ ServerRest \/ ExportEnds
    \/ \E t \in Table : SqliteDescribes(t) \/ ServerColumns(t) \/ ServerSkips(t) \/ MongoSamples(t)

Next ==
    \/ \E t \in Alphabet : Type(t)
    \/ \E tx, aggregate \in BOOLEAN, limit, offset \in 0 .. 1 : Run(tx, limit, offset, aggregate)
    \/ Dmls \/ Selects \/ Exports
    \/ OtherWrites \/ \E t \in Table : OtherAlters(t)

Spec == Init /\ [][Next]_vars

-----------------------------------------------------------------------------

TypeOK ==
    /\ about \in {"text", "statement", "export"}
    /\ IF about = "statement" THEN text \in Statements ELSE text \in Seq(Alphabet) /\ Len(text) <= MaxText
    /\ dialect \in Dialect /\ readOnly \in BOOLEAN
    /\ own \in Options \cup {NoOptions} /\ pooled \in Options \cup {NoOptions}
    /\ rows \in 0 .. MaxRows /\ changed \in 0 .. MaxRows /\ others \in 0 .. MaxOthers
    /\ shape \in [Table -> 0 .. MaxOthers + 1]
    /\ call \in CallRecord /\ answer \in Answer
    /\ schemas \in [Table -> {NoParts} \cup (0 .. MaxOthers + 1) \X (0 .. MaxOthers + 1)]
    /\ saw \in [rows : SUBSET (0 .. MaxRows), shapes : [Table -> SUBSET (0 .. MaxOthers + 1)]]
    /\ lost \subseteq Table

(* stripSqlForSearch leaves of a text exactly what a database reads as     *)
(* code, in every text that means the same to both.                        *)
ScannerReadsCode ==
    call.st = "none" => \A d \in Dialect \ {"mongodb"} : Portable(text, d) => Stripped(text) = ReadBy(text, d)

(* The texts whose analysis can be right for a database with dialect d.    *)
Analysable(t, d) ==
    /\ Portable(t, d)
    /\ LET r == ReadBy(t, d)
       IN  DetectStatementType(t) = "INSERT" /\ Words(r, "insert") # {} => RowsInOrder(r)

(* The analysis of text t is what a database with dialect d makes of it:   *)
(* the same code, and as many rows to insert; of a REPLACE it counts none  *)
(* or some.                                                                *)
AnalysedRight(t, d) ==
    /\ Stripped(t) = ReadBy(t, d)
    /\ DetectStatementType(t) = "INSERT" =>
          /\ CountInsertValueRows(t) \in 0 .. RowsOf(ReadBy(t, d))
          /\ Words(ReadBy(t, d), "replace") = {} => CountInsertValueRows(t) = RowsOf(ReadBy(t, d))

(* What guards with options o are to keep from the database: an UPDATE or  *)
(* DELETE that it reads without a WHERE, an INSERT of too many rows.       *)
(* Without options the comment of maxInsertRows names a limit of 10000 and *)
(* the drivers have none: such an INSERT is neither forbidden nor free.    *)
Rule(o) == IF o = NoOptions THEN Unset ELSE o
Forbids(o) ==
    LET type == DetectStatementType(text)
    IN  \/ type \in {"UPDATE", "DELETE"} /\ Rule(o).where /\ ~Filtered
        \/ type = "INSERT" /\ Rule(o).max > 0 /\ RowsOf(Read) > Rule(o).max
Unlimited(o) == o = NoOptions /\ DetectStatementType(text) = "INSERT"

(* A selectOnly client changes nothing, in a transaction or not.           *)
ReadOnlyHolds == readOnly => changed = 0

(* The guards of a client hold for what it runs outside of transactions,   *)
(* or when the pool was made with the same options; in all other calls its *)
(* own or the pool's do. What they forbid changes nothing, and what is     *)
(* blocked is forbidden. A WHERE in a sub-query satisfies the guard and    *)
(* REPLACE is not counted.                                                 *)
GuardsHold ==
    /\ ReadOnlyHolds
    /\ call.st = "done" /\ about = "statement" =>
         LET theirs == IF own = pooled \/ (own # NoOptions /\ ~call.tx) THEN {own} ELSE {own, pooled}
         IN  /\ answer.error = "DML_BLOCKED" => \E o \in theirs : Forbids(o) \/ Unlimited(o)
             /\ /\ \A o \in theirs : Forbids(o)
                /\ Words(Read, "where") = TopWords(Read, "where") /\ Words(Read, "replace") = {}
                => changed = 0

(* What a write that fails may have changed: some of the documents of a    *)
(* MongoDB write, and the rows of a MySQL INSERT that are to be read back. *)
MayRemain ==
    LET type == DetectStatementType(text)
    IN  \/ dialect = "mongodb" /\ \E n \in IF type = "INSERT" THEN {RowsOf(Read)} ELSE saw.rows : changed < n
        \/ dialect = "mysql" /\ type = "INSERT" /\ Dml.returning /\ changed = RowsOf(Read)

(* A call that succeeds says how many rows it has changed, and returns all *)
(* of them where the database can (but postgresql's driver takes any word  *)
(* returning of a text for the statement's, and then says 0); one that     *)
(* fails has changed none, but for what MayRemain. A page and its total    *)
(* are right for rows that there were during the call, with SQLite for the *)
(* same ones; a text with its own paging has its rows as total.            *)
WriteIsTrue ==
    IF answer.error = ""
    THEN /\ \/ answer.affected = changed
            \/ /\ dialect = "postgresql" /\ answer.affected = 0
               /\ Words(text, "returning") # {} /\ TopWords(Read, "returning") = {}
         /\ dialect \in {"sqlite", "postgresql"} /\ Dml.returning /\ answer.affected = changed =>
              answer.returned = changed
    ELSE changed = 0 \/ MayRemain

PageIsTrue ==
    /\ \E n \in saw.rows : answer.rows = Page(n) \/ HasPaginationClause(text) # Paged
    /\ HasPaginationClause(text) => answer.total \in {answer.rows, NoTotal}
    /\ ~HasPaginationClause(text) => answer.total \in saw.rows
    /\ ~HasPaginationClause(text) /\ (dialect = "sqlite" \/ Cardinality(saw.rows) = 1) =>
          answer.rows = Page(answer.total)

AnswersAreTrue ==
    call.st = "done" /\ about = "statement" =>
        LET type == DetectStatementType(text)
        IN  /\ IsDml(type) => WriteIsTrue
            /\ type = "SELECT" /\ answer.error = "" /\ ~(dialect = "mongodb" /\ call.limit = 0) => PageIsTrue

(* An export that succeeds has every table that was there all along and    *)
(* did not change, as it is, unless one of its queries failed; SQLite      *)
(* leaves none out. Each part of a schema was true at some time, and with  *)
(* SQLite and MongoDB all parts at the same time.                          *)
SchemasAreWhole ==
    call.st = "done" /\ about = "export" /\ answer.error = "" =>
        \A t \in Table :
            /\ saw.shapes[t] = {shape[t]} /\ shape[t] # 0 /\ t \notin lost =>
                  schemas[t] = <<shape[t], shape[t]>>
            /\ saw.shapes[t] = {0} => schemas[t] = NoParts
            /\ schemas[t] # NoParts =>
                  /\ schemas[t][1] \in saw.shapes[t] /\ schemas[t][2] \in saw.shapes[t]
                  /\ dialect \in {"sqlite", "mongodb"} => schemas[t][1] = schemas[t][2]

=============================================================================
