------------------------- MODULE DriverAnswersProofs -------------------------
(***************************************************************************)
(* For any statements, options, tables and row counts, and whatever other  *)
(* sessions change in between: what a call answers is true of the rows it  *)
(* has changed and of those that it saw, an export is whole, and a client  *)
(* that may only select changes nothing.                                   *)
(*                                                                         *)
(* All but the guards holds for any type, WHERE, paging clause and row     *)
(* count that the scanner may find, and for any way the database may read  *)
(* a text. For the guards, the scanner and the count of rows are compared  *)
(* with what a database makes of the same text, of any length.             *)
(***************************************************************************)
EXTENDS DriverAnswers, FiniteSetTheorems, WellFoundedInduction, TLAPS

Kind == DetectStatementType(text)
HasPages == HasPaginationClause(text)

(* Which steps belong to which call.                                       *)
Placed ==
    /\ about = "text" => call.st = "none"
    /\ about = "export" => call.st \in {"none", "list", "tables", "rest", "done"}
    /\ about = "statement" => call.st \in {"none", "write", "readback", "pass", "count", "page", "done"}
    /\ call.st \in {"write", "readback"} => IsDml(Kind) /\ ~readOnly
    /\ call.st = "pass" => ~IsDml(Kind) /\ Kind # "SELECT"
    /\ call.st \in {"count", "page"} => Kind = "SELECT"
    /\ call.st = "count" => ~HasPages
    /\ call.st = "page" /\ (dialect = "sqlite" \/ (dialect = "mongodb" /\ ~call.aggregate)) => HasPages

(* Nothing has gone wrong and nothing has changed before a statement is    *)
(* written; between MySQL's write and its read-back, the answer tells what *)
(* was written.                                                            *)
Underway ==
    /\ call.st # "done" => answer.error = ""
    /\ call.st \in {"none", "write", "pass", "count", "page"} => changed = 0
    /\ call.st = "readback" =>
          /\ dialect = "mysql" /\ Kind = "INSERT" /\ Dml.returning
          /\ answer.affected = changed /\ changed = RowsOf(Read)

(* The rows, the count and the page that a SELECT goes on with are those   *)
(* of some time since it began.                                            *)
Seen ==
    /\ about = "statement" /\ call.st \in {"none", "write", "count", "page"} => rows \in saw.rows
    /\ call.st = "none" => answer.total = NoTotal
    /\ call.st = "page" /\ ~HasPages => call.count \in saw.rows
    /\ call.st = "count" /\ answer.total # NoTotal =>
          dialect = "mongodb" /\ \E n \in saw.rows : answer.rows = MongoPage(n)

(* The tables an export has yet to ask about, and what it has collected.   *)
Stays(t) == saw.shapes[t] = {shape[t]} /\ shape[t] # 0
Collects ==
    /\ \A t \in Table : shape[t] \in saw.shapes[t]
    /\ call.st \in {"none", "list"} => schemas = [t \in Table |-> NoParts]
    /\ call.st \in {"tables", "rest"} =>
          \A t \in Table :
             /\ Stays(t) /\ t \notin lost => t \in call.todo \/ schemas[t] = <<shape[t], shape[t]>>
             /\ saw.shapes[t] = {0} => t \notin call.todo
    /\ call.st = "rest" =>
          /\ call.table \in call.todo /\ call.first \in saw.shapes[call.table] /\ call.first # 0
          /\ dialect \in {"mysql", "postgresql"}
    /\ \A t \in Table :
          /\ saw.shapes[t] = {0} => schemas[t] = NoParts
          /\ schemas[t] # NoParts =>
                /\ schemas[t][1] \in saw.shapes[t] /\ schemas[t][2] \in saw.shapes[t]
                /\ dialect \in {"sqlite", "mongodb"} => schemas[t][1] = schemas[t][2]

(* The inductive invariant. *)
IInv ==
    /\ TypeOK /\ Placed /\ Underway /\ ReadOnlyHolds
    /\ Seen /\ AnswersAreTrue
    /\ about = "export" => Collects /\ SchemasAreWhole

-----------------------------------------------------------------------------
(* What the types of the parts of a state are. *)

LEMMA Bounds ==
    /\ MaxRows \in Nat /\ MaxOthers \in Nat /\ MaxText \in Nat
    /\ Statements \subseteq Seq(STRING) /\ Table # {}
BY AnswerAssumption DEF AnswerAssumption

(* The rows of a text are a number, whatever the text is.                  *)
LEMMA RowsAreCounted ==
    ASSUME NEW S, NEW s \in Seq(S), NEW d
    PROVE  RowsOf(ReadBy(s, d)) \in Nat
<1> DEFINE r == ReadBy(s, d)
<1>1. DOMAIN r = DOMAIN s
  BY Zenon DEF ReadBy
<1>2. IsFiniteSet(DOMAIN s)
  <2>1. DOMAIN s = 1 .. Len(s) /\ Len(s) \in Nat
    OBVIOUS
  <2>2. QED
    BY <2>1, FS_Interval
<1>3. ASSUME NEW T, T \subseteq DOMAIN r
      PROVE  Cardinality(T) \in Nat
  <2>1. IsFiniteSet(T)
    BY <1>1, <1>2, <1>3, FS_Subset
  <2>2. QED
    BY <2>1, FS_CardinalityType
<1> HIDE DEF r
<1>4. RowsOf(r) \in Nat
  BY <1>3, Zenon DEF RowsOf, RowStarts
<1>5. QED
  BY <1>4 DEF r

LEMMA LeastIsBetween ==
    ASSUME NEW m \in Nat, NEW n \in Nat
    PROVE  Least(m, n) \in Nat /\ Least(m, n) <= m /\ Least(m, n) <= n
BY DEF Least

(* A write changes no more rows than there are, or an INSERT adds them.    *)
LEMMA HitsAreRows ==
    ASSUME TypeOK, about = "statement", NEW type
    PROVE  Hits(type) \in Nat /\ (type # "INSERT" => Hits(type) <= rows)
<1>1. text \in Seq(STRING)
  BY Bounds DEF TypeOK
<1>2. RowsOf(Read) \in Nat
  BY <1>1, RowsAreCounted DEF Read
<1>3. rows \in Nat
  BY Bounds DEF TypeOK
<1>4. Least(rows, 1) \in Nat /\ Least(rows, 1) <= rows
  BY <1>3, LeastIsBetween
<1>5. rows <= rows
  BY <1>3
<1>6. QED
  BY <1>2, <1>3, <1>4, <1>5 DEF Hits

(* A page out of n rows has no more rows than these.                       *)
LEMMA PageIsPart ==
    ASSUME TypeOK, NEW n \in 0 .. MaxRows
    PROVE  Page(n) \in 0 .. MaxRows /\ MongoPage(n) \in 0 .. MaxRows
<1>1. n \in Nat /\ n <= MaxRows /\ MaxRows \in Nat
  BY Bounds
<1>2. call.limit \in 0 .. 1 /\ call.offset \in 0 .. 1
  BY DEF TypeOK, CallRecord
<1> DEFINE rest == IF n > call.offset THEN n - call.offset ELSE 0
<1>3. rest \in 0 .. MaxRows
  BY <1>1, <1>2
<1>4. Least(n, 1) \in 0 .. MaxRows
  BY <1>1 DEF Least
<1>5. ASSUME NEW l \in 0 .. 1, NEW m \in 0 .. MaxRows PROVE Least(l, m) \in 0 .. MaxRows
  BY <1>1 DEF Least
<1> HIDE DEF rest
<1>6. Least(call.limit, rest) \in 0 .. MaxRows
  BY <1>2, <1>3, <1>5
<1>7. Page(n) \in 0 .. MaxRows
  BY <1>4, <1>6 DEF Page, rest
<1>8. QED
  BY <1>3, <1>7 DEF MongoPage, rest

(* The fields of a call that moves on, and of one that ends.               *)
LEMMA GoesOn ==
    ASSUME TypeOK, NEW s \in {"none", "write", "readback", "pass", "count", "page",
                              "list", "tables", "rest", "done"}, Goes(s)
    PROVE  /\ call' \in CallRecord /\ call'.st = s
           /\ call'.tx = call.tx /\ call'.limit = call.limit /\ call'.offset = call.offset
           /\ call'.aggregate = call.aggregate /\ call'.count = call.count /\ call'.todo = call.todo
           /\ call'.table = call.table /\ call'.first = call.first
BY DEF Goes, TypeOK, CallRecord

LEMMA EmptyIsAnswer == Empty \in Answer
<1>1. 0 \in 0 .. MaxRows
  BY Bounds
<1>2. QED
  BY <1>1 DEF Empty, Answer, Errors

LEMMA AnswerTypes ==
    ASSUME NEW a \in Answer
    PROVE  /\ \A e \in Errors : [a EXCEPT !.error = e] \in Answer
           /\ \A n \in 0 .. MaxRows :
                 /\ [a EXCEPT !.affected = n] \in Answer
                 /\ [a EXCEPT !.returned = n] \in Answer
                 /\ [a EXCEPT !.rows = n] \in Answer
                 /\ [a EXCEPT !.total = n] \in Answer
<1>1. \A e \in Errors : [a EXCEPT !.error = e] \in Answer
  BY DEF Answer
<1>2. ASSUME NEW n \in 0 .. MaxRows
      PROVE  /\ [a EXCEPT !.affected = n] \in Answer
             /\ [a EXCEPT !.returned = n] \in Answer
             /\ [a EXCEPT !.rows = n] \in Answer
             /\ [a EXCEPT !.total = n] \in Answer
  BY DEF Answer
<1>3. QED
  BY <1>1, <1>2

(* The operators of the model when nothing that they look at changes.      *)
LEMMA SameReading ==
    ASSUME UNCHANGED config
    PROVE  /\ text' = text /\ about' = about /\ dialect' = dialect
           /\ own' = own /\ pooled' = pooled /\ readOnly' = readOnly
           /\ Kind' = Kind /\ (HasPages <=> HasPages') /\ Read' = Read
           /\ (Paged <=> Paged')
<1>1. /\ text' = text /\ about' = about /\ dialect' = dialect
      /\ own' = own /\ pooled' = pooled /\ readOnly' = readOnly
  BY DEF config
<1>2. Kind' = Kind /\ (HasPages <=> HasPages')
  BY <1>1 DEF Kind, HasPages
<1>3. Read' = Read
  BY <1>1 DEF Read
<1>4. Paged <=> Paged'
  BY <1>3 DEF Paged
<1>5. QED
  BY <1>1, <1>2, <1>3, <1>4

LEMMA SamePage ==
    ASSUME UNCHANGED config, call'.limit = call.limit, call'.offset = call.offset, NEW n
    PROVE  Page(n)' = Page(n) /\ MongoPage(n)' = MongoPage(n)
<1>1. Page(n)' = Page(n)
  BY SameReading DEF Page
<1>2. QED
  BY <1>1, SameReading DEF MongoPage

LEMMA SameDml ==
    ASSUME UNCHANGED config, call'.tx = call.tx
    PROVE  Dml' = Dml
BY SameReading DEF Dml

-----------------------------------------------------------------------------
(* The first state. *)

LEMMA InitEstablishes == Init => IInv
<1> SUFFICES ASSUME Init PROVE IInv
  OBVIOUS
<1>1. /\ MaxRows \in Nat /\ MaxOthers \in Nat /\ MaxText \in Nat
      /\ Statements \subseteq Seq(STRING)
  BY Bounds
<1>2. /\ about \in {"text", "statement", "export"} /\ dialect \in Dialect
      /\ own \in Options \cup {NoOptions} /\ pooled \in Options \cup {NoOptions} /\ readOnly \in BOOLEAN
  BY DEF Init
<1>3. rows \in 0 .. MaxRows /\ changed = 0 /\ others = 0 /\ lost = {} /\ schemas = [t \in Table |-> NoParts]
  BY <1>1 DEF Init
<1>4. shape \in [Table -> {0, 1}]
  BY DEF Init
<1>5. /\ answer = Empty
      /\ call = [st |-> "none", tx |-> FALSE, limit |-> 0, offset |-> 0, aggregate |-> FALSE,
                 count |-> 0, todo |-> {}, table |-> CHOOSE t \in Table : TRUE, first |-> 0]
  BY DEF Init
<1>6. saw = [rows |-> {rows}, shapes |-> [t \in Table |-> {shape[t]}]]
  BY DEF Init
<1>7. TypeOK
  <2>1. IF about = "statement" THEN text \in Statements ELSE text \in Seq(Alphabet) /\ Len(text) <= MaxText
    <3>1. CASE about = "statement"
      BY <3>1 DEF Init
    <3>2. CASE about # "statement"
      <4>1. text = <<>>
        BY <3>2, <1>2 DEF Init
      <4>2. <<>> \in Seq(Alphabet) /\ Len(<<>>) = 0
        OBVIOUS
      <4>3. QED
        BY <3>2, <4>1, <4>2, <1>1
    <3>3. QED
      BY <3>1, <3>2
  <2>2. call \in CallRecord
    <3>1. (CHOOSE t \in Table : TRUE) \in Table
      BY Bounds
    <3>2. QED
      BY <1>1, <1>5, <3>1 DEF CallRecord
  <2>3. answer \in Answer
    BY <1>5, EmptyIsAnswer
  <2>4. shape \in [Table -> 0 .. MaxOthers + 1]
    <3>1. {0, 1} \subseteq 0 .. MaxOthers + 1
      BY <1>1
    <3>2. QED
      BY <3>1, <1>4
  <2>5. saw \in [rows : SUBSET (0 .. MaxRows), shapes : [Table -> SUBSET (0 .. MaxOthers + 1)]]
    BY <2>4, <1>3, <1>6
  <2>6. schemas \in [Table -> {NoParts} \cup (0 .. MaxOthers + 1) \X (0 .. MaxOthers + 1)]
    BY <1>3
  <2>7. others \in 0 .. MaxOthers /\ changed \in 0 .. MaxRows /\ lost \subseteq Table
    BY <1>1, <1>3
  <2>8. QED
    BY <1>2, <1>3, <2>1, <2>2, <2>3, <2>4, <2>5, <2>6, <2>7 DEF TypeOK
<1>8. call.st = "none" /\ answer.error = "" /\ answer.total = NoTotal
  BY <1>5 DEF Empty
<1>9. Placed /\ Underway /\ ReadOnlyHolds /\ AnswersAreTrue
  BY <1>2, <1>3, <1>8 DEF Placed, Underway, ReadOnlyHolds, AnswersAreTrue
<1>10. Seen
  <2>1. rows \in saw.rows
    BY <1>6
  <2>2. QED
    BY <2>1, <1>8 DEF Seen
<1>11. Collects /\ SchemasAreWhole
  <2>1. \A t \in Table : saw.shapes[t] = {shape[t]}
    BY <1>6
  <2>2. \A t \in Table : schemas[t] = NoParts
    BY <1>3
  <2>3. QED
    BY <2>1, <2>2, <1>3, <1>8 DEF Collects, SchemasAreWhole
<1>12. QED
  BY <1>7, <1>9, <1>10, <1>11 DEF IInv

-----------------------------------------------------------------------------
(* How a statement ends. *)

(* The types of a state in which only a statement has gone on.             *)
LEMMA StatementTyped ==
    ASSUME TypeOK, UNCHANGED <<config, shape, others, saw, schemas, lost>>,
           call' \in CallRecord, answer' \in Answer,
           rows' \in 0 .. MaxRows, changed' \in 0 .. MaxRows
    PROVE  TypeOK'
BY SameReading DEF TypeOK

(* A statement that has ended leaves nothing but the truth of its answer.  *)
LEMMA CallEnds ==
    ASSUME IInv, about = "statement", UNCHANGED <<config, shape, others, saw, schemas, lost>>,
           rows' \in 0 .. MaxRows, changed' \in 0 .. MaxRows, readOnly => changed' = 0,
           NEW a \in Answer, Ends(a),
           IsDml(Kind) => WriteIsTrue',
           Kind = "SELECT" /\ a.error = "" /\ ~(dialect = "mongodb" /\ call.limit = 0) => PageIsTrue'
    PROVE  IInv'
<1>1. TypeOK
  BY DEF IInv
<1>2. /\ call' \in CallRecord /\ call'.st = "done" /\ call'.limit = call.limit
      /\ answer' = a
  BY <1>1, GoesOn DEF Ends
<1>3. TypeOK'
  BY <1>1, <1>2, StatementTyped
<1>4. Placed' /\ Underway' /\ Seen'
  BY <1>2, SameReading DEF Placed, Underway, Seen
<1>5. ReadOnlyHolds'
  BY SameReading DEF ReadOnlyHolds
<1>6. AnswersAreTrue'
  BY <1>2, SameReading DEF AnswersAreTrue, Kind
<1>7. about' = "statement"
  BY SameReading
<1>8. QED
  BY <1>3, <1>4, <1>5, <1>6, <1>7 DEF IInv

(* A statement that fails before it has changed anything.                  *)
LEMMA FailsQuietly ==
    ASSUME IInv, about = "statement", call.st \in {"none", "write", "pass", "count", "page"},
           UNCHANGED <<config, database, schemas, changed, lost>>,
           NEW e \in Errors \ {""}, Fails(e)
    PROVE  IInv'
<1> DEFINE a == [Empty EXCEPT !.error = e]
<1>1. TypeOK /\ changed = 0
  BY DEF IInv, Underway
<1>2. a \in Answer /\ a.error # ""
  BY EmptyIsAnswer, AnswerTypes DEF Empty
<1>3. Ends(a)
  BY DEF Fails
<1> HIDE DEF a
<1>4. answer' = a
  BY <1>3 DEF Ends
<1>5. WriteIsTrue'
  BY <1>1, <1>2, <1>4 DEF WriteIsTrue
<1>6. rows' \in 0 .. MaxRows /\ changed' \in 0 .. MaxRows /\ changed' = 0
  BY <1>1 DEF TypeOK, database
<1>7. UNCHANGED <<shape, others, saw>>
  BY DEF database
<1>8. QED
  BY <1>2, <1>3, <1>5, <1>6, <1>7, CallEnds

(* A write that succeeds.                                                  *)
LEMMA WriteEnds ==
    ASSUME IInv, about = "statement", IsDml(Kind), ~readOnly,
           UNCHANGED <<config, shape, others, saw, schemas, lost>>,
           rows' \in 0 .. MaxRows, changed' \in 0 .. MaxRows,
           NEW a \in Answer, Ends(a),
           IF a.error = ""
           THEN /\ \/ a.affected = changed'
                   \/ /\ dialect = "postgresql" /\ a.affected = 0
                      /\ Words(text, "returning") # {} /\ TopWords(Read, "returning") = {}
                /\ dialect \in {"sqlite", "postgresql"} /\ Dml.returning /\ a.affected = changed' =>
                     a.returned = changed'
           ELSE \/ changed' = 0
                \/ dialect = "mongodb" /\ \E n \in IF Kind = "INSERT" THEN {RowsOf(Read)} ELSE saw.rows : changed' < n
                \/ dialect = "mysql" /\ Kind = "INSERT" /\ Dml.returning /\ changed' = RowsOf(Read)
    PROVE  IInv'
<1>1. TypeOK
  BY DEF IInv
<1>2. answer' = a /\ call'.tx = call.tx
  BY <1>1, GoesOn DEF Ends
<1>3. Dml' = Dml
  BY <1>2, SameDml
<1>4. WriteIsTrue'
  <2>1. CASE a.error = ""
    BY <1>2, <1>3, <2>1, SameReading DEF WriteIsTrue
  <2>2. CASE a.error # ""
    BY <1>2, <1>3, <2>2, SameReading DEF WriteIsTrue, MayRemain, Kind
  <2>3. QED
    BY <2>1, <2>2
<1>5. Kind # "SELECT"
  BY DEF IsDml
<1>6. QED
  BY <1>4, <1>5, CallEnds

(* A SELECT that answers with rows and a total, of which there is none in  *)
(* some answers.                                                           *)
LEMMA SelectEnds ==
    ASSUME IInv, about = "statement", call.st \in {"count", "page"},
           UNCHANGED <<config, database, schemas, changed, lost>>,
           NEW a \in Answer, Ends(a), NEW n \in saw.rows,
           ~(dialect = "mongodb" /\ call.limit = 0) =>
              /\ a.rows = Page(n) \/ (HasPages <=> ~Paged)
              /\ HasPages => a.total \in {a.rows, NoTotal}
              /\ ~HasPages => /\ a.total \in saw.rows
                              /\ dialect = "sqlite" => a.rows = Page(a.total)
                              /\ a.rows = Page(n)
    PROVE  IInv'
<1>1. TypeOK /\ changed = 0 /\ Kind = "SELECT" /\ n \in 0 .. MaxRows
  BY DEF IInv, Underway, Placed, TypeOK
<1>2. answer' = a /\ call'.limit = call.limit /\ call'.offset = call.offset
  BY <1>1, GoesOn DEF Ends
<1>3. UNCHANGED <<rows, shape, others, saw>>
  BY DEF database
<1>4. ASSUME NEW m PROVE Page(m)' = Page(m)
  BY <1>2, SamePage
<1>5. ASSUME Cardinality(saw.rows) = 1, ~HasPages, ~(dialect = "mongodb" /\ call.limit = 0)
      PROVE  a.total = n
  <2>1. IsFiniteSet(saw.rows)
    <3>1. saw.rows \subseteq 0 .. MaxRows
      BY <1>1 DEF TypeOK
    <3>2. IsFiniteSet(0 .. MaxRows)
      BY Bounds, FS_Interval
    <3>3. QED
      BY <3>1, <3>2, FS_Subset
  <2>2. PICK x : saw.rows = {x}
    BY <2>1, <1>5, FS_Singleton
  <2>3. a.total \in saw.rows
    BY <1>5
  <2>4. QED
    BY <2>2, <2>3
<1>6. ASSUME ~(dialect = "mongodb" /\ call.limit = 0)
      PROVE  PageIsTrue'
  <2>1. (\E m \in saw.rows : answer.rows = Page(m) \/ HasPaginationClause(text) # Paged)'
    <3>1. CASE a.rows = Page(n)
      BY <3>1, <1>2, <1>3, <1>4
    <3>2. CASE HasPages <=> ~Paged
      <4>1. HasPages' # Paged'
        BY <3>2, SameReading
      <4>2. n \in saw'.rows
        BY <1>3
      <4>3. QED
        BY <4>1, <4>2 DEF HasPages
    <3>3. QED
      BY <1>6, <3>1, <3>2
  <2>2. (HasPaginationClause(text) => answer.total \in {answer.rows, NoTotal})'
    BY <1>2, <1>6, SameReading DEF HasPages
  <2>3. (~HasPaginationClause(text) => answer.total \in saw.rows)'
    BY <1>2, <1>3, <1>6, SameReading DEF HasPages
  <2>4. (~HasPaginationClause(text) /\ (dialect = "sqlite" \/ Cardinality(saw.rows) = 1) =>
            answer.rows = Page(answer.total))'
    <3>1. Page(answer.total)' = Page(a.total)
      <4>1. Page(answer.total)' = Page(a.total)'
        BY <1>2 DEF Page
      <4>2. QED
        BY <4>1, <1>2, <1>4
    <3>2. QED
      BY <3>1, <1>2, <1>3, <1>5, <1>6, SameReading DEF HasPages
  <2>5. QED
    BY <2>1, <2>2, <2>3, <2>4 DEF PageIsTrue
<1>7. ~IsDml(Kind)
  BY <1>1 DEF IsDml
<1>8. rows' \in 0 .. MaxRows /\ changed' \in 0 .. MaxRows /\ changed' = 0
  BY <1>1, <1>3 DEF TypeOK
<1>9. QED
  BY <1>3, <1>6, <1>7, <1>8, CallEnds

-----------------------------------------------------------------------------
(* The steps of a statement. *)

LEMMA RunPreserves ==
    ASSUME IInv, NEW tx \in BOOLEAN, NEW aggregate \in BOOLEAN,
           NEW limit \in 0 .. 1, NEW offset \in 0 .. 1, Run(tx, limit, offset, aggregate)
    PROVE  IInv'
<1> DEFINE sent == [call EXCEPT !.tx = tx, !.limit = limit, !.offset = offset, !.aggregate = aggregate]
           goes(s) == call' = [sent EXCEPT !.st = s] /\ UNCHANGED answer
<1>1. /\ call.st = "none" /\ about = "statement"
      /\ UNCHANGED <<config, database, schemas, changed, lost>>
      /\ aggregate => dialect = "mongodb" /\ Kind = "SELECT"
  BY DEF Run, Kind
<1>2. TypeOK /\ answer.error = "" /\ changed = 0 /\ rows \in saw.rows /\ answer.total = NoTotal
  BY <1>1 DEF IInv, Underway, Seen
<1>3. \/ Fails("READ_ONLY") \/ Fails("QUERY_FAILED")
      \/ ~readOnly /\ IsDml(Kind) /\ goes("write")
      \/ Kind = "SELECT" /\ HasPages /\ goes("page")
      \/ Kind = "SELECT" /\ ~HasPages /\ goes("count")
      \/ Kind \in {"DDL", "TRANSACTION"} /\ goes("pass")
  BY DEF Run, Kind, HasPages
<1>4. CASE Fails("READ_ONLY") \/ Fails("QUERY_FAILED")
  BY <1>1, <1>4, FailsQuietly DEF Errors
<1>5. ASSUME NEW s \in {"write", "page", "count", "pass"}, goes(s),
             s = "write" => IsDml(Kind) /\ ~readOnly,
             s = "page" => Kind = "SELECT" /\ HasPages,
             s = "count" => Kind = "SELECT" /\ ~HasPages /\ answer.total = NoTotal,
             s = "pass" => ~IsDml(Kind) /\ Kind # "SELECT"
      PROVE  IInv'
  <2>1. call' \in CallRecord /\ call'.st = s
    BY <1>2, <1>5 DEF TypeOK, CallRecord
  <2>2. UNCHANGED <<rows, shape, others, saw>> /\ answer' = answer
    BY <1>1, <1>5 DEF database
  <2>3. TypeOK'
    <3>1. answer' \in Answer /\ rows' \in 0 .. MaxRows /\ changed' \in 0 .. MaxRows
      BY <1>1, <1>2, <2>2 DEF TypeOK
    <3>2. QED
      BY <1>1, <1>2, <2>1, <2>2, <3>1, StatementTyped
  <2>4. Placed'
    <3>1. about' = "statement" /\ Kind' = Kind /\ readOnly' = readOnly /\ (HasPages' <=> HasPages)
      BY <1>1, SameReading
    <3>2. QED
      BY <1>5, <2>1, <3>1 DEF Placed
  <2>5. Underway' /\ ReadOnlyHolds'
    BY <1>1, <1>2, <1>5, <2>1, <2>2, SameReading DEF Underway, ReadOnlyHolds
  <2>6. Seen'
    BY <1>1, <1>2, <1>5, <2>1, <2>2, SameReading DEF Seen
  <2>7. AnswersAreTrue'
    BY <2>1 DEF AnswersAreTrue
  <2>8. about' = "statement"
    BY <1>1, SameReading
  <2>9. QED
    BY <2>3, <2>4, <2>5, <2>6, <2>7, <2>8 DEF IInv
<1>7. CASE ~readOnly /\ IsDml(Kind) /\ goes("write")
  BY <1>5, <1>7
<1>8. CASE Kind = "SELECT" /\ HasPages /\ goes("page")
  BY <1>5, <1>8
<1>9. CASE Kind = "SELECT" /\ ~HasPages /\ goes("count")
  BY <1>5, <1>9, <1>2
<1>10. CASE Kind \in {"DDL", "TRANSACTION"} /\ goes("pass")
  BY <1>5, <1>10 DEF IsDml
<1> HIDE DEF goes
<1>11. QED
  BY <1>3, <1>4, <1>7, <1>8, <1>9, <1>10

LEMMA PassesThroughPreserves ==
    ASSUME IInv, PassesThrough
    PROVE  IInv'
<1>1. /\ call.st = "pass" /\ UNCHANGED <<config, database, schemas, changed, lost>>
      /\ Ends(Empty) \/ Fails("QUERY_FAILED")
  BY DEF PassesThrough
<1>2. /\ TypeOK /\ about = "statement" /\ changed = 0
      /\ ~IsDml(Kind) /\ Kind # "SELECT"
  BY <1>1 DEF IInv, Placed, Underway, TypeOK
<1>3. CASE Ends(Empty)
  <2>1. UNCHANGED <<shape, others, saw>> /\ rows' \in 0 .. MaxRows /\ changed' \in 0 .. MaxRows /\ changed' = 0
    BY <1>1, <1>2 DEF database, TypeOK
  <2>2. QED
    BY <1>1, <1>2, <1>3, <2>1, EmptyIsAnswer, CallEnds
<1>4. CASE Fails("QUERY_FAILED")
  BY <1>1, <1>2, <1>4, FailsQuietly DEF Errors
<1>5. QED
  BY <1>1, <1>3, <1>4

LEMMA GuardBlocksPreserves ==
    ASSUME IInv, GuardBlocks \/ WriteFails
    PROVE  IInv'
<1>1. /\ call.st = "write" /\ UNCHANGED <<config, database, schemas, changed, lost>>
      /\ Fails("DML_BLOCKED") \/ Fails("QUERY_FAILED")
  BY DEF GuardBlocks, WriteFails
<1>2. about = "statement"
  BY <1>1 DEF IInv, TypeOK, Placed
<1>3. QED
  BY <1>1, <1>2, FailsQuietly DEF Errors

(* What holds where a statement is written.                                *)
LEMMA WhereWritten ==
    ASSUME IInv, call.st = "write"
    PROVE  /\ TypeOK /\ about = "statement" /\ IsDml(Kind) /\ ~readOnly /\ changed = 0
           /\ answer.error = ""
BY DEF IInv, TypeOK, Placed, Underway

LEMMA WritesRows ==
    ASSUME TypeOK, NEW n \in Nat, Writes(n), IsDml(Kind), Kind # "INSERT" => n <= rows
    PROVE  /\ n \in 0 .. MaxRows
           /\ rows' \in 0 .. MaxRows /\ changed' = n /\ UNCHANGED <<shape, others, saw>>
<1>1. rows \in Nat /\ rows <= MaxRows /\ MaxRows \in Nat
  BY Bounds DEF TypeOK
<1>2. /\ RowsAfter(Kind, n) <= MaxRows
      /\ rows' = RowsAfter(Kind, n) /\ changed' = n /\ UNCHANGED <<shape, others, saw>>
  BY DEF Writes, Kind
<1>3. RowsAfter(Kind, n) \in Nat /\ n <= MaxRows
  <2>1. CASE Kind = "INSERT"
    BY <2>1, <1>1, <1>2 DEF RowsAfter
  <2>2. CASE Kind = "DELETE"
    BY <2>2, <1>1, <1>2 DEF RowsAfter
  <2>3. CASE Kind = "UPDATE"
    BY <2>3, <1>1, <1>2 DEF RowsAfter
  <2>4. QED
    BY <2>1, <2>2, <2>3 DEF IsDml
<1>4. QED
  BY <1>1, <1>2, <1>3

LEMMA SqliteDmlPreserves ==
    ASSUME IInv, SqliteDml
    PROVE  IInv'
<1> DEFINE n == Hits(Kind)
           a == [Empty EXCEPT !.affected = n, !.returned = IF Dml.returning THEN n ELSE 0]
<1>1. /\ call.st = "write" /\ dialect = "sqlite" /\ Writes(n) /\ Ends(a)
      /\ UNCHANGED <<config, schemas, lost>>
  BY DEF SqliteDml, Passes, Kind
<1>2. TypeOK /\ about = "statement" /\ IsDml(Kind) /\ ~readOnly
  BY <1>1, WhereWritten
<1>3. n \in Nat /\ (Kind # "INSERT" => n <= rows)
  BY <1>2, HitsAreRows
<1> HIDE DEF n
<1>4. /\ n \in 0 .. MaxRows
      /\ rows' \in 0 .. MaxRows /\ changed' = n /\ UNCHANGED <<shape, others, saw>>
  BY <1>1, <1>2, <1>3, WritesRows
<1>5. a \in Answer /\ a.error = "" /\ a.affected = n /\ (Dml.returning => a.returned = n)
  <2>1. 0 \in 0 .. MaxRows
    BY Bounds
  <2>2. [Empty EXCEPT !.affected = n] \in Answer
    BY <1>4, EmptyIsAnswer, AnswerTypes
  <2>3. a = [[Empty EXCEPT !.affected = n] EXCEPT !.returned = IF Dml.returning THEN n ELSE 0]
    OBVIOUS
  <2>4. a \in Answer
    BY <1>4, <2>1, <2>2, <2>3, AnswerTypes
  <2>5. QED
    BY <2>4 DEF Empty
<1> HIDE DEF a
<1>6. QED
  BY <1>1, <1>2, <1>4, <1>5, WriteEnds

LEMMA MysqlDmlPreserves ==
    ASSUME IInv, MysqlDml
    PROVE  IInv'
<1> DEFINE n == Hits(Kind)
           a == [Empty EXCEPT !.affected = n]
<1>1. /\ call.st = "write" /\ dialect = "mysql" /\ Writes(n) /\ answer' = a
      /\ Goes(IF Kind = "INSERT" /\ Dml.returning THEN "readback" ELSE "done")
      /\ UNCHANGED <<config, schemas, lost>>
  BY DEF MysqlDml, Passes, Kind
<1>2. TypeOK /\ about = "statement" /\ IsDml(Kind) /\ ~readOnly
  BY <1>1, WhereWritten
<1>3. n \in Nat /\ (Kind # "INSERT" => n <= rows)
  BY <1>2, HitsAreRows
<1> HIDE DEF n
<1>4. /\ n \in 0 .. MaxRows
      /\ rows' \in 0 .. MaxRows /\ changed' = n /\ UNCHANGED <<shape, others, saw>>
  BY <1>1, <1>2, <1>3, WritesRows
<1>5. a \in Answer /\ a.error = "" /\ a.affected = n
  <2>1. a \in Answer
    BY <1>4, EmptyIsAnswer, AnswerTypes
  <2>2. QED
    BY <2>1 DEF Empty
<1> HIDE DEF a
<1>6. CASE Goes("done")
  <2>1. Ends(a)
    BY <1>1, <1>6 DEF Ends
  <2>2. QED
    BY <1>1, <1>2, <1>4, <1>5, <2>1, WriteEnds
<1>7. CASE Goes("readback") /\ Kind = "INSERT" /\ Dml.returning
  <2> n = RowsOf(Read)
    BY <1>7 DEF Hits, n
  <2>1. call' \in CallRecord /\ call'.st = "readback" /\ call'.tx = call.tx
    BY <1>2, <1>7, GoesOn
  <2>2. TypeOK'
    BY <1>1, <1>2, <1>4, <1>5, <2>1, StatementTyped
  <2>3. Placed'
    BY <1>1, <1>2, <2>1, SameReading DEF Placed
  <2>4. Underway'
    BY <1>1, <1>4, <1>5, <1>7, <2>1, SameReading, SameDml DEF Underway, Kind
  <2>5. ReadOnlyHolds' /\ about' = "statement"
    BY <1>1, <1>2, SameReading DEF ReadOnlyHolds
  <2>6. Seen' /\ AnswersAreTrue'
    BY <2>1 DEF Seen, AnswersAreTrue
  <2>7. QED
    BY <2>2, <2>3, <2>4, <2>5, <2>6 DEF IInv
<1>8. QED
  BY <1>1, <1>6, <1>7

LEMMA MysqlReadsBackPreserves ==
    ASSUME IInv, MysqlReadsBack
    PROVE  IInv'
<1>1. /\ call.st = "readback" /\ UNCHANGED <<config, database, schemas, changed, lost>>
      /\ \/ \E n \in 0 .. Least(rows, IF call.tx THEN 0 ELSE 1) : Ends([answer EXCEPT !.returned = n])
         \/ Fails("QUERY_FAILED")
  BY DEF MysqlReadsBack
<1>2. /\ TypeOK /\ about = "statement" /\ IsDml(Kind) /\ ~readOnly
      /\ dialect = "mysql" /\ Kind = "INSERT" /\ Dml.returning
      /\ answer.error = "" /\ answer.affected = changed /\ changed = RowsOf(Read)
  BY <1>1 DEF IInv, TypeOK, Placed, Underway
<1>3. UNCHANGED <<rows, shape, others, saw>> /\ rows' \in 0 .. MaxRows /\ changed' \in 0 .. MaxRows
  BY <1>1, <1>2 DEF database, TypeOK
<1>4. ASSUME NEW n \in 0 .. Least(rows, IF call.tx THEN 0 ELSE 1), Ends([answer EXCEPT !.returned = n])
      PROVE  IInv'
  <2> DEFINE a == [answer EXCEPT !.returned = n]
  <2>1. n \in 0 .. MaxRows
    <3>1. rows \in 0 .. MaxRows /\ MaxRows \in Nat
      BY <1>2, Bounds, Zenon DEF TypeOK
    <3>2. rows \in Nat /\ rows <= MaxRows
      BY <3>1
    <3>3. Least(rows, IF call.tx THEN 0 ELSE 1) \in Nat /\ Least(rows, IF call.tx THEN 0 ELSE 1) <= rows
      BY <3>2, LeastIsBetween
    <3>4. QED
      BY <3>1, <3>2, <3>3
  <2>2. answer \in Answer
    BY <1>2 DEF TypeOK
  <2>3. a \in Answer /\ a.error = "" /\ a.affected = changed'
    <3>1. a \in Answer
      BY <2>1, <2>2, AnswerTypes
    <3>2. a.error = answer.error /\ a.affected = answer.affected
      BY <2>2 DEF Answer
    <3>3. QED
      BY <3>1, <3>2, <1>1, <1>2
  <2>4. Ends(a)
    BY <1>4
  <2> HIDE DEF a
  <2>5. QED
    BY <1>1, <1>2, <1>3, <2>3, <2>4, WriteEnds
<1>5. CASE Fails("QUERY_FAILED")
  <2> DEFINE a == [Empty EXCEPT !.error = "QUERY_FAILED"]
  <2>1. a \in Answer /\ a.error # ""
    BY EmptyIsAnswer, AnswerTypes DEF Empty, Errors
  <2>2. Ends(a)
    BY <1>5 DEF Fails
  <2> HIDE DEF a
  <2>3. QED
    BY <1>1, <1>2, <1>3, <2>1, <2>2, WriteEnds
<1>6. QED
  BY <1>1, <1>4, <1>5

LEMMA PostgresDmlPreserves ==
    ASSUME IInv, PostgresDml
    PROVE  IInv'
<1> DEFINE n        == Hits(Kind)
           has      == Words(text, "returning") # {}
           needs    == Dml.returning /\ ~has
           returned == IF needs \/ TopWords(Read, "returning") # {} THEN n ELSE 0
           affected == IF has \/ needs THEN returned ELSE n
           a        == [Empty EXCEPT !.affected = affected, !.returned = returned]
<1>1. /\ call.st = "write" /\ dialect = "postgresql" /\ Writes(n) /\ Ends(a)
      /\ UNCHANGED <<config, schemas, lost>>
  BY DEF PostgresDml, Passes, Kind
<1>2. TypeOK /\ about = "statement" /\ IsDml(Kind) /\ ~readOnly
  BY <1>1, WhereWritten
<1>3. n \in Nat /\ (Kind # "INSERT" => n <= rows)
  BY <1>2, HitsAreRows
<1> HIDE DEF n
<1>4. /\ n \in 0 .. MaxRows
      /\ rows' \in 0 .. MaxRows /\ changed' = n /\ UNCHANGED <<shape, others, saw>>
  BY <1>1, <1>2, <1>3, WritesRows
<1>5. returned \in 0 .. MaxRows /\ affected \in 0 .. MaxRows
  BY <1>4, Bounds
<1>6. a \in Answer /\ a.error = "" /\ a.affected = affected /\ a.returned = returned
  <2> HIDE DEF affected, returned
  <2>1. [Empty EXCEPT !.affected = affected] \in Answer
    BY <1>5, EmptyIsAnswer, AnswerTypes
  <2>2. a = [[Empty EXCEPT !.affected = affected] EXCEPT !.returned = returned]
    OBVIOUS
  <2>3. a \in Answer
    BY <1>5, <2>1, <2>2, AnswerTypes
  <2>4. QED
    BY <2>3 DEF Empty
<1>7. affected = n \/ (affected = 0 /\ Words(text, "returning") # {} /\ TopWords(Read, "returning") = {})
  <2>1. CASE has
    BY <2>1
  <2>2. CASE ~has
    BY <2>2
  <2>3. QED
    BY <2>1, <2>2
<1>8. Dml.returning /\ affected = n => returned = n
  OBVIOUS
<1> HIDE DEF a, affected, returned
<1>9. QED
  BY <1>1, <1>2, <1>4, <1>6, <1>7, <1>8, WriteEnds

LEMMA MongoDmlPreserves ==
    ASSUME IInv, MongoDml
    PROVE  IInv'
<1> DEFINE n == Hits(Kind)
<1>1. /\ call.st = "write" /\ dialect = "mongodb" /\ UNCHANGED <<config, schemas, lost>>
      /\ \/ (Fails("QUERY_FAILED") \/ Fails("DML_BLOCKED")) /\ UNCHANGED <<database, changed>>
         \/ Writes(n) /\ Ends([Empty EXCEPT !.affected = n])
         \/ (\E k \in 0 .. n - 1 : Writes(k)) /\ Fails("QUERY_FAILED")
  BY DEF MongoDml, Kind
<1>2. TypeOK /\ about = "statement" /\ IsDml(Kind) /\ ~readOnly
  BY <1>1, WhereWritten
<1>3. n \in Nat /\ (Kind # "INSERT" => n <= rows) /\ (Kind = "INSERT" => n = RowsOf(Read))
  BY <1>2, HitsAreRows DEF Hits
<1> HIDE DEF n
<1>4. CASE (Fails("QUERY_FAILED") \/ Fails("DML_BLOCKED")) /\ UNCHANGED <<database, changed>>
  BY <1>1, <1>2, <1>4, FailsQuietly DEF Errors
<1>5. CASE Writes(n) /\ Ends([Empty EXCEPT !.affected = n])
  <2> DEFINE a == [Empty EXCEPT !.affected = n]
  <2>1. /\ n \in 0 .. MaxRows
        /\ rows' \in 0 .. MaxRows /\ changed' = n /\ UNCHANGED <<shape, others, saw>>
    BY <1>2, <1>3, <1>5, WritesRows
  <2>2. a \in Answer
    BY <2>1, EmptyIsAnswer, AnswerTypes
  <2>3. a.error = "" /\ a.affected = n
    BY <2>2 DEF Empty
  <2>4. Ends(a)
    BY <1>5
  <2> HIDE DEF a
  <2>5. QED
    BY <1>1, <1>2, <2>1, <2>2, <2>3, <2>4, WriteEnds
<1>6. ASSUME NEW k \in 0 .. n - 1, Writes(k), Fails("QUERY_FAILED")
      PROVE  IInv'
  <2> DEFINE a == [Empty EXCEPT !.error = "QUERY_FAILED"]
  <2>1. k \in Nat /\ k < n /\ (Kind # "INSERT" => k <= rows)
    <3>1. rows \in Nat
      BY <1>2, Bounds DEF TypeOK
    <3>2. QED
      BY <1>3, <3>1
  <2>2. k \in 0 .. MaxRows /\ rows' \in 0 .. MaxRows /\ changed' = k /\ UNCHANGED <<shape, others, saw>>
    BY <1>2, <1>6, <2>1, WritesRows
  <2>3. a \in Answer /\ a.error # ""
    BY EmptyIsAnswer, AnswerTypes DEF Empty, Errors
  <2>4. Ends(a)
    BY <1>6 DEF Fails
  <2> HIDE DEF a
  <2>5. \E m \in IF Kind = "INSERT" THEN {RowsOf(Read)} ELSE saw.rows : k < m
    <3>1. CASE Kind = "INSERT"
      BY <1>3, <2>1, <3>1
    <3>2. CASE Kind # "INSERT"
      <4>1. rows \in saw.rows /\ rows \in Nat
        BY <1>1, <1>2, Bounds DEF IInv, Seen, TypeOK
      <4>2. k < rows
        BY <1>3, <2>1, <3>2, <4>1
      <4>3. QED
        BY <3>2, <4>1, <4>2
    <3>3. QED
      BY <3>1, <3>2
  <2>6. QED
    BY <1>1, <1>2, <2>2, <2>3, <2>4, <2>5, WriteEnds
<1>7. QED
  BY <1>1, <1>4, <1>5, <1>6

(* What holds where a SELECT counts or reads a page.                       *)
LEMMA WhereSelected ==
    ASSUME IInv, call.st \in {"count", "page"}
    PROVE  /\ TypeOK /\ about = "statement" /\ rows \in saw.rows
           /\ rows \in 0 .. MaxRows
           /\ Page(rows) \in 0 .. MaxRows /\ MongoPage(rows) \in 0 .. MaxRows
           /\ call.st = "count" => ~HasPages
           /\ call.st = "page" /\ ~HasPages => call.count \in saw.rows
           /\ call.st = "page" /\ (dialect = "sqlite" \/ (dialect = "mongodb" /\ ~call.aggregate)) => HasPages
<1>1. TypeOK /\ about = "statement" /\ rows \in saw.rows /\ rows \in 0 .. MaxRows
  BY DEF IInv, TypeOK, Placed, Seen
<1>2. Page(rows) \in 0 .. MaxRows /\ MongoPage(rows) \in 0 .. MaxRows
  BY <1>1, PageIsPart
<1>3. QED
  BY <1>1, <1>2 DEF IInv, Placed, Seen

(* An answer with some rows and a total.                                   *)
LEMMA PageAnswer ==
    ASSUME NEW n \in 0 .. MaxRows, NEW m \in 0 .. MaxRows
    PROVE  /\ [Empty EXCEPT !.rows = n] \in Answer
           /\ [Empty EXCEPT !.rows = n].rows = n /\ [Empty EXCEPT !.rows = n].total = NoTotal
           /\ [Empty EXCEPT !.rows = n].error = ""
           /\ [Empty EXCEPT !.rows = n, !.total = m] \in Answer
           /\ [Empty EXCEPT !.rows = n, !.total = m].rows = n
           /\ [Empty EXCEPT !.rows = n, !.total = m].total = m
           /\ [Empty EXCEPT !.rows = n, !.total = m].error = ""
<1> DEFINE a == [Empty EXCEPT !.rows = n]
           b == [Empty EXCEPT !.rows = n, !.total = m]
<1>1. a \in Answer
  BY EmptyIsAnswer, AnswerTypes
<1>2. b = [a EXCEPT !.total = m]
  OBVIOUS
<1>3. b \in Answer
  BY <1>1, <1>2, AnswerTypes
<1>4. a.rows = n /\ a.total = NoTotal /\ a.error = "" /\ b.rows = n /\ b.total = m /\ b.error = ""
  BY DEF Empty
<1> HIDE DEF a, b
<1>5. QED
  BY <1>1, <1>3, <1>4 DEF a, b

(* The two answers with which a SELECT ends well.                          *)
LEMMA PageEnds ==
    ASSUME IInv, call.st \in {"count", "page"},
           UNCHANGED <<config, database, schemas, changed, lost>>,
           NEW n \in 0 .. MaxRows, NEW m \in 0 .. MaxRows,
           Ends([Empty EXCEPT !.rows = n, !.total = m]) \/ (HasPages /\ Ends([Empty EXCEPT !.rows = n])),
           ~(dialect = "mongodb" /\ call.limit = 0) =>
              /\ n = Page(rows) \/ (HasPages /\ ~Paged)
              /\ HasPages => m = n
              /\ ~HasPages => m \in saw.rows /\ (dialect = "sqlite" => n = Page(m))
    PROVE  IInv'
<1>1. TypeOK /\ about = "statement" /\ rows \in saw.rows
  BY WhereSelected
<1>2. CASE Ends([Empty EXCEPT !.rows = n, !.total = m])
  <2> DEFINE a == [Empty EXCEPT !.rows = n, !.total = m]
  <2>1. a \in Answer /\ a.rows = n /\ a.total = m /\ Ends(a)
    BY <1>2, PageAnswer
  <2> HIDE DEF a
  <2>2. QED
    BY <1>1, <2>1, SelectEnds
<1>3. CASE HasPages /\ Ends([Empty EXCEPT !.rows = n])
  <2> DEFINE a == [Empty EXCEPT !.rows = n]
  <2>1. a \in Answer /\ a.rows = n /\ a.total = NoTotal /\ Ends(a)
    BY <1>3, PageAnswer
  <2> HIDE DEF a
  <2>2. QED
    BY <1>1, <1>3, <2>1, SelectEnds
<1>4. QED
  BY <1>2, <1>3

LEMMA SqliteSelectsPreserves ==
    ASSUME IInv, SqliteSelects
    PROVE  IInv'
<1> DEFINE n == IF call.st = "count" \/ Paged THEN Page(rows) ELSE rows
           m == IF call.st = "count" THEN rows ELSE n
<1>1. /\ call.st \in {"count", "page"} /\ dialect = "sqlite"
      /\ Ends([Empty EXCEPT !.rows = n, !.total = m])
      /\ UNCHANGED <<config, database, schemas, changed, lost>>
  BY DEF SqliteSelects
<1>2. /\ n \in 0 .. MaxRows /\ m \in 0 .. MaxRows
      /\ n = Page(rows) \/ (HasPages /\ ~Paged)
      /\ HasPages => m = n
      /\ ~HasPages => m \in saw.rows /\ n = Page(m)
  BY <1>1, WhereSelected
<1> HIDE DEF n, m
<1>3. QED
  BY <1>1, <1>2, PageEnds

LEMMA CountsPreserves ==
    ASSUME IInv, Counts
    PROVE  IInv'
<1>1. /\ call.st = "count" /\ dialect \in {"mysql", "postgresql", "mongodb"}
      /\ dialect = "mongodb" => call.aggregate
      /\ call' = [call EXCEPT !.st = "page", !.count = rows]
      /\ UNCHANGED <<config, database, answer, schemas, changed, lost>>
  BY DEF Counts
<1>2. TypeOK /\ about = "statement" /\ rows \in saw.rows /\ rows \in 0 .. MaxRows
  BY <1>1, WhereSelected
<1>3. Kind = "SELECT" /\ answer.error = "" /\ changed = 0
  BY <1>1 DEF IInv, Placed, Underway
<1>4. call' \in CallRecord /\ call'.st = "page" /\ call'.count = rows /\ call'.aggregate = call.aggregate
  BY <1>1, <1>2 DEF TypeOK, CallRecord
<1>5. UNCHANGED <<rows, shape, others, saw>>
  BY <1>1 DEF database
<1>6. TypeOK'
  <2>1. answer' \in Answer /\ rows' \in 0 .. MaxRows /\ changed' \in 0 .. MaxRows
    BY <1>1, <1>2, <1>5 DEF TypeOK
  <2>2. QED
    BY <1>1, <1>2, <1>4, <1>5, <2>1, StatementTyped
<1>7. Placed'
  BY <1>1, <1>2, <1>3, <1>4, SameReading DEF Placed
<1>8. Underway' /\ ReadOnlyHolds'
  BY <1>1, <1>3, <1>4, SameReading DEF Underway, ReadOnlyHolds
<1>9. Seen' /\ AnswersAreTrue' /\ about' = "statement"
  BY <1>1, <1>2, <1>4, <1>5, SameReading DEF Seen, AnswersAreTrue
<1>10. QED
  BY <1>6, <1>7, <1>8, <1>9 DEF IInv

LEMMA ServerPagesPreserve ==
    ASSUME IInv, MysqlPages \/ PostgresPages
    PROVE  IInv'
<1> DEFINE n == IF HasPages /\ ~Paged THEN rows ELSE Page(rows)
           m == IF HasPages THEN n ELSE call.count
<1>1. /\ call.st = "page" /\ dialect # "sqlite" /\ dialect # "mongodb"
      /\ UNCHANGED <<config, database, schemas, changed, lost>>
  BY DEF MysqlPages, PostgresPages
<1>2. Ends([Empty EXCEPT !.rows = n, !.total = m]) \/ (HasPages /\ Ends([Empty EXCEPT !.rows = n]))
  BY DEF MysqlPages, PostgresPages, HasPages
<1>3. call.count \in 0 .. MaxRows
  BY DEF IInv, TypeOK, CallRecord
<1>4. /\ n \in 0 .. MaxRows /\ m \in 0 .. MaxRows
      /\ n = Page(rows) \/ (HasPages /\ ~Paged)
      /\ HasPages => m = n
      /\ ~HasPages => m \in saw.rows
  BY <1>1, <1>3, WhereSelected
<1> HIDE DEF n, m
<1>5. QED
  BY <1>1, <1>2, <1>4, PageEnds

(* With a limit, the pages of a find are those of the other databases.     *)
LEMMA FindPages ==
    ASSUME call.limit # 0, NEW n
    PROVE  MongoPage(n) = Page(n)
BY DEF MongoPage

LEMMA MongoFindsPreserves ==
    ASSUME IInv, MongoFinds
    PROVE  IInv'
<1>1. /\ dialect = "mongodb" /\ ~call.aggregate /\ call.st \in {"count", "page"}
      /\ UNCHANGED <<config, database, schemas, changed, lost>>
  BY DEF MongoFinds
<1>2. /\ TypeOK /\ about = "statement" /\ rows \in saw.rows /\ rows \in 0 .. MaxRows
      /\ MongoPage(rows) \in 0 .. MaxRows
      /\ call.st = "count" => ~HasPages
      /\ call.st = "page" => HasPages
  BY <1>1, WhereSelected
<1>3. /\ Kind = "SELECT" /\ answer.error = "" /\ changed = 0
      /\ call.st = "count" /\ answer.total # NoTotal => \E n \in saw.rows : answer.rows = MongoPage(n)
  BY <1>1 DEF IInv, Placed, Underway, Seen
<1>4. CASE call.st = "page" /\ Ends([Empty EXCEPT !.rows = MongoPage(rows), !.total = MongoPage(rows)])
  <2> DEFINE n == MongoPage(rows)
  <2>1. call.limit # 0 => n = Page(rows)
    BY FindPages
  <2>2. n \in 0 .. MaxRows /\ Ends([Empty EXCEPT !.rows = n, !.total = n])
    BY <1>2, <1>4
  <2> HIDE DEF n
  <2>3. QED
    BY <1>1, <1>2, <1>4, <2>1, <2>2, PageEnds
<1>5. CASE /\ call.st = "count" /\ answer.total = NoTotal
           /\ answer' = [Empty EXCEPT !.rows = MongoPage(rows), !.total = 0]
           /\ UNCHANGED call
  <2> DEFINE n == MongoPage(rows)
  <2>1. 0 \in 0 .. MaxRows
    BY Bounds
  <2>2. answer' \in Answer /\ answer'.rows = n /\ answer'.error = ""
    <3>1. n \in 0 .. MaxRows /\ answer' = [Empty EXCEPT !.rows = n, !.total = 0]
      BY <1>2, <1>5
    <3> HIDE DEF n
    <3>2. QED
      BY <2>1, <3>1, PageAnswer
  <2>3. UNCHANGED <<rows, shape, others, saw>> /\ call' = call
    BY <1>1, <1>5 DEF database
  <2>4. TypeOK'
    <3>1. call' \in CallRecord /\ rows' \in 0 .. MaxRows /\ changed' \in 0 .. MaxRows
      BY <1>1, <1>2, <2>3 DEF TypeOK
    <3>2. QED
      BY <1>1, <1>2, <2>2, <2>3, <3>1, StatementTyped
  <2>5. Placed' /\ Underway' /\ ReadOnlyHolds'
    BY <1>1, <1>2, <1>3, <1>5, <2>2, <2>3, SameReading DEF Placed, Underway, ReadOnlyHolds
  <2>6. MongoPage(rows)' = MongoPage(rows)
    BY <1>1, <2>3, SameReading DEF MongoPage, Page
  <2>7. Seen'
    BY <1>1, <1>2, <1>5, <2>2, <2>3, <2>6, SameReading DEF Seen
  <2>8. AnswersAreTrue' /\ about' = "statement"
    BY <1>1, <1>2, <1>5, <2>3, SameReading DEF AnswersAreTrue
  <2>9. QED
    BY <2>4, <2>5, <2>7, <2>8 DEF IInv
<1>6. CASE call.st = "count" /\ answer.total # NoTotal /\ Ends([answer EXCEPT !.total = rows])
  <2> DEFINE a == [answer EXCEPT !.total = rows]
  <2>1. PICK n \in saw.rows : answer.rows = MongoPage(n)
    BY <1>3, <1>6
  <2>2. a \in Answer /\ a.rows = MongoPage(n) /\ a.total = rows
    <3>1. answer \in Answer
      BY <1>2 DEF TypeOK
    <3>2. a \in Answer
      BY <1>2, <3>1, AnswerTypes
    <3>3. a.rows = answer.rows /\ a.total = rows
      BY <3>1 DEF Answer
    <3>4. QED
      BY <3>2, <3>3, <2>1
  <2>3. call.limit # 0 => a.rows = Page(n)
    BY <2>2, FindPages
  <2>4. Ends(a)
    BY <1>6
  <2> HIDE DEF a
  <2>5. QED
    BY <1>1, <1>2, <1>6, <2>2, <2>3, <2>4, SelectEnds
<1>7. QED
  BY <1>4, <1>5, <1>6 DEF MongoFinds

LEMMA MongoAggregatesPreserves ==
    ASSUME IInv, MongoAggregates
    PROVE  IInv'
<1>1. /\ dialect = "mongodb" /\ call.st = "page"
      /\ UNCHANGED <<config, database, schemas, changed, lost>>
      /\ \/ HasPages /\ Ends([Empty EXCEPT !.rows = Page(rows), !.total = Page(rows)])
         \/ Fails("QUERY_FAILED")
         \/ ~HasPages /\ Ends([Empty EXCEPT !.rows = Page(rows), !.total = call.count])
  BY DEF MongoAggregates, HasPages
<1>2. /\ about = "statement" /\ Page(rows) \in 0 .. MaxRows
      /\ ~HasPages => call.count \in saw.rows
  BY <1>1, WhereSelected
<1>3. call.count \in 0 .. MaxRows
  BY DEF IInv, TypeOK, CallRecord
<1>4. CASE HasPages /\ Ends([Empty EXCEPT !.rows = Page(rows), !.total = Page(rows)])
  BY <1>1, <1>2, <1>4, PageEnds
<1>5. CASE ~HasPages /\ Ends([Empty EXCEPT !.rows = Page(rows), !.total = call.count])
  BY <1>1, <1>2, <1>3, <1>5, PageEnds
<1>6. CASE Fails("QUERY_FAILED")
  BY <1>1, <1>2, <1>6, FailsQuietly DEF Errors
<1>7. QED
  BY <1>1, <1>4, <1>5, <1>6

LEMMA SelectFailsPreserves ==
    ASSUME IInv, SelectFails
    PROVE  IInv'
<1>1. /\ call.st \in {"count", "page"} /\ Fails("QUERY_FAILED")
      /\ UNCHANGED <<config, database, schemas, changed, lost>>
  BY DEF SelectFails
<1>2. QED
  BY <1>1, WhereSelected, FailsQuietly DEF Errors

-----------------------------------------------------------------------------
(* The steps of an export. *)

(* A step of an export that goes on leaves all but what it collects.       *)
LEMMA ExportGoesOn ==
    ASSUME IInv, about = "export", UNCHANGED <<config, database, answer, changed>>,
           call' \in CallRecord, call'.st \in {"list", "tables", "rest"}, call.st # "done",
           schemas' \in [Table -> {NoParts} \cup (0 .. MaxOthers + 1) \X (0 .. MaxOthers + 1)],
           lost' \subseteq Table, Collects'
    PROVE  IInv'
<1>1. UNCHANGED <<rows, shape, others, saw>>
  BY DEF database
<1>2. TypeOK /\ answer.error = "" /\ ReadOnlyHolds
  BY DEF IInv, Underway
<1>3. TypeOK'
  BY <1>1, <1>2, SameReading DEF TypeOK
<1>4. about' = "export"
  BY SameReading
<1>5. Placed' /\ Seen' /\ AnswersAreTrue' /\ SchemasAreWhole'
  BY <1>4 DEF Placed, Seen, AnswersAreTrue, SchemasAreWhole
<1>6. Underway'
  BY <1>2 DEF Underway
<1>7. ReadOnlyHolds'
  BY <1>2, SameReading DEF ReadOnlyHolds
<1>8. QED
  BY <1>3, <1>4, <1>5, <1>6, <1>7 DEF IInv

(* One that ends leaves nothing but the schemas, whole if it succeeds.     *)
LEMMA ExportIsOver ==
    ASSUME IInv, about = "export", UNCHANGED <<config, database, schemas, changed, lost>>,
           NEW a \in Answer, Ends(a), a.error = "" => call.st = "tables" /\ call.todo = {}
    PROVE  IInv'
<1>1. TypeOK /\ Collects
  BY DEF IInv
<1>2. call' \in CallRecord /\ call'.st = "done" /\ answer' = a
  BY <1>1, GoesOn DEF Ends
<1>3. UNCHANGED <<rows, shape, others, saw>>
  BY DEF database
<1>4. TypeOK'
  BY <1>1, <1>2, <1>3, SameReading DEF TypeOK
<1>5. about' = "export"
  BY SameReading
<1>6. Placed' /\ Underway' /\ Seen' /\ AnswersAreTrue'
  BY <1>2, <1>5 DEF Placed, Underway, Seen, AnswersAreTrue
<1>7. ReadOnlyHolds'
  BY SameReading DEF ReadOnlyHolds, IInv
<1>8. Collects'
  BY <1>1, <1>2, <1>3, SameReading DEF Collects
<1>9. SchemasAreWhole'
  <2>1. SUFFICES ASSUME a.error = "", NEW t \in Table
                 PROVE  /\ Stays(t) /\ t \notin lost => schemas[t] = <<shape[t], shape[t]>>
                        /\ saw.shapes[t] = {0} => schemas[t] = NoParts
                        /\ schemas[t] # NoParts =>
                              /\ schemas[t][1] \in saw.shapes[t] /\ schemas[t][2] \in saw.shapes[t]
                              /\ dialect \in {"sqlite", "mongodb"} => schemas[t][1] = schemas[t][2]
    BY <1>2, <1>3, SameReading DEF SchemasAreWhole, Stays
  <2>2. QED
    BY <1>1, <2>1 DEF Collects
<1>10. QED
  BY <1>4, <1>5, <1>6, <1>7, <1>8, <1>9 DEF IInv

LEMMA ExportFails ==
    ASSUME IInv, about = "export", UNCHANGED <<config, database, schemas, changed, lost>>,
           NEW e \in Errors \ {""}, Fails(e)
    PROVE  IInv'
<1> DEFINE a == [Empty EXCEPT !.error = e]
<1>1. a \in Answer /\ a.error # "" /\ Ends(a)
  BY EmptyIsAnswer, AnswerTypes DEF Fails, Empty
<1> HIDE DEF a
<1>2. QED
  BY <1>1, ExportIsOver

LEMMA ExportPreserves ==
    ASSUME IInv, Export
    PROVE  IInv'
<1>1. /\ call.st = "none" /\ about = "export" /\ Goes("list")
      /\ UNCHANGED <<config, database, answer, schemas, changed, lost>>
  BY DEF Export
<1>2. TypeOK /\ Collects
  BY <1>1 DEF IInv
<1>3. call' \in CallRecord /\ call'.st = "list"
  BY <1>1, <1>2, GoesOn
<1>4. UNCHANGED <<shape, saw>> /\ dialect' = dialect
  BY <1>1, SameReading DEF database
<1>5. Collects'
  BY <1>1, <1>2, <1>3, <1>4 DEF Collects
<1>6. schemas' \in [Table -> {NoParts} \cup (0 .. MaxOthers + 1) \X (0 .. MaxOthers + 1)] /\ lost' \subseteq Table
  BY <1>1, <1>2 DEF TypeOK
<1>7. QED
  BY <1>1, <1>3, <1>5, <1>6, ExportGoesOn

LEMMA ListTablesPreserves ==
    ASSUME IInv, ListTables
    PROVE  IInv'
<1>1. /\ call.st = "list" /\ UNCHANGED <<config, database, schemas, changed, lost>>
      /\ \/ call' = [call EXCEPT !.st = "tables", !.todo = {t \in Table : shape[t] # 0}] /\ UNCHANGED answer
         \/ Fails("QUERY_FAILED")
  BY DEF ListTables
<1>2. TypeOK /\ about = "export"
  BY <1>1 DEF IInv, TypeOK, Placed
<1>3. Collects
  BY <1>2 DEF IInv
<1>4. CASE call' = [call EXCEPT !.st = "tables", !.todo = {t \in Table : shape[t] # 0}] /\ UNCHANGED answer
  <2>1. call' \in CallRecord /\ call'.st = "tables" /\ call'.todo = {t \in Table : shape[t] # 0}
    BY <1>2, <1>4 DEF TypeOK, CallRecord
  <2>2. UNCHANGED <<shape, saw, schemas, lost>> /\ dialect' = dialect
    BY <1>1, SameReading DEF database
  <2>3. ASSUME NEW t \in Table
        PROVE  /\ Stays(t) => t \in call'.todo
               /\ saw.shapes[t] = {0} => t \notin call'.todo
    <3>1. shape[t] \in saw.shapes[t]
      BY <1>3 DEF Collects
    <3>2. QED
      BY <2>1, <3>1 DEF Stays
  <2>4. Collects'
    BY <1>3, <2>1, <2>2, <2>3 DEF Collects, Stays
  <2>5. schemas' \in [Table -> {NoParts} \cup (0 .. MaxOthers + 1) \X (0 .. MaxOthers + 1)] /\ lost' \subseteq Table
    BY <1>2, <2>2 DEF TypeOK
  <2>6. QED
    BY <1>1, <1>2, <1>4, <2>1, <2>4, <2>5, ExportGoesOn
<1>5. CASE Fails("QUERY_FAILED")
  BY <1>1, <1>2, <1>5, ExportFails DEF Errors
<1>6. QED
  BY <1>1, <1>4, <1>5

(* A schema is collected: the parts are versions that there were, those of *)
(* now if the table has not changed.                                       *)
LEMMA TableCollected ==
    ASSUME IInv, about = "export", call.st \in {"tables", "rest"},
           NEW t \in call.todo, NEW p, NEW q, Collected(t, <<p, q>>),
           p \in saw.shapes[t], q \in saw.shapes[t],
           dialect \in {"sqlite", "mongodb"} => p = q,
           UNCHANGED <<config, database, answer, changed, lost>>
    PROVE  IInv'
<1>1. TypeOK /\ Collects
  BY DEF IInv
<1>2. t \in Table /\ call.todo \subseteq Table
  BY <1>1 DEF TypeOK, CallRecord
<1>3. /\ call' \in CallRecord /\ call'.st = "tables" /\ call'.todo = call.todo \ {t}
      /\ schemas' = [schemas EXCEPT ![t] = <<p, q>>]
  BY <1>1 DEF Collected, TypeOK, CallRecord
<1>4. UNCHANGED <<shape, saw, lost>> /\ dialect' = dialect
  BY SameReading DEF database
<1>5. p \in 0 .. MaxOthers + 1 /\ q \in 0 .. MaxOthers + 1
  BY <1>1, <1>2 DEF TypeOK
<1>6. schemas' \in [Table -> {NoParts} \cup (0 .. MaxOthers + 1) \X (0 .. MaxOthers + 1)]
  BY <1>1, <1>3, <1>5 DEF TypeOK
<1>7. /\ schemas'[t] = <<p, q>>
      /\ \A u \in Table \ {t} : schemas'[u] = schemas[u]
  BY <1>1, <1>2, <1>3 DEF TypeOK
<1>8. Stays(t) => p = shape[t] /\ q = shape[t]
  BY DEF Stays
<1>9. saw.shapes[t] # {0}
  BY <1>1, <1>2 DEF Collects
<1>10. ASSUME NEW u \in Table
       PROVE  /\ Stays(u) /\ u \notin lost => u \in call'.todo \/ schemas'[u] = <<shape[u], shape[u]>>
              /\ saw.shapes[u] = {0} => u \notin call'.todo
              /\ saw.shapes[u] = {0} => schemas'[u] = NoParts
              /\ schemas'[u] # NoParts =>
                    /\ schemas'[u][1] \in saw.shapes[u] /\ schemas'[u][2] \in saw.shapes[u]
                    /\ dialect \in {"sqlite", "mongodb"} => schemas'[u][1] = schemas'[u][2]
  <2>1. CASE u = t
    BY <2>1, <1>7, <1>8, <1>9
  <2>2. CASE u # t
    <3>1. schemas'[u] = schemas[u] /\ (u \in call'.todo <=> u \in call.todo)
      BY <2>2, <1>3, <1>7
    <3>2. QED
      BY <3>1, <1>1 DEF Collects
  <2>3. QED
    BY <2>1, <2>2
<1>11. Collects'
  <2>1. \A u \in Table : shape[u] \in saw.shapes[u]
    BY <1>1 DEF Collects
  <2>2. QED
    BY <1>3, <1>4, <1>10, <2>1 DEF Collects, Stays
<1>12. lost' \subseteq Table /\ call.st # "done"
  BY <1>1, <1>4 DEF TypeOK
<1>13. QED
  BY <1>3, <1>6, <1>11, <1>12, ExportGoesOn

(* A table is left out, and not forgotten.                                 *)
LEMMA TableLost ==
    ASSUME IInv, about = "export", call.st \in {"tables", "rest"}, NEW t \in call.todo,
           call' = [call EXCEPT !.st = "tables", !.todo = @ \ {t}], lost' = lost \cup {t},
           UNCHANGED <<config, database, answer, schemas, changed>>
    PROVE  IInv'
<1>1. TypeOK /\ Collects
  BY DEF IInv
<1>2. t \in Table
  BY <1>1 DEF TypeOK, CallRecord
<1>3. call' \in CallRecord /\ call'.st = "tables" /\ call'.todo = call.todo \ {t}
  BY <1>1 DEF TypeOK, CallRecord
<1>4. UNCHANGED <<shape, saw, schemas>> /\ dialect' = dialect
  BY SameReading DEF database
<1>5. Collects'
  <2>1. ASSUME NEW u \in Table
        PROVE  /\ Stays(u) /\ u \notin lost' => u \in call'.todo \/ schemas[u] = <<shape[u], shape[u]>>
               /\ saw.shapes[u] = {0} => u \notin call'.todo
    BY <1>1, <1>3 DEF Collects
  <2>2. QED
    BY <1>1, <1>3, <1>4, <2>1 DEF Collects, Stays
<1>6. /\ schemas' \in [Table -> {NoParts} \cup (0 .. MaxOthers + 1) \X (0 .. MaxOthers + 1)]
      /\ lost' \subseteq Table /\ call.st # "done"
  BY <1>1, <1>2, <1>4 DEF TypeOK
<1>7. QED
  BY <1>3, <1>5, <1>6, ExportGoesOn

LEMMA SqliteDescribesPreserves ==
    ASSUME IInv, NEW t \in Table, SqliteDescribes(t)
    PROVE  IInv'
<1>1. /\ call.st = "tables" /\ t \in call.todo
      /\ \/ Collected(t, <<shape[t], shape[t]>>) /\ UNCHANGED answer
         \/ Fails("TABLE_NOT_FOUND") /\ UNCHANGED schemas
      /\ UNCHANGED <<config, database, changed, lost>>
  BY DEF SqliteDescribes
<1>2. about = "export"
  BY <1>1 DEF IInv, TypeOK, Placed
<1>3. shape[t] \in saw.shapes[t]
  BY <1>2 DEF IInv, Collects
<1>4. CASE Collected(t, <<shape[t], shape[t]>>) /\ UNCHANGED answer
  BY <1>1, <1>2, <1>3, <1>4, TableCollected
<1>5. CASE Fails("TABLE_NOT_FOUND") /\ UNCHANGED schemas
  BY <1>1, <1>2, <1>5, ExportFails DEF Errors
<1>6. QED
  BY <1>1, <1>4, <1>5

LEMMA ServerColumnsPreserves ==
    ASSUME IInv, NEW t \in Table, ServerColumns(t)
    PROVE  IInv'
<1>1. /\ call.st = "tables" /\ dialect \in {"mysql", "postgresql"} /\ t \in call.todo /\ shape[t] # 0
      /\ call' = [call EXCEPT !.st = "rest", !.table = t, !.first = shape[t]]
      /\ UNCHANGED <<config, database, answer, schemas, changed, lost>>
  BY DEF ServerColumns
<1>2. TypeOK /\ about = "export"
  BY <1>1 DEF IInv, TypeOK, Placed
<1>3. Collects
  BY <1>2 DEF IInv
<1>4. shape[t] \in Nat
  BY <1>2, Bounds DEF TypeOK
<1>5. /\ call' \in CallRecord /\ call'.st = "rest" /\ call'.todo = call.todo
      /\ call'.table = t /\ call'.first = shape[t]
  BY <1>1, <1>2, <1>4 DEF TypeOK, CallRecord
<1>6. UNCHANGED <<shape, saw, schemas, lost>> /\ dialect' = dialect
  BY <1>1, SameReading DEF database
<1>7. shape[t] \in saw.shapes[t]
  BY <1>3 DEF Collects
<1>8. Collects'
  BY <1>1, <1>3, <1>5, <1>6, <1>7 DEF Collects, Stays
<1>9. schemas' \in [Table -> {NoParts} \cup (0 .. MaxOthers + 1) \X (0 .. MaxOthers + 1)] /\ lost' \subseteq Table
  BY <1>2, <1>6 DEF TypeOK
<1>10. QED
  BY <1>1, <1>2, <1>5, <1>8, <1>9, ExportGoesOn

LEMMA ServerRestPreserves ==
    ASSUME IInv, ServerRest
    PROVE  IInv'
<1>1. /\ call.st = "rest" /\ Collected(call.table, <<call.first, shape[call.table]>>)
      /\ UNCHANGED <<config, database, answer, changed, lost>>
  BY DEF ServerRest
<1>2. about = "export" /\ TypeOK
  BY <1>1 DEF IInv, TypeOK, Placed
<1>3. /\ call.table \in call.todo /\ call.first \in saw.shapes[call.table]
      /\ dialect \notin {"sqlite", "mongodb"}
      /\ shape[call.table] \in saw.shapes[call.table]
  BY <1>1, <1>2 DEF IInv, Collects, TypeOK, CallRecord
<1>4. QED
  BY <1>1, <1>2, <1>3, TableCollected

LEMMA ServerSkipsPreserves ==
    ASSUME IInv, NEW t \in Table, ServerSkips(t)
    PROVE  IInv'
<1>1. /\ call.st \in {"tables", "rest"} /\ t \in call.todo
      /\ call' = [call EXCEPT !.st = "tables", !.todo = @ \ {t}] /\ lost' = lost \cup {t}
      /\ UNCHANGED <<config, database, answer, schemas, changed>>
  BY DEF ServerSkips
<1>2. about = "export"
  BY <1>1 DEF IInv, TypeOK, Placed
<1>3. QED
  BY <1>1, <1>2, TableLost

LEMMA MongoSamplesPreserves ==
    ASSUME IInv, NEW t \in Table, MongoSamples(t)
    PROVE  IInv'
<1>1. /\ call.st = "tables" /\ t \in call.todo
      /\ \/ Collected(t, <<shape[t], shape[t]>>) /\ UNCHANGED lost
         \/ call' = [call EXCEPT !.todo = @ \ {t}] /\ lost' = lost \cup {t} /\ UNCHANGED schemas
      /\ UNCHANGED <<config, database, answer, changed>>
  BY DEF MongoSamples
<1>2. about = "export" /\ call \in CallRecord
  BY <1>1 DEF IInv, TypeOK, Placed
<1>3. shape[t] \in saw.shapes[t]
  BY <1>2 DEF IInv, Collects
<1>4. CASE Collected(t, <<shape[t], shape[t]>>) /\ UNCHANGED lost
  BY <1>1, <1>2, <1>3, <1>4, TableCollected
<1>5. CASE call' = [call EXCEPT !.todo = @ \ {t}] /\ lost' = lost \cup {t} /\ UNCHANGED schemas
  <2>1. call' = [call EXCEPT !.st = "tables", !.todo = @ \ {t}]
    BY <1>1, <1>2, <1>5 DEF CallRecord
  <2>2. QED
    BY <1>1, <1>2, <1>5, <2>1, TableLost
<1>6. QED
  BY <1>1, <1>4, <1>5

LEMMA ExportEndsPreserves ==
    ASSUME IInv, ExportEnds
    PROVE  IInv'
<1>1. /\ call.st = "tables" /\ call.todo = {} /\ Ends(Empty)
      /\ UNCHANGED <<config, database, schemas, changed, lost>>
  BY DEF ExportEnds
<1>2. about = "export"
  BY <1>1 DEF IInv, TypeOK, Placed
<1>3. QED
  BY <1>1, <1>2, EmptyIsAnswer, ExportIsOver

-----------------------------------------------------------------------------
(* Texts that are only analysed, and the changes of others. *)

LEMMA TypePreserves ==
    ASSUME IInv, NEW t \in Alphabet, Type(t)
    PROVE  IInv'
<1>1. /\ about = "text" /\ Len(text) < MaxText /\ text' = Append(text, t)
      /\ UNCHANGED <<about, dialect, own, pooled, readOnly, database, call, answer, schemas, changed, lost>>
  BY DEF Type
<1>2. TypeOK /\ call.st = "none" /\ text \in Seq(Alphabet)
  BY <1>1 DEF IInv, Placed, TypeOK
<1>3. UNCHANGED <<rows, shape, others, saw>>
  BY <1>1 DEF database
<1>4. text' \in Seq(Alphabet) /\ Len(text') = Len(text) + 1 /\ Len(text) \in Nat
  BY <1>1, <1>2
<1>5. TypeOK'
  <2>1. text' \in Seq(Alphabet) /\ Len(text') <= MaxText /\ about' = "text"
    BY <1>1, <1>4, Bounds
  <2>2. QED
    BY <1>1, <1>2, <1>3, <2>1 DEF TypeOK
<1>6. Placed' /\ AnswersAreTrue'
  BY <1>1, <1>2 DEF Placed, AnswersAreTrue
<1>7. Underway' /\ ReadOnlyHolds'
  BY <1>1, <1>2 DEF IInv, Underway, ReadOnlyHolds
<1>8. Seen'
  BY <1>1, <1>2 DEF IInv, Seen
<1>9. about' # "export"
  BY <1>1
<1>10. QED
  BY <1>5, <1>6, <1>7, <1>8, <1>9 DEF IInv

LEMMA OtherWritesPreserves ==
    ASSUME IInv, OtherWrites
    PROVE  IInv'
<1>1. /\ call.st \in {"count", "page", "readback"} /\ others < MaxOthers /\ others' = others + 1
      /\ rows' \in 0 .. MaxRows
      /\ saw' = [saw EXCEPT !.rows = @ \cup {rows'}]
      /\ UNCHANGED <<config, shape, call, answer, schemas, changed, lost>>
  BY DEF OtherWrites
<1>2. TypeOK /\ about = "statement"
  BY <1>1 DEF IInv, TypeOK, Placed
<1>3. /\ saw'.rows = saw.rows \cup {rows'} /\ saw'.shapes = saw.shapes
      /\ saw' \in [rows : SUBSET (0 .. MaxRows), shapes : [Table -> SUBSET (0 .. MaxOthers + 1)]]
  BY <1>1, <1>2 DEF TypeOK
<1>4. others' \in 0 .. MaxOthers
  BY <1>1, <1>2, Bounds DEF TypeOK
<1>5. TypeOK'
  BY <1>1, <1>2, <1>3, <1>4, SameReading DEF TypeOK
<1>6. Placed'
  BY <1>1, SameReading DEF IInv, Placed
<1>7. Underway' /\ ReadOnlyHolds'
  <2>1. Dml' = Dml
    BY <1>1, SameDml
  <2>2. Underway'
    BY <1>1, <2>1, SameReading DEF IInv, Underway
  <2>3. ReadOnlyHolds'
    BY <1>1, SameReading DEF IInv, ReadOnlyHolds
  <2>4. QED
    BY <2>2, <2>3
<1>8. Seen'
  <2>1. Seen
    BY DEF IInv
  <2>2. \A n \in saw.rows : n \in saw'.rows /\ MongoPage(n)' = MongoPage(n)
    BY <1>1, <1>3, SamePage
  <2>3. rows' \in saw'.rows
    BY <1>3
  <2>4. QED
    BY <1>1, <2>1, <2>2, <2>3, SameReading DEF Seen
<1>9. AnswersAreTrue' /\ about' = "statement"
  BY <1>1, <1>2, SameReading DEF AnswersAreTrue
<1>10. QED
  BY <1>5, <1>6, <1>7, <1>8, <1>9 DEF IInv

LEMMA OtherAltersPreserves ==
    ASSUME IInv, NEW t \in Table, OtherAlters(t)
    PROVE  IInv'
<1>1. /\ call.st \in {"list", "tables", "rest"} /\ others < MaxOthers /\ others' = others + 1
      /\ saw' = [saw EXCEPT !.shapes[t] = @ \cup {shape'[t]}]
      /\ UNCHANGED <<config, rows, call, answer, schemas, changed, lost>>
  BY DEF OtherAlters
<1>2. PICK v \in {0, others + 2} : shape' = [shape EXCEPT ![t] = v]
  BY DEF OtherAlters
<1>3. TypeOK /\ about = "export"
  BY <1>1 DEF IInv, TypeOK, Placed
<1>4. Collects
  BY <1>3 DEF IInv
<1>5. others' \in 0 .. MaxOthers /\ v \in 0 .. MaxOthers + 1
  BY <1>1, <1>3, Bounds DEF TypeOK
<1>6. /\ shape'[t] = v /\ \A u \in Table \ {t} : shape'[u] = shape[u]
      /\ shape' \in [Table -> 0 .. MaxOthers + 1]
  BY <1>2, <1>3, <1>5 DEF TypeOK
<1>7. /\ saw'.rows = saw.rows
      /\ saw'.shapes[t] = saw.shapes[t] \cup {v}
      /\ \A u \in Table \ {t} : saw'.shapes[u] = saw.shapes[u]
      /\ saw' \in [rows : SUBSET (0 .. MaxRows), shapes : [Table -> SUBSET (0 .. MaxOthers + 1)]]
  BY <1>1, <1>3, <1>5, <1>6 DEF TypeOK
<1>8. TypeOK'
  BY <1>1, <1>3, <1>5, <1>6, <1>7, SameReading DEF TypeOK
<1>9. Placed' /\ Underway' /\ ReadOnlyHolds'
  <2>1. Placed'
    BY <1>1, <1>3, SameReading DEF Placed
  <2>2. Underway'
    BY <1>1 DEF IInv, Underway
  <2>3. ReadOnlyHolds'
    BY <1>1, SameReading DEF IInv, ReadOnlyHolds
  <2>4. QED
    BY <2>1, <2>2, <2>3
<1>10. Seen' /\ AnswersAreTrue' /\ SchemasAreWhole' /\ about' = "export"
  BY <1>1, <1>3, SameReading DEF Seen, AnswersAreTrue, SchemasAreWhole
<1>11. ASSUME NEW u \in Table
       PROVE  /\ shape'[u] \in saw'.shapes[u] /\ saw.shapes[u] \subseteq saw'.shapes[u]
              /\ Stays(u)' => Stays(u) /\ shape'[u] = shape[u]
              /\ saw'.shapes[u] = {0} => saw.shapes[u] = {0}
  <2>1. shape[u] \in saw.shapes[u]
    BY <1>4 DEF Collects
  <2>2. CASE u = t
    BY <2>1, <2>2, <1>6, <1>7 DEF Stays
  <2>3. CASE u # t
    BY <2>1, <2>3, <1>6, <1>7 DEF Stays
  <2>4. QED
    BY <2>2, <2>3
<1>12. Collects'
  <2>1. call' = call /\ schemas' = schemas /\ lost' = lost /\ dialect' = dialect
    BY <1>1, SameReading
  <2>2. \A u \in Table : shape'[u] \in saw'.shapes[u]
    BY <1>11
  <2>3. call.st \in {"tables", "rest"} =>
          \A u \in Table :
             /\ Stays(u)' /\ u \notin lost => u \in call.todo \/ schemas[u] = <<shape'[u], shape'[u]>>
             /\ saw'.shapes[u] = {0} => u \notin call.todo
    BY <1>4, <1>11 DEF Collects
  <2>4. call.st = "rest" => call.table \in Table /\ call.first \in saw'.shapes[call.table]
    BY <1>3, <1>4, <1>11 DEF Collects, TypeOK, CallRecord
  <2>5. \A u \in Table :
          /\ saw'.shapes[u] = {0} => schemas[u] = NoParts
          /\ schemas[u] # NoParts =>
                /\ schemas[u][1] \in saw'.shapes[u] /\ schemas[u][2] \in saw'.shapes[u]
                /\ dialect \in {"sqlite", "mongodb"} => schemas[u][1] = schemas[u][2]
    BY <1>4, <1>11 DEF Collects
  <2>6. QED
    BY <1>1, <1>4, <2>1, <2>2, <2>3, <2>4, <2>5 DEF Collects
<1>13. QED
  BY <1>8, <1>9, <1>10, <1>12 DEF IInv

-----------------------------------------------------------------------------
(* Every step keeps the invariant. *)

LEMMA NextPreserves == IInv /\ [Next]_vars => IInv'
<1> SUFFICES ASSUME IInv, [Next]_vars PROVE IInv'
  OBVIOUS
<1>1. CASE Dmls
  BY <1>1, PassesThroughPreserves, GuardBlocksPreserves, SqliteDmlPreserves, MysqlDmlPreserves,
     MysqlReadsBackPreserves, PostgresDmlPreserves, MongoDmlPreserves DEF Dmls
<1>2. CASE Selects
  BY <1>2, SqliteSelectsPreserves, CountsPreserves, ServerPagesPreserve, MongoFindsPreserves,
     MongoAggregatesPreserves, SelectFailsPreserves DEF Selects
<1>3. CASE Exports
  BY <1>3, ExportPreserves, ListTablesPreserves, ServerRestPreserves, ExportEndsPreserves,
     SqliteDescribesPreserves, ServerColumnsPreserves, ServerSkipsPreserves, MongoSamplesPreserves DEF Exports
<1>4. CASE \E t \in Alphabet : Type(t)
  BY <1>4, TypePreserves
<1>5. CASE \E tx, aggregate \in BOOLEAN, limit, offset \in 0 .. 1 : Run(tx, limit, offset, aggregate)
  BY <1>5, RunPreserves
<1>6. CASE OtherWrites \/ \E t \in Table : OtherAlters(t)
  BY <1>6, OtherWritesPreserves, OtherAltersPreserves
<1>7. CASE UNCHANGED vars
  <2>1. /\ UNCHANGED <<about, text, dialect, own, pooled, readOnly, rows, shape, call, answer>>
        /\ UNCHANGED <<schemas, others, saw, changed, lost>> /\ UNCHANGED config
    BY <1>7 DEF vars, config
  <2>2. TypeOK' /\ Placed' /\ ReadOnlyHolds'
    BY <2>1 DEF IInv, TypeOK, Placed, ReadOnlyHolds, Kind, HasPages
  <2>3. Underway'
    <3>1. Dml' = Dml /\ Read' = Read /\ Kind' = Kind
      BY <2>1, SameDml, SameReading DEF Kind
    <3>2. RowsOf(Read)' = RowsOf(Read)
      BY <3>1
    <3>3. QED
      BY <2>1, <3>1, <3>2 DEF IInv, Underway
  <2>4. Seen'
    BY <2>1, SamePage, SameReading DEF IInv, Seen
  <2>5. AnswersAreTrue'
    BY <2>1 DEF IInv, AnswersAreTrue, WriteIsTrue, MayRemain, PageIsTrue, Dml, Page, Paged, Read
  <2>6. about' = "export" => Collects' /\ SchemasAreWhole'
    BY <2>1 DEF IInv, Collects, Stays, SchemasAreWhole
  <2>7. QED
    BY <2>2, <2>3, <2>4, <2>5, <2>6 DEF IInv
<1>8. QED
  BY <1>1, <1>2, <1>3, <1>4, <1>5, <1>6, <1>7 DEF Next

-----------------------------------------------------------------------------
(* The guards. What they do with a text follows from what the analysis     *)
(* makes of it, and needs no invariant but this one: a write that they     *)
(* refuse has changed nothing, and no other write is called blocked.       *)

Refused ==
    IF dialect = "mongodb" /\ Kind = "INSERT"
    THEN Dml.max > 0 /\ RowsOf(Read) > Dml.max
    ELSE Blocked(Kind)

Obeyed ==
    about = "statement" /\ call.st \in {"readback", "done"} =>
        /\ answer.error = "DML_BLOCKED" => Refused
        /\ Refused => changed = 0

(* A step that ends a call with another error, or well, and changes        *)
(* nothing.                                                                *)
LEMMA ObeyedByHarmless ==
    ASSUME changed' = 0, answer'.error # "DML_BLOCKED" \/ call'.st = "page"
    PROVE  Obeyed'
BY DEF Obeyed

LEMMA SameRefusal ==
    ASSUME UNCHANGED config, call'.tx = call.tx
    PROVE  Refused' <=> Refused
<1>1. Dml' = Dml /\ Read' = Read /\ Kind' = Kind /\ text' = text /\ dialect' = dialect
  BY SameDml, SameReading
<1>2. Blocked(Kind)' <=> Blocked(Kind)
  BY <1>1 DEF Blocked
<1>3. QED
  BY <1>1, <1>2 DEF Refused

LEMMA FailedAnswer ==
    ASSUME NEW e, Fails(e)
    PROVE  answer'.error = e
BY DEF Fails, Ends, Empty

(* The answers of a SELECT are no refusals.                                *)
LEMMA SelectsObey ==
    ASSUME IInv, Selects
    PROVE  Obeyed'
<1>1. call.st \in {"count", "page"} /\ UNCHANGED changed
  BY DEF Selects, SqliteSelects, Counts, MysqlPages, PostgresPages, MongoFinds, MongoAggregates, SelectFails
<1>2. changed' = 0 /\ answer.error = "" /\ answer \in Answer
  BY <1>1 DEF IInv, Underway, TypeOK
<1>3. answer'.error \in {"", "QUERY_FAILED"}
  <2>1. CASE SqliteSelects
    <3> DEFINE n == IF call.st = "count" \/ Paged THEN Page(rows) ELSE rows
               m == IF call.st = "count" THEN rows ELSE n
    <3>1. answer' = [Empty EXCEPT !.rows = n, !.total = m]
      BY <2>1 DEF SqliteSelects, Ends
    <3> HIDE DEF n, m
    <3>2. QED
      BY <1>2, <3>1 DEF Empty, Answer
  <2>2. CASE Counts
    BY <1>2, <2>2 DEF Counts
  <2>3. CASE MysqlPages \/ PostgresPages
    <3> DEFINE n == IF HasPages /\ ~Paged THEN rows ELSE Page(rows)
               m == IF HasPages THEN n ELSE call.count
    <3>1. answer' = [Empty EXCEPT !.rows = n, !.total = m] \/ answer' = [Empty EXCEPT !.rows = n]
      BY <2>3 DEF MysqlPages, PostgresPages, HasPages, Ends
    <3> HIDE DEF n, m
    <3>2. QED
      BY <1>2, <3>1 DEF Empty, Answer
  <2>4. CASE MongoFinds
    <3> DEFINE n == MongoPage(rows)
    <3>1. \/ answer' = [Empty EXCEPT !.rows = n, !.total = n]
          \/ answer' = [Empty EXCEPT !.rows = n, !.total = 0]
          \/ answer' = [answer EXCEPT !.total = rows]
      BY <2>4 DEF MongoFinds, Ends
    <3> HIDE DEF n
    <3>2. [answer EXCEPT !.total = rows].error = ""
      BY <1>2 DEF Answer
    <3>3. CASE answer' = [answer EXCEPT !.total = rows]
      BY <3>2, <3>3
    <3>4. CASE answer' = [Empty EXCEPT !.rows = n, !.total = n]
      BY <3>4 DEF Empty
    <3>5. CASE answer' = [Empty EXCEPT !.rows = n, !.total = 0]
      BY <3>5 DEF Empty
    <3>6. QED
      BY <3>1, <3>3, <3>4, <3>5
  <2>5. CASE MongoAggregates
    <3> DEFINE n == Page(rows)
               c == call.count
    <3>1. \/ answer' = [Empty EXCEPT !.rows = n, !.total = n]
          \/ answer' = [Empty EXCEPT !.rows = n, !.total = c]
          \/ Fails("QUERY_FAILED")
      BY <2>5 DEF MongoAggregates, Ends
    <3> HIDE DEF n, c
    <3>2. QED
      BY <3>1, FailedAnswer DEF Empty
  <2>6. CASE SelectFails
    BY <2>6, FailedAnswer DEF SelectFails
  <2>7. QED
    BY <2>1, <2>2, <2>3, <2>4, <2>5, <2>6 DEF Selects
<1>4. QED
  BY <1>2, <1>3, ObeyedByHarmless

(* A write that is made is not one that the guards refuse.                 *)
LEMMA WritesObey ==
    ASSUME IInv, Obeyed, Dmls
    PROVE  Obeyed'
<1>1. UNCHANGED config
  BY DEF Dmls, PassesThrough, GuardBlocks, WriteFails, SqliteDml, MysqlDml, MysqlReadsBack, PostgresDml, MongoDml
<1>2. TypeOK
  BY DEF IInv
<1>3. ASSUME NEW e \in {"", "QUERY_FAILED"}, answer'.error = e, ~Refused, call'.tx = call.tx
      PROVE  Obeyed'
  BY <1>1, <1>3, SameRefusal DEF Obeyed
<1>4. ASSUME NEW n, NEW m
      PROVE  /\ [Empty EXCEPT !.affected = n].error = ""
             /\ [Empty EXCEPT !.affected = n, !.returned = m].error = ""
  BY DEF Empty
<1>5. ASSUME NEW a, Ends(a)
      PROVE  answer' = a /\ call'.tx = call.tx
  BY <1>2, <1>5, GoesOn DEF Ends
<1>6. CASE PassesThrough \/ WriteFails
  <2>1. call.st \in {"pass", "write"} /\ changed' = changed /\ (Ends(Empty) \/ Fails("QUERY_FAILED"))
    BY <1>6 DEF PassesThrough, WriteFails
  <2>2. answer'.error \in {"", "QUERY_FAILED"}
    <3>1. Empty.error = ""
      BY DEF Empty
    <3>2. CASE Ends(Empty)
      BY <3>1, <3>2 DEF Ends
    <3>3. CASE Fails("QUERY_FAILED")
      BY <3>3, FailedAnswer
    <3>4. QED
      BY <2>1, <3>2, <3>3
  <2>3. changed = 0
    BY <2>1 DEF IInv, Underway
  <2>4. QED
    BY <2>1, <2>2, <2>3, ObeyedByHarmless
<1>7. CASE GuardBlocks
  <2>1. /\ call.st = "write" /\ dialect # "mongodb" /\ Blocked(Kind) /\ changed' = changed
        /\ Fails("DML_BLOCKED")
    BY <1>7 DEF GuardBlocks, Kind
  <2>2. Refused /\ changed = 0
    BY <2>1 DEF Refused, IInv, Underway
  <2>3. call'.tx = call.tx
    BY <2>1, <1>5 DEF Fails
  <2>4. QED
    BY <2>1, <2>2, <2>3, <1>1, SameRefusal DEF Obeyed
<1>8. CASE SqliteDml \/ PostgresDml
  <2>1. dialect # "mongodb" /\ ~Blocked(Kind)
    BY <1>8 DEF SqliteDml, PostgresDml, Passes, Kind
  <2>2. \E a : Ends(a) /\ a.error = ""
    <3>1. CASE SqliteDml
      <4> DEFINE n == Hits(Kind)
                 m == IF Dml.returning THEN n ELSE 0
      <4> DEFINE a == [Empty EXCEPT !.affected = n, !.returned = m]
      <4>1. Ends(a)
        BY <3>1 DEF SqliteDml, Kind
      <4> HIDE DEF n, m
      <4>2. a.error = ""
        BY <1>4
      <4> HIDE DEF a
      <4>3. QED
        BY <4>1, <4>2
    <3>2. CASE PostgresDml
      <4> DEFINE n     == Hits(Kind)
                 has   == Words(text, "returning") # {}
                 needs == Dml.returning /\ ~has
                 m     == IF needs \/ TopWords(Read, "returning") # {} THEN n ELSE 0
                 k     == IF has \/ needs THEN m ELSE n
      <4> DEFINE a == [Empty EXCEPT !.affected = k, !.returned = m]
      <4>1. Ends(a)
        BY <3>2 DEF PostgresDml, Kind
      <4> HIDE DEF k, m
      <4>2. a.error = ""
        BY <1>4
      <4> HIDE DEF a
      <4>3. QED
        BY <4>1, <4>2
    <3>3. QED
      BY <1>8, <3>1, <3>2
  <2>3. QED
    BY <2>1, <2>2, <1>3, <1>5 DEF Refused
<1>9. CASE MysqlDml
  <2>1. /\ dialect # "mongodb" /\ ~Blocked(Kind)
        /\ \E n : answer' = [Empty EXCEPT !.affected = n]
        /\ Goes("readback") \/ Goes("done")
    BY <1>9 DEF MysqlDml, Passes, Kind
  <2>2. call'.tx = call.tx
    BY <2>1, <1>2, GoesOn
  <2>3. QED
    BY <2>1, <2>2, <1>3, <1>4 DEF Refused
<1>10. CASE MysqlReadsBack
  <2>1. call.st = "readback" /\ changed' = changed /\ about = "statement"
    BY <1>10 DEF MysqlReadsBack, IInv, TypeOK, Placed
  <2>2. answer.error = "" /\ answer \in Answer
    BY <2>1, <1>2 DEF IInv, Underway, TypeOK
  <2>3. ASSUME NEW n PROVE [answer EXCEPT !.returned = n].error = ""
    BY <2>2 DEF Answer
  <2>4. (\E n : Ends([answer EXCEPT !.returned = n])) \/ Fails("QUERY_FAILED")
    BY <1>10 DEF MysqlReadsBack
  <2>5. answer'.error \in {"", "QUERY_FAILED"} /\ call'.tx = call.tx
    <3>1. CASE Fails("QUERY_FAILED")
      BY <3>1, <1>5, FailedAnswer DEF Fails
    <3>2. ASSUME NEW n, Ends([answer EXCEPT !.returned = n])
          PROVE  answer'.error = "" /\ call'.tx = call.tx
      <4> DEFINE a == [answer EXCEPT !.returned = n]
      <4>1. a.error = "" /\ Ends(a)
        BY <2>3, <3>2
      <4> HIDE DEF a
      <4>2. QED
        BY <4>1, <1>5
    <3>3. QED
      BY <2>4, <3>1, <3>2
  <2>6. Refused => changed = 0
    BY <2>1 DEF Obeyed
  <2>7. QED
    BY <2>1, <2>5, <2>6, <1>1, SameRefusal DEF Obeyed
<1>11. CASE MongoDml
  <2> DEFINE n == Hits(Kind)
  <2>1. call.st = "write" /\ dialect = "mongodb"
    BY <1>11 DEF MongoDml
  <2>2. changed = 0 /\ IsDml(Kind)
    BY <2>1 DEF IInv, Underway, Placed
  <2>3. Kind = "INSERT" => n = RowsOf(Read)
    BY DEF Hits
  <2>4. \/ Fails("QUERY_FAILED") /\ UNCHANGED changed
        \/ Fails("DML_BLOCKED") /\ Refused /\ UNCHANGED changed
        \/ ~Refused /\ (Ends([Empty EXCEPT !.affected = n]) \/ Fails("QUERY_FAILED"))
    <3> HIDE DEF n
    <3>1. CASE Kind = "INSERT"
      <4>1. Refused <=> (Dml.max > 0 /\ n > Dml.max)
        BY <3>1, <2>1, <2>3 DEF Refused
      <4>2. QED
        BY <1>11, <3>1, <4>1 DEF MongoDml, Kind, n
    <3>2. CASE Kind # "INSERT"
      <4>1. Refused <=> Blocked(Kind)
        BY <3>2 DEF Refused
      <4>2. QED
        BY <1>11, <3>2, <4>1 DEF MongoDml, Kind, n
    <3>3. QED
      BY <3>1, <3>2
  <2>5. CASE Fails("QUERY_FAILED") /\ UNCHANGED changed
    BY <2>2, <2>5, FailedAnswer, ObeyedByHarmless
  <2>6. CASE Fails("DML_BLOCKED") /\ Refused /\ UNCHANGED changed
    <3>1. call'.tx = call.tx
      BY <2>6, <1>5 DEF Fails
    <3>2. QED
      BY <2>2, <2>6, <3>1, <1>1, SameRefusal DEF Obeyed
  <2>7. CASE ~Refused /\ (Ends([Empty EXCEPT !.affected = n]) \/ Fails("QUERY_FAILED"))
    <3> HIDE DEF n
    <3>1. answer'.error \in {"", "QUERY_FAILED"} /\ call'.tx = call.tx
      <4>1. CASE Fails("QUERY_FAILED")
        BY <4>1, <1>5, FailedAnswer DEF Fails
      <4>2. CASE Ends([Empty EXCEPT !.affected = n])
        <5> DEFINE a == [Empty EXCEPT !.affected = n]
        <5>1. a.error = "" /\ Ends(a)
          BY <1>4, <4>2
        <5> HIDE DEF a
        <5>2. QED
          BY <5>1, <1>5
      <4>3. QED
        BY <2>7, <4>1, <4>2
    <3>2. QED
      BY <2>7, <3>1, <1>3
  <2>8. QED
    BY <2>4, <2>5, <2>6, <2>7
<1>12. QED
  BY <1>6, <1>7, <1>8, <1>9, <1>10, <1>11 DEF Dmls

LEMMA NextObeys == IInv /\ Obeyed /\ [Next]_vars => Obeyed'
<1> SUFFICES ASSUME IInv, Obeyed, [Next]_vars PROVE Obeyed'
  OBVIOUS
<1>1. CASE Dmls
  BY <1>1, WritesObey
<1>2. CASE Selects
  BY <1>2, SelectsObey
<1>3. CASE Exports
  <2>1. UNCHANGED config
    BY <1>3 DEF Exports, Export, ListTables, ServerRest, ExportEnds, SqliteDescribes, ServerColumns,
       ServerSkips, MongoSamples
  <2>2. call.st \in {"list", "tables", "rest"} \/ about = "export"
    BY <1>3 DEF Exports, Export, ListTables, ServerRest, ExportEnds, SqliteDescribes, ServerColumns,
       ServerSkips, MongoSamples
  <2>3. about' = "export"
    BY <2>1, <2>2, SameReading DEF IInv, TypeOK, Placed
  <2>4. QED
    BY <2>3 DEF Obeyed
<1>4. CASE \E t \in Alphabet : Type(t)
  BY <1>4 DEF Type, Obeyed
<1>5. ASSUME NEW tx \in BOOLEAN, NEW aggregate \in BOOLEAN, NEW limit \in 0 .. 1, NEW offset \in 0 .. 1,
             Run(tx, limit, offset, aggregate)
      PROVE  Obeyed'
  <2> DEFINE sent == [call EXCEPT !.tx = tx, !.limit = limit, !.offset = offset, !.aggregate = aggregate]
  <2>1. changed' = changed /\ call.st = "none"
    BY <1>5 DEF Run
  <2>2. changed = 0 /\ answer.error = ""
    BY <2>1 DEF IInv, Underway
  <2>3. UNCHANGED answer \/ Fails("READ_ONLY") \/ Fails("QUERY_FAILED")
    BY <1>5 DEF Run
  <2>4. answer'.error # "DML_BLOCKED"
    BY <2>2, <2>3, FailedAnswer
  <2>5. QED
    BY <2>1, <2>2, <2>4, ObeyedByHarmless
<1>6. CASE OtherWrites \/ \E t \in Table : OtherAlters(t)
  <2>1. UNCHANGED <<config, call, answer, changed>>
    BY <1>6 DEF OtherWrites, OtherAlters
  <2>2. QED
    BY <2>1, SameRefusal, SameReading DEF Obeyed
<1>7. CASE UNCHANGED vars
  <2>1. UNCHANGED <<config, call, answer, changed>>
    BY <1>7 DEF vars, config
  <2>2. QED
    BY <2>1, SameRefusal, SameReading DEF Obeyed
<1>8. QED
  BY <1>1, <1>2, <1>3, <1>4, <1>5, <1>6, <1>7 DEF Next

(* When the analysis of a text is right, what the guards refuse is what    *)
(* they are there for.                                                     *)
LEMMA RefusalIsRight ==
    ASSUME TypeOK, about = "statement", NEW o \in {own, pooled}, Dml = Rule(o),
           AnalysedRight(text, IF dialect = "mongodb" THEN "mysql" ELSE dialect)
    PROVE  /\ Refused => Forbids(o)
           /\ /\ Forbids(o)
              /\ Words(Read, "where") = TopWords(Read, "where") /\ Words(Read, "replace") = {}
              => Refused
<1>1. Dml = Rule(o)
  OBVIOUS
<1>2. /\ Stripped(text) = Read
      /\ Kind = "INSERT" =>
            /\ CountInsertValueRows(text) \in 0 .. RowsOf(Read)
            /\ Words(Read, "replace") = {} => CountInsertValueRows(text) = RowsOf(Read)
  BY DEF AnalysedRight, Read, Kind
<1>3. Kind \in {"UPDATE", "DELETE"} => (HasDmlWhere(text) <=> Words(Read, "where") # {})
  BY <1>2 DEF HasDmlWhere, Kind
<1>4. TopWords(Read, "where") \subseteq Words(Read, "where")
  BY DEF TopWords
<1>5. RowsOf(Read) \in Nat
  BY Bounds, RowsAreCounted DEF Read, TypeOK
<1>6. Rule(o).max \in Nat /\ Rule(o).where \in BOOLEAN
  BY AnswerAssumption DEF Rule, Unset, TypeOK, AnswerAssumption
<1>7. CASE Kind \in {"UPDATE", "DELETE"}
  <2>1. Refused <=> Rule(o).where /\ ~HasDmlWhere(text)
    BY <1>1, <1>7 DEF Refused, Blocked
  <2>2. Forbids(o) <=> Rule(o).where /\ TopWords(Read, "where") = {}
    BY <1>7 DEF Forbids, Kind, Filtered
  <2>3. QED
    BY <1>3, <1>4, <1>7, <2>1, <2>2
<1>8. CASE Kind = "INSERT"
  <2>1. Forbids(o) <=> Rule(o).max > 0 /\ RowsOf(Read) > Rule(o).max
    BY <1>8 DEF Forbids, Kind
  <2>2. CASE dialect = "mongodb"
    BY <1>1, <1>8, <2>1, <2>2 DEF Refused
  <2>3. CASE dialect # "mongodb"
    <3>1. Refused <=> Rule(o).max > 0 /\ CountInsertValueRows(text) > Rule(o).max
      BY <1>1, <1>8, <2>3 DEF Refused, Blocked
    <3>2. QED
      BY <1>2, <1>5, <1>6, <1>8, <2>1, <3>1
  <2>4. QED
    BY <2>2, <2>3
<1>9. CASE Kind \notin {"UPDATE", "DELETE", "INSERT"}
  BY <1>9 DEF Refused, Blocked, Forbids, Kind
<1>10. QED
  BY <1>7, <1>8, <1>9

-----------------------------------------------------------------------------
(* The scanner: what stripSqlForSearch leaves of a text is what a database *)
(* reads as code. Both go through the text once, the scanner character by  *)
(* character and the database element by element. For one element the two  *)
(* agree, by induction over its characters; for the whole text they do, by *)
(* induction over its elements from the last one. An induction is stated   *)
(* as: of the positions at which it fails there is no least one.           *)

(* A set of numbers has a least member. *)
LEMMA LeastMember ==
    ASSUME NEW T, T \subseteq Nat, T # {}
    PROVE  \E n \in T : \A m \in T : n <= m
<1> DEFINE R == OpToRel(<, Nat)
<1>1. IsWellFoundedOn(R, Nat)
  BY NatLessThanWellFounded
<1>2. \A m, n \in Nat : m < n => <<m, n>> \in R
  BY DEF OpToRel
<1> HIDE DEF R
<1>3. PICK n \in T : \A m \in T : ~(<<m, n>> \in R)
  BY <1>1, WFMin
<1>4. ASSUME NEW m \in T PROVE n <= m
  <2>1. m \in Nat /\ n \in Nat
    OBVIOUS
  <2>2. ~(m < n)
    BY <1>2, <1>3, <2>1
  <2>3. QED
    BY <2>1, <2>2
<1>5. QED
  BY <1>4

(* LeastOf is the least member of a set of numbers that has one. *)
LEMMA LeastOfIsLeast ==
    ASSUME NEW T, T \subseteq Nat, NEW e, T # {}
    PROVE  LeastOf(T, e) \in T /\ \A m \in T : LeastOf(T, e) <= m
<1>1. \E n \in T : \A m \in T : n <= m
  BY LeastMember
<1>2. QED
  BY <1>1 DEF LeastOf

(* The state of the scanner after character i of s. *)
ScanOf(s) ==
    CHOOSE scan : scan = [i \in 0 .. Len(s) |-> IF i = 0 THEN Outside ELSE Step(s, i, scan[i - 1])]

IsScan(s, n, g) == g = [i \in 0 .. n |-> IF i = 0 THEN Outside ELSE Step(s, i, g[i - 1])]

LEMMA ScanExists ==
    ASSUME NEW s, NEW n \in Nat
    PROVE  \E g : IsScan(s, n, g)
<1> DEFINE T == {m \in Nat : ~ \E g : IsScan(s, m, g)}
<1>1. SUFFICES ASSUME T # {} PROVE FALSE
  OBVIOUS
<1>2. PICK m \in T : \A k \in T : m <= k
  BY <1>1, LeastMember
<1>3. CASE m = 0
  <2> DEFINE g == [i \in 0 .. 0 |-> Outside]
  <2>1. IsScan(s, 0, g)
    BY DEF IsScan
  <2>2. QED
    BY <1>3, <2>1
<1>4. CASE m # 0
  <2>1. m - 1 \in Nat /\ ~(m <= m - 1)
    BY <1>4
  <2>2. PICK g : IsScan(s, m - 1, g)
    BY <1>2, <2>1
  <2> DEFINE h == [i \in 0 .. m |-> IF i = m THEN Step(s, m, g[m - 1]) ELSE g[i]]
  <2>3. \A i \in 0 .. m - 1 : h[i] = g[i]
    BY <2>1
  <2>4. \A i \in 0 .. m - 1 : g[i] = IF i = 0 THEN Outside ELSE Step(s, i, g[i - 1])
    BY <2>2 DEF IsScan
  <2>5. ASSUME NEW i \in 0 .. m
        PROVE  h[i] = IF i = 0 THEN Outside ELSE Step(s, i, h[i - 1])
    <3>1. CASE i = m
      BY <1>4, <2>1, <2>3, <3>1
    <3>2. CASE i # m
      <4>1. i \in 0 .. m - 1 /\ (i # 0 => i - 1 \in 0 .. m - 1)
        BY <2>1, <3>2
      <4>2. QED
        BY <2>3, <2>4, <4>1
    <3>3. QED
      BY <3>1, <3>2
  <2>6. h = [i \in 0 .. m |-> IF i = 0 THEN Outside ELSE Step(s, i, h[i - 1])]
    <3>1. h = [i \in 0 .. m |-> h[i]]
      OBVIOUS
    <3> HIDE DEF h
    <3>2. QED
      BY <2>5, <3>1
  <2>7. QED
    BY <2>6 DEF IsScan
<1>5. QED
  BY <1>3, <1>4

LEMMA ScanSteps ==
    ASSUME NEW s, Len(s) \in Nat
    PROVE  /\ ScanOf(s)[0] = Outside
           /\ \A i \in 1 .. Len(s) : ScanOf(s)[i] = Step(s, i, ScanOf(s)[i - 1])
           /\ Stripped(s) = [i \in DOMAIN s |-> IF ScanOf(s)[i].kept THEN s[i] ELSE Blank(s[i])]
<1>1. IsScan(s, Len(s), ScanOf(s))
  BY ScanExists DEF IsScan, ScanOf
<1>2. ASSUME NEW i \in 0 .. Len(s)
      PROVE  ScanOf(s)[i] = IF i = 0 THEN Outside ELSE Step(s, i, ScanOf(s)[i - 1])
  <2> DEFINE f == ScanOf(s)
  <2> HIDE DEF f
  <2>1. f = [j \in 0 .. Len(s) |-> IF j = 0 THEN Outside ELSE Step(s, j, f[j - 1])]
    BY <1>1 DEF IsScan, f
  <2>2. f[i] = IF i = 0 THEN Outside ELSE Step(s, i, f[i - 1])
    BY <2>1
  <2>3. QED
    BY <2>2 DEF f
<1>3. Stripped(s) = [i \in DOMAIN s |-> IF ScanOf(s)[i].kept THEN s[i] ELSE Blank(s[i])]
  BY DEF Stripped, ScanOf
<1>4. QED
  BY <1>2, <1>3

(* The scanner is between two lexical elements before character i. *)
Between(s, i) == ScanOf(s)[i - 1].mode = "code" /\ ~ScanOf(s)[i - 1].skip

(* The scanner takes i .. l for an element that is not code. *)
PassesOver(s, i, l) ==
    /\ l \in i .. Len(s)
    /\ l < Len(s) => Between(s, l + 1)
    /\ \A j \in i .. l : Stripped(s)[j] = Blank(s[j])

(* Within a comment or a literal, and at its first character when it has   *)
(* two.                                                                    *)
Within(mode) == In(mode, FALSE)
Opening(mode) == In(mode, TRUE)

LEMMA RecordFields ==
    /\ Outside.mode = "code" /\ ~Outside.skip /\ Outside.kept
    /\ \A mode :
          /\ Within(mode).mode = mode /\ ~Within(mode).skip /\ ~Within(mode).kept /\ ~Within(mode).escape
          /\ Opening(mode).mode = mode /\ Opening(mode).skip /\ ~Opening(mode).kept
  BY DEF Outside, In, Within, Opening

(* What a step of the scanner does in each state it may be in.             *)
LEMMA StepSkips ==
    ASSUME NEW s, NEW i, NEW mode
    PROVE  Step(s, i, Opening(mode)) = Within(mode)
<1>1. \A st : st.skip => Step(s, i, st) = Within(st.mode)
  BY Zenon DEF Step, Within
<1>2. QED
  BY <1>1, RecordFields

LEMMA StepInCode ==
    ASSUME NEW s, NEW i, NEW st, ~st.skip, st.mode = "code"
    PROVE  Step(s, i, st) = InCode(s, i)
  BY Zenon DEF Step

LEMMA StepInLine ==
    ASSUME NEW s, NEW i
    PROVE  Step(s, i, Within("line")) = IF s[i] = "newline" THEN Outside ELSE Within("line")
<1> DEFINE st == Within("line")
<1>0. st.mode = "line" /\ ~st.skip
  BY RecordFields
<1> HIDE DEF st
<1>1. Step(s, i, st) = InComment(s, i, st)
  BY Zenon, <1>0 DEF Step
<1>2. s[i] = "newline" => InComment(s, i, st) = Outside
  BY Zenon, <1>0 DEF InComment, Within, Opening
<1>3. s[i] # "newline" => InComment(s, i, st) = Within("line")
  BY Zenon, <1>0 DEF InComment, Within, Opening
<1>4. QED
  BY <1>1, <1>2, <1>3 DEF st

LEMMA StepInBlock ==
    ASSUME NEW s, NEW i
    PROVE  Step(s, i, Within("block")) =
              IF s[i] = "*" /\ At(s, i + 1) = "/" THEN Opening("code") ELSE Within("block")
<1> DEFINE st == Within("block")
<1>0. st.mode = "block" /\ ~st.skip
  BY RecordFields
<1> HIDE DEF st
<1>1. Step(s, i, st) = InComment(s, i, st)
  BY Zenon, <1>0 DEF Step
<1>2. s[i] = "*" /\ At(s, i + 1) = "/" => InComment(s, i, st) = Opening("code")
  BY Zenon, <1>0 DEF InComment, Within, Opening
<1>3. ~(s[i] = "*" /\ At(s, i + 1) = "/") => InComment(s, i, st) = Within("block")
  BY Zenon, <1>0 DEF InComment, Within, Opening
<1>4. QED
  BY <1>1, <1>2, <1>3 DEF st

(* All that the proofs below use of a text. *)
IsText(s) == Len(s) \in Nat /\ DOMAIN s = 1 .. Len(s)

LEMMA SequencesAreTexts ==
    ASSUME NEW S, NEW s \in Seq(S)
    PROVE  IsText(s)
  BY DEF IsText

(* What At finds beyond the ends is no character of any other kind. *)
NoToken == ""

LEMMA NoTokenIsNone ==
    /\ NoToken \notin Quotes \cup {"newline", "backslash", "-", "#", "/", "*"}
    /\ IsWhite(NoToken)
<1>1. NoToken \notin Quotes \cup {"newline", "backslash", "-", "#", "/", "*"}
  BY Zenon DEF NoToken, Quotes
<1>2. IsWhite(NoToken)
  BY Zenon DEF NoToken, IsWhite
<1>3. QED
  BY <1>1, <1>2

LEMMA TextFacts ==
    ASSUME NEW s, IsText(s)
    PROVE  /\ Len(s) \in Nat /\ DOMAIN s = 1 .. Len(s)
           /\ \A i \in 1 .. Len(s) : At(s, i) = s[i]
           /\ \A i \in Int : i \notin 1 .. Len(s) => At(s, i) = NoToken
<1>1. \A i : At(s, i) = IF i \in DOMAIN s THEN s[i] ELSE NoToken
  BY Zenon DEF At, NoToken
<1>2. QED
  BY <1>1 DEF IsText

(* What is not kept, and a newline, comes out as a blank. *)
LEMMA NotKept ==
    ASSUME NEW s, IsText(s), NEW j \in 1 .. Len(s), ~ScanOf(s)[j].kept \/ s[j] = "newline"
    PROVE  Stripped(s)[j] = Blank(s[j])
  BY TextFacts, ScanSteps DEF Blank

LEMMA CodeStep ==
    ASSUME NEW s, IsText(s), NEW i \in 1 .. Len(s), Between(s, i)
    PROVE  ScanOf(s)[i] = InCode(s, i)
<1>1. ScanOf(s)[i] = Step(s, i, ScanOf(s)[i - 1])
  BY TextFacts, ScanSteps
<1>2. QED
  BY <1>1, StepInCode DEF Between

(* A comment to the end of the line: up to the newline the scanner stays in it. *)
LEMMA LinePassed ==
    ASSUME NEW s, IsText(s), NEW i \in 1 .. Len(s),
           \/ ScanOf(s)[i] = Within("line")
           \/ ScanOf(s)[i] = Opening("line") /\ i < Len(s) /\ s[i + 1] # "newline"
    PROVE  PassesOver(s, i, LeastOf({j \in i + 1 .. Len(s) : s[j] = "newline"}, Len(s)))
<1> DEFINE N == {j \in i + 1 .. Len(s) : s[j] = "newline"}
           l == LeastOf(N, Len(s))
<1>0. Len(s) \in Nat /\ i \in Nat /\ N \subseteq Nat /\ i <= Len(s)
  BY TextFacts
<1>1. \A j \in i + 1 .. Len(s) : (\A k \in i + 1 .. j : k \notin N) => ScanOf(s)[j] = Within("line")
  <2> DEFINE T == {j \in i + 1 .. Len(s) : (\A k \in i + 1 .. j : k \notin N) /\ ScanOf(s)[j] # Within("line")}
  <2>1. SUFFICES ASSUME T # {} PROVE FALSE
    OBVIOUS
  <2>2. PICK j \in T : \A k \in T : j <= k
    <3>1. T \subseteq Nat
      BY <1>0
    <3>2. QED
      BY <2>1, <3>1, LeastMember
  <2>3. j \in i + 1 .. Len(s) /\ j \in 1 .. Len(s) /\ s[j] # "newline" /\ j \notin N
    BY <1>0
  <2>4. ScanOf(s)[j] = Step(s, j, ScanOf(s)[j - 1])
    BY <2>3, TextFacts, ScanSteps
  <2>5. CASE j = i + 1 /\ ScanOf(s)[i] = Opening("line")
    <3>1. ScanOf(s)[j - 1] = Opening("line")
      BY <2>5, <1>0
    <3>2. Step(s, j, Opening("line")) = Within("line")
      BY RecordFields, StepSkips
    <3>3. QED
      BY <2>2, <2>4, <3>1, <3>2
  <2>6. CASE ~(j = i + 1 /\ ScanOf(s)[i] = Opening("line"))
    <3>1. ScanOf(s)[j - 1] = Within("line")
      <4>1. CASE j = i + 1
        BY <1>0, <2>6, <4>1
      <4>2. CASE j # i + 1
        <5>1. j - 1 \in i + 1 .. Len(s) /\ ~(j <= j - 1)
          BY <1>0, <2>3, <4>2
        <5>2. \A k \in i + 1 .. j - 1 : k \notin N
          BY <1>0, <2>2, <2>3
        <5>3. QED
          BY <2>2, <5>1, <5>2
      <4>3. QED
        BY <4>1, <4>2
    <3>2. Step(s, j, Within("line")) = Within("line")
      BY <2>3, RecordFields, StepInLine
    <3>3. QED
      BY <2>2, <2>4, <3>1, <3>2
  <2>7. QED
    BY <2>5, <2>6
<1>2. ~ScanOf(s)[i].kept
  BY RecordFields
<1>3. CASE N = {}
  <2>1. l = Len(s)
    BY <1>3 DEF LeastOf
  <2>2. \A j \in i .. Len(s) : ~ScanOf(s)[j].kept
    BY <1>0, <1>1, <1>2, <1>3, RecordFields
  <2>3. \A j \in i .. Len(s) : Stripped(s)[j] = Blank(s[j])
    BY <1>0, <2>2, NotKept
  <2>4. PassesOver(s, i, Len(s))
    BY <1>0, <2>3 DEF PassesOver
  <2>5. QED
    BY <2>1, <2>4
<1>4. CASE N # {}
  <2>1. l \in N /\ \A m \in N : l <= m
    BY <1>0, <1>4, LeastOfIsLeast
  <2> HIDE DEF l
  <2>2. l \in i + 1 .. Len(s) /\ s[l] = "newline" /\ \A k \in i + 1 .. l - 1 : k \notin N
    BY <1>0, <2>1
  <2>3. \A j \in i .. l - 1 : ~ScanOf(s)[j].kept
    <3>1. ASSUME NEW j \in i + 1 .. l - 1 PROVE ScanOf(s)[j] = Within("line")
      <4>1. j \in i + 1 .. Len(s) /\ \A k \in i + 1 .. j : k \in i + 1 .. l - 1
        BY <1>0, <2>2
      <4>2. QED
        BY <1>1, <2>2, <4>1
    <3>2. QED
      BY <1>0, <1>2, <2>2, <3>1, RecordFields
  <2>4. ScanOf(s)[l - 1] = Within("line")
    <3>1. CASE l = i + 1
      BY <1>0, <2>2, <3>1
    <3>2. CASE l # i + 1
      <4>1. l - 1 \in i + 1 .. Len(s)
        BY <1>0, <2>2, <3>2
      <4>2. QED
        BY <1>1, <2>2, <4>1
    <3>3. QED
      BY <3>1, <3>2
  <2>5. ScanOf(s)[l] = Outside
    <3>1. ScanOf(s)[l] = Step(s, l, Within("line"))
      BY <1>0, <2>2, <2>4, TextFacts, ScanSteps
    <3>2. QED
      BY <2>2, <3>1, RecordFields, StepInLine
  <2>6. Between(s, l + 1)
    BY <1>0, <2>2, <2>5, RecordFields DEF Between
  <2>7. \A j \in i .. l : Stripped(s)[j] = Blank(s[j])
    <3>1. ASSUME NEW j \in i .. l PROVE Stripped(s)[j] = Blank(s[j])
      <4>1. j \in 1 .. Len(s) /\ (j = l \/ j \in i .. l - 1)
        BY <1>0, <2>2
      <4>2. QED
        BY <2>2, <2>3, <4>1, NotKept
    <3>2. QED
      BY <3>1
  <2>8. QED
    BY <1>0, <2>2, <2>6, <2>7 DEF PassesOver, l
<1>5. QED
  BY <1>3, <1>4

(* A comment in brackets: up to its last two characters the scanner stays  *)
(* in it.                                                                  *)
LEMMA BlockPassed ==
    ASSUME NEW s, IsText(s), NEW i \in 1 .. Len(s), ScanOf(s)[i] = Opening("block")
    PROVE  PassesOver(s, i, LeastOf({j \in i + 3 .. Len(s) : s[j - 1] = "*" /\ s[j] = "/"}, Len(s)))
<1> DEFINE N == {j \in i + 3 .. Len(s) : s[j - 1] = "*" /\ s[j] = "/"}
           l == LeastOf(N, Len(s))
<1>0. Len(s) \in Nat /\ i \in Nat /\ N \subseteq Nat /\ i <= Len(s)
  BY TextFacts
<1>1. \A j \in i + 1 .. Len(s) : (\A k \in i + 3 .. j + 1 : k \notin N) => ScanOf(s)[j] = Within("block")
  <2> DEFINE T == {j \in i + 1 .. Len(s) :
                     (\A k \in i + 3 .. j + 1 : k \notin N) /\ ScanOf(s)[j] # Within("block")}
  <2>1. SUFFICES ASSUME T # {} PROVE FALSE
    OBVIOUS
  <2>2. PICK j \in T : \A k \in T : j <= k
    <3>1. T \subseteq Nat
      BY <1>0
    <3>2. QED
      BY <2>1, <3>1, LeastMember
  <2>3. j \in i + 1 .. Len(s) /\ j \in 1 .. Len(s)
    BY <1>0
  <2>4. ScanOf(s)[j] = Step(s, j, ScanOf(s)[j - 1])
    BY <2>3, TextFacts, ScanSteps
  <2>5. CASE j = i + 1
    <3>1. ScanOf(s)[j - 1] = Opening("block")
      BY <1>0, <2>5
    <3>2. QED
      BY <2>2, <2>4, <3>1, StepSkips
  <2>6. CASE j # i + 1
    <3>1. j - 1 \in i + 1 .. Len(s) /\ ~(j <= j - 1) /\ j - 1 + 1 = j
      BY <1>0, <2>3, <2>6
    <3>2. \A k \in i + 3 .. j : k \notin N
      BY <1>0, <2>2, <2>3
    <3>3. ScanOf(s)[j - 1] = Within("block")
      BY <2>2, <3>1, <3>2
    <3>4. ~(s[j] = "*" /\ At(s, j + 1) = "/")
      <4>1. SUFFICES ASSUME s[j] = "*", At(s, j + 1) = "/" PROVE FALSE
        OBVIOUS
      <4>2. j + 1 \in 1 .. Len(s)
        BY <1>0, <2>3, <4>1, NoTokenIsNone, TextFacts
      <4>3. j + 1 \in i + 3 .. Len(s) /\ j + 1 - 1 = j /\ s[j + 1] = "/"
        BY <1>0, <2>3, <2>6, <4>1, <4>2, TextFacts
      <4>4. j + 1 \in N
        BY <4>1, <4>3
      <4>5. j + 1 \in i + 3 .. j + 1
        BY <1>0, <2>3, <4>3
      <4>6. QED
        BY <2>2, <4>4, <4>5
    <3>5. QED
      BY <2>2, <2>4, <3>3, <3>4, StepInBlock
  <2>7. QED
    BY <2>5, <2>6
<1>2. ~ScanOf(s)[i].kept
  BY RecordFields
<1>3. CASE N = {}
  <2>1. l = Len(s)
    BY <1>3 DEF LeastOf
  <2>2. \A j \in i .. Len(s) : ~ScanOf(s)[j].kept
    <3>1. \A j \in i + 1 .. Len(s) : ScanOf(s)[j] = Within("block")
      <4> HIDE DEF N
      <4>1. QED
        BY <1>1, <1>3
    <3>2. QED
      BY <1>0, <1>2, <3>1, RecordFields
  <2>3. \A j \in i .. Len(s) : Stripped(s)[j] = Blank(s[j])
    BY <1>0, <2>2, NotKept
  <2>4. PassesOver(s, i, Len(s))
    BY <1>0, <2>3 DEF PassesOver
  <2>5. QED
    BY <2>1, <2>4
<1>4. CASE N # {}
  <2>1. l \in N /\ \A m \in N : l <= m
    BY <1>0, <1>4, LeastOfIsLeast
  <2> HIDE DEF l
  <2>2. l \in i + 3 .. Len(s) /\ s[l - 1] = "*" /\ s[l] = "/" /\ \A k \in i + 3 .. l - 1 : k \notin N
    BY <1>0, <2>1
  <2>3. \A j \in i + 1 .. l - 2 : ScanOf(s)[j] = Within("block")
    <3>1. ASSUME NEW j \in i + 1 .. l - 2 PROVE ScanOf(s)[j] = Within("block")
      <4>1. j \in i + 1 .. Len(s) /\ \A k \in i + 3 .. j + 1 : k \in i + 3 .. l - 1
        BY <1>0, <2>2
      <4>2. QED
        BY <1>1, <2>2, <4>1
    <3>2. QED
      BY <3>1
  <2>4. ScanOf(s)[l - 1] = Opening("code")
    <3>1. l - 2 \in i + 1 .. l - 2 /\ l - 1 \in 1 .. Len(s) /\ l - 1 - 1 = l - 2 /\ l - 1 + 1 = l /\ l \in 1 .. Len(s)
      BY <1>0, <2>2
    <3>2. ScanOf(s)[l - 1] = Step(s, l - 1, Within("block"))
      <4>1. ScanOf(s)[l - 2] = Within("block")
        BY <2>3, <3>1
      <4>2. ScanOf(s)[l - 1] = Step(s, l - 1, ScanOf(s)[l - 1 - 1])
        BY <3>1, ScanSteps
      <4>3. QED
        BY <3>1, <4>1, <4>2
    <3>3. At(s, l) = "/"
      BY <2>2, <3>1, TextFacts
    <3>4. QED
      BY <2>2, <3>1, <3>2, <3>3, StepInBlock
  <2>5. ScanOf(s)[l] = Within("code")
    <3>1. l \in 1 .. Len(s)
      BY <1>0, <2>2
    <3>2. QED
      BY <2>4, <3>1, TextFacts, ScanSteps, StepSkips
  <2>6. Between(s, l + 1)
    BY <1>0, <2>2, <2>5, RecordFields DEF Between
  <2>7. \A j \in i .. l : Stripped(s)[j] = Blank(s[j])
    <3>1. ASSUME NEW j \in i .. l PROVE Stripped(s)[j] = Blank(s[j])
      <4>1. j \in 1 .. Len(s) /\ (j = i \/ j = l \/ j = l - 1 \/ j \in i + 1 .. l - 2)
        BY <1>0, <2>2
      <4>2. ~ScanOf(s)[j].kept
        BY <1>2, <2>3, <2>4, <2>5, <4>1, RecordFields
      <4>3. QED
        BY <4>1, <4>2, NotKept
    <3>2. QED
      BY <3>1
  <2>8. QED
    BY <1>0, <2>2, <2>6, <2>7 DEF PassesOver, l
<1>5. QED
  BY <1>3, <1>4

LEMMA EscapingFields ==
    ASSUME NEW mode
    PROVE  /\ Escaping(mode).mode = mode /\ ~Escaping(mode).skip
           /\ ~Escaping(mode).kept /\ Escaping(mode).escape
  BY DEF Escaping

LEMMA QuotesStep ==
    ASSUME NEW s, NEW i, NEW st, st.mode \in Quotes, ~st.skip
    PROVE  Step(s, i, st) = InQuotes(s, i, st)
  BY Zenon DEF Step, Quotes

LEMMA EscapeEnds ==
    ASSUME NEW s, NEW i, NEW st, st.escape
    PROVE  InQuotes(s, i, st) = Within(st.mode)
  BY Zenon DEF InQuotes, Within

LEMMA QuotesEnd ==
    ASSUME NEW s, NEW i, NEW st, ~st.escape, s[i] = st.mode
    PROVE  InQuotes(s, i, st) = Within("code") \/ st.mode = "backslash"
  BY Zenon DEF InQuotes, Within

LEMMA QuotesGoOn ==
    ASSUME NEW s, NEW i, NEW st, ~st.escape, s[i] # st.mode
    PROVE  /\ st.mode # "tick" /\ s[i] = "backslash" => InQuotes(s, i, st) = Escaping(st.mode)
           /\ ~(st.mode # "tick" /\ s[i] = "backslash") => InQuotes(s, i, st) = Within(st.mode)
<1>1. st.mode # "tick" /\ s[i] = "backslash" => InQuotes(s, i, st) = Escaping(st.mode)
  BY Zenon DEF InQuotes
<1>2. ~(st.mode # "tick" /\ s[i] = "backslash") => InQuotes(s, i, st) = Within(st.mode)
  BY Zenon DEF InQuotes, Within
<1>3. QED
  BY Zenon, <1>1, <1>2

LEMMA StepInQuotes ==
    ASSUME NEW s, NEW i, NEW quote \in Quotes
    PROVE  /\ Step(s, i, Escaping(quote)) = Within(quote)
           /\ s[i] = quote => Step(s, i, Within(quote)) = Within("code")
           /\ s[i] # quote /\ quote # "tick" /\ s[i] = "backslash" => Step(s, i, Within(quote)) = Escaping(quote)
           /\ s[i] # quote /\ ~(quote # "tick" /\ s[i] = "backslash") => Step(s, i, Within(quote)) = Within(quote)
<1>1. Step(s, i, Escaping(quote)) = Within(quote)
  BY EscapingFields, QuotesStep, EscapeEnds
<1> DEFINE st == Within(quote)
<1>2. st.mode = quote /\ ~st.escape /\ ~st.skip
  BY RecordFields
<1> HIDE DEF st
<1>3. Step(s, i, st) = InQuotes(s, i, st)
  BY <1>2, QuotesStep
<1>4. quote # "backslash"
  BY Zenon DEF Quotes
<1>5. s[i] = quote => Step(s, i, st) = Within("code")
  BY <1>2, <1>3, <1>4, QuotesEnd
<1>6. s[i] # quote /\ quote # "tick" /\ s[i] = "backslash" => Step(s, i, st) = Escaping(quote)
  BY <1>2, <1>3, QuotesGoOn
<1>7. s[i] # quote /\ ~(quote # "tick" /\ s[i] = "backslash") => Step(s, i, st) = Within(quote)
  BY <1>2, <1>3, QuotesGoOn
<1>8. QED
  BY <1>1, <1>5, <1>6, <1>7 DEF st

(* Whether a character of a literal is escaped follows from the one before *)
(* it: the backslashes before it are an odd number.                        *)
LEMMA EscapedSteps ==
    ASSUME NEW s, NEW i \in Nat
    PROVE  /\ ~Escaped(s, i, i + 1)
           /\ \A j \in Nat : j > i =>
                 (Escaped(s, i, j + 1) <=> s[i] # "tick" /\ s[j] = "backslash" /\ ~Escaped(s, i, j))
<1> DEFINE Slashes(j) == {k \in i + 1 .. j - 1 : \A m \in k .. j - 1 : s[m] = "backslash"}
<1>1. \A j : Escaped(s, i, j) <=> s[i] # "tick" /\ (j - LeastOf(Slashes(j), j)) % 2 = 1
  BY DEF Escaped
<1>2. Slashes(i + 1) = {}
  OBVIOUS
<1>3. LeastOf(Slashes(i + 1), i + 1) = i + 1
  BY <1>2 DEF LeastOf
<1>4. ASSUME NEW j \in Nat, j > i, s[j] # "backslash"
      PROVE  LeastOf(Slashes(j + 1), j + 1) = j + 1
  <2>1. Slashes(j + 1) = {}
    <3>1. SUFFICES ASSUME NEW k \in Slashes(j + 1) PROVE FALSE
      OBVIOUS
    <3>2. k \in i + 1 .. j /\ j \in k .. j + 1 - 1
      BY <1>4
    <3>3. QED
      BY <1>4, <3>2
  <2>2. QED
    BY <2>1 DEF LeastOf
<1>5. ASSUME NEW j \in Nat, j > i, s[j] = "backslash"
      PROVE  /\ LeastOf(Slashes(j + 1), j + 1) = LeastOf(Slashes(j), j)
             /\ LeastOf(Slashes(j), j) \in Nat /\ LeastOf(Slashes(j), j) <= j
  <2>1. \A k : k \in Slashes(j + 1) <=> k \in Slashes(j) \/ k = j
    BY <1>5
  <2>2. Slashes(j) \subseteq Nat /\ Slashes(j + 1) \subseteq Nat /\ \A k \in Slashes(j) : k < j
    BY <1>5
  <2> HIDE DEF Slashes
  <2>3. LeastOf(Slashes(j + 1), j + 1) \in Slashes(j + 1) /\ \A m \in Slashes(j + 1) : LeastOf(Slashes(j + 1), j + 1) <= m
    BY <2>1, <2>2, LeastOfIsLeast
  <2>4. CASE Slashes(j) = {}
    <3>1. LeastOf(Slashes(j), j) = j
      BY <2>4 DEF LeastOf
    <3>2. QED
      BY <2>1, <2>3, <2>4, <3>1
  <2>5. CASE Slashes(j) # {}
    <3>1. LeastOf(Slashes(j), j) \in Slashes(j) /\ \A m \in Slashes(j) : LeastOf(Slashes(j), j) <= m
      BY <2>2, <2>5, LeastOfIsLeast
    <3> DEFINE a == LeastOf(Slashes(j), j)
               c == LeastOf(Slashes(j + 1), j + 1)
    <3> HIDE DEF a, c
    <3>2. a \in Slashes(j) /\ (\A m \in Slashes(j) : a <= m) /\ c \in Slashes(j + 1) /\ (\A m \in Slashes(j + 1) : c <= m)
      BY <2>3, <3>1 DEF a, c
    <3>3. a \in Nat /\ c \in Nat /\ a < j /\ c <= a
      BY <2>1, <2>2, <3>2
    <3>4. c \in Slashes(j)
      BY <2>1, <3>2, <3>3
    <3>5. a = c
      BY <3>2, <3>3, <3>4
    <3>6. QED
      BY <3>3, <3>5 DEF a, c
  <2>6. QED
    BY <2>4, <2>5
<1> HIDE DEF Slashes
<1>6. ~Escaped(s, i, i + 1)
  BY <1>1, <1>3
<1>7. ASSUME NEW j \in Nat, j > i
      PROVE  Escaped(s, i, j + 1) <=> s[i] # "tick" /\ s[j] = "backslash" /\ ~Escaped(s, i, j)
  <2>1. CASE s[j] # "backslash"
    BY <1>1, <1>4, <1>7, <2>1
  <2>2. CASE s[j] = "backslash"
    <3>1. PICK a \in Nat : a = LeastOf(Slashes(j), j) /\ a = LeastOf(Slashes(j + 1), j + 1) /\ a <= j
      BY <1>5, <1>7, <2>2
    <3>2. (j + 1 - a) % 2 = 1 <=> ~((j - a) % 2 = 1)
      BY <3>1
    <3>3. Escaped(s, i, j) <=> s[i] # "tick" /\ (j - a) % 2 = 1
      BY <1>1, <3>1
    <3>4. Escaped(s, i, j + 1) <=> s[i] # "tick" /\ (j + 1 - a) % 2 = 1
      BY <1>1, <3>1
    <3>5. QED
      BY <2>2, <3>2, <3>3, <3>4
  <2>3. QED
    BY <2>1, <2>2
<1>8. QED
  BY <1>6, <1>7

(* A literal, up to the next quote of its kind that no backslash escapes.  *)
LEMMA QuotesPassed ==
    ASSUME NEW s, IsText(s), NEW i \in 1 .. Len(s), s[i] \in Quotes, ScanOf(s)[i] = Within(s[i])
    PROVE  PassesOver(s, i, LeastOf({j \in i + 1 .. Len(s) : s[j] = s[i] /\ ~Escaped(s, i, j)}, Len(s)))
<1> DEFINE quote == s[i]
           N == {j \in i + 1 .. Len(s) : s[j] = quote /\ ~Escaped(s, i, j)}
           l == LeastOf(N, Len(s))
           After(j) == IF Escaped(s, i, j + 1) THEN Escaping(quote) ELSE Within(quote)
<1>0. Len(s) \in Nat /\ i \in Nat /\ N \subseteq Nat /\ i <= Len(s)
  BY TextFacts
<1>1. ScanOf(s)[i] = After(i)
  BY <1>0, EscapedSteps
<1>2. \A j \in i + 1 .. Len(s) : (\A k \in i + 1 .. j : k \notin N) => ScanOf(s)[j] = After(j)
  <2> DEFINE T == {j \in i + 1 .. Len(s) : (\A k \in i + 1 .. j : k \notin N) /\ ScanOf(s)[j] # After(j)}
  <2>1. SUFFICES ASSUME T # {} PROVE FALSE
    OBVIOUS
  <2>2. PICK j \in T : \A k \in T : j <= k
    <3>1. T \subseteq Nat
      BY <1>0
    <3>2. QED
      BY <2>1, <3>1, LeastMember
  <2> HIDE DEF After
  <2>3. j \in i + 1 .. Len(s) /\ j \in 1 .. Len(s) /\ j \in Nat /\ j > i /\ j \notin N
    BY <1>0
  <2>4. ScanOf(s)[j] = Step(s, j, ScanOf(s)[j - 1])
    BY <2>3, TextFacts, ScanSteps
  <2>5. ScanOf(s)[j - 1] = After(j - 1)
    <3>1. CASE j = i + 1
      BY <1>0, <1>1, <3>1
    <3>2. CASE j # i + 1
      <4>1. j - 1 \in i + 1 .. Len(s) /\ ~(j <= j - 1)
        BY <1>0, <2>3, <3>2
      <4>2. \A k \in i + 1 .. j - 1 : k \notin N
        BY <1>0, <2>2, <2>3
      <4>3. QED
        BY <2>2, <4>1, <4>2
    <3>3. QED
      BY <3>1, <3>2
  <2>6. After(j - 1) = IF Escaped(s, i, j) THEN Escaping(quote) ELSE Within(quote)
    <3>1. j - 1 + 1 = j
      BY <2>3
    <3>2. QED
      BY <3>1 DEF After
  <2>7. Escaped(s, i, j + 1) <=> quote # "tick" /\ s[j] = "backslash" /\ ~Escaped(s, i, j)
    BY <1>0, <2>3, EscapedSteps
  <2>8. s[j] # quote \/ Escaped(s, i, j)
    BY <2>3
  <2>9. Step(s, j, After(j - 1)) = After(j)
    <3> HIDE DEF N, quote
    <3>1. quote \in Quotes
      BY DEF quote
    <3>2. CASE Escaped(s, i, j)
      <4>1. After(j) = Within(quote) /\ After(j - 1) = Escaping(quote)
        BY <2>6, <2>7, <3>2 DEF After
      <4>2. QED
        BY <3>1, <4>1, StepInQuotes
    <3>3. CASE ~Escaped(s, i, j)
      <4>1. /\ After(j) = IF quote # "tick" /\ s[j] = "backslash" THEN Escaping(quote) ELSE Within(quote)
            /\ After(j - 1) = Within(quote) /\ s[j] # quote
        BY <2>6, <2>7, <2>8, <3>3 DEF After
      <4>2. QED
        BY <3>1, <4>1, StepInQuotes
    <3>4. QED
      BY <3>2, <3>3
  <2>10. QED
    BY <2>2, <2>4, <2>5, <2>9
<1>3. \A j : ~After(j).kept
  BY RecordFields, EscapingFields
<1> HIDE DEF After
<1>4. CASE N = {}
  <2>1. l = Len(s)
    BY <1>4 DEF LeastOf
  <2>2. \A j \in i .. Len(s) : ~ScanOf(s)[j].kept
    <3>1. \A j \in i + 1 .. Len(s) : ScanOf(s)[j] = After(j)
      <4> HIDE DEF N
      <4>1. QED
        BY <1>2, <1>4
    <3>2. QED
      BY <1>0, <1>1, <1>3, <3>1
  <2>3. \A j \in i .. Len(s) : Stripped(s)[j] = Blank(s[j])
    BY <1>0, <2>2, NotKept
  <2>4. PassesOver(s, i, Len(s))
    BY <1>0, <2>3 DEF PassesOver
  <2>5. QED
    BY <2>1, <2>4
<1>5. CASE N # {}
  <2>1. l \in N /\ \A m \in N : l <= m
    BY <1>0, <1>5, LeastOfIsLeast
  <2> HIDE DEF l
  <2>2. l \in i + 1 .. Len(s) /\ s[l] = quote /\ ~Escaped(s, i, l) /\ \A k \in i + 1 .. l - 1 : k \notin N
    BY <1>0, <2>1
  <2>3. \A j \in i .. l - 1 : ScanOf(s)[j] = After(j)
    <3>1. ASSUME NEW j \in i + 1 .. l - 1 PROVE ScanOf(s)[j] = After(j)
      <4>1. j \in i + 1 .. Len(s) /\ \A k \in i + 1 .. j : k \in i + 1 .. l - 1
        BY <1>0, <2>2
      <4>2. QED
        BY <1>2, <2>2, <4>1
    <3>2. QED
      BY <1>0, <1>1, <2>2, <3>1
  <2>4. ScanOf(s)[l - 1] = Within(quote)
    <3>1. l - 1 \in i .. l - 1 /\ l - 1 + 1 = l
      BY <1>0, <2>2
    <3>2. QED
      BY <2>2, <2>3, <3>1 DEF After
  <2>5. ScanOf(s)[l] = Within("code")
    <3>1. l \in 1 .. Len(s)
      BY <1>0, <2>2
    <3>2. ScanOf(s)[l] = Step(s, l, Within(quote))
      BY <2>4, <3>1, TextFacts, ScanSteps
    <3> DEFINE q == quote
    <3> HIDE DEF q
    <3>3. q \in Quotes /\ s[l] = q
      BY <2>2 DEF q
    <3>4. Step(s, l, Within(q)) = Within("code")
      BY <3>3, StepInQuotes
    <3>5. QED
      BY <3>2, <3>4 DEF q
  <2>6. Between(s, l + 1)
    BY <1>0, <2>2, <2>5, RecordFields DEF Between
  <2>7. \A j \in i .. l : Stripped(s)[j] = Blank(s[j])
    <3>1. ASSUME NEW j \in i .. l PROVE Stripped(s)[j] = Blank(s[j])
      <4>1. j \in 1 .. Len(s) /\ (j = l \/ j \in i .. l - 1)
        BY <1>0, <2>2
      <4>2. ~ScanOf(s)[j].kept
        BY <1>3, <2>3, <2>5, <4>1, RecordFields
      <4>3. QED
        BY <4>1, <4>2, NotKept
    <3>2. QED
      BY <3>1
  <2>8. QED
    BY <1>0, <2>2, <2>6, <2>7 DEF PassesOver, l
<1>6. QED
  BY <1>4, <1>5

(* What the scanner enters at the first character of an element.           *)
LEMMA InCodeCases ==
    ASSUME NEW s, NEW i
    PROVE  /\ s[i] = "-" /\ At(s, i + 1) = "-" /\ IsWhite(At(s, i - 1)) /\ IsWhite(At(s, i + 2)) =>
                 InCode(s, i) = Opening("line")
           /\ s[i] = "#" => InCode(s, i) = Within("line")
           /\ s[i] = "/" /\ At(s, i + 1) = "*" => InCode(s, i) = Opening("block")
           /\ s[i] \in Quotes => InCode(s, i) = Within(s[i])
           /\ /\ ~(s[i] = "-" /\ At(s, i + 1) = "-" /\ IsWhite(At(s, i - 1)) /\ IsWhite(At(s, i + 2)))
              /\ s[i] # "#" /\ ~(s[i] = "/" /\ At(s, i + 1) = "*") /\ s[i] \notin Quotes
              => InCode(s, i) = Outside
<1>1. s[i] \in Quotes => s[i] \notin {"-", "#", "/"}
  BY Zenon DEF Quotes
<1> USE DEF InCode, Within, Opening
<1>2. s[i] = "-" /\ At(s, i + 1) = "-" /\ IsWhite(At(s, i - 1)) /\ IsWhite(At(s, i + 2)) =>
         InCode(s, i) = Opening("line")
  BY Zenon, <1>1
<1>3. s[i] = "#" => InCode(s, i) = Within("line")
  BY Zenon, <1>1
<1>4. s[i] = "/" /\ At(s, i + 1) = "*" => InCode(s, i) = Opening("block")
  BY Zenon, <1>1
<1>5. s[i] \in Quotes => InCode(s, i) = Within(s[i])
  BY Zenon, <1>1
<1>6. /\ ~(s[i] = "-" /\ At(s, i + 1) = "-" /\ IsWhite(At(s, i - 1)) /\ IsWhite(At(s, i + 2)))
      /\ s[i] # "#" /\ ~(s[i] = "/" /\ At(s, i + 1) = "*") /\ s[i] \notin Quotes
      => InCode(s, i) = Outside
  BY Zenon
<1>7. QED
  BY <1>2, <1>3, <1>4, <1>5, <1>6

LEMMA LastOfCases ==
    ASSUME NEW s, NEW i, NEW d
    PROVE  /\ s[i] \in Quotes =>
                 LastOf(s, i, d) =
                    LeastOf({j \in i + 1 .. Len(s) : s[j] = s[i] /\ ~(d = "mysql" /\ Escaped(s, i, j))}, Len(s))
           /\ StartsLine(s, i, d) =>
                 /\ LastOf(s, i, d) = LeastOf({j \in i + 1 .. Len(s) : s[j] = "newline"}, Len(s))
                 /\ s[i] \notin Quotes
           /\ StartsBlock(s, i) =>
                 /\ LastOf(s, i, d) = LeastOf({j \in i + 3 .. Len(s) : s[j - 1] = "*" /\ s[j] = "/"}, Len(s))
                 /\ s[i] \notin Quotes /\ ~StartsLine(s, i, d)
           /\ IsCode(s, i, d) => LastOf(s, i, d) = i
<1>1. s[i] \in Quotes => ~StartsLine(s, i, d) /\ ~StartsBlock(s, i)
  BY Zenon DEF Quotes, StartsLine, StartsBlock
<1>2. StartsBlock(s, i) => ~StartsLine(s, i, d)
  BY Zenon DEF StartsLine, StartsBlock
<1>3. s[i] \in Quotes =>
         LastOf(s, i, d) =
            LeastOf({j \in i + 1 .. Len(s) : s[j] = s[i] /\ ~(d = "mysql" /\ Escaped(s, i, j))}, Len(s))
  BY Zenon, <1>1 DEF LastOf
<1>4. StartsLine(s, i, d) => LastOf(s, i, d) = LeastOf({j \in i + 1 .. Len(s) : s[j] = "newline"}, Len(s))
  BY Zenon, <1>1, <1>2 DEF LastOf
<1>5. StartsBlock(s, i) =>
         LastOf(s, i, d) = LeastOf({j \in i + 3 .. Len(s) : s[j - 1] = "*" /\ s[j] = "/"}, Len(s))
  BY Zenon, <1>1, <1>2 DEF LastOf
<1>6. IsCode(s, i, d) => LastOf(s, i, d) = i
  BY Zenon DEF LastOf, IsCode
<1>7. QED
  BY Zenon, <1>1, <1>2, <1>3, <1>4, <1>5, <1>6

(* An element of a text ends in it.                                        *)
LEMMA LastIsWithin ==
    ASSUME NEW s, IsText(s), NEW i \in 1 .. Len(s), NEW d
    PROVE  LastOf(s, i, d) \in i .. Len(s)
<1>1. Len(s) \in Nat
  BY TextFacts
<1>2. ASSUME NEW T, T \subseteq i .. Len(s) PROVE LeastOf(T, Len(s)) \in i .. Len(s)
  <2>1. CASE T = {}
    BY <1>1, <2>1 DEF LeastOf
  <2>2. CASE T # {}
    <3>1. T \subseteq Nat
      BY <1>1, <1>2
    <3>2. QED
      BY <1>2, <2>2, <3>1, LeastOfIsLeast
  <2>3. QED
    BY <2>1, <2>2
<1>3. CASE s[i] \in Quotes
  <2> DEFINE T == {j \in i + 1 .. Len(s) : s[j] = s[i] /\ ~(d = "mysql" /\ Escaped(s, i, j))}
  <2>1. T \subseteq i .. Len(s)
    BY <1>1
  <2>2. LastOf(s, i, d) = LeastOf(T, Len(s))
    BY <1>3, LastOfCases
  <2> HIDE DEF T
  <2>3. QED
    BY <1>2, <2>1, <2>2
<1>4. CASE StartsLine(s, i, d)
  <2> DEFINE T == {j \in i + 1 .. Len(s) : s[j] = "newline"}
  <2>1. T \subseteq i .. Len(s)
    BY <1>1
  <2>2. LastOf(s, i, d) = LeastOf(T, Len(s))
    BY <1>4, LastOfCases
  <2> HIDE DEF T
  <2>3. QED
    BY <1>2, <2>1, <2>2
<1>5. CASE StartsBlock(s, i)
  <2> DEFINE T == {j \in i + 3 .. Len(s) : s[j - 1] = "*" /\ s[j] = "/"}
  <2>1. T \subseteq i .. Len(s)
    BY <1>1
  <2>2. LastOf(s, i, d) = LeastOf(T, Len(s))
    BY <1>5, LastOfCases
  <2> HIDE DEF T
  <2>3. QED
    BY <1>2, <2>1, <2>2
<1>6. CASE IsCode(s, i, d)
  <2>1. LastOf(s, i, d) = i
    BY <1>6, LastOfCases
  <2>2. QED
    BY <1>1, <2>1
<1>7. QED
  BY <1>3, <1>4, <1>5, <1>6 DEF IsCode

(* In a portable text the scanner and the database agree on one element.   *)
LEMMA ElementAgrees ==
    ASSUME NEW s, IsText(s), NEW d, Portable(s, d), NEW i \in 1 .. Len(s), Between(s, i)
    PROVE  IF IsCode(s, i, d)
           THEN Stripped(s)[i] = s[i] /\ Between(s, i + 1)
           ELSE PassesOver(s, i, LastOf(s, i, d))
<1>0. Len(s) \in Nat /\ DOMAIN s = 1 .. Len(s) /\ At(s, i) = s[i] /\ i \in Nat
  BY TextFacts
<1>1. ScanOf(s)[i] = InCode(s, i)
  BY CodeStep
<1>2. /\ s[i] = "-" /\ At(s, i + 1) = "-" => IsWhite(At(s, i - 1)) /\ (d = "mysql" \/ IsWhite(At(s, i + 2)))
      /\ d # "mysql" => s[i] # "#" /\ \A j \in 1 .. Len(s) : s[j] # "backslash"
  BY <1>0 DEF Portable
<1>3. CASE IsCode(s, i, d)
  <2>1. ScanOf(s)[i] = Outside
    BY <1>1, <1>2, <1>3, InCodeCases DEF IsCode, StartsLine, StartsBlock
  <2>2. ScanOf(s)[i].kept /\ Between(s, i + 1)
    BY <1>0, <2>1, RecordFields DEF Between
  <2>3. Stripped(s)[i] = s[i]
    BY <1>0, <2>2, ScanSteps
  <2>4. QED
    BY <1>3, <2>2, <2>3
<1>4. CASE s[i] \in Quotes
  <2>1. ScanOf(s)[i] = Within(s[i])
    BY <1>1, <1>4, InCodeCases
  <2> DEFINE N == {j \in i + 1 .. Len(s) : s[j] = s[i] /\ ~(d = "mysql" /\ Escaped(s, i, j))}
             M == {j \in i + 1 .. Len(s) : s[j] = s[i] /\ ~Escaped(s, i, j)}
  <2>2. ASSUME NEW j \in i + 1 .. Len(s), d # "mysql" PROVE ~Escaped(s, i, j)
    <3>1. CASE j = i + 1
      BY <1>0, <3>1, EscapedSteps
    <3>2. CASE j # i + 1
      <4>1. j - 1 \in Nat /\ j - 1 > i /\ j - 1 + 1 = j /\ j - 1 \in 1 .. Len(s)
        BY <1>0, <3>2
      <4>2. s[j - 1] # "backslash"
        BY <1>2, <2>2, <4>1
      <4>3. Escaped(s, i, j - 1 + 1) => s[j - 1] = "backslash"
        BY <1>0, <4>1, EscapedSteps
      <4>4. QED
        BY <4>1, <4>2, <4>3
    <3>3. QED
      BY <3>1, <3>2
  <2>3. N = M
    BY <2>2
  <2>4. LastOf(s, i, d) = LeastOf(M, Len(s))
    <3>1. LastOf(s, i, d) = LeastOf(N, Len(s))
      BY <1>4, LastOfCases
    <3> HIDE DEF N, M
    <3>2. QED
      BY <2>3, <3>1
  <2>5. PassesOver(s, i, LeastOf(M, Len(s)))
    BY <1>4, <2>1, QuotesPassed
  <2>6. QED
    BY <1>4, <2>4, <2>5 DEF IsCode
<1>5. CASE StartsLine(s, i, d)
  <2>1. \/ ScanOf(s)[i] = Within("line")
        \/ ScanOf(s)[i] = Opening("line") /\ i < Len(s) /\ s[i + 1] # "newline"
    <3>1. CASE s[i] = "#"
      BY <1>1, <3>1, InCodeCases
    <3>2. CASE s[i] = "-" /\ At(s, i + 1) = "-" /\ (d = "mysql" => IsWhite(At(s, i + 2)))
      <4>1. ScanOf(s)[i] = Opening("line")
        BY <1>1, <1>2, <3>2, InCodeCases
      <4>2. i + 1 \in 1 .. Len(s)
        BY <1>0, <3>2, NoTokenIsNone, TextFacts
      <4>3. s[i + 1] = "-" /\ i < Len(s)
        BY <1>0, <3>2, <4>2, TextFacts
      <4>4. QED
        BY <4>1, <4>3
    <3>3. QED
      BY <1>5, <3>1, <3>2 DEF StartsLine
  <2> DEFINE l == LeastOf({j \in i + 1 .. Len(s) : s[j] = "newline"}, Len(s))
  <2>2. PassesOver(s, i, l)
    BY <2>1, LinePassed
  <2>3. LastOf(s, i, d) = l
    BY <1>5, LastOfCases
  <2> HIDE DEF l
  <2>4. QED
    BY <1>5, <2>2, <2>3 DEF IsCode
<1>6. CASE StartsBlock(s, i)
  <2>1. ScanOf(s)[i] = Opening("block")
    BY <1>1, <1>6, InCodeCases DEF StartsBlock
  <2> DEFINE l == LeastOf({j \in i + 3 .. Len(s) : s[j - 1] = "*" /\ s[j] = "/"}, Len(s))
  <2>2. PassesOver(s, i, l)
    BY <2>1, BlockPassed
  <2>3. LastOf(s, i, d) = l
    BY <1>6, LastOfCases
  <2> HIDE DEF l
  <2>4. QED
    BY <1>6, <2>2, <2>3 DEF IsCode
<1>7. QED
  BY <1>3, <1>4, <1>5, <1>6 DEF IsCode

(* The first characters of the elements of s from character i on.          *)
IsStarts(s, d, n, g) ==
    g = [i \in n .. Len(s) + 1 |-> IF i > Len(s) THEN {} ELSE {i} \cup g[LastOf(s, i, d) + 1]]
StartsOf(s, d) ==
    CHOOSE starts : starts = [i \in 1 .. Len(s) + 1 |->
                                IF i > Len(s) THEN {} ELSE {i} \cup starts[LastOf(s, i, d) + 1]]

LEMMA StartsExist ==
    ASSUME NEW s, IsText(s), NEW d
    PROVE  \E g : IsStarts(s, d, 1, g)
<1>0. Len(s) \in Nat
  BY TextFacts
<1> DEFINE T == {m \in 0 .. Len(s) : ~ \E g : IsStarts(s, d, Len(s) + 1 - m, g)}
<1>1. T = {}
  <2>1. SUFFICES ASSUME T # {} PROVE FALSE
    OBVIOUS
  <2>2. PICK m \in T : \A k \in T : m <= k
    <3>1. T \subseteq Nat
      OBVIOUS
    <3>2. QED
      BY <2>1, <3>1, LeastMember
  <2> DEFINE n == Len(s) + 1 - m
  <2>3. m \in 0 .. Len(s) /\ n \in 1 .. Len(s) + 1
    BY <1>0
  <2>4. CASE m = 0
    <3> DEFINE g == [i \in Len(s) + 1 .. Len(s) + 1 |-> {}]
    <3>1. g = [i \in Len(s) + 1 .. Len(s) + 1 |-> IF i > Len(s) THEN {} ELSE {i} \cup g[LastOf(s, i, d) + 1]]
      BY <1>0
    <3>2. IsStarts(s, d, Len(s) + 1, g)
      BY <3>1 DEF IsStarts
    <3>3. n = Len(s) + 1
      BY <1>0, <2>4
    <3>4. QED
      BY <2>2, <3>2, <3>3
  <2>5. CASE m # 0
    <3>1. m - 1 \in 0 .. Len(s) /\ ~(m <= m - 1) /\ Len(s) + 1 - (m - 1) = n + 1 /\ n \in 1 .. Len(s) /\ n \in Nat
      BY <1>0, <2>3, <2>5
    <3>2. PICK g : IsStarts(s, d, n + 1, g)
      BY <2>2, <3>1
    <3> DEFINE h == [i \in n .. Len(s) + 1 |-> IF i = n THEN {n} \cup g[LastOf(s, n, d) + 1] ELSE g[i]]
    <3> HIDE DEF n
    <3>3. \A i \in n .. Len(s) : LastOf(s, i, d) + 1 \in n + 1 .. Len(s) + 1 /\ i \in 1 .. Len(s)
      <4>1. ASSUME NEW i \in n .. Len(s)
            PROVE  LastOf(s, i, d) + 1 \in n + 1 .. Len(s) + 1 /\ i \in 1 .. Len(s)
        <5>1. i \in 1 .. Len(s)
          BY <1>0, <3>1
        <5>2. LastOf(s, i, d) \in i .. Len(s)
          BY <5>1, LastIsWithin
        <5>3. QED
          BY <1>0, <3>1, <5>1, <5>2
      <4>2. QED
        BY <4>1
    <3>4. \A i \in n + 1 .. Len(s) + 1 : h[i] = g[i]
      BY <1>0, <3>1
    <3>5. h[n] = {n} \cup g[LastOf(s, n, d) + 1]
      BY <1>0, <3>1
    <3>6. \A i \in n + 1 .. Len(s) + 1 : g[i] = IF i > Len(s) THEN {} ELSE {i} \cup g[LastOf(s, i, d) + 1]
      BY <3>2 DEF IsStarts
    <3>7. h = [i \in n .. Len(s) + 1 |-> h[i]]
      OBVIOUS
    <3> HIDE DEF h
    <3>8. ASSUME NEW i \in n .. Len(s) + 1
          PROVE  h[i] = IF i > Len(s) THEN {} ELSE {i} \cup h[LastOf(s, i, d) + 1]
      <4>1. CASE i = n
        <5>1. i \in n .. Len(s) /\ ~(i > Len(s))
          BY <1>0, <3>1, <4>1
        <5>2. h[LastOf(s, i, d) + 1] = g[LastOf(s, i, d) + 1]
          BY <3>3, <3>4, <5>1
        <5>3. QED
          BY <3>5, <4>1, <5>1, <5>2
      <4>2. CASE i # n /\ i > Len(s)
        <5>1. i \in n + 1 .. Len(s) + 1
          BY <1>0, <3>1, <4>2
        <5>2. QED
          BY <3>4, <3>6, <4>2, <5>1
      <4>3. CASE i # n /\ ~(i > Len(s))
        <5>1. i \in n + 1 .. Len(s) + 1 /\ i \in n .. Len(s)
          BY <1>0, <3>1, <4>3
        <5>2. h[LastOf(s, i, d) + 1] = g[LastOf(s, i, d) + 1]
          BY <3>3, <3>4, <5>1
        <5>3. QED
          BY <3>4, <3>6, <4>3, <5>1, <5>2
      <4>4. QED
        BY <4>1, <4>2, <4>3
    <3>9. IsStarts(s, d, n, h)
      BY <3>7, <3>8 DEF IsStarts
    <3>10. QED
      BY <2>2, <3>9 DEF n
  <2>6. QED
    BY <2>4, <2>5
<1>2. Len(s) \in 0 .. Len(s) /\ Len(s) + 1 - Len(s) = 1
  BY <1>0
<1>3. QED
  BY <1>1, <1>2

LEMMA StartsSteps ==
    ASSUME NEW s, IsText(s), NEW d
    PROVE  /\ \A i \in 1 .. Len(s) + 1 :
                 StartsOf(s, d)[i] = IF i > Len(s) THEN {} ELSE {i} \cup StartsOf(s, d)[LastOf(s, i, d) + 1]
           /\ ReadBy(s, d) = [i \in DOMAIN s |->
                 IF i \in {k \in StartsOf(s, d)[1] : IsCode(s, k, d)} THEN s[i] ELSE Blank(s[i])]
<1>1. IsStarts(s, d, 1, StartsOf(s, d))
  <2>1. \E g : IsStarts(s, d, 1, g)
    BY StartsExist
  <2>2. QED
    BY Zenon, <2>1 DEF IsStarts, StartsOf
<1>2. ASSUME NEW i \in 1 .. Len(s) + 1
      PROVE  StartsOf(s, d)[i] = IF i > Len(s) THEN {} ELSE {i} \cup StartsOf(s, d)[LastOf(s, i, d) + 1]
  <2> DEFINE f == StartsOf(s, d)
  <2> HIDE DEF f
  <2>1. f = [j \in 1 .. Len(s) + 1 |-> IF j > Len(s) THEN {} ELSE {j} \cup f[LastOf(s, j, d) + 1]]
    BY <1>1 DEF IsStarts, f
  <2>2. f[i] = IF i > Len(s) THEN {} ELSE {i} \cup f[LastOf(s, i, d) + 1]
    BY <2>1
  <2>3. QED
    BY <2>2 DEF f
<1>3. ReadBy(s, d) = [i \in DOMAIN s |->
         IF i \in {k \in StartsOf(s, d)[1] : IsCode(s, k, d)} THEN s[i] ELSE Blank(s[i])]
  BY DEF ReadBy, StartsOf
<1>4. QED
  BY <1>2, <1>3

(* What the scanner leaves of a text is what a database reads as code, if  *)
(* the text is portable to it: from the last element of the text to its    *)
(* first, they agree on the rest of the text from the start of an element. *)
LEMMA RestAgrees ==
    ASSUME NEW s, IsText(s), NEW d, Portable(s, d)
    PROVE  \A i \in 1 .. Len(s) + 1 :
              /\ StartsOf(s, d)[i] \subseteq i .. Len(s)
              /\ i <= Len(s) /\ Between(s, i) =>
                    \A j \in i .. Len(s) :
                       Stripped(s)[j] =
                          IF j \in StartsOf(s, d)[i] /\ IsCode(s, j, d) THEN s[j] ELSE Blank(s[j])
<1>0. Len(s) \in Nat
  BY TextFacts
<1> DEFINE starts == StartsOf(s, d)
           Holds(i) == /\ starts[i] \subseteq i .. Len(s)
                       /\ i <= Len(s) /\ Between(s, i) =>
                             \A j \in i .. Len(s) :
                                Stripped(s)[j] = IF j \in starts[i] /\ IsCode(s, j, d) THEN s[j] ELSE Blank(s[j])
           T == {m \in 0 .. Len(s) : ~Holds(Len(s) + 1 - m)}
<1>1. \A i \in 1 .. Len(s) + 1 : starts[i] = IF i > Len(s) THEN {} ELSE {i} \cup starts[LastOf(s, i, d) + 1]
  BY StartsSteps
<1> HIDE DEF starts
<1>2. Holds(Len(s) + 1)
  <2>1. Len(s) + 1 \in 1 .. Len(s) + 1 /\ Len(s) + 1 > Len(s) /\ ~(Len(s) + 1 <= Len(s))
    BY <1>0
  <2>2. starts[Len(s) + 1] = {}
    BY <1>1, <2>1
  <2>3. QED
    BY <2>1, <2>2
<1>3. ASSUME NEW i \in 1 .. Len(s), \A k \in i + 1 .. Len(s) + 1 : Holds(k)
      PROVE  Holds(i)
  <2> DEFINE l == LastOf(s, i, d)
  <2>1. l \in i .. Len(s)
    BY LastIsWithin
  <2> HIDE DEF l
  <2>2. starts[i] = {i} \cup starts[l + 1]
    <3>1. i \in 1 .. Len(s) + 1 /\ ~(i > Len(s))
      BY <1>0
    <3>2. QED
      BY <1>1, <3>1 DEF l
  <2>3. Holds(l + 1)
    BY <1>0, <1>3, <2>1
  <2>4. starts[l + 1] \subseteq l + 1 .. Len(s)
    BY <2>3
  <2>5. starts[i] \subseteq i .. Len(s)
    BY <1>0, <2>1, <2>2, <2>4
  <2>6. ASSUME Between(s, i), NEW j \in i .. Len(s)
        PROVE  Stripped(s)[j] = IF j \in starts[i] /\ IsCode(s, j, d) THEN s[j] ELSE Blank(s[j])
    <3>1. /\ IsCode(s, i, d) => l = i /\ Stripped(s)[i] = s[i] /\ Between(s, l + 1)
          /\ ~IsCode(s, i, d) => PassesOver(s, i, l)
      <4>1. IsCode(s, i, d) => l = i
        BY LastOfCases DEF l
      <4>2. /\ IsCode(s, i, d) => Stripped(s)[i] = s[i] /\ Between(s, i + 1)
            /\ ~IsCode(s, i, d) => PassesOver(s, i, l)
        BY <2>6, ElementAgrees DEF l
      <4>3. QED
        BY <4>1, <4>2
    <3>2. l < Len(s) => Between(s, l + 1)
      BY <3>1 DEF PassesOver
    <3>3. CASE j > l
      <4>1. j \in l + 1 .. Len(s) /\ l + 1 <= Len(s) /\ l < Len(s)
        BY <1>0, <2>1, <3>3
      <4>2. Stripped(s)[j] = IF j \in starts[l + 1] /\ IsCode(s, j, d) THEN s[j] ELSE Blank(s[j])
        BY <2>3, <3>2, <4>1
      <4>3. j # i
        BY <1>0, <2>1, <3>3
      <4>4. j \in starts[i] <=> j \in starts[l + 1]
        BY <2>2, <4>3
      <4>5. QED
        BY <4>2, <4>4
    <3>4. CASE ~(j > l)
      <4>1. j \in i .. l /\ j \notin starts[l + 1]
        BY <1>0, <2>1, <2>4, <3>4
      <4>2. j \in starts[i] <=> j = i
        BY <2>2, <4>1
      <4>3. CASE IsCode(s, i, d)
        <5>1. j = i
          BY <1>0, <3>1, <4>1, <4>3
        <5>2. QED
          BY <3>1, <4>2, <4>3, <5>1
      <4>4. CASE ~IsCode(s, i, d)
        <5>1. Stripped(s)[j] = Blank(s[j])
          BY <3>1, <4>1, <4>4 DEF PassesOver
        <5>2. QED
          BY <4>2, <4>4, <5>1
      <4>5. QED
        BY <4>3, <4>4
    <3>5. QED
      BY <3>3, <3>4
  <2>7. QED
    BY <2>5, <2>6
<1> HIDE DEF Holds
<1>4. T = {}
  <2>1. SUFFICES ASSUME T # {} PROVE FALSE
    OBVIOUS
  <2>2. PICK m \in T : \A k \in T : m <= k
    <3>1. T \subseteq Nat
      OBVIOUS
    <3>2. QED
      BY <2>1, <3>1, LeastMember
  <2>3. m \in 0 .. Len(s) /\ ~Holds(Len(s) + 1 - m)
    BY <2>2
  <2>4. m # 0
    BY <1>0, <1>2, <2>3
  <2>5. ASSUME NEW k \in Len(s) + 1 - m + 1 .. Len(s) + 1 PROVE Holds(k)
    <3>1. Len(s) + 1 - k \in 0 .. Len(s) /\ ~(m <= Len(s) + 1 - k) /\ Len(s) + 1 - (Len(s) + 1 - k) = k
      BY <1>0, <2>3
    <3>2. QED
      BY <2>2, <3>1
  <2>6. Len(s) + 1 - m \in 1 .. Len(s)
    BY <1>0, <2>3, <2>4
  <2>7. QED
    BY <1>3, <2>3, <2>5, <2>6
<1>5. ASSUME NEW i \in 1 .. Len(s) + 1 PROVE Holds(i)
  <2>1. Len(s) + 1 - i \in 0 .. Len(s) /\ Len(s) + 1 - (Len(s) + 1 - i) = i
    BY <1>0
  <2>2. QED
    BY <1>4, <2>1
<1>6. QED
  BY <1>5 DEF Holds, starts

LEMMA ScannerAgrees ==
    ASSUME NEW s, IsText(s), NEW d, Portable(s, d)
    PROVE  Stripped(s) = ReadBy(s, d)
<1> DEFINE out(i) == IF i \in {k \in StartsOf(s, d)[1] : IsCode(s, k, d)} THEN s[i] ELSE Blank(s[i])
           kept(i) == IF ScanOf(s)[i].kept THEN s[i] ELSE Blank(s[i])
<1>1. Len(s) \in Nat /\ DOMAIN s = 1 .. Len(s)
  BY TextFacts
<1>2. ReadBy(s, d) = [i \in DOMAIN s |-> out(i)]
  BY StartsSteps
<1>3. Stripped(s) = [i \in DOMAIN s |-> kept(i)]
  BY <1>1, ScanSteps
<1>4. ASSUME NEW i \in DOMAIN s PROVE kept(i) = out(i)
  <2>1. 1 \in 1 .. Len(s) + 1 /\ 1 <= Len(s) /\ i \in 1 .. Len(s)
    BY <1>1
  <2>2. Between(s, 1)
    BY <1>1, ScanSteps, RecordFields DEF Between
  <2>3. Stripped(s)[i] = IF i \in StartsOf(s, d)[1] /\ IsCode(s, i, d) THEN s[i] ELSE Blank(s[i])
    BY <2>1, <2>2, RestAgrees
  <2>4. Stripped(s)[i] = kept(i)
    BY <1>3
  <2>5. QED
    BY <2>3, <2>4
<1> HIDE DEF kept, out
<1>5. QED
  BY <1>2, <1>3, <1>4

(* stripSqlForSearch, for every text: what it leaves of a text that means  *)
(* the same to it and to a database is exactly what the database reads as  *)
(* code.                                                                   *)
THEOREM PortableTextsAreReadRight ==
    ASSUME NEW S, NEW s \in Seq(S), NEW d, Portable(s, d)
    PROVE  Stripped(s) = ReadBy(s, d)
  BY SequencesAreTexts, ScannerAgrees

-----------------------------------------------------------------------------
(* The rows of an INSERT: countInsertValueRows goes through the text token *)
(* by token and keeps a depth of its own; the rows are a set of places,    *)
(* whose depths come from the whole text. By induction over the tokens,    *)
(* the loop knows the depth and has counted the rows up to its place, and  *)
(* ends after the last row.                                                *)

(* Adding one number to a finite set of numbers, or none. *)
LEMMA OneMore ==
    ASSUME NEW S, IsFiniteSet(S), NEW x, NEW B, B = S \cup {x}, x \notin S
    PROVE  IsFiniteSet(B) /\ Cardinality(B) = Cardinality(S) + 1 /\ Cardinality(S) \in Nat
  BY FS_AddElement, FS_CardinalityType

(* How many of the first i tokens of r are mark. *)
Marked(r, i, mark) == Cardinality({j \in 1 .. i : r[j] = mark})

LEMMA MarkedSteps ==
    ASSUME NEW r, NEW i \in Nat, NEW mark
    PROVE  /\ Marked(r, i, mark) \in Nat
           /\ r[i + 1] = mark => Marked(r, i + 1, mark) = Marked(r, i, mark) + 1
           /\ r[i + 1] # mark => Marked(r, i + 1, mark) = Marked(r, i, mark)
<1> DEFINE S(n) == {j \in 1 .. n : r[j] = mark}
<1>1. IsFiniteSet(S(i))
  <2>1. IsFiniteSet(1 .. i)
    BY FS_Interval
  <2>2. QED
    BY <2>1, FS_Subset
<1>2. r[i + 1] = mark => S(i + 1) = S(i) \cup {i + 1} /\ i + 1 \notin S(i)
  OBVIOUS
<1>3. r[i + 1] # mark => S(i + 1) = S(i)
  OBVIOUS
<1>4. Marked(r, i, mark) = Cardinality(S(i)) /\ Marked(r, i + 1, mark) = Cardinality(S(i + 1))
  BY DEF Marked
<1> HIDE DEF S
<1>5. Cardinality(S(i)) \in Nat
  BY <1>1, FS_CardinalityType
<1>6. r[i + 1] = mark => Cardinality(S(i + 1)) = Cardinality(S(i)) + 1
  BY <1>1, <1>2, OneMore
<1>7. QED
  BY <1>3, <1>4, <1>5, <1>6

(* The depth changes at parentheses only. *)
LEMMA DepthSteps ==
    ASSUME NEW r, NEW i \in Nat
    PROVE  /\ Depth(r, i) \in Int
           /\ r[i + 1] = "(" => Depth(r, i + 1) = Depth(r, i) + 1
           /\ r[i + 1] = ")" => Depth(r, i + 1) = Depth(r, i) - 1
           /\ r[i + 1] \notin {"(", ")"} => Depth(r, i + 1) = Depth(r, i)
<1>1. \A n : Depth(r, n) = Marked(r, n, "(") - Marked(r, n, ")")
  BY DEF Depth, Marked
<1>2. QED
  BY <1>1, MarkedSteps

(* Whether a comma comes next. *)
CommaFollows(p, i) == Follower(p, i) = ","

(* What a token does to the count. *)
LEMMA CountSteps ==
    ASSUME NEW p, NEW i, NEW c
    PROVE  /\ c.at = "over" \/ p[i] \notin {"(", ")"} => CountStep(p, i, c) = c
           /\ c.at # "over" /\ p[i] = "(" =>
                 /\ CountStep(p, i, c).depth = c.depth + 1
                 /\ CountStep(p, i, c).at = "in"
                 /\ CountStep(p, i, c).groups = IF c.at = "in" THEN c.groups ELSE c.groups + 1
           /\ c.at # "over" /\ p[i] = ")" =>
                 /\ CountStep(p, i, c).depth = c.depth - 1
                 /\ CountStep(p, i, c).groups = c.groups
                 /\ c.depth # 1 => CountStep(p, i, c).at = c.at
                 /\ c.depth = 1 /\ CommaFollows(p, i) => CountStep(p, i, c).at = "out"
                 /\ c.depth = 1 /\ ~CommaFollows(p, i) => CountStep(p, i, c).at = "over"
<1>1. c.at = "over" \/ p[i] \notin {"(", ")"} => CountStep(p, i, c) = c
  BY Zenon DEF CountStep
<1>2. c.at # "over" /\ p[i] = "(" =>
         CountStep(p, i, c) =
            [depth |-> c.depth + 1, at |-> "in", groups |-> IF c.at = "in" THEN c.groups ELSE c.groups + 1]
  BY Zenon DEF CountStep
<1>3. c.at # "over" /\ p[i] = ")" =>
         CountStep(p, i, c) =
            [depth |-> c.depth - 1, groups |-> c.groups,
             at |-> IF c.depth # 1 THEN c.at ELSE IF CommaFollows(p, i) THEN "out" ELSE "over"]
  BY Zenon DEF CountStep, CommaFollows
<1>4. QED
  BY <1>1, <1>2, <1>3

(* The count of p after token i, from token v on. *)
NoGroups == [depth |-> 0, at |-> "out", groups |-> 0]
IsCount(p, v, n, g) == g = [i \in v .. n |-> IF i = v THEN NoGroups ELSE CountStep(p, i, g[i - 1])]
CountOf(p) ==
    CHOOSE count : count = [i \in ValuesOf(p) .. Len(p) |->
                              IF i = ValuesOf(p) THEN [depth |-> 0, at |-> "out", groups |-> 0]
                              ELSE CountStep(p, i, count[i - 1])]

LEMMA CountExists ==
    ASSUME NEW p, NEW v \in Nat, NEW n \in Nat, v <= n
    PROVE  \E g : IsCount(p, v, n, g)
<1> DEFINE T == {m \in Nat : ~ \E g : IsCount(p, v, v + m, g)}
<1>1. T = {}
  <2>1. SUFFICES ASSUME T # {} PROVE FALSE
    OBVIOUS
  <2>2. PICK m \in T : \A k \in T : m <= k
    BY <2>1, LeastMember
  <2>3. CASE m = 0
    <3> DEFINE g == [i \in v .. v |-> NoGroups]
    <3>1. \A i \in v .. v : i = v
      OBVIOUS
    <3>2. IsCount(p, v, v, g)
      BY <3>1 DEF IsCount
    <3>3. v + m = v
      BY <2>3
    <3>4. QED
      BY <2>2, <3>2, <3>3
  <2>4. CASE m # 0
    <3> DEFINE k == v + m
    <3>1. m - 1 \in Nat /\ ~(m <= m - 1) /\ v + (m - 1) = k - 1 /\ k \in Nat /\ k > v
      BY <2>4
    <3> HIDE DEF k
    <3>2. PICK g : IsCount(p, v, k - 1, g)
      BY <2>2, <3>1
    <3> DEFINE h == [i \in v .. k |-> IF i = k THEN CountStep(p, k, g[k - 1]) ELSE g[i]]
    <3>3. \A i \in v .. k - 1 : h[i] = g[i]
      BY <3>1
    <3>4. \A i \in v .. k - 1 : g[i] = IF i = v THEN NoGroups ELSE CountStep(p, i, g[i - 1])
      BY <3>2 DEF IsCount
    <3>5. h[k] = CountStep(p, k, g[k - 1]) /\ h = [i \in v .. k |-> h[i]]
      BY <3>1
    <3> HIDE DEF h
    <3>6. ASSUME NEW i \in v .. k
          PROVE  h[i] = IF i = v THEN NoGroups ELSE CountStep(p, i, h[i - 1])
      <4>1. CASE i = k
        <5>1. k - 1 \in v .. k - 1 /\ k # v
          BY <3>1
        <5>2. QED
          BY <3>3, <3>5, <4>1, <5>1
      <4>2. CASE i # k
        <5>1. i \in v .. k - 1 /\ (i # v => i - 1 \in v .. k - 1)
          BY <3>1, <4>2
        <5>2. QED
          BY <3>3, <3>4, <5>1
      <4>3. QED
        BY <4>1, <4>2
    <3>7. IsCount(p, v, k, h)
      BY <3>5, <3>6 DEF IsCount
    <3>8. QED
      BY <2>2, <3>7 DEF k
  <2>5. QED
    BY <2>3, <2>4
<1>2. n - v \in Nat /\ v + (n - v) = n
  OBVIOUS
<1>3. QED
  BY <1>1, <1>2

LEMMA ValuesAreWithin ==
    ASSUME NEW p, IsText(p)
    PROVE  ValuesOf(p) \in 0 .. Len(p)
<1> DEFINE insert == LeastOf(Words(p, "insert"), Len(p))
           T == {i \in DOMAIN p : p[i] = "values" /\ ~IsWord(At(p, i - 1)) /\ i > insert}
<1>1. ValuesOf(p) = LeastOf(T, Len(p))
  BY DEF ValuesOf
<1>2. T \subseteq 1 .. Len(p) /\ Len(p) \in Nat
  <2>1. T \subseteq DOMAIN p
    BY Zenon
  <2>2. QED
    BY Zenon, <2>1 DEF IsText
<1> HIDE DEF T
<1>3. CASE T = {}
  <2>1. ValuesOf(p) = Len(p)
    BY <1>1, <1>3 DEF LeastOf
  <2>2. QED
    BY <1>2, <2>1
<1>4. CASE T # {}
  <2>1. T \subseteq Nat
    BY <1>2
  <2>2. LeastOf(T, Len(p)) \in T
    BY <1>4, <2>1, LeastOfIsLeast
  <2>3. LeastOf(T, Len(p)) \in 1 .. Len(p)
    BY Zenon, <1>2, <2>2
  <2>4. ValuesOf(p) \in 1 .. Len(p)
    BY Zenon, <1>1, <2>3
  <2>5. QED
    BY <1>2, <2>4
<1>5. QED
  BY <1>3, <1>4

LEMMA CountsStep ==
    ASSUME NEW p, IsText(p)
    PROVE  /\ CountOf(p)[ValuesOf(p)] = NoGroups
           /\ \A i \in ValuesOf(p) + 1 .. Len(p) : CountOf(p)[i] = CountStep(p, i, CountOf(p)[i - 1])
<1> DEFINE v == ValuesOf(p)
<1>1. v \in Nat /\ Len(p) \in Nat /\ v <= Len(p)
  BY ValuesAreWithin DEF IsText
<1>2. IsCount(p, v, Len(p), CountOf(p))
  <2>1. \E g : IsCount(p, v, Len(p), g)
    BY <1>1, CountExists
  <2>2. QED
    BY Zenon, <2>1 DEF IsCount, CountOf, NoGroups
<1> HIDE DEF v
<1>3. ASSUME NEW i \in v .. Len(p)
      PROVE  CountOf(p)[i] = IF i = v THEN NoGroups ELSE CountStep(p, i, CountOf(p)[i - 1])
  <2> DEFINE f == CountOf(p)
  <2> HIDE DEF f
  <2>1. f = [j \in v .. Len(p) |-> IF j = v THEN NoGroups ELSE CountStep(p, j, f[j - 1])]
    BY <1>2 DEF IsCount, f
  <2>2. f[i] = IF i = v THEN NoGroups ELSE CountStep(p, i, f[i - 1])
    BY <2>1
  <2>3. QED
    BY <2>2 DEF f
<1>4. CountOf(p)[v] = NoGroups
  BY <1>1, <1>3
<1>5. ASSUME NEW i \in v + 1 .. Len(p) PROVE CountOf(p)[i] = CountStep(p, i, CountOf(p)[i - 1])
  <2>1. i \in v .. Len(p) /\ i # v
    BY <1>1
  <2>2. QED
    BY <1>3, <2>1
<1>6. QED
  BY <1>4, <1>5 DEF v

(* What RowsInOrder says of a text, and what else there is to its rows.    *)
LEMMA RowsFacts ==
    ASSUME NEW r, IsText(r), ValuesOf(r) < Len(r), TopValues(r) = ValuesOf(r)
    PROVE  /\ TopValues(r) \in 1 .. Len(r) - 1 /\ Depth(r, TopValues(r)) = 0
           /\ NextWord(r) \in TopValues(r) + 1 .. Len(r) + 1
           /\ NextWord(r) <= Len(r) => r[NextWord(r)] \notin {"(", ")"} /\ Depth(r, NextWord(r)) = 0
           /\ IsFiniteSet(RowStarts(r)) /\ RowStarts(r) \subseteq 1 .. Len(r)
<1>1. Len(r) \in Nat /\ DOMAIN r = 1 .. Len(r)
  BY DEF IsText
<1>2. TopValues(r) \in TopWords(r, "values")
  <2> DEFINE T == TopWords(r, "values")
  <2>1. T \subseteq Nat
    BY <1>1 DEF TopWords, Words
  <2>2. TopValues(r) = LeastOf(T, Len(r))
    BY DEF TopValues
  <2> HIDE DEF T
  <2>3. T # {}
    <3>1. T = {} => TopValues(r) = Len(r)
      BY <2>2 DEF LeastOf
    <3>2. QED
      BY <1>1, <3>1
  <2>4. QED
    BY <2>1, <2>2, <2>3, LeastOfIsLeast DEF T
<1>3. TopValues(r) \in 1 .. Len(r) /\ Depth(r, TopValues(r)) = 0
  BY <1>1, <1>2 DEF TopWords, Words
<1> DEFINE W == {i \in TopValues(r) + 1 .. Len(r) : IsWord(r[i]) /\ Depth(r, i) = 0}
<1>4. NextWord(r) = LeastOf(W, Len(r) + 1)
  BY DEF NextWord
<1> DEFINE w == NextWord(r)
           WordFacts == /\ w \in TopValues(r) + 1 .. Len(r) + 1
                        /\ w <= Len(r) => r[w] \notin {"(", ")"} /\ Depth(r, w) = 0
<1>5. ASSUME W = {} PROVE WordFacts
  <2>1. NextWord(r) = Len(r) + 1
    BY <1>4, <1>5 DEF LeastOf
  <2>2. NextWord(r) \in TopValues(r) + 1 .. Len(r) + 1 /\ ~(NextWord(r) <= Len(r))
    BY <1>1, <1>3, <2>1
  <2>3. QED
    BY <2>2
<1>6. ASSUME W # {} PROVE WordFacts
  <2>1. W \subseteq Nat
    BY <1>1, <1>3
  <2>2. NextWord(r) \in W
    <3> HIDE DEF W
    <3>1. QED
      BY <1>4, <1>6, <2>1, LeastOfIsLeast
  <2>3. NextWord(r) \in TopValues(r) + 1 .. Len(r) + 1 /\ IsWord(r[NextWord(r)]) /\ Depth(r, NextWord(r)) = 0
    BY <1>1, <1>3, <2>2
  <2>4. r[NextWord(r)] \notin {"(", ")"}
    BY Zenon, <2>3 DEF IsWord, Marks
  <2>5. QED
    BY <2>3, <2>4
<1>7. RowStarts(r) \subseteq 1 .. Len(r)
  BY <1>1 DEF RowStarts
<1>8. IsFiniteSet(RowStarts(r))
  <2>1. IsFiniteSet(1 .. Len(r))
    BY <1>1, FS_Interval
  <2>2. QED
    BY <1>7, <2>1, FS_Subset
<1>9. TopValues(r) \in 1 .. Len(r) - 1
  BY <1>1, <1>3
<1> HIDE DEF W
<1>10. QED
  BY <1>3, <1>5, <1>6, <1>7, <1>8, <1>9

(* The loop, at token i of a text whose rows are in order: it has ended    *)
(* with the last row, or it knows the depth and has counted the rows so    *)
(* far, and more come if it is between two of them.                        *)
SoFar(r, i) == {k \in RowStarts(r) : k <= i}
Ended(r, i, c) ==
    c.at = "over" /\ c.groups = Cardinality(RowStarts(r)) /\ \A k \in RowStarts(r) : k <= i
Counting(r, i, c) ==
    /\ c.at \in {"in", "out"} /\ c.depth = Depth(r, i) /\ (c.at = "in" <=> c.depth > 0)
    /\ c.groups = Cardinality(SoFar(r, i))
    /\ c.depth = 0 /\ SoFar(r, i) # {} => \E k \in RowStarts(r) : k > i

LEMMA CountGoesOn ==
    ASSUME NEW r, IsText(r), ValuesOf(r) < Len(r), RowsInOrder(r),
           NEW i \in TopValues(r) + 1 .. NextWord(r) - 1, NEW c,
           Ended(r, i - 1, c) \/ Counting(r, i - 1, c)
    PROVE  LET n == CountStep(r, i, c) IN Ended(r, i, n) \/ Counting(r, i, n)
<1> DEFINE n == CountStep(r, i, c)
           v == TopValues(r)
           starts == RowStarts(r)
<1>1. Len(r) \in Nat /\ DOMAIN r = 1 .. Len(r) /\ v = ValuesOf(r)
  BY DEF IsText, RowsInOrder
<1>2. /\ v \in 1 .. Len(r) - 1 /\ NextWord(r) \in v + 1 .. Len(r) + 1
      /\ IsFiniteSet(starts) /\ starts \subseteq 1 .. Len(r)
  BY <1>1, RowsFacts
<1>3. i \in 1 .. Len(r) /\ i \in Nat /\ i - 1 \in Nat /\ i - 1 + 1 = i /\ v < i /\ i < NextWord(r)
  BY <1>1, <1>2
<1>4. Depth(r, i) \in Int /\ Depth(r, i - 1) \in Int /\ Depth(r, i) >= 0
  BY <1>1, <1>3, DepthSteps DEF RowsInOrder
<1>5. i \in starts <=> r[i] = "(" /\ Depth(r, i) = 1
  BY <1>1, <1>3 DEF RowStarts
<1>6. /\ IsFiniteSet(SoFar(r, i - 1)) /\ Cardinality(SoFar(r, i - 1)) \in Nat
      /\ i \in starts => SoFar(r, i) # {} /\ Cardinality(SoFar(r, i)) = Cardinality(SoFar(r, i - 1)) + 1
      /\ i \notin starts => SoFar(r, i) = SoFar(r, i - 1)
  <2>1. IsFiniteSet(SoFar(r, i - 1))
    BY <1>2, FS_Subset DEF SoFar
  <2>2. i \in starts => SoFar(r, i) = SoFar(r, i - 1) \cup {i} /\ i \notin SoFar(r, i - 1)
    BY <1>1, <1>2, <1>3 DEF SoFar
  <2>3. i \notin starts => SoFar(r, i) = SoFar(r, i - 1)
    BY <1>1, <1>2, <1>3 DEF SoFar
  <2>4. i \in starts => Cardinality(SoFar(r, i)) = Cardinality(SoFar(r, i - 1)) + 1
    BY <2>1, <2>2, OneMore
  <2>5. Cardinality(SoFar(r, i - 1)) \in Nat
    BY <2>1, FS_CardinalityType
  <2>6. QED
    BY <2>1, <2>2, <2>3, <2>4, <2>5
<1> HIDE DEF n, v, starts
<1>7. CASE Ended(r, i - 1, c)
  <2>1. n = c
    BY <1>7, CountSteps DEF Ended, n
  <2>2. \A k \in starts : k <= i
    BY <1>1, <1>2, <1>3, <1>7 DEF Ended, starts
  <2>3. QED
    BY <1>7, <2>1, <2>2 DEF Ended, n, starts
<1>8. CASE Counting(r, i - 1, c)
  <2>1. /\ c.at \in {"in", "out"} /\ c.depth = Depth(r, i - 1) /\ (c.at = "in" <=> c.depth > 0)
        /\ c.groups = Cardinality(SoFar(r, i - 1)) /\ c.at # "over"
        /\ c.depth = 0 /\ SoFar(r, i - 1) # {} => \E k \in starts : k > i - 1
    BY <1>8 DEF Counting, starts
  <2>2. CASE r[i] = "("
    <3>1. /\ n.depth = c.depth + 1 /\ n.at = "in"
          /\ n.groups = IF c.at = "in" THEN c.groups ELSE c.groups + 1
      BY <2>1, <2>2, CountSteps DEF n
    <3>2. Depth(r, i) = Depth(r, i - 1) + 1
      BY <1>3, <2>2, DepthSteps
    <3>3. c.depth >= 0
      <4>1. i - 1 = v \/ i - 1 \in 1 .. Len(r)
        BY <1>1, <1>2, <1>3
      <4>2. i - 1 \in DOMAIN r
        BY <1>1, <1>2, <4>1
      <4>3. QED
        BY <2>1, <4>2 DEF RowsInOrder
    <3>4. c.at = "in" => i \notin starts
      BY <1>4, <1>5, <2>1, <3>2
    <3>5. c.at # "in" => i \in starts
      BY <1>4, <1>5, <2>1, <2>2, <3>2, <3>3
    <3>6. n.groups = Cardinality(SoFar(r, i))
      BY <1>6, <2>1, <3>1, <3>4, <3>5
    <3>7. Counting(r, i, n)
      BY <1>4, <2>1, <3>1, <3>2, <3>3, <3>6 DEF Counting
    <3>8. QED
      BY <3>7 DEF n
  <2>3. CASE r[i] = ")"
    <3>1. /\ n.depth = c.depth - 1 /\ n.groups = c.groups
          /\ c.depth # 1 => n.at = c.at
          /\ c.depth = 1 /\ CommaFollows(r, i) => n.at = "out"
          /\ c.depth = 1 /\ ~CommaFollows(r, i) => n.at = "over"
      BY <2>1, <2>3, CountSteps DEF n
    <3>2. Depth(r, i) = Depth(r, i - 1) - 1
      BY <1>3, <2>3, DepthSteps
    <3>3. SoFar(r, i) = SoFar(r, i - 1)
      BY <1>5, <1>6, <2>3
    <3>4. c.depth # 1 => n.depth > 0 /\ n.at = "in"
      BY <1>4, <2>1, <3>1, <3>2
    <3>5. CASE c.depth # 1
      <4>1. Counting(r, i, n)
        BY <1>4, <2>1, <3>1, <3>2, <3>3, <3>4, <3>5 DEF Counting
      <4>2. QED
        BY <4>1 DEF n
    <3>6. CASE c.depth = 1
      <4>1. Depth(r, i) = 0 /\ n.depth = 0
        BY <2>1, <3>1, <3>2, <3>6
      <4>2. CommaFollows(r, i) <=> \E j \in starts : j > i
        BY Zenon, <1>1, <1>3, <2>3, <4>1 DEF RowsInOrder, CommaFollows, starts, v
      <4>3. (n.at = "out" /\ \E j \in starts : j > i) \/ (n.at = "over" /\ ~ \E j \in starts : j > i)
        BY Zenon, <3>1, <3>6, <4>2
      <4>4. CASE n.at = "out" /\ \E j \in starts : j > i
        <5>1. n.at = "out" /\ ~(n.depth > 0)
          BY <4>1, <4>4
        <5>2. n.depth = Depth(r, i) /\ n.groups = Cardinality(SoFar(r, i))
          BY <2>1, <3>1, <3>3, <4>1
        <5>3. \E k \in RowStarts(r) : k > i
          BY <4>4 DEF starts
        <5>4. Counting(r, i, n)
          BY <5>1, <5>2, <5>3 DEF Counting
        <5>5. QED
          BY <5>4 DEF n
      <4>5. CASE n.at = "over" /\ ~ \E j \in starts : j > i
        <5>1. \A k \in starts : k <= i
          BY <1>2, <1>3, <4>5 DEF starts
        <5>2. SoFar(r, i) = starts
          BY <5>1 DEF SoFar, starts
        <5>3. Ended(r, i, n)
          BY <2>1, <3>1, <3>3, <4>5, <5>1, <5>2 DEF Ended, starts
        <5>4. QED
          BY <5>3 DEF n
      <4>6. QED
        BY <4>3, <4>4, <4>5
    <3>7. QED
      BY <3>5, <3>6
  <2>4. CASE r[i] \notin {"(", ")"}
    <3>1. n = c
      BY <2>4, CountSteps DEF n
    <3>2. Depth(r, i) = Depth(r, i - 1)
      BY <1>3, <2>4, DepthSteps
    <3>3. i \notin starts /\ SoFar(r, i) = SoFar(r, i - 1)
      BY <1>5, <1>6, <2>4
    <3>4. (\E k \in starts : k > i - 1) => \E k \in starts : k > i
      BY <1>2, <1>3, <3>3 DEF starts
    <3>5. Counting(r, i, n)
      BY <2>1, <3>1, <3>2, <3>3, <3>4 DEF Counting, starts
    <3>6. QED
      BY <3>5 DEF n
  <2>5. QED
    BY <2>2, <2>3, <2>4
<1>9. QED
  BY <1>7, <1>8

(* By induction over the tokens between VALUES and the next word.          *)
LEMMA CountsInOrder ==
    ASSUME NEW r, IsText(r), ValuesOf(r) < Len(r), RowsInOrder(r),
           NEW i \in TopValues(r) .. NextWord(r) - 1
    PROVE  Ended(r, i, CountOf(r)[i]) \/ Counting(r, i, CountOf(r)[i])
<1> DEFINE v == TopValues(r)
           w == NextWord(r)
           Holds(j) == Ended(r, j, CountOf(r)[j]) \/ Counting(r, j, CountOf(r)[j])
           T == {j \in v .. w - 1 : ~Holds(j)}
<1>1. Len(r) \in Nat /\ v = ValuesOf(r) /\ v \in 1 .. Len(r) - 1 /\ w \in v + 1 .. Len(r) + 1 /\ Depth(r, v) = 0
  <2>1. v = ValuesOf(r)
    BY DEF RowsInOrder
  <2>2. QED
    BY <2>1, RowsFacts DEF IsText
<1>2. Holds(v)
  <2>1. CountOf(r)[v] = NoGroups
    BY <1>1, CountsStep
  <2>2. SoFar(r, v) = {}
    BY <1>1 DEF SoFar, RowStarts
  <2>3. Cardinality(SoFar(r, v)) = 0
    BY <2>2, FS_EmptySet
  <2>4. NoGroups.at = "out" /\ NoGroups.depth = 0 /\ NoGroups.groups = 0
    BY DEF NoGroups
  <2>5. Counting(r, v, CountOf(r)[v])
    BY <1>1, <2>1, <2>2, <2>3, <2>4 DEF Counting
  <2>6. QED
    BY <2>5
<1>3. ASSUME NEW j \in v + 1 .. w - 1, Holds(j - 1) PROVE Holds(j)
  <2>1. CountOf(r)[j] = CountStep(r, j, CountOf(r)[j - 1])
    <3>1. j \in ValuesOf(r) + 1 .. Len(r)
      BY <1>1
    <3>2. QED
      BY <3>1, CountsStep
  <2>2. Ended(r, j, CountStep(r, j, CountOf(r)[j - 1])) \/ Counting(r, j, CountStep(r, j, CountOf(r)[j - 1]))
    BY <1>3, CountGoesOn
  <2>3. QED
    BY <2>1, <2>2
<1> HIDE DEF Holds, v, w
<1>4. T = {}
  <2>1. SUFFICES ASSUME T # {} PROVE FALSE
    OBVIOUS
  <2>2. T \subseteq Nat
    BY <1>1
  <2>3. PICK j \in T : \A k \in T : j <= k
    BY <2>1, <2>2, LeastMember
  <2>4. j # v
    BY <1>2, <2>3
  <2>5. j \in v + 1 .. w - 1 /\ j - 1 \in v .. w - 1 /\ ~(j <= j - 1)
    BY <1>1, <2>3, <2>4
  <2>6. Holds(j - 1)
    BY <2>3, <2>5
  <2>7. QED
    BY <1>3, <2>3, <2>5, <2>6
<1>5. Holds(i)
  BY <1>4 DEF v, w
<1>6. QED
  BY <1>5 DEF Holds

(* Once it has ended the loop changes nothing. *)
LEMMA CountStays ==
    ASSUME NEW r, IsText(r), NEW i \in ValuesOf(r) .. Len(r), CountOf(r)[i].at = "over"
    PROVE  CountOf(r)[Len(r)] = CountOf(r)[i]
<1> DEFINE f(j) == CountOf(r)[j]
           T == {j \in i .. Len(r) : f(j) # f(i)}
<1>1. Len(r) \in Nat /\ ValuesOf(r) \in Nat /\ i \in Nat /\ i <= Len(r) /\ ValuesOf(r) <= i
  BY ValuesAreWithin DEF IsText
<1>2. ASSUME NEW j \in i + 1 .. Len(r), f(j - 1) = f(i) PROVE f(j) = f(i)
  <2>1. j \in ValuesOf(r) + 1 .. Len(r)
    BY <1>1
  <2>2. f(j) = CountStep(r, j, f(j - 1))
    BY <2>1, CountsStep
  <2>3. f(j - 1).at = "over"
    BY <1>2
  <2>4. CountStep(r, j, f(j - 1)) = f(j - 1)
    BY <2>3, CountSteps
  <2>5. QED
    BY <1>2, <2>2, <2>4
<1> HIDE DEF f
<1>3. T = {}
  <2>1. SUFFICES ASSUME T # {} PROVE FALSE
    OBVIOUS
  <2>2. T \subseteq Nat
    BY <1>1
  <2>3. PICK j \in T : \A k \in T : j <= k
    BY <2>1, <2>2, LeastMember
  <2>4. j \in i + 1 .. Len(r) /\ j - 1 \in i .. Len(r) /\ ~(j <= j - 1)
    BY <1>1, <2>3
  <2>5. f(j - 1) = f(i)
    BY <2>3, <2>4
  <2>6. QED
    BY <1>2, <2>3, <2>4, <2>5
<1>4. f(Len(r)) = f(i)
  BY <1>1, <1>3
<1>5. QED
  BY <1>4 DEF f

LEMMA CountIsOf ==
    ASSUME NEW s
    PROVE  CountInsertValueRows(s) = CountOf(Stripped(s))[Len(Stripped(s))].groups
  BY Zenon DEF CountInsertValueRows, CountOf

(* The rows that are counted are those of the text. *)
LEMMA RowsAreCountedRight ==
    ASSUME NEW r, IsText(r), RowsInOrder(r)
    PROVE  CountOf(r)[Len(r)].groups = RowsOf(r)
<1> DEFINE v == TopValues(r)
           w == NextWord(r)
           last == CountOf(r)[Len(r)]
<1>1. Len(r) \in Nat /\ DOMAIN r = 1 .. Len(r) /\ v = ValuesOf(r) /\ ValuesOf(r) \in 0 .. Len(r)
  BY ValuesAreWithin DEF IsText, RowsInOrder
<1>2. CASE ValuesOf(r) = Len(r)
  <2>1. last = NoGroups
    BY <1>2, CountsStep
  <2>2. RowStarts(r) = {}
    BY <1>1, <1>2 DEF RowStarts
  <2>3. QED
    BY <2>1, <2>2, FS_EmptySet DEF RowsOf, NoGroups
<1>3. CASE ValuesOf(r) < Len(r)
  <2>1. /\ v \in 1 .. Len(r) - 1 /\ w \in v + 1 .. Len(r) + 1
        /\ w <= Len(r) => r[w] \notin {"(", ")"} /\ Depth(r, w) = 0
        /\ RowStarts(r) \subseteq 1 .. Len(r) /\ \A k \in RowStarts(r) : k < w
    <3>1. \A k \in RowStarts(r) : k < w
      BY DEF RowStarts
    <3>2. QED
      BY <1>1, <1>3, <3>1, RowsFacts
  <2>2. w - 1 \in v .. w - 1 /\ w - 1 \in ValuesOf(r) .. Len(r) /\ w - 1 \in Nat
    BY <1>1, <2>1
  <2>3. Ended(r, w - 1, CountOf(r)[w - 1]) \/ Counting(r, w - 1, CountOf(r)[w - 1])
    BY <1>3, <2>2, CountsInOrder
  <2>4. SoFar(r, w - 1) = RowStarts(r)
    BY <1>1, <2>1, <2>2 DEF SoFar
  <2>5. CASE Ended(r, w - 1, CountOf(r)[w - 1])
    <3>1. last = CountOf(r)[w - 1]
      BY <2>2, <2>5, CountStays DEF Ended
    <3>2. QED
      BY <2>5, <3>1 DEF Ended, RowsOf
  <2>6. CASE Counting(r, w - 1, CountOf(r)[w - 1])
    <3>1. CASE w <= Len(r)
      <4>1. Depth(r, w - 1) = 0
        <5>1. w - 1 + 1 = w
          BY <2>1
        <5>2. Depth(r, w) = Depth(r, w - 1)
          BY <2>1, <2>2, <3>1, <5>1, DepthSteps
        <5>3. QED
          BY <2>1, <3>1, <5>2
      <4>2. RowStarts(r) # {}
        BY <3>1 DEF RowsInOrder
      <4>3. \E k \in RowStarts(r) : k > w - 1
        BY <2>4, <2>6, <4>1, <4>2 DEF Counting
      <4>4. QED
        BY <1>1, <2>1, <4>3
    <3>2. CASE w = Len(r) + 1
      <4>1. w - 1 = Len(r)
        BY <1>1, <3>2
      <4>2. QED
        BY <2>4, <2>6, <4>1 DEF Counting, RowsOf
    <3>3. QED
      BY <1>1, <2>1, <3>1, <3>2
  <2>7. QED
    BY <2>3, <2>5, <2>6
<1>4. QED
  BY <1>1, <1>2, <1>3

LEMMA FunctionsAreTexts ==
    ASSUME NEW S, NEW n \in Nat, NEW f \in [1 .. n -> S]
    PROVE  IsText(f) /\ Len(f) = n
<1>1. f \in Seq(S) /\ Len(f) = n
  OBVIOUS
<1>2. QED
  BY <1>1 DEF IsText

(* Blanking leaves the characters where they are. *)
LEMMA StrippedIsText ==
    ASSUME NEW s, IsText(s)
    PROVE  IsText(Stripped(s)) /\ Len(Stripped(s)) = Len(s)
<1> DEFINE f == Stripped(s)
           S == {f[i] : i \in DOMAIN s}
<1>1. f = [i \in DOMAIN s |-> f[i]]
  <2>1. DOMAIN f = DOMAIN s
    BY Zenon DEF Stripped
  <2>2. f = [i \in DOMAIN f |-> f[i]]
    BY Zenon DEF Stripped
  <2>3. QED
    BY <2>1, <2>2
<1> HIDE DEF f
<1>2. f \in [DOMAIN s -> S]
  BY <1>1
<1> HIDE DEF S
<1>3. Len(s) \in Nat /\ f \in [1 .. Len(s) -> S]
  BY <1>2 DEF IsText
<1>4. QED
  BY <1>3, FunctionsAreTexts DEF f

(* The verbs that detectStatementType takes for an INSERT. *)
LEMMA InsertVerbs ==
    ASSUME NEW s, DetectStatementType(s) = "INSERT"
    PROVE  Words(Stripped(s), "insert") # {} \/ Words(Stripped(s), "replace") # {}
<1> DEFINE p == Stripped(s)
           first == LeastOf({i \in DOMAIN p : ~IsWhite(p[i])}, 0)
<1>1. DetectStatementType(s) =
         CASE ~IsWord(At(p, first)) -> "UNKNOWN"
           [] IsWord(At(p, first)) /\ first \in Words(p, p[first]) -> TypeOfWord(p[first])
           [] OTHER -> "OTHER"
  BY Zenon DEF DetectStatementType
<1> HIDE DEF p, first
<1>2. first \in Words(p, p[first]) /\ TypeOfWord(p[first]) = "INSERT"
  BY Zenon, <1>1
<1>3. p[first] \in {"insert", "replace"}
  BY Zenon, <1>2 DEF TypeOfWord
<1>4. QED
  BY Zenon, <1>2, <1>3 DEF p

(* The analysis of a text, for every text: if it is portable and its rows  *)
(* are in order, then what is left of it is what the database reads, and   *)
(* the rows counted are those of the INSERT, or no more than there are of  *)
(* a REPLACE.                                                              *)
THEOREM AnalysisIsRight ==
    ASSUME NEW S, NEW t \in Seq(S), NEW d, Analysable(t, d)
    PROVE  AnalysedRight(t, d)
<1> DEFINE r == ReadBy(t, d)
<1>1. IsText(t) /\ Portable(t, d)
  BY SequencesAreTexts DEF Analysable
<1>2. Stripped(t) = r
  BY <1>1, ScannerAgrees
<1>3. IsText(r)
  BY <1>1, <1>2, StrippedIsText
<1>4. CountInsertValueRows(t) = CountOf(r)[Len(r)].groups
  BY <1>2, CountIsOf
<1>5. RowsOf(r) \in Nat
  BY RowsAreCounted
<1>6. DetectStatementType(t) = "INSERT" => Words(r, "insert") # {} \/ Words(r, "replace") # {}
  BY <1>2, InsertVerbs
<1>7. DetectStatementType(t) = "INSERT" /\ Words(r, "insert") # {} => RowsInOrder(r)
  BY Zenon DEF Analysable
<1> HIDE DEF r
<1>8. ASSUME Words(r, "insert") # {}, DetectStatementType(t) = "INSERT"
      PROVE  CountInsertValueRows(t) = RowsOf(r)
  BY <1>3, <1>4, <1>7, <1>8, RowsAreCountedRight
<1>9. ASSUME Words(r, "insert") = {} PROVE CountInsertValueRows(t) = 0
  <2>1. LeastOf(Words(r, "insert"), Len(r)) = Len(r)
    BY <1>9 DEF LeastOf
  <2> DEFINE T == {i \in DOMAIN r : r[i] = "values" /\ ~IsWord(At(r, i - 1)) /\ i > Len(r)}
  <2>2. ValuesOf(r) = LeastOf(T, Len(r))
    BY Zenon, <2>1 DEF ValuesOf
  <2>3. \A i \in DOMAIN r : ~(i > Len(r))
    BY <1>3 DEF IsText
  <2>4. T = {}
    BY Zenon, <2>3
  <2> HIDE DEF T
  <2>5. ValuesOf(r) = Len(r)
    BY <2>2, <2>4 DEF LeastOf
  <2>6. CountOf(r)[Len(r)] = NoGroups
    BY <1>3, <2>5, CountsStep
  <2>7. QED
    BY <1>4, <2>6 DEF NoGroups
<1>10. DetectStatementType(t) = "INSERT" =>
          /\ CountInsertValueRows(t) \in 0 .. RowsOf(r)
          /\ Words(r, "replace") = {} => CountInsertValueRows(t) = RowsOf(r)
  BY <1>5, <1>6, <1>8, <1>9
<1>11. QED
  BY Zenon, <1>2, <1>10 DEF AnalysedRight, r

-----------------------------------------------------------------------------
(* What holds of every behaviour. *)

(* Every state of a call is one of the states that the types describe.     *)
THEOREM AnswersAreTyped == Spec => []TypeOK
<1>1. IInv => TypeOK
  BY DEF IInv
<1>2. QED
  BY <1>1, InitEstablishes, NextPreserves, PTL DEF Spec

(* What a client that may only select runs, in a transaction or not, has   *)
(* changed no rows.                                                        *)
THEOREM SelectOnlyChangesNothing == Spec => []ReadOnlyHolds
<1>1. IInv => ReadOnlyHolds
  BY DEF IInv
<1>2. QED
  BY <1>1, InitEstablishes, NextPreserves, PTL DEF Spec

(* What a statement answers is true: the rows affected and returned, the   *)
(* rows of a page and their total, and a failure.                          *)
THEOREM AnswersTellTheTruth == Spec => []AnswersAreTrue
<1>1. IInv => AnswersAreTrue
  BY DEF IInv
<1>2. QED
  BY <1>1, InitEstablishes, NextPreserves, PTL DEF Spec

(* An export that succeeds is whole, and what it says was true.            *)
THEOREM ExportsAreWhole == Spec => []SchemasAreWhole
<1>1. IInv => SchemasAreWhole
  <2>1. about # "export" => SchemasAreWhole
    BY DEF SchemasAreWhole
  <2>2. QED
    BY <2>1 DEF IInv
<1>2. QED
  BY <1>1, InitEstablishes, NextPreserves, PTL DEF Spec

(* The scanner leaves of a text what each database reads as code, if the   *)
(* text is portable to it.                                                 *)
THEOREM ScannerIsRight == Spec => []ScannerReadsCode
<1>1. IInv => ScannerReadsCode
  <2>1. SUFFICES ASSUME IInv, NEW d, Portable(text, d) PROVE Stripped(text) = ReadBy(text, d)
    BY Zenon DEF ScannerReadsCode
  <2>2. text \in Seq(Alphabet) \/ text \in Seq(STRING)
    BY <2>1, Bounds DEF IInv, TypeOK
  <2>3. QED
    BY <2>1, <2>2, PortableTextsAreReadRight
<1>2. QED
  BY <1>1, InitEstablishes, NextPreserves, PTL DEF Spec

(* The guards hold for any options and whatever others do, if the texts    *)
(* that are sent mean the same to the scanner and to the database and have *)
(* their rows in order: then no UPDATE or DELETE without a WHERE and no    *)
(* INSERT of more rows than the options allow changes anything, and        *)
(* nothing else is blocked.                                                *)
THEOREM GuardsHoldWhenAnalysed ==
    ASSUME \A t \in Statements, d \in Dialect \ {"mongodb"} : Analysable(t, d)
    PROVE  Spec => []GuardsHold
<1>1. Init => Obeyed
  BY DEF Init, Obeyed
<1>2. ASSUME IInv, Obeyed PROVE GuardsHold
  <2>1. TypeOK /\ ReadOnlyHolds
    BY <1>2 DEF IInv
  <2> DEFINE theirs == IF own = pooled \/ (own # NoOptions /\ ~call.tx) THEN {own} ELSE {own, pooled}
  <2>2. ASSUME call.st = "done", about = "statement"
        PROVE  /\ answer.error = "DML_BLOCKED" => \E o \in theirs : Forbids(o) \/ Unlimited(o)
               /\ /\ \A o \in theirs : Forbids(o)
                  /\ Words(Read, "where") = TopWords(Read, "where") /\ Words(Read, "replace") = {}
                  => changed = 0
    <3>1. text \in Statements /\ (IF dialect = "mongodb" THEN "mysql" ELSE dialect) \in Dialect \ {"mongodb"}
      BY <2>1, <2>2 DEF TypeOK, Dialect
    <3>2. AnalysedRight(text, IF dialect = "mongodb" THEN "mysql" ELSE dialect)
      <4>1. Analysable(text, IF dialect = "mongodb" THEN "mysql" ELSE dialect)
        BY <3>1
      <4>2. text \in Seq(STRING)
        BY <3>1, Bounds
      <4>3. QED
        BY <4>1, <4>2, AnalysisIsRight
    <3>3. PICK o \in theirs : Dml = Rule(o)
      BY DEF Dml, Rule
    <3>4. o \in {own, pooled}
      OBVIOUS
    <3> HIDE DEF theirs
    <3>5. /\ Refused => Forbids(o)
          /\ /\ Forbids(o)
             /\ Words(Read, "where") = TopWords(Read, "where") /\ Words(Read, "replace") = {}
             => Refused
      BY <2>1, <2>2, <3>2, <3>3, <3>4, RefusalIsRight
    <3>6. QED
      BY <1>2, <2>2, <3>3, <3>5 DEF Obeyed
  <2>3. QED
    BY <2>1, <2>2 DEF GuardsHold
<1>3. QED
  BY <1>1, <1>2, InitEstablishes, NextPreserves, NextObeys, PTL DEF Spec

=============================================================================
