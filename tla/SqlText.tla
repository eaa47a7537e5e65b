------------------------------ MODULE SqlText ------------------------------
(***************************************************************************)
(* The analysis of SQL text (src/src/core/sql): which parts of a statement *)
(* are code, its type, whether it has a WHERE or a paging clause, how many *)
(* rows it inserts.                                                        *)
(*                                                                         *)
(* A text is a sequence of tokens. A punctuation mark or white space is a  *)
(* character; a word is one token, and the expressions of the source ask   *)
(* for whole words (but for the end of VALUES).                            *)
(***************************************************************************)
EXTENDS Integers, Sequences, FiniteSets

Quotes == {"single", "double", "tick"}
White == {"blank", "newline"}
Marks == Quotes \cup White \cup {"backslash", "-", "#", "/", "*", "(", ")", ","}

(* s[i], or "" beyond the ends. *)
At(s, i) == IF i \in DOMAIN s THEN s[i] ELSE ""
IsWhite(t) == t \in White \cup {""}
IsWord(t) == t \notin Marks \cup {""}

LeastOf(S, default) ==
    IF S = {} THEN default ELSE CHOOSE i \in S : \A j \in S : i <= j

-----------------------------------------------------------------------------
(* stripSqlForSearch. *)

(* What the loop keeps from one character to the next; kept: the last one  *)
(* was copied and not replaced by a blank; skip: i++ has taken this one.   *)
Outside == [mode |-> "code", escape |-> FALSE, skip |-> FALSE, kept |-> TRUE]
In(mode, two) == [mode |-> mode, escape |-> FALSE, skip |-> two, kept |-> FALSE]
Escaping(mode) == [mode |-> mode, escape |-> TRUE, skip |-> FALSE, kept |-> FALSE]

InComment(s, i, st) ==
    CASE st.mode = "line" /\ s[i] = "newline" -> Outside
      [] st.mode = "block" /\ s[i] = "*" /\ At(s, i + 1) = "/" -> In("code", TRUE)
      [] OTHER -> In(st.mode, FALSE)

(* Bug: the second backslash of a pair escapes what follows it. *)
BugInQuotes(s, i, st) ==
    CASE s[i] = st.mode /\ ~st.escape -> In("code", FALSE)
      [] st.mode # "tick" /\ s[i] = "backslash" -> Escaping(st.mode)
      [] OTHER -> In(st.mode, FALSE)

(* A backslash escapes in single and double quotes, not in backticks. *)
InQuotes(s, i, st) ==
    CASE s[i] = st.mode /\ ~st.escape -> In("code", FALSE)
      [] st.mode # "tick" /\ s[i] = "backslash" /\ ~st.escape -> Escaping(st.mode)
      [] OTHER -> In(st.mode, FALSE)

InCode(s, i) ==
    CASE s[i] = "-" /\ At(s, i + 1) = "-" /\ IsWhite(At(s, i - 1)) /\ IsWhite(At(s, i + 2)) ->
           In("line", TRUE)
      [] s[i] = "#" -> In("line", FALSE)
      [] s[i] = "/" /\ At(s, i + 1) = "*" -> In("block", TRUE)
      [] s[i] \in Quotes -> In(s[i], FALSE)
      [] OTHER -> Outside

Step(s, i, st) ==
    CASE st.skip -> In(st.mode, FALSE)
      [] ~st.skip /\ st.mode = "code" -> InCode(s, i)
      [] ~st.skip /\ st.mode \in {"line", "block"} -> InComment(s, i, st)
      [] OTHER -> InQuotes(s, i, st)

Blank(t) == IF t = "newline" THEN t ELSE "blank"

Stripped(s) ==
    LET scan[i \in 0 .. Len(s)] == IF i = 0 THEN Outside ELSE Step(s, i, scan[i - 1])
    IN  [i \in DOMAIN s |-> IF scan[i].kept THEN s[i] ELSE Blank(s[i])]

-----------------------------------------------------------------------------
(* The functions on top of it; p is a stripped text. *)

(* The words of p that match \bw\b. *)
Words(p, w) == {i \in DOMAIN p : p[i] = w /\ ~IsWord(At(p, i - 1)) /\ ~IsWord(At(p, i + 1))}

TypeOfWord(w) ==
    CASE w \in {"select", "with"} -> "SELECT"
      [] w \in {"insert", "replace"} -> "INSERT"
      [] w = "update" -> "UPDATE"
      [] w = "delete" -> "DELETE"
      [] w \in {"create", "alter", "drop", "truncate", "rename"} -> "DDL"
      [] w \in {"begin", "commit", "rollback", "start", "savepoint"} -> "TRANSACTION"
      [] OTHER -> "OTHER"

DetectStatementType(s) ==
    LET p     == Stripped(s)
        first == LeastOf({i \in DOMAIN p : ~IsWhite(p[i])}, 0)
    IN  CASE ~IsWord(At(p, first)) -> "UNKNOWN"
          [] IsWord(At(p, first)) /\ first \in Words(p, p[first]) -> TypeOfWord(p[first])
          [] OTHER -> "OTHER"

IsDml(type) == type \in {"INSERT", "UPDATE", "DELETE"}

(* Bug: the WHERE is looked for in the text as it is. *)
BugHasDmlWhere(s) ==
    DetectStatementType(s) \in {"UPDATE", "DELETE"} /\ Words(s, "where") # {}

HasDmlWhere(s) ==
    DetectStatementType(s) \in {"UPDATE", "DELETE"} /\ Words(Stripped(s), "where") # {}

HasPaginationClause(s) ==
    LET p == Stripped(s) IN Words(p, "limit") \cup Words(p, "offset") # {}

(* The first VALUES after the first INSERT, or the end of p.               *)
ValuesOf(p) ==
    LET insert == LeastOf(Words(p, "insert"), Len(p))
    IN  LeastOf({i \in DOMAIN p : p[i] = "values" /\ ~IsWord(At(p, i - 1)) /\ i > insert}, Len(p))

(* The next token after i that is no white space. *)
Follower(p, i) == At(p, LeastOf({j \in DOMAIN p : j > i /\ ~IsWhite(p[j])}, 0))

(* The loop over the tokens after VALUES: it is out of a group, in a group *)
(* of parentheses, or has ended after one that no comma follows.           *)
CountStep(p, i, c) ==
    CASE c.at # "over" /\ p[i] = "(" ->
           [depth |-> c.depth + 1, at |-> "in", groups |-> IF c.at = "in" THEN c.groups ELSE c.groups + 1]
      [] c.at # "over" /\ p[i] = ")" ->
           [depth |-> c.depth - 1, groups |-> c.groups,
            at |-> IF c.depth # 1 THEN c.at ELSE IF Follower(p, i) = "," THEN "out" ELSE "over"]
      [] OTHER -> c

CountInsertValueRows(s) ==
    LET p == Stripped(s)
        count[i \in ValuesOf(p) .. Len(p)] ==
            IF i = ValuesOf(p) THEN [depth |-> 0, at |-> "out", groups |-> 0]
            ELSE CountStep(p, i, count[i - 1])
    IN  count[Len(p)].groups

-----------------------------------------------------------------------------
(* How a database reads a text (external), from the start of one lexical   *)
(* element to the start of the next. In MySQL a backslash escapes and #    *)
(* starts a comment; elsewhere -- does so whatever comes after it.         *)

Escaped(s, i, j) ==
    LET run == {k \in i + 1 .. j - 1 : \A m \in k .. j - 1 : s[m] = "backslash"}
    IN  s[i] # "tick" /\ (j - LeastOf(run, j)) % 2 = 1

StartsLine(s, i, d) ==
    \/ d = "mysql" /\ s[i] = "#"
    \/ s[i] = "-" /\ At(s, i + 1) = "-" /\ (d = "mysql" => IsWhite(At(s, i + 2)))

StartsBlock(s, i) == s[i] = "/" /\ At(s, i + 1) = "*"

LastOf(s, i, d) ==
    CASE s[i] \in Quotes ->
           LeastOf({j \in i + 1 .. Len(s) : s[j] = s[i] /\ ~(d = "mysql" /\ Escaped(s, i, j))}, Len(s))
      [] StartsLine(s, i, d) -> LeastOf({j \in i + 1 .. Len(s) : s[j] = "newline"}, Len(s))
      [] StartsBlock(s, i) -> LeastOf({j \in i + 3 .. Len(s) : s[j - 1] = "*" /\ s[j] = "/"}, Len(s))
      [] OTHER -> i

IsCode(s, i, d) == s[i] \notin Quotes /\ ~StartsLine(s, i, d) /\ ~StartsBlock(s, i)

ReadBy(s, d) ==
    LET starts[i \in 1 .. Len(s) + 1] ==
            IF i > Len(s) THEN {} ELSE {i} \cup starts[LastOf(s, i, d) + 1]
        code == {i \in starts[1] : IsCode(s, i, d)}
    IN  [i \in DOMAIN s |-> IF i \in code THEN s[i] ELSE Blank(s[i])]

(* Texts that mean the same to the scanner, which knows one syntax, and to *)
(* database d: two dashes stand apart, and without MySQL there are no      *)
(* backslashes, no # and no comments in comments.                          *)
Portable(s, d) ==
    /\ \A i \in DOMAIN s : s[i] = "-" /\ At(s, i + 1) = "-" =>
          IsWhite(At(s, i - 1)) /\ (d = "mysql" \/ IsWhite(At(s, i + 2)))
    /\ d = "mysql" \/ \A i \in DOMAIN s : s[i] \notin {"backslash", "#"}
    /\ d # "postgresql" \/ \A i, j \in DOMAIN s :
          s[i] # "tick" /\ (StartsBlock(s, i) /\ StartsBlock(s, j) => i = j)

(* The words w of a read text r that belong to the statement itself and    *)
(* not to a part in parentheses.                                           *)
Depth(r, i) ==
    Cardinality({j \in 1 .. i : r[j] = "("}) - Cardinality({j \in 1 .. i : r[j] = ")"})
TopWords(r, w) == {i \in Words(r, w) : Depth(r, i) = 0}

(* The rows of an INSERT or REPLACE: the groups between VALUES and the     *)
(* next word of the statement.                                             *)
TopValues(r) == LeastOf(TopWords(r, "values"), Len(r))
NextWord(r) == LeastOf({i \in TopValues(r) + 1 .. Len(r) : IsWord(r[i]) /\ Depth(r, i) = 0}, Len(r) + 1)
RowStarts(r) == {i \in DOMAIN r : TopValues(r) < i /\ i < NextWord(r) /\ r[i] = "(" /\ Depth(r, i) = 1}
RowsOf(r) == Cardinality(RowStarts(r))

(* Texts whose rows are where countInsertValueRows looks for them: the     *)
(* first VALUES after INSERT is that of the statement, parentheses match,  *)
(* no word comes between VALUES and its rows, and a comma follows a row    *)
(* exactly if there is another one.                                        *)
RowsInOrder(r) ==
    /\ TopValues(r) = ValuesOf(r)
    /\ \A i \in DOMAIN r : Depth(r, i) >= 0
    /\ NextWord(r) <= Len(r) => RowStarts(r) # {}
    /\ \A i \in DOMAIN r :
          TopValues(r) < i /\ i < NextWord(r) /\ r[i] = ")" /\ Depth(r, i) = 0 =>
             (Follower(r, i) = "," <=> \E j \in RowStarts(r) : j > i)

=============================================================================
