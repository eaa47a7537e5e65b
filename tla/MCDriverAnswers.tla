--------------------------- MODULE MCDriverAnswers ---------------------------
(* Bounds for model checking DriverAnswers. *)
EXTENDS DriverAnswers, TLC
CONSTANTS t1, t2

b == "blank"
q == "single"
MCAlphabet == (Marks \ {"(", ")", ","}) \cup {"where"}
MCTable == {t1, t2}
MCOptions == {[where |-> TRUE, max |-> 1, returning |-> FALSE],
              [where |-> FALSE, max |-> 2, returning |-> TRUE]}

Update == <<"update", b, "t", b, "set", b, "x">>
Delete == <<"delete", b, "from", b, "t">>
Values == <<"into", b, "t", b, "values", b>>
Insert == <<"insert", b>> \o Values
Select == <<"select", b, "x">>
Row == <<"(", "x", ")">>
Deep == <<"(", "(", "x", ")", ",", q, "(", q, ")">>
Where == <<b, "where", b, "x">>
Literal(word) == <<b, q, word, q>>
InBrackets(words) == <<"(", "select">> \o words \o <<")">>

MCStatements ==
    {Update \o Where, Update \o Literal("where"), Update \o InBrackets(Where),
     Update \o <<b, "/", "*">> \o Where \o <<"*", "/">>,
     Delete, Delete \o Where, Delete \o Where \o <<b, "returning", b, "x">>,
     Insert \o Row, Insert \o Row \o <<",", b>> \o Deep, Insert \o Deep,
     Insert \o Row \o <<b, "on", b, "duplicate", b, "x", b, "values">> \o Row,
     Insert \o <<"(", q, "returning", q, ")">>,
     <<"replace", b>> \o Values \o Row \o <<",">> \o Row,
     Select, Select \o <<b, "limit", b, "1">>, Select \o Literal("limit"),
     Select \o InBrackets(<<b, "limit", b, "1">>),
     <<"create", b, "x">>, <<"grant", b, "x">>}

(* Whether the hypothesis of the theorem about the guards holds for the    *)
(* statements that are sent here.                                          *)
ASSUME StatementsAreAnalysed ==
    \A s \in MCStatements, d \in Dialect \ {"mongodb"} : Analysable(s, d)

=============================================================================
