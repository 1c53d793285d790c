------------------------------- MODULE MCSQL --------------------------------
(***************************************************************************)
(* Tables and statements for TLC.                                          *)
(***************************************************************************)
EXTENDS SQL

TableNames == [t |-> <<4>>, tt |-> <<4, 4>>, u |-> <<4, 3>>]
MCWords == {"a", "b", "c", "d", "t", "tt", "u", "FROM", "WHERE", "AND", "NOT", "SET", "VALUES"}
MCStrings == [x \in {"''", "'a'", "'0'", "'1'", "'f'", "'a0'"} |->
                 CASE x = "''" -> <<>> [] x = "'a'" -> <<4>> [] x = "'0'" -> <<0>>
                   [] x = "'1'" -> <<1>> [] x = "'f'" -> <<5>> [] x = "'a0'" -> <<4, 0>>]

a == ColumnRef("a")
b == ColumnRef("b")
c == ColumnRef("c")
N(n) == Const(IntCell(n))
S(x) == Const(StrCell(x))
Column(name, type) == [name |-> name, type |-> type]
Set(column, expr) == [column |-> column, expr |-> expr]

TextsOf(statements) == {Text(s) : s \in statements}
Without(text, i) == SubSeq(text, 1, i - 1) \o SubSeq(text, i + 1, Len(text))
-----------------------------------------------------------------------------
\* Queries: one table whose key is a number and a string.  An int64 has two
\* bytes here.

QueryNumbers == [x \in {"0", "1", "2", "6", "17", "18"} |->
                    CASE x = "0" -> 0 [] x = "1" -> 1 [] x = "2" -> 2
                      [] x = "6" -> 6 [] x = "17" -> 17 [] x = "18" -> 18]

QueryRows == { <<IntCell(2), StrCell(<<4, 0>>), IntCell(-18)>>, <<IntCell(0), StrCell(<<5>>), IntCell(-1)>>,
               <<IntCell(6), StrCell(<<0>>), IntCell(1)>>,
               <<IntCell(-2), StrCell(<<4>>), IntCell(1)>> }

Pair(x, y) == Tuple(<<x, y>>)
Bounds == {BinOp(op, a, N(n)) : op \in Comparisons, n \in {0, 1}}
          \union {BinOp(op, Pair(a, b), Pair(N(1), S(x))) : op \in Comparisons, x \in {<<>>, <<0>>, <<4>>}}
Conditions ==
    Bounds
    \union {BinOp("AND", BinOp("=", a, N(1)), BinOp("=", b, S(x))) : x \in {<<>>, <<0>>, <<5>>}}
    \union {BinOp("AND", BinOp(lo, a, N(0)), BinOp(hi, a, N(6))) : lo \in {">", ">="}, hi \in {"<", "<="}}
    \union { BinOp("AND", BinOp("=", b, S(<<4>>)), BinOp("=", a, N(1))),
             BinOp("AND", BinOp("<=", Pair(a, b), Pair(N(6), S(<<4, 0>>))), BinOp(">", a, N(1))),
             BinOp("AND", BinOp("=", a, N(1)), BinOp(">", b, S(<<>>))),
             BinOp("OR", BinOp("=", a, N(1)), BinOp("=", a, N(6))),
             BinOp("<", Pair(b, a), Pair(S(<<4>>), N(1))),
             BinOp("<", a, UnOp("NEG", N(1))), BinOp("<", N(1), a), BinOp("=", b, S(<<4>>)) }

\* Trees of two operators, for the precedence ladder.
Operators == {"OR", "AND", "=", "<=", "<", "-", "*", "/"}
Trees ==
    {BinOp(op, BinOp(inner, a, N(1)), b) : op \in Operators, inner \in Operators}
    \union {BinOp(op, a, BinOp(inner, N(1), b)) : op \in Operators, inner \in Operators}
    \union {UnOp(un, BinOp(op, a, N(1))) : un \in {"NOT", "NEG"}, op \in Operators}
    \union {BinOp(op, UnOp(un, a), N(1)) : un \in {"NOT", "NEG"}, op \in Operators}
    \union {BinOp(op, a, UnOp(un, N(1))) : un \in {"NOT", "NEG"}, op \in Operators}
    \union {UnOp(un, UnOp(op, a)) : un \in {"NOT", "NEG"}, op \in {"NOT", "NEG"}}

QueryTable == StmtCreatTable("t", <<Column("c", TypeI64), Column("b", TypeStr), Column("a", TypeI64)>>, <<"a", "b">>)
Outputs == << a, b, BinOp("-", BinOp("*", c, N(2)), a),
              BinOp("OR", BinOp("=", c, N(0)), BinOp(">", BinOp("/", N(6), c), N(1))) >>

Queries ==
    {QueryTable}
    \union {StmtInsert("t", row) : row \in QueryRows}
    \union {StmtSelect("t", <<a, b>>, cond) : cond \in Conditions}
    \union { StmtSelect("t", Outputs, NoCond), StmtSelect("t", <<BinOp("/", a, c), ColumnRef("u")>>, NoCond),
             StmtSelect("t", <<BinOp("/", N(1), c)>>, NoCond) }

\* Statements about a table that is not there, and texts with one unit of
\* theirs missing or one too many.
Whole ==
    { StmtSelect("u", Outputs, BinOp("AND", BinOp("=", a, N(1)), BinOp("<=", b, S(<<4>>)))),
      StmtUpdate("u", <<Set("c", BinOp("+", c, N(1))), Set("b", S(<<0>>))>>, BinOp("!=", a, N(1))),
      StmtInsert("u", <<IntCell(-18), StrCell(<<>>)>>),
      StmtDelete("u", BinOp(">", Pair(a, b), Pair(N(1), S(<<>>)))),
      [QueryTable EXCEPT !.table = "u", !.pkey = <<"d">>] }
Broken ==
    LET whole == TextsOf(Whole)
    IN  (UNION {{Without(w, i) : i \in DOMAIN w} : w \in whole})
        \union {w \o <<unit>> : w \in whole, unit \in {";", "a", "1", ")"}}
        \union {w \o <<";", ";">> : w \in whole}

QueryCanonical == TextsOf(Queries \union Whole \union {StmtSelect("u", <<tree>>, NoCond) : tree \in Trees})
QueryTexts == QueryCanonical \union Broken

Strings2 == UNION {[1..n -> 0..ByteMax] : n \in 0..2}
QueryKeys == {<<IntCell(n), StrCell(x)>> : n \in {-18, -7, -6, -1, 0, 1, 5, 6, 17}, x \in Strings2}

\* Two bounds on one side.
SameSide == BinOp("AND", BinOp(">", a, N(1)), BinOp(">", a, N(0)))
BoundsTexts == TextsOf({QueryTable, StmtSelect("t", <<a>>, SameSide)} \union {StmtInsert("t", r) : r \in QueryRows})
-----------------------------------------------------------------------------
\* Statements that write, in two tables one of whose names begins the other.
\* An int64 has one byte.

EngineNumbers == [x \in {"0", "1", "2", "3"} |->
                     CASE x = "0" -> 0 [] x = "1" -> 1 [] x = "2" -> 2 [] x = "3" -> 3]

EngineCols == <<Column("a", TypeI64), Column("b", TypeI64), Column("c", TypeI64)>>
Statements ==
    { StmtCreatTable("t", EngineCols, <<"a">>), StmtCreatTable("t", EngineCols, <<"b", "a">>),
      StmtCreatTable("t", EngineCols, <<"u">>), StmtCreatTable("tt", <<Column("a", TypeStr)>>, <<"a">>),
      StmtInsert("t", <<IntCell(-3), IntCell(1), IntCell(0)>>),
      StmtInsert("t", <<IntCell(1), IntCell(0), IntCell(2)>>),
      StmtInsert("t", <<IntCell(1)>>), StmtInsert("tt", <<StrCell(<<4>>)>>),
      StmtUpdate("t", <<Set("b", c), Set("c", b)>>, NoCond),
      StmtUpdate("t", <<Set("c", BinOp("/", N(2), b))>>, NoCond),
      StmtUpdate("t", <<Set("c", N(2)), Set("c", S(<<4>>))>>, NoCond),
      StmtUpdate("t", <<Set("a", N(1))>>, NoCond),
      StmtDelete("t", NoCond),
      StmtSelect("t", <<a, BinOp("/", N(1), c)>>, NoCond), StmtSelect("tt", <<a>>, NoCond) }

EngineTexts == TextsOf(Statements)
-----------------------------------------------------------------------------
\* What the proofs suppose of the evaluation, for some rows of these tables.

SampleCells(type) ==
    IF type = TypeI64 THEN {IntCell(n) : n \in {-Half, -1, 0, 1, Half - 1}} ELSE {StrCell(<<>>), StrCell(<<0>>)}
SampleRows(schema) ==
    {row \in [DOMAIN schema.cols -> SampleCells(TypeI64) \union SampleCells(TypeStr)] :
        \A i \in DOMAIN row : row[i].type = schema.cols[i].type}

ASSUME EvaluationSample ==
    \A text \in Texts :
        Parsed(text).ok /\ Parsed(text).out.kind = "update" =>
            \A schema \in {SchemaOf(QueryTable), SchemaOf(StmtCreatTable("t", EngineCols, <<"a">>))} :
                \A row \in SampleRows(schema) : Evaluates(Parsed(text).out, schema, row)
=============================================================================
