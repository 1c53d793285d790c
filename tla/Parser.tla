------------------------------- MODULE Parser -------------------------------
(***************************************************************************)
(* The recursive-descent parser (sql/parser.go, sql/parse_value.go,        *)
(* sql/expr.go, sql/parse_stmt.go; parseTuple is in sql/planner.go).       *)
(*                                                                         *)
(* A statement is a sequence of units: a word (keyword, name), a number, a *)
(* quoted string, or one punctuation character, so that "<=" is two units  *)
(* and can be mistaken for "<".  Spaces, upper and lower case, and the     *)
(* characters inside words, numbers and strings are left out.              *)
(***************************************************************************)
EXTENDS Expr

CONSTANTS Words,    \* the words that can be names; keywords can
          Numbers,  \* the value of every unit that is a number
          Strings   \* the bytes of every unit that is a quoted string

\* What was parsed, and the position behind it.
Fail == [ok |-> FALSE, out |-> NoCond, pos |-> 0]
Got(out, pos) == [ok |-> TRUE, out |-> out, pos |-> pos]

\* The statements.
StmtSelect(table, cols, cond) == [kind |-> "select", table |-> table, cols |-> cols, cond |-> cond]
StmtCreatTable(table, cols, pkey) == [kind |-> "create", table |-> table, cols |-> cols, pkey |-> pkey]
StmtInsert(table, value) == [kind |-> "insert", table |-> table, value |-> value]
StmtUpdate(table, value, cond) == [kind |-> "update", table |-> table, value |-> value, cond |-> cond]
StmtDelete(table, cond) == [kind |-> "delete", table |-> table, cond |-> cond]

Positions(u) == 1..(Len(u) + 1)
Unit(u, i) == IF i \in DOMAIN u THEN u[i] ELSE "end of input"

\* tryKeyword, tryPunctuation: the units t are next.
Looking(u, i, t) == \A j \in DOMAIN t : Unit(u, i + j - 1) = t[j]

\* parseInt: a sign must be directly followed by digits, and ParseInt refuses
\* what is outside int64.
ParseInt(u, i) ==
    LET signed == Unit(u, i) \in {"+", "-"}
        at == IF signed THEN i + 1 ELSE i
        n == IF Unit(u, i) = "-" THEN -Numbers[Unit(u, at)] ELSE Numbers[Unit(u, at)]
    IN  IF Unit(u, at) \in DOMAIN Numbers /\ n \in Int64
        THEN Got(IntCell(n), at + 1) ELSE Fail

ParseValue(u, i) ==
    IF Unit(u, i) \in DOMAIN Strings THEN Got(StrCell(Strings[u[i]]), i + 1) ELSE ParseInt(u, i)

\* commaList: items are parsed until no comma follows; item is what an item
\* parses to at each position.
CommaList(u, i, item) ==
    LET list[j \in Positions(u)] ==
            LET first == item[j]
            IN  IF ~first.ok THEN Fail
                ELSE IF Unit(u, first.pos) # "," THEN Got(<<first.out>>, first.pos)
                ELSE LET more == list[first.pos + 1]
                     IN  IF more.ok THEN Got(<<first.out>> \o more.out, more.pos) ELSE Fail
    IN  list[i]

\* `( item, item ... )` from position i on.
Parenthesised(u, i, item) ==
    LET list == CommaList(u, i + 1, item)
    IN  IF Unit(u, i) = "(" /\ list.ok /\ Unit(u, list.pos) = ")"
        THEN Got(list.out, list.pos + 1) ELSE Fail
-----------------------------------------------------------------------------
\* The precedence ladder, lowest binding first.
OrLevel == 1    AndLevel == 2    NotLevel == 3    CmpLevel == 4
AddLevel == 5   MulLevel == 6    NegLevel == 7    AtomLevel == 8
BinaryLevels == {OrLevel, AndLevel, CmpLevel, AddLevel, MulLevel}

Token(units, op) == [units |-> units, op |-> op]

\* The operators of a level, in the order they are tried.
BinTokens(level) ==
    CASE level = OrLevel -> <<Token(<<"OR">>, "OR")>>
      [] level = AndLevel -> <<Token(<<"AND">>, "AND")>>
      [] level = CmpLevel -> << Token(<<"<", "=">>, "<="), Token(<<">", "=">>, ">="),
                                Token(<<"<", ">">>, "!="), Token(<<"!", "=">>, "!="),
                                Token(<<"=">>, "="),
                                Token(<<"<">>, "<"), Token(<<">">>, ">") >>
      [] level = AddLevel -> <<Token(<<"+">>, "+"), Token(<<"-">>, "-")>>
      [] level = MulLevel -> <<Token(<<"*">>, "*"), Token(<<"/">>, "/")>>

\* Faulty: the tokens are tried in the opposite order, "<" before "<=".
MatchedLast(u, i, level) == SelectLastInSeq(BinTokens(level), LAMBDA t : Looking(u, i, t.units))

\* The first token of a level that is next, 0 if none is.
Matched(u, i, level) == SelectInSeq(BinTokens(level), LAMBDA t : Looking(u, i, t.units))

RECURSIVE Parse(_, _, _), ParseBinop(_, _, _)

\* The loop of parseBinop, with what has been parsed so far.
ParseBinop(u, left, level) ==
    LET m == Matched(u, left.pos, level)
        token == BinTokens(level)[m]
        right == Parse(u, left.pos + Len(token.units), level + 1)
    IN  IF ~left.ok \/ m = 0 THEN left
        ELSE IF ~right.ok THEN Fail
        ELSE ParseBinop(u, Got(BinOp(token.op, left.out, right.out), right.pos), level)

ParseUnary(u, i, level, op) ==
    LET kid == Parse(u, i + 1, level)
    IN  IF kid.ok THEN Got(UnOp(op, kid.out), kid.pos) ELSE Fail

ParseTuple(u, i) ==
    LET kids == Parenthesised(u, i, [j \in Positions(u) |-> Parse(u, j, OrLevel)])
    IN  IF ~kids.ok THEN Fail
        ELSE Got(IF Len(kids.out) = 1 THEN kids.out[1] ELSE Tuple(kids.out), kids.pos)

ParseAtom(u, i) ==
    IF Unit(u, i) = "(" THEN ParseTuple(u, i)
    ELSE IF Unit(u, i) \in Words THEN Got(ColumnRef(u[i]), i + 1)
    ELSE LET value == ParseValue(u, i)
         IN  IF value.ok THEN Got(Const(value.out), value.pos) ELSE Fail

Parse(u, i, level) ==
    CASE level \in BinaryLevels -> ParseBinop(u, Parse(u, i, level + 1), level)
      [] level = NotLevel /\ Unit(u, i) = "NOT" -> ParseUnary(u, i, level, "NOT")
      [] level = NegLevel /\ Unit(u, i) = "-" -> ParseUnary(u, i, level, "NEG")
      [] level = AtomLevel -> ParseAtom(u, i)
      [] OTHER -> Parse(u, i, level + 1)

ParseExpr(u, i) == Parse(u, i, OrLevel)
-----------------------------------------------------------------------------
ParseName(u, i) == IF Unit(u, i) \in Words THEN Got(u[i], i + 1) ELSE Fail

\* An optional WHERE that ends a statement without one, s.
ParseWhere(u, i, s) ==
    LET cond == ParseExpr(u, i + 1)
    IN  IF Unit(u, i) # "WHERE" THEN Got(s, i)
        ELSE IF cond.ok THEN Got([s EXCEPT !.cond = cond.out], cond.pos) ELSE Fail

\* The loop of parseSelect: it looks for FROM before every column, and for a
\* comma before every column but the first.
ParseSelect(u, i) ==
    LET cols[j \in Positions(u)] ==
            LET from == IF j > i THEN j + 1 ELSE j
                expr == ParseExpr(u, from)
                more == cols[expr.pos]
            IN  IF Unit(u, j) = "FROM" THEN Got(<<>>, j + 1)
                ELSE IF (j > i /\ Unit(u, j) # ",") \/ ~expr.ok \/ ~more.ok THEN Fail
                ELSE Got(<<expr.out>> \o more.out, more.pos)
        name == ParseName(u, cols[i].pos)
    IN  IF ~cols[i].ok \/ cols[i].out = <<>> \/ ~name.ok THEN Fail
        ELSE ParseWhere(u, name.pos, StmtSelect(name.out, cols[i].out, NoCond))

\* An element of CREATE TABLE: a column, or the names of the primary key.
ParseColumn(u, i) ==
    LET key == Parenthesised(u, i + 2, [j \in Positions(u) |-> ParseName(u, j)])
        type == Unit(u, i + 1)
    IN  IF Looking(u, i, <<"PRIMARY", "KEY">>)
        THEN IF key.ok THEN Got([cols |-> <<>>, pkey |-> key.out], key.pos) ELSE Fail
        ELSE IF Unit(u, i) \in Words /\ type \in {"INT64", "STRING"}
        THEN Got([cols |-> <<[name |-> u[i], type |-> IF type = "INT64" THEN TypeI64 ELSE TypeStr]>>,
                  pkey |-> <<>>], i + 2)
        ELSE Fail

ParseCreateTable(u, i) ==
    LET name == ParseName(u, i)
        list == Parenthesised(u, name.pos, [j \in Positions(u) |-> ParseColumn(u, j)])
        cols == FlattenSeq([j \in DOMAIN list.out |-> list.out[j].cols])
        pkey == FlattenSeq([j \in DOMAIN list.out |-> list.out[j].pkey])
    IN  IF ~name.ok \/ ~list.ok \/ cols = <<>> \/ pkey = <<>> THEN Fail
        ELSE Got(StmtCreatTable(name.out, cols, pkey), list.pos)

ParseInsert(u, i) ==
    LET name == ParseName(u, i)
        list == Parenthesised(u, name.pos + 1, [j \in Positions(u) |-> ParseValue(u, j)])
    IN  IF ~name.ok \/ Unit(u, name.pos) # "VALUES" \/ ~list.ok THEN Fail
        ELSE Got(StmtInsert(name.out, list.out), list.pos)

ParseAssign(u, i) ==
    LET expr == ParseExpr(u, i + 2)
    IN  IF Unit(u, i) \in Words /\ Unit(u, i + 1) = "=" /\ expr.ok
        THEN Got([column |-> u[i], expr |-> expr.out], expr.pos) ELSE Fail

ParseUpdate(u, i) ==
    LET name == ParseName(u, i)
        list == CommaList(u, name.pos + 1, [j \in Positions(u) |-> ParseAssign(u, j)])
    IN  IF ~name.ok \/ Unit(u, name.pos) # "SET" \/ ~list.ok THEN Fail
        ELSE ParseWhere(u, list.pos, StmtUpdate(name.out, list.out, NoCond))

ParseDelete(u, i) ==
    LET name == ParseName(u, i)
    IN  IF name.ok
        THEN ParseWhere(u, name.pos, StmtDelete(name.out, NoCond)) ELSE Fail

ParseBody(u) ==
    CASE Looking(u, 1, <<"SELECT">>) -> ParseSelect(u, 2)
      [] Looking(u, 1, <<"CREATE", "TABLE">>) -> ParseCreateTable(u, 3)
      [] Looking(u, 1, <<"INSERT", "INTO">>) -> ParseInsert(u, 3)
      [] Looking(u, 1, <<"UPDATE">>) -> ParseUpdate(u, 2)
      [] Looking(u, 1, <<"DELETE", "FROM">>) -> ParseDelete(u, 3)
      [] OTHER -> Fail

\* atEnd: nothing may follow but one semicolon.
ParseStmt(u) ==
    LET s == ParseBody(u)
    IN  IF s.ok /\ (s.pos > Len(u) \/ (s.pos = Len(u) /\ u[s.pos] = ";")) THEN s ELSE Fail
=============================================================================
