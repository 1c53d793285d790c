------------------------------ MODULE Writing -------------------------------
(***************************************************************************)
(* How statements are written: what Parser.tla has to undo.                *)
(***************************************************************************)
EXTENDS Parser

Commas(texts) ==
    FlattenSeq([i \in DOMAIN texts |-> IF i = 1 THEN texts[i] ELSE <<",">> \o texts[i]])
Parens(text) == <<"(">> \o text \o <<")">>
Names(names) == Parens(Commas([i \in DOMAIN names |-> <<names[i]>>]))

Literal(cell) ==
    LET digits == CHOOSE w \in DOMAIN Numbers : Numbers[w] \in {cell.i64, -cell.i64}
    IN  IF cell.type = TypeStr THEN <<CHOOSE w \in DOMAIN Strings : Strings[w] = cell.str>>
        ELSE IF cell.i64 < 0 THEN <<"-", digits>> ELSE <<digits>>

\* How tightly a tree binds.
Binding(expr) ==
    LET levels == << {"OR"}, {"AND"}, {"NOT"}, Comparisons, {"+", "-"}, {"*", "/"}, {"NEG"} >>
    IN  IF expr.node \in {"bin", "un"} THEN CHOOSE l \in DOMAIN levels : expr.op \in levels[l] ELSE 8

Spelling(op) ==
    CASE op = "<=" -> <<"<", "=">> [] op = ">=" -> <<">", "=">> [] op = "!=" -> <<"<", ">">>
      [] op = "NEG" -> <<"-">> [] OTHER -> <<op>>

\* A tree where only trees that bind at least that tightly need no parentheses.
RECURSIVE Written(_, _)
Written(expr, binding) ==
    LET b == Binding(expr)
        text == CASE expr.node = "col" -> <<expr.name>>
                  [] expr.node = "const" -> Literal(expr.cell)
                  [] expr.node = "bin" -> Written(expr.left, b) \o Spelling(expr.op) \o Written(expr.right, b + 1)
                  [] expr.node = "un" -> Spelling(expr.op) \o Written(expr.kid, b)
                  [] expr.node = "tuple" -> Parens(Commas([i \in DOMAIN expr.kids |-> Written(expr.kids[i], 1)]))
    IN  IF b < binding THEN Parens(text) ELSE text

List(exprs) == Commas([i \in DOMAIN exprs |-> Written(exprs[i], 1)])
Where(cond) == IF cond = NoCond THEN <<>> ELSE <<"WHERE">> \o Written(cond, 1)

Text(s) ==
    CASE s.kind = "select" -> <<"SELECT">> \o List(s.cols) \o <<"FROM", s.table>> \o Where(s.cond)
      [] s.kind = "insert" -> <<"INSERT", "INTO", s.table, "VALUES">>
                              \o Parens(Commas([i \in DOMAIN s.value |-> Literal(s.value[i])]))
      [] s.kind = "update" -> <<"UPDATE", s.table, "SET">>
                              \o Commas([i \in DOMAIN s.value |->
                                            <<s.value[i].column, "=">> \o Written(s.value[i].expr, 1)])
                              \o Where(s.cond)
      [] s.kind = "delete" -> <<"DELETE", "FROM", s.table>> \o Where(s.cond)
      [] s.kind = "create" ->
            <<"CREATE", "TABLE", s.table>>
            \o Parens(Commas([i \in DOMAIN s.cols |->
                                 <<s.cols[i].name, IF s.cols[i].type = TypeI64 THEN "INT64" ELSE "STRING">>])
                      \o <<",", "PRIMARY", "KEY">> \o Names(s.pkey))

\* A text without what a tree may be written without.
Bare(text) == SelectSeq(text, LAMBDA unit : unit \notin {"(", ")", "+", ";"})
=============================================================================
