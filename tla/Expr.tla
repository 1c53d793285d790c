-------------------------------- MODULE Expr --------------------------------
(***************************************************************************)
(* Expression trees and their values for a row (sql/expr.go, sql/eval.go). *)
(***************************************************************************)
EXTENDS KeyCodec

\* The nodes of a tree.
ColumnRef(name) == [node |-> "col", name |-> name]
Const(cell) == [node |-> "const", cell |-> cell]
BinOp(op, left, right) == [node |-> "bin", op |-> op, left |-> left, right |-> right]
UnOp(op, kid) == [node |-> "un", op |-> op, kid |-> kid]
Tuple(kids) == [node |-> "tuple", kids |-> kids]
\* A statement without WHERE.
NoCond == [node |-> "nil"]

Arithmetic == {"+", "-", "*", "/"}
Comparisons == {"=", "!=", "<=", ">=", "<", ">"}

BoolCell(b) == IntCell(IF b THEN 1 ELSE 0)
Truthy(cell) == IF cell.type = TypeStr THEN cell.str # <<>> ELSE cell.i64 # 0

\* Integer division truncates towards zero.
Quotient(a, b) ==
    LET Abs(n) == IF n < 0 THEN -n ELSE n
        q == Abs(a) \div Abs(b)
    IN  IF (a < 0) = (b < 0) THEN q ELSE -q

EvalBinOp(op, a, b) ==
    IF op \in Arithmetic THEN
        IF a.type # TypeI64 \/ b.type # TypeI64 \/ (op = "/" /\ b.i64 = 0) THEN ErrCell
        ELSE IntCell(Wrapped(CASE op = "+" -> a.i64 + b.i64
                               [] op = "-" -> a.i64 - b.i64
                               [] op = "*" -> a.i64 * b.i64
                               [] op = "/" -> Quotient(a.i64, b.i64)))
    ELSE IF op \in Comparisons THEN
        IF a.type # b.type THEN ErrCell
        ELSE BoolCell(CASE op = "=" -> ~CellLess(a, b) /\ ~CellLess(b, a)
                        [] op = "!=" -> CellLess(a, b) \/ CellLess(b, a)
                        [] op = "<" -> CellLess(a, b)
                        [] op = "<=" -> ~CellLess(b, a)
                        [] op = ">" -> CellLess(b, a)
                        [] op = ">=" -> ~CellLess(a, b))
    ELSE BoolCell(IF op = "AND" THEN Truthy(a) /\ Truthy(b) ELSE Truthy(a) \/ Truthy(b))

RECURSIVE EvalExpr(_, _, _)
EvalExpr(schema, row, expr) ==
    CASE expr.node = "col" ->
            LET i == ColIndex(schema, expr.name) IN IF i = 0 THEN ErrCell ELSE row[i]
      [] expr.node = "const" -> expr.cell
      [] expr.node = "bin" ->
            LET left == EvalExpr(schema, row, expr.left)
                right == EvalExpr(schema, row, expr.right)
            IN  IF left = ErrCell THEN ErrCell
                ELSE IF expr.op = "AND" /\ ~Truthy(left) THEN BoolCell(FALSE)
                ELSE IF expr.op = "OR" /\ Truthy(left) THEN BoolCell(TRUE)
                ELSE IF right = ErrCell THEN ErrCell
                ELSE EvalBinOp(expr.op, left, right)
      [] expr.node = "un" ->
            LET kid == EvalExpr(schema, row, expr.kid)
            IN  IF kid = ErrCell \/ (expr.op = "NEG" /\ kid.type # TypeI64) THEN ErrCell
                ELSE IF expr.op = "NOT" THEN BoolCell(~Truthy(kid))
                ELSE IntCell(Wrapped(-kid.i64))
      [] OTHER -> ErrCell

\* checkExprCols: every column the tree names is in the schema; a tuple is not
\* looked into.
RECURSIVE CheckExprCols(_, _)
CheckExprCols(schema, expr) ==
    CASE expr.node = "col" -> ColIndex(schema, expr.name) # 0
      [] expr.node = "bin" -> CheckExprCols(schema, expr.left) /\ CheckExprCols(schema, expr.right)
      [] expr.node = "un" -> CheckExprCols(schema, expr.kid)
      [] OTHER -> TRUE
=============================================================================
