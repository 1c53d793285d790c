-------------------------------- MODULE SQL ---------------------------------
(***************************************************************************)
(* The whole SQL layer: the engine with the real parser, planner and       *)
(* evaluation (a configuration gives Parsed, Planned, Evaluated and        *)
(* ColumnsKnown the operators ParseStmt, KeyRange, EvalExpr and            *)
(* CheckExprCols), and what it promises, stated without reference to keys, *)
(* ranges, bytes or the way a statement is parsed.                         *)
(***************************************************************************)
EXTENDS Engine, Planner, Writing

CONSTANT Canonical \* the texts that are statements as Writing.tla writes them

\* What runs is what was written: a text that denotes a statement is parsed to
\* the one it denotes, whatever the precedence and the tokens that begin alike,
\* and nothing of an accepted text is ignored (ParseStmt, parse_stmt.go:11;
\* parseBinop, expr.go:76).
ParsesBack ==
    job.pc # "idle" =>
        /\ job.text \in Canonical => job.stmt # NoStmt /\ Text(job.stmt) = job.text
        /\ job.stmt # NoStmt => Bare(Text(job.stmt)) = Bare(job.text)
-----------------------------------------------------------------------------
\* What a condition says of a row.
RECURSIVE Holds(_, _, _)
Holds(schema, row, cond) ==
    LET CellsOf(t) == [i \in DOMAIN t.kids |-> EvalExpr(schema, row, t.kids[i])]
        left == CellsOf(cond.left)
        right == CellsOf(cond.right)
    IN  IF cond = NoCond THEN TRUE
        ELSE IF cond.node = "bin" /\ cond.op = "AND"
             THEN Holds(schema, row, cond.left) /\ Holds(schema, row, cond.right)
        ELSE IF cond.node = "bin" /\ cond.op \in Comparisons
                /\ cond.left.node = "tuple" /\ cond.right.node = "tuple"
             THEN CASE cond.op = "<" -> TupleLess(left, right)
                    [] cond.op = "<=" -> ~TupleLess(right, left)
                    [] cond.op = ">" -> TupleLess(right, left)
                    [] cond.op = ">=" -> ~TupleLess(left, right)
                    [] cond.op = "=" -> left = right
                    [] cond.op = "!=" -> left # right
        ELSE Truthy(EvalExpr(schema, row, cond))

\* The rows of a table in the order of their keys, and the ones selected.
RowsOf(map, schema) ==
    SetToSortSeq({DecodeRow(schema, k, map[k].bytes).row : k \in {k \in DOMAIN map : InTable(schema, k)}},
                 LAMBDA r, s : TupleLess(KeyCells(schema, r), KeyCells(schema, s)))

Known == job.stmt # NoStmt /\ CatalogKey(job.stmt.table) \in DOMAIN before
Schema == before[CatalogKey(job.stmt.table)].schema
Selected == SelectSeq(RowsOf(before, Schema), LAMBDA r : Holds(Schema, r, job.stmt.cond))

RECURSIVE Conjuncts(_)
Conjuncts(cond) ==
    IF cond.node = "bin" /\ cond.op = "AND" THEN Conjuncts(cond.left) \union Conjuncts(cond.right)
    ELSE IF cond = NoCond THEN {} ELSE {cond}

\* The constants have the types of the columns they are compared with: the
\* planner gives them these types without looking (planner.go:119).
WellTyped(cond) ==
    \A c \in Conjuncts(cond) :
        c.node = "bin" /\ c.op \in Comparisons =>
            LET d == DestructureCmp(c.left, c.right)
            IN  \A i \in DOMAIN d.cols :
                    d.cols[i].node = "col" /\ d.vals[i].node = "const" /\ ColIndex(Schema, d.cols[i].name) # 0
                        => Schema.cols[ColIndex(Schema, d.cols[i].name)].type = d.vals[i].cell.type

\* No two bounds on one side (planner.go:180).
OneBoundPerSide(cond) ==
    \A side \in {{"<", "<="}, {">", ">="}} :
        \A c, d \in {c \in Conjuncts(cond) : c.node = "bin" /\ c.op \in side} : c = d

\* A statement whose answer and effect are those of its text: the condition is
\* in a form the planner handles right, and no error was dropped.
Plain == ~swallowed /\ Known /\ (job.stmt.kind \in {"select", "update", "delete"} =>
                                     WellTyped(job.stmt.cond) /\ OneBoundPerSide(job.stmt.cond))

Answers ==
    LET selected == Selected
    IN  answer.values = [i \in DOMAIN selected |-> Projected(Schema, job.stmt.cols, selected[i])]

\* SELECT returns, for the rows its condition holds for and no others, in the
\* order of their keys as tuples, the values of its expressions: the range of
\* byte keys the planner makes is the condition (planner.go:204), next to other
\* tables of the same store.
AnswersMatch == answer.ok /\ Plain /\ job.stmt.kind = "select" => Answers

\* The same without the exception for two bounds on one side, as planner.go:220
\* says it of any WHERE that is accepted.
SelectsWhatItSays ==
    answer.ok /\ ~swallowed /\ Known /\ job.stmt.kind = "select" /\ WellTyped(job.stmt.cond) => Answers
-----------------------------------------------------------------------------
\* The changes a statement makes, in order.
Effects ==
    LET stmt == job.stmt
        selected == Selected
        Typed(value) == [i \in DOMAIN value |-> [value[i] EXCEPT !.type = Schema.cols[i].type]]
        Change(old, new) == [key |-> RowKey(Schema, old), val |-> RowBytes(RowVal(Schema, new))]
        Latest(c) == CHOOSE i \in DOMAIN stmt.value :
                       /\ stmt.value[i].column = c
                       /\ \A j \in DOMAIN stmt.value : stmt.value[j].column = c => j <= i
        Updated(row) ==
            [c \in DOMAIN row |->
                IF \E i \in DOMAIN stmt.value : stmt.value[i].column = Schema.cols[c].name
                THEN EvalExpr(Schema, row, stmt.value[Latest(Schema.cols[c].name)].expr)
                ELSE row[c]]
    IN  CASE stmt.kind = "create" /\ ~Known -> <<[key |-> CatalogKey(stmt.table), val |-> Json(SchemaOf(stmt))]>>
          [] stmt.kind = "insert" /\ Known /\ Len(stmt.value) = Len(Schema.cols)
                /\ RowKey(Schema, Typed(stmt.value)) \notin DOMAIN before
             -> <<Change(Typed(stmt.value), Typed(stmt.value))>>
          [] stmt.kind = "update" /\ Known -> [i \in DOMAIN selected |-> Change(selected[i], Updated(selected[i]))]
          [] stmt.kind = "delete" /\ Known ->
                [i \in DOMAIN selected |-> [key |-> RowKey(Schema, selected[i]), val |-> Deleted]]
          [] OTHER -> <<>>

\* A statement that writes has changed the rows it selected, in key order, up
\* to the one it is at and nothing else: all of them and their number when it
\* succeeds, and a DELETE that stops on an error reports how far it came
\* (engine.go:243, engine.go:278).
StatementEffect ==
    job.stmt # NoStmt /\ ~swallowed /\ (Known => Plain) =>
        LET effects == Effects
        IN  \E m \in 0..Len(effects) :
            /\ kv = Changed(before, {effects[i] : i \in 1..m})
            /\ answer.ok => m = Len(effects) /\ (job.stmt.kind \in {"insert", "update", "delete"} => answer.n = m)
            /\ answer.given /\ job.stmt.kind = "delete" => answer.n = m
=============================================================================
