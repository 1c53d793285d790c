------------------------------ MODULE Planner ------------------------------
(***************************************************************************)
(* The access path for a WHERE expression: everything, one key, or a range *)
(* over the first columns of the primary key (sql/planner.go,              *)
(* sql/match.go).  A range request is [startCmp, start, stopCmp, stop].    *)
(***************************************************************************)
EXTENDS Expr

FullScan == [startCmp |-> ">=", start |-> <<>>, stopCmp |-> "<=", stop |-> <<>>]
NoRange == [startCmp |-> "unimplemented", start |-> <<>>, stopCmp |-> "unimplemented", stop |-> <<>>]

\* The (column, value) pairs of `col = const AND ...`, none if it is not that.
RECURSIVE MatchAllEq(_)
MatchAllEq(cond) ==
    IF cond.node # "bin" THEN <<>>
    ELSE IF cond.op = "AND" THEN
        LET left == MatchAllEq(cond.left)
            right == MatchAllEq(cond.right)
        IN  IF left = <<>> \/ right = <<>> THEN <<>> ELSE left \o right
    ELSE IF cond.op = "=" /\ cond.left.node = "col" /\ cond.right.node = "const"
         THEN <<[column |-> cond.left.name, value |-> cond.right.cell]>>
         ELSE <<>>

\* The name of the i-th primary-key column, and a constant given its type.
KeyName(schema, i) == schema.cols[schema.pkey[i]].name
Retyped(schema, i, cell) == [cell EXCEPT !.type = schema.cols[schema.pkey[i]].type]

\* The full primary key, none if the pairs are not exactly that.
ExtractPKey(schema, pairs) ==
    LET At(i) == {j \in DOMAIN pairs : pairs[j].column = KeyName(schema, i)}
    IN  IF Len(pairs) # Len(schema.pkey) \/ \E i \in DOMAIN schema.pkey : At(i) = {} THEN <<>>
        ELSE [i \in DOMAIN schema.pkey |->
                 Retyped(schema, i, pairs[CHOOSE j \in At(i) : \A k \in At(i) : j <= k].value)]

\* The two sides of a comparison as sequences, if they are columns and
\* constants, one each or two tuples of the same length.
DestructureCmp(left, right) ==
    IF left.node = "tuple" /\ right.node = "tuple" /\ Len(left.kids) = Len(right.kids)
    THEN [cols |-> left.kids, vals |-> right.kids]
    ELSE [cols |-> <<left>>, vals |-> <<right>>]

IsPKeyPrefix(schema, cols) ==
    /\ Len(cols) \in 1..Len(schema.pkey)
    /\ \A i \in DOMAIN cols : cols[i] = ColumnRef(KeyName(schema, i))

\* A comparison that is a bound, and its retyped constants.
IsBound(schema, cond) ==
    /\ cond.node = "bin" /\ cond.op \in {"<", "<=", ">", ">="}
    /\ LET d == DestructureCmp(cond.left, cond.right)
       IN  IsPKeyPrefix(schema, d.cols) /\ \A i \in DOMAIN d.vals : d.vals[i].node = "const"

TypedPrefix(schema, cond) ==
    LET vals == DestructureCmp(cond.left, cond.right).vals
    IN  [i \in DOMAIN vals |-> Retyped(schema, i, vals[i].cell)]

\* matchRange's apply: a bound replaces the one on its side.
Apply(schema, req, cond) ==
    IF cond.op \in {">", ">="}
    THEN [req EXCEPT !.startCmp = cond.op, !.start = TypedPrefix(schema, cond)]
    ELSE [req EXCEPT !.stopCmp = cond.op, !.stop = TypedPrefix(schema, cond)]

MatchRange(schema, cond) ==
    IF IsBound(schema, cond) THEN Apply(schema, FullScan, cond)
    ELSE IF cond.node = "bin" /\ cond.op = "AND" /\ IsBound(schema, cond.left) /\ IsBound(schema, cond.right)
         THEN Apply(schema, Apply(schema, FullScan, cond.left), cond.right)
         ELSE NoRange

MakeRange(schema, cond) ==
    LET pkey == ExtractPKey(schema, MatchAllEq(cond))
    IN  IF cond = NoCond THEN FullScan
        ELSE IF pkey # <<>> THEN [FullScan EXCEPT !.start = pkey, !.stop = pkey]
        ELSE MatchRange(schema, cond)

\* Faulty: both inclusive comparisons are padded alike.
SuffixPositiveInclusive(op) == op \in {">=", "<="}

\* Whether a bound is padded with +infinity.
SuffixPositive(op) == op \in {">", "<="}

\* The keys a request lies between.
StartKey(schema, req) == EncodeKeyPrefix(schema, req.start, SuffixPositive(req.startCmp))
StopKey(schema, req) == EncodeKeyPrefix(schema, req.stop, SuffixPositive(req.stopCmp))

KeyRange(schema, cond) ==
    LET req == MakeRange(schema, cond)
    IN  [ok |-> req # NoRange, start |-> StartKey(schema, req), stop |-> StopKey(schema, req)]
=============================================================================
