------------------------------ MODULE KeyCodec ------------------------------
(***************************************************************************)
(* Cells, schemas and rows, and the bytes they are stored as               *)
(* (table/cell.go, table/schema.go).  The engine sorts rows by comparing   *)
(* these bytes and never decodes a key to do it.                           *)
(*                                                                         *)
(* A byte has ByteMax + 1 values and an int64 is IntBytes of them, so that *)
(* TLC can reach both ends of every range.  The 4-byte length in front of  *)
(* a stored string is a single byte.                                       *)
(***************************************************************************)
EXTENDS Integers, Sequences, SequencesExt

CONSTANTS ByteMax,    \* the byte 0xff
          IntBytes,   \* the bytes of an int64
          NameBytes   \* the bytes of every table name

Base == ByteMax + 1
Width == Base ^ IntBytes
Half == Width \div 2

\* 0x00, 0x01 and 0x02 are escapes and type tags, names have other bytes, and
\* half of the unsigned range has the sign bit set.  (What a power is, the
\* provers do not know.)
ASSUME CodecAssumption ==
    /\ ByteMax \in Nat /\ ByteMax > 2 /\ IntBytes \in Nat \ {0} /\ Base % 2 = 0
    /\ Base ^ 0 = 1 /\ \A n \in 1..IntBytes : Base ^ n = Base * Base ^ (n - 1)
    /\ \A t \in DOMAIN NameBytes : NameBytes[t] \in Seq(3..(ByteMax - 1))

TypeI64 == 1
TypeStr == 2

Cell(type, i64, str) == [type |-> type, i64 |-> i64, str |-> str]
IntCell(n) == Cell(TypeI64, n, <<>>)
StrCell(s) == Cell(TypeStr, 0, s)
\* What a call that fails returns in place of a cell.
ErrCell == Cell(0, 0, <<>>)

Int64 == (-Half)..(Half - 1)
Cells == [type : {TypeI64, TypeStr}, i64 : Int64, str : Seq(0..ByteMax)]

\* An int64 wraps around.
Wrapped(n) == ((n + Half) % Width) - Half

Digits(u) == [i \in 1..IntBytes |-> (u \div Base ^ (IntBytes - i)) % Base]
Number(digits) == FoldLeft(LAMBDA u, d : u * Base + d, 0, digits)
-----------------------------------------------------------------------------
\* Keys: big-endian with the sign bit flipped; strings escaped and terminated.

\* Faulty: the sign bit stays.
EncodeKeyUnflipped(cell) ==
    IF cell.type = TypeI64 THEN Digits(cell.i64 % Width) ELSE Append(cell.str, 0)

EncodeKey(cell) ==
    IF cell.type = TypeI64
    THEN Digits(cell.i64 + Half)
    ELSE FlattenSeq([i \in DOMAIN cell.str |->
             IF cell.str[i] \in {0, 1} THEN <<1, cell.str[i] + 1>> ELSE <<cell.str[i]>>]) \o <<0>>

\* A decoded cell and the bytes behind it, or an error.
Failed == [ok |-> FALSE, cell |-> ErrCell, rest |-> <<>>]
Decoded(cell, rest) == [ok |-> TRUE, cell |-> cell, rest |-> rest]

DecodeStrKey(data) ==
    LET Grow(ch, d) == [d EXCEPT !.cell.str = <<ch>> \o @]
        from[i \in 1..(Len(data) + 1)] ==
            IF i > Len(data) THEN Failed
            ELSE IF data[i] = 0 THEN Decoded(StrCell(<<>>), SubSeq(data, i + 1, Len(data)))
            ELSE IF data[i] # 1 THEN Grow(data[i], from[i + 1])
            ELSE IF i = Len(data) \/ data[i + 1] \notin {1, 2} THEN Failed
            ELSE Grow(data[i + 1] - 1, from[i + 2])
    IN  from[1]

DecodeKey(type, data) ==
    IF type = TypeStr THEN DecodeStrKey(data)
    ELSE IF Len(data) < IntBytes THEN Failed
    ELSE Decoded(IntCell(Number(SubSeq(data, 1, IntBytes)) - Half),
                 SubSeq(data, IntBytes + 1, Len(data)))

\* Values: little-endian; a string behind its length.
EncodeVal(cell) ==
    IF cell.type = TypeI64 THEN Reverse(Digits(cell.i64 % Width))
                           ELSE <<Len(cell.str)>> \o cell.str

DecodeVal(type, data) ==
    LET from == IF type = TypeI64 THEN 1 ELSE 2
        to == IF type = TypeI64 THEN IntBytes
              ELSE IF data = <<>> THEN 1 ELSE 1 + data[1]
        body == SubSeq(data, from, to)
    IN  IF to > Len(data) THEN Failed
        ELSE Decoded(IF type = TypeI64 THEN IntCell(Wrapped(Number(Reverse(body)))) ELSE StrCell(body),
                     SubSeq(data, to + 1, Len(data)))
-----------------------------------------------------------------------------
\* A schema is [table, cols, pkey]: a name, columns [name, type], and the
\* positions of the primary-key columns.

ColIndex(schema, name) ==
    LET found == {i \in DOMAIN schema.cols : schema.cols[i].name = name}
    IN  IF found = {} THEN 0 ELSE CHOOSE i \in found : \A j \in found : i <= j

IsPKey(schema, i) == i \in ToSet(schema.pkey)

\* Faulty: a name is not terminated.
TablePrefixBare(schema) == NameBytes[schema.table]

TablePrefix(schema) == Append(NameBytes[schema.table], 0)

Tagged(cells) == FlattenSeq([i \in DOMAIN cells |-> <<cells[i].type>> \o EncodeKey(cells[i])])

KeyCells(schema, row) == [i \in DOMAIN schema.pkey |-> row[schema.pkey[i]]]

RowKey(schema, row) == TablePrefix(schema) \o Tagged(KeyCells(schema, row)) \o <<0>>

EncodeKeyPrefix(schema, cells, positive) ==
    TablePrefix(schema) \o Tagged(cells) \o IF positive THEN <<ByteMax>> ELSE <<>>

RowVal(schema, row) ==
    FlattenSeq([i \in DOMAIN schema.cols |-> IF IsPKey(schema, i) THEN <<>> ELSE EncodeVal(row[i])])

NewRow(schema) == [i \in DOMAIN schema.cols |-> ErrCell]

\* One round of the loops that fill a row from bytes.  In a key a type tag is
\* skipped before each cell, in a value there are no cells of the key.
FillCell(schema, inKey, acc, i) ==
    LET type == schema.cols[i].type
        d == IF inKey THEN DecodeKey(type, Tail(acc.rest)) ELSE DecodeVal(type, acc.rest)
    IN  IF ~inKey /\ IsPKey(schema, i) THEN acc
        ELSE IF ~acc.ok \/ (inKey /\ acc.rest = <<>>) \/ ~d.ok
        THEN [acc EXCEPT !.ok = FALSE]
        ELSE [ok |-> TRUE, row |-> [acc.row EXCEPT ![i] = d.cell], rest |-> d.rest]

\* Fills the given columns, one after the other.
Fill(schema, row, columns, data, inKey) ==
    FoldLeft(LAMBDA acc, i : FillCell(schema, inKey, acc, i),
             [ok |-> TRUE, row |-> row, rest |-> data], columns)

\* DecodeKey's ErrOutOfRange: the key is not one of this table.
InTable(schema, key) == IsPrefix(TablePrefix(schema), key)

DecodeRow(schema, key, val) ==
    LET body == SubSeq(key, Len(TablePrefix(schema)) + 1, Len(key))
        keyed == Fill(schema, NewRow(schema), schema.pkey, body, TRUE)
    IN  IF keyed.ok THEN Fill(schema, keyed.row, [i \in DOMAIN schema.cols |-> i], val, FALSE)
        ELSE keyed
-----------------------------------------------------------------------------
\* bytes.Compare
BytesLess(a, b) ==
    \/ IsStrictPrefix(a, b)
    \/ \E i \in DOMAIN a \cap DOMAIN b : a[i] < b[i] /\ \A j \in 1..(i - 1) : a[j] = b[j]

CellLess(a, b) == IF a.type = TypeStr THEN BytesLess(a.str, b.str) ELSE a.i64 < b.i64

\* A cell has both fields; its type says which one counts.
SameCell(a, b) == IF a.type = TypeStr THEN a.str = b.str ELSE a.i64 = b.i64

\* The order of tuples: by the first cell that differs.
TupleLess(a, b) ==
    \E i \in DOMAIN a \cap DOMAIN b :
        CellLess(a[i], b[i]) /\ \A j \in 1..(i - 1) : SameCell(a[j], b[j])
=============================================================================
