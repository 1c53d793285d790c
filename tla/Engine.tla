------------------------------- MODULE Engine -------------------------------
(***************************************************************************)
(* The SQL engine (sql/engine.go) on the table layer (table/db.go,         *)
(* table/rowiter.go): statements as sequences of calls of the key/value    *)
(* store, with the catalog in the same store and a cache of it.            *)
(*                                                                         *)
(* The store is what DurableMap promises, in one step per write: a failed  *)
(* write is not seen, and may be there after the next restart.  The        *)
(* parser, the planner and the evaluation of expressions are parameters;   *)
(* SQL.tla gives them their values.                                        *)
(***************************************************************************)
EXTENDS KeyCodec, FiniteSets

CONSTANTS Texts,              \* the statements a client may send
          Parsed(_),          \* ParseStmt: [ok, out]
          Planned(_, _),      \* a schema and a condition to keys: [ok, start, stop]
          Evaluated(_, _, _), \* evalExpr: a schema, a row, an expression to a cell
          ColumnsKnown(_, _), \* checkExprCols: a schema, an expression
          AtSign,             \* the byte "@schema_" begins with
          Faults,             \* of "crash", "readerr", "writeerr"
          KeyTuples,          \* primary keys a new row is compared with, for KeyOrder
          MaxMaybe            \* bound: failed writes a restart may bring back

\* The types of the statements as far as they reach what is stored.
Statement(s) ==
    /\ s.table \in DOMAIN NameBytes
    /\ s.kind \in {"create", "insert", "select", "update", "delete"}
    /\ s.kind = "create" => /\ s.cols \in Seq([name : STRING, type : {TypeI64, TypeStr}])
                            /\ s.pkey \in Seq(STRING)
    /\ s.kind = "insert" => s.value \in Seq(Cells)
    /\ s.kind = "update" => Len(s.value) \in Nat /\ DOMAIN s.value = 1..Len(s.value)

ASSUME CatalogAssumption ==
    /\ \A t, u \in DOMAIN NameBytes : NameBytes[t] = NameBytes[u] => t = u
    /\ AtSign \in 3..(ByteMax - 1) /\ \A t \in DOMAIN NameBytes : NameBytes[t] # <<>> /\ NameBytes[t][1] # AtSign
    /\ \A text \in Texts : Parsed(text).ok => Statement(Parsed(text).out)
    /\ Faults \subseteq {"crash", "readerr", "writeerr"} /\ MaxMaybe \in Nat
    /\ \A tuple \in KeyTuples : tuple \in Seq(Cells)

VARIABLES up,        \* the database is open
          kv,        \* what the store holds: keys to values
          maybe,     \* the failed writes, as changes [key, val]
          tables,    \* e.tables: the cached schemas
          job,       \* the statement that runs, and how far it has come
          answer,    \* what it returned
          before,    \* what the store held when it began, for the properties
          swallowed  \* an error was dropped on the way, for the properties

vars == <<up, kv, maybe, tables, job, answer, before, swallowed>>

NoSchema == [table |-> "", cols |-> <<>>, pkey |-> <<>>]
NoTables == [t \in {} |-> NoSchema]
End == <<>>

\* Values: an encoded row, a schema as JSON, or the mark of a deletion.
RowBytes(bytes) == [tag |-> "row", bytes |-> bytes, schema |-> NoSchema]
Json(schema) == [tag |-> "json", bytes |-> <<>>, schema |-> schema]
Deleted == [tag |-> "deleted", bytes |-> <<>>, schema |-> NoSchema]

CatalogKey(name) == <<AtSign>> \o NameBytes[name]

NoStmt == [kind |-> "none"]
Idle == [pc |-> "idle", text |-> <<>>, stmt |-> NoStmt, schema |-> NoSchema,
         at |-> End, stop |-> End, valid |-> FALSE, row |-> <<>>,
         rows |-> <<>>, n |-> 0, count |-> 0]

NoAnswer == [given |-> FALSE, ok |-> FALSE, n |-> 0, values |-> <<>>]
Success(n, values) == [given |-> TRUE, ok |-> TRUE, n |-> n, values |-> values]
Error(n) == [given |-> TRUE, ok |-> FALSE, n |-> n, values |-> <<>>]

\* A map after some changes, at most one for a key.
Changed(map, changes) ==
    LET keys == {c.key : c \in changes}
        ValOf(k) == (CHOOSE c \in changes : c.key = k).val
    IN  [k \in {k \in DOMAIN map \union keys : k \in keys => ValOf(k) # Deleted} |->
            IF k \in keys THEN ValOf(k) ELSE map[k]]

Least(keys) == IF keys = {} THEN End ELSE CHOOSE k \in keys : \A j \in keys : ~BytesLess(j, k)
-----------------------------------------------------------------------------
Init ==
    /\ up = FALSE
    /\ kv = [k \in {} |-> Deleted] /\ maybe = {} /\ before = kv
    /\ tables = NoTables
    /\ job = Idle /\ answer = NoAnswer
    /\ swallowed = FALSE

\* Engine.Open
Open ==
    /\ ~up
    /\ up' = TRUE
    /\ tables' = NoTables
    /\ UNCHANGED <<kv, maybe, job, answer, before, swallowed>>

\* The store is left; some of the failed writes are found by the next Open.
Leave ==
    /\ \E won \in SUBSET maybe :
          /\ \A c, d \in won : c.key = d.key => c = d
          /\ kv' = Changed(kv, won)
    /\ before' = kv' /\ maybe' = {}
    /\ up' = FALSE /\ job' = Idle /\ answer' = NoAnswer
    /\ UNCHANGED swallowed

Close == up /\ job.pc = "idle" /\ Leave /\ UNCHANGED tables

Crash == "crash" \in Faults /\ up /\ Leave /\ tables' = NoTables

\* Faulty: a deletion is stored like a value.
PutTombstone(key, val) ==
    /\ kv' = [k \in DOMAIN kv \union {key} |-> IF k = key THEN val ELSE kv[k]]
    /\ maybe' = {c \in maybe : c.key # key}

\* The outcomes of a write of the store.
Put(key, val) ==
    /\ kv' = Changed(kv, {[key |-> key, val |-> val]})
    /\ maybe' = {c \in maybe : c.key # key}

PutFails(key, val) ==
    /\ "writeerr" \in Faults /\ Cardinality(maybe) < MaxMaybe
    /\ maybe' = maybe \union {[key |-> key, val |-> val]}
    /\ UNCHANGED kv

\* A read of the store may fail; one dropped error is enough.
ReadMayFail == "readerr" \in Faults /\ ~swallowed

Reply(a) == job' = [job EXCEPT !.pc = "done"] /\ answer' = a

Refuse == Reply(Error(0)) /\ UNCHANGED <<kv, maybe, tables, swallowed>>

Running(pc) == up /\ job.pc = pc
-----------------------------------------------------------------------------
\* Engine.Exec
Exec(text) ==
    /\ Running("idle")
    /\ LET s == Parsed(text)
       IN  /\ job' = [Idle EXCEPT !.text = text, !.stmt = IF s.ok THEN s.out ELSE NoStmt,
                                  !.pc = IF ~s.ok THEN "done"
                                         ELSE IF s.out.kind = "create" THEN "create" ELSE "schema"]
           /\ answer' = IF s.ok THEN NoAnswer ELSE Error(0)
    /\ UNCHANGED <<up, kv, maybe, tables, before, swallowed>>

\* The caller has its answer.
TakeAnswer ==
    /\ Running("done")
    /\ job' = Idle /\ answer' = NoAnswer /\ before' = kv
    /\ UNCHANGED <<up, kv, maybe, tables, swallowed>>

\* The positions of the key columns, 0 for one that is not a column.
SchemaOf(stmt) ==
    LET schema == [table |-> stmt.table, cols |-> stmt.cols, pkey |-> <<>>]
    IN  [schema EXCEPT !.pkey = [i \in DOMAIN stmt.pkey |-> ColIndex(schema, stmt.pkey[i])]]

\* Faulty: the cache is filled before the write is known to succeed.
CreateCachesFirst ==
    LET schema == SchemaOf(job.stmt)
        key == CatalogKey(job.stmt.table)
    IN  /\ Running("create")
        /\ key \notin DOMAIN kv /\ 0 \notin ToSet(schema.pkey)
        /\ tables' = Changed(tables, {[key |-> job.stmt.table, val |-> schema]})
        /\ \/ Put(key, Json(schema)) /\ Reply(Success(0, <<>>))
           \/ PutFails(key, Json(schema)) /\ Reply(Error(0))
        /\ UNCHANGED <<up, before, swallowed>>

\* execCreateTable.  A failed read counts as "does not exist".
CreateTable ==
    LET schema == SchemaOf(job.stmt)
        key == CatalogKey(job.stmt.table)
    IN  /\ Running("create")
        /\ \/ /\ key \in DOMAIN kv \/ 0 \in ToSet(schema.pkey)
              /\ Refuse
           \/ /\ key \in DOMAIN kv => ReadMayFail
              /\ 0 \notin ToSet(schema.pkey)
              /\ \/ /\ Put(key, Json(schema)) /\ Reply(Success(0, <<>>))
                    /\ tables' = Changed(tables, {[key |-> job.stmt.table, val |-> schema]})
                 \/ /\ PutFails(key, Json(schema)) /\ Reply(Error(0))
                    /\ UNCHANGED tables
              /\ swallowed' = (swallowed \/ key \in DOMAIN kv)
        /\ UNCHANGED <<up, before>>

\* GetSchema, for every other statement.
GetSchema ==
    LET name == job.stmt.table
        key == CatalogKey(name)
        schema == IF name \in DOMAIN tables THEN tables[name] ELSE kv[key].schema
    IN  /\ Running("schema")
        /\ IF name \in DOMAIN tables \/ key \in DOMAIN kv
           THEN /\ job' = [job EXCEPT !.schema = schema,
                                      !.pc = IF job.stmt.kind = "insert" THEN "insert" ELSE "plan"]
                /\ tables' = Changed(tables, {[key |-> name, val |-> schema]})
                /\ UNCHANGED <<kv, maybe, answer, swallowed>>
           ELSE Refuse
        /\ UNCHANGED <<up, before>>

\* execInsert and DB.Insert.  A value takes the type of its column.
Insert ==
    LET schema == job.schema
        value == job.stmt.value
        row == [i \in DOMAIN value |-> [value[i] EXCEPT !.type = schema.cols[i].type]]
        key == RowKey(schema, row)
        val == RowBytes(RowVal(schema, row))
    IN  /\ Running("insert")
        /\ IF Len(value) # Len(schema.cols) THEN Refuse
           ELSE IF key \in DOMAIN kv THEN Refuse
           ELSE /\ \/ Put(key, val) /\ Reply(Success(1, <<>>))
                   \/ PutFails(key, val) /\ Reply(Error(0))
                /\ UNCHANGED <<tables, swallowed>>
        /\ UNCHANGED <<up, before>>
-----------------------------------------------------------------------------
\* RowIterator.decode: the row at a key, unless the range or the table ended.
Landing(schema, at, stop) ==
    LET d == DecodeRow(schema, at, kv[at].bytes)
    IN  IF at = End \/ BytesLess(stop, at) \/ ~InTable(schema, at)
        THEN [ok |-> TRUE, valid |-> FALSE, row |-> <<>>]
        ELSE [ok |-> d.ok, valid |-> d.ok, row |-> d.row]

AtRow(j, at, landing) == [j EXCEPT !.at = at, !.valid = landing.valid, !.row = landing.row]

\* The checks of execSelect and execUpdate before anything is read.
Checked(schema, stmt) ==
    CASE stmt.kind = "select" -> \A i \in DOMAIN stmt.cols : ColumnsKnown(schema, stmt.cols[i])
      [] stmt.kind = "update" -> \A i \in DOMAIN stmt.value :
                                     LET c == ColIndex(schema, stmt.value[i].column)
                                     IN  c # 0 /\ ~IsPKey(schema, c)
      [] OTHER -> TRUE

\* execCond: the range is made and its first row is read.
ExecCond ==
    LET plan == Planned(job.schema, job.stmt.cond)
        at == Least({k \in DOMAIN kv : ~BytesLess(k, plan.start)})
        landing == Landing(job.schema, at, plan.stop)
    IN  /\ Running("plan")
        /\ IF ~Checked(job.schema, job.stmt) \/ ~plan.ok THEN Refuse
           ELSE IF ~landing.ok THEN Refuse
           ELSE /\ job' = AtRow([job EXCEPT !.pc = "scan", !.stop = plan.stop], at, landing)
                /\ UNCHANGED <<kv, maybe, tables, answer, swallowed>>
        /\ UNCHANGED <<up, before>>

\* projectRow
Projected(schema, cols, row) == [i \in DOMAIN cols |-> Evaluated(schema, row, cols[i])]

\* One round of the loops of execSelect and matchingRows.  The error of Next
\* is ignored: a row that does not decode ends the loop; after an I/O error
\* the row stays, and the cursor may or may not have moved.
ScanRow ==
    LET next == Least({k \in DOMAIN kv : BytesLess(job.at, k)})
        landing == Landing(job.schema, next, job.stop)
        taken == [job EXCEPT !.rows = Append(@, job.row)]
    IN  /\ Running("scan") /\ job.valid
        /\ IF job.stmt.kind = "select" /\ ErrCell \in ToSet(Projected(job.schema, job.stmt.cols, job.row))
           THEN Refuse
           ELSE /\ \/ /\ job' = AtRow(taken, next, landing)
                      /\ swallowed' = (swallowed \/ ~landing.ok)
                   \/ /\ ReadMayFail
                      /\ \E at \in {job.at, next} : job' = [taken EXCEPT !.at = at]
                      /\ swallowed' = TRUE
                /\ UNCHANGED <<kv, maybe, tables, answer>>
        /\ UNCHANGED <<up, before>>

ScanDone ==
    /\ Running("scan") /\ ~job.valid
    /\ IF job.stmt.kind = "select"
       THEN Reply(Success(0, [i \in DOMAIN job.rows |-> Projected(job.schema, job.stmt.cols, job.rows[i])]))
       ELSE job' = [job EXCEPT !.pc = "write"] /\ UNCHANGED answer
    /\ UNCHANGED <<up, kv, maybe, tables, before, swallowed>>
-----------------------------------------------------------------------------
\* The row with the assignments set applied, the last one of a column winning.
WithValues(schema, row, set, cells) ==
    LET Of(c) == {i \in DOMAIN set : ColIndex(schema, set[i].column) = c}
    IN  [c \in DOMAIN row |->
            IF Of(c) = {} THEN row[c] ELSE cells[CHOOSE i \in Of(c) : \A j \in Of(c) : j <= i]]

\* Faulty: an assignment sees the ones before it.
NewValuesCascading(schema, row, set) ==
    LET assign(r, i) == WithValues(schema, r, <<set[i]>>, <<Evaluated(schema, r, set[i].expr)>>)
        final == FoldLeft(assign, row, [i \in DOMAIN set |-> i])
    IN  [i \in DOMAIN set |-> final[ColIndex(schema, set[i].column)]]

\* Every right-hand side is evaluated against the old row.
NewValues(schema, row, set) == [i \in DOMAIN set |-> Evaluated(schema, row, set[i].expr)]

\* One round of the loop of execUpdate, with DB.Update.  Rows that were read
\* twice share their cells.
UpdateRow ==
    LET schema == job.schema
        set == job.stmt.value
        row == job.rows[job.n + 1]
        cells == NewValues(schema, row, set)
        new == WithValues(schema, row, set, cells)
        key == RowKey(schema, row)
        val == RowBytes(RowVal(schema, new))
        mistyped == \E i \in DOMAIN set :
                        cells[i].type # schema.cols[ColIndex(schema, set[i].column)].type
        step == [job EXCEPT !.n = @ + 1,
                            !.rows = [i \in DOMAIN @ |-> IF RowKey(schema, @[i]) = key THEN new ELSE @[i]]]
    IN  /\ Running("write") /\ job.stmt.kind = "update" /\ job.n < Len(job.rows)
        /\ IF mistyped THEN Refuse
           ELSE /\ \/ key \notin DOMAIN kv /\ job' = step /\ UNCHANGED <<kv, maybe, answer>>
                   \/ key \in DOMAIN kv /\ Put(key, val) /\ job' = step /\ UNCHANGED answer
                   \/ key \in DOMAIN kv /\ PutFails(key, val) /\ Reply(Error(0))
                /\ UNCHANGED <<tables, swallowed>>
        /\ UNCHANGED <<up, before>>

\* One round of the loop of execDelete, with DB.Delete.
DeleteRow ==
    LET key == RowKey(job.schema, job.rows[job.n + 1])
    IN  /\ Running("write") /\ job.stmt.kind = "delete" /\ job.n < Len(job.rows)
        /\ \/ /\ key \notin DOMAIN kv
              /\ job' = [job EXCEPT !.n = @ + 1] /\ UNCHANGED <<kv, maybe, answer>>
           \/ /\ key \in DOMAIN kv /\ Put(key, Deleted)
              /\ job' = [job EXCEPT !.n = @ + 1, !.count = @ + 1] /\ UNCHANGED answer
           \/ key \in DOMAIN kv /\ PutFails(key, Deleted) /\ Reply(Error(job.count))
        /\ UNCHANGED <<up, tables, before, swallowed>>

WriteDone ==
    /\ Running("write") /\ job.n = Len(job.rows)
    /\ Reply(Success(IF job.stmt.kind = "update" THEN job.n ELSE job.count, <<>>))
    /\ UNCHANGED <<up, kv, maybe, tables, before, swallowed>>

\* Any other read that fails is reported to the caller.
ReadFails ==
    /\ \E pc \in {"create", "schema", "insert", "plan", "write"} : Running(pc)
    /\ "readerr" \in Faults
    /\ job.pc = "schema" => job.stmt.table \notin DOMAIN tables
    /\ job.pc = "write" => job.n < Len(job.rows)
    /\ Reply(Error(job.count))
    /\ UNCHANGED <<up, kv, maybe, tables, before, swallowed>>

Next ==
    \/ Open \/ Close \/ Crash
    \/ \E text \in Texts : Exec(text)
    \/ TakeAnswer
    \/ CreateTable \/ GetSchema \/ Insert
    \/ ExecCond \/ ScanRow \/ ScanDone
    \/ UpdateRow \/ DeleteRow \/ WriteDone
    \/ ReadFails

Spec == Init /\ [][Next]_vars
-----------------------------------------------------------------------------
\* The evaluation of the assignments of an UPDATE gives cells, or errors.
Evaluates(stmt, schema, row) ==
    \A i \in DOMAIN stmt.value : Evaluated(schema, row, stmt.value[i].expr) \in Cells \union {ErrCell}

EngineTypeOK ==
    /\ up \in BOOLEAN /\ swallowed \in BOOLEAN
    /\ \A k \in DOMAIN kv : kv[k].tag \in {"row", "json"}
    /\ \A c \in maybe : c.val.tag \in {"row", "json", "deleted"}
    /\ DOMAIN tables \subseteq DOMAIN NameBytes
    /\ job.pc \in {"idle", "create", "schema", "insert", "plan", "scan", "write", "done"}
    /\ answer.given <=> job.pc = "done"
    /\ job.n \in 0..Len(job.rows) /\ job.count \in 0..job.n

\* A cached schema is the one in the catalog, whatever statements failed, were
\* refused or interrupted: GetSchema (engine.go:45) need not read it again.
CacheMatchesCatalog ==
    up => \A t \in DOMAIN tables :
              CatalogKey(t) \in DOMAIN kv /\ kv[CatalogKey(t)] = Json(tables[t])

\* What is stored belongs to one table, decodes, and encodes to itself again:
\* neither a table whose name begins like another's (schema.go:52) nor a
\* statement that failed halfway leaves anything behind that is not a row.
RowsReadable ==
    ~swallowed =>
        LET catalog == {t \in DOMAIN NameBytes : CatalogKey(t) \in DOMAIN kv}
        IN  \A k \in DOMAIN kv \ {CatalogKey(t) : t \in catalog} :
                \E t \in catalog :
                    LET schema == kv[CatalogKey(t)].schema
                        d == DecodeRow(schema, k, kv[k].bytes)
                    IN  /\ \A u \in catalog : InTable(kv[CatalogKey(u)].schema, k) <=> u = t
                        /\ d.ok /\ RowKey(schema, d.row) = k /\ RowVal(schema, d.row) = kv[k].bytes

\* Keys compare as bytes the way their cells compare: signs, bytes that are
\* escaped, strings that begin alike, a column that decides before the next
\* (cell.go:77).
KeyOrder ==
    job.pc = "insert" /\ Len(job.stmt.value) = Len(job.schema.cols) =>
        LET schema == job.schema
            new == KeyCells(schema, [i \in DOMAIN job.stmt.value |->
                                        [job.stmt.value[i] EXCEPT !.type = schema.cols[i].type]])
            SameTypes(tuple) == [i \in DOMAIN tuple |-> tuple[i].type] = [i \in DOMAIN new |-> new[i].type]
        IN  \A other \in {tuple \in KeyTuples : SameTypes(tuple)} :
                /\ TupleLess(new, other) <=> BytesLess(Tagged(new), Tagged(other))
                /\ TupleLess(other, new) <=> BytesLess(Tagged(other), Tagged(new))
=============================================================================
