---------------------------- MODULE EngineProofs ----------------------------
(***************************************************************************)
(* Proofs about the SQL engine, for every set of tables, every number of   *)
(* bytes and every parser, planner and evaluation: the state has its type, *)
(* a cached schema is the stored one, keys sort as their cells do, and     *)
(* what is stored reads as rows.                                           *)
(***************************************************************************)
EXTENDS Engine, KeyCodecProofs, FiniteSetTheorems

-----------------------------------------------------------------------------
(* The keys of rows and of schemas.                                        *)

LEMMA NameType ==
  ASSUME NEW t \in DOMAIN NameBytes
  PROVE  /\ NameBytes[t] \in Seq(Int) /\ Len(NameBytes[t]) > 0
         /\ NameBytes[t][1] # AtSign /\ AtSign \in Int
<1>1. NameBytes[t] \in Seq(Int)
  BY NameBytesType
<1>2. NameBytes[t] # <<>> /\ NameBytes[t][1] # AtSign /\ AtSign \in Int
  BY CodecAssumption, CatalogAssumption
<1> QED BY <1>1, <1>2, EmptySeq

\* The key of a row begins with the name of its table.
LEMMA RowKeyBegins ==
  ASSUME NEW S, Int \subseteq S, NEW schema, schema.table \in DOMAIN NameBytes,
         NEW row, Tagged(KeyCells(schema, row)) \in Seq(S)
  PROVE  /\ RowKey(schema, row) \in Seq(S)
         /\ RowKey(schema, row)[1] = NameBytes[schema.table][1]
<1> DEFINE name == NameBytes[schema.table]
           p == TablePrefix(schema)
           t == Tagged(KeyCells(schema, row))
<1>1. name \in Seq(S) /\ Len(name) > 0
  BY NameType, SeqMonotonic
<1>2. p \in Seq(S) /\ Len(p) > 0 /\ p[1] = name[1]
  <2>1. 0 \in S /\ p = Append(name, 0)
    BY DEF TablePrefix
  <2> HIDE DEF name, p
  <2> QED BY <1>1, <2>1
<1>3. <<0>> \in Seq(S)
  OBVIOUS
<1>4. RowKey(schema, row) = (p \o t) \o <<0>>
  BY DEF RowKey
<1> HIDE DEF p, t
<1>5. p \o t \in Seq(S) /\ Len(p \o t) > 0 /\ (p \o t)[1] = p[1]
  <2>1. t \in Seq(S)
    BY DEF t
  <2>2. Len(p) \in Nat /\ Len(t) \in Nat
    BY <1>2, <2>1, LenProperties
  <2>3. 1 \in 1..(Len(p) + Len(t)) /\ 1 <= Len(p)
    BY <1>2, <2>2
  <2>4. Len(p \o t) = Len(p) + Len(t) /\ p \o t \in Seq(S)
    BY <1>2, <2>1, ConcatProperties
  <2>5. (p \o t)[1] = p[1]
    BY <1>2, <2>1, <2>3, ConcatProperties
  <2> QED BY <1>2, <2>2, <2>4, <2>5
<1>6. (p \o t) \o <<0>> \in Seq(S) /\ ((p \o t) \o <<0>>)[1] = (p \o t)[1]
  <2> DEFINE u == p \o t
             z == <<0>>
  <2>1. z \in Seq(S) /\ Len(z) = 1 /\ u \in Seq(S) /\ Len(u) \in Nat /\ Len(u) > 0
    BY <1>3, <1>5, LenProperties
  <2> HIDE DEF u, z
  <2>2. 1 \in 1..(Len(u) + Len(z)) /\ 1 <= Len(u)
    BY <2>1
  <2>3. u \o z \in Seq(S) /\ (u \o z)[1] = u[1]
    BY <2>1, <2>2, ConcatProperties
  <2> QED BY <2>3 DEF u, z
<1> QED BY <1>2, <1>4, <1>5, <1>6

LEMMA CatalogKeys ==
  /\ \A t \in DOMAIN NameBytes : CatalogKey(t) \in Seq(Int) /\ CatalogKey(t)[1] = AtSign
  /\ \A t, u \in DOMAIN NameBytes : CatalogKey(t) = CatalogKey(u) => t = u
<1>1. ASSUME NEW t \in DOMAIN NameBytes
      PROVE  /\ CatalogKey(t) \in Seq(Int) /\ CatalogKey(t)[1] = AtSign
             /\ Len(NameBytes[t]) \in Nat /\ Len(CatalogKey(t)) = Len(NameBytes[t]) + 1
             /\ \A i \in 1..Len(NameBytes[t]) : CatalogKey(t)[i + 1] = NameBytes[t][i]
  <2> DEFINE n == NameBytes[t]
             a == <<AtSign>>
  <2>1. n \in Seq(Int) /\ Len(n) \in Nat /\ AtSign \in Int
    BY NameType, LenProperties
  <2>2. a \in Seq(Int) /\ Len(a) = 1 /\ a[1] = AtSign
    BY <2>1
  <2>3. CatalogKey(t) = a \o n
    BY DEF CatalogKey
  <2> HIDE DEF n, a
  <2>4. /\ a \o n \in Seq(Int) /\ Len(a \o n) = 1 + Len(n)
        /\ \A i \in 1..(1 + Len(n)) : (a \o n)[i] = IF i <= 1 THEN a[i] ELSE n[i - 1]
    <3>1. /\ a \o n \in Seq(Int) /\ Len(a \o n) = Len(a) + Len(n)
          /\ \A i \in 1..(Len(a) + Len(n)) : (a \o n)[i] = IF i <= Len(a) THEN a[i] ELSE n[i - Len(a)]
      BY <2>1, <2>2, ConcatProperties
    <3> QED BY <2>2, <3>1
  <2>5. ASSUME NEW i \in 1..Len(n) PROVE (a \o n)[i + 1] = n[i]
    <3>1. i + 1 \in 1..(1 + Len(n)) /\ ~(i + 1 <= 1) /\ (i + 1) - 1 = i
      BY <2>1
    <3> QED BY <2>4, <3>1
  <2>6. 1 \in 1..(1 + Len(n))
    BY <2>1
  <2>7. (a \o n)[1] = AtSign
    BY <2>2, <2>4, <2>6
  <2> QED BY <2>1, <2>3, <2>4, <2>5, <2>7 DEF n
<1>2. ASSUME NEW t \in DOMAIN NameBytes, NEW u \in DOMAIN NameBytes, CatalogKey(t) = CatalogKey(u)
      PROVE  t = u
  <2> DEFINE m == NameBytes[t]
             n == NameBytes[u]
  <2>1. m \in Seq(Int) /\ n \in Seq(Int)
    BY NameType
  <2>2. /\ Len(m) \in Nat /\ Len(n) \in Nat /\ Len(m) + 1 = Len(n) + 1
        /\ \A i \in 1..Len(m) : CatalogKey(t)[i + 1] = m[i]
        /\ \A i \in 1..Len(n) : CatalogKey(t)[i + 1] = n[i]
    BY <1>1, <1>2
  <2> HIDE DEF m, n
  <2>3. Len(m) = Len(n)
    BY <2>2
  <2>4. m = n
    BY <2>1, <2>2, <2>3, SeqEqual
  <2> QED BY <2>4, CatalogAssumption DEF m, n
<1> QED BY <1>1, <1>2

\* No row is stored under the key of a schema.
LEMMA KeysApart ==
  ASSUME NEW schema, SchemaFits(schema), NEW row, RowFits(schema, row)
  PROVE  \A t \in DOMAIN NameBytes : RowKey(schema, row) # CatalogKey(t)
<1> DEFINE cells == KeyCells(schema, row)
           n == Len(schema.pkey)
           all == UNION {Alphabet(cells[i]) : i \in 1..n}
           S == all \union Int
<1>1. n \in Nat /\ DOMAIN schema.pkey = 1..n
  BY DEF SchemaFits
<1>2. DOMAIN cells = 1..n /\ \A i \in 1..n : cells[i].str \in Seq(Int)
  BY <1>1 DEF KeyCells, RowFits
<1>3. Int \subseteq S /\ all \subseteq S
  <2> HIDE DEF all
  <2> QED OBVIOUS
<1>4. ASSUME NEW i \in 1..n PROVE cells[i].type \in S /\ EncodeKey(cells[i]) \in Seq(S)
  <2> DEFINE A == Alphabet(cells[i])
  <2>1. cells[i].type \in A
    BY DEF Alphabet
  <2>3. A \subseteq S
    <3>1. A \subseteq all
      OBVIOUS
    <3> HIDE DEF all, S, A
    <3> QED BY <1>3, <3>1
  <2>2. EncodeKey(cells[i]) \in Seq(A)
    BY <1>2, EncodeKeyList
  <2> HIDE DEF A, S
  <2> QED BY <2>1, <2>2, <2>3, SeqMonotonic
<1>5. Tagged(cells) \in Seq(S)
  <2> HIDE DEF S, cells
  <2> QED BY <1>1, <1>2, <1>4, TaggedType
<1>6. RowKey(schema, row)[1] = NameBytes[schema.table][1]
  <2> HIDE DEF S
  <2> QED BY <1>3, <1>5, RowKeyBegins DEF SchemaFits
<1> QED BY <1>6, CatalogKeys, NameType DEF SchemaFits

\* A row that comes with an INSERT has a key made of bytes.
LEMMA InsertedKey ==
  ASSUME NEW schema, SchemaFits(schema), NEW row, RowFits(schema, row),
         \A i \in DOMAIN row : row[i].type \in Int /\ row[i].i64 \in Int
  PROVE  RowKey(schema, row) \in Seq(Int)
<1> DEFINE cells == KeyCells(schema, row)
           n == Len(schema.pkey)
<1>1. n \in Nat /\ DOMAIN schema.pkey = 1..n /\ \A i \in 1..n : schema.pkey[i] \in DOMAIN row
  BY DEF SchemaFits, RowFits
<1>2. /\ DOMAIN cells = 1..n
      /\ \A i \in 1..n : cells[i].str \in Seq(Int) /\ cells[i].type \in Int /\ cells[i].i64 \in Int
  BY <1>1 DEF KeyCells, RowFits
<1> HIDE DEF cells, n
<1>3. \A i \in 1..n : EncodeKey(cells[i]) \in Seq(Int)
  BY <1>2, EncodeKeyType
<1>4. Tagged(cells) \in Seq(Int)
  BY <1>1, <1>2, <1>3, TaggedType
<1> QED BY <1>4, RowKeyBegins DEF SchemaFits, cells
-----------------------------------------------------------------------------
(* The least key of a finite set.                                          *)

\* A finite set of keys has a least one.
LEMMA LeastIn ==
  ASSUME NEW K, IsFiniteSet(K), K # {}, \A k \in K : k \in Seq(Int)
  PROVE  Least(K) \in K
<1> DEFINE D(k) == {j \in K : BytesLess(j, k)}
           T == {Cardinality(D(k)) : k \in K}
<1>1. ASSUME NEW k \in K PROVE IsFiniteSet(D(k)) /\ Cardinality(D(k)) \in Nat
  <2>1. D(k) \in SUBSET K
    OBVIOUS
  <2>2. IsFiniteSet(D(k))
    BY <2>1, FS_Subset
  <2> QED BY <2>2, FS_CardinalityType
<1>2. PICK m \in T : \A n \in T : m <= n
  <2>1. T \subseteq Nat /\ T # {}
    <3> HIDE DEF D
    <3> QED BY <1>1
  <2> HIDE DEF T
  <2> QED BY <2>1, LeastNumber
<1>3. PICK k \in K : m = Cardinality(D(k))
  BY <1>2
<1>4. ASSUME NEW j \in K, BytesLess(j, k) PROVE FALSE
  <2>1. D(j) \in SUBSET D(k)
    <3>1. ASSUME NEW i \in D(j) PROVE i \in D(k)
      <4>1. i \in K /\ BytesLess(i, j)
        OBVIOUS
      <4>2. BytesLess(i, k)
        BY <1>4, <4>1, LessTransitive
      <4> QED BY <4>1, <4>2
    <3> HIDE DEF D
    <3> QED BY <3>1
  <2>2. j \in D(k) /\ j \notin D(j)
    BY <1>4, LessIrreflexive
  <2>3. Cardinality(D(j)) <= Cardinality(D(k)) /\ Cardinality(D(j)) # Cardinality(D(k))
    <3> HIDE DEF D
    <3>1. IsFiniteSet(D(k))
      BY <1>1
    <3> QED BY <2>1, <2>2, <3>1, FS_Subset
  <2>4. Cardinality(D(j)) \in T
    OBVIOUS
  <2>5. Cardinality(D(k)) <= Cardinality(D(j))
    <3> HIDE DEF D, T
    <3> QED BY <1>2, <1>3, <2>4
  <2> HIDE DEF D
  <2> QED BY <1>1, <2>3, <2>5
<1>5. \A j \in K : ~BytesLess(j, k)
  BY <1>4
<1> HIDE DEF D, T
<1> QED BY <1>5, Zenon DEF Least
-----------------------------------------------------------------------------
(* The inductive invariant: the store holds keys of bytes, and under the   *)
(* key of a catalog entry nothing but the schema of that table, as long as *)
(* a failed write may still bring it back; a statement that runs has rows  *)
(* of its table.                                                           *)

Entry(t, val) == val = Json(val.schema) /\ SchemaFits(val.schema) /\ val.schema.table = t

IsValue(val) == val.tag \in {"row", "json", "deleted"} /\ (val.tag = "deleted" => val = Deleted)

StoreFits(store, failed) ==
    /\ IsFiniteSet(DOMAIN store) /\ IsFiniteSet(failed)
    /\ \A k \in DOMAIN store : k \in Seq(Int) /\ store[k].tag \in {"row", "json"}
    /\ \A c \in failed : c.key \in Seq(Int) /\ IsValue(c.val)
    /\ \A t \in DOMAIN NameBytes :
           /\ CatalogKey(t) \in DOMAIN store => Entry(t, store[CatalogKey(t)])
           /\ \A c \in failed : c.key = CatalogKey(t) => Entry(t, c.val)

CacheFits(cache, store) ==
    \A t \in DOMAIN cache :
        CatalogKey(t) \in DOMAIN store /\ store[CatalogKey(t)] = Json(cache[t])

IsJob(j) ==
    j = [pc |-> j.pc, text |-> j.text, stmt |-> j.stmt, schema |-> j.schema, at |-> j.at,
         stop |-> j.stop, valid |-> j.valid, row |-> j.row, rows |-> j.rows, n |-> j.n,
         count |-> j.count]

RowsFit(schema, rows) ==
    /\ Len(rows) \in Nat /\ rows = [i \in 1..Len(rows) |-> rows[i]]
    /\ \A i \in 1..Len(rows) : RowFits(schema, rows[i])

\* What holds of a statement at each point of its execution.
Stage(j) ==
    /\ j.pc \in {"idle", "create", "schema", "insert", "plan", "scan", "write", "done"}
    /\ j.pc \notin {"idle", "done"} => Statement(j.stmt)
    /\ j.pc \in {"create", "insert"} => j.stmt.kind = j.pc
    /\ j.pc \in {"insert", "plan", "scan", "write"} => SchemaFits(j.schema)
    /\ j.pc \in {"scan", "write"} => Checked(j.schema, j.stmt) /\ RowsFit(j.schema, j.rows)
    /\ j.pc = "scan" /\ j.valid => RowFits(j.schema, j.row)

JobFits(j) ==
    /\ IsJob(j) /\ Stage(j)
    /\ Len(j.rows) \in Nat /\ j.n \in 0..Len(j.rows) /\ j.count \in 0..j.n
    /\ j.pc \notin {"scan", "write"} /\ j.pc # "done" => j.rows = <<>> /\ j.n = 0 /\ j.count = 0

SQLInv ==
    /\ up \in BOOLEAN /\ swallowed \in BOOLEAN
    /\ StoreFits(kv, maybe)
    /\ DOMAIN tables \subseteq DOMAIN NameBytes
    /\ up => CacheFits(tables, kv)
    /\ JobFits(job) /\ (answer.given <=> job.pc = "done")
-----------------------------------------------------------------------------
(* Changes of a map.                                                       *)

ChangedTo(map, changes, new) ==
    /\ \A k \in DOMAIN new :
           \/ k \in DOMAIN map /\ (\A c \in changes : c.key # k) /\ new[k] = map[k]
           \/ \E c \in changes : c.key = k /\ new[k] = c.val /\ c.val # Deleted
    /\ \A k \in DOMAIN map : (\A c \in changes : c.key # k) => k \in DOMAIN new

LEMMA ChangedEffect ==
  ASSUME NEW map, NEW changes
  PROVE  ChangedTo(map, changes, Changed(map, changes))
<1> DEFINE keys == {c.key : c \in changes}
           Pick(k) == CHOOSE c \in changes : c.key = k
           ValOf(k) == Pick(k).val
           all == {k \in DOMAIN map \union keys : k \in keys => ValOf(k) # Deleted}
           new == [k \in all |-> IF k \in keys THEN ValOf(k) ELSE map[k]]
<1>1. Changed(map, changes) = new
  BY Zenon DEF Changed
<1>2. ASSUME NEW k \in keys PROVE Pick(k) \in changes /\ Pick(k).key = k
  <2>1. \E c \in changes : c.key = k
    OBVIOUS
  <2> QED BY <2>1, Zenon
<1>3. \A k : k \notin keys <=> \A c \in changes : c.key # k
  OBVIOUS
<1> HIDE DEF keys, Pick
<1>4. ASSUME NEW k \in all
      PROVE  \/ k \in DOMAIN map /\ (\A c \in changes : c.key # k) /\ new[k] = map[k]
             \/ \E c \in changes : c.key = k /\ new[k] = c.val /\ c.val # Deleted
  <2>1. CASE k \in keys
    <3>1. new[k] = Pick(k).val /\ Pick(k).val # Deleted
      BY <2>1
    <3> QED BY <1>2, <2>1, <3>1
  <2>2. CASE k \notin keys
    BY <1>3, <2>2
  <2> QED BY <2>1, <2>2
<1>5. ASSUME NEW k \in DOMAIN map, \A c \in changes : c.key # k PROVE k \in all
  BY <1>3, <1>5
<1>6. DOMAIN new = all
  OBVIOUS
<1> HIDE DEF all, new
<1> QED BY <1>1, <1>4, <1>5, <1>6 DEF ChangedTo

\* One change.
ChangedBy(map, key, val, new) ==
    /\ \A k \in DOMAIN new :
           \/ k = key /\ new[k] = val /\ val # Deleted
           \/ k # key /\ k \in DOMAIN map /\ new[k] = map[k]
    /\ \A k \in DOMAIN map : k # key => k \in DOMAIN new
    /\ val # Deleted => key \in DOMAIN new /\ new[key] = val

LEMMA ChangedOnce ==
  ASSUME NEW map, NEW key, NEW val
  PROVE  ChangedBy(map, key, val, Changed(map, {[key |-> key, val |-> val]}))
<1> DEFINE change == [key |-> key, val |-> val]
           new == Changed(map, {change})
<1>1. ChangedTo(map, {change}, new)
  BY ChangedEffect
<1>2. change.key = key /\ change.val = val
  OBVIOUS
<1> HIDE DEF change, new
<1>3. /\ \A k \in DOMAIN new :
             \/ k = key /\ new[k] = val /\ val # Deleted
             \/ k # key /\ k \in DOMAIN map /\ new[k] = map[k]
      /\ \A k \in DOMAIN map : k # key => k \in DOMAIN new
  BY <1>1, <1>2, Zenon DEF ChangedTo
<1>4. ASSUME val # Deleted PROVE key \in DOMAIN new
  <2> DEFINE keys == {c.key : c \in {change}}
             Pick(k) == CHOOSE c \in {change} : c.key = k
             all == {k \in DOMAIN map \union keys : k \in keys => Pick(k).val # Deleted}
  <2>1. new = [k \in all |-> IF k \in keys THEN Pick(k).val ELSE map[k]]
    BY Zenon DEF Changed, change, new
  <2>2. key \in keys
    BY <1>2
  <2>3. Pick(key) = change
    BY <1>2
  <2>4. key \in all
    <3> HIDE DEF keys, Pick
    <3> QED BY <1>2, <1>4, <2>2, <2>3
  <2>5. DOMAIN new = all
    <3> HIDE DEF all, keys, Pick
    <3> QED BY <2>1
  <2> QED BY <2>4, <2>5
<1>5. ChangedBy(map, key, val, new)
  <2>1. ASSUME val # Deleted PROVE key \in DOMAIN new /\ new[key] = val
    BY <1>3, <1>4, <2>1
  <2> QED BY <1>3, <2>1, Zenon DEF ChangedBy
<1> QED BY <1>5 DEF change, new
-----------------------------------------------------------------------------
(* The outcomes of a write.                                                *)

\* What is written: under the key of a catalog entry, a schema of that table.
Writable(key, val) ==
    /\ key \in Seq(Int) /\ IsValue(val)
    /\ \A t \in DOMAIN NameBytes : key = CatalogKey(t) => Entry(t, val)

LEMMA KeysFinite ==
  ASSUME NEW S, IsFiniteSet(S)
  PROVE  IsFiniteSet({c.key : c \in S})
<1> DEFINE T == {c.key : c \in S}
           g == [c \in S |-> c.key]
<1>1. g \in Surjection(S, T)
  BY DEF Surjection
<1>2. IsFiniteSet(T)
  <2> HIDE DEF T, g
  <2> QED BY <1>1, FS_Surjection
<1> QED BY <1>2

LEMMA FilterFinite ==
  ASSUME NEW S, IsFiniteSet(S), NEW T, T \subseteq S
  PROVE  IsFiniteSet(T)
BY FS_Subset

LEMMA EmptyFits == StoreFits([k \in {} |-> Deleted], {})
<1> DEFINE e == [k \in {} |-> Deleted]
<1>1. DOMAIN e = {}
  OBVIOUS
<1> HIDE DEF e
<1>2. StoreFits(e, {})
  BY <1>1, FS_EmptySet DEF StoreFits
<1> QED BY <1>2 DEF e

LEMMA PutFits ==
  ASSUME StoreFits(kv, maybe), NEW key, NEW val, Writable(key, val), Put(key, val)
  PROVE  StoreFits(kv', maybe')
<1>1. /\ \A k \in DOMAIN kv' :
             \/ k = key /\ kv'[k] = val /\ val # Deleted
             \/ k # key /\ k \in DOMAIN kv /\ kv'[k] = kv[k]
  <2>1. ChangedBy(kv, key, val, kv')
    BY ChangedOnce DEF Put
  <2> QED BY <2>1 DEF ChangedBy
<1>2. maybe' \subseteq maybe
  BY DEF Put
<1>3. IsFiniteSet(DOMAIN kv')
  <2>1. DOMAIN kv' \subseteq DOMAIN kv \union {key}
    BY <1>1
  <2>2. IsFiniteSet(DOMAIN kv \union {key})
    BY FS_AddElement DEF StoreFits
  <2> QED BY <2>1, <2>2, FilterFinite
<1>4. IsFiniteSet(maybe')
  BY <1>2, FilterFinite DEF StoreFits
<1>5. ASSUME NEW k \in DOMAIN kv' PROVE k \in Seq(Int) /\ kv'[k].tag \in {"row", "json"}
  BY <1>1 DEF StoreFits, Writable, IsValue
<1>6. ASSUME NEW c \in maybe' PROVE c.key \in Seq(Int) /\ IsValue(c.val)
  BY <1>2 DEF StoreFits
<1>7. ASSUME NEW t \in DOMAIN NameBytes, CatalogKey(t) \in DOMAIN kv' PROVE Entry(t, kv'[CatalogKey(t)])
  <2> DEFINE k == CatalogKey(t)
  <2> HIDE DEF k
  <2>1. k \in DOMAIN kv => Entry(t, kv[k])
    BY DEF StoreFits, k
  <2>2. k = key => Entry(t, val)
    BY DEF Writable, k
  <2>3. \/ k = key /\ kv'[k] = val
        \/ k \in DOMAIN kv /\ kv'[k] = kv[k]
    BY <1>1, <1>7 DEF k
  <2>4. Entry(t, kv'[k])
    BY <2>1, <2>2, <2>3
  <2> QED BY <2>4 DEF k
<1>8. ASSUME NEW t \in DOMAIN NameBytes, NEW c \in maybe', c.key = CatalogKey(t) PROVE Entry(t, c.val)
  BY <1>2, <1>8 DEF StoreFits
<1> QED BY <1>3, <1>4, <1>5, <1>6, <1>7, <1>8, Zenon DEF StoreFits

LEMMA PutFailsFits ==
  ASSUME StoreFits(kv, maybe), NEW key, NEW val, Writable(key, val), PutFails(key, val)
  PROVE  StoreFits(kv', maybe') /\ kv' = kv
<1> DEFINE change == [key |-> key, val |-> val]
<1>1. maybe' = maybe \union {change} /\ kv' = kv /\ change.key = key /\ change.val = val
  BY DEF PutFails
<1> HIDE DEF change
<1>2. IsFiniteSet(maybe')
  BY <1>1, FS_AddElement DEF StoreFits
<1>3. ASSUME NEW c \in maybe'
      PROVE  /\ c.key \in Seq(Int) /\ IsValue(c.val)
             /\ \A t \in DOMAIN NameBytes : c.key = CatalogKey(t) => Entry(t, c.val)
  <2>1. CASE c \in maybe
    BY <2>1 DEF StoreFits
  <2>2. CASE c = change
    BY <1>1, <2>2 DEF Writable
  <2> QED BY <1>1, <2>1, <2>2
<1>4. StoreFits(kv, maybe')
  BY <1>2, <1>3 DEF StoreFits
<1> QED BY <1>1, <1>4

\* A write to the key of no catalog entry leaves the cache right.
LEMMA PutKeepsCache ==
  ASSUME NEW key, NEW val, Put(key, val), CacheFits(tables, kv),
         \A t \in DOMAIN tables : CatalogKey(t) # key
  PROVE  CacheFits(tables, kv')
<1>1. /\ \A k \in DOMAIN kv' :
             \/ k = key /\ kv'[k] = val /\ val # Deleted
             \/ k # key /\ k \in DOMAIN kv /\ kv'[k] = kv[k]
      /\ \A k \in DOMAIN kv : k # key => k \in DOMAIN kv'
  <2>1. ChangedBy(kv, key, val, kv')
    BY ChangedOnce DEF Put
  <2> QED BY <2>1 DEF ChangedBy
<1>2. ASSUME NEW t \in DOMAIN tables
      PROVE  CatalogKey(t) \in DOMAIN kv' /\ kv'[CatalogKey(t)] = Json(tables[t])
  <2> DEFINE k == CatalogKey(t)
  <2>1. k \in DOMAIN kv /\ kv[k] = Json(tables[t]) /\ k # key
    BY DEF CacheFits
  <2> HIDE DEF k
  <2>2. k \in DOMAIN kv' /\ kv'[k] = Json(tables[t])
    BY <1>1, <2>1
  <2> QED BY <2>2 DEF k
<1> QED BY <1>2 DEF CacheFits
-----------------------------------------------------------------------------
(* Every step keeps the invariant.                                         *)

LEMMA NoAnswers ==
  /\ NoAnswer.given = FALSE
  /\ \A n, values : Success(n, values).given = TRUE
  /\ \A n : Error(n).given = TRUE
BY DEF NoAnswer, Success, Error

LEMMA IdleFits == JobFits(Idle) /\ Idle.pc = "idle"
<1>1. /\ Idle.pc = "idle" /\ Idle.rows = <<>> /\ Idle.n = 0 /\ Idle.count = 0
      /\ IsJob(Idle)
  BY DEF Idle, IsJob
<1>2. Stage(Idle)
  BY <1>1 DEF Stage
<1>3. Len(Idle.rows) = 0
  BY <1>1
<1> QED BY <1>1, <1>2, <1>3 DEF JobFits

LEMMA ReplyFits ==
  ASSUME JobFits(job), NEW a, a.given = TRUE, Reply(a)
  PROVE  JobFits(job') /\ job'.pc = "done" /\ answer'.given = TRUE
<1>1. IsJob(job) /\ job' = [job EXCEPT !.pc = "done"] /\ answer' = a
  BY DEF Reply, JobFits
<1>2. /\ job'.pc = "done" /\ job'.rows = job.rows /\ job'.n = job.n /\ job'.count = job.count
      /\ IsJob(job')
  BY <1>1 DEF IsJob
<1>3. Stage(job')
  BY <1>2 DEF Stage
<1>4. JobFits(job')
  BY <1>2, <1>3 DEF JobFits
<1> QED BY <1>1, <1>2, <1>4

LEMMA InitFits == Init => SQLInv
<1> SUFFICES ASSUME Init PROVE SQLInv
  OBVIOUS
<1>1. StoreFits(kv, maybe)
  BY EmptyFits DEF Init
<1>2. DOMAIN tables = {}
  BY DEF Init, NoTables
<1>3. JobFits(job) /\ (answer.given <=> job.pc = "done")
  BY IdleFits, NoAnswers DEF Init
<1> QED BY <1>1, <1>2, <1>3 DEF Init, SQLInv

LEMMA OpenFits == SQLInv /\ Open => SQLInv'
<1> SUFFICES ASSUME SQLInv, Open PROVE SQLInv'
  OBVIOUS
<1>1. DOMAIN tables' = {}
  BY DEF Open, NoTables
<1>2. CacheFits(tables', kv')
  BY <1>1 DEF CacheFits
<1>3. StoreFits(kv', maybe') /\ JobFits(job') /\ (answer'.given <=> job'.pc = "done")
  BY DEF Open, SQLInv
<1> QED BY <1>1, <1>2, <1>3 DEF Open, SQLInv

\* Whatever failed writes a restart brings back.
LEMMA LeaveFits ==
  ASSUME SQLInv, Leave
  PROVE  /\ StoreFits(kv', maybe') /\ ~up'
         /\ JobFits(job') /\ (answer'.given <=> job'.pc = "done")
         /\ swallowed' \in BOOLEAN
<1>1. PICK won \in SUBSET maybe : kv' = Changed(kv, won)
  BY DEF Leave
<1>2. ChangedTo(kv, won, kv')
  BY <1>1, ChangedEffect
<1>3. /\ \A k \in DOMAIN kv' : \/ k \in DOMAIN kv /\ kv'[k] = kv[k]
                               \/ \E w \in won : w.key = k /\ kv'[k] = w.val /\ w.val # Deleted
  BY <1>2, Zenon DEF ChangedTo
<1>4. StoreFits(kv', {})
  <2>1. IsFiniteSet(DOMAIN kv')
    <3> DEFINE all == DOMAIN kv \union {w.key : w \in won}
    <3>1. DOMAIN kv' \subseteq all
      BY <1>3
    <3>2. IsFiniteSet(won)
      BY FilterFinite DEF SQLInv, StoreFits
    <3>3. IsFiniteSet({w.key : w \in won})
      BY <3>2, KeysFinite
    <3>4. IsFiniteSet(all)
      BY <3>3, FS_Union DEF SQLInv, StoreFits
    <3> HIDE DEF all
    <3> QED BY <3>1, <3>4, FilterFinite
  <2>2. ASSUME NEW k \in DOMAIN kv' PROVE k \in Seq(Int) /\ kv'[k].tag \in {"row", "json"}
    <3>1. CASE k \in DOMAIN kv /\ kv'[k] = kv[k]
      BY <3>1 DEF SQLInv, StoreFits
    <3>2. ASSUME NEW w \in won, w.key = k, kv'[k] = w.val, w.val # Deleted
          PROVE  k \in Seq(Int) /\ kv'[k].tag \in {"row", "json"}
      <4>1. w \in maybe
        OBVIOUS
      <4>2. w.key \in Seq(Int) /\ IsValue(w.val)
        BY <4>1 DEF SQLInv, StoreFits
      <4> QED BY <3>2, <4>2 DEF IsValue
    <3> QED BY <1>3, <3>1, <3>2
  <2>3. ASSUME NEW t \in DOMAIN NameBytes, CatalogKey(t) \in DOMAIN kv' PROVE Entry(t, kv'[CatalogKey(t)])
    <3> DEFINE k == CatalogKey(t)
    <3>1. k \in DOMAIN kv => Entry(t, kv[k])
      BY DEF SQLInv, StoreFits
    <3>2. \A w \in maybe : w.key = k => Entry(t, w.val)
      BY DEF SQLInv, StoreFits
    <3>3. k \in DOMAIN kv'
      BY <2>3
    <3> HIDE DEF k
    <3>4. \/ k \in DOMAIN kv /\ kv'[k] = kv[k]
          \/ \E w \in maybe : w.key = k /\ kv'[k] = w.val
      BY <1>3, <3>3
    <3>5. Entry(t, kv'[k])
      BY <3>1, <3>2, <3>4
    <3> QED BY <3>5 DEF k
  <2> QED BY <2>1, <2>2, <2>3, FS_EmptySet, Zenon DEF StoreFits
<1>5. job' = Idle /\ answer' = NoAnswer /\ maybe' = {} /\ ~up' /\ swallowed' = swallowed
  BY DEF Leave
<1>6. JobFits(job') /\ (answer'.given <=> job'.pc = "done")
  BY <1>5, IdleFits, NoAnswers
<1> QED BY <1>4, <1>5, <1>6 DEF SQLInv

LEMMA CloseFits == SQLInv /\ (Close \/ Crash) => SQLInv'
<1> SUFFICES ASSUME SQLInv, Close \/ Crash PROVE SQLInv'
  OBVIOUS
<1>1. Leave /\ (tables' = tables \/ tables' = NoTables) /\ up' = FALSE
  BY DEF Close, Crash, Leave
<1>2. DOMAIN tables' \subseteq DOMAIN NameBytes
  BY <1>1 DEF NoTables, SQLInv
<1>3. /\ StoreFits(kv', maybe') /\ ~up'
      /\ JobFits(job') /\ (answer'.given <=> job'.pc = "done")
      /\ swallowed' \in BOOLEAN
  BY <1>1, LeaveFits
<1> QED BY <1>1, <1>2, <1>3 DEF SQLInv

LEMMA TakeAnswerFits == SQLInv /\ TakeAnswer => SQLInv'
<1> SUFFICES ASSUME SQLInv, TakeAnswer PROVE SQLInv'
  OBVIOUS
<1>1. job' = Idle /\ answer' = NoAnswer /\ UNCHANGED <<up, kv, maybe, tables, swallowed>>
  BY DEF TakeAnswer
<1>2. JobFits(job') /\ (answer'.given <=> job'.pc = "done")
  BY <1>1, IdleFits, NoAnswers
<1> QED BY <1>1, <1>2 DEF SQLInv

LEMMA ExecFits ==
  ASSUME SQLInv, NEW text \in Texts, Exec(text)
  PROVE  SQLInv'
<1> DEFINE s == Parsed(text)
           pc == IF ~s.ok THEN "done" ELSE IF s.out.kind = "create" THEN "create" ELSE "schema"
           stmt == IF s.ok THEN s.out ELSE NoStmt
           j == [Idle EXCEPT !.text = text, !.stmt = stmt, !.pc = pc]
<1>1. /\ job' = j /\ answer' = (IF s.ok THEN NoAnswer ELSE Error(0))
      /\ UNCHANGED <<up, kv, maybe, tables, swallowed>>
  BY Zenon DEF Exec
<1>2. s.ok => Statement(s.out)
  BY CatalogAssumption
<1>3. pc \in {"done", "create", "schema"} /\ (pc = "done" <=> ~s.ok)
      /\ (pc \in {"create", "schema"} => Statement(stmt)) /\ (pc = "create" => stmt.kind = "create")
  BY <1>2
<1> HIDE DEF pc, stmt
<1>4. j.pc = pc /\ j.stmt = stmt /\ j.rows = <<>> /\ j.n = 0 /\ j.count = 0 /\ IsJob(j)
  <2>1. IsJob(Idle) /\ Idle.rows = <<>> /\ Idle.n = 0 /\ Idle.count = 0
    BY IdleFits DEF JobFits, Idle
  <2>2. j = [Idle EXCEPT !.text = text, !.stmt = stmt, !.pc = pc]
    OBVIOUS
  <2> HIDE DEF j
  <2> QED BY <2>1, <2>2 DEF IsJob
<1> HIDE DEF j
<1>5. Stage(j)
  BY <1>3, <1>4 DEF Stage
<1>6. JobFits(j)
  <2>1. Len(j.rows) = 0
    BY <1>4
  <2> QED BY <1>4, <1>5, <2>1 DEF JobFits
<1>7. answer'.given <=> job'.pc = "done"
  BY <1>1, <1>3, <1>4, NoAnswers
<1> QED BY <1>1, <1>6, <1>7 DEF SQLInv

LEMMA RefuseFits ==
  ASSUME SQLInv, Refuse, up' = up
  PROVE  SQLInv'
<1>1. JobFits(job') /\ job'.pc = "done" /\ answer'.given = TRUE
  BY ReplyFits, NoAnswers DEF Refuse, SQLInv
<1> QED BY <1>1 DEF Refuse, SQLInv

LEMMA ColIndexType ==
  ASSUME NEW schema, schema.cols \in Seq([name : STRING, type : {TypeI64, TypeStr}]), NEW name
  PROVE  ColIndex(schema, name) \in DOMAIN schema.cols \union {0}
<1> DEFINE found == {i \in DOMAIN schema.cols : schema.cols[i].name = name}
           pick == CHOOSE i \in found : \A j \in found : i <= j
<1>1. found \subseteq Nat /\ found \subseteq DOMAIN schema.cols
  OBVIOUS
<1>2. ColIndex(schema, name) = IF found = {} THEN 0 ELSE pick
  BY DEF ColIndex
<1> HIDE DEF found
<1>3. CASE found # {}
  <2>1. \E i \in found : \A j \in found : i <= j
    BY <1>1, <1>3, LeastNumber
  <2>2. pick \in found
    BY <2>1
  <2> HIDE DEF pick
  <2> QED BY <1>1, <1>2, <1>3, <2>2
<1> QED BY <1>2, <1>3

\* The schema of a CREATE TABLE all of whose key columns are columns.
LEMMA SchemaOfFits ==
  ASSUME NEW stmt, Statement(stmt), stmt.kind = "create", 0 \notin ToSet(SchemaOf(stmt).pkey)
  PROVE  SchemaFits(SchemaOf(stmt)) /\ SchemaOf(stmt).table = stmt.table
<1> DEFINE bare == [table |-> stmt.table, cols |-> stmt.cols, pkey |-> <<>>]
           pkey == [i \in DOMAIN stmt.pkey |-> ColIndex(bare, stmt.pkey[i])]
<1>1. /\ stmt.table \in DOMAIN NameBytes
      /\ stmt.cols \in Seq([name : STRING, type : {TypeI64, TypeStr}])
      /\ stmt.pkey \in Seq(STRING)
  BY DEF Statement
<1>2. SchemaOf(stmt) = [table |-> stmt.table, cols |-> stmt.cols, pkey |-> pkey]
  BY DEF SchemaOf
<1>3. bare.cols = stmt.cols
  OBVIOUS
<1>4. DOMAIN pkey = 1..Len(stmt.pkey) /\ Len(stmt.pkey) \in Nat
  BY <1>1
<1>5. ASSUME NEW i \in 1..Len(stmt.pkey) PROVE pkey[i] \in DOMAIN stmt.cols
  <2>1. pkey[i] = ColIndex(bare, stmt.pkey[i])
    BY <1>4
  <2>2. pkey[i] \in DOMAIN stmt.cols \union {0}
    <3> HIDE DEF bare, pkey
    <3> QED BY <1>1, <1>3, <2>1, ColIndexType
  <2>3. pkey[i] # 0
    <3> HIDE DEF bare, pkey
    <3>1. SchemaOf(stmt).pkey = pkey
      BY <1>2
    <3>2. 0 \notin {pkey[k] : k \in DOMAIN pkey}
      BY <3>1 DEF ToSet
    <3> QED BY <1>4, <3>2
  <2> QED BY <2>2, <2>3
<1>6. pkey \in Seq(DOMAIN stmt.cols)
  <2>1. pkey = [i \in 1..Len(stmt.pkey) |-> pkey[i]]
    BY <1>4
  <2> DEFINE D == DOMAIN stmt.cols
             m == Len(stmt.pkey)
  <2>2. m \in Nat /\ pkey = [i \in 1..m |-> pkey[i]] /\ \A i \in 1..m : pkey[i] \in D
    BY <1>4, <1>5, <2>1
  <2> HIDE DEF pkey, D, m
  <2>3. pkey \in Seq(D)
    BY <2>2
  <2> QED BY <2>3 DEF D
<1> HIDE DEF pkey, bare
<1> QED BY <1>1, <1>2, <1>6 DEF SchemaFits

LEMMA SchemaValue ==
  ASSUME NEW schema, SchemaFits(schema)
  PROVE  /\ Writable(CatalogKey(schema.table), Json(schema))
         /\ Json(schema) # Deleted /\ Json(schema).schema = schema
<1>1. Json(schema).tag = "json" /\ Json(schema).schema = schema /\ Deleted.tag = "deleted"
  BY DEF Json, Deleted
<1>2. schema.table \in DOMAIN NameBytes
  BY DEF SchemaFits
<1>3. IsValue(Json(schema)) /\ Json(schema) # Deleted
  BY <1>1 DEF IsValue
<1>4. Entry(schema.table, Json(schema))
  BY <1>1 DEF Entry
<1>5. \A t \in DOMAIN NameBytes : CatalogKey(schema.table) = CatalogKey(t) => t = schema.table
  BY <1>2, CatalogKeys
<1> QED BY <1>1, <1>2, <1>3, <1>4, <1>5, CatalogKeys DEF Writable

\* A schema is cached that is in the store.
LEMMA CacheFill ==
  ASSUME NEW cache, NEW store, NEW name \in DOMAIN NameBytes, NEW schema,
         DOMAIN cache \subseteq DOMAIN NameBytes,
         \A t \in DOMAIN cache :
             t # name => CatalogKey(t) \in DOMAIN store /\ store[CatalogKey(t)] = Json(cache[t]),
         CatalogKey(name) \in DOMAIN store, store[CatalogKey(name)] = Json(schema),
         NEW new, new = Changed(cache, {[key |-> name, val |-> schema]})
  PROVE  DOMAIN new \subseteq DOMAIN NameBytes /\ CacheFits(new, store)
<1>1. ChangedBy(cache, name, schema, new)
  BY ChangedOnce
<1>2. \A t \in DOMAIN new : \/ t = name /\ new[t] = schema
                            \/ t # name /\ t \in DOMAIN cache /\ new[t] = cache[t]
  BY <1>1 DEF ChangedBy
<1>3. ASSUME NEW t \in DOMAIN new
      PROVE  /\ t \in DOMAIN NameBytes
             /\ CatalogKey(t) \in DOMAIN store /\ store[CatalogKey(t)] = Json(new[t])
  <2>1. CASE t = name /\ new[t] = schema
    BY <2>1
  <2>2. CASE t # name /\ t \in DOMAIN cache /\ new[t] = cache[t]
    BY <2>2
  <2> QED BY <1>2, <2>1, <2>2
<1> QED BY <1>3 DEF CacheFits

LEMMA CreateTableFits == SQLInv /\ CreateTable => SQLInv'
<1> SUFFICES ASSUME SQLInv, CreateTable PROVE SQLInv'
  OBVIOUS
<1> DEFINE schema == SchemaOf(job.stmt)
           name == job.stmt.table
           key == CatalogKey(name)
           val == Json(schema)
<1>1. up /\ job.pc = "create" /\ up' = up
  BY DEF CreateTable, Running
<1>2. Statement(job.stmt) /\ job.stmt.kind = "create"
  BY <1>1 DEF SQLInv, JobFits, Stage
<1>3. ASSUME Refuse PROVE SQLInv'
  BY <1>1, <1>3, RefuseFits
<1>4. ASSUME 0 \notin ToSet(schema.pkey), swallowed' = (swallowed \/ key \in DOMAIN kv),
             \/ /\ Put(key, val) /\ Reply(Success(0, <<>>))
                /\ tables' = Changed(tables, {[key |-> name, val |-> schema]})
             \/ /\ PutFails(key, val) /\ Reply(Error(0))
                /\ UNCHANGED tables
      PROVE  SQLInv'
  <2>1. SchemaFits(schema) /\ schema.table = name
    BY <1>2, <1>4, SchemaOfFits
  <2> HIDE DEF schema
  <2>2. /\ Writable(key, val) /\ val # Deleted /\ name \in DOMAIN NameBytes
    BY <2>1, SchemaValue DEF SchemaFits
  <2>3. StoreFits(kv, maybe) /\ CacheFits(tables, kv) /\ DOMAIN tables \subseteq DOMAIN NameBytes
    BY <1>1 DEF SQLInv
  <2>4. JobFits(job') /\ job'.pc = "done" /\ answer'.given = TRUE
    BY <1>4, ReplyFits, NoAnswers DEF SQLInv
  <2>5. swallowed' \in BOOLEAN
    BY <1>4
  <2> HIDE DEF val
  <2>6. CASE /\ Put(key, val)
             /\ tables' = Changed(tables, {[key |-> name, val |-> schema]})
    <3>1. StoreFits(kv', maybe')
      BY <2>2, <2>3, <2>6, PutFits
    <3>2. ChangedBy(kv, key, val, kv')
      BY <2>6, ChangedOnce DEF Put
    <3>3. key \in DOMAIN kv' /\ kv'[key] = Json(schema)
      BY <2>2, <3>2 DEF ChangedBy, val
    <3>4. ASSUME NEW t \in DOMAIN tables, t # name
          PROVE  CatalogKey(t) \in DOMAIN kv' /\ kv'[CatalogKey(t)] = Json(tables[t])
      <4> DEFINE k == CatalogKey(t)
      <4>1. k # key
        BY <2>2, <2>3, <3>4, CatalogKeys
      <4>2. k \in DOMAIN kv /\ kv[k] = Json(tables[t])
        BY <2>3 DEF CacheFits
      <4> HIDE DEF k, key
      <4>3. k \in DOMAIN kv' /\ kv'[k] = kv[k]
        BY <3>2, <4>1, <4>2 DEF ChangedBy
      <4> QED BY <4>2, <4>3 DEF k
    <3>5. DOMAIN tables' \subseteq DOMAIN NameBytes /\ CacheFits(tables', kv')
      <4> HIDE DEF name
      <4> QED BY <2>2, <2>3, <2>6, <3>3, <3>4, CacheFill
    <3> QED BY <1>1, <2>4, <2>5, <3>1, <3>5 DEF SQLInv
  <2>7. CASE PutFails(key, val) /\ UNCHANGED tables
    <3>1. StoreFits(kv', maybe') /\ kv' = kv
      BY <2>2, <2>3, <2>7, PutFailsFits
    <3> QED BY <1>1, <2>3, <2>4, <2>5, <2>7, <3>1 DEF SQLInv
  <2> QED BY <1>4, <2>6, <2>7
<1> HIDE DEF schema, name
<1> QED BY <1>3, <1>4, Zenon DEF CreateTable, schema, name, key, val

LEMMA GetSchemaFits == SQLInv /\ GetSchema => SQLInv'
<1> SUFFICES ASSUME SQLInv, GetSchema PROVE SQLInv'
  OBVIOUS
<1> DEFINE name == job.stmt.table
           key == CatalogKey(name)
           schema == IF name \in DOMAIN tables THEN tables[name] ELSE kv[key].schema
           pc == IF job.stmt.kind = "insert" THEN "insert" ELSE "plan"
<1>1. up /\ job.pc = "schema" /\ up' = up
  BY DEF GetSchema, Running
<1>2. Statement(job.stmt) /\ name \in DOMAIN NameBytes /\ IsJob(job)
      /\ job.rows = <<>> /\ job.n = 0 /\ job.count = 0
  BY <1>1 DEF SQLInv, JobFits, Stage, Statement
<1>3. StoreFits(kv, maybe) /\ CacheFits(tables, kv) /\ DOMAIN tables \subseteq DOMAIN NameBytes
  BY <1>1 DEF SQLInv
<1>4. ASSUME Refuse PROVE SQLInv'
  BY <1>1, <1>4, RefuseFits
<1>5. ASSUME name \in DOMAIN tables \/ key \in DOMAIN kv,
             job' = [job EXCEPT !.schema = schema, !.pc = pc],
             tables' = Changed(tables, {[key |-> name, val |-> schema]}),
             UNCHANGED <<kv, maybe, answer, swallowed>>
      PROVE  SQLInv'
  <2>1. key \in DOMAIN kv /\ Entry(name, kv[key])
    BY <1>2, <1>3, <1>5 DEF CacheFits, StoreFits
  <2>2. name \in DOMAIN tables => kv[key] = Json(tables[name]) /\ Json(tables[name]).schema = tables[name]
    BY <1>3 DEF CacheFits, Json
  <2>3. schema = kv[key].schema
    <3> HIDE DEF key
    <3> QED BY <2>2
  <2>4. kv[key] = Json(schema) /\ SchemaFits(schema)
    BY <2>1, <2>3 DEF Entry
  <2>5. pc \in {"insert", "plan"} /\ (pc = "insert" => job.stmt.kind = "insert")
    OBVIOUS
  <2> HIDE DEF schema, pc
  <2>6. DOMAIN tables' \subseteq DOMAIN NameBytes /\ CacheFits(tables', kv)
    <3>1. \A t \in DOMAIN tables :
             t # name => CatalogKey(t) \in DOMAIN kv /\ kv[CatalogKey(t)] = Json(tables[t])
      BY <1>3 DEF CacheFits
    <3> HIDE DEF name
    <3> QED BY <1>2, <1>3, <1>5, <2>1, <2>4, <3>1, CacheFill
  <2>7. /\ IsJob(job') /\ job'.pc = pc /\ job'.schema = schema /\ job'.stmt = job.stmt
        /\ job'.rows = job.rows /\ job'.n = job.n /\ job'.count = job.count
    BY <1>2, <1>5 DEF IsJob
  <2>8. Stage(job')
    BY <1>2, <2>4, <2>5, <2>7 DEF Stage
  <2>9. JobFits(job')
    <3>1. Len(job'.rows) = 0
      BY <1>2, <2>7
    <3> QED BY <1>2, <2>7, <2>8, <3>1 DEF JobFits
  <2>10. ~answer.given
    BY <1>1 DEF SQLInv
  <2> QED BY <1>1, <1>3, <1>5, <2>5, <2>6, <2>7, <2>9, <2>10 DEF SQLInv
<1> HIDE DEF name, schema, pc
<1> QED BY <1>4, <1>5, Zenon DEF GetSchema, schema, name, key, pc

\* A write that is no catalog entry and answers, or fails and answers.
LEMMA RowWriteFits ==
  ASSUME SQLInv, up, up' = up, NEW key, NEW val, Writable(key, val),
         \A t \in DOMAIN NameBytes : key # CatalogKey(t),
         Put(key, val) \/ PutFails(key, val), UNCHANGED tables
  PROVE  StoreFits(kv', maybe') /\ CacheFits(tables', kv') /\ DOMAIN tables' \subseteq DOMAIN NameBytes
<1>1. StoreFits(kv, maybe) /\ CacheFits(tables, kv) /\ DOMAIN tables \subseteq DOMAIN NameBytes
  BY DEF SQLInv
<1>2. CASE Put(key, val)
  <2>1. StoreFits(kv', maybe')
    BY <1>1, <1>2, PutFits
  <2>2. CacheFits(tables, kv')
    BY <1>1, <1>2, PutKeepsCache
  <2> QED BY <1>1, <2>1, <2>2
<1>3. CASE PutFails(key, val)
  <2>1. StoreFits(kv', maybe') /\ kv' = kv
    BY <1>1, <1>3, PutFailsFits
  <2> QED BY <1>1, <2>1
<1> QED BY <1>2, <1>3

LEMMA RowWritable ==
  ASSUME NEW schema, SchemaFits(schema), NEW row, RowFits(schema, row), RowKey(schema, row) \in Seq(Int)
  PROVE  /\ \A t \in DOMAIN NameBytes : RowKey(schema, row) # CatalogKey(t)
         /\ \A bytes : Writable(RowKey(schema, row), RowBytes(bytes))
         /\ Writable(RowKey(schema, row), Deleted)
<1> DEFINE key == RowKey(schema, row)
<1>1. \A t \in DOMAIN NameBytes : key # CatalogKey(t)
  BY KeysApart
<1>2. IsValue(Deleted) /\ \A bytes : IsValue(RowBytes(bytes))
  BY DEF IsValue, Deleted, RowBytes
<1> HIDE DEF key
<1>3. key \in Seq(Int)
  BY DEF key
<1>4. Writable(key, Deleted) /\ \A bytes : Writable(key, RowBytes(bytes))
  BY <1>1, <1>2, <1>3 DEF Writable
<1> QED BY <1>1, <1>4 DEF key

LEMMA InsertFits == SQLInv /\ Insert => SQLInv'
<1> SUFFICES ASSUME SQLInv, Insert PROVE SQLInv'
  OBVIOUS
<1> DEFINE schema == job.schema
           value == job.stmt.value
           row == [i \in DOMAIN value |-> [value[i] EXCEPT !.type = schema.cols[i].type]]
           key == RowKey(schema, row)
           val == RowBytes(RowVal(schema, row))
<1>1. up /\ job.pc = "insert" /\ up' = up
  BY DEF Insert, Running
<1>2. SchemaFits(schema) /\ value \in Seq(Cells)
  BY <1>1 DEF SQLInv, JobFits, Stage, Statement
<1>3. ASSUME Refuse PROVE SQLInv'
  BY <1>1, <1>3, RefuseFits
<1>4. ASSUME Len(value) = Len(schema.cols), UNCHANGED <<tables, swallowed>>,
             \/ Put(key, val) /\ Reply(Success(1, <<>>))
             \/ PutFails(key, val) /\ Reply(Error(0))
      PROVE  SQLInv'
  <2>1. schema.cols \in Seq([name : STRING, type : {TypeI64, TypeStr}]) /\ schema.pkey \in Seq(DOMAIN schema.cols)
    BY <1>2 DEF SchemaFits
  <2>2. /\ DOMAIN value = DOMAIN schema.cols /\ DOMAIN row = DOMAIN value
        /\ \A i \in DOMAIN schema.pkey : schema.pkey[i] \in DOMAIN value
    <3>1. DOMAIN value = 1..Len(value) /\ DOMAIN schema.cols = 1..Len(schema.cols)
      BY <1>2, <2>1
    <3> QED BY <1>4, <2>1, <3>1
  <2>3. ASSUME NEW i \in DOMAIN value
        PROVE  row[i].type \in Int /\ row[i].i64 \in Int /\ row[i].str \in Seq(Int)
    <3> DEFINE C == [name : STRING, type : {TypeI64, TypeStr}]
               cols == schema.cols
    <3>1. value[i] \in Cells /\ cols[i] \in C
      <4>1. value \in Seq(Cells) /\ cols \in Seq(C) /\ i \in DOMAIN value /\ i \in DOMAIN cols
        BY <1>2, <2>1, <2>2
      <4> HIDE DEF value, cols, C
      <4> QED BY <4>1
    <3>2. schema.cols[i].type \in Int
      BY <3>1 DEF TypeI64, TypeStr
    <3>3. row[i] = [value[i] EXCEPT !.type = schema.cols[i].type]
      OBVIOUS
    <3> HIDE DEF row, value, schema
    <3>4. row[i].type = schema.cols[i].type /\ row[i].i64 = value[i].i64 /\ row[i].str = value[i].str
      BY <3>1, <3>3 DEF Cells
    <3>5. value[i].i64 \in Int /\ value[i].str \in Seq(Int)
      BY <3>1, CellsType
    <3> QED BY <3>2, <3>4, <3>5
  <2> HIDE DEF row, schema, value
  <2>4. RowFits(schema, row)
    BY <2>2, <2>3 DEF RowFits
  <2>5. key \in Seq(Int)
    BY <1>2, <2>2, <2>3, <2>4, InsertedKey
  <2>6. Writable(key, val) /\ \A t \in DOMAIN NameBytes : key # CatalogKey(t)
    BY <1>2, <2>4, <2>5, RowWritable
  <2> HIDE DEF key, val
  <2>7. StoreFits(kv', maybe') /\ CacheFits(tables', kv') /\ DOMAIN tables' \subseteq DOMAIN NameBytes
    BY <1>1, <1>4, <2>6, RowWriteFits
  <2>8. JobFits(job') /\ job'.pc = "done" /\ answer'.given = TRUE
    BY <1>4, ReplyFits, NoAnswers DEF SQLInv
  <2> QED BY <1>1, <1>4, <2>7, <2>8 DEF SQLInv
<1> HIDE DEF row, schema, value
<1> QED BY <1>3, <1>4, Zenon DEF Insert, schema, value, row, key, val
-----------------------------------------------------------------------------
(* Scans.                                                                  *)

\* A row that is landed on is one of the table.
LEMMA LandingFits ==
  ASSUME StoreFits(kv, maybe), NEW schema, SchemaFits(schema), NEW K, K \subseteq DOMAIN kv, NEW stop,
         Landing(schema, Least(K), stop).valid
  PROVE  RowFits(schema, Landing(schema, Least(K), stop).row)
<1> DEFINE at == Least(K)
           val == kv[at].bytes
           d == DecodeRow(schema, at, val)
           out == at = End \/ BytesLess(stop, at) \/ ~InTable(schema, at)
           none == [ok |-> TRUE, valid |-> FALSE, row |-> <<>>]
           some == [ok |-> d.ok, valid |-> d.ok, row |-> d.row]
<1>1. Landing(schema, at, stop) = IF out THEN none ELSE some
  BY DEF Landing
<1>2. none.valid = FALSE /\ some.valid = d.ok /\ some.row = d.row
  OBVIOUS
<1> HIDE DEF none, some, d
<1>3. ~out /\ d.ok
  <2> HIDE DEF out
  <2> QED BY <1>1, <1>2
<1>4. at \in Seq(Int)
  <2>1. K # {}
    BY <1>3 DEF Least
  <2>2. IsFiniteSet(K) /\ \A k \in K : k \in Seq(Int)
    BY FilterFinite DEF StoreFits
  <2>3. at \in K
    BY <2>1, <2>2, LeastIn
  <2> QED BY <2>2, <2>3
<1> HIDE DEF at, val
<1>5. RowFits(schema, d.row)
  BY <1>3, <1>4, DecodeFits DEF d
<1> HIDE DEF out
<1>6. Landing(schema, at, stop).row = d.row
  BY <1>1, <1>2, <1>3
<1>7. RowFits(schema, Landing(schema, at, stop).row)
  BY <1>5, <1>6
<1> QED BY <1>7 DEF at

LEMMA NoRows == \A schema : RowsFit(schema, <<>>)
<1>1. Len(<<>>) = 0 /\ <<>> = [i \in 1..0 |-> <<>>[i]]
  OBVIOUS
<1> QED BY <1>1 DEF RowsFit

LEMMA AppendFits ==
  ASSUME NEW schema, NEW rows, RowsFit(schema, rows), NEW row, RowFits(schema, row)
  PROVE  RowsFit(schema, Append(rows, row)) /\ Len(Append(rows, row)) = Len(rows) + 1
<1> DEFINE n == Len(rows)
           S == {rows[i] : i \in 1..n} \union {row}
           new == Append(rows, row)
<1>1. n \in Nat /\ rows = [i \in 1..n |-> rows[i]] /\ \A i \in 1..n : RowFits(schema, rows[i])
  BY DEF RowsFit
<1>2. rows \in Seq(S) /\ row \in S
  <2>1. \A i \in 1..n : rows[i] \in S
    OBVIOUS
  <2> HIDE DEF S, n
  <2> QED BY <1>1, <2>1 DEF S
<1> HIDE DEF S
<1>3. /\ new \in Seq(S) /\ Len(new) = n + 1
      /\ \A i \in 1..n : new[i] = rows[i]
      /\ new[n + 1] = row
  BY <1>2, AppendProperties
<1> HIDE DEF new
<1>4. new = [i \in 1..(n + 1) |-> new[i]]
  BY <1>3
<1> HIDE DEF n
<1>5. ASSUME NEW i \in 1..(n + 1) PROVE RowFits(schema, new[i])
  <2>1. CASE i = n + 1
    BY <1>3, <2>1
  <2>2. CASE i # n + 1
    <3>1. i \in 1..n
      BY <1>1, <2>2
    <3> QED BY <1>1, <1>3, <3>1
  <2> QED BY <2>1, <2>2
<1>6. n + 1 \in Nat
  BY <1>1
<1> QED BY <1>3, <1>4, <1>5, <1>6 DEF RowsFit, new, n

\* A step of a scan: the statement and its schema stay, the rows that were
\* read fit.
LEMMA ScanStep ==
  ASSUME SQLInv, up, up' = up, UNCHANGED <<kv, maybe, tables, answer>>, swallowed' \in BOOLEAN,
         job.pc \notin {"done", "idle"}, SchemaFits(job.schema), Checked(job.schema, job.stmt),
         IsJob(job'), job'.pc = "scan", job'.schema = job.schema, job'.stmt = job.stmt,
         RowsFit(job.schema, job'.rows), job'.n = job.n, job'.count = job.count,
         Len(job'.rows) >= Len(job.rows),
         job'.valid => RowFits(job.schema, job'.row)
  PROVE  SQLInv'
<1>1. Statement(job.stmt) /\ Len(job.rows) \in Nat /\ job.n \in 0..Len(job.rows) /\ job.count \in 0..job.n
  BY DEF SQLInv, JobFits, Stage
<1>2. Stage(job')
  BY <1>1 DEF Stage
<1>3. Len(job'.rows) \in Nat /\ job'.n \in 0..Len(job'.rows) /\ job'.count \in 0..job'.n
  <2>1. Len(job'.rows) \in Nat
    BY DEF RowsFit
  <2>2. job'.n \in 0..Len(job'.rows)
    BY <1>1, <2>1
  <2> QED BY <1>1, <2>1, <2>2
<1>4. JobFits(job')
  BY <1>2, <1>3 DEF JobFits
<1>5. ~answer'.given
  BY DEF SQLInv
<1> QED BY <1>4, <1>5 DEF SQLInv

LEMMA ExecCondFits == SQLInv /\ ExecCond => SQLInv'
<1> SUFFICES ASSUME SQLInv, ExecCond PROVE SQLInv'
  OBVIOUS
<1> DEFINE plan == Planned(job.schema, job.stmt.cond)
           K == {k \in DOMAIN kv : ~BytesLess(k, plan.start)}
           at == Least(K)
           landing == Landing(job.schema, at, plan.stop)
<1>1. up /\ job.pc = "plan" /\ up' = up
  BY DEF ExecCond, Running
<1>2. /\ SchemaFits(job.schema) /\ IsJob(job) /\ StoreFits(kv, maybe)
      /\ job.rows = <<>> /\ swallowed \in BOOLEAN
  BY <1>1 DEF SQLInv, JobFits, Stage
<1>3. ASSUME Refuse PROVE SQLInv'
  BY <1>1, <1>3, RefuseFits
<1>4. ASSUME Checked(job.schema, job.stmt), UNCHANGED <<kv, maybe, tables, answer, swallowed>>,
             job' = AtRow([job EXCEPT !.pc = "scan", !.stop = plan.stop], at, landing)
      PROVE  SQLInv'
  <2>1. landing.valid => RowFits(job.schema, landing.row)
    <3>1. K \subseteq DOMAIN kv
      OBVIOUS
    <3> HIDE DEF K
    <3> QED BY <1>2, <3>1, LandingFits
  <2> HIDE DEF landing, at, plan
  <2>2. /\ IsJob(job') /\ job'.pc = "scan" /\ job'.schema = job.schema /\ job'.stmt = job.stmt
        /\ job'.rows = <<>> /\ job'.n = job.n /\ job'.count = job.count
        /\ job'.valid = landing.valid /\ job'.row = landing.row
    BY <1>2, <1>4 DEF IsJob, AtRow
  <2>3. RowsFit(job.schema, job'.rows) /\ Len(job'.rows) >= Len(job.rows)
    BY <1>2, <2>2, NoRows
  <2> QED BY <1>1, <1>2, <1>4, <2>1, <2>2, <2>3, ScanStep
<1> HIDE DEF landing, at, plan
<1> QED BY <1>3, <1>4, Zenon DEF ExecCond, landing, at, plan, K

LEMMA ScanRowFits == SQLInv /\ ScanRow => SQLInv'
<1> SUFFICES ASSUME SQLInv, ScanRow PROVE SQLInv'
  OBVIOUS
<1> DEFINE K == {k \in DOMAIN kv : BytesLess(job.at, k)}
           next == Least(K)
           landing == Landing(job.schema, next, job.stop)
           taken == [job EXCEPT !.rows = Append(@, job.row)]
           rows == Append(job.rows, job.row)
<1>1. up /\ job.pc = "scan" /\ job.valid /\ up' = up
  BY DEF ScanRow, Running
<1>2. /\ SchemaFits(job.schema) /\ IsJob(job) /\ StoreFits(kv, maybe) /\ swallowed \in BOOLEAN
      /\ Checked(job.schema, job.stmt) /\ RowsFit(job.schema, job.rows) /\ RowFits(job.schema, job.row)
  BY <1>1 DEF SQLInv, JobFits, Stage
<1>3. ASSUME Refuse PROVE SQLInv'
  BY <1>1, <1>3, RefuseFits
<1>4. RowsFit(job.schema, rows) /\ Len(rows) >= Len(job.rows)
  <2>1. Len(job.rows) \in Nat /\ Len(rows) = Len(job.rows) + 1 /\ RowsFit(job.schema, rows)
    BY <1>2, AppendFits DEF RowsFit
  <2> HIDE DEF rows
  <2> QED BY <2>1
<1>5. ASSUME UNCHANGED <<kv, maybe, tables, answer>>, swallowed' \in BOOLEAN, job' = AtRow(taken, next, landing)
      PROVE  SQLInv'
  <2>1. landing.valid => RowFits(job.schema, landing.row)
    <3>1. K \subseteq DOMAIN kv
      OBVIOUS
    <3> HIDE DEF K
    <3> QED BY <1>2, <3>1, LandingFits
  <2> HIDE DEF landing, next
  <2>2. /\ IsJob(job') /\ job'.pc = job.pc /\ job'.schema = job.schema /\ job'.stmt = job.stmt
        /\ job'.rows = rows /\ job'.n = job.n /\ job'.count = job.count
        /\ job'.valid = landing.valid /\ job'.row = landing.row
    BY <1>2, <1>5 DEF IsJob, AtRow
  <2> HIDE DEF rows
  <2> QED BY <1>1, <1>2, <1>4, <1>5, <2>1, <2>2, ScanStep
<1>6. ASSUME UNCHANGED <<kv, maybe, tables, answer>>, swallowed' \in BOOLEAN,
             NEW at, job' = [taken EXCEPT !.at = at]
      PROVE  SQLInv'
  <2>2. /\ IsJob(job') /\ job'.pc = job.pc /\ job'.schema = job.schema /\ job'.stmt = job.stmt
        /\ job'.rows = rows /\ job'.n = job.n /\ job'.count = job.count
        /\ job'.valid = job.valid /\ job'.row = job.row
    BY <1>2, <1>6 DEF IsJob
  <2> HIDE DEF rows
  <2> QED BY <1>1, <1>2, <1>4, <1>6, <2>2, ScanStep
<1>7. \/ Refuse
      \/ /\ UNCHANGED <<kv, maybe, tables, answer>> /\ swallowed' = (swallowed \/ ~landing.ok)
         /\ job' = AtRow(taken, next, landing)
      \/ /\ UNCHANGED <<kv, maybe, tables, answer>> /\ swallowed' = TRUE
         /\ \E at : job' = [taken EXCEPT !.at = at]
  <2> HIDE DEF landing, next, taken
  <2> QED BY Zenon DEF ScanRow, landing, next, taken, K
<1> HIDE DEF landing, next, taken, rows
<1> QED BY <1>2, <1>3, <1>5, <1>6, <1>7

LEMMA ScanDoneFits == SQLInv /\ ScanDone => SQLInv'
<1> SUFFICES ASSUME SQLInv, ScanDone PROVE SQLInv'
  OBVIOUS
<1>1. up /\ job.pc = "scan" /\ UNCHANGED <<up, kv, maybe, tables, swallowed>>
  BY DEF ScanDone, Running
<1>2. ASSUME NEW n, NEW values, Reply(Success(n, values)) PROVE SQLInv'
  <2>1. JobFits(job') /\ job'.pc = "done" /\ answer'.given = TRUE
    BY <1>2, ReplyFits, NoAnswers DEF SQLInv
  <2> QED BY <1>1, <2>1 DEF SQLInv
<1>3. ASSUME job' = [job EXCEPT !.pc = "write"], UNCHANGED answer PROVE SQLInv'
  <2>1. JobFits(job) /\ IsJob(job) /\ Stage(job)
    BY DEF SQLInv, JobFits
  <2>2. /\ IsJob(job') /\ job'.pc = "write" /\ job'.schema = job.schema /\ job'.stmt = job.stmt
        /\ job'.rows = job.rows /\ job'.n = job.n /\ job'.count = job.count
    BY <1>3, <2>1 DEF IsJob
  <2>3. Stage(job')
    BY <1>1, <2>1, <2>2 DEF Stage
  <2>4. JobFits(job')
    BY <2>1, <2>2, <2>3 DEF JobFits
  <2>5. ~answer'.given
    BY <1>1, <1>3 DEF SQLInv
  <2> QED BY <1>1, <2>2, <2>4, <2>5 DEF SQLInv
<1> QED BY <1>2, <1>3 DEF ScanDone
-----------------------------------------------------------------------------
(* Writes of the rows that were found.                                     *)

LEMMA WithValuesFits ==
  ASSUME NEW schema, SchemaFits(schema), NEW row, RowFits(schema, row), NEW set, NEW cells,
         \A i \in DOMAIN set : ~IsPKey(schema, ColIndex(schema, set[i].column))
  PROVE  RowFits(schema, WithValues(schema, row, set, cells))
<1> DEFINE Of(c) == {i \in DOMAIN set : ColIndex(schema, set[i].column) = c}
           Val(c) == IF Of(c) = {} THEN row[c] ELSE cells[CHOOSE i \in Of(c) : \A j \in Of(c) : j <= i]
           new == [c \in DOMAIN row |-> Val(c)]
<1>1. WithValues(schema, row, set, cells) = new
  BY Zenon DEF WithValues
<1>2. ASSUME NEW i \in DOMAIN schema.pkey PROVE new[schema.pkey[i]] = row[schema.pkey[i]]
  <2> DEFINE c == schema.pkey[i]
  <2>1. IsPKey(schema, c)
    BY DEF IsPKey, ToSet
  <2>2. Of(c) = {}
    <3> HIDE DEF c
    <3> QED BY <2>1
  <2>3. c \in DOMAIN row
    BY DEF SchemaFits, RowFits
  <2> HIDE DEF c, Of
  <2>4. new[c] = row[c]
    BY <2>2, <2>3
  <2> QED BY <2>4 DEF c
<1>3. DOMAIN new = DOMAIN row
  BY Zenon
<1> HIDE DEF new
<1> QED BY <1>1, <1>2, <1>3 DEF RowFits

LEMMA ReplacedFit ==
  ASSUME NEW schema, NEW rows, RowsFit(schema, rows), NEW new, RowFits(schema, new), NEW key
  PROVE  LET after == [i \in DOMAIN rows |-> IF RowKey(schema, rows[i]) = key THEN new ELSE rows[i]]
         IN  RowsFit(schema, after) /\ Len(after) = Len(rows)
<1> DEFINE n == Len(rows)
           after == [i \in DOMAIN rows |-> IF RowKey(schema, rows[i]) = key THEN new ELSE rows[i]]
<1>1. n \in Nat /\ DOMAIN rows = 1..n /\ \A i \in 1..n : RowFits(schema, rows[i])
  BY DEF RowsFit
<1>2. DOMAIN after = 1..n /\ after = [i \in 1..n |-> after[i]] /\ \A i \in 1..n : RowFits(schema, after[i])
  <2> HIDE DEF n
  <2> QED BY <1>1
<1>3. Len(after) = n
  <2> HIDE DEF after, n
  <2>1. after \in Seq({after[i] : i \in 1..n})
    BY <1>1, <1>2
  <2> QED BY <1>1, <1>2, <2>1, LenProperties
<1> HIDE DEF after, n
<1>4. RowsFit(schema, after)
  BY <1>1, <1>2, <1>3 DEF RowsFit
<1> QED BY <1>3, <1>4 DEF after, n

\* The row that is written next.
LEMMA NextRow ==
  ASSUME SQLInv, job.pc = "write", job.n < Len(job.rows)
  PROVE  /\ SchemaFits(job.schema) /\ RowsFit(job.schema, job.rows) /\ Checked(job.schema, job.stmt)
         /\ RowFits(job.schema, job.rows[job.n + 1]) /\ Statement(job.stmt) /\ IsJob(job)
         /\ job.n \in Nat /\ Len(job.rows) \in Nat /\ job.count \in 0..job.n /\ ~answer.given
<1>1. /\ SchemaFits(job.schema) /\ RowsFit(job.schema, job.rows) /\ Checked(job.schema, job.stmt)
      /\ Statement(job.stmt) /\ IsJob(job)
      /\ job.n \in 0..Len(job.rows) /\ Len(job.rows) \in Nat /\ job.count \in 0..job.n /\ ~answer.given
  BY DEF SQLInv, JobFits, Stage
<1>2. job.n + 1 \in 1..Len(job.rows)
  BY <1>1
<1>3. RowFits(job.schema, job.rows[job.n + 1])
  BY <1>1, <1>2 DEF RowsFit
<1> QED BY <1>1, <1>3

LEMMA WriteStep ==
  ASSUME SQLInv, up, up' = up, UNCHANGED <<tables, answer, swallowed>>,
         StoreFits(kv', maybe'), CacheFits(tables', kv'), job.pc = "write", job.n < Len(job.rows),
         IsJob(job'), job'.pc = "write", job'.schema = job.schema, job'.stmt = job.stmt,
         RowsFit(job.schema, job'.rows), Len(job'.rows) = Len(job.rows),
         job'.n = job.n + 1, job'.count \in {job.count, job.count + 1}
  PROVE  SQLInv'
<1>1. /\ SchemaFits(job.schema) /\ Checked(job.schema, job.stmt) /\ Statement(job.stmt)
      /\ job.n \in Nat /\ Len(job.rows) \in Nat /\ job.count \in 0..job.n /\ ~answer.given
  BY NextRow
<1>2. Stage(job')
  BY <1>1 DEF Stage
<1>3. Len(job'.rows) \in Nat /\ job'.n \in 0..Len(job'.rows) /\ job'.count \in 0..job'.n
  BY <1>1
<1>4. JobFits(job')
  BY <1>2, <1>3 DEF JobFits
<1> QED BY <1>1, <1>4 DEF SQLInv

LEMMA DeleteRowFits == SQLInv /\ DeleteRow => SQLInv'
<1> SUFFICES ASSUME SQLInv, DeleteRow PROVE SQLInv'
  OBVIOUS
<1> DEFINE key == RowKey(job.schema, job.rows[job.n + 1])
<1>1. up /\ job.pc = "write" /\ job.n < Len(job.rows) /\ UNCHANGED <<up, tables, swallowed>>
  BY DEF DeleteRow, Running
<1>2. /\ SchemaFits(job.schema) /\ RowsFit(job.schema, job.rows)
      /\ RowFits(job.schema, job.rows[job.n + 1]) /\ IsJob(job)
  BY <1>1, NextRow
<1>3. StoreFits(kv, maybe) /\ CacheFits(tables, kv) /\ DOMAIN tables \subseteq DOMAIN NameBytes
  BY <1>1 DEF SQLInv
<1>4. key \in DOMAIN kv => Writable(key, Deleted) /\ \A t \in DOMAIN NameBytes : key # CatalogKey(t)
  BY <1>2, <1>3, RowWritable DEF StoreFits
<1> HIDE DEF key
<1>5. CASE job' = [job EXCEPT !.n = @ + 1] /\ UNCHANGED <<kv, maybe, answer>>
  <2>1. /\ IsJob(job') /\ job'.pc = "write" /\ job'.schema = job.schema /\ job'.stmt = job.stmt
        /\ job'.rows = job.rows /\ job'.n = job.n + 1 /\ job'.count = job.count
    BY <1>1, <1>2, <1>5 DEF IsJob
  <2> QED BY <1>1, <1>2, <1>3, <1>5, <2>1, WriteStep
<1>6. CASE /\ key \in DOMAIN kv /\ Put(key, Deleted)
           /\ job' = [job EXCEPT !.n = @ + 1, !.count = @ + 1] /\ UNCHANGED answer
  <2>1. /\ IsJob(job') /\ job'.pc = "write" /\ job'.schema = job.schema /\ job'.stmt = job.stmt
        /\ job'.rows = job.rows /\ job'.n = job.n + 1 /\ job'.count = job.count + 1
    BY <1>1, <1>2, <1>6 DEF IsJob
  <2>2. StoreFits(kv', maybe') /\ CacheFits(tables', kv')
    BY <1>1, <1>4, <1>6, RowWriteFits
  <2> QED BY <1>1, <1>2, <1>6, <2>1, <2>2, WriteStep
<1>7. CASE key \in DOMAIN kv /\ PutFails(key, Deleted) /\ Reply(Error(job.count))
  <2>1. StoreFits(kv', maybe') /\ CacheFits(tables', kv') /\ DOMAIN tables' \subseteq DOMAIN NameBytes
    BY <1>1, <1>4, <1>7, RowWriteFits
  <2>2. JobFits(job') /\ job'.pc = "done" /\ answer'.given = TRUE
    BY <1>7, ReplyFits, NoAnswers DEF SQLInv
  <2> QED BY <1>1, <2>1, <2>2 DEF SQLInv
<1> QED BY <1>5, <1>6, <1>7, Zenon DEF DeleteRow, key

LEMMA UpdateRowFits == SQLInv /\ UpdateRow => SQLInv'
<1> SUFFICES ASSUME SQLInv, UpdateRow PROVE SQLInv'
  OBVIOUS
<1> DEFINE schema == job.schema
           set == job.stmt.value
           row == job.rows[job.n + 1]
           cells == NewValues(schema, row, set)
           new == WithValues(schema, row, set, cells)
           key == RowKey(schema, row)
           val == RowBytes(RowVal(schema, new))
           after == [i \in DOMAIN job.rows |-> IF RowKey(schema, job.rows[i]) = key THEN new ELSE job.rows[i]]
           step == [job EXCEPT !.n = @ + 1,
                               !.rows = [i \in DOMAIN @ |-> IF RowKey(schema, @[i]) = key THEN new ELSE @[i]]]
<1>1. up /\ job.pc = "write" /\ job.n < Len(job.rows) /\ job.stmt.kind = "update" /\ up' = up
  BY DEF UpdateRow, Running
<1>2. /\ SchemaFits(schema) /\ RowsFit(schema, job.rows) /\ RowFits(schema, row) /\ IsJob(job)
      /\ Checked(schema, job.stmt)
  BY <1>1, NextRow
<1>3. StoreFits(kv, maybe) /\ CacheFits(tables, kv) /\ DOMAIN tables \subseteq DOMAIN NameBytes
  BY <1>1 DEF SQLInv
<1>4. RowFits(schema, new)
  <2>1. \A i \in DOMAIN set : ~IsPKey(schema, ColIndex(schema, set[i].column))
    <3> HIDE DEF schema
    <3> QED BY <1>1, <1>2 DEF Checked
  <2> HIDE DEF schema, row, set, cells
  <2> QED BY <1>2, <2>1, WithValuesFits
<1>5. key \in DOMAIN kv => Writable(key, val) /\ \A t \in DOMAIN NameBytes : key # CatalogKey(t)
  <2> HIDE DEF schema, row, new
  <2> QED BY <1>2, <1>3, RowWritable DEF StoreFits
<1>6. ASSUME Refuse PROVE SQLInv'
  BY <1>1, <1>6, RefuseFits
<1>7. RowsFit(schema, after) /\ Len(after) = Len(job.rows)
  <2> HIDE DEF schema, new, key
  <2> QED BY <1>2, <1>4, ReplacedFit
<1>8. ASSUME job' = step
      PROVE  /\ IsJob(job') /\ job'.pc = "write" /\ job'.schema = schema /\ job'.stmt = job.stmt
             /\ job'.rows = after /\ job'.n = job.n + 1 /\ job'.count = job.count
  <2>1. job' = [job EXCEPT !.n = job.n + 1, !.rows = after]
    BY <1>8
  <2> HIDE DEF after
  <2> QED BY <1>1, <1>2, <2>1 DEF IsJob
<1> HIDE DEF set, row, cells, new, key, val, after, step
<1>9. CASE job' = step /\ UNCHANGED <<kv, maybe, answer, tables, swallowed>>
  BY <1>1, <1>3, <1>7, <1>8, <1>9, WriteStep
<1>10. CASE key \in DOMAIN kv /\ Put(key, val) /\ job' = step /\ UNCHANGED <<answer, tables, swallowed>>
  <2>1. StoreFits(kv', maybe') /\ CacheFits(tables', kv')
    BY <1>1, <1>5, <1>10, RowWriteFits
  <2> QED BY <1>1, <1>7, <1>8, <1>10, <2>1, WriteStep
<1>11. CASE key \in DOMAIN kv /\ PutFails(key, val) /\ Reply(Error(0)) /\ UNCHANGED <<tables, swallowed>>
  <2>1. StoreFits(kv', maybe') /\ CacheFits(tables', kv') /\ DOMAIN tables' \subseteq DOMAIN NameBytes
    BY <1>1, <1>5, <1>11, RowWriteFits
  <2>2. JobFits(job') /\ job'.pc = "done" /\ answer'.given = TRUE
    BY <1>11, ReplyFits, NoAnswers DEF SQLInv
  <2> QED BY <1>1, <1>11, <2>1, <2>2 DEF SQLInv
<1> HIDE DEF schema
<1> QED BY <1>6, <1>9, <1>10, <1>11, Zenon DEF UpdateRow, schema, set, row, cells, new, key, val, step

LEMMA WriteDoneFits == SQLInv /\ (WriteDone \/ ReadFails) => SQLInv'
<1> SUFFICES ASSUME SQLInv, WriteDone \/ ReadFails PROVE SQLInv'
  OBVIOUS
<1>1. UNCHANGED <<up, kv, maybe, tables, swallowed>>
  BY DEF WriteDone, ReadFails
<1>2. \E a : a.given = TRUE /\ Reply(a)
  BY NoAnswers DEF WriteDone, ReadFails
<1>3. JobFits(job') /\ job'.pc = "done" /\ answer'.given = TRUE
  BY <1>2, ReplyFits DEF SQLInv
<1> QED BY <1>1, <1>3 DEF SQLInv
-----------------------------------------------------------------------------
LEMMA StutterFits == SQLInv /\ UNCHANGED vars => SQLInv'
BY DEF vars, SQLInv, StoreFits, CacheFits, JobFits, IsJob, Stage

LEMMA StepFits == SQLInv /\ [Next]_vars => SQLInv'
<1> SUFFICES ASSUME SQLInv, [Next]_vars PROVE SQLInv'
  OBVIOUS
<1>1. CASE Open
  BY <1>1, OpenFits
<1>2. CASE Close \/ Crash
  BY <1>2, CloseFits
<1>3. CASE \E text \in Texts : Exec(text)
  BY <1>3, ExecFits
<1>4. CASE TakeAnswer
  BY <1>4, TakeAnswerFits
<1>5. CASE CreateTable
  BY <1>5, CreateTableFits
<1>6. CASE GetSchema
  BY <1>6, GetSchemaFits
<1>7. CASE Insert
  BY <1>7, InsertFits
<1>8. CASE ExecCond
  BY <1>8, ExecCondFits
<1>9. CASE ScanRow
  BY <1>9, ScanRowFits
<1>10. CASE ScanDone
  BY <1>10, ScanDoneFits
<1>11. CASE UpdateRow
  BY <1>11, UpdateRowFits
<1>12. CASE DeleteRow
  BY <1>12, DeleteRowFits
<1>13. CASE WriteDone \/ ReadFails
  BY <1>13, WriteDoneFits
<1>14. CASE UNCHANGED vars
  BY <1>14, StutterFits
<1> QED BY <1>1, <1>2, <1>3, <1>4, <1>5, <1>6, <1>7, <1>8, <1>9, <1>10, <1>11, <1>12, <1>13, <1>14,
           Zenon DEF Next

\* The inductive invariant holds of every reachable state: whatever the steps
\* of Engine.Exec did so far, the store, the cache and the statement that runs
\* fit each other.
THEOREM SQLInvariant == Spec => []SQLInv
<1>1. Init => SQLInv
  BY InitFits
<1>2. SQLInv /\ [Next]_vars => SQLInv'
  BY StepFits
<1> QED BY <1>1, <1>2, PTL DEF Spec

\* The state keeps its type: an answer is there exactly when the statement is
\* done, what is stored is a row or a schema, and no deletion stays as a value.
THEOREM SQLEngineTypeCorrect == Spec => []EngineTypeOK
<1>1. SQLInv => EngineTypeOK
  <2> SUFFICES ASSUME SQLInv PROVE EngineTypeOK
    OBVIOUS
  <2>1. \A k \in DOMAIN kv : kv[k].tag \in {"row", "json"}
    BY DEF SQLInv, StoreFits
  <2>2. \A c \in maybe : c.val.tag \in {"row", "json", "deleted"}
    BY DEF SQLInv, StoreFits, IsValue
  <2>3. /\ job.pc \in {"idle", "create", "schema", "insert", "plan", "scan", "write", "done"}
        /\ job.n \in 0..Len(job.rows) /\ job.count \in 0..job.n
    BY DEF SQLInv, JobFits, Stage
  <2> QED BY <2>1, <2>2, <2>3 DEF SQLInv, EngineTypeOK
<1> QED BY <1>1, SQLInvariant, PTL

\* A cached schema is the stored one, whatever statements failed, were refused
\* or were cut short by a crash (GetSchema, engine.go:45).
THEOREM CacheIsCatalog == Spec => []CacheMatchesCatalog
<1>1. SQLInv => CacheMatchesCatalog
  BY DEF SQLInv, CacheFits, CacheMatchesCatalog
<1> QED BY <1>1, SQLInvariant, PTL

\* The key of a new row compares with any other key as their cells do.
LEMMA InsertOrder == SQLInv => KeyOrder
<1> SUFFICES ASSUME SQLInv, job.pc = "insert", Len(job.stmt.value) = Len(job.schema.cols)
             PROVE  KeyOrder
  BY DEF KeyOrder
<1> DEFINE schema == job.schema
           value == job.stmt.value
           row == [i \in DOMAIN value |-> [value[i] EXCEPT !.type = schema.cols[i].type]]
           new == KeyCells(schema, row)
           types(tuple) == [i \in DOMAIN tuple |-> tuple[i].type]
           n == Len(schema.pkey)
<1>1. /\ SchemaFits(schema) /\ value \in Seq(Cells)
      /\ schema.cols \in Seq([name : STRING, type : {TypeI64, TypeStr}]) /\ schema.pkey \in Seq(DOMAIN schema.cols)
  BY DEF SQLInv, JobFits, Stage, Statement, SchemaFits
<1>2. /\ DOMAIN value = DOMAIN schema.cols /\ DOMAIN row = DOMAIN value
      /\ n \in Nat /\ DOMAIN schema.pkey = 1..n /\ \A i \in 1..n : schema.pkey[i] \in DOMAIN value
  <2>1. DOMAIN value = 1..Len(value) /\ DOMAIN schema.cols = 1..Len(schema.cols)
    BY <1>1
  <2> QED BY <1>1, <2>1
<1>3. ASSUME NEW i \in DOMAIN value PROVE row[i] \in Cells
  <2>1. value[i] \in Cells
    <3> HIDE DEF value
    <3> QED BY <1>1
  <2>2. schema.cols[i].type \in {TypeI64, TypeStr}
    <3> DEFINE cols == schema.cols
               C == [name : STRING, type : {TypeI64, TypeStr}]
    <3>1. cols \in Seq(C) /\ i \in DOMAIN cols
      BY <1>1, <1>2
    <3> HIDE DEF cols, C
    <3>2. cols[i] \in C
      BY <3>1
    <3> QED BY <3>2 DEF cols, C
  <2>3. row[i] = [value[i] EXCEPT !.type = schema.cols[i].type]
    OBVIOUS
  <2> HIDE DEF row, value, schema
  <2> QED BY <2>1, <2>2, <2>3 DEF Cells
<1> HIDE DEF row
<1>4. new \in Seq(Cells) /\ Len(new) = n
  <2>1. new = [i \in 1..n |-> row[schema.pkey[i]]]
    BY <1>2 DEF KeyCells
  <2>2. \A i \in 1..n : row[schema.pkey[i]] \in Cells
    BY <1>2, <1>3
  <2> HIDE DEF new, n
  <2> QED BY <1>2, <2>1, <2>2
<1> HIDE DEF new, n
<1>5. ASSUME NEW other \in KeyTuples, types(other) = types(new)
      PROVE  /\ TupleLess(new, other) <=> BytesLess(Tagged(new), Tagged(other))
             /\ TupleLess(other, new) <=> BytesLess(Tagged(other), Tagged(new))
  <2>1. other \in Seq(Cells)
    BY CatalogAssumption
  <2>2. DOMAIN other = DOMAIN new /\ \A i \in DOMAIN new : other[i].type = new[i].type
    <3>1. DOMAIN types(other) = DOMAIN other /\ DOMAIN types(new) = DOMAIN new
      OBVIOUS
    <3>2. DOMAIN other = DOMAIN new
      BY <1>5, <3>1
    <3>3. ASSUME NEW i \in DOMAIN new PROVE other[i].type = new[i].type
      <4>1. types(other)[i] = other[i].type /\ types(new)[i] = new[i].type
        BY <3>2
      <4> HIDE DEF types
      <4> QED BY <1>5, <4>1
    <3> QED BY <3>2, <3>3
  <2>3. SameColumns(new, other) /\ SameColumns(other, new)
    <3>1. DOMAIN other = 1..Len(other) /\ DOMAIN new = 1..Len(new) /\ Len(other) \in Nat /\ Len(new) \in Nat
      BY <1>4, <2>1
    <3>2. 1..Len(other) = 1..Len(new)
      BY <2>2, <3>1, Zenon
    <3> DEFINE p == Len(other)
               q == Len(new)
    <3>3. p \in Nat /\ q \in Nat /\ 1..p = 1..q
      BY <3>1, <3>2
    <3> HIDE DEF p, q
    <3>4. p = q
      <4>1. \A i \in Nat : i \in 1..p <=> i \in 1..q
        BY <3>3
      <4> QED BY <3>3, <4>1
    <3>5. \A i \in 1..Len(new) : other[i].type = new[i].type
      BY <2>2, <3>1, Zenon
    <3> QED BY <3>4, <3>5 DEF SameColumns, p, q
  <2> QED BY <1>4, <2>1, <2>3, TupleOrder
<1> QED BY <1>5, Zenon DEF KeyOrder, new, row

\* The order of rows: while a row is inserted, the bytes of its key compare
\* with those of any key of the same types as the cells do, number by number and
\* string by string (cell.go:77, schema.go:52).
THEOREM InsertedKeyOrder == Spec => []KeyOrder
<1>1. SQLInv => KeyOrder
  BY InsertOrder
<1> QED BY <1>1, SQLInvariant, PTL
-----------------------------------------------------------------------------
(* The invariant of the rows: what is not a schema is the row of a table   *)
(* in the catalog, and so is every row a statement holds.  It stands as    *)
(* long as no error was dropped.                                           *)

IsCatalogKey(key) == \E t \in DOMAIN NameBytes : key = CatalogKey(t)

InCatalog(store, schema) ==
    CatalogKey(schema.table) \in DOMAIN store /\ store[CatalogKey(schema.table)] = Json(schema)

Stored(schema, key, val) ==
    \E row : TypedRow(schema, row) /\ key = RowKey(schema, row) /\ val = RowBytes(RowVal(schema, row))

StoredIn(store, key, val) ==
    \E t \in DOMAIN NameBytes :
        CatalogKey(t) \in DOMAIN store /\ Stored(store[CatalogKey(t)].schema, key, val)

\* A schema whose write failed is of a table that does not exist yet.
KeptRows(store, failed) ==
    /\ \A k \in DOMAIN store : ~IsCatalogKey(k) => StoredIn(store, k, store[k])
    /\ \A c \in failed : IF IsCatalogKey(c.key) THEN c.key \notin DOMAIN store
                         ELSE c.val = Deleted \/ StoredIn(store, c.key, c.val)

JobReads(j, store) ==
    /\ j.pc \in {"insert", "plan", "scan", "write"} => InCatalog(store, j.schema)
    /\ j.pc \in {"scan", "write"} => \A i \in 1..Len(j.rows) : TypedRow(j.schema, j.rows[i])
    /\ j.pc = "scan" /\ j.valid => TypedRow(j.schema, j.row)
    /\ j.pc \notin {"idle", "done"} => \E text \in Texts : Parsed(text).ok /\ j.stmt = Parsed(text).out

RowsInv == ~swallowed => KeptRows(kv, maybe) /\ JobReads(job, kv)

LEMMA TypedFits ==
  ASSUME NEW schema, SchemaFits(schema), NEW row, TypedRow(schema, row)
  PROVE  RowFits(schema, row)
<1>1. ASSUME NEW i \in DOMAIN schema.pkey PROVE row[schema.pkey[i]].str \in Seq(Int)
  <2> DEFINE cell == row[schema.pkey[i]]
  <2>1. schema.pkey[i] \in DOMAIN schema.cols
    BY DEF SchemaFits
  <2>2. cell \in Cells
    BY <2>1 DEF TypedRow
  <2> HIDE DEF cell
  <2>3. cell.str \in Seq(Int)
    BY <2>2, CellsType
  <2> QED BY <2>3 DEF cell
<1> QED BY <1>1 DEF TypedRow, RowFits

\* The key of a schema is in no table.
LEMMA SchemaInNoTable ==
  ASSUME NEW schema, SchemaFits(schema), NEW t \in DOMAIN NameBytes
  PROVE  ~InTable(schema, CatalogKey(t))
<1> SUFFICES ASSUME InTable(schema, CatalogKey(t)) PROVE FALSE
  OBVIOUS
<1> DEFINE name == NameBytes[schema.table]
           p == TablePrefix(schema)
           key == CatalogKey(t)
<1>1. key \in Seq(Int) /\ key[1] = AtSign
  BY CatalogKeys
<1>2. Len(name) > 0 /\ name[1] # AtSign
  BY NameType DEF SchemaFits
<1>3. /\ Len(name) \in Nat /\ p \in Seq(Int) /\ Len(p) = Len(name) + 1
      /\ \A i \in 1..Len(name) : p[i] = name[i]
  BY PrefixType
<1>4. IsPrefix(p, key)
  BY DEF InTable
<1> HIDE DEF name, p, key
<1>5. \A i \in 1..Len(p) : key[i] = p[i]
  BY <1>1, <1>3, <1>4, PrefixBytes
<1>6. 1 \in 1..Len(p) /\ 1 \in 1..Len(name)
  BY <1>2, <1>3
<1> QED BY <1>1, <1>2, <1>3, <1>5, <1>6

\* The schema of a table that a row is stored in.
LEMMA StoredSchema ==
  ASSUME NEW store, NEW failed, StoreFits(store, failed), NEW key, NEW val, StoredIn(store, key, val)
  PROVE  \E t \in DOMAIN NameBytes :
             LET schema == store[CatalogKey(t)].schema
             IN  /\ CatalogKey(t) \in DOMAIN store /\ InCatalog(store, schema)
                 /\ SchemaFits(schema) /\ schema.table = t /\ Stored(schema, key, val)
<1>1. PICK t \in DOMAIN NameBytes : /\ CatalogKey(t) \in DOMAIN store
                                    /\ Stored(store[CatalogKey(t)].schema, key, val)
  BY DEF StoredIn
<1> DEFINE schema == store[CatalogKey(t)].schema
<1>2. Entry(t, store[CatalogKey(t)])
  BY <1>1 DEF StoreFits
<1>3. store[CatalogKey(t)] = Json(schema) /\ SchemaFits(schema) /\ schema.table = t
  BY <1>2 DEF Entry
<1>4. InCatalog(store, schema)
  BY <1>1, <1>3 DEF InCatalog
<1> QED BY <1>1, <1>3, <1>4

\* What is stored in a table is read as a row of it.
LEMMA RowAt ==
  ASSUME NEW store, NEW failed, StoreFits(store, failed), KeptRows(store, failed),
         NEW key \in DOMAIN store, NEW schema, SchemaFits(schema), InCatalog(store, schema),
         InTable(schema, key)
  PROVE  LET d == DecodeRow(schema, key, store[key].bytes)
         IN  /\ d.ok /\ TypedRow(schema, d.row)
             /\ RowKey(schema, d.row) = key /\ RowVal(schema, d.row) = store[key].bytes
<1>1. key \in Seq(Int)
  BY DEF StoreFits
<1>2. ~IsCatalogKey(key)
  BY SchemaInNoTable DEF IsCatalogKey
<1>3. PICK t \in DOMAIN NameBytes :
          LET b == store[CatalogKey(t)].schema
          IN  /\ InCatalog(store, b) /\ SchemaFits(b) /\ b.table = t /\ Stored(b, key, store[key])
  <2>1. StoredIn(store, key, store[key])
    BY <1>2 DEF KeptRows
  <2> DEFINE val == store[key]
  <2> HIDE DEF val
  <2>2. \E t \in DOMAIN NameBytes :
             LET b == store[CatalogKey(t)].schema
             IN  /\ CatalogKey(t) \in DOMAIN store /\ InCatalog(store, b)
                 /\ SchemaFits(b) /\ b.table = t /\ Stored(b, key, val)
    BY <2>1, StoredSchema DEF val
  <2> QED BY <2>2 DEF val
<1> DEFINE b == store[CatalogKey(t)].schema
<1>4. InCatalog(store, b) /\ SchemaFits(b) /\ b.table = t /\ Stored(b, key, store[key])
  BY <1>3
<1> HIDE DEF b
<1>5. PICK row : TypedRow(b, row) /\ key = RowKey(b, row) /\ store[key] = RowBytes(RowVal(b, row))
  BY <1>4 DEF Stored
<1>6. b = schema
  <2>1. InTable(b, key)
    BY <1>4, <1>5, KeyInTable
  <2>2. NameBytes[schema.table] = NameBytes[b.table]
    BY <1>1, <1>4, <2>1, OneTable
  <2>3. schema.table = t
    BY <1>4, <2>2, CatalogAssumption DEF SchemaFits
  <2>4. Json(schema) = Json(b)
    BY <1>4, <2>3 DEF InCatalog
  <2>5. Json(schema).schema = schema /\ Json(b).schema = b
    BY DEF Json
  <2> QED BY <2>4, <2>5
<1>7. TypedRow(schema, row) /\ key = RowKey(schema, row) /\ store[key].bytes = RowVal(schema, row)
  <2>1. RowBytes(RowVal(b, row)).bytes = RowVal(b, row)
    BY DEF RowBytes
  <2> QED BY <1>5, <1>6, <2>1
<1> DEFINE d == DecodeRow(schema, key, store[key].bytes)
<1>8. d.ok /\ d.row = PlainRow(schema, row)
  BY <1>7, RowRoundTrip
<1> HIDE DEF d
<1>9. /\ TypedRow(schema, d.row)
      /\ RowKey(schema, d.row) = key /\ RowVal(schema, d.row) = store[key].bytes
  BY <1>7, <1>8, PlainRowSame
<1> QED BY <1>8, <1>9 DEF d

LEMMA LandingTyped ==
  ASSUME StoreFits(kv, maybe), KeptRows(kv, maybe), NEW schema, SchemaFits(schema), InCatalog(kv, schema),
         NEW K, K \subseteq DOMAIN kv, NEW stop, Landing(schema, Least(K), stop).valid
  PROVE  TypedRow(schema, Landing(schema, Least(K), stop).row)
<1> DEFINE at == Least(K)
           d == DecodeRow(schema, at, kv[at].bytes)
           out == at = End \/ BytesLess(stop, at) \/ ~InTable(schema, at)
           none == [ok |-> TRUE, valid |-> FALSE, row |-> <<>>]
           some == [ok |-> d.ok, valid |-> d.ok, row |-> d.row]
<1>1. Landing(schema, at, stop) = IF out THEN none ELSE some
  BY DEF Landing
<1>2. none.valid = FALSE /\ some.row = d.row
  OBVIOUS
<1> HIDE DEF none, some, d
<1>3. ~out
  <2> HIDE DEF out
  <2> QED BY <1>1, <1>2
<1>4. at \in DOMAIN kv
  <2>1. K # {}
    BY <1>3 DEF Least
  <2>2. IsFiniteSet(K) /\ \A k \in K : k \in Seq(Int)
    BY FilterFinite DEF StoreFits
  <2>3. at \in K
    BY <2>1, <2>2, LeastIn
  <2> QED BY <2>3
<1> HIDE DEF at
<1>5. TypedRow(schema, d.row)
  BY <1>3, <1>4, RowAt DEF d
<1> HIDE DEF out
<1>6. Landing(schema, at, stop).row = d.row
  BY <1>1, <1>2, <1>3
<1>7. TypedRow(schema, Landing(schema, at, stop).row)
  BY <1>5, <1>6
<1> QED BY <1>7 DEF at

\* Schemas are added and never change or go.
CatalogKept(store, after) ==
    \A k \in DOMAIN store : IsCatalogKey(k) => k \in DOMAIN after /\ after[k] = store[k]

LEMMA StoredKept ==
  ASSUME NEW store, NEW after, CatalogKept(store, after)
  PROVE  /\ \A key, val : StoredIn(store, key, val) => StoredIn(after, key, val)
         /\ \A schema : SchemaFits(schema) /\ InCatalog(store, schema) => InCatalog(after, schema)
<1>1. \A t \in DOMAIN NameBytes : CatalogKey(t) \in DOMAIN store =>
          CatalogKey(t) \in DOMAIN after /\ after[CatalogKey(t)] = store[CatalogKey(t)]
  BY DEF CatalogKept, IsCatalogKey
<1>2. ASSUME NEW key, NEW val, StoredIn(store, key, val) PROVE StoredIn(after, key, val)
  <2>1. PICK t \in DOMAIN NameBytes : /\ CatalogKey(t) \in DOMAIN store
                                      /\ Stored(store[CatalogKey(t)].schema, key, val)
    BY <1>2 DEF StoredIn
  <2>2. CatalogKey(t) \in DOMAIN after /\ Stored(after[CatalogKey(t)].schema, key, val)
    BY <1>1, <2>1
  <2> QED BY <2>2 DEF StoredIn
<1>3. ASSUME NEW schema, SchemaFits(schema), InCatalog(store, schema) PROVE InCatalog(after, schema)
  BY <1>1, <1>3 DEF InCatalog, SchemaFits
<1> QED BY <1>2, <1>3

\* What may be written: a row of a table in the catalog, the deletion of a
\* row, or the schema of a new table.
Keepable(key, val) ==
    IF IsCatalogKey(key) THEN key \notin DOMAIN kv ELSE val = Deleted \/ StoredIn(kv, key, val)

LEMMA WriteKeeps ==
  ASSUME KeptRows(kv, maybe), NEW key, NEW val, Keepable(key, val), Put(key, val) \/ PutFails(key, val)
  PROVE  KeptRows(kv', maybe') /\ CatalogKept(kv, kv')
<1>1. CASE Put(key, val)
  <2>1. ChangedBy(kv, key, val, kv')
    BY <1>1, ChangedOnce DEF Put
  <2>2. /\ \A k \in DOMAIN kv' :
               \/ k = key /\ kv'[k] = val /\ val # Deleted
               \/ k # key /\ k \in DOMAIN kv /\ kv'[k] = kv[k]
        /\ \A k \in DOMAIN kv : k # key => k \in DOMAIN kv'
    BY <2>1, Zenon DEF ChangedBy
  <2>3. CatalogKept(kv, kv')
    BY <2>2 DEF CatalogKept, Keepable
  <2>4. \A k, v : StoredIn(kv, k, v) => StoredIn(kv', k, v)
    BY <2>3, StoredKept
  <2>5. ASSUME NEW k \in DOMAIN kv', ~IsCatalogKey(k) PROVE StoredIn(kv', k, kv'[k])
    <3>1. StoredIn(kv, k, kv'[k])
      BY <2>2, <2>5 DEF KeptRows, Keepable
    <3> QED BY <2>4, <3>1
  <2>6. ASSUME NEW c \in maybe'
        PROVE  IF IsCatalogKey(c.key) THEN c.key \notin DOMAIN kv' ELSE c.val = Deleted \/ StoredIn(kv', c.key, c.val)
    <3>1. c \in maybe /\ c.key # key
      BY <1>1 DEF Put
    <3>2. IF IsCatalogKey(c.key) THEN c.key \notin DOMAIN kv ELSE c.val = Deleted \/ StoredIn(kv, c.key, c.val)
      BY <3>1 DEF KeptRows
    <3>3. c.key \notin DOMAIN kv => c.key \notin DOMAIN kv'
      BY <2>2, <3>1
    <3> QED BY <2>4, <3>2, <3>3
  <2> QED BY <2>3, <2>5, <2>6, Zenon DEF KeptRows
<1>2. CASE PutFails(key, val)
  <2> DEFINE change == [key |-> key, val |-> val]
  <2>1. maybe' = maybe \union {change} /\ kv' = kv /\ change.key = key /\ change.val = val
    BY <1>2 DEF PutFails
  <2> HIDE DEF change
  <2>2. ASSUME NEW c \in maybe \union {change}
        PROVE  IF IsCatalogKey(c.key) THEN c.key \notin DOMAIN kv ELSE c.val = Deleted \/ StoredIn(kv, c.key, c.val)
    BY <2>1 DEF KeptRows, Keepable
  <2>3. KeptRows(kv, maybe \union {change})
    BY <2>2 DEF KeptRows
  <2>4. CatalogKept(kv, kv)
    BY DEF CatalogKept
  <2> QED BY <2>1, <2>3, <2>4
<1> QED BY <1>1, <1>2

\* Whatever failed writes a restart brings back.
LEMMA LeaveKeeps ==
  ASSUME KeptRows(kv, maybe), Leave
  PROVE  KeptRows(kv', maybe')
<1>1. PICK won \in SUBSET maybe : kv' = Changed(kv, won)
  BY DEF Leave
<1>2. ChangedTo(kv, won, kv')
  BY <1>1, ChangedEffect
<1>3. /\ \A k \in DOMAIN kv' :
             \/ k \in DOMAIN kv /\ (\A c \in won : c.key # k) /\ kv'[k] = kv[k]
             \/ \E c \in won : c.key = k /\ kv'[k] = c.val /\ c.val # Deleted
      /\ \A k \in DOMAIN kv : (\A c \in won : c.key # k) => k \in DOMAIN kv'
  BY <1>2, Zenon DEF ChangedTo
<1>4. ASSUME NEW c \in won
      PROVE  IF IsCatalogKey(c.key) THEN c.key \notin DOMAIN kv ELSE c.val = Deleted \/ StoredIn(kv, c.key, c.val)
  <2>1. c \in maybe
    OBVIOUS
  <2> QED BY <2>1 DEF KeptRows
<1>5. CatalogKept(kv, kv')
  <2> SUFFICES ASSUME NEW k \in DOMAIN kv, IsCatalogKey(k) PROVE k \in DOMAIN kv' /\ kv'[k] = kv[k]
    BY DEF CatalogKept
  <2>1. \A c \in won : c.key # k
    BY <1>4
  <2> QED BY <1>3, <2>1
<1>6. ASSUME NEW k \in DOMAIN kv', ~IsCatalogKey(k) PROVE StoredIn(kv', k, kv'[k])
  <2>1. StoredIn(kv, k, kv'[k])
    <3>1. CASE k \in DOMAIN kv /\ kv'[k] = kv[k]
      BY <1>6, <3>1 DEF KeptRows
    <3>2. CASE \E c \in won : c.key = k /\ kv'[k] = c.val /\ c.val # Deleted
      BY <1>4, <1>6, <3>2
    <3> QED BY <1>3, <3>1, <3>2
  <2> QED BY <1>5, <2>1, StoredKept
<1>7. maybe' = {}
  BY DEF Leave
<1> QED BY <1>6, <1>7 DEF KeptRows

LEMMA AtRest ==
  ASSUME NEW j, j.pc \in {"idle", "done"}
  PROVE  \A store : JobReads(j, store)
BY DEF JobReads

LEMMA AnswerKeeps ==
  ASSUME SQLInv, RowsInv, ~swallowed, NEW a, Reply(a), UNCHANGED <<kv, maybe>>
  PROVE  KeptRows(kv', maybe') /\ JobReads(job', kv')
<1>1. IsJob(job) /\ job' = [job EXCEPT !.pc = "done"]
  BY DEF Reply, SQLInv, JobFits
<1>2. job'.pc = "done"
  BY <1>1 DEF IsJob
<1>3. KeptRows(kv', maybe')
  BY DEF RowsInv
<1> QED BY <1>2, <1>3, AtRest

LEMMA WriteAnswerKeeps ==
  ASSUME SQLInv, RowsInv, ~swallowed, NEW key, NEW val, Keepable(key, val),
         Put(key, val) \/ PutFails(key, val), NEW a, Reply(a)
  PROVE  KeptRows(kv', maybe') /\ JobReads(job', kv')
<1>1. IsJob(job) /\ job' = [job EXCEPT !.pc = "done"]
  BY DEF Reply, SQLInv, JobFits
<1>2. job'.pc = "done"
  BY <1>1 DEF IsJob
<1>3. KeptRows(kv', maybe')
  BY WriteKeeps DEF RowsInv
<1> QED BY <1>2, <1>3, AtRest
-----------------------------------------------------------------------------
(* Every step keeps the rows.                                              *)

LEMMA InitKeeps == Init => RowsInv
<1> SUFFICES ASSUME Init PROVE KeptRows(kv, maybe) /\ JobReads(job, kv)
  BY DEF RowsInv
<1>1. DOMAIN kv = {} /\ maybe = {}
  <2> DEFINE e == [k \in {} |-> Deleted]
  <2>1. DOMAIN e = {}
    OBVIOUS
  <2> QED BY <2>1 DEF Init
<1>2. KeptRows(kv, maybe)
  BY <1>1 DEF KeptRows
<1>3. job.pc = "idle"
  BY IdleFits DEF Init
<1> QED BY <1>2, <1>3, AtRest

LEMMA OpenKeeps == RowsInv /\ (Open \/ UNCHANGED vars) => RowsInv'
<1> SUFFICES ASSUME RowsInv, Open \/ UNCHANGED vars, ~swallowed' PROVE KeptRows(kv', maybe') /\ JobReads(job', kv')
  BY DEF RowsInv
<1>1. UNCHANGED <<kv, maybe, job, swallowed>>
  BY DEF Open, vars
<1> QED BY <1>1 DEF RowsInv

LEMMA CloseKeeps == RowsInv /\ (Close \/ Crash) => RowsInv'
<1> SUFFICES ASSUME RowsInv, Close \/ Crash, ~swallowed' PROVE KeptRows(kv', maybe') /\ JobReads(job', kv')
  BY DEF RowsInv
<1>1. Leave
  BY DEF Close, Crash
<1>2. swallowed' = swallowed /\ job' = Idle
  BY <1>1 DEF Leave
<1>3. KeptRows(kv', maybe')
  BY <1>1, <1>2, LeaveKeeps DEF RowsInv
<1>4. job'.pc = "idle"
  BY <1>2, IdleFits
<1> QED BY <1>3, <1>4, AtRest

LEMMA TakeAnswerKeeps == RowsInv /\ TakeAnswer => RowsInv'
<1> SUFFICES ASSUME RowsInv, TakeAnswer, ~swallowed' PROVE KeptRows(kv', maybe') /\ JobReads(job', kv')
  BY DEF RowsInv
<1>1. job' = Idle /\ UNCHANGED <<kv, maybe, swallowed>>
  BY DEF TakeAnswer
<1>2. job'.pc = "idle"
  BY <1>1, IdleFits
<1>3. KeptRows(kv', maybe')
  BY <1>1 DEF RowsInv
<1> QED BY <1>2, <1>3, AtRest

LEMMA ExecKeeps ==
  ASSUME RowsInv, NEW text \in Texts, Exec(text)
  PROVE  RowsInv'
<1> SUFFICES ASSUME ~swallowed' PROVE KeptRows(kv', maybe') /\ JobReads(job', kv')
  BY DEF RowsInv
<1> DEFINE s == Parsed(text)
           pc == IF ~s.ok THEN "done" ELSE IF s.out.kind = "create" THEN "create" ELSE "schema"
           stmt == IF s.ok THEN s.out ELSE NoStmt
           j == [Idle EXCEPT !.text = text, !.stmt = stmt, !.pc = pc]
<1>1. job' = j /\ UNCHANGED <<kv, maybe, swallowed>>
  BY Zenon DEF Exec
<1>2. KeptRows(kv', maybe')
  BY <1>1 DEF RowsInv
<1>3. pc \in {"done", "create", "schema"} /\ (pc # "done" => Parsed(text).ok /\ stmt = Parsed(text).out)
  OBVIOUS
<1> HIDE DEF pc, stmt
<1>4. j.pc = pc /\ j.stmt = stmt
  BY DEF Idle
<1> HIDE DEF j
<1>5. JobReads(j, kv')
  BY <1>3, <1>4 DEF JobReads
<1> QED BY <1>1, <1>2, <1>5

LEMMA CreateTableKeeps == SQLInv /\ RowsInv /\ CreateTable => RowsInv'
<1> SUFFICES ASSUME SQLInv, RowsInv, CreateTable, ~swallowed' PROVE KeptRows(kv', maybe') /\ JobReads(job', kv')
  BY DEF RowsInv
<1> DEFINE schema == SchemaOf(job.stmt)
           name == job.stmt.table
           key == CatalogKey(name)
           val == Json(schema)
<1>1. name \in DOMAIN NameBytes
  BY DEF CreateTable, Running, SQLInv, JobFits, Stage, Statement
<1>2. CASE Refuse
  <2>1. UNCHANGED <<kv, maybe, swallowed>> /\ \E a : Reply(a)
    BY <1>2 DEF Refuse
  <2> QED BY <2>1, AnswerKeeps
<1>3. ASSUME swallowed' = (swallowed \/ key \in DOMAIN kv), Put(key, val) \/ PutFails(key, val), NEW a, Reply(a)
      PROVE  KeptRows(kv', maybe') /\ JobReads(job', kv')
  <2>1. ~swallowed /\ key \notin DOMAIN kv
    BY <1>3
  <2>2. IsCatalogKey(key)
    BY <1>1 DEF IsCatalogKey
  <2> HIDE DEF key, val
  <2>3. Keepable(key, val)
    BY <2>1, <2>2 DEF Keepable
  <2> QED BY <1>3, <2>1, <2>3, WriteAnswerKeeps
<1> HIDE DEF schema, name
<1> QED BY <1>2, <1>3, Zenon DEF CreateTable, schema, name, key, val

LEMMA GetSchemaKeeps == SQLInv /\ RowsInv /\ GetSchema => RowsInv'
<1> SUFFICES ASSUME SQLInv, RowsInv, GetSchema, ~swallowed' PROVE KeptRows(kv', maybe') /\ JobReads(job', kv')
  BY DEF RowsInv
<1> DEFINE name == job.stmt.table
           key == CatalogKey(name)
           schema == IF name \in DOMAIN tables THEN tables[name] ELSE kv[key].schema
           pc == IF job.stmt.kind = "insert" THEN "insert" ELSE "plan"
<1>1. up /\ job.pc = "schema"
  BY DEF GetSchema, Running
<1>2. name \in DOMAIN NameBytes /\ IsJob(job) /\ StoreFits(kv, maybe) /\ CacheFits(tables, kv)
  BY <1>1 DEF SQLInv, JobFits, Stage, Statement
<1>3. CASE Refuse
  <2>1. UNCHANGED <<kv, maybe, swallowed>> /\ \E a : Reply(a)
    BY <1>3 DEF Refuse
  <2> QED BY <2>1, AnswerKeeps
<1>4. ASSUME name \in DOMAIN tables \/ key \in DOMAIN kv,
             job' = [job EXCEPT !.schema = schema, !.pc = pc],
             UNCHANGED <<kv, maybe, swallowed>>
      PROVE  KeptRows(kv', maybe') /\ JobReads(job', kv')
  <2>1. key \in DOMAIN kv /\ Entry(name, kv[key])
    BY <1>2, <1>4 DEF CacheFits, StoreFits
  <2>2. name \in DOMAIN tables => kv[key] = Json(tables[name]) /\ Json(tables[name]).schema = tables[name]
    BY <1>2 DEF CacheFits, Json
  <2>3. schema = kv[key].schema
    <3> HIDE DEF key
    <3> QED BY <2>2
  <2>4. kv[key] = Json(schema) /\ schema.table = name
    BY <2>1, <2>3 DEF Entry
  <2>5. pc \in {"insert", "plan"}
    OBVIOUS
  <2> HIDE DEF schema, pc, name
  <2>6. InCatalog(kv, schema)
    BY <2>1, <2>4 DEF InCatalog
  <2>7. job'.pc = pc /\ job'.schema = schema /\ job'.stmt = job.stmt
    BY <1>2, <1>4 DEF IsJob
  <2>8. \E text \in Texts : Parsed(text).ok /\ job.stmt = Parsed(text).out
    BY <1>1, <1>4 DEF RowsInv, JobReads
  <2>9. JobReads(job', kv')
    BY <1>4, <2>5, <2>6, <2>7, <2>8 DEF JobReads
  <2> QED BY <1>4, <2>9 DEF RowsInv
<1> HIDE DEF name, schema, pc
<1> QED BY <1>3, <1>4, Zenon DEF GetSchema, schema, name, key, pc

\* A row of a table in the catalog may be written, and deleted.
LEMMA RowKeepable ==
  ASSUME NEW schema, SchemaFits(schema), InCatalog(kv, schema), NEW row, TypedRow(schema, row)
  PROVE  /\ Keepable(RowKey(schema, row), RowBytes(RowVal(schema, row)))
         /\ Keepable(RowKey(schema, row), Deleted)
<1> DEFINE key == RowKey(schema, row)
           val == RowBytes(RowVal(schema, row))
           t == schema.table
<1>1. ~IsCatalogKey(key)
  BY TypedFits, KeysApart DEF IsCatalogKey
<1>2. Stored(schema, key, val)
  BY DEF Stored
<1>3. t \in DOMAIN NameBytes /\ CatalogKey(t) \in DOMAIN kv /\ kv[CatalogKey(t)] = Json(schema)
  BY DEF SchemaFits, InCatalog
<1>4. Json(schema).schema = schema
  BY DEF Json
<1> HIDE DEF key, val, t
<1>5. StoredIn(kv, key, val)
  BY <1>2, <1>3, <1>4 DEF StoredIn
<1> QED BY <1>1, <1>5 DEF Keepable, key, val

LEMMA InsertedTyped ==
  ASSUME NEW schema, SchemaFits(schema), NEW value \in Seq(Cells), Len(value) = Len(schema.cols)
  PROVE  TypedRow(schema, [i \in DOMAIN value |-> [value[i] EXCEPT !.type = schema.cols[i].type]])
<1> DEFINE C == [name : STRING, type : {TypeI64, TypeStr}]
           cols == schema.cols
           row == [i \in DOMAIN value |-> [value[i] EXCEPT !.type = cols[i].type]]
<1>1. cols \in Seq(C)
  BY DEF SchemaFits
<1>2. DOMAIN value = DOMAIN cols /\ DOMAIN row = DOMAIN cols
  <2>1. DOMAIN value = 1..Len(value)
    OBVIOUS
  <2>2. DOMAIN cols = 1..Len(cols)
    <3> HIDE DEF C, cols
    <3> QED BY <1>1
  <2>3. DOMAIN row = DOMAIN value
    OBVIOUS
  <2> HIDE DEF row, cols
  <2> QED BY <2>1, <2>2, <2>3 DEF cols
<1>3. ASSUME NEW i \in DOMAIN cols PROVE row[i] \in Cells /\ row[i].type = cols[i].type
  <2> DEFINE type == cols[i].type
             cell == value[i]
  <2>1. cell \in Cells
    <3>1. i \in DOMAIN value
      BY <1>2
    <3> QED BY <3>1
  <2>2. cols[i] \in C
    <3> HIDE DEF C, cols
    <3> QED BY <1>1
  <2>3. type \in {TypeI64, TypeStr}
    BY <2>2
  <2>4. row[i] = [cell EXCEPT !.type = type]
    BY <1>2
  <2> HIDE DEF row, type, cell, cols
  <2>5. row[i] \in Cells /\ row[i].type = type
    BY <2>1, <2>3, <2>4 DEF Cells
  <2> QED BY <2>5 DEF type
<1> HIDE DEF row
<1>4. TypedRow(schema, row)
  BY <1>2, <1>3 DEF TypedRow, cols
<1> QED BY <1>4 DEF row, cols

LEMMA InsertKeeps == SQLInv /\ RowsInv /\ Insert => RowsInv'
<1> SUFFICES ASSUME SQLInv, RowsInv, Insert, ~swallowed' PROVE KeptRows(kv', maybe') /\ JobReads(job', kv')
  BY DEF RowsInv
<1> DEFINE schema == job.schema
           value == job.stmt.value
           row == [i \in DOMAIN value |-> [value[i] EXCEPT !.type = schema.cols[i].type]]
           key == RowKey(schema, row)
           val == RowBytes(RowVal(schema, row))
<1>1. job.pc = "insert"
  BY DEF Insert, Running
<1>2. SchemaFits(schema) /\ value \in Seq(Cells)
  BY <1>1 DEF SQLInv, JobFits, Stage, Statement
<1>3. CASE Refuse
  <2>1. UNCHANGED <<kv, maybe, swallowed>> /\ \E a : Reply(a)
    BY <1>3 DEF Refuse
  <2> QED BY <2>1, AnswerKeeps
<1>4. ASSUME Len(value) = Len(schema.cols), swallowed' = swallowed,
             Put(key, val) \/ PutFails(key, val), NEW a, Reply(a)
      PROVE  KeptRows(kv', maybe') /\ JobReads(job', kv')
  <2>1. InCatalog(kv, schema)
    BY <1>1, <1>4 DEF RowsInv, JobReads
  <2> HIDE DEF schema, value
  <2>2. TypedRow(schema, row)
    BY <1>2, <1>4, InsertedTyped
  <2> HIDE DEF row
  <2>3. Keepable(key, val)
    BY <1>2, <2>1, <2>2, RowKeepable
  <2> HIDE DEF key, val
  <2> QED BY <1>4, <2>3, WriteAnswerKeeps
<1> HIDE DEF row, schema, value
<1> QED BY <1>3, <1>4, Zenon DEF Insert, schema, value, row, key, val

\* A statement that scans.
LEMMA ScanReads ==
  ASSUME SQLInv, RowsInv, ~swallowed, job.pc \in {"insert", "plan", "scan", "write"}
  PROVE  /\ KeptRows(kv, maybe) /\ JobReads(job, kv) /\ StoreFits(kv, maybe)
         /\ InCatalog(kv, job.schema) /\ SchemaFits(job.schema) /\ IsJob(job)
         /\ \E text \in Texts : Parsed(text).ok /\ job.stmt = Parsed(text).out
<1>1. KeptRows(kv, maybe) /\ JobReads(job, kv)
  BY DEF RowsInv
<1>2. StoreFits(kv, maybe) /\ SchemaFits(job.schema) /\ IsJob(job)
  BY DEF SQLInv, JobFits, Stage
<1>3. InCatalog(kv, job.schema) /\ \E text \in Texts : Parsed(text).ok /\ job.stmt = Parsed(text).out
  BY <1>1 DEF JobReads
<1> QED BY <1>1, <1>2, <1>3

LEMMA ExecCondKeeps == SQLInv /\ RowsInv /\ ExecCond => RowsInv'
<1> SUFFICES ASSUME SQLInv, RowsInv, ExecCond, ~swallowed' PROVE KeptRows(kv', maybe') /\ JobReads(job', kv')
  BY DEF RowsInv
<1> DEFINE plan == Planned(job.schema, job.stmt.cond)
           K == {k \in DOMAIN kv : ~BytesLess(k, plan.start)}
           at == Least(K)
           landing == Landing(job.schema, at, plan.stop)
<1>1. job.pc = "plan"
  BY DEF ExecCond, Running
<1>2. CASE Refuse
  <2>1. UNCHANGED <<kv, maybe, swallowed>> /\ \E a : Reply(a)
    BY <1>2 DEF Refuse
  <2> QED BY <2>1, AnswerKeeps
<1>3. ASSUME UNCHANGED <<kv, maybe, tables, answer, swallowed>>,
             job' = AtRow([job EXCEPT !.pc = "scan", !.stop = plan.stop], at, landing)
      PROVE  KeptRows(kv', maybe') /\ JobReads(job', kv')
  <2>1. /\ KeptRows(kv, maybe) /\ StoreFits(kv, maybe)
        /\ InCatalog(kv, job.schema) /\ SchemaFits(job.schema) /\ IsJob(job)
        /\ \E text \in Texts : Parsed(text).ok /\ job.stmt = Parsed(text).out
    BY <1>1, <1>3, ScanReads
  <2>2. landing.valid => TypedRow(job.schema, landing.row)
    <3>1. K \subseteq DOMAIN kv
      OBVIOUS
    <3> HIDE DEF K
    <3> QED BY <2>1, <3>1, LandingTyped
  <2>3. job.rows = <<>>
    BY <1>1 DEF SQLInv, JobFits
  <2> HIDE DEF landing, at, plan
  <2>4. /\ job'.pc = "scan" /\ job'.schema = job.schema /\ job'.stmt = job.stmt
        /\ job'.rows = <<>> /\ job'.valid = landing.valid /\ job'.row = landing.row
    BY <1>3, <2>1, <2>3 DEF IsJob, AtRow
  <2>5. \A i \in 1..Len(job'.rows) : TypedRow(job'.schema, job'.rows[i])
    <3>1. Len(job'.rows) = 0
      BY <2>4
    <3> QED BY <3>1
  <2>6. JobReads(job', kv)
    BY <2>1, <2>2, <2>4, <2>5 DEF JobReads
  <2> QED BY <1>3, <2>1, <2>6
<1> HIDE DEF landing, at, plan
<1> QED BY <1>2, <1>3, Zenon DEF ExecCond, landing, at, plan, K

LEMMA AppendTyped ==
  ASSUME NEW schema, NEW rows, RowsFit(schema, rows), \A i \in 1..Len(rows) : TypedRow(schema, rows[i]),
         NEW row, TypedRow(schema, row)
  PROVE  \A i \in 1..Len(Append(rows, row)) : TypedRow(schema, Append(rows, row)[i])
<1> DEFINE n == Len(rows)
           S == {rows[i] : i \in 1..n} \union {row}
           new == Append(rows, row)
<1>1. n \in Nat /\ rows = [i \in 1..n |-> rows[i]]
  BY DEF RowsFit
<1>2. rows \in Seq(S) /\ row \in S
  <2>1. \A i \in 1..n : rows[i] \in S
    OBVIOUS
  <2> HIDE DEF S, n
  <2> QED BY <1>1, <2>1 DEF S
<1>3. \A r \in S : TypedRow(schema, r)
  OBVIOUS
<1> HIDE DEF S
<1>4. new \in Seq(S)
  BY <1>2, AppendProperties
<1> HIDE DEF new
<1>5. \A i \in 1..Len(new) : new[i] \in S
  BY <1>4
<1> QED BY <1>3, <1>5 DEF new

LEMMA ScanRowKeeps == SQLInv /\ RowsInv /\ ScanRow => RowsInv'
<1> SUFFICES ASSUME SQLInv, RowsInv, ScanRow, ~swallowed' PROVE KeptRows(kv', maybe') /\ JobReads(job', kv')
  BY DEF RowsInv
<1> DEFINE K == {k \in DOMAIN kv : BytesLess(job.at, k)}
           next == Least(K)
           landing == Landing(job.schema, next, job.stop)
           taken == [job EXCEPT !.rows = Append(@, job.row)]
           rows == Append(job.rows, job.row)
<1>1. job.pc = "scan" /\ job.valid
  BY DEF ScanRow, Running
<1>2. CASE Refuse
  <2>1. UNCHANGED <<kv, maybe, swallowed>> /\ \E a : Reply(a)
    BY <1>2 DEF Refuse
  <2> QED BY <2>1, AnswerKeeps
<1>3. ASSUME UNCHANGED <<kv, maybe>>, swallowed' = (swallowed \/ ~landing.ok), job' = AtRow(taken, next, landing)
      PROVE  KeptRows(kv', maybe') /\ JobReads(job', kv')
  <2>1. ~swallowed
    BY <1>3
  <2>2. /\ KeptRows(kv, maybe) /\ JobReads(job, kv) /\ StoreFits(kv, maybe)
        /\ InCatalog(kv, job.schema) /\ SchemaFits(job.schema) /\ IsJob(job)
        /\ \E text \in Texts : Parsed(text).ok /\ job.stmt = Parsed(text).out
    BY <1>1, <2>1, ScanReads
  <2>3. landing.valid => TypedRow(job.schema, landing.row)
    <3>1. K \subseteq DOMAIN kv
      OBVIOUS
    <3> HIDE DEF K
    <3> QED BY <2>2, <3>1, LandingTyped
  <2>4. RowsFit(job.schema, job.rows)
    BY <1>1 DEF SQLInv, JobFits, Stage
  <2>5. \A i \in 1..Len(rows) : TypedRow(job.schema, rows[i])
    BY <1>1, <2>2, <2>4, AppendTyped DEF JobReads
  <2> HIDE DEF landing, next
  <2>6. /\ job'.pc = "scan" /\ job'.schema = job.schema /\ job'.stmt = job.stmt
        /\ job'.rows = rows /\ job'.valid = landing.valid /\ job'.row = landing.row
    BY <1>1, <1>3, <2>2 DEF IsJob, AtRow
  <2> HIDE DEF rows
  <2>7. JobReads(job', kv)
    BY <2>2, <2>3, <2>5, <2>6 DEF JobReads
  <2> QED BY <1>3, <2>2, <2>7
<1>4. \/ Refuse
      \/ /\ UNCHANGED <<kv, maybe>> /\ swallowed' = (swallowed \/ ~landing.ok)
         /\ job' = AtRow(taken, next, landing)
      \/ swallowed' = TRUE
  <2> HIDE DEF landing, next, taken
  <2> QED BY Zenon DEF ScanRow, landing, next, taken, K
<1> HIDE DEF landing, next, taken, rows
<1> QED BY <1>2, <1>3, <1>4

LEMMA ScanDoneKeeps == SQLInv /\ RowsInv /\ ScanDone => RowsInv'
<1> SUFFICES ASSUME SQLInv, RowsInv, ScanDone, ~swallowed' PROVE KeptRows(kv', maybe') /\ JobReads(job', kv')
  BY DEF RowsInv
<1>1. job.pc = "scan" /\ UNCHANGED <<kv, maybe, swallowed>>
  BY DEF ScanDone, Running
<1>2. ASSUME NEW a, Reply(a) PROVE KeptRows(kv', maybe') /\ JobReads(job', kv')
  BY <1>1, <1>2, AnswerKeeps
<1>3. CASE job' = [job EXCEPT !.pc = "write"]
  <2>1. /\ KeptRows(kv, maybe) /\ JobReads(job, kv) /\ IsJob(job)
    BY <1>1, ScanReads
  <2>2. /\ job'.pc = "write" /\ job'.schema = job.schema /\ job'.stmt = job.stmt /\ job'.rows = job.rows
    BY <1>3, <2>1 DEF IsJob
  <2>3. JobReads(job', kv)
    BY <1>1, <2>1, <2>2 DEF JobReads
  <2> QED BY <1>1, <2>1, <2>3
<1> QED BY <1>2, <1>3 DEF ScanDone

LEMMA WriteDoneKeeps == SQLInv /\ RowsInv /\ (WriteDone \/ ReadFails) => RowsInv'
<1> SUFFICES ASSUME SQLInv, RowsInv, WriteDone \/ ReadFails, ~swallowed'
             PROVE  KeptRows(kv', maybe') /\ JobReads(job', kv')
  BY DEF RowsInv
<1>1. UNCHANGED <<kv, maybe, swallowed>> /\ \E a : Reply(a)
  BY DEF WriteDone, ReadFails
<1> QED BY <1>1, AnswerKeeps

\* The row that is written next.
LEMMA NextTyped ==
  ASSUME SQLInv, RowsInv, ~swallowed, job.pc = "write", job.n < Len(job.rows)
  PROVE  TypedRow(job.schema, job.rows[job.n + 1])
<1>1. job.n \in Nat /\ Len(job.rows) \in Nat
  BY NextRow
<1>2. job.n + 1 \in 1..Len(job.rows)
  BY <1>1
<1>3. \A i \in 1..Len(job.rows) : TypedRow(job.schema, job.rows[i])
  BY DEF RowsInv, JobReads
<1> QED BY <1>2, <1>3

\* A step of the loops that write: the statement stays, its rows are rows of
\* the table.
LEMMA WriteReads ==
  ASSUME SQLInv, RowsInv, ~swallowed, job.pc = "write", CatalogKept(kv, kv'),
         job'.pc = "write", job'.schema = job.schema, job'.stmt = job.stmt,
         \A i \in 1..Len(job'.rows) : TypedRow(job.schema, job'.rows[i])
  PROVE  JobReads(job', kv')
<1>1. /\ InCatalog(kv, job.schema) /\ SchemaFits(job.schema)
      /\ \E text \in Texts : Parsed(text).ok /\ job.stmt = Parsed(text).out
  BY ScanReads
<1>2. InCatalog(kv', job.schema)
  BY <1>1, StoredKept
<1> QED BY <1>1, <1>2 DEF JobReads

LEMMA DeleteRowKeeps == SQLInv /\ RowsInv /\ DeleteRow => RowsInv'
<1> SUFFICES ASSUME SQLInv, RowsInv, DeleteRow, ~swallowed' PROVE KeptRows(kv', maybe') /\ JobReads(job', kv')
  BY DEF RowsInv
<1> DEFINE row == job.rows[job.n + 1]
           key == RowKey(job.schema, row)
<1>1. job.pc = "write" /\ job.n < Len(job.rows) /\ ~swallowed
  BY DEF DeleteRow, Running
<1>2. KeptRows(kv, maybe) /\ InCatalog(kv, job.schema) /\ SchemaFits(job.schema) /\ IsJob(job)
  BY <1>1, ScanReads
<1>3. Keepable(key, Deleted)
  <2>1. TypedRow(job.schema, row)
    BY <1>1, NextTyped
  <2> HIDE DEF row
  <2> QED BY <1>2, <2>1, RowKeepable
<1>4. \A i \in 1..Len(job.rows) : TypedRow(job.schema, job.rows[i])
  BY <1>1 DEF RowsInv, JobReads
<1> HIDE DEF key
<1>5. CASE job' = [job EXCEPT !.n = @ + 1] /\ UNCHANGED <<kv, maybe>>
  <2>1. job'.pc = "write" /\ job'.schema = job.schema /\ job'.stmt = job.stmt /\ job'.rows = job.rows
    BY <1>1, <1>2, <1>5 DEF IsJob
  <2>2. CatalogKept(kv, kv')
    BY <1>5 DEF CatalogKept
  <2>3. JobReads(job', kv')
    BY <1>1, <1>4, <2>1, <2>2, WriteReads
  <2> QED BY <1>2, <1>5, <2>3
<1>6. CASE Put(key, Deleted) /\ job' = [job EXCEPT !.n = @ + 1, !.count = @ + 1]
  <2>1. job'.pc = "write" /\ job'.schema = job.schema /\ job'.stmt = job.stmt /\ job'.rows = job.rows
    BY <1>1, <1>2, <1>6 DEF IsJob
  <2>2. KeptRows(kv', maybe') /\ CatalogKept(kv, kv')
    BY <1>2, <1>3, <1>6, WriteKeeps
  <2>3. JobReads(job', kv')
    BY <1>1, <1>4, <2>1, <2>2, WriteReads
  <2> QED BY <2>2, <2>3
<1>7. ASSUME PutFails(key, Deleted), NEW a, Reply(a)
      PROVE  KeptRows(kv', maybe') /\ JobReads(job', kv')
  BY <1>1, <1>3, <1>7, WriteAnswerKeeps
<1> QED BY <1>5, <1>6, <1>7, Zenon DEF DeleteRow, key, row

\* What an expression of an UPDATE gives: a cell, or an error.
EvaluationTypes ==
    \A text \in Texts :
        Parsed(text).ok /\ Parsed(text).out.kind = "update" =>
            \A schema, row : SchemaFits(schema) /\ TypedRow(schema, row) => Evaluates(Parsed(text).out, schema, row)

\* Cells of the right types in other columns than those of the key.
LEMMA WithValuesTyped ==
  ASSUME NEW schema, SchemaFits(schema), NEW row, TypedRow(schema, row), NEW set, NEW cells,
         Len(set) \in Nat, DOMAIN set = 1..Len(set),
         \A i \in DOMAIN set : /\ ~IsPKey(schema, ColIndex(schema, set[i].column))
                               /\ cells[i] \in Cells
                               /\ cells[i].type = schema.cols[ColIndex(schema, set[i].column)].type
  PROVE  LET new == WithValues(schema, row, set, cells)
         IN  TypedRow(schema, new) /\ RowKey(schema, new) = RowKey(schema, row)
<1> DEFINE D == DOMAIN schema.cols
           Of(c) == {i \in DOMAIN set : ColIndex(schema, set[i].column) = c}
           Latest(c) == CHOOSE i \in Of(c) : \A j \in Of(c) : j <= i
           Val(c) == IF Of(c) = {} THEN row[c] ELSE cells[Latest(c)]
           new == [c \in DOMAIN row |-> Val(c)]
<1>1. WithValues(schema, row, set, cells) = new
  BY Zenon DEF WithValues
<1>2. DOMAIN row = D
  BY DEF TypedRow
<1>3. ASSUME NEW c \in D, Of(c) # {} PROVE Latest(c) \in Of(c)
  <2> DEFINE m == Len(set)
             s == Of(c)
  <2>1. m \in Nat /\ s \in SUBSET (1..m) /\ s # {}
    BY <1>3
  <2> HIDE DEF m, s
  <2>2. Max(s) \in s /\ \A x \in s : Max(s) >= x
    BY <2>1, LargestOf
  <2>3. \A x \in s : x <= Max(s)
    <3>1. \A x \in s : x \in Int
      BY <2>1
    <3> QED BY <2>2, <3>1
  <2>4. \E i \in s : \A j \in s : j <= i
    BY <2>2, <2>3
  <2>5. (CHOOSE i \in s : \A j \in s : j <= i) \in s
    BY <2>4, Zenon
  <2> QED BY <2>5 DEF s
<1>4. ASSUME NEW c \in D PROVE new[c] \in Cells /\ new[c].type = schema.cols[c].type
  <2>1. new[c] = Val(c)
    BY <1>2
  <2>2. CASE Of(c) = {}
    <3>1. new[c] = row[c]
      BY <2>1, <2>2
    <3> HIDE DEF new
    <3> QED BY <3>1 DEF TypedRow
  <2>3. CASE Of(c) # {}
    <3> DEFINE i == Latest(c)
    <3>1. i \in Of(c)
      BY <1>3, <2>3
    <3>2. i \in DOMAIN set /\ ColIndex(schema, set[i].column) = c
      <4> HIDE DEF i
      <4> QED BY <3>1
    <3>3. new[c] = cells[i]
      BY <2>1, <2>3
    <3> HIDE DEF new, i
    <3> QED BY <3>2, <3>3
  <2> QED BY <2>2, <2>3
<1>5. ASSUME NEW i \in DOMAIN schema.pkey PROVE new[schema.pkey[i]] = row[schema.pkey[i]]
  <2> DEFINE c == schema.pkey[i]
  <2>1. IsPKey(schema, c)
    BY DEF IsPKey, ToSet
  <2>2. Of(c) = {}
    <3> HIDE DEF c
    <3> QED BY <2>1
  <2>3. c \in D
    BY DEF SchemaFits
  <2> HIDE DEF c, Of
  <2>4. new[c] = row[c]
    BY <1>2, <2>2, <2>3
  <2> QED BY <2>4 DEF c
<1>6. DOMAIN new = D
  BY <1>2
<1> HIDE DEF new
<1>7. TypedRow(schema, new)
  BY <1>4, <1>6 DEF TypedRow
<1>8. KeyCells(schema, new) = KeyCells(schema, row)
  BY <1>5 DEF KeyCells
<1>9. RowKey(schema, new) = RowKey(schema, row)
  BY <1>8 DEF RowKey
<1> QED BY <1>1, <1>7, <1>9

\* The cells of an UPDATE that is not refused.
LEMMA NewCells ==
  ASSUME EvaluationTypes, SQLInv, RowsInv, ~swallowed, job.pc = "write", job.stmt.kind = "update",
         NEW row, TypedRow(job.schema, row), NEW cells, cells = NewValues(job.schema, row, job.stmt.value),
         ~\E i \in DOMAIN job.stmt.value :
             cells[i].type # job.schema.cols[ColIndex(job.schema, job.stmt.value[i].column)].type
  PROVE  /\ Len(job.stmt.value) \in Nat /\ DOMAIN job.stmt.value = 1..Len(job.stmt.value)
         /\ \A i \in DOMAIN job.stmt.value :
               /\ ~IsPKey(job.schema, ColIndex(job.schema, job.stmt.value[i].column))
               /\ cells[i] \in Cells
               /\ cells[i].type = job.schema.cols[ColIndex(job.schema, job.stmt.value[i].column)].type
<1> DEFINE schema == job.schema
           set == job.stmt.value
           column(i) == ColIndex(schema, set[i].column)
<1>1. /\ SchemaFits(schema) /\ Checked(schema, job.stmt) /\ Statement(job.stmt)
      /\ schema.cols \in Seq([name : STRING, type : {TypeI64, TypeStr}])
  BY DEF SQLInv, JobFits, Stage, SchemaFits
<1>2. Len(set) \in Nat /\ DOMAIN set = 1..Len(set)
  BY <1>1 DEF Statement
<1>3. \A i \in DOMAIN set : column(i) # 0 /\ ~IsPKey(schema, column(i))
  <2> HIDE DEF schema
  <2> QED BY <1>1 DEF Checked
<1>4. PICK text \in Texts : Parsed(text).ok /\ job.stmt = Parsed(text).out
  BY ScanReads
<1>5. \A i \in DOMAIN set : cells[i] = Evaluated(schema, row, set[i].expr)
  BY DEF NewValues
<1>6. \A i \in DOMAIN set : Evaluated(schema, row, set[i].expr) \in Cells \union {ErrCell}
  BY <1>1, <1>4 DEF EvaluationTypes, Evaluates
<1>7. ASSUME NEW i \in DOMAIN set PROVE schema.cols[column(i)].type \in {TypeI64, TypeStr}
  <2> DEFINE C == [name : STRING, type : {TypeI64, TypeStr}]
             cols == schema.cols
             c == column(i)
  <2>1. c \in DOMAIN cols
    BY <1>1, <1>3, ColIndexType
  <2>2. cols \in Seq(C)
    BY <1>1
  <2> HIDE DEF C, cols, c
  <2>3. cols[c] \in C
    BY <2>1, <2>2
  <2> QED BY <2>3 DEF C, cols, c
<1>8. ASSUME NEW i \in DOMAIN set PROVE cells[i] \in Cells
  <2>1. cells[i] \in Cells \union {ErrCell}
    BY <1>5, <1>6
  <2>2. cells[i].type \in {TypeI64, TypeStr}
    BY <1>7
  <2>3. ErrCell.type = 0 /\ 0 \notin {TypeI64, TypeStr}
    BY DEF ErrCell, Cell, TypeI64, TypeStr
  <2>4. cells[i] # ErrCell
    BY <2>2, <2>3
  <2> QED BY <2>1, <2>4
<1> QED BY <1>2, <1>3, <1>8

LEMMA UpdateRowKeeps == EvaluationTypes /\ SQLInv /\ RowsInv /\ UpdateRow => RowsInv'
<1> SUFFICES ASSUME EvaluationTypes, SQLInv, RowsInv, UpdateRow, ~swallowed'
             PROVE  KeptRows(kv', maybe') /\ JobReads(job', kv')
  BY DEF RowsInv
<1> DEFINE schema == job.schema
           set == job.stmt.value
           row == job.rows[job.n + 1]
           cells == NewValues(schema, row, set)
           new == WithValues(schema, row, set, cells)
           key == RowKey(schema, row)
           val == RowBytes(RowVal(schema, new))
           mistyped == \E i \in DOMAIN set : cells[i].type # schema.cols[ColIndex(schema, set[i].column)].type
           after == [i \in DOMAIN job.rows |-> IF RowKey(schema, job.rows[i]) = key THEN new ELSE job.rows[i]]
           step == [job EXCEPT !.n = @ + 1,
                               !.rows = [i \in DOMAIN @ |-> IF RowKey(schema, @[i]) = key THEN new ELSE @[i]]]
<1>1. job.pc = "write" /\ job.stmt.kind = "update" /\ job.n < Len(job.rows)
  BY DEF UpdateRow, Running
<1>2. CASE Refuse
  <2>1. UNCHANGED <<kv, maybe, swallowed>> /\ \E a : Reply(a)
    BY <1>2 DEF Refuse
  <2> QED BY <2>1, AnswerKeeps
<1>3. ASSUME ~mistyped, swallowed' = swallowed,
             \/ job' = step /\ UNCHANGED <<kv, maybe>>
             \/ Put(key, val) /\ job' = step
             \/ PutFails(key, val) /\ Reply(Error(0))
      PROVE  KeptRows(kv', maybe') /\ JobReads(job', kv')
  <2>1. /\ KeptRows(kv, maybe) /\ JobReads(job, kv) /\ InCatalog(kv, schema) /\ SchemaFits(schema) /\ IsJob(job)
        /\ ~swallowed
    BY <1>1, <1>3, ScanReads
  <2>2. TypedRow(schema, row) /\ RowsFit(schema, job.rows)
    BY <1>1, <2>1, NextTyped, NextRow
  <2>3. TypedRow(schema, new) /\ RowKey(schema, new) = key
    <3>1. /\ Len(set) \in Nat /\ DOMAIN set = 1..Len(set)
          /\ \A i \in DOMAIN set : /\ ~IsPKey(schema, ColIndex(schema, set[i].column))
                                   /\ cells[i] \in Cells
                                   /\ cells[i].type = schema.cols[ColIndex(schema, set[i].column)].type
      <4> HIDE DEF row, cells
      <4> QED BY <1>1, <1>3, <2>1, <2>2, NewCells DEF cells
    <3> HIDE DEF row, cells, set, schema
    <3> QED BY <2>1, <2>2, <3>1, WithValuesTyped
  <2> HIDE DEF new, mistyped
  <2>4. Keepable(key, val)
    <3> HIDE DEF row
    <3> QED BY <2>1, <2>3, RowKeepable
  <2>5. \A i \in 1..Len(job.rows) : TypedRow(schema, job.rows[i])
    BY <1>1, <2>1 DEF JobReads
  <2>6. \A i \in 1..Len(after) : TypedRow(schema, after[i])
    <3> HIDE DEF key, schema
    <3>1. DOMAIN after = DOMAIN job.rows /\ DOMAIN job.rows = 1..Len(job.rows)
      BY <2>2 DEF RowsFit
    <3>2. RowFits(schema, new)
      BY <2>1, <2>3, TypedFits DEF schema
    <3>3. Len(after) = Len(job.rows)
      BY <2>2, <3>2, ReplacedFit
    <3>4. ASSUME NEW i \in DOMAIN job.rows PROVE TypedRow(schema, after[i])
      BY <2>3, <2>5, <3>1
    <3> HIDE DEF after
    <3> QED BY <3>1, <3>3, <3>4
  <2>7. ASSUME job' = step, CatalogKept(kv, kv') PROVE JobReads(job', kv')
    <3>1. job' = [job EXCEPT !.n = job.n + 1, !.rows = after]
      BY <2>7
    <3> HIDE DEF after
    <3>2. job'.pc = "write" /\ job'.schema = schema /\ job'.stmt = job.stmt /\ job'.rows = after
      BY <1>1, <2>1, <3>1 DEF IsJob
    <3> QED BY <1>1, <2>1, <2>6, <2>7, <3>2, WriteReads
  <2> HIDE DEF key, val, step, after
  <2>8. CASE job' = step /\ UNCHANGED <<kv, maybe>>
    <3>1. CatalogKept(kv, kv')
      BY <2>8 DEF CatalogKept
    <3> QED BY <2>1, <2>7, <2>8, <3>1
  <2>9. CASE Put(key, val) /\ job' = step
    <3>1. KeptRows(kv', maybe') /\ CatalogKept(kv, kv')
      BY <2>1, <2>4, <2>9, WriteKeeps
    <3> QED BY <2>7, <2>9, <3>1
  <2>10. CASE PutFails(key, val) /\ Reply(Error(0))
    BY <2>1, <2>4, <2>10, WriteAnswerKeeps
  <2> QED BY <1>3, <2>8, <2>9, <2>10
<1> HIDE DEF set, row, cells, new, key, val, after, step, mistyped
<1>4. \/ Refuse
      \/ /\ ~mistyped /\ swallowed' = swallowed
         /\ \/ job' = step /\ UNCHANGED <<kv, maybe>>
            \/ Put(key, val) /\ job' = step
            \/ PutFails(key, val) /\ Reply(Error(0))
  <2> HIDE DEF schema
  <2> QED BY Zenon DEF UpdateRow, schema, set, row, cells, new, key, val, step, mistyped
<1> QED BY <1>2, <1>3, <1>4

LEMMA StepKeeps == EvaluationTypes /\ SQLInv /\ RowsInv /\ [Next]_vars => RowsInv'
<1> SUFFICES ASSUME EvaluationTypes, SQLInv, RowsInv, [Next]_vars PROVE RowsInv'
  OBVIOUS
<1>1. CASE Open \/ UNCHANGED vars
  BY <1>1, OpenKeeps
<1>2. CASE Close \/ Crash
  BY <1>2, CloseKeeps
<1>3. CASE \E text \in Texts : Exec(text)
  BY <1>3, ExecKeeps
<1>4. CASE TakeAnswer
  BY <1>4, TakeAnswerKeeps
<1>5. CASE CreateTable
  BY <1>5, CreateTableKeeps
<1>6. CASE GetSchema
  BY <1>6, GetSchemaKeeps
<1>7. CASE Insert
  BY <1>7, InsertKeeps
<1>8. CASE ExecCond
  BY <1>8, ExecCondKeeps
<1>9. CASE ScanRow
  BY <1>9, ScanRowKeeps
<1>10. CASE ScanDone
  BY <1>10, ScanDoneKeeps
<1>11. CASE UpdateRow
  BY <1>11, UpdateRowKeeps
<1>12. CASE DeleteRow
  BY <1>12, DeleteRowKeeps
<1>13. CASE WriteDone \/ ReadFails
  BY <1>13, WriteDoneKeeps
<1> QED BY <1>1, <1>2, <1>3, <1>4, <1>5, <1>6, <1>7, <1>8, <1>9, <1>10, <1>11, <1>12, <1>13, Zenon DEF Next

\* What is stored is readable.
LEMMA KeptReadable == SQLInv /\ RowsInv => RowsReadable
<1> DEFINE catalog == {t \in DOMAIN NameBytes : CatalogKey(t) \in DOMAIN kv}
           Of(t) == kv[CatalogKey(t)].schema
<1> SUFFICES ASSUME SQLInv, RowsInv, ~swallowed,
                    NEW key \in DOMAIN kv \ {CatalogKey(t) : t \in catalog}
             PROVE  \E t \in catalog :
                        LET schema == Of(t)
                            d == DecodeRow(schema, key, kv[key].bytes)
                        IN  /\ \A u \in catalog : InTable(Of(u), key) <=> u = t
                            /\ d.ok /\ RowKey(schema, d.row) = key /\ RowVal(schema, d.row) = kv[key].bytes
  BY Zenon DEF RowsReadable
<1>1. StoreFits(kv, maybe) /\ KeptRows(kv, maybe) /\ key \in Seq(Int)
  BY DEF SQLInv, RowsInv, StoreFits
<1>2. ~IsCatalogKey(key)
  BY DEF IsCatalogKey
<1> DEFINE val == kv[key]
<1>3. StoredIn(kv, key, val)
  BY <1>1, <1>2 DEF KeptRows
<1> HIDE DEF val
<1>4. PICK t \in DOMAIN NameBytes :
          LET schema == kv[CatalogKey(t)].schema
          IN  /\ CatalogKey(t) \in DOMAIN kv /\ InCatalog(kv, schema)
              /\ SchemaFits(schema) /\ schema.table = t /\ Stored(schema, key, val)
  BY <1>1, <1>3, StoredSchema
<1>5. /\ t \in catalog /\ InCatalog(kv, Of(t)) /\ SchemaFits(Of(t)) /\ Of(t).table = t
      /\ Stored(Of(t), key, val)
  BY <1>4
<1>6. \A u \in catalog : SchemaFits(Of(u)) /\ Of(u).table = u
  BY <1>1 DEF StoreFits, Entry
<1>7. \A u \in catalog : u \in DOMAIN NameBytes
  OBVIOUS
<1> HIDE DEF Of, catalog
<1>8. InTable(Of(t), key)
  BY <1>5, KeyInTable DEF Stored
<1>9. ASSUME NEW u \in catalog, InTable(Of(u), key) PROVE u = t
  <2>1. NameBytes[Of(u).table] = NameBytes[Of(t).table]
    BY <1>1, <1>5, <1>6, <1>8, <1>9, OneTable
  <2> QED BY <1>5, <1>6, <1>7, <2>1, CatalogAssumption
<1> DEFINE d == DecodeRow(Of(t), key, kv[key].bytes)
<1>10. d.ok /\ RowKey(Of(t), d.row) = key /\ RowVal(Of(t), d.row) = kv[key].bytes
  BY <1>1, <1>5, <1>8, RowAt
<1> HIDE DEF d
<1> QED BY <1>5, <1>8, <1>9, <1>10 DEF d

\* What is stored can be read: whatever statements failed halfway, were refused,
\* were cut short by a crash or came back after it, everything in the store
\* that is not a schema decodes as a row of exactly one table and encodes to
\* itself again, unless a read error was dropped on the way (schema.go:52,
\* schema.go:91).  Of the evaluation it is assumed that it gives cells.
THEOREM StoredRowsReadable ==
  ASSUME EvaluationTypes
  PROVE  Spec => []RowsReadable
<1>1. Init => SQLInv /\ RowsInv
  BY InitFits, InitKeeps
<1>2. SQLInv /\ RowsInv /\ [Next]_vars => (SQLInv /\ RowsInv)'
  BY StepFits, StepKeeps
<1>3. SQLInv /\ RowsInv => RowsReadable
  BY KeptReadable
<1> QED BY <1>1, <1>2, <1>3, PTL DEF Spec
=============================================================================
