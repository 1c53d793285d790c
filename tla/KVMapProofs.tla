---------------------------- MODULE KVMapProofs ----------------------------
(***************************************************************************)
(* The engine is a durable map, for every set of keys and values and every *)
(* bound: every step of KVStore is a step of DurableMap, or none.  The     *)
(* lemmas about lookups and about the log come first.                      *)
(***************************************************************************)
EXTENDS KVTablesProofs

-----------------------------------------------------------------------------
(* Lookups, with the files as an argument.                                 *)

\* The entry of the first table that has one.
Found(f, tables, k) ==
    LET hits == {i \in DOMAIN tables : ContentsOf(f, tables[i])[k] # Absent}
    IN  IF hits = {} THEN Absent
        ELSE ContentsOf(f, tables[CHOOSE i \in hits : \A j \in hits : i <= j])[k]

\* What Get makes of an entry.
Answer(cell) == IF cell = Tombstone THEN Absent ELSE cell

Lookup(f, m, tables, k) == Answer(IF m[k] # Absent THEN m[k] ELSE Found(f, tables, k))

LEMMA GetInLookup == \A m, t, k : GetIn(m, t, k) = Lookup(files, m, t, k)
  BY DEF GetIn, Lookup, Found, Answer, Contents, ContentsOf

\* The table a compaction builds, with everything it reads as arguments.
MergeOf(f, tables, a) ==
    LET both == Merged(ContentsOf(f, tables[a]), ContentsOf(f, tables[a + 1]))
    IN  IF a + 1 = Len(tables) THEN NoDeleted(both) ELSE both

TableOf(f, m, tables, j) == IF j.kind = "flush" THEN m ELSE MergeOf(f, tables, j.at)

LEMMA NewTableOf == NewTable = TableOf(files, mem, main, job)
  BY DEF NewTable, TableOf, MergeOf, Contents, ContentsOf, IntoLast

\* What a file holds is a level.
LEMMA ContentsType == \A f, t : ContentsOf(f, t) \in Level /\ Empty \in Level
  BY DEF ContentsOf, Empty, Level

\* No table of the list has an entry, or number i is the first that has.
NoneHas(f, t, k) == \A i \in DOMAIN t : ContentsOf(f, t[i])[k] = Absent
First(f, t, k, i) ==
    /\ i \in DOMAIN t
    /\ ContentsOf(f, t[i])[k] # Absent
    /\ \A j \in DOMAIN t : j < i => ContentsOf(f, t[j])[k] = Absent

LEMMA FoundNone ==
  ASSUME NEW f, NEW t, NEW k, NoneHas(f, t, k)
  PROVE  Found(f, t, k) = Absent
  BY DEF Found, NoneHas

LEMMA FoundFirst ==
  ASSUME NEW f, NEW t \in Seq(Names), NEW k, NEW i, First(f, t, k, i)
  PROVE  Found(f, t, k) = ContentsOf(f, t[i])[k]
<1> DEFINE hits == {j \in DOMAIN t : ContentsOf(f, t[j])[k] # Absent}
           least == CHOOSE j \in hits : \A n \in hits : j <= n
<1>1. i \in hits /\ \A n \in hits : i <= n
  <2>1. ASSUME NEW n \in hits PROVE i <= n
    <3>1. n \in Nat /\ i \in Nat /\ ~(n < i)
      BY DEF First
    <3> QED BY <3>1
  <2> QED BY <2>1 DEF First
<1>2. hits \subseteq Nat
  OBVIOUS
<1> HIDE DEF hits
<1>3. least \in hits /\ \A n \in hits : least <= n
  BY <1>1
<1> HIDE DEF least
<1>4. least = i
  BY <1>1, <1>2, <1>3
<1>5. Found(f, t, k) = ContentsOf(f, t[least])[k]
  BY <1>1 DEF Found, hits, least
<1> QED BY <1>4, <1>5

LEMMA FoundCases ==
  ASSUME NEW f, NEW t \in Seq(Names), NEW k
  PROVE  NoneHas(f, t, k) \/ \E i \in DOMAIN t : First(f, t, k, i)
<1> DEFINE hits == {j \in DOMAIN t : ContentsOf(f, t[j])[k] # Absent}
           R == OpToRel(<, Nat)
<1> SUFFICES ASSUME hits # {} PROVE \E i \in DOMAIN t : First(f, t, k, i)
  BY DEF NoneHas
<1>1. PICK i \in hits : \A j \in hits : ~(<<j, i>> \in R)
  <2>1. hits \subseteq Nat
    OBVIOUS
  <2>2. IsWellFoundedOn(R, Nat)
    BY NatLessThanWellFounded
  <2> HIDE DEF hits, R
  <2> QED BY <2>1, <2>2, WFMin
<1>2. ASSUME NEW j \in hits PROVE ~(j < i)
  <2>1. i \in Nat /\ j \in Nat
    OBVIOUS
  <2>2. ~(<<j, i>> \in R)
    BY <1>1
  <2> HIDE DEF hits
  <2> QED BY <2>1, <2>2, SMT DEF OpToRel
<1>3. First(f, t, k, i)
  BY <1>2 DEF First
<1> QED BY <1>3

\* Lookups see nothing of the files but the tables in the list.
LEMMA LookupFiles ==
  ASSUME NEW f, NEW g, NEW t \in Seq(Names), NEW m, NEW k,
         \A i \in DOMAIN t : g[t[i]] = f[t[i]]
  PROVE  Lookup(g, m, t, k) = Lookup(f, m, t, k)
<1>1. \A i \in DOMAIN t : ContentsOf(g, t[i]) = ContentsOf(f, t[i])
  BY DEF ContentsOf
<1>2. Found(g, t, k) = Found(f, t, k)
  <2>1. CASE NoneHas(f, t, k)
    <3>1. NoneHas(g, t, k)
      BY <1>1, <2>1 DEF NoneHas
    <3> QED BY <2>1, <3>1, FoundNone
  <2>2. ASSUME NEW i \in DOMAIN t, First(f, t, k, i) PROVE Found(g, t, k) = Found(f, t, k)
    <3>1. First(g, t, k, i)
      BY <1>1, <2>2 DEF First
    <3>2. Found(f, t, k) = ContentsOf(f, t[i])[k] /\ Found(g, t, k) = ContentsOf(g, t[i])[k]
      BY <2>2, <3>1, FoundFirst
    <3> QED BY <1>1, <3>2
  <2> QED BY <2>1, <2>2, FoundCases
<1> QED BY <1>2 DEF Lookup

\* A table in front of the others.
LEMMA FoundPrepended ==
  ASSUME NEW f, NEW k, NEW v \in Names, NEW o \in Seq(Names)
  PROVE  Found(f, Prepended(v, o), k) =
             IF ContentsOf(f, v)[k] # Absent THEN ContentsOf(f, v)[k] ELSE Found(f, o, k)
<1> DEFINE S == Names
           t == Prepended(v, o)
<1>1. /\ t \in Seq(Names) /\ Len(t) = Len(o) + 1 /\ t[1] = v
      /\ \A n \in 1..Len(o) : t[n + 1] = o[n]
  <2>1. o \in Seq(S) /\ v \in S
    OBVIOUS
  <2> HIDE DEF S
  <2>2. /\ t \in Seq(S) /\ Len(t) = Len(o) + 1 /\ t[1] = v
        /\ \A n \in 1..Len(o) : t[n + 1] = o[n]
    BY <2>1, PrependedSeq
  <2> QED BY <2>2 DEF S
<1> HIDE DEF t
<1>2. /\ Len(o) \in Nat /\ DOMAIN o = 1..Len(o) /\ DOMAIN t = 1..(Len(o) + 1)
      /\ DOMAIN o \subseteq Nat /\ DOMAIN t \subseteq Nat
  <2>1. Len(o) \in Nat /\ DOMAIN o = 1..Len(o)
    OBVIOUS
  <2>2. DOMAIN t = 1..Len(t)
    BY <1>1
  <2>3. DOMAIN t = 1..(Len(o) + 1)
    BY <1>1, <2>2
  <2> QED BY <2>1, <2>3
<1>3. \A n \in DOMAIN t : n # 1 => n - 1 \in DOMAIN o /\ t[n] = o[n - 1]
  <2>1. ASSUME NEW n \in DOMAIN t, n # 1 PROVE n - 1 \in DOMAIN o /\ t[n] = o[n - 1]
    <3>1. n - 1 \in 1..Len(o) /\ (n - 1) + 1 = n
      BY <1>2, <2>1
    <3> QED BY <1>1, <1>2, <3>1
  <2> QED BY <2>1
<1>4. CASE ContentsOf(f, v)[k] # Absent
  <2>1. First(f, t, k, 1)
    BY <1>1, <1>2, <1>4 DEF First
  <2>2. Found(f, t, k) = ContentsOf(f, t[1])[k]
    BY <1>1, <2>1, FoundFirst
  <2> QED BY <1>1, <1>4, <2>2 DEF t
<1>5. ASSUME ContentsOf(f, v)[k] = Absent, NoneHas(f, o, k)
      PROVE  Found(f, t, k) = Found(f, o, k)
  <2>1. NoneHas(f, t, k)
    BY <1>1, <1>3, <1>5 DEF NoneHas
  <2> QED BY <1>5, <2>1, FoundNone
<1>6. ASSUME ContentsOf(f, v)[k] = Absent, NEW i \in DOMAIN o, First(f, o, k, i)
      PROVE  Found(f, t, k) = Found(f, o, k)
  <2>1. i + 1 \in DOMAIN t /\ t[i + 1] = o[i]
    BY <1>1, <1>2
  <2>2. ASSUME NEW j \in DOMAIN t, j < i + 1 PROVE ContentsOf(f, t[j])[k] = Absent
    <3>1. CASE j = 1
      BY <1>1, <1>6, <3>1
    <3>2. CASE j # 1
      <4>1. j - 1 \in DOMAIN o /\ t[j] = o[j - 1]
        BY <1>3, <3>2
      <4>2. j - 1 < i
        BY <1>2, <2>2
      <4> QED BY <1>6, <4>1, <4>2 DEF First
    <3> QED BY <3>1, <3>2
  <2>3. First(f, t, k, i + 1)
    BY <1>6, <2>1, <2>2 DEF First
  <2>4. Found(f, t, k) = ContentsOf(f, t[i + 1])[k] /\ Found(f, o, k) = ContentsOf(f, o[i])[k]
    BY <1>1, <1>6, <2>3, FoundFirst
  <2> QED BY <2>1, <2>4
<1>7. ContentsOf(f, v)[k] = Absent => Found(f, t, k) = Found(f, o, k)
  BY <1>5, <1>6, FoundCases
<1> QED BY <1>4, <1>7 DEF t

\* A table with the entries of two neighbours in their place.  One without
\* tombstones will do if there is nothing behind it.
LEMMA FoundSpliced ==
  ASSUME NEW f, NEW k \in Keys, NEW v \in Names, NEW o \in Seq(Names), NEW a \in 1..(Len(o) - 1)
  PROVE  ContentsOf(f, v) = MergeOf(f, o, a) =>
             Answer(Found(f, Spliced(v, o, a), k)) = Answer(Found(f, o, k))
<1> DEFINE t == Spliced(v, o, a)
           x(n) == ContentsOf(f, o[n])[k]
           y(n) == ContentsOf(f, t[n])[k]
           one == IF x(a) # Absent THEN x(a) ELSE x(a + 1)
<1>1. /\ t \in Seq(Names) /\ Len(t) = Len(o) - 1 /\ t[a] = v
      /\ \A n \in 1..(a - 1) : t[n] = o[n]
      /\ \A n \in (a + 1)..(Len(o) - 1) : t[n] = o[n + 1]
  BY SplicedSeq
<1> SUFFICES ASSUME ContentsOf(f, v) = MergeOf(f, o, a)
             PROVE  Answer(Found(f, t, k)) = Answer(Found(f, o, k))
  OBVIOUS
<1>2. y(a) = IF a + 1 = Len(o) /\ one = Tombstone THEN Absent ELSE one
  <2> DEFINE both == Merged(ContentsOf(f, o[a]), ContentsOf(f, o[a + 1]))
  <2>1. both[k] = one /\ NoDeleted(both)[k] = IF one = Tombstone THEN Absent ELSE one
    BY DEF Merged, NoDeleted
  <2>2. ContentsOf(f, t[a]) = IF a + 1 = Len(o) THEN NoDeleted(both) ELSE both
    BY <1>1 DEF MergeOf
  <2> QED BY <2>1, <2>2
<1> HIDE DEF t
<1>3. /\ Len(o) \in Nat /\ a \in Nat /\ 1 <= a /\ a < Len(o)
      /\ DOMAIN o = 1..Len(o) /\ DOMAIN t = 1..(Len(o) - 1)
      /\ DOMAIN o \subseteq Nat /\ DOMAIN t \subseteq Nat
  BY <1>1
<1>4. /\ \A n \in 1..(a - 1) : y(n) = x(n)
      /\ \A n \in (a + 1)..(Len(o) - 1) : y(n) = x(n + 1)
  BY <1>1
<1>5. ASSUME \A n \in DOMAIN t : y(n) = Absent PROVE Found(f, t, k) = Absent
  BY <1>5, FoundNone DEF NoneHas
<1>6. ASSUME NEW n \in DOMAIN t, y(n) # Absent, \A j \in DOMAIN t : j < n => y(j) = Absent
      PROVE  Found(f, t, k) = y(n)
  <2>1. First(f, t, k, n)
    BY <1>6 DEF First
  <2> QED BY <1>1, <2>1, FoundFirst
<1>7. ASSUME NoneHas(f, o, k) PROVE Found(f, o, k) = Absent /\ \A n \in DOMAIN o : x(n) = Absent
  <2>1. Found(f, o, k) = Absent
    BY <1>7, FoundNone
  <2> QED BY <1>7, <2>1 DEF NoneHas
<1>8. ASSUME NEW n \in DOMAIN o, First(f, o, k, n)
      PROVE  /\ Found(f, o, k) = x(n) /\ x(n) # Absent
             /\ \A j \in DOMAIN o : j < n => x(j) = Absent
  <2>1. Found(f, o, k) = x(n)
    BY <1>8, FoundFirst
  <2> QED BY <1>8, <2>1 DEF First
<1>9. Tombstone # Absent
  BY KVAssumption DEF Cells
<1>12. (x(a) # Absent /\ one = x(a)) \/ (x(a) = Absent /\ one = x(a + 1))
  OBVIOUS
<1> HIDE DEF x, y, one
<1>10. ASSUME Found(f, o, k) = Absent, \A n \in DOMAIN o : x(n) = Absent
       PROVE  Found(f, t, k) = Absent
  <2>1. y(a) = Absent
    <3>1. a \in DOMAIN o /\ a + 1 \in DOMAIN o
      BY <1>3
    <3>2. one = Absent
      BY <1>10, <1>12, <3>1
    <3> QED BY <1>2, <3>2
  <2>2. ASSUME NEW n \in DOMAIN t PROVE y(n) = Absent
    <3>1. CASE n < a
      BY <1>3, <1>4, <1>10, <3>1
    <3>2. CASE n > a
      BY <1>3, <1>4, <1>10, <3>2
    <3> QED BY <1>3, <2>1, <3>1, <3>2
  <2> QED BY <1>5, <2>2
<1>11. ASSUME NEW n \in DOMAIN o, Found(f, o, k) = x(n), x(n) # Absent,
              \A j \in DOMAIN o : j < n => x(j) = Absent
       PROVE  Answer(Found(f, t, k)) = Answer(Found(f, o, k))
  <2>1. Found(f, o, k) = x(n)
    BY <1>11
  <2>2. CASE n < a
    <3>1. n \in DOMAIN t /\ y(n) = x(n) /\ \A j \in DOMAIN t : j < n => y(j) = Absent
      BY <1>3, <1>4, <1>11, <2>2
    <3> QED BY <1>6, <1>11, <3>1
  <2>3. CASE n = a \/ n = a + 1
    <3>1. one = x(n)
      <4>1. n = a + 1 => x(a) = Absent
        BY <1>3, <1>11
      <4> QED BY <1>11, <1>12, <2>3, <4>1
    <3>2. ASSUME NEW j \in DOMAIN t, j < a PROVE y(j) = Absent
      <4>1. j \in Nat /\ 1 <= j
        BY <1>3
      <4>2. j \in 1..(a - 1) /\ j \in 1..Len(o)
        BY <1>3, <3>2, <4>1
      <4>3. j < n
        BY <1>3, <2>3, <3>2, <4>1
      <4> QED BY <1>3, <1>4, <1>11, <4>2, <4>3
    <3>3. CASE y(a) # Absent
      <4>1. a \in DOMAIN t
        BY <1>3
      <4>2. y(a) = x(n)
        BY <1>2, <3>1, <3>3
      <4>3. Found(f, t, k) = y(a)
        BY <1>6, <3>2, <3>3, <4>1, Zenon
      <4> QED BY <2>1, <4>2, <4>3
    <3>4. CASE y(a) = Absent
      <4>1. a + 1 = Len(o) /\ one = Tombstone
        BY <1>2, <1>11, <3>1, <3>4
      <4>2. \A j \in DOMAIN t : y(j) = Absent
        BY <1>3, <3>2, <3>4, <4>1
      <4> QED BY <1>5, <1>9, <1>11, <3>1, <4>1, <4>2 DEF Answer
    <3> QED BY <3>3, <3>4
  <2>4. CASE n > a + 1
    <3>1. n - 1 \in DOMAIN t /\ y(n - 1) = x(n)
      <4>1. n - 1 \in (a + 1)..(Len(o) - 1) /\ (n - 1) + 1 = n
        BY <1>3, <2>4
      <4>2. y(n - 1) = x((n - 1) + 1)
        BY <1>4, <4>1
      <4> QED BY <1>3, <4>1, <4>2
    <3>2. ASSUME NEW j \in DOMAIN t, j < n - 1 PROVE y(j) = Absent
      <4>1. CASE j < a
        BY <1>3, <1>4, <1>11, <2>4, <4>1
      <4>2. CASE j = a
        <5>1. x(a) = Absent /\ x(a + 1) = Absent
          BY <1>3, <1>11, <2>4
        <5> QED BY <1>2, <1>12, <4>2, <5>1
      <4>3. CASE j > a
        <5>1. j \in (a + 1)..(Len(o) - 1) /\ j + 1 \in DOMAIN o /\ j + 1 < n
          BY <1>3, <3>2, <4>3
        <5> QED BY <1>4, <1>11, <5>1
      <4> QED BY <1>3, <4>1, <4>2, <4>3
    <3> QED BY <1>6, <1>11, <3>1, <3>2
  <2> QED BY <1>3, <2>2, <2>3, <2>4
<1> QED BY <1>7, <1>8, <1>10, <1>11, FoundCases
-----------------------------------------------------------------------------
(* Replays.                                                                *)

\* Record number i is the last one of key k that replay reaches, or there is none.
Last(l, k, i) ==
    /\ i \in Log!Readable(l) /\ l[i].key = k
    /\ \A j \in Log!Readable(l) : l[j].key = k => j <= i
NoneOf(l, k) == \A i \in Log!Readable(l) : l[i].key # k

LEMMA LastCases ==
  ASSUME NEW l \in Log!Contents, NEW k
  PROVE  NoneOf(l, k) \/ \E i \in Log!Readable(l) : Last(l, k, i)
<1> DEFINE hits == {i \in Log!Readable(l) : l[i].key = k}
<1>1. Len(l) \in Nat /\ hits \subseteq 1..Len(l)
  BY DEF Log!Contents, Log!Readable
<1>2. CASE hits = {}
  BY <1>2 DEF NoneOf
<1>3. CASE hits # {}
  <2> HIDE DEF hits
  <2>1. PICK x \in hits : \A y \in hits : y <= x
    BY <1>1, <1>3, GreatestIndex
  <2> QED BY <2>1 DEF hits, Last
<1> QED BY <1>2, <1>3

LEMMA LastNone ==
  ASSUME NEW l, NEW k \in Keys, NoneOf(l, k)
  PROVE  Log!Replay(l)[k] = Absent
  BY DEF NoneOf, Log!Replay, Log!LastOf

LEMMA LastIs ==
  ASSUME NEW l \in Log!Contents, NEW k \in Keys, NEW i, Last(l, k, i)
  PROVE  Log!Replay(l)[k] = l[i].val
<1> DEFINE hits == {j \in Log!Readable(l) : l[j].key = k}
           last == CHOOSE j \in hits : \A n \in hits : n <= j
<1>1. hits \subseteq Nat
  BY DEF Log!Contents, Log!Readable
<1>2. i \in hits /\ \A n \in hits : n <= i
  BY DEF Last
<1> HIDE DEF hits
<1>3. last \in hits /\ \A n \in hits : n <= last
  BY <1>2
<1> HIDE DEF last
<1>4. last = i
  BY <1>1, <1>2, <1>3
<1>5. Log!Replay(l)[k] = l[last].val
  BY <1>2 DEF Log!Replay, Log!LastOf, hits, last
<1> QED BY <1>4, <1>5

\* What appending does to the records replay reaches.
LEMMA Appended ==
  ASSUME NEW l \in Log!Contents, NEW r \in Log!Record \union {Torn}
  PROVE  /\ Append(l, r) \in Log!Contents /\ Len(l) \in Nat
         /\ Len(Append(l, r)) = Len(l) + 1 /\ Append(l, r)[Len(l) + 1] = r
         /\ \A i \in 1..Len(l) : Append(l, r)[i] = l[i]
  BY DEF Log!Contents

\* Torn bytes at the end change nothing.
LEMMA ReplayTorn ==
  ASSUME NEW l \in Log!Contents
  PROVE  Log!Replay(Append(l, Torn)) = Log!Replay(l)
<1> DEFINE m == Append(l, Torn)
<1>1. /\ m \in Log!Contents /\ Len(l) \in Nat /\ Len(m) = Len(l) + 1 /\ m[Len(l) + 1] = Torn
      /\ \A i \in 1..Len(l) : m[i] = l[i]
  BY Appended
<1> HIDE DEF m
<1>2. Log!Readable(m) = Log!Readable(l)
  <2>1. ASSUME NEW i \in Log!Readable(m) PROVE i \in Log!Readable(l)
    <3>1. i \in 1..Len(m) /\ \A j \in 1..i : m[j] # Torn
      BY DEF Log!Readable
    <3>2. i # Len(l) + 1
      BY <1>1, <3>1
    <3>3. i \in 1..Len(l) /\ \A j \in 1..i : j \in 1..Len(l)
      BY <1>1, <3>1, <3>2
    <3> QED BY <1>1, <3>1, <3>3 DEF Log!Readable
  <2>2. ASSUME NEW i \in Log!Readable(l) PROVE i \in Log!Readable(m)
    <3>1. i \in 1..Len(l) /\ \A j \in 1..i : l[j] # Torn
      BY DEF Log!Readable
    <3>2. i \in 1..Len(m) /\ \A j \in 1..i : j \in 1..Len(l)
      BY <1>1, <3>1
    <3> QED BY <1>1, <3>1, <3>2 DEF Log!Readable
  <2> QED BY <2>1, <2>2
<1>3. \A i \in Log!Readable(l) : m[i] = l[i]
  BY <1>1 DEF Log!Readable
<1>4. ASSUME NEW k \in Keys PROVE Log!Replay(m)[k] = Log!Replay(l)[k]
  <2>1. CASE NoneOf(l, k)
    <3>1. NoneOf(m, k)
      BY <1>2, <1>3, <2>1 DEF NoneOf
    <3> QED BY <2>1, <3>1, LastNone
  <2>2. ASSUME NEW i \in Log!Readable(l), Last(l, k, i) PROVE Log!Replay(m)[k] = Log!Replay(l)[k]
    <3>1. Last(m, k, i)
      BY <1>2, <1>3, <2>2 DEF Last
    <3>2. Log!Replay(m)[k] = m[i].val /\ Log!Replay(l)[k] = l[i].val
      BY <1>1, <2>2, <3>1, LastIs
    <3> QED BY <1>3, <3>2
  <2> QED BY <2>1, <2>2, LastCases
<1> QED BY <1>4 DEF m, Log!Replay

\* Bytes behind torn ones stay there.
LEMMA BuriedStays ==
  ASSUME NEW l \in Log!Contents, NEW r \in Log!Record \union {Torn}, ~Log!Buried(Append(l, r))
  PROVE  /\ ~Log!Buried(l) /\ \A i \in 1..Len(l) : l[i] # Torn
         /\ Log!Readable(l) = 1..Len(l)
         /\ r # Torn => Log!Readable(Append(l, r)) = 1..(Len(l) + 1)
<1> DEFINE m == Append(l, r)
<1>1. /\ m \in Log!Contents /\ Len(l) \in Nat /\ Len(m) = Len(l) + 1 /\ m[Len(l) + 1] = r
      /\ \A i \in 1..Len(l) : m[i] = l[i]
  BY Appended
<1>2. ~Log!Buried(m)
  OBVIOUS
<1> HIDE DEF m
<1>3. ASSUME NEW i \in 1..Len(l) PROVE l[i] # Torn
  <2>1. i \in 1..Len(m) /\ i < Len(m) /\ m[i] = l[i]
    BY <1>1
  <2> QED BY <1>2, <2>1 DEF Log!Buried
<1>4. Log!Readable(l) = 1..Len(l)
  <2>1. \A i \in 1..Len(l) : \A j \in 1..i : j \in 1..Len(l)
    BY <1>1
  <2> QED BY <1>3, <2>1 DEF Log!Readable
<1>5. r # Torn => Log!Readable(m) = 1..(Len(l) + 1)
  <2>1. \A i \in 1..Len(m) : \A j \in 1..i : j \in 1..Len(l) \/ j = Len(l) + 1
    BY <1>1
  <2> QED BY <1>1, <1>3, <2>1 DEF Log!Readable
<1> QED BY <1>3, <1>4, <1>5 DEF m, Log!Buried

\* A record that is not behind torn bytes is replayed last.
LEMMA ReplayRecord ==
  ASSUME NEW l \in Log!Contents, NEW r \in Log!Record, ~Log!Buried(Append(l, r))
  PROVE  Log!Replay(Append(l, r)) = [Log!Replay(l) EXCEPT ![r.key] = r.val]
<1> DEFINE m == Append(l, r)
<1>1. /\ m \in Log!Contents /\ Len(l) \in Nat /\ Len(m) = Len(l) + 1 /\ m[Len(l) + 1] = r
      /\ \A i \in 1..Len(l) : m[i] = l[i]
  BY Appended
<1>2. Log!Readable(l) = 1..Len(l) /\ Log!Readable(m) = 1..(Len(l) + 1)
  BY BuriedStays, KVAssumption
<1> HIDE DEF m
<1>3. ASSUME NEW k \in Keys, k = r.key PROVE Log!Replay(m)[k] = r.val
  <2>1. Last(m, k, Len(l) + 1)
    BY <1>1, <1>2, <1>3 DEF Last
  <2> QED BY <1>1, <2>1, LastIs
<1>4. ASSUME NEW k \in Keys, k # r.key PROVE Log!Replay(m)[k] = Log!Replay(l)[k]
  <2>1. CASE NoneOf(l, k)
    <3>1. NoneOf(m, k)
      <4>1. \A i \in 1..(Len(l) + 1) : i \in 1..Len(l) \/ i = Len(l) + 1
        BY <1>1
      <4> QED BY <1>1, <1>2, <1>4, <2>1, <4>1 DEF NoneOf
    <3> QED BY <2>1, <3>1, LastNone
  <2>2. ASSUME NEW i \in Log!Readable(l), Last(l, k, i) PROVE Log!Replay(m)[k] = Log!Replay(l)[k]
    <3>1. Last(m, k, i)
      <4>1. \A j \in 1..(Len(l) + 1) : j \in 1..Len(l) \/ j = Len(l) + 1
        BY <1>1
      <4>2. i \in Log!Readable(m)
        BY <1>1, <1>2
      <4> QED BY <1>1, <1>2, <1>4, <2>2, <4>1, <4>2 DEF Last
    <3>2. Log!Replay(m)[k] = m[i].val /\ Log!Replay(l)[k] = l[i].val
      BY <1>1, <2>2, <3>1, LastIs
    <3> QED BY <1>1, <1>2, <3>2
  <2> QED BY <2>1, <2>2, LastCases
<1> QED BY <1>3, <1>4 DEF m, Log!Replay

\* The record at the end of a log, if it is not behind torn bytes, is found.
LEMMA ReplayLast ==
  ASSUME NEW l \in Log!Contents, l # <<>>, NEW r \in Log!Record, l[Len(l)] = r, ~Log!Buried(l)
  PROVE  Log!Replay(l)[r.key] = r.val
<1>1. Len(l) \in Nat /\ Len(l) \in 1..Len(l) /\ r # Torn /\ r.key \in Keys
  BY KVAssumption DEF Log!Contents, Log!Record
<1>2. \A i \in 1..Len(l) : l[i] # Torn
  BY <1>1 DEF Log!Buried
<1>3. Len(l) \in Log!Readable(l)
  BY <1>1, <1>2 DEF Log!Readable
<1>4. Last(l, r.key, Len(l))
  BY <1>1, <1>3 DEF Last, Log!Readable
<1> QED BY <1>1, <1>4, LastIs

LEMMA ReplayEmpty == Log!Replay(<<>>) = Empty
<1>1. \A k : NoneOf(<<>>, k)
  BY DEF NoneOf, Log!Readable
<1> QED BY <1>1, LastNone DEF Empty, Log!Replay
-----------------------------------------------------------------------------
(* The invariant.                                                          *)

\* Two lists of tables that answer alike under MemTable m; a list that has the
\* entries of m itself.
Alike(f, m, t, u) == \A k \in Keys : Lookup(f, m, t, k) = Lookup(f, m, u, k)
Flushed(f, m, t)  == \A k \in Keys : Lookup(f, m, t, k) = Lookup(f, Empty, t, k)

\* Outside Write and Truncate the file is on disk as the system sees it.
LogSynced == (pc \notin {"write", "truncate"} \/ "power" \notin faults) => logDisk = {log}

\* The table that meta.Set is going to name is what the compaction should build.
TableBuilt ==
    pc = "meta" /\ ~InSet => files[version] = TableOf(files, mem, main, job)

\* The list that meta.Set writes answers like the live one.
SetKeepsMap ==
    InSet =>
        /\ Alike(files, mem, pending.tables, Live)
        /\ job.kind = "flush" => Flushed(files, mem, pending.tables)

\* The list that openLevels opens answers like the open levels.
LevelsKeepMap ==
    pc = "levels" =>
        /\ Alike(files, mem, Live, main)
        /\ job.kind = "flush" => Flushed(files, mem, Live)

\* What is about to be cleared is in the tables.
ClearKeepsMap == pc = "clear" => Flushed(files, mem, Live)

\* Whatever list a restart finds, it answers alike under the MemTable it replays,
\* which has an entry wherever the MemTable has one.
LogKeepsMap ==
    Up /\ ~Buried =>
        /\ \A d \in Unsure : Alike(files, Log!Replay(log), d.tables, Stored.tables)
        /\ \A k \in Keys : mem[k] # Absent => Log!Replay(log)[k] # Absent

KeepsMap == TableBuilt /\ SetKeepsMap /\ LevelsKeepMap /\ ClearKeepsMap /\ LogKeepsMap

MapInv ==
    /\ TablesInv
    /\ MainIsLive
    /\ LogSynced
    /\ "openerr" \notin faults => KeepsMap
-----------------------------------------------------------------------------
(* The list of tables a compaction writes.                                 *)

\* A Set in progress may be what a restart finds.
LEMMA PendingUnsure ==
  ASSUME MP!MetaInv, InSet
  PROVE  pending \in Unsure
<1>1. Unsure = MP!RegUnsure
  BY SameRegister
<1>2. CASE metaPhase = "truncated"
  BY <1>1, <1>2 DEF MP!RegUnsure
<1>3. CASE metaPhase = "written"
  <2>1. /\ cached[MP!Target] = MP!Whole(pending) /\ cached[MP!Target] \in durable[MP!Target]
        /\ pending.version > MP!Get.version
    BY <1>3 DEF MP!MetaInv, MP!InProgress, MP!CacheInDurable, MP!Slots, MP!Target
  <2> QED BY <1>1, <1>3, <2>1 DEF MP!RegUnsure, MP!Whole
<1> QED BY <1>2, <1>3 DEF InSet

\* The table a compaction has built, and where it goes.
LEMMA BuiltTable ==
  ASSUME TablesInv, MainIsLive, "openerr" \notin faults, TableBuilt, pc = "meta", ~InSet
  PROVE  /\ version \in Names /\ Live \in Seq(Names)
         /\ \/ /\ job.kind = "flush" /\ ContentsOf(files, version) = mem
               /\ NewTables = Prepended(version, Live)
            \/ /\ job.kind = "merge" /\ job.at \in 1..(Len(Live) - 1)
               /\ ContentsOf(files, version) = MergeOf(files, Live, job.at)
               /\ NewTables = Spliced(version, Live, job.at)
<1>1. /\ version \in Names /\ Live \in Seq(Names) /\ main = Live
      /\ job.kind = "flush" \/ (job.kind = "merge" /\ job.at \in 1..(Len(main) - 1))
  BY Ranges DEF TablesInv, EngineInv, JobFits, MainIsLive
<1>2. ContentsOf(files, version) = TableOf(files, mem, main, job)
  BY DEF TablesInv, SoundInv, TableBuilt, ContentsOf
<1>3. /\ job.kind = "flush" => NewTables = Prepended(version, Live)
      /\ job.kind = "merge" => NewTables = Spliced(version, Live, job.at)
  BY DEF NewTables, Live, Prepended, Spliced
<1> QED BY <1>1, <1>2, <1>3 DEF TableOf

\* The list that meta.Set is given answers as the live one does, under any
\* MemTable with the entries that are flushed.
LEMMA NewLookup ==
  ASSUME TablesInv, MainIsLive, "openerr" \notin faults, TableBuilt, pc = "meta", ~InSet,
         NEW m, NEW k \in Keys, job.kind = "flush" /\ m[k] = Absent => mem[k] = Absent
  PROVE  Lookup(files, m, NewTables, k) = Lookup(files, m, Live, k)
<1>1. version \in Names /\ Live \in Seq(Names)
  BY BuiltTable
<1>2. CASE m[k] # Absent
  BY <1>2 DEF Lookup
<1>3. ASSUME m[k] = Absent, job.kind = "flush", ContentsOf(files, version) = mem,
             NewTables = Prepended(version, Live)
      PROVE  Found(files, NewTables, k) = Found(files, Live, k)
  BY <1>1, <1>3, FoundPrepended
<1>4. ASSUME job.at \in 1..(Len(Live) - 1), ContentsOf(files, version) = MergeOf(files, Live, job.at),
             NewTables = Spliced(version, Live, job.at)
      PROVE  Answer(Found(files, NewTables, k)) = Answer(Found(files, Live, k))
  BY <1>1, <1>4, FoundSpliced
<1>5. m[k] = Absent => Answer(Found(files, NewTables, k)) = Answer(Found(files, Live, k))
  BY <1>3, <1>4, BuiltTable
<1> QED BY <1>2, <1>5 DEF Lookup

\* After a flush, the list has what the MemTable has.
LEMMA NewFlushed ==
  ASSUME TablesInv, MainIsLive, "openerr" \notin faults, TableBuilt, pc = "meta", ~InSet,
         job.kind = "flush"
  PROVE  Flushed(files, mem, NewTables)
<1>1. /\ version \in Names /\ Live \in Seq(Names) /\ ContentsOf(files, version) = mem
      /\ NewTables = Prepended(version, Live)
  BY BuiltTable
<1>2. ASSUME NEW k \in Keys PROVE Lookup(files, mem, NewTables, k) = Lookup(files, Empty, NewTables, k)
  <2>1. mem[k] # Absent => Found(files, NewTables, k) = mem[k]
    BY <1>1, FoundPrepended
  <2>2. Empty[k] = Absent
    BY DEF Empty
  <2> QED BY <2>1, <2>2 DEF Lookup
<1> QED BY <1>2 DEF Flushed
-----------------------------------------------------------------------------
(* What is on disk of the log.                                             *)

\* What the environment may do is fixed.
LEMMA FaultsStay == ASSUME [Next]_vars PROVE faults' = faults
<1>1. CASE \/ (\E fresh \in BOOLEAN : Open(fresh)) \/ Close \/ Kill \/ PowerLoss
  BY <1>1 DEF Open, Close, Kill, PowerLoss, Meta!MetaOpen, Meta!MetaClose, Meta!MetaKill, Meta!MetaPowerLoss
<1>2. CASE MetaSet \/ MetaWrite \/ MetaDone \/ MetaFails
  BY <1>2 DEF MetaSet, MetaWrite, MetaDone, MetaFails, Meta!SetTruncate, Meta!SetWrite, Meta!SetSync,
              Meta!SetFails
<1>3. CASE \/ (\E r \in Log!Record : StartWrite(r)) \/ WriteDone \/ WriteShort \/ WriteFails
           \/ CompactFlush \/ CompactScan \/ ScanMerge \/ ScanDone \/ BuildDone \/ BuildFails
           \/ OpenLevels \/ OpenLevelsFails
           \/ ClearMem \/ TruncateDone \/ ClearFails \/ TruncateFails \/ RemoveOld
  BY <1>3 DEF StartWrite, WriteDone, WriteShort, WriteFails, CompactFlush, CompactScan, ScanMerge,
         ScanDone, BuildDone, BuildFails, StartBuild, OpenLevels, OpenLevelsFails, ClearMem,
         TruncateDone, ClearFails, TruncateFails, RemoveOld, metaVars
<1>4. CASE UNCHANGED vars
  BY <1>4 DEF vars, metaVars
<1> QED BY Steps, <1>1, <1>2, <1>3, <1>4

\* Where processes die alone or I/O fails, there are no power losses.
LEMMA NoPower ==
  ASSUME SafeFaults, EngineInv, "kill" \in faults \/ "ioerr" \in faults
  PROVE  "power" \notin faults
  BY DEF SafeFaults, EngineInv, TypeOK, Log!LogTypeOK

\* LogSynced is inductive.
LEMMA SyncedNext ==
  ASSUME SafeFaults, EngineInv, LogSynced, [Next]_vars
  PROVE  LogSynced'
<1>0. faults' = faults
  BY FaultsStay
<1> USE <1>0 DEF LogSynced
<1>1. ASSUME UNCHANGED logVars, pc \notin {"write", "truncate"} \/ pc' = pc PROVE LogSynced'
  BY <1>1 DEF logVars
<1>2. CASE (\E fresh \in BOOLEAN : Open(fresh)) \/ Close
  BY <1>2 DEF Open, Close, Log!LogOpen, Log!LogClose
<1>3. CASE Kill
  BY <1>3, NoPower DEF Kill, Log!LogKill
<1>4. CASE PowerLoss
  BY <1>4 DEF PowerLoss, Log!LogPowerLoss
<1>5. ASSUME NEW r \in Log!Record, StartWrite(r) PROVE LogSynced'
  BY <1>5 DEF StartWrite, Log!LogWrite, Log!Unsynced
<1>6. CASE WriteDone \/ TruncateDone
  BY <1>6 DEF WriteDone, TruncateDone, Log!LogSync
<1>7. CASE WriteShort
  BY <1>7, NoPower DEF WriteShort, Log!LogWriteShort, Log!Unsynced
<1>8. CASE WriteFails \/ TruncateFails
  BY <1>8, NoPower DEF WriteFails, TruncateFails, Log!LogSyncFails
<1>9. CASE ClearMem
  BY <1>9 DEF ClearMem, Log!LogTruncate, Log!Unsynced
<1>10. CASE \/ CompactFlush \/ CompactScan \/ ScanMerge \/ ScanDone \/ BuildDone \/ BuildFails
            \/ MetaSet \/ MetaWrite \/ MetaDone \/ MetaFails
            \/ OpenLevels \/ OpenLevelsFails \/ ClearFails \/ RemoveOld
  BY <1>1, <1>10 DEF CompactFlush, CompactScan, ScanMerge, ScanDone, BuildDone, BuildFails, StartBuild,
         MetaSet, MetaWrite, MetaDone, MetaFails, OpenLevels, OpenLevelsFails, ClearFails, RemoveOld
<1>11. CASE UNCHANGED vars
  BY <1>1, <1>11 DEF vars
<1> QED BY Steps, <1>2, <1>3, <1>4, <1>5, <1>6, <1>7, <1>8, <1>9, <1>10, <1>11
-----------------------------------------------------------------------------
(* A compaction keeps the map.                                             *)

LEMMA AlikeFiles ==
  ASSUME NEW f, NEW g, NEW m, NEW t \in Seq(Names), NEW u \in Seq(Names),
         \A i \in DOMAIN t : g[t[i]] = f[t[i]], \A i \in DOMAIN u : g[u[i]] = f[u[i]],
         Alike(f, m, t, u)
  PROVE  Alike(g, m, t, u)
<1>1. ASSUME NEW k \in Keys PROVE Lookup(g, m, t, k) = Lookup(g, m, u, k)
  <2>1. Lookup(g, m, t, k) = Lookup(f, m, t, k)
    BY LookupFiles
  <2>2. Lookup(g, m, u, k) = Lookup(f, m, u, k)
    BY LookupFiles
  <2> QED BY <2>1, <2>2 DEF Alike
<1> QED BY <1>1 DEF Alike

\* The steps before the metadata is written.
LEMMA BuiltNext ==
  ASSUME TablesInv, TablesInv', MainIsLive, TableBuilt, "openerr" \notin faults, [Next]_vars
  PROVE  TableBuilt'
<1> SUFFICES ASSUME pc' = "meta", ~InSet'
             PROVE  files'[version'] = TableOf(files', mem', main', job')
  BY DEF TableBuilt
<1> USE DEF TablesInv
<1>1. CASE BuildDone
  <2>1. /\ files' = [files EXCEPT ![version] = NewTable] /\ version \in Names /\ Up
        /\ version' = version /\ mem' = mem /\ main' = main /\ job' = job /\ pc = "build"
        /\ files \in [Names -> Level \union {Missing, Partial}]
    BY <1>1 DEF BuildDone, memVars, EngineInv, TypeOK, JobFits, Up
  <2>2. files'[version'] = TableOf(files, mem, main, job)
    BY <2>1, NewTableOf
  <2>3. main = Live /\ Live = Stored.tables /\ \A n \in DOMAIN main : files'[main[n]] = files[main[n]]
    <3>1. main = Live /\ Live = Stored.tables
      BY <2>1, StoredIsLive DEF MainIsLive
    <3>2. \A n \in DOMAIN Stored.tables : files'[Stored.tables[n]] = files[Stored.tables[n]]
      BY <1>1, NamedFilesKept
    <3> QED BY <3>1, <3>2
  <2>4. CASE job.kind = "flush"
    BY <2>1, <2>2, <2>4 DEF TableOf
  <2>5. CASE job.kind # "flush"
    <3>1. job.at \in 1..(Len(main) - 1) /\ main \in Seq(Names)
      BY <2>1, <2>5 DEF EngineInv, JobFits, TypeOK
    <3>2. job.at \in DOMAIN main /\ job.at + 1 \in DOMAIN main
      BY <3>1
    <3>3. /\ ContentsOf(files', main[job.at]) = ContentsOf(files, main[job.at])
          /\ ContentsOf(files', main[job.at + 1]) = ContentsOf(files, main[job.at + 1])
      BY <2>3, <3>2 DEF ContentsOf
    <3> QED BY <2>1, <2>2, <2>5, <3>3 DEF TableOf, MergeOf
  <2> QED BY <2>4, <2>5
<1>2. CASE MetaSet \/ MetaWrite \/ MetaDone \/ MetaFails
  BY <1>2 DEF MetaSet, MetaWrite, MetaDone, MetaFails, ReturnError, Meta!SetTruncate, Meta!SetWrite, InSet
<1>3. CASE \/ (\E fresh \in BOOLEAN : Open(fresh)) \/ Close \/ Kill \/ PowerLoss
           \/ (\E r \in Log!Record : StartWrite(r)) \/ WriteDone \/ WriteShort \/ WriteFails
           \/ CompactFlush \/ CompactScan \/ ScanMerge \/ ScanDone \/ BuildFails
           \/ OpenLevels \/ OpenLevelsFails
           \/ ClearMem \/ TruncateDone \/ ClearFails \/ TruncateFails \/ RemoveOld
  BY <1>3 DEF Open, Close, Kill, PowerLoss, Crash, StartWrite, WriteDone, WriteShort, WriteFails,
         CompactFlush, CompactScan, ScanMerge, ScanDone, BuildFails, StartBuild, OpenLevels,
         OpenLevelsFails, ClearMem, TruncateDone, ClearFails, TruncateFails, RemoveOld, ReturnError
<1>4. CASE UNCHANGED vars
  <2>1. /\ files' = files /\ mem' = mem /\ main' = main /\ job' = job /\ version' = version /\ pc' = pc
        /\ InSet' = InSet
    BY <1>4 DEF vars, metaVars, memVars, InSet
  <2> QED BY <2>1 DEF TableBuilt
<1> QED BY Steps, <1>1, <1>2, <1>3, <1>4

\* The step that begins meta.Set, and those that lead up to openLevels and to
\* the end of a flush.
LEMMA SetKeepsNext ==
  ASSUME TablesInv, TablesInv', MainIsLive, TableBuilt, SetKeepsMap, "openerr" \notin faults, [Next]_vars
  PROVE  SetKeepsMap'
<1> SUFFICES ASSUME InSet' PROVE SetKeepsMap'
  BY DEF SetKeepsMap
<1> USE DEF TablesInv
<1>1. pc' = "meta"
  BY DEF EngineInv, Phases
<1>2. CASE MetaSet
  <2>1. /\ pc = "meta" /\ ~InSet /\ pending'.tables = NewTables /\ job'.kind = job.kind
        /\ files' = files /\ mem' = mem /\ Live' = Live
    <3>1. slots' = slots /\ job \in Job
      BY <1>2 DEF MetaSet, Meta!SetTruncate, EngineInv, TypeOK
    <3> QED BY <1>2, <3>1 DEF MetaSet, Meta!SetTruncate, InSet, Live, Meta!Get, memVars, Job
  <2>2. Alike(files, mem, NewTables, Live)
    BY <2>1, NewLookup DEF Alike
  <2>3. job.kind = "flush" => Flushed(files, mem, NewTables)
    BY <2>1, NewFlushed
  <2> QED BY <2>1, <2>2, <2>3 DEF SetKeepsMap
<1>3. CASE MetaWrite
  <2>1. /\ InSet /\ pending' = pending /\ job' = job /\ files' = files /\ mem' = mem /\ Live' = Live
    BY <1>3, SetHidden DEF MetaWrite, Meta!SetWrite, InSet, memVars
  <2> QED BY <2>1 DEF SetKeepsMap
<1>4. CASE \/ (\E fresh \in BOOLEAN : Open(fresh)) \/ Close \/ Kill \/ PowerLoss
           \/ (\E r \in Log!Record : StartWrite(r)) \/ WriteDone \/ WriteShort \/ WriteFails
           \/ CompactFlush \/ CompactScan \/ ScanMerge \/ ScanDone \/ BuildFails
           \/ MetaDone \/ MetaFails \/ OpenLevels \/ OpenLevelsFails
           \/ ClearMem \/ TruncateDone \/ ClearFails \/ TruncateFails \/ RemoveOld
  BY <1>1, <1>4 DEF Open, Close, Kill, PowerLoss, Crash, StartWrite, WriteDone, WriteShort, WriteFails,
         CompactFlush, CompactScan, ScanMerge, ScanDone, BuildFails, StartBuild, MetaDone, MetaFails,
         OpenLevels, OpenLevelsFails, ClearMem, TruncateDone, ClearFails, TruncateFails, RemoveOld, ReturnError
<1>5. CASE BuildDone
  <2>1. pc = "build" /\ (InSet' <=> InSet)
    BY <1>5, Ranges, MetaQuiet DEF BuildDone
  <2> QED BY <2>1 DEF EngineInv, Phases
<1>6. CASE UNCHANGED vars
  <2>1. /\ files' = files /\ mem' = mem /\ job' = job /\ pending' = pending /\ Live' = Live /\ InSet
    BY <1>6, Ranges, MetaQuiet DEF vars, memVars
  <2> QED BY <2>1 DEF SetKeepsMap
<1> QED BY Steps, <1>2, <1>3, <1>4, <1>5, <1>6

LEMMA LevelsKeepNext ==
  ASSUME TablesInv, TablesInv', MainIsLive, SetKeepsMap, LevelsKeepMap, "openerr" \notin faults, [Next]_vars
  PROVE  LevelsKeepMap'
<1> SUFFICES ASSUME pc' = "levels" PROVE LevelsKeepMap'
  BY DEF LevelsKeepMap
<1> USE DEF TablesInv
<1>1. CASE MetaDone
  <2>1. /\ pc = "meta" /\ InSet /\ job' = job /\ files' = files /\ mem' = mem /\ main' = main /\ main = Live
    BY <1>1 DEF MetaDone, Meta!SetSync, InSet, memVars, MainIsLive
  <2>2. Live' = pending.tables
    BY <1>1, <2>1, Ranges, SyncShows DEF MetaDone, EngineInv, JobFits, Live
  <2> QED BY <2>1, <2>2 DEF LevelsKeepMap, SetKeepsMap
<1>2. CASE MetaSet \/ MetaWrite
  BY <1>2 DEF MetaSet, MetaWrite
<1>3. CASE \/ (\E fresh \in BOOLEAN : Open(fresh)) \/ Close \/ Kill \/ PowerLoss
           \/ (\E r \in Log!Record : StartWrite(r)) \/ WriteDone \/ WriteShort \/ WriteFails
           \/ CompactFlush \/ CompactScan \/ ScanMerge \/ ScanDone \/ BuildDone \/ BuildFails
           \/ MetaFails \/ OpenLevels \/ OpenLevelsFails
           \/ ClearMem \/ TruncateDone \/ ClearFails \/ TruncateFails \/ RemoveOld
  BY <1>3 DEF Open, Close, Kill, PowerLoss, Crash, StartWrite, WriteDone, WriteShort, WriteFails,
         CompactFlush, CompactScan, ScanMerge, ScanDone, BuildDone, BuildFails, StartBuild, MetaFails,
         OpenLevels, OpenLevelsFails, ClearMem, TruncateDone, ClearFails, TruncateFails, RemoveOld, ReturnError
<1>4. CASE UNCHANGED vars
  <2>1. /\ files' = files /\ mem' = mem /\ main' = main /\ job' = job /\ pc' = pc /\ Live' = Live
    BY <1>4, Ranges, MetaQuiet DEF vars, memVars
  <2> QED BY <2>1 DEF LevelsKeepMap
<1> QED BY Steps, <1>1, <1>2, <1>3, <1>4

LEMMA ClearKeepsNext ==
  ASSUME TablesInv, LevelsKeepMap, ClearKeepsMap, [Next]_vars
  PROVE  ClearKeepsMap'
<1> SUFFICES ASSUME pc' = "clear" PROVE ClearKeepsMap'
  BY DEF ClearKeepsMap
<1> USE DEF TablesInv
<1>1. CASE OpenLevels
  <2>1. pc = "levels" /\ job.kind = "flush" /\ files' = files /\ mem' = mem /\ Live' = Live
    BY <1>1, Ranges, MetaQuiet DEF OpenLevels
  <2> QED BY <2>1 DEF LevelsKeepMap, ClearKeepsMap
<1>2. CASE MetaSet \/ MetaWrite \/ MetaDone \/ MetaFails
  BY <1>2 DEF MetaSet, MetaWrite, MetaDone, MetaFails, ReturnError
<1>3. CASE \/ (\E fresh \in BOOLEAN : Open(fresh)) \/ Close \/ Kill \/ PowerLoss
           \/ (\E r \in Log!Record : StartWrite(r)) \/ WriteDone \/ WriteShort \/ WriteFails
           \/ CompactFlush \/ CompactScan \/ ScanMerge \/ ScanDone \/ BuildDone \/ BuildFails
           \/ OpenLevelsFails \/ ClearMem \/ TruncateDone \/ ClearFails \/ TruncateFails \/ RemoveOld
  BY <1>3 DEF Open, Close, Kill, PowerLoss, Crash, StartWrite, WriteDone, WriteShort, WriteFails,
         CompactFlush, CompactScan, ScanMerge, ScanDone, BuildDone, BuildFails, StartBuild,
         OpenLevelsFails, ClearMem, TruncateDone, ClearFails, TruncateFails, RemoveOld, ReturnError
<1>4. CASE UNCHANGED vars
  <2>1. files' = files /\ mem' = mem /\ pc' = pc /\ Live' = Live
    BY <1>4, Ranges, MetaQuiet DEF vars, memVars
  <2> QED BY <2>1 DEF ClearKeepsMap
<1> QED BY Steps, <1>1, <1>2, <1>3, <1>4
-----------------------------------------------------------------------------
(* The log keeps the map.                                                  *)

\* The two halves of LogKeepsMap.
RestartsAlike == \A d \in Unsure : Alike(files, Log!Replay(log), d.tables, Stored.tables)
MemReplayed   == \A k \in Keys : mem[k] # Absent => Log!Replay(log)[k] # Absent

\* The MemTable with one more entry.
LEMMA LookupWritten ==
  ASSUME NEW f, NEW m \in Level, NEW t, NEW r \in Log!Record, NEW k \in Keys
  PROVE  Lookup(f, [m EXCEPT ![r.key] = r.val], t, k) =
             IF k = r.key THEN Answer(r.val) ELSE Lookup(f, m, t, k)
<1>1. r.key \in Keys /\ r.val # Absent
  BY KVAssumption DEF Log!Record
<1>2. [m EXCEPT ![r.key] = r.val][k] = IF k = r.key THEN r.val ELSE m[k]
  BY <1>1 DEF Level
<1> QED BY <1>1, <1>2 DEF Lookup

\* The log, and what SetEx, Del and a failed Write append to it.
LEMMA LogStep ==
  ASSUME EngineInv, NEW r \in Log!Record \union {Torn}, log' = Append(log, r), ~Buried'
  PROVE  /\ log \in Log!Contents /\ ~Buried /\ Log!Replay(log) \in Level
         /\ r = Torn => Log!Replay(log') = Log!Replay(log)
         /\ r # Torn => Log!Replay(log') = [Log!Replay(log) EXCEPT ![r.key] = r.val]
<1>1. log \in Log!Contents
  BY Ranges DEF Log!LogTypeOK
<1>2. ~Log!Buried(Append(log, r))
  BY DEF Buried
<1>3. ~Buried
  BY <1>1, <1>2, BuriedStays DEF Buried
<1>4. Log!Replay(log) \in Level
  BY <1>1, ReplayType
<1>5. r = Torn => Log!Replay(log') = Log!Replay(log)
  BY <1>1, ReplayTorn
<1>6. r # Torn => Log!Replay(log') = [Log!Replay(log) EXCEPT ![r.key] = r.val]
  BY <1>1, <1>2, ReplayRecord
<1> QED BY <1>1, <1>3, <1>4, <1>5, <1>6

\* Every list of tables a restart may find answers alike.
LEMMA RestartsNext ==
  ASSUME TablesInv, TablesInv', MainIsLive, TableBuilt, LogKeepsMap, "openerr" \notin faults,
         Up', ~Buried', [Next]_vars
  PROVE  RestartsAlike'
<1> USE DEF TablesInv
<1>1. ASSUME NEW e \in Unsure, Stored' = Stored,
             Alike(files, Log!Replay(log'), e.tables, Stored.tables)
      PROVE  Alike(files', Log!Replay(log'), e.tables, Stored'.tables)
  <2>1. e.tables \in Seq(Names) /\ Stored.tables \in Seq(Names)
    BY KnownTypes
  <2>2. FilesKept
    BY NextKeepsFiles
  <2>3. /\ \A i \in DOMAIN e.tables : files'[e.tables[i]] = files[e.tables[i]]
        /\ \A i \in DOMAIN Stored.tables : files'[Stored.tables[i]] = files[Stored.tables[i]]
    BY <2>2 DEF FilesKept
  <2> QED BY <1>1, <2>1, <2>3, AlikeFiles
<1>2. ASSUME Up, Stored' = Stored, Unsure' \subseteq Unsure, ~Buried, Log!Replay(log') = Log!Replay(log)
      PROVE  RestartsAlike'
  BY <1>1, <1>2 DEF LogKeepsMap, RestartsAlike
<1>3. ASSUME UNCHANGED metaVars, log' = log, Up PROVE RestartsAlike'
  <2>1. Stored' = Stored /\ Unsure' = Unsure
    BY <1>3, RegisterSteps
  <2>2. ~Buried
    BY <1>3 DEF Buried
  <2> QED BY <1>2, <1>3, <2>1, <2>2
<1>4. ASSUME Unsure' = {} PROVE RestartsAlike'
  BY <1>4 DEF RestartsAlike
<1>5. ASSUME NEW fresh \in BOOLEAN, Open(fresh) PROVE RestartsAlike'
  <2>1. Unsure' = Unsure /\ Unsure = {}
    <3>1. ~Up
      BY <1>5 DEF Open, Up
    <3> QED BY <1>5, <3>1, RegisterSteps, StoredIsLive
  <2> QED BY <1>4, <2>1
<1>6. CASE Close \/ Kill \/ PowerLoss
  BY <1>6 DEF Close, Kill, PowerLoss, Crash, Up
<1>7. ASSUME NEW r \in Log!Record, StartWrite(r) PROVE RestartsAlike'
  <2>1. Stored' = Stored /\ Unsure' = Unsure /\ Up
    BY <1>7, RegisterSteps DEF StartWrite, Up
  <2>2. log' = Append(log, r) /\ r # Torn
    BY <1>7, KVAssumption DEF StartWrite, Log!LogWrite
  <2> DEFINE m == Log!Replay(log)
             n == Log!Replay(log')
  <2>3. ~Buried /\ m \in Level /\ n = [m EXCEPT ![r.key] = r.val]
    BY <2>2, LogStep
  <2> HIDE DEF m, n
  <2>4. ASSUME NEW d \in Unsure PROVE Alike(files, n, d.tables, Stored.tables)
    <3>1. Alike(files, m, d.tables, Stored.tables)
      BY <2>1, <2>3 DEF LogKeepsMap, m
    <3>2. ASSUME NEW k \in Keys PROVE Lookup(files, n, d.tables, k) = Lookup(files, n, Stored.tables, k)
      <4>1. \A t : Lookup(files, n, t, k) = IF k = r.key THEN Answer(r.val) ELSE Lookup(files, m, t, k)
        BY <2>3, LookupWritten
      <4>2. Lookup(files, m, d.tables, k) = Lookup(files, m, Stored.tables, k)
        BY <3>1 DEF Alike
      <4> QED BY <4>1, <4>2
    <3> QED BY <3>2 DEF Alike
  <2>5. \A d \in Unsure : Alike(files, Log!Replay(log'), d.tables, Stored.tables)
    BY <2>4 DEF n
  <2>6. \A d \in Unsure : Alike(files', Log!Replay(log'), d.tables, Stored'.tables)
    BY <1>1, <2>1, <2>5
  <2> QED BY <2>1, <2>6 DEF RestartsAlike
<1>8. CASE WriteShort
  <2>1. Stored' = Stored /\ Unsure' = Unsure /\ Up
    BY <1>8, RegisterSteps DEF WriteShort, Up
  <2>2. log' = Append(log, Torn)
    BY <1>8 DEF WriteShort, Log!LogWriteShort
  <2> QED BY <1>2, <2>1, <2>2, LogStep
<1>9. CASE MetaSet
  <2>1. /\ Stored' = Stored /\ Unsure' \subseteq Unsure \union {pending'} /\ pending'.tables = NewTables
        /\ files' = files /\ log' = log /\ Up /\ pc = "meta" /\ ~InSet
    BY <1>9, RegisterSteps DEF MetaSet, Meta!SetTruncate, InSet, logVars, Up
  <2>2. /\ \A k \in Keys : mem[k] # Absent => Log!Replay(log)[k] # Absent
        /\ \A d \in Unsure : Alike(files, Log!Replay(log), d.tables, Stored.tables)
    BY <2>1 DEF LogKeepsMap, Buried
  <2>3. Alike(files, Log!Replay(log), NewTables, Live)
    BY <2>1, <2>2, NewLookup DEF Alike
  <2>4. Live = Stored.tables
    BY <2>1, StoredIsLive
  <2> QED BY <2>1, <2>2, <2>3, <2>4 DEF RestartsAlike
<1>10. CASE MetaWrite \/ MetaFails
  <2>1. Stored' = Stored /\ Unsure' \subseteq Unsure
    BY <1>10, RegisterSteps
  <2>2. log' = log /\ Up /\ ~Buried
    BY <1>10 DEF MetaWrite, MetaFails, logVars, Up, Buried
  <2> QED BY <1>2, <2>1, <2>2
<1>11. CASE MetaDone
  BY <1>4, <1>11, RegisterSteps
<1>12. CASE ClearMem
  <2>1. Unsure' = Unsure /\ Unsure = {}
    BY <1>12, RegisterSteps DEF ClearMem, SoundInv
  <2> QED BY <1>4, <2>1
<1>13. CASE \/ WriteDone \/ WriteFails
            \/ CompactFlush \/ CompactScan \/ ScanMerge \/ ScanDone \/ BuildDone \/ BuildFails
            \/ OpenLevels \/ OpenLevelsFails \/ TruncateDone \/ ClearFails \/ TruncateFails \/ RemoveOld
  BY <1>3, <1>13 DEF WriteDone, WriteFails, CompactFlush, CompactScan, ScanMerge, ScanDone, BuildDone,
         BuildFails, StartBuild, OpenLevels, OpenLevelsFails, TruncateDone, ClearFails, TruncateFails,
         RemoveOld, logVars, Log!LogSync, Log!LogSyncFails, Up
<1>14. CASE UNCHANGED vars
  BY <1>3, <1>14 DEF vars, logVars, Up
<1> QED BY Steps, <1>5, <1>6, <1>7, <1>8, <1>9, <1>10, <1>11, <1>12, <1>13, <1>14

\* What the MemTable has, the log has.
LEMMA ReplayedNext ==
  ASSUME EngineInv, EngineInv', LogKeepsMap, Up', ~Buried', [Next]_vars
  PROVE  MemReplayed'
<1>0. Empty = [k \in Keys |-> Absent]
  BY DEF Empty
<1>1. ASSUME mem' = Empty PROVE MemReplayed'
  BY <1>0, <1>1 DEF MemReplayed
<1>2. ASSUME Up, mem' = mem, log' = log PROVE MemReplayed'
  BY <1>2 DEF MemReplayed, LogKeepsMap, Buried
<1>3. CASE \E fresh \in BOOLEAN : Open(fresh)
  BY <1>3 DEF Open, Log!LogOpen, MemReplayed
<1>4. CASE Close \/ Kill \/ PowerLoss
  BY <1>4 DEF Close, Kill, PowerLoss, Crash, Up
<1>5. ASSUME NEW r \in Log!Record, StartWrite(r) PROVE MemReplayed'
  <2>1. log' = Append(log, r) /\ r # Torn /\ mem' = mem /\ Up
    BY <1>5, KVAssumption DEF StartWrite, Log!LogWrite, memVars, Up
  <2>2. ~Buried /\ Log!Replay(log) \in Level /\ Log!Replay(log') = [Log!Replay(log) EXCEPT ![r.key] = r.val]
    BY <2>1, LogStep
  <2>3. r.key \in Keys /\ r.val # Absent
    BY KVAssumption DEF Log!Record
  <2>4. \A k \in Keys : mem[k] # Absent => Log!Replay(log)[k] # Absent
    BY <2>1, <2>2 DEF LogKeepsMap
  <2> DEFINE m == Log!Replay(log)
  <2> HIDE DEF m
  <2>5. \A k \in Keys : m[k] # Absent => [m EXCEPT ![r.key] = r.val][k] # Absent
    BY <2>2, <2>3 DEF m, Level
  <2> QED BY <2>1, <2>2, <2>4, <2>5 DEF MemReplayed, m
<1>6. CASE WriteShort
  <2>1. log' = Append(log, Torn) /\ mem' = mem /\ Up
    BY <1>6 DEF WriteShort, Log!LogWriteShort, memVars, Up
  <2>2. ~Buried /\ Log!Replay(log') = Log!Replay(log)
    BY <2>1, LogStep
  <2> QED BY <2>1, <2>2 DEF MemReplayed, LogKeepsMap
<1>7. CASE WriteDone
  <2>1. /\ mem' = [mem EXCEPT ![op.key] = op.val] /\ log' = log /\ Up
        /\ op \in Log!Record /\ log # <<>> /\ log[Len(log)] = op /\ mem \in Level
    BY <1>7 DEF WriteDone, Log!LogSync, EngineInv, TypeOK, Phases, Up
  <2>2. log \in Log!Contents /\ ~Buried
    BY <2>1, Ranges DEF Log!LogTypeOK, Buried
  <2>3. Log!Replay(log)[op.key] = op.val
    BY <2>1, <2>2, ReplayLast DEF Buried
  <2>4. op.key \in Keys /\ op.val # Absent
    BY <2>1, KVAssumption DEF Log!Record
  <2>5. \A k \in Keys : mem'[k] # Absent => k = op.key \/ mem[k] # Absent
    BY <2>1 DEF Level
  <2> QED BY <2>1, <2>2, <2>3, <2>4, <2>5 DEF MemReplayed, LogKeepsMap
<1>8. CASE ClearMem \/ ClearFails
  BY <1>1, <1>8 DEF ClearMem, ClearFails
<1>9. CASE \/ WriteFails \/ CompactFlush \/ CompactScan \/ ScanMerge \/ ScanDone \/ BuildDone \/ BuildFails
           \/ MetaSet \/ MetaWrite \/ MetaDone \/ MetaFails
           \/ OpenLevels \/ OpenLevelsFails \/ TruncateDone \/ TruncateFails \/ RemoveOld
  BY <1>2, <1>9 DEF WriteFails, CompactFlush, CompactScan, ScanMerge, ScanDone, BuildDone,
         BuildFails, StartBuild, MetaSet, MetaWrite, MetaDone, MetaFails, OpenLevels, OpenLevelsFails,
         TruncateDone, TruncateFails, RemoveOld, ReturnError, logVars, memVars, Log!LogSync, Log!LogSyncFails, Up
<1>10. CASE UNCHANGED vars
  BY <1>2, <1>10 DEF vars, logVars, memVars, Up
<1> QED BY Steps, <1>3, <1>4, <1>5, <1>6, <1>7, <1>8, <1>9, <1>10

\* The invariant is inductive.
LEMMA MapInit == Init => MapInv
<1>1. Init => TablesInv /\ MainIsLive /\ LogSynced
  BY TablesInit DEF Init, MainIsLive, Log!LogInit, LogSynced
<1>2. Init => KeepsMap
  BY DEF Init, Meta!MetaInit, KeepsMap, TableBuilt, SetKeepsMap, LevelsKeepMap, ClearKeepsMap, LogKeepsMap,
         InSet, Up
<1> QED BY <1>1, <1>2 DEF MapInv

LEMMA MapNext ==
  ASSUME SafeFaults, MapInv, [Next]_vars
  PROVE  MapInv'
<1>1. TablesInv' /\ MainIsLive' /\ LogSynced' /\ faults' = faults
  BY TablesNext, MainNext, SyncedNext, FaultsStay DEF MapInv, TablesInv
<1>2. ASSUME "openerr" \notin faults PROVE KeepsMap'
  <2>1. TableBuilt' /\ SetKeepsMap' /\ LevelsKeepMap' /\ ClearKeepsMap'
    BY <1>1, <1>2, BuiltNext, SetKeepsNext, LevelsKeepNext, ClearKeepsNext DEF MapInv, KeepsMap
  <2>2. LogKeepsMap'
    <3>1. Up' /\ ~Buried' => RestartsAlike' /\ MemReplayed'
      BY <1>1, <1>2, RestartsNext, ReplayedNext DEF MapInv, KeepsMap, TablesInv
    <3> QED BY <3>1 DEF LogKeepsMap, RestartsAlike, MemReplayed
  <2> QED BY <2>1, <2>2 DEF KeepsMap
<1> QED BY <1>1, <1>2 DEF MapInv
-----------------------------------------------------------------------------
(* What DurableMap sees of the engine.                                     *)

\* What a restart may answer, with log contents from L and slots from A and B.
Answers(f, L, A, B, k) ==
    {Lookup(f, Log!Replay(l), Meta!LiveOf(a, b).tables, k) : l \in L, a \in A, b \in B}

\* The open engine.
LEMMA ViewUp ==
  Up =>
      /\ Store = [k \in Keys |-> Lookup(files, mem, main, k)]
      /\ Maybe = [k \in Keys |-> Answers(files, logDisk, durable[0], durable[1], k)
                                     \ {Lookup(files, mem, main, k)}]
<1> SUFFICES ASSUME Up
             PROVE  /\ Store = [k \in Keys |-> Lookup(files, mem, main, k)]
                    /\ Maybe = [k \in Keys |-> Answers(files, logDisk, durable[0], durable[1], k)
                                                   \ {Lookup(files, mem, main, k)}]
  OBVIOUS
<1>1. Store = [k \in Keys |-> Lookup(files, mem, main, k)]
  BY GetInLookup DEF Store, Get, Up
<1>2. ASSUME NEW k \in Keys, NEW l, NEW a, NEW b
      PROVE  Recovered(l, a, b)[k] = Lookup(files, Log!Replay(l), Meta!LiveOf(a, b).tables, k)
  BY GetInLookup DEF Recovered
<1>3. ASSUME NEW k \in Keys
      PROVE  {m[k] : m \in Outcomes} = Answers(files, logDisk, durable[0], durable[1], k)
  <2>1. ASSUME NEW x, x \in {m[k] : m \in Outcomes}
        PROVE  x \in Answers(files, logDisk, durable[0], durable[1], k)
    <3>1. PICK l \in logDisk, a \in durable[0], b \in durable[1] : x = Recovered(l, a, b)[k]
      BY <2>1 DEF Outcomes
    <3> QED BY <1>2, <3>1 DEF Answers
  <2>2. ASSUME NEW x, x \in Answers(files, logDisk, durable[0], durable[1], k)
        PROVE  x \in {m[k] : m \in Outcomes}
    <3>1. PICK l \in logDisk, a \in durable[0], b \in durable[1] :
              x = Lookup(files, Log!Replay(l), Meta!LiveOf(a, b).tables, k)
      BY <2>2 DEF Answers
    <3>2. x = Recovered(l, a, b)[k] /\ Recovered(l, a, b) \in Outcomes
      BY <1>2, <3>1 DEF Outcomes
    <3> QED BY <3>2
  <2> QED BY <2>1, <2>2
<1>4. Maybe = [k \in Keys |-> {m[k] : m \in Outcomes} \ {Store[k]}]
  BY DEF Maybe, Up
<1> QED BY <1>1, <1>3, <1>4

\* The closed engine.
LEMMA ViewDown ==
  EngineInv /\ ~Up =>
      /\ Store = [k \in Keys |-> Lookup(files, Log!Replay(log), Stored.tables, k)]
      /\ Maybe = [k \in Keys |-> {}]
  BY StoredIsLive, GetInLookup DEF Store, Maybe, Up, Recovered

\* An answer that is possible comes from a log and from metadata that is known.
LEMMA AnswerFrom ==
  ASSUME EngineInv, MP!MetaInv, NEW f, NEW L, NEW k,
         NEW x \in Answers(f, L, durable[0], durable[1], k)
  PROVE  \E l \in L, d \in {Stored} \union Unsure : x = Lookup(f, Log!Replay(l), d.tables, k)
<1>1. PICK l \in L, a \in durable[0], b \in durable[1] :
          x = Lookup(f, Log!Replay(l), Meta!LiveOf(a, b).tables, k)
  BY DEF Answers
<1>2. Meta!LiveOf(a, b) \in {Stored} \union Unsure
  BY SlotsAreKnown
<1> QED BY <1>1, <1>2

\* What the next Open will read if nothing is lost is possible.
LEMMA CacheReachable ==
  ASSUME MP!MetaInv
  PROVE  cached[0] \in durable[0] /\ cached[1] \in durable[1]
  BY DEF MP!MetaInv, MP!CacheInDurable, MP!Slots

\* Outside Write and Truncate there is one answer for every key.
LEMMA QuietAnswers ==
  MapInv /\ "openerr" \notin faults /\ Up /\ ~Buried /\ pc \notin {"write", "truncate"} =>
      \A k \in Keys : Answers(files, logDisk, durable[0], durable[1], k)
                          = {Lookup(files, Log!Replay(log), Stored.tables, k)}
<1> SUFFICES ASSUME MapInv, "openerr" \notin faults, Up, ~Buried, pc \notin {"write", "truncate"},
                    NEW k \in Keys
             PROVE  Answers(files, logDisk, durable[0], durable[1], k)
                        = {Lookup(files, Log!Replay(log), Stored.tables, k)}
  OBVIOUS
<1>1. EngineInv /\ MP!MetaInv /\ logDisk = {log} /\ LogKeepsMap
  BY DEF MapInv, TablesInv, LogSynced, KeepsMap
<1>2. ASSUME NEW d \in {Stored} \union Unsure
      PROVE  Lookup(files, Log!Replay(log), d.tables, k) = Lookup(files, Log!Replay(log), Stored.tables, k)
  BY <1>1 DEF LogKeepsMap, Alike
<1>3. \A x \in Answers(files, logDisk, durable[0], durable[1], k) :
          x = Lookup(files, Log!Replay(log), Stored.tables, k)
  BY <1>1, <1>2, AnswerFrom
<1>4. Answers(files, logDisk, durable[0], durable[1], k) # {}
  <2>1. cached[0] \in durable[0] /\ cached[1] \in durable[1] /\ log \in logDisk
    BY <1>1, CacheReachable DEF EngineInv, Phases
  <2>2. Lookup(files, Log!Replay(log), Meta!LiveOf(cached[0], cached[1]).tables, k)
            \in Answers(files, logDisk, durable[0], durable[1], k)
    BY <2>1 DEF Answers
  <2> QED BY <2>2
<1> QED BY <1>3, <1>4

\* A step that changes no answer.
LEMMA ForgetStep ==
  ASSUME Up, Up', op' = op,
         \A k \in Keys : Lookup(files', mem', main', k) = Lookup(files, mem, main, k),
         \A k \in Keys : \A x \in Answers(files', logDisk', durable'[0], durable'[1], k) :
             \/ x \in Answers(files, logDisk, durable[0], durable[1], k)
             \/ x = Lookup(files, mem, main, k)
  PROVE  Map!Forget
<1>1. /\ Store = [k \in Keys |-> Lookup(files, mem, main, k)]
      /\ Maybe = [k \in Keys |-> Answers(files, logDisk, durable[0], durable[1], k)
                                     \ {Lookup(files, mem, main, k)}]
  BY ViewUp
<1>2. /\ Store' = [k \in Keys |-> Lookup(files', mem', main', k)]
      /\ Maybe' = [k \in Keys |-> Answers(files', logDisk', durable'[0], durable'[1], k)
                                      \ {Lookup(files', mem', main', k)}]
  <2>1. (Up =>
          /\ Store = [k \in Keys |-> Lookup(files, mem, main, k)]
          /\ Maybe = [k \in Keys |-> Answers(files, logDisk, durable[0], durable[1], k)
                                         \ {Lookup(files, mem, main, k)}])'
    BY ViewUp, PTL
  <2> QED BY <2>1
<1>3. Store' = Store
  BY <1>1, <1>2
<1>4. DOMAIN Maybe' = Keys /\ \A k \in Keys : Maybe'[k] \subseteq Maybe[k]
  BY <1>1, <1>2
<1>5. Writing' = Writing /\ Up' = Up
  BY DEF Writing
<1> QED BY <1>3, <1>4, <1>5 DEF Map!Forget, Map!Bounded

\* A step that changes neither what is shown nor what a restart would show.
LEMMA QuietStep ==
  ASSUME MapInv, MapInv', "openerr" \notin faults, faults' = faults, Up, Up', ~Buried, ~Buried',
         pc \notin {"write", "truncate"}, pc' \notin {"write", "truncate"}, op' = op,
         \A k \in Keys : Lookup(files', mem', main', k) = Lookup(files, mem, main, k),
         \A k \in Keys : Lookup(files', Log!Replay(log'), Stored'.tables, k)
                             = Lookup(files, Log!Replay(log), Stored.tables, k)
  PROVE  Map!Forget
<1>1. \A k \in Keys : Answers(files, logDisk, durable[0], durable[1], k)
                          = {Lookup(files, Log!Replay(log), Stored.tables, k)}
  BY QuietAnswers
<1>2. \A k \in Keys : Answers(files', logDisk', durable'[0], durable'[1], k)
                          = {Lookup(files', Log!Replay(log'), Stored'.tables, k)}
  <2>1. (MapInv /\ "openerr" \notin faults /\ Up /\ ~Buried /\ pc \notin {"write", "truncate"} =>
            \A k \in Keys : Answers(files, logDisk, durable[0], durable[1], k)
                                = {Lookup(files, Log!Replay(log), Stored.tables, k)})'
    BY QuietAnswers, PTL
  <2> QED BY <2>1
<1>3. ASSUME NEW k \in Keys, NEW x \in Answers(files', logDisk', durable'[0], durable'[1], k)
      PROVE  x \in Answers(files, logDisk, durable[0], durable[1], k)
  BY <1>1, <1>2
<1> QED BY <1>3, ForgetStep

\* Lookups in lists of tables that the step does not touch.
LEMMA SameLookups ==
  ASSUME TablesInv, [Next]_vars
  PROVE  \A m : \A k \in Keys : Lookup(files', m, Stored.tables, k) = Lookup(files, m, Stored.tables, k)
<1> USE DEF TablesInv
<1> DEFINE t == Stored.tables
           g == files'
<1>1. t \in Seq(Names) /\ \A i \in DOMAIN t : g[t[i]] = files[t[i]]
  BY KnownTypes, NextKeepsFiles DEF FilesKept
<1> HIDE DEF t, g
<1>2. ASSUME NEW m, NEW k PROVE Lookup(g, m, t, k) = Lookup(files, m, t, k)
  BY <1>1, LookupFiles
<1> QED BY <1>2 DEF t, g
-----------------------------------------------------------------------------
(* Step by step.                                                           *)

\* The steps of Compact up to the end of a flush, and a short write.
LEMMA CompactRefines ==
  ASSUME MapInv, MapInv', "openerr" \notin faults, ~Buried, ~Buried', [Next]_vars,
         \/ WriteShort
         \/ CompactFlush \/ CompactScan \/ ScanMerge \/ ScanDone \/ BuildDone \/ BuildFails
         \/ MetaSet \/ MetaWrite \/ MetaDone \/ MetaFails \/ OpenLevels \/ ClearFails \/ RemoveOld
  PROVE  Map!Forget
<1>1. /\ TablesInv /\ EngineInv /\ MP!MetaInv /\ MP!MetaInv' /\ MainIsLive /\ LogKeepsMap
      /\ LevelsKeepMap /\ ClearKeepsMap
      /\ faults' = faults
  BY FaultsStay DEF MapInv, TablesInv, KeepsMap
<1>2. Up /\ Up' /\ op' = op /\ pc \notin {"write", "truncate"} /\ pc' \notin {"write", "truncate"}
  BY DEF WriteShort, CompactFlush, CompactScan, ScanMerge, ScanDone, BuildDone, BuildFails, StartBuild,
         MetaSet, MetaWrite, MetaDone, MetaFails, OpenLevels, ClearFails, RemoveOld, ReturnError, Up
<1>3. Live = Stored.tables /\ (pc # "levels" => main = Stored.tables)
  BY <1>1, <1>2, StoredIsLive DEF MainIsLive, Up
<1>4. Log!Replay(log') = Log!Replay(log)
  <2>1. CASE WriteShort
    <3>1. log' = Append(log, Torn)
      BY <2>1 DEF WriteShort, Log!LogWriteShort
    <3> QED BY <1>1, <3>1, LogStep
  <2>2. CASE ~WriteShort
    <3>1. log' = log
      BY <2>2 DEF CompactFlush, CompactScan, ScanMerge, ScanDone, BuildDone, BuildFails, StartBuild,
         MetaSet, MetaWrite, MetaDone, MetaFails, OpenLevels, ClearFails, RemoveOld, logVars
    <3> QED BY <3>1
  <2> QED BY <2>1, <2>2
<1>5. ASSUME NEW k \in Keys
      PROVE  Lookup(files', Log!Replay(log'), Stored'.tables, k) = Lookup(files, Log!Replay(log), Stored.tables, k)
  <2>1. CASE Stored' = Stored
    BY <1>1, <1>4, <2>1, SameLookups
  <2>2. CASE MetaDone
    <3>1. Stored' = pending /\ files' = files /\ InSet
      BY <1>1, <2>2, RegisterSteps DEF MetaDone, Meta!SetSync, InSet
    <3>2. pending \in Unsure
      BY <1>1, <3>1, PendingUnsure
    <3>3. Alike(files, Log!Replay(log), pending.tables, Stored.tables)
      BY <1>1, <1>2, <3>2 DEF LogKeepsMap
    <3> QED BY <1>4, <3>1, <3>3 DEF Alike
  <2>3. CASE ~MetaDone
    <3>1. UNCHANGED metaVars \/ MetaSet \/ MetaWrite \/ MetaFails
      BY <2>3 DEF WriteShort, CompactFlush, CompactScan, ScanMerge, ScanDone, BuildDone, BuildFails,
         StartBuild, OpenLevels, ClearFails, RemoveOld
    <3> QED BY <1>1, <2>1, <3>1, RegisterSteps
  <2> QED BY <2>2, <2>3
<1>6. ASSUME NEW k \in Keys PROVE Lookup(files', mem', main', k) = Lookup(files, mem, main, k)
  <2>1. CASE OpenLevels
    <3>1. files' = files /\ mem' = mem /\ main' = Live /\ pc = "levels"
      BY <2>1 DEF OpenLevels, Live
    <3> QED BY <1>1, <3>1 DEF LevelsKeepMap, Alike
  <2>2. CASE ClearFails
    <3>1. files' = files /\ mem' = Empty /\ main' = main /\ main = Live /\ pc = "clear"
      BY <1>3, <2>2 DEF ClearFails
    <3> QED BY <1>1, <3>1 DEF ClearKeepsMap, Flushed
  <2>3. CASE ~OpenLevels /\ ~ClearFails
    <3>1. mem' = mem /\ main' = main /\ pc # "levels"
      BY <2>3 DEF WriteShort, CompactFlush, CompactScan, ScanMerge, ScanDone, BuildDone, BuildFails,
         StartBuild, MetaSet, MetaWrite, MetaDone, MetaFails, RemoveOld, memVars
    <3> QED BY <1>1, <1>3, <3>1, SameLookups
  <2> QED BY <2>1, <2>2, <2>3
<1> QED BY <1>1, <1>2, <1>5, <1>6, QuietStep

\* The end of a flush: the MemTable and the log are emptied.
LEMMA ClearRefines ==
  ASSUME MapInv, "openerr" \notin faults, ClearMem
  PROVE  Map!Forget
<1>1. EngineInv /\ MP!MetaInv /\ MainIsLive /\ ClearKeepsMap /\ Unsure = {}
  BY DEF MapInv, TablesInv, KeepsMap, SoundInv, ClearMem
<1>2. /\ Up /\ Up' /\ op' = op /\ files' = files /\ mem' = Empty /\ main' = main /\ durable' = durable
      /\ pc = "clear" /\ logDisk' \subseteq logDisk \union {<<>>}
  BY DEF ClearMem, Log!LogTruncate, Log!Unsynced, metaVars, Up
<1>3. main = Live /\ main = Stored.tables
  BY <1>1, <1>2, StoredIsLive DEF MainIsLive
<1>4. \A k \in Keys : Lookup(files', mem', main', k) = Lookup(files, mem, main, k)
  BY <1>1, <1>2, <1>3 DEF ClearKeepsMap, Flushed
<1>5. ASSUME NEW k \in Keys, NEW x \in Answers(files', logDisk', durable'[0], durable'[1], k)
      PROVE  x \in Answers(files, logDisk, durable[0], durable[1], k) \/ x = Lookup(files, mem, main, k)
  <2>1. PICK l \in logDisk', a \in durable[0], b \in durable[1] :
            x = Lookup(files, Log!Replay(l), Meta!LiveOf(a, b).tables, k)
    BY <1>2 DEF Answers
  <2>2. CASE l \in logDisk
    BY <2>1, <2>2 DEF Answers
  <2>3. CASE l = <<>>
    <3>1. Meta!LiveOf(a, b) = Stored
      BY <1>1, SlotsAreKnown
    <3>2. x = Lookup(files, Empty, main, k)
      BY <1>3, <2>1, <2>3, <3>1, ReplayEmpty
    <3> QED BY <1>2, <1>4, <3>2
  <2> QED BY <1>2, <2>2, <2>3
<1> QED BY <1>2, <1>4, <1>5, ForgetStep

\* The Sync of Truncate, or its failure.
LEMMA TruncateRefines ==
  ASSUME EngineInv, TruncateDone \/ TruncateFails
  PROVE  Map!Forget
<1>1. /\ Up /\ Up' /\ op' = op /\ files' = files /\ mem' = mem /\ main' = main /\ durable' = durable
      /\ logDisk' \subseteq logDisk
  BY DEF TruncateDone, TruncateFails, ReturnError, Log!LogSync, Log!LogSyncFails, metaVars, memVars, Up,
         EngineInv, Phases
<1>2. ASSUME NEW k \in Keys, NEW x \in Answers(files', logDisk', durable'[0], durable'[1], k)
      PROVE  x \in Answers(files, logDisk, durable[0], durable[1], k)
  BY <1>1 DEF Answers
<1> QED BY <1>1, <1>2, ForgetStep

\* Open shows what a restart shows.
LEMMA OpenRefines ==
  ASSUME MapInv, MapInv', "openerr" \notin faults, ~Buried', [Next]_vars,
         NEW fresh \in BOOLEAN, Open(fresh)
  PROVE  Map!Start
<1>1. /\ TablesInv /\ EngineInv /\ EngineInv' /\ MP!MetaInv /\ MP!MetaInv'
      /\ faults' = faults /\ ~Up /\ Up' /\ pc' = "idle"
  BY FaultsStay DEF MapInv, TablesInv, Open, Up
<1>2. /\ files' = files /\ log' = log /\ mem' = Log!Replay(log) /\ main' = Live' /\ op' = op
  BY DEF Open, Log!LogOpen, Live
<1>3. Stored' = Stored /\ Stored'.tables = Live'
  <2>1. (EngineInv => (Up => Stored = Meta!Get /\ Stored.tables = Live))'
    BY StoredIsLive, PTL
  <2> QED BY <1>1, <2>1, RegisterSteps
<1>4. /\ Store = [k \in Keys |-> Lookup(files, Log!Replay(log), Stored.tables, k)]
      /\ Maybe = [k \in Keys |-> {}]
  BY <1>1, ViewDown
<1>5. /\ Store' = [k \in Keys |-> Lookup(files', mem', main', k)]
      /\ Maybe' = [k \in Keys |-> Answers(files', logDisk', durable'[0], durable'[1], k)
                                      \ {Lookup(files', mem', main', k)}]
  <2>1. (Up =>
          /\ Store = [k \in Keys |-> Lookup(files, mem, main, k)]
          /\ Maybe = [k \in Keys |-> Answers(files, logDisk, durable[0], durable[1], k)
                                         \ {Lookup(files, mem, main, k)}])'
    BY ViewUp, PTL
  <2> QED BY <1>1, <2>1
<1>6. \A k \in Keys : Answers(files', logDisk', durable'[0], durable'[1], k)
                          = {Lookup(files', Log!Replay(log'), Stored'.tables, k)}
  <2>1. (MapInv /\ "openerr" \notin faults /\ Up /\ ~Buried /\ pc \notin {"write", "truncate"} =>
            \A k \in Keys : Answers(files, logDisk, durable[0], durable[1], k)
                                = {Lookup(files, Log!Replay(log), Stored.tables, k)})'
    BY QuietAnswers, PTL
  <2> QED BY <1>1, <2>1
<1>7. Store' = Store
  BY <1>2, <1>3, <1>4, <1>5
<1>8. Maybe' = Maybe
  BY <1>2, <1>3, <1>4, <1>5, <1>6
<1>9. Writing' = Writing
  BY <1>2 DEF Writing
<1> QED BY <1>1, <1>7, <1>8, <1>9 DEF Map!Start

\* Close and crashes settle on one of the possible answers.
LEMMA StopRefines ==
  ASSUME MapInv, MapInv', Close \/ Kill \/ PowerLoss
  PROVE  Map!Stop
<1>1. /\ EngineInv /\ EngineInv' /\ MP!MetaInv /\ MP!MetaInv' /\ LogSynced /\ ~Up' /\ op' = Nothing
      /\ files' = files
  BY DEF MapInv, TablesInv, Close, Kill, PowerLoss, Crash, Up, EngineInv, Phases
<1>2. /\ Store' = [k \in Keys |-> Lookup(files', Log!Replay(log'), Stored'.tables, k)]
      /\ Maybe' = [k \in Keys |-> {}]
  <2>1. (EngineInv /\ ~Up =>
          /\ Store = [k \in Keys |-> Lookup(files, Log!Replay(log), Stored.tables, k)]
          /\ Maybe = [k \in Keys |-> {}])'
    BY ViewDown, PTL
  <2> QED BY <1>1, <2>1
<1>3. log' \in logDisk /\ \E a \in durable[0], b \in durable[1] : Stored' = Meta!LiveOf(a, b)
  <2>1. Stored' = Meta!LiveOf(cached'[0], cached'[1])
    <3>1. (EngineInv => (~Up => Stored = Meta!LiveOf(cached[0], cached[1]) /\ Unsure = {}))'
      BY StoredIsLive, PTL
    <3> QED BY <1>1, <3>1
  <2>2. log' \in logDisk
    BY <1>1 DEF Close, Kill, PowerLoss, Log!LogClose, Log!LogKill, Log!LogPowerLoss, EngineInv, Phases
  <2>3. cached'[0] \in durable[0] /\ cached'[1] \in durable[1]
    <3>1. CASE Close \/ Kill
      BY <1>1, <3>1, CacheReachable DEF Close, Kill, Meta!MetaClose, Meta!MetaKill
    <3>2. CASE PowerLoss
      BY <3>2 DEF PowerLoss, Meta!MetaPowerLoss, Meta!Slots
    <3> QED BY <3>1, <3>2
  <2> QED BY <2>1, <2>2, <2>3
<1>4. ASSUME NEW k \in Keys PROVE Store'[k] \in {Store[k]} \union Maybe[k]
  <2>1. Store'[k] = Lookup(files, Log!Replay(log'), Stored'.tables, k)
    BY <1>1, <1>2
  <2>2. CASE Up
    <3>1. Lookup(files, Log!Replay(log'), Stored'.tables, k)
              \in Answers(files, logDisk, durable[0], durable[1], k)
      BY <1>3 DEF Answers
    <3>2. /\ Store[k] = Lookup(files, mem, main, k)
          /\ Maybe[k] = Answers(files, logDisk, durable[0], durable[1], k)
                            \ {Lookup(files, mem, main, k)}
      BY <2>2, ViewUp
    <3> QED BY <2>1, <3>1, <3>2
  <2>3. CASE ~Up
    <3>1. Stored' = Stored
      BY <1>1, <2>3, StoredIsLive, RegisterSteps
    <3>2. log' = log
      BY <1>1, <1>3, <2>3 DEF LogSynced, Up
    <3>3. Store[k] = Lookup(files, Log!Replay(log), Stored.tables, k)
      BY <1>1, <2>3, ViewDown
    <3> QED BY <2>1, <3>1, <3>2, <3>3
  <2> QED BY <2>2, <2>3
<1>5. DOMAIN Store' = Keys
  BY <1>2
<1>6. Writing' = {} /\ Up' = FALSE
  BY <1>1 DEF Writing, Up
<1> QED BY <1>2, <1>4, <1>5, <1>6 DEF Map!Stop

\* SetEx and Del.
LEMMA WriteBegins ==
  ASSUME MapInv, "openerr" \notin faults, ~Buried, ~Buried', NEW r \in Log!Record, StartWrite(r)
  PROVE  Map!Begin([key |-> r.key, val |-> Answer(r.val)])
<1>1. /\ EngineInv /\ MP!MetaInv /\ LogKeepsMap /\ Up /\ Up' /\ pc = "idle" /\ op = Nothing /\ op' = r
      /\ files' = files /\ mem' = mem /\ main' = main /\ durable' = durable /\ r # Torn /\ r # Nothing
      /\ log' = Append(log, r) /\ logDisk = {log}
  BY KVAssumption DEF MapInv, TablesInv, KeepsMap, LogSynced, EngineInv, Phases, StartWrite, Log!LogWrite,
     metaVars, memVars, Up
<1>2. logDisk' \subseteq {log, Append(log, Torn), log'}
  BY <1>1 DEF StartWrite, Log!LogWrite, Log!Unsynced
<1>3. r.key \in Keys /\ r.val # Absent
  BY KVAssumption DEF Log!Record
<1> DEFINE R(k) == Lookup(files, Log!Replay(log), Stored.tables, k)
<1>4. ASSUME NEW k \in Keys, NEW d \in {Stored} \union Unsure
      PROVE  Lookup(files, Log!Replay(log), d.tables, k) = R(k)
  BY <1>1, <1>4 DEF LogKeepsMap, Alike
<1>5. /\ Log!Replay(log) \in Level /\ Log!Replay(log') = [Log!Replay(log) EXCEPT ![r.key] = r.val]
      /\ Log!Replay(Append(log, Torn)) = Log!Replay(log)
  <2>1. log \in Log!Contents
    BY <1>1, Ranges DEF Log!LogTypeOK
  <2> QED BY <1>1, <2>1, LogStep, ReplayTorn
<1>6. ASSUME NEW k \in Keys
       PROVE  \A t : Lookup(files, Log!Replay(log'), t, k) =
                         IF k = r.key THEN Answer(r.val) ELSE Lookup(files, Log!Replay(log), t, k)
  <2> DEFINE m == Log!Replay(log)
             n == Log!Replay(log')
  <2>1. m \in Level /\ n = [m EXCEPT ![r.key] = r.val]
    BY <1>5
  <2> HIDE DEF m, n
  <2>2. \A t : Lookup(files, n, t, k) = IF k = r.key THEN Answer(r.val) ELSE Lookup(files, m, t, k)
    BY <2>1, LookupWritten
  <2> QED BY <2>2 DEF m, n
<1>7. ASSUME NEW k \in Keys, NEW x \in Answers(files', logDisk', durable'[0], durable'[1], k)
      PROVE  x = R(k) \/ (k = r.key /\ x = Answer(r.val))
  <2> DEFINE L == logDisk'
  <2>0. x \in Answers(files, L, durable[0], durable[1], k)
    BY <1>1
  <2> HIDE DEF L
  <2>1. PICK l \in L, d \in {Stored} \union Unsure : x = Lookup(files, Log!Replay(l), d.tables, k)
    BY <1>1, <2>0, AnswerFrom
  <2>2. Lookup(files, Log!Replay(log'), d.tables, k) =
            IF k = r.key THEN Answer(r.val) ELSE Lookup(files, Log!Replay(log), d.tables, k)
    BY <1>6
  <2>3. \/ x = Lookup(files, Log!Replay(log), d.tables, k)
        \/ x = Lookup(files, Log!Replay(log'), d.tables, k)
    BY <1>2, <1>5, <2>1 DEF L
  <2> QED BY <1>4, <2>2, <2>3
<1>8. \A k \in Keys : Answers(files, logDisk, durable[0], durable[1], k) = {R(k)}
  BY <1>1, QuietAnswers
<1>9. /\ Store = [k \in Keys |-> Lookup(files, mem, main, k)]
      /\ Maybe = [k \in Keys |-> Answers(files, logDisk, durable[0], durable[1], k)
                                     \ {Lookup(files, mem, main, k)}]
  BY <1>1, ViewUp
<1>10. /\ Store' = [k \in Keys |-> Lookup(files', mem', main', k)]
      /\ Maybe' = [k \in Keys |-> Answers(files', logDisk', durable'[0], durable'[1], k)
                                      \ {Lookup(files', mem', main', k)}]
  <2>1. (Up =>
          /\ Store = [k \in Keys |-> Lookup(files, mem, main, k)]
          /\ Maybe = [k \in Keys |-> Answers(files, logDisk, durable[0], durable[1], k)
                                         \ {Lookup(files, mem, main, k)}])'
    BY ViewUp, PTL
  <2> QED BY <1>1, <2>1
<1> HIDE DEF R
<1>11. Store' = Store /\ DOMAIN Maybe' = Keys
  BY <1>1, <1>9, <1>10
<1>12. ASSUME NEW k \in Keys, NEW x \in Maybe'[k]
       PROVE  x \in Maybe[k] \/ (k = r.key /\ x = Answer(r.val))
  <2>1. x \in Answers(files', logDisk', durable'[0], durable'[1], k) /\ x # Lookup(files, mem, main, k)
    BY <1>1, <1>10
  <2>2. x = R(k) \/ (k = r.key /\ x = Answer(r.val))
    BY <1>7, <2>1
  <2> QED BY <1>8, <1>9, <2>1, <2>2
<1>13. Writing = {} /\ Writing' = {[key |-> r.key, val |-> Answer(r.val)]}
  BY <1>1 DEF Writing, Answer
<1> QED BY <1>1, <1>3, <1>11, <1>12, <1>13 DEF Map!Begin, Map!Bounded

\* The record SetEx or Del is writing, as a write of the map.
OpWrite == [key |-> op.key, val |-> Answer(op.val)]

LEMMA OpWrites ==
  ASSUME NEW r \in Log!Record
  PROVE  [key |-> r.key, val |-> Answer(r.val)] \in Map!Writes
<1>1. r.key \in Keys /\ r.val \in Vals \union {Tombstone}
  BY DEF Log!Record, Cells
<1>2. Answer(r.val) \in Vals \union {Absent}
  BY <1>1 DEF Answer
<1> QED BY <1>1, <1>2 DEF Map!Writes

\* SetEx and Del return success.
LEMMA WriteCommits ==
  ASSUME MapInv, "openerr" \notin faults, ~Buried, WriteDone
  PROVE  Map!Commit(OpWrite)
<1>1. /\ EngineInv /\ MP!MetaInv /\ LogKeepsMap /\ Up /\ Up' /\ pc = "write" /\ op \in Log!Record
      /\ log # <<>> /\ log[Len(log)] = op /\ log \in logDisk /\ log \in Log!Contents /\ mem \in Level
  BY Ranges DEF MapInv, TablesInv, KeepsMap, EngineInv, Phases, TypeOK, Log!LogTypeOK, WriteDone, Up
<1>2. /\ files' = files /\ main' = main /\ durable' = durable /\ op' = Nothing
      /\ mem' = [mem EXCEPT ![op.key] = op.val] /\ logDisk' = {log}
  BY DEF WriteDone, Log!LogSync, metaVars
<1>3. op # Nothing /\ op.key \in Keys /\ op.val # Absent
  BY <1>1, KVAssumption DEF Log!Record
<1>4. Log!Replay(log)[op.key] = op.val
  BY <1>1, ReplayLast DEF Buried
<1>5. ASSUME NEW k \in Keys
      PROVE  Lookup(files, mem', main, k) = IF k = op.key THEN Answer(op.val) ELSE Lookup(files, mem, main, k)
  <2> DEFINE n == mem'
             r == op
  <2>1. n = [mem EXCEPT ![r.key] = r.val] /\ r \in Log!Record /\ mem \in Level
    BY <1>1, <1>2
  <2> HIDE DEF n, r
  <2>2. \A t : Lookup(files, n, t, k) = IF k = r.key THEN Answer(r.val) ELSE Lookup(files, mem, t, k)
    BY <2>1, LookupWritten
  <2> QED BY <2>2 DEF n, r
<1>6. ASSUME NEW k \in Keys, NEW x \in Answers(files', logDisk', durable'[0], durable'[1], k)
      PROVE  /\ x \in Answers(files, logDisk, durable[0], durable[1], k)
             /\ k = op.key => x = Answer(op.val)
  <2>1. x \in Answers(files, {log}, durable[0], durable[1], k)
    BY <1>2
  <2>2. x \in Answers(files, logDisk, durable[0], durable[1], k)
    BY <1>1, <2>1 DEF Answers
  <2>3. PICK l \in {log}, d \in {Stored} \union Unsure : x = Lookup(files, Log!Replay(l), d.tables, k)
    BY <1>1, <2>1, AnswerFrom
  <2>4. k = op.key => x = Answer(op.val)
    BY <1>3, <1>4, <2>3 DEF Lookup
  <2> QED BY <2>2, <2>4
<1>7. /\ Store = [k \in Keys |-> Lookup(files, mem, main, k)]
      /\ Maybe = [k \in Keys |-> Answers(files, logDisk, durable[0], durable[1], k)
                                     \ {Lookup(files, mem, main, k)}]
  BY <1>1, ViewUp
<1>8. /\ Store' = [k \in Keys |-> Lookup(files', mem', main', k)]
      /\ Maybe' = [k \in Keys |-> Answers(files', logDisk', durable'[0], durable'[1], k)
                                      \ {Lookup(files', mem', main', k)}]
  <2>1. (Up =>
          /\ Store = [k \in Keys |-> Lookup(files, mem, main, k)]
          /\ Maybe = [k \in Keys |-> Answers(files, logDisk, durable[0], durable[1], k)
                                         \ {Lookup(files, mem, main, k)}])'
    BY ViewUp, PTL
  <2> QED BY <1>1, <2>1
<1>9. Store' = [Store EXCEPT ![op.key] = Answer(op.val)]
  <2>1. \A k \in Keys : Store'[k] = IF k = op.key THEN Answer(op.val) ELSE Store[k]
    BY <1>2, <1>5, <1>7, <1>8
  <2>2. Store' = [k \in Keys |-> Store'[k]] /\ DOMAIN Store = Keys
    BY <1>7, <1>8
  <2> QED BY <2>1, <2>2
<1>10. ASSUME NEW k \in Keys, NEW x \in Maybe'[k]
       PROVE  x \in Maybe[k] /\ k # op.key
  <2>1. x \in Answers(files', logDisk', durable'[0], durable'[1], k) /\ x # Lookup(files, mem', main, k)
    BY <1>2, <1>8
  <2>2. k # op.key
    BY <1>5, <1>6, <2>1
  <2>3. x \in Answers(files, logDisk, durable[0], durable[1], k) /\ x # Lookup(files, mem, main, k)
    BY <1>5, <1>6, <2>1, <2>2
  <2> QED BY <1>7, <2>2, <2>3
<1>11. DOMAIN Maybe' = Keys
  BY <1>8
<1>12. Writing = {OpWrite} /\ Writing' = {}
  BY <1>2, <1>3 DEF Writing, Answer, OpWrite
<1> QED BY <1>1, <1>3, <1>9, <1>10, <1>11, <1>12 DEF Map!Commit, Map!Bounded, OpWrite

\* They return an error.
LEMMA WriteGivesUp ==
  ASSUME EngineInv, WriteFails
  PROVE  Map!Fail(OpWrite)
<1>1. /\ Up /\ Up' /\ files' = files /\ mem' = mem /\ main' = main /\ durable' = durable
      /\ logDisk' = logDisk /\ op' = Nothing /\ op # Nothing
  BY KVAssumption DEF WriteFails, Log!LogSyncFails, metaVars, memVars, Up, EngineInv, Phases
<1>2. Store' = Store /\ Maybe' = Maybe /\ DOMAIN Maybe = Keys
  <2>1. /\ Store = [k \in Keys |-> Lookup(files, mem, main, k)]
        /\ Maybe = [k \in Keys |-> Answers(files, logDisk, durable[0], durable[1], k)
                                       \ {Lookup(files, mem, main, k)}]
    BY <1>1, ViewUp
  <2>2. (Up =>
          /\ Store = [k \in Keys |-> Lookup(files, mem, main, k)]
          /\ Maybe = [k \in Keys |-> Answers(files, logDisk, durable[0], durable[1], k)
                                         \ {Lookup(files, mem, main, k)}])'
    BY ViewUp, PTL
  <2> QED BY <1>1, <2>1, <2>2
<1>3. Writing = {OpWrite} /\ Writing' = {}
  BY <1>1 DEF Writing, Answer, OpWrite
<1> QED BY <1>1, <1>2, <1>3 DEF Map!Fail, Map!Bounded, OpWrite
-----------------------------------------------------------------------------
(* The refinement.                                                         *)

\* The engine begins as the empty map.
LEMMA MapStarts == Init => Map!Init
<1> SUFFICES ASSUME Init PROVE Map!Init
  OBVIOUS
<1>1. EngineInv /\ ~Up /\ op = Nothing /\ log = <<>>
  BY InitTypes DEF Init, Up, Log!LogInit
<1>2. Stored.tables = <<>>
  <2>1. Stored = Meta!LiveOf(cached[0], cached[1])
    BY <1>1, StoredIsLive
  <2>2. cached[0].data = Meta!Zero /\ cached[1].data = Meta!Zero
    BY DEF Init, Meta!MetaInit, Meta!Blank, Meta!Slots
  <2> QED BY <2>1, <2>2 DEF Meta!LiveOf, Meta!Zero
<1>3. ASSUME NEW k \in Keys PROVE Lookup(files, Log!Replay(log), Stored.tables, k) = Absent
  <2>1. Found(files, <<>>, k) = Absent
    BY FoundNone DEF NoneHas
  <2>2. Log!Replay(log)[k] = Absent
    BY <1>1, ReplayEmpty DEF Empty
  <2> QED BY <1>2, <2>1, <2>2, KVAssumption DEF Lookup, Answer, Cells
<1>4. Store = [k \in Keys |-> Absent] /\ Maybe = [k \in Keys |-> {}]
  BY <1>1, <1>3, ViewDown
<1> QED BY <1>1, <1>4 DEF Map!Init, Writing, Up

\* What is not touched shows the same.
LEMMA MapStutters ==
  ASSUME EngineInv, EngineInv', MP!MetaInv, MP!MetaInv', UNCHANGED vars
  PROVE  UNCHANGED <<Up, Store, Writing, Maybe>>
<1>1. /\ files' = files /\ log' = log /\ logDisk' = logDisk /\ mem' = mem /\ main' = main
      /\ durable' = durable /\ op' = op /\ (Up' <=> Up)
  BY DEF vars, metaVars, logVars, memVars, Up
<1>2. Up' = Up /\ Writing' = Writing
  BY <1>1 DEF Up, Writing, vars
<1>3. CASE Up
  <2>1. /\ Store = [k \in Keys |-> Lookup(files, mem, main, k)]
        /\ Maybe = [k \in Keys |-> Answers(files, logDisk, durable[0], durable[1], k)
                                       \ {Lookup(files, mem, main, k)}]
    BY <1>3, ViewUp
  <2>2. (Up =>
          /\ Store = [k \in Keys |-> Lookup(files, mem, main, k)]
          /\ Maybe = [k \in Keys |-> Answers(files, logDisk, durable[0], durable[1], k)
                                         \ {Lookup(files, mem, main, k)}])'
    BY ViewUp, PTL
  <2> QED BY <1>1, <1>2, <1>3, <2>1, <2>2
<1>4. CASE ~Up
  <2>1. Stored' = Stored
    BY <1>4, RegisterSteps DEF vars
  <2>2. /\ Store = [k \in Keys |-> Lookup(files, Log!Replay(log), Stored.tables, k)]
        /\ Maybe = [k \in Keys |-> {}]
    BY <1>4, ViewDown
  <2>3. (EngineInv /\ ~Up =>
          /\ Store = [k \in Keys |-> Lookup(files, Log!Replay(log), Stored.tables, k)]
          /\ Maybe = [k \in Keys |-> {}])'
    BY ViewDown, PTL
  <2> QED BY <1>1, <1>2, <1>4, <2>1, <2>2, <2>3
<1> QED BY <1>2, <1>3, <1>4

\* Every step of the engine is a step of the map.
LEMMA MapSteps ==
  ASSUME SafeFaults, MapInv, [Next]_vars
  PROVE  [Map!Next \/ Buried \/ Buried' \/ "openerr" \in faults]_<<Up, Store, Writing, Maybe>>
<1> SUFFICES ASSUME ~Buried, ~Buried', "openerr" \notin faults
             PROVE  [Map!Next]_<<Up, Store, Writing, Maybe>>
  OBVIOUS
<1>1. MapInv' /\ EngineInv /\ EngineInv' /\ MP!MetaInv /\ MP!MetaInv'
  BY MapNext DEF MapInv, TablesInv
<1>2. CASE \E fresh \in BOOLEAN : Open(fresh)
  BY <1>1, <1>2, OpenRefines DEF Map!Next
<1>3. CASE Close \/ Kill \/ PowerLoss
  BY <1>1, <1>3, StopRefines DEF Map!Next
<1>4. CASE \E r \in Log!Record : StartWrite(r)
  <2>1. PICK r \in Log!Record : StartWrite(r)
    BY <1>4
  <2>2. Map!Begin([key |-> r.key, val |-> Answer(r.val)])
    BY <2>1, WriteBegins
  <2> QED BY <2>2, OpWrites DEF Map!Next
<1>5. CASE WriteDone \/ WriteFails
  <2>1. OpWrite \in Map!Writes
    <3>1. op \in Log!Record
      BY <1>1, <1>5 DEF EngineInv, Phases, WriteDone, WriteFails
    <3> QED BY <3>1, OpWrites DEF OpWrite
  <2>2. Map!Commit(OpWrite) \/ Map!Fail(OpWrite)
    BY <1>1, <1>5, WriteCommits, WriteGivesUp
  <2> QED BY <2>1, <2>2 DEF Map!Next
<1>6. CASE \/ WriteShort
           \/ CompactFlush \/ CompactScan \/ ScanMerge \/ ScanDone \/ BuildDone \/ BuildFails
           \/ MetaSet \/ MetaWrite \/ MetaDone \/ MetaFails \/ OpenLevels \/ ClearFails \/ RemoveOld
  BY <1>1, <1>6, CompactRefines DEF Map!Next
<1>7. CASE ClearMem \/ TruncateDone \/ TruncateFails
  BY <1>1, <1>7, ClearRefines, TruncateRefines DEF Map!Next
<1>8. ~OpenLevelsFails
  BY DEF OpenLevelsFails
<1>9. CASE UNCHANGED vars
  BY <1>1, <1>9, MapStutters
<1> QED BY Steps, <1>2, <1>3, <1>4, <1>5, <1>6, <1>7, <1>8, <1>9

\* The storage engine is a durable map, for every number of keys, versions and
\* log records: a Get answers as if flushes, merges and recovery were not there,
\* a write that has returned survives every crash, and one that has not is there
\* or not (kv.go: Open, SetEx, Del, Compact).  Records behind torn bytes and a
\* failing openLevels are excepted as ImplementsMap says.
THEOREM EngineImplementsMap == ASSUME SafeFaults PROVE Spec => ImplementsMap
<1>1. Init => MapInv /\ Map!Init
  BY MapInit, MapStarts
<1>2. MapInv /\ [Next]_vars => MapInv'
  BY MapNext
<1>3. MapInv /\ [Next]_vars =>
          [Map!Next \/ Buried \/ Buried' \/ "openerr" \in faults]_<<Up, Store, Writing, Maybe>>
  BY MapSteps
<1> QED BY <1>1, <1>2, <1>3, PTL DEF Spec, ImplementsMap
=============================================================================
