--------------------------- MODULE KeyCodecProofs ---------------------------
(***************************************************************************)
(* Proofs about the bytes that cells, keys and rows are stored as, for     *)
(* every number of bytes and every schema.                                 *)
(***************************************************************************)
EXTENDS KeyCodec, SequenceTheorems, WellFoundedInduction, TLAPS

-----------------------------------------------------------------------------
(* Numbers: the least element and induction, in terms of sets.             *)

LEMMA LeastNumber ==
  ASSUME NEW T, T \subseteq Nat, T # {}
  PROVE  \E m \in T : \A n \in T : m <= n
<1> DEFINE R == OpToRel(<, Nat)
<1>1. \E m \in T : \A y \in T : ~(<<y, m>> \in R)
  <2>1. IsWellFoundedOn(R, Nat)
    BY NatLessThanWellFounded
  <2> HIDE DEF R
  <2> QED BY <2>1, WFMin
<1>2. ASSUME NEW m \in Nat, NEW y \in Nat, ~(<<y, m>> \in R) PROVE m <= y
  BY <1>2, SMT DEF OpToRel
<1> HIDE DEF R
<1> QED BY <1>1, <1>2

\* A set that has 0 and, up to n, with a number the next one.
LEMMA UpTo ==
  ASSUME NEW n \in Nat, NEW T, 0 \in T, \A m \in 0..(n - 1) : m \in T => m + 1 \in T
  PROVE  \A m \in 0..n : m \in T
<1> SUFFICES ASSUME \E m \in 0..n : m \notin T PROVE FALSE
  OBVIOUS
<1> DEFINE U == {m \in 0..n : m \notin T}
<1>1. PICK m \in U : \A k \in U : m <= k
  <2>1. U \subseteq Nat /\ U # {}
    OBVIOUS
  <2> HIDE DEF U
  <2> QED BY <2>1, LeastNumber
<1>2. m # 0 /\ m \in 1..n /\ m - 1 \in 0..(n - 1) /\ m - 1 \notin U
  BY <1>1
<1> QED BY <1>1, <1>2
\* The largest number of a set, and what is left without it.
LEMMA LargestOf ==
  ASSUME NEW m \in Nat, NEW s \in SUBSET (1..m), s # {}
  PROVE  Max(s) \in s /\ \A x \in s : Max(s) >= x
<1> DEFINE T == {m - x : x \in s}
<1>1. \A x \in s : x \in Nat /\ m - x \in Nat
  OBVIOUS
<1>2. T \subseteq Nat /\ T # {}
  <2>1. PICK x : x \in s
    OBVIOUS
  <2>2. m - x \in T
    BY <2>1
  <2> QED BY <1>1, <2>2
<1>3. PICK t \in T : \A u \in T : t <= u
  <2> HIDE DEF T
  <2> QED BY <1>2, LeastNumber
<1>4. PICK x \in s : t = m - x
  BY <1>3
<1>5. ASSUME NEW y \in s PROVE x >= y
  <2>1. m - y \in T
    OBVIOUS
  <2>2. m - x <= m - y
    BY <1>3, <1>4, <2>1
  <2> QED BY <1>1, <2>2
<1>6. \E z \in s : \A y \in s : z >= y
  BY <1>5
<1> QED BY <1>6 DEF Max

LEMMA WithoutLargest ==
  ASSUME NEW m \in Nat, NEW s \in SUBSET (1..(m + 1)), s # {}
  PROVE  s \ {Max(s)} \in SUBSET (1..m)
<1>1. m + 1 \in Nat
  OBVIOUS
<1>2. Max(s) \in s /\ \A x \in s : Max(s) >= x
  BY <1>1, LargestOf
<1>3. ASSUME NEW x \in s, x # Max(s) PROVE x \in 1..m
  <2>1. x \in 1..(m + 1) /\ Max(s) \in 1..(m + 1) /\ Max(s) >= x
    BY <1>2
  <2> QED BY <1>3, <2>1
<1> QED BY <1>3
-----------------------------------------------------------------------------
(* Sequences of sequences.                                                 *)

\* The partial results of FlattenSeq, from left to right.
Joined(s, n, f) ==
    /\ f[0] = <<>> /\ f[n] = FlattenSeq(s)
    /\ \A k \in 1..n : f[k] = f[k - 1] \o s[k]

LEMMA FlattenRounds ==
  ASSUME NEW S, NEW s \in Seq(Seq(S))
  PROVE  \E f : Joined(s, Len(s), f) /\ \A k \in 0..Len(s) : f[k] \in Seq(S)
<1> DEFINE n == Len(s)
           Body(f, i) == IF i = 1 THEN s[i] ELSE f[i - 1] \o s[i]
           F == CHOOSE f : f = [i \in 1..n |-> Body(f, i)]
<1>1. n \in Nat /\ \A i \in 1..n : s[i] \in Seq(S)
  OBVIOUS
<1>2. F = [i \in 1..n |-> Body(F, i)]
  <2> DEFINE T == {m \in Nat : \E f : f = [i \in 1..m |-> Body(f, i)]}
  <2>1. 0 \in T
    <3> DEFINE e == [i \in 1..0 |-> 0]
    <3>1. e = [i \in 1..0 |-> Body(e, i)]
      OBVIOUS
    <3> QED BY <3>1
  <2>2. ASSUME NEW m \in 0..(n - 1), m \in T PROVE m + 1 \in T
    <3>1. PICK f : f = [i \in 1..m |-> Body(f, i)]
      BY <2>2
    <3> DEFINE g == [i \in 1..(m + 1) |-> Body(f, i)]
    <3>2. ASSUME NEW i \in 1..(m + 1) PROVE Body(f, i) = Body(g, i)
      <4>1. CASE i = 1
        BY <4>1
      <4>2. CASE i # 1
        <5>1. i - 1 \in 1..m /\ i - 1 \in 1..(m + 1)
          BY <4>2, <1>1
        <5>2. f[i - 1] = Body(f, i - 1) /\ g[i - 1] = Body(f, i - 1)
          <6> HIDE DEF Body
          <6> QED BY <3>1, <5>1
        <5>3. f[i - 1] = g[i - 1]
          BY <5>2
        <5> HIDE DEF g
        <5> QED BY <4>2, <5>3
      <4> QED BY <4>1, <4>2
    <3>3. g = [i \in 1..(m + 1) |-> Body(g, i)]
      <4> HIDE DEF Body
      <4> QED BY <3>2
    <3>4. \E h : h = [i \in 1..(m + 1) |-> Body(h, i)]
      <4> HIDE DEF g, Body
      <4> QED BY <3>3
    <3> HIDE DEF Body
    <3> QED BY <3>4, <1>1
  <2>3. n \in T
    <3> HIDE DEF T
    <3>1. \A m \in 0..n : m \in T
      BY <1>1, <2>1, <2>2, UpTo
    <3> QED BY <3>1, <1>1
  <2> QED BY <2>3
<1>3. FlattenSeq(s) = IF n = 0 THEN s ELSE F[n]
  BY Zenon DEF FlattenSeq
<1> DEFINE f == [k \in 0..n |-> IF k = 0 THEN <<>> ELSE F[k]]
           T == {k \in 0..n : f[k] \in Seq(S) /\ (k > 0 => f[k] = f[k - 1] \o s[k])}
<1> HIDE DEF F
<1>4. f[0] = <<>> /\ \A k \in 1..n : f[k] = F[k]
  BY <1>1
<1>5. \A k \in 1..n : F[k] = IF k = 1 THEN s[k] ELSE F[k - 1] \o s[k]
  <2> HIDE DEF Body
  <2>1. \A k \in 1..n : F[k] = Body(F, k)
    BY <1>2
  <2> QED BY <2>1 DEF Body
<1> HIDE DEF f, Body
<1>6. 0 \in T
  <2>1. <<>> \in Seq(S)
    OBVIOUS
  <2>2. f[0] \in Seq(S) /\ 0 \in 0..n /\ ~(0 > 0)
    BY <1>1, <1>4, <2>1
  <2> QED BY <2>2
<1>7. ASSUME NEW m \in 0..(n - 1), m \in T PROVE m + 1 \in T
  <2> DEFINE k == m + 1
  <2>1. k \in 1..n /\ k \in 0..n /\ k - 1 = m /\ s[k] \in Seq(S) /\ k > 0
    BY <1>1
  <2>2. f[m] \in Seq(S)
    BY <1>7
  <2>3. f[k] = f[m] \o s[k]
    <3>1. CASE m = 0
      <4>1. f[k] = s[k] /\ f[m] = <<>>
        BY <1>4, <1>5, <2>1, <3>1
      <4> QED BY <2>1, <4>1
    <3>2. CASE m # 0
      <4>1. m \in 1..n /\ k # 1
        BY <1>1, <3>2
      <4> HIDE DEF k
      <4> QED BY <1>4, <1>5, <2>1, <4>1
    <3> QED BY <3>1, <3>2
  <2>4. f[k] \in Seq(S)
    BY <2>1, <2>2, <2>3, ConcatProperties
  <2> HIDE DEF k
  <2>5. k \in T
    BY <2>1, <2>3, <2>4
  <2> QED BY <2>5 DEF k
<1>8. \A k \in 0..n : k \in T
  <2> HIDE DEF T
  <2> QED BY <1>1, <1>6, <1>7, UpTo
<1>9. f[n] = FlattenSeq(s)
  <2>1. CASE n = 0
    <3>1. s = <<>>
      BY <2>1, EmptySeq
    <3> QED BY <1>3, <1>4, <2>1, <3>1
  <2>2. CASE n # 0
    BY <1>1, <1>3, <1>4, <2>2
  <2> QED BY <2>1, <2>2
<1>10. \A k \in 0..n : f[k] \in Seq(S)
  BY <1>8
<1>11. ASSUME NEW k \in 1..n PROVE f[k] = f[k - 1] \o s[k]
  <2>1. k \in 0..n /\ k > 0
    BY <1>1
  <2> QED BY <1>8, <2>1
<1>12. Joined(s, n, f)
  BY <1>4, <1>9, <1>11 DEF Joined
<1> QED BY <1>10, <1>12

LEMMA FlattenType ==
  ASSUME NEW S, NEW s \in Seq(Seq(S))
  PROVE  FlattenSeq(s) \in Seq(S)
<1>1. PICK f : Joined(s, Len(s), f) /\ \A k \in 0..Len(s) : f[k] \in Seq(S)
  BY FlattenRounds
<1>2. Len(s) \in 0..Len(s)
  OBVIOUS
<1> QED BY <1>1, <1>2 DEF Joined
-----------------------------------------------------------------------------
(* Keys.                                                                   *)

LEMMA Widths ==
  /\ Base \in Nat /\ Base > 3 /\ IntBytes \in Nat /\ Base ^ 0 = 1
  /\ \A n \in 0..IntBytes : Base ^ n \in Nat /\ Base ^ n > 0
  /\ \A n \in 1..IntBytes : Base ^ n = Base * Base ^ (n - 1)
  /\ Width = Base ^ IntBytes /\ Half \in Int /\ 0 <= Half /\ 2 * Half <= Width
<1>1. Base \in Nat /\ Base > 3 /\ IntBytes \in Nat /\ Base ^ 0 = 1
  BY CodecAssumption DEF Base
<1>2. \A n \in 1..IntBytes : Base ^ n = Base * Base ^ (n - 1)
  BY CodecAssumption
<1> DEFINE T == {n \in 0..IntBytes : Base ^ n \in Nat /\ Base ^ n > 0}
<1>3. 0 \in T
  BY <1>1
<1>4. ASSUME NEW m \in 0..(IntBytes - 1), m \in T PROVE m + 1 \in T
  <2>1. m + 1 \in 1..IntBytes /\ (m + 1) - 1 = m /\ m + 1 \in 0..IntBytes
    BY <1>1
  <2>2. Base ^ (m + 1) = Base * Base ^ m
    BY <1>2, <2>1
  <2> DEFINE w == Base ^ m
  <2>3. w \in Nat /\ w > 0
    BY <1>4
  <2> HIDE DEF w
  <2>4. Base * w \in Nat /\ Base * w > 0
    BY <1>1, <2>3
  <2> QED BY <2>1, <2>2, <2>4 DEF w
<1>5. \A n \in 0..IntBytes : Base ^ n \in Nat /\ Base ^ n > 0
  <2> HIDE DEF T
  <2>1. \A m \in 0..IntBytes : m \in T
    BY <1>1, <1>3, <1>4, UpTo
  <2> QED BY <2>1 DEF T
<1>6. IntBytes \in 0..IntBytes
  BY <1>1
<1>7. Width \in Nat /\ Width = Base ^ IntBytes
  BY <1>5, <1>6 DEF Width
<1>8. Half \in Int /\ 0 <= Half /\ 2 * Half <= Width
  BY <1>7 DEF Half
<1> QED BY <1>1, <1>2, <1>5, <1>7, <1>8

LEMMA DigitsLen == \A u : Len(Digits(u)) = IntBytes /\ DOMAIN Digits(u) = 1..IntBytes
  BY CodecAssumption DEF Digits

LEMMA DigitsType ==
  ASSUME NEW u \in Int
  PROVE  Digits(u) \in Seq(Int)
<1>1. ASSUME NEW i \in 1..IntBytes PROVE (u \div Base ^ (IntBytes - i)) % Base \in Int
  <2>1. IntBytes - i \in 0..IntBytes
    BY CodecAssumption
  <2> DEFINE w == Base ^ (IntBytes - i)
  <2>2. w \in Int /\ w > 0 /\ Base \in Int /\ Base > 0
    BY <2>1, Widths
  <2> HIDE DEF w
  <2>3. u \div w \in Int
    BY <2>2
  <2>4. (u \div w) % Base \in Int
    BY <2>2, <2>3
  <2> QED BY <2>4 DEF w
<1>2. IntBytes \in Nat
  BY CodecAssumption
<1> QED BY <1>1, <1>2 DEF Digits

\* A string under a key is escaped byte by byte.
LEMMA EncodeStrType ==
  ASSUME NEW S, Int \subseteq S, NEW cell, cell.type # TypeI64, cell.str \in Seq(Int)
  PROVE  EncodeKey(cell) \in Seq(S)
<1> DEFINE s == cell.str
           e == [i \in DOMAIN s |-> IF s[i] \in {0, 1} THEN <<1, s[i] + 1>> ELSE <<s[i]>>]
<1>1. ASSUME NEW i \in DOMAIN s PROVE e[i] \in Seq(S)
  <2>1. s[i] \in S /\ s[i] + 1 \in S /\ 1 \in S
    OBVIOUS
  <2>2. <<1, s[i] + 1>> \in Seq(S) /\ <<s[i]>> \in Seq(S)
    BY <2>1
  <2> QED BY <2>2
<1>2. e \in Seq(Seq(S))
  <2>1. Len(s) \in Nat /\ DOMAIN s = 1..Len(s)
    OBVIOUS
  <2>2. e = [i \in 1..Len(s) |-> e[i]]
    BY <2>1
  <2> HIDE DEF e, s
  <2> QED BY <1>1, <2>1, <2>2
<1>3. FlattenSeq(e) \in Seq(S)
  BY <1>2, FlattenType
<1>4. <<0>> \in Seq(S)
  OBVIOUS
<1>5. FlattenSeq(e) \o <<0>> \in Seq(S)
  BY <1>3, <1>4, ConcatProperties
<1> QED BY <1>5 DEF EncodeKey

LEMMA EncodeKeyType ==
  ASSUME NEW cell, cell.i64 \in Int, cell.str \in Seq(Int)
  PROVE  EncodeKey(cell) \in Seq(Int)
<1>1. CASE cell.type = TypeI64
  <2>1. cell.i64 + Half \in Int
    BY Widths
  <2> QED BY <1>1, <2>1, DigitsType DEF EncodeKey
<1> QED BY <1>1, EncodeStrType

\* The bytes that can occur, whatever number the cell holds.
Alphabet(cell) == Int \union {cell.type} \union {Digits(cell.i64 + Half)[i] : i \in 1..IntBytes}

LEMMA EncodeKeyList ==
  ASSUME NEW cell, cell.str \in Seq(Int)
  PROVE  EncodeKey(cell) \in Seq(Alphabet(cell))
<1> DEFINE S == Alphabet(cell)
<1>1. CASE cell.type = TypeI64
  <2> DEFINE d == Digits(cell.i64 + Half)
  <2>1. \A i \in 1..IntBytes : d[i] \in S
    BY DEF Alphabet
  <2>2. d = [i \in 1..IntBytes |-> d[i]]
    BY DEF Digits
  <2>3. IntBytes \in Nat
    BY CodecAssumption
  <2>4. d \in Seq(S)
    <3> HIDE DEF d, S
    <3> QED BY <2>1, <2>2, <2>3
  <2> QED BY <1>1, <2>4 DEF EncodeKey
<1>2. Int \subseteq S
  BY DEF Alphabet
<1> HIDE DEF S
<1>3. EncodeKey(cell) \in Seq(S)
  BY <1>1, <1>2, EncodeStrType DEF S
<1> QED BY <1>3 DEF S

LEMMA TaggedType ==
  ASSUME NEW S, NEW n \in Nat, NEW cells, DOMAIN cells = 1..n,
         \A i \in 1..n : cells[i].type \in S /\ EncodeKey(cells[i]) \in Seq(S)
  PROVE  Tagged(cells) \in Seq(S)
<1> DEFINE e == [i \in DOMAIN cells |-> <<cells[i].type>> \o EncodeKey(cells[i])]
<1>1. ASSUME NEW i \in 1..n PROVE e[i] \in Seq(S)
  <2>1. <<cells[i].type>> \in Seq(S) /\ EncodeKey(cells[i]) \in Seq(S)
    OBVIOUS
  <2>2. <<cells[i].type>> \o EncodeKey(cells[i]) \in Seq(S)
    BY <2>1, ConcatProperties
  <2> QED BY <2>2
<1>2. e = [i \in 1..n |-> e[i]]
  OBVIOUS
<1>3. e \in Seq(Seq(S))
  <2> HIDE DEF e
  <2> QED BY <1>1, <1>2
<1> QED BY <1>3, FlattenType DEF Tagged
-----------------------------------------------------------------------------
(* The keys of rows and of schemas.                                        *)

SchemaFits(schema) ==
    /\ schema.table \in DOMAIN NameBytes
    /\ schema.cols \in Seq([name : STRING, type : {TypeI64, TypeStr}])
    /\ schema.pkey \in Seq(DOMAIN schema.cols)

\* The cells of the key are strings or numbers; about the rest of a row nothing
\* needs to be known.
RowFits(schema, row) ==
    /\ DOMAIN row = DOMAIN schema.cols
    /\ \A i \in DOMAIN schema.pkey : row[schema.pkey[i]].str \in Seq(Int)

LEMMA NameBytesType == \A t \in DOMAIN NameBytes : NameBytes[t] \in Seq(Int)
<1> SUFFICES ASSUME NEW t \in DOMAIN NameBytes PROVE NameBytes[t] \in Seq(Int)
  OBVIOUS
<1>1. NameBytes[t] \in Seq(3..(ByteMax - 1)) /\ 3..(ByteMax - 1) \subseteq Int
  BY CodecAssumption
<1> QED BY <1>1, SeqMonotonic

-----------------------------------------------------------------------------
(* Decoding.                                                               *)

DecodedStrings ==
    [ok : BOOLEAN, cell : [type : Int, i64 : Int, str : Seq(Int)], rest : Seq(Int)]

\* One character at place i; f holds what is read behind it.
Grown(ch, d) == [d EXCEPT !.cell.str = <<ch>> \o @]

StrStep(data, f, i) ==
    IF i > Len(data) THEN Failed
    ELSE IF data[i] = 0 THEN Decoded(StrCell(<<>>), SubSeq(data, i + 1, Len(data)))
    ELSE IF data[i] # 1 THEN Grown(data[i], f[i + 1])
    ELSE IF i = Len(data) \/ data[i + 1] \notin {1, 2} THEN Failed
    ELSE Grown(data[i + 1] - 1, f[i + 2])

LEMMA DecodeStrRounds ==
  ASSUME NEW data \in Seq(Int)
  PROVE  \E F : DecodeStrKey(data) = F[1] /\ \A i \in 1..(Len(data) + 1) : F[i] = StrStep(data, F, i)
<1> DEFINE n == Len(data)
           Grow(ch, d) == [d EXCEPT !.cell.str = <<ch>> \o @]
           Body(f, i) ==
               IF i > n THEN Failed
               ELSE IF data[i] = 0 THEN Decoded(StrCell(<<>>), SubSeq(data, i + 1, n))
               ELSE IF data[i] # 1 THEN Grow(data[i], f[i + 1])
               ELSE IF i = n \/ data[i + 1] \notin {1, 2} THEN Failed
               ELSE Grow(data[i + 1] - 1, f[i + 2])
           F == CHOOSE f : f = [i \in 1..(n + 1) |-> Body(f, i)]
<1>1. n \in Nat /\ \A i \in 1..n : data[i] \in Int
  OBVIOUS
<1>2. ASSUME NEW i \in 1..(n + 1), NEW f, NEW g, i <= n => f[i + 1] = g[i + 1], i < n => f[i + 2] = g[i + 2]
      PROVE  Body(f, i) = Body(g, i)
  <2>1. CASE i > n
    BY <2>1
  <2>2. CASE i = n
    <3>1. f[i + 1] = g[i + 1] /\ ~(i > n)
      BY <1>1, <1>2, <2>2
    <3> QED BY <2>2, <3>1
  <2>3. CASE i < n
    <3>1. f[i + 1] = g[i + 1] /\ f[i + 2] = g[i + 2]
      BY <1>1, <1>2, <2>3
    <3> QED BY <3>1
  <2> QED BY <1>1, <2>1, <2>2, <2>3
<1>3. F = [i \in 1..(n + 1) |-> Body(F, i)]
  <2> HIDE DEF Body
  <2> DEFINE T == {m \in Nat : \E f : f = [i \in (n + 1 - m)..(n + 1) |-> Body(f, i)]}
  <2>1. 0 \in T
    <3> DEFINE e == [i \in (n + 1 - 0)..(n + 1) |-> Body(0, i)]
    <3>1. ASSUME NEW i \in (n + 1 - 0)..(n + 1) PROVE Body(0, i) = Body(e, i)
      <4>1. i = n + 1 /\ i \in 1..(n + 1)
        BY <1>1
      <4> HIDE DEF e
      <4> QED BY <1>1, <1>2, <4>1
    <3>2. e = [i \in (n + 1 - 0)..(n + 1) |-> Body(e, i)]
      BY <3>1
    <3> HIDE DEF e
    <3> QED BY <3>2
  <2>2. ASSUME NEW m \in 0..(n - 1), m \in T PROVE m + 1 \in T
    <3> DEFINE a == n + 1 - m
    <3>1. PICK f : f = [i \in a..(n + 1) |-> Body(f, i)]
      BY <2>2
    <3> DEFINE g == [i \in (a - 1)..(n + 1) |-> Body(f, i)]
    <3>2. a \in 2..(n + 1) /\ n + 1 - (m + 1) = a - 1
      BY <1>1
    <3> HIDE DEF a
    <3>3. ASSUME NEW j \in a..(n + 1) PROVE f[j] = g[j]
      <4>1. j \in (a - 1)..(n + 1)
        BY <1>1, <3>2
      <4>2. f[j] = Body(f, j)
        BY <3>1
      <4>3. g[j] = Body(f, j)
        BY <4>1
      <4> QED BY <4>2, <4>3
    <3>4. ASSUME NEW i \in (a - 1)..(n + 1) PROVE Body(f, i) = Body(g, i)
      <4>1. i \in 1..(n + 1) /\ (i <= n => i + 1 \in a..(n + 1)) /\ (i < n => i + 2 \in a..(n + 1))
        BY <1>1, <3>2
      <4> HIDE DEF g
      <4> QED BY <1>2, <3>3, <4>1
    <3>5. g = [i \in (a - 1)..(n + 1) |-> Body(g, i)]
      BY <3>4
    <3>6. \E h : h = [i \in (a - 1)..(n + 1) |-> Body(h, i)]
      <4> HIDE DEF g
      <4> QED BY <3>5
    <3>7. m + 1 \in Nat
      BY <1>1
    <3> QED BY <3>2, <3>6, <3>7
  <2>3. n \in T
    <3> HIDE DEF T
    <3>1. \A m \in 0..n : m \in T
      BY <1>1, <2>1, <2>2, UpTo
    <3> QED BY <3>1, <1>1
  <2>4. n + 1 - n = 1
    BY <1>1
  <2> QED BY <2>3, <2>4
<1>4. DecodeStrKey(data) = F[1]
  BY Zenon DEF DecodeStrKey
<1>5. ASSUME NEW i \in 1..(n + 1) PROVE F[i] = StrStep(data, F, i)
  <2>1. F[i] = Body(F, i)
    <3> HIDE DEF Body, F
    <3> QED BY <1>3
  <2>2. Body(F, i) = StrStep(data, F, i)
    <3> HIDE DEF F
    <3> QED BY DEF StrStep, Grown
  <2> QED BY <2>1, <2>2
<1> HIDE DEF F
<1> QED BY <1>4, <1>5

LEMMA DecodeStrType ==
  ASSUME NEW data \in Seq(Int)
  PROVE  DecodeStrKey(data) \in DecodedStrings
<1> DEFINE n == Len(data)
           Body(f, i) == StrStep(data, f, i)
<1>1. n \in Nat /\ \A i \in 1..n : data[i] \in Int
  OBVIOUS
<1>2. PICK F : DecodeStrKey(data) = F[1] /\ \A i \in 1..(n + 1) : F[i] = Body(F, i)
  BY DecodeStrRounds
<1>3. Failed \in DecodedStrings /\ \A s \in Seq(Int) : Decoded(StrCell(<<>>), s) \in DecodedStrings
  BY DEF Failed, Decoded, StrCell, ErrCell, Cell, DecodedStrings, TypeStr
<1>4. ASSUME NEW ch \in Int, NEW d \in DecodedStrings PROVE Grown(ch, d) \in DecodedStrings
  <2>1. d.cell.str \in Seq(Int) /\ <<ch>> \in Seq(Int)
    BY DEF DecodedStrings
  <2>2. <<ch>> \o d.cell.str \in Seq(Int)
    BY <2>1, ConcatProperties
  <2> QED BY <2>2 DEF DecodedStrings, Grown
<1>5. ASSUME NEW i \in 1..(n + 1), i <= n => F[i + 1] \in DecodedStrings, i < n => F[i + 2] \in DecodedStrings
      PROVE  Body(F, i) \in DecodedStrings
  <2>1. CASE i > n
    BY <1>3, <2>1 DEF StrStep
  <2>2. ASSUME i <= n PROVE SubSeq(data, i + 1, n) \in Seq(Int)
    <3>1. i + 1 \in Int /\ n \in Int /\ \A j \in (i + 1)..n : data[j] \in Int
      BY <1>1, <2>2
    <3> QED BY <3>1, SubSeqProperties
  <2>3. CASE i <= n /\ data[i] = 0
    <3>1. Decoded(StrCell(<<>>), SubSeq(data, i + 1, n)) \in DecodedStrings
      BY <1>3, <2>2, <2>3
    <3> QED BY <1>1, <2>3, <3>1 DEF StrStep
  <2>4. CASE i <= n /\ data[i] # 0 /\ data[i] # 1
    <3>1. Grown(data[i], F[i + 1]) \in DecodedStrings
      BY <1>1, <1>4, <1>5, <2>4
    <3> QED BY <1>1, <2>4, <3>1 DEF StrStep
  <2>5. CASE i <= n /\ data[i] = 1 /\ (i = n \/ data[i + 1] \notin {1, 2})
    BY <1>1, <1>3, <2>5 DEF StrStep
  <2>6. CASE i < n /\ data[i] = 1 /\ data[i + 1] \in {1, 2}
    <3>1. data[i + 1] - 1 \in Int
      BY <2>6
    <3>2. Grown(data[i + 1] - 1, F[i + 2]) \in DecodedStrings
      BY <1>4, <1>5, <2>6, <3>1
    <3> QED BY <1>1, <2>6, <3>2 DEF StrStep
  <2>7. i \in Int /\ n \in Int
    BY <1>1
  <2> HIDE DEF Body, n
  <2> QED BY <2>1, <2>3, <2>4, <2>5, <2>6, <2>7
<1> HIDE DEF Body
<1>6. ASSUME NEW i \in 1..(n + 1), \A j \in 1..(n + 1) : j > i => F[j] \in DecodedStrings
      PROVE  F[i] \in DecodedStrings
  <2>1. F[i] = Body(F, i)
    BY <1>2
  <2>2. i <= n => i + 1 \in 1..(n + 1) /\ i + 1 > i
    BY <1>1
  <2>3. i < n => i + 2 \in 1..(n + 1) /\ i + 2 > i
    BY <1>1
  <2> QED BY <1>5, <1>6, <2>1, <2>2, <2>3
<1>7. 1 \in 1..(n + 1) /\ F[1] \in DecodedStrings
  <2> DEFINE T == {m \in Nat : \A j \in 1..(n + 1) : j > n - m => F[j] \in DecodedStrings}
  <2>1. 0 \in T
    <3>1. F[n + 1] \in DecodedStrings
      <4>1. n + 1 \in 1..(n + 1) /\ \A j \in 1..(n + 1) : ~(j > n + 1)
        BY <1>1
      <4> QED BY <1>6, <4>1
    <3>2. \A j \in 1..(n + 1) : j > n - 0 => j = n + 1
      BY <1>1
    <3> QED BY <3>1, <3>2
  <2>2. ASSUME NEW m \in 0..(n - 1), m \in T PROVE m + 1 \in T
    <3> DEFINE i == n - m
    <3>1. i \in 1..(n + 1) /\ n - (m + 1) = i - 1 /\ m + 1 \in Nat
      BY <1>1
    <3>2. \A j \in 1..(n + 1) : j > i => F[j] \in DecodedStrings
      BY <2>2
    <3> HIDE DEF i
    <3>3. F[i] \in DecodedStrings
      BY <1>6, <3>1, <3>2
    <3>4. \A j \in 1..(n + 1) : j > i - 1 => j = i \/ j > i
      BY <1>1, <3>1
    <3> QED BY <3>1, <3>2, <3>3, <3>4
  <2> HIDE DEF T
  <2>3. \A m \in 0..n : m \in T
    BY <1>1, <2>1, <2>2, UpTo
  <2>4. n \in T /\ 1 \in 1..(n + 1) /\ 1 > n - n
    BY <1>1, <2>3
  <2> QED BY <2>4 DEF T
<1> QED BY <1>2, <1>7

LEMMA DecodeKeyType ==
  ASSUME NEW type, NEW data \in Seq(Int), DecodeKey(type, data).ok
  PROVE  DecodeKey(type, data).cell.str \in Seq(Int) /\ DecodeKey(type, data).rest \in Seq(Int)
<1>1. CASE type = TypeStr
  BY <1>1, DecodeStrType DEF DecodeKey, DecodedStrings
<1>2. CASE type # TypeStr
  <2> DEFINE rest == SubSeq(data, IntBytes + 1, Len(data))
             cell == IntCell(Number(SubSeq(data, 1, IntBytes)) - Half)
  <2>1. rest \in Seq(Int)
    <3>1. /\ IntBytes + 1 \in Int /\ Len(data) \in Int
          /\ \A j \in (IntBytes + 1)..Len(data) : data[j] \in Int
      BY CodecAssumption
    <3> QED BY <3>1, SubSeqProperties
  <2>2. cell.str \in Seq(Int)
    BY DEF IntCell, Cell
  <2> HIDE DEF rest, cell
  <2>3. DecodeKey(type, data) = IF Len(data) < IntBytes THEN Failed ELSE Decoded(cell, rest)
    BY <1>2 DEF DecodeKey, rest, cell
  <2> QED BY <2>1, <2>2, <2>3 DEF Failed, Decoded, ErrCell, Cell
<1> QED BY <1>1, <1>2
-----------------------------------------------------------------------------
(* Rows.                                                                   *)

\* The accumulators of Fill, from left to right through n columns.
Rounds(acc, n, schema, row, columns, data, inKey) ==
    /\ acc[0] = [ok |-> TRUE, row |-> row, rest |-> data]
    /\ \A k \in 1..n : acc[k] = FillCell(schema, inKey, acc[k - 1], columns[k])
    /\ Fill(schema, row, columns, data, inKey) = acc[n]

LEMMA FillRounds ==
  ASSUME NEW schema, NEW row, NEW n \in Nat, NEW columns, DOMAIN columns = 1..n, NEW data, NEW inKey
  PROVE  \E acc : Rounds(acc, n, schema, row, columns, data, inKey)
<1> DEFINE base == [ok |-> TRUE, row |-> row, rest |-> data]
           Body(f, s) == IF s = {} THEN base
                         ELSE FillCell(schema, inKey, f[s \ {Max(s)}], columns[Max(s)])
           F == CHOOSE f : f = [s \in SUBSET (1..n) |-> Body(f, s)]
<1>1. F = [s \in SUBSET (1..n) |-> Body(F, s)]
  <2> DEFINE T == {m \in Nat : \E f : f = [s \in SUBSET (1..m) |-> Body(f, s)]}
  <2>1. 0 \in T
    <3> DEFINE e == [s \in SUBSET (1..0) |-> base]
    <3>1. ASSUME NEW s \in SUBSET (1..0) PROVE s = {}
      OBVIOUS
    <3>2. e = [s \in SUBSET (1..0) |-> Body(e, s)]
      BY <3>1
    <3>3. \E f : f = [s \in SUBSET (1..0) |-> Body(f, s)]
      <4> HIDE DEF e, Body
      <4> QED BY <3>2
    <3> HIDE DEF Body
    <3> QED BY <3>3
  <2>2. ASSUME NEW m \in 0..(n - 1), m \in T PROVE m + 1 \in T
    <3>1. PICK f : f = [s \in SUBSET (1..m) |-> Body(f, s)]
      BY <2>2
    <3> DEFINE g == [s \in SUBSET (1..(m + 1)) |-> Body(f, s)]
    <3>0. m \in Nat /\ SUBSET (1..m) \subseteq SUBSET (1..(m + 1))
      OBVIOUS
    <3>2. ASSUME NEW s \in SUBSET (1..m) PROVE f[s] = g[s]
      <4>1. s \in SUBSET (1..(m + 1))
        BY <3>0
      <4> HIDE DEF Body
      <4>2. f[s] = Body(f, s)
        BY <3>1
      <4>3. g[s] = Body(f, s)
        BY <4>1
      <4> QED BY <4>2, <4>3
    <3>3. ASSUME NEW s \in SUBSET (1..(m + 1)) PROVE Body(f, s) = Body(g, s)
      <4>1. CASE s = {}
        BY <4>1
      <4>2. CASE s # {}
        <5>1. s \ {Max(s)} \in SUBSET (1..m)
          BY <3>0, <4>2, WithoutLargest
        <5>2. f[s \ {Max(s)}] = g[s \ {Max(s)}]
          BY <3>2, <5>1
        <5> HIDE DEF g, base
        <5> QED BY Zenon, <4>2, <5>2
      <4> QED BY <4>1, <4>2
    <3>4. g = [s \in SUBSET (1..(m + 1)) |-> Body(g, s)]
      <4> HIDE DEF Body
      <4> QED BY <3>3
    <3>5. \E h : h = [s \in SUBSET (1..(m + 1)) |-> Body(h, s)]
      <4> HIDE DEF g, Body
      <4> QED BY <3>4
    <3> HIDE DEF Body
    <3> QED BY <3>0, <3>5
  <2>3. n \in T
    <3> HIDE DEF T
    <3>1. \A m \in 0..n : m \in T
      BY <2>1, <2>2, UpTo
    <3> QED BY <3>1
  <2> HIDE DEF Body
  <2> QED BY <2>3
<1>2. Fill(schema, row, columns, data, inKey) = F[1..n]
  BY Zenon DEF Fill, FoldLeft, MapThenFoldSet
<1> DEFINE acc == [k \in 0..n |-> F[1..k]]
<1>3. acc[0] = base
  <2>1. 1..0 = {} /\ {} \in SUBSET (1..n) /\ 0 \in 0..n
    OBVIOUS
  <2>2. acc[0] = F[{}]
    <3> HIDE DEF F
    <3> QED BY <2>1
  <2>3. F[{}] = Body(F, {})
    <3> HIDE DEF F, Body
    <3> QED BY <1>1, <2>1
  <2> HIDE DEF F, acc
  <2> QED BY <2>2, <2>3
<1>4. ASSUME NEW k \in 1..n PROVE acc[k] = FillCell(schema, inKey, acc[k - 1], columns[k])
  <2> DEFINE s == 1..k
  <2>1. k \in Nat /\ s \in SUBSET (1..n) /\ s \in SUBSET (1..k) /\ s # {} /\ k \in s
    OBVIOUS
  <2>2. Max(s) = k
    <3>1. Max(s) \in s /\ Max(s) >= k
      BY <2>1, LargestOf
    <3> QED BY <3>1
  <2>3. s \ {k} = 1..(k - 1) /\ k - 1 \in 0..n /\ k \in 0..n
    OBVIOUS
  <2>4. F[s] = Body(F, s)
    <3> HIDE DEF F, Body, s
    <3> QED BY <1>1, <2>1
  <2>5. acc[k] = F[s] /\ acc[k - 1] = F[1..(k - 1)]
    <3> HIDE DEF F
    <3> QED BY <2>3
  <2> HIDE DEF F, acc, s, base
  <2>6. Body(F, s) = FillCell(schema, inKey, F[s \ {k}], columns[k])
    BY <2>1, <2>2
  <2> QED BY <2>3, <2>4, <2>5, <2>6
<1>5. acc[n] = F[1..n]
  <2> HIDE DEF F
  <2> QED OBVIOUS
<1>6. Rounds(acc, n, schema, row, columns, data, inKey)
  <2> HIDE DEF F, acc
  <2> QED BY <1>2, <1>3, <1>4, <1>5 DEF Rounds
<1> HIDE DEF acc
<1> QED BY <1>6

IsAcc(acc) == acc = [ok |-> acc.ok, row |-> acc.row, rest |-> acc.rest]

\* What a round decodes, and what it makes of an accumulator.
NextCell(schema, inKey, acc, i) ==
    IF inKey THEN DecodeKey(schema.cols[i].type, Tail(acc.rest))
             ELSE DecodeVal(schema.cols[i].type, acc.rest)

Filled(schema, inKey, acc, i, new) ==
    LET d == NextCell(schema, inKey, acc, i)
    IN  /\ IsAcc(new)
        /\ \/ new.row = acc.row /\ ~new.ok
           \/ new.row = acc.row /\ ~inKey
           \/ /\ acc.ok /\ d.ok /\ (inKey => acc.rest # <<>>) /\ (~inKey => ~IsPKey(schema, i))
              /\ new.row = [acc.row EXCEPT ![i] = d.cell] /\ new.rest = d.rest

LEMMA FillCellCases ==
  ASSUME NEW schema, NEW inKey \in BOOLEAN, NEW acc, IsAcc(acc), NEW i
  PROVE  Filled(schema, inKey, acc, i, FillCell(schema, inKey, acc, i))
<1> DEFINE d == NextCell(schema, inKey, acc, i)
           new == FillCell(schema, inKey, acc, i)
<1>1. new = IF ~inKey /\ IsPKey(schema, i) THEN acc
            ELSE IF ~acc.ok \/ (inKey /\ acc.rest = <<>>) \/ ~d.ok
            THEN [acc EXCEPT !.ok = FALSE]
            ELSE [ok |-> TRUE, row |-> [acc.row EXCEPT ![i] = d.cell], rest |-> d.rest]
  BY DEF FillCell, NextCell
<1> HIDE DEF d, new
<1>2. CASE ~inKey /\ IsPKey(schema, i)
  BY <1>1, <1>2 DEF Filled, new
<1>3. CASE ~(~inKey /\ IsPKey(schema, i)) /\ (~acc.ok \/ (inKey /\ acc.rest = <<>>) \/ ~d.ok)
  <2>1. new = [acc EXCEPT !.ok = FALSE]
    BY <1>1, <1>3
  <2>2. new = [ok |-> FALSE, row |-> acc.row, rest |-> acc.rest]
    BY <2>1 DEF IsAcc
  <2>3. IsAcc(new) /\ new.row = acc.row /\ ~new.ok
    BY <2>2 DEF IsAcc
  <2> QED BY <2>3 DEF Filled, new
<1>4. CASE ~(~inKey /\ IsPKey(schema, i)) /\ ~(~acc.ok \/ (inKey /\ acc.rest = <<>>) \/ ~d.ok)
  <2>1. new = [ok |-> TRUE, row |-> [acc.row EXCEPT ![i] = d.cell], rest |-> d.rest]
    BY <1>1, <1>4
  <2>2. IsAcc(new) /\ new.row = [acc.row EXCEPT ![i] = d.cell] /\ new.rest = d.rest
    BY <2>1 DEF IsAcc
  <2> QED BY <1>4, <2>2 DEF Filled, d, new
<1> QED BY <1>2, <1>3, <1>4

\* What is decoded from a key fits.
LEMMA FillKeyFits ==
  ASSUME NEW schema, SchemaFits(schema), NEW row, DOMAIN row = DOMAIN schema.cols, NEW data \in Seq(Int),
         Fill(schema, row, schema.pkey, data, TRUE).ok
  PROVE  RowFits(schema, Fill(schema, row, schema.pkey, data, TRUE).row)
<1> DEFINE n == Len(schema.pkey)
           pkey == schema.pkey
           Fits(a, k) == /\ DOMAIN a.row = DOMAIN schema.cols
                         /\ a.rest \in Seq(Int)
                         /\ \A i \in 1..k : a.row[pkey[i]].str \in Seq(Int)
<1>1. n \in Nat /\ DOMAIN pkey = 1..n /\ \A i \in 1..n : pkey[i] \in DOMAIN schema.cols
  BY DEF SchemaFits
<1>2. PICK acc : Rounds(acc, n, schema, row, pkey, data, TRUE)
  <2> HIDE DEF n
  <2> QED BY <1>1, FillRounds
<1> DEFINE T == {k \in Nat : IsAcc(acc[k]) /\ (acc[k].ok => Fits(acc[k], k))}
<1>3. 0 \in T
  BY <1>2 DEF IsAcc, Rounds
<1>4. ASSUME NEW m \in 0..(n - 1), m \in T PROVE m + 1 \in T
  <2> DEFINE k == m + 1
             old == acc[m]
             new == acc[k]
             p == pkey[k]
             d == DecodeKey(schema.cols[p].type, Tail(old.rest))
  <2>1. k \in 1..n /\ k - 1 = m /\ k \in Nat
    BY <1>1
  <2>2. p \in DOMAIN schema.cols /\ IsAcc(old) /\ (old.ok => Fits(old, m))
    BY <1>1, <1>4, <2>1
  <2>3. new = FillCell(schema, TRUE, old, p)
    BY <1>2, <2>1 DEF Rounds
  <2>0. d = NextCell(schema, TRUE, old, p)
    BY DEF NextCell
  <2> HIDE DEF k, old, new, p, d, Fits
  <2>4. /\ IsAcc(new)
        /\ \/ ~new.ok
           \/ /\ old.ok /\ d.ok /\ old.rest # <<>>
              /\ new.row = [old.row EXCEPT ![p] = d.cell] /\ new.rest = d.rest
    <3>1. TRUE \in BOOLEAN /\ FALSE \in BOOLEAN
      OBVIOUS
    <3>2. Filled(schema, TRUE, old, p, new)
      BY <2>2, <2>3, <3>1, FillCellCases
    <3> QED BY <2>0, <3>2 DEF Filled
  <2>5. ASSUME new.ok PROVE Fits(new, k)
    <3>1. /\ old.rest \in Seq(Int) /\ old.rest # <<>> /\ d.ok
          /\ DOMAIN old.row = DOMAIN schema.cols /\ \A i \in 1..m : old.row[pkey[i]].str \in Seq(Int)
          /\ new.row = [old.row EXCEPT ![p] = d.cell] /\ new.rest = d.rest
      BY <2>2, <2>4, <2>5 DEF Fits
    <3>2. Tail(old.rest) \in Seq(Int)
      BY <3>1, HeadTailProperties
    <3>3. d.cell.str \in Seq(Int) /\ d.rest \in Seq(Int)
      BY <3>1, <3>2, DecodeKeyType DEF d
    <3>4. ASSUME NEW i \in 1..k PROVE new.row[pkey[i]].str \in Seq(Int)
      <4>1. CASE pkey[i] = p
        <5>1. new.row[pkey[i]] = d.cell
          BY <2>2, <3>1, <4>1
        <5> QED BY <3>3, <5>1
      <4>2. CASE pkey[i] # p
        <5>1. i \in 1..m /\ i \in 1..n
          <6>1. i # k
            BY <4>2 DEF p
          <6> QED BY <1>1, <2>1, <6>1 DEF k
        <5>2. pkey[i] \in DOMAIN schema.cols
          BY <1>1, <5>1
        <5>3. new.row[pkey[i]] = old.row[pkey[i]]
          BY <3>1, <4>2, <5>2
        <5> QED BY <3>1, <5>1, <5>3
      <4> QED BY <4>1, <4>2
    <3>5. DOMAIN new.row = DOMAIN schema.cols
      BY <3>1
    <3> QED BY <3>1, <3>3, <3>4, <3>5 DEF Fits
  <2>6. IsAcc(acc[k]) /\ (acc[k].ok => Fits(acc[k], k))
    BY <2>4, <2>5 DEF new
  <2> QED BY <2>1, <2>6 DEF k
<1>5. n \in T
  <2> HIDE DEF T
  <2>1. \A m \in 0..n : m \in T
    BY <1>1, <1>3, <1>4, UpTo
  <2> QED BY <1>1, <2>1
<1>6. Fits(acc[n], n)
  <2> HIDE DEF Fits
  <2> QED BY <1>2, <1>5 DEF Rounds
<1>7. acc[n] = Fill(schema, row, schema.pkey, data, TRUE)
  BY <1>2 DEF Rounds
<1> DEFINE whole == Fill(schema, row, schema.pkey, data, TRUE)
<1> HIDE DEF whole
<1>8. RowFits(schema, whole.row)
  BY <1>1, <1>6, <1>7 DEF RowFits, whole
<1> QED BY <1>8 DEF whole

\* What is decoded from a value leaves the key alone.
LEMMA FillValueFits ==
  ASSUME NEW schema, SchemaFits(schema), NEW row, RowFits(schema, row), NEW data
  PROVE  RowFits(schema, Fill(schema, row, [i \in DOMAIN schema.cols |-> i], data, FALSE).row)
<1> DEFINE n == Len(schema.cols)
           columns == [i \in DOMAIN schema.cols |-> i]
<1>1. /\ n \in Nat /\ DOMAIN schema.cols = 1..n /\ DOMAIN columns = 1..n
      /\ \A i \in DOMAIN schema.pkey : schema.pkey[i] \in 1..n
  BY DEF SchemaFits
<1>2. \A k \in 1..n : columns[k] = k
  BY <1>1
<1> HIDE DEF columns
<1>3. PICK acc : Rounds(acc, n, schema, row, columns, data, FALSE)
  <2> HIDE DEF n
  <2> QED BY <1>1, FillRounds
<1> DEFINE T == {k \in Nat : IsAcc(acc[k]) /\ RowFits(schema, acc[k].row)}
<1>4. 0 \in T
  BY <1>3 DEF IsAcc, Rounds
<1>5. ASSUME NEW m \in 0..(n - 1), m \in T PROVE m + 1 \in T
  <2> DEFINE k == m + 1
             old == acc[m]
             new == acc[k]
             d == DecodeVal(schema.cols[k].type, old.rest)
  <2>1. k \in 1..n /\ k - 1 = m /\ k \in Nat
    BY <1>1
  <2>2. new = FillCell(schema, FALSE, old, k)
    BY <1>2, <1>3, <2>1 DEF Rounds
  <2>3. IsAcc(old) /\ RowFits(schema, old.row)
    BY <1>5
  <2>0. d = NextCell(schema, FALSE, old, k)
    BY DEF NextCell
  <2> HIDE DEF k, old, new, d
  <2>4. /\ IsAcc(new)
        /\ \/ new.row = old.row
           \/ ~IsPKey(schema, k) /\ new.row = [old.row EXCEPT ![k] = d.cell]
    <3>1. TRUE \in BOOLEAN /\ FALSE \in BOOLEAN
      OBVIOUS
    <3>2. Filled(schema, FALSE, old, k, new)
      BY <2>2, <2>3, <3>1, FillCellCases
    <3> QED BY <2>0, <3>2 DEF Filled
  <2> DEFINE was == old.row
             is == new.row
             cell == d.cell
  <2>5. is = was \/ (~IsPKey(schema, k) /\ is = [was EXCEPT ![k] = cell])
    BY <2>4
  <2>6. RowFits(schema, was)
    BY <2>3
  <2> HIDE DEF was, is, cell
  <2>7. ASSUME ~IsPKey(schema, k), is = [was EXCEPT ![k] = cell] PROVE RowFits(schema, is)
    <3>1. ASSUME NEW i \in DOMAIN schema.pkey PROVE schema.pkey[i] # k
      BY <2>7 DEF IsPKey, ToSet
    <3>2. ASSUME NEW i \in DOMAIN schema.pkey PROVE is[schema.pkey[i]] = was[schema.pkey[i]]
      <4>1. schema.pkey[i] \in DOMAIN was
        BY <1>1, <2>6 DEF RowFits
      <4> QED BY <2>7, <3>1, <4>1
    <3>3. DOMAIN is = DOMAIN was
      BY <2>7
    <3> QED BY <2>6, <3>2, <3>3 DEF RowFits
  <2>8. RowFits(schema, is)
    BY <2>5, <2>6, <2>7
  <2> QED BY <2>1, <2>4, <2>8 DEF k, new, is
<1>6. n \in T
  <2> HIDE DEF T
  <2>1. \A m \in 0..n : m \in T
    BY <1>1, <1>4, <1>5, UpTo
  <2> QED BY <1>1, <2>1
<1> QED BY <1>3, <1>6 DEF columns, Rounds

\* A row that is read fits its schema.
LEMMA DecodeFits ==
  ASSUME NEW schema, SchemaFits(schema), NEW key \in Seq(Int), NEW val, DecodeRow(schema, key, val).ok
  PROVE  RowFits(schema, DecodeRow(schema, key, val).row)
<1> DEFINE body == SubSeq(key, Len(TablePrefix(schema)) + 1, Len(key))
           keyed == Fill(schema, NewRow(schema), schema.pkey, body, TRUE)
           whole == Fill(schema, keyed.row, [i \in DOMAIN schema.cols |-> i], val, FALSE)
<1>1. body \in Seq(Int)
  <2> DEFINE p == Len(TablePrefix(schema))
  <2>1. p \in Nat
    <3>1. NameBytes[schema.table] \in Seq(Int)
      BY NameBytesType DEF SchemaFits
    <3>2. Append(NameBytes[schema.table], 0) \in Seq(Int)
      BY <3>1
    <3> QED BY <3>2, LenProperties DEF TablePrefix
  <2> HIDE DEF p
  <2>2. p + 1 \in Int /\ Len(key) \in Int /\ \A j \in (p + 1)..Len(key) : key[j] \in Int
    BY <2>1
  <2>3. SubSeq(key, p + 1, Len(key)) \in Seq(Int)
    BY <2>2, SubSeqProperties
  <2> QED BY <2>3 DEF p
<1>2. DOMAIN NewRow(schema) = DOMAIN schema.cols
  BY DEF NewRow
<1>3. DecodeRow(schema, key, val) = IF keyed.ok THEN whole ELSE keyed
  BY DEF DecodeRow
<1> HIDE DEF body
<1>4. keyed.ok
  <2> HIDE DEF keyed, whole
  <2> QED BY <1>3
<1>5. RowFits(schema, keyed.row)
  BY <1>1, <1>2, <1>4, FillKeyFits
<1> HIDE DEF keyed
<1>6. RowFits(schema, whole.row)
  BY <1>5, FillValueFits
<1> QED BY <1>3, <1>4, <1>6
-----------------------------------------------------------------------------
(* The order of keys.                                                      *)

\* One key comes before another at its end or at the first difference.
Before(a, b, i) ==
    /\ i \in 1..Len(b) /\ i <= Len(a) + 1
    /\ \A j \in 1..(i - 1) : a[j] = b[j]
    /\ i <= Len(a) => a[i] < b[i]

LEMMA LessAt ==
  ASSUME NEW a \in Seq(Int), NEW b \in Seq(Int)
  PROVE  BytesLess(a, b) <=> \E i \in Int : Before(a, b, i)
<1> DEFINE m == Len(a)
           n == Len(b)
<1>0. m \in Nat /\ n \in Nat /\ DOMAIN a = 1..m /\ DOMAIN b = 1..n
  OBVIOUS
<1>1. ASSUME m <= n PROVE SubSeq(a, 1, m) = a /\ Len(SubSeq(b, 1, m)) = m
                          /\ \A j \in 1..m : SubSeq(b, 1, m)[j] = b[j]
  BY <1>1
<1>2. ASSUME IsStrictPrefix(a, b) PROVE Before(a, b, m + 1)
  <2>1. m <= n /\ SubSeq(a, 1, m) = SubSeq(b, 1, m) /\ a # b
    BY <1>2 DEF IsStrictPrefix, IsPrefix
  <2>2. \A j \in 1..m : a[j] = b[j]
    BY <1>1, <2>1
  <2>3. ASSUME m = n PROVE FALSE
    <3>1. Len(a) = Len(b) /\ \A j \in 1..Len(a) : a[j] = b[j]
      BY <2>2, <2>3
    <3> HIDE DEF m, n
    <3>2. a = b
      BY <3>1, SeqEqual
    <3> QED BY <2>1, <3>2
  <2>4. m + 1 \in 1..n /\ (m + 1) - 1 = m /\ ~(m + 1 <= m)
    <3> HIDE DEF m, n
    <3> QED BY <1>0, <2>1, <2>3
  <2> HIDE DEF m
  <2>5. /\ \A j \in 1..((m + 1) - 1) : a[j] = b[j]
        /\ m + 1 <= m + 1
    BY <1>0, <2>2, <2>4
  <2> QED BY <2>4, <2>5 DEF Before, m
<1>3. ASSUME Before(a, b, m + 1) PROVE IsStrictPrefix(a, b)
  <2>1. m + 1 \in 1..n /\ \A j \in 1..m : a[j] = b[j]
    BY <1>0, <1>3 DEF Before
  <2>2. m <= n /\ m # n
    <3> HIDE DEF m, n
    <3> QED BY <1>0, <2>1
  <2>3. SubSeq(b, 1, m) \in Seq(Int)
    <3>1. 1 \in Int /\ m \in Int /\ \A j \in 1..m : b[j] \in Int
      <4> HIDE DEF m, n
      <4> QED BY <1>0, <2>2
    <3> HIDE DEF m
    <3> QED BY <3>1, SubSeqProperties
  <2>4. a = SubSeq(b, 1, m)
    <3> DEFINE c == SubSeq(b, 1, m)
    <3>1. c \in Seq(Int) /\ Len(a) = Len(c) /\ \A j \in 1..Len(a) : a[j] = c[j]
      BY <1>1, <2>1, <2>2, <2>3
    <3> HIDE DEF c, m, n
    <3>2. a = c
      BY <3>1, SeqEqual
    <3> QED BY <3>2 DEF c
  <2> QED BY <1>1, <2>2, <2>4 DEF IsStrictPrefix, IsPrefix
<1>4. ASSUME NEW i \in DOMAIN a \cap DOMAIN b, a[i] < b[i], \A j \in 1..(i - 1) : a[j] = b[j]
      PROVE  Before(a, b, i) /\ i \in Int
  BY <1>0, <1>4 DEF Before
<1>5. ASSUME NEW i \in Int, Before(a, b, i), i # m + 1
      PROVE  i \in DOMAIN a \cap DOMAIN b /\ a[i] < b[i] /\ \A j \in 1..(i - 1) : a[j] = b[j]
  BY <1>0, <1>5 DEF Before
<1>6. m + 1 \in Int
  BY <1>0
<1> HIDE DEF m
<1>7. BytesLess(a, b) => \E i \in Int : Before(a, b, i)
  BY <1>2, <1>4, <1>6, Zenon DEF BytesLess
<1>8. ASSUME NEW i \in Int, Before(a, b, i) PROVE BytesLess(a, b)
  <2>1. CASE i = m + 1
    BY <1>3, <1>8, <2>1, Zenon DEF BytesLess
  <2>2. CASE i # m + 1
    BY <1>5, <1>8, <2>2, Zenon DEF BytesLess
  <2> QED BY <2>1, <2>2
<1> QED BY <1>7, <1>8

LEMMA LessIrreflexive == \A a \in Seq(Int) : ~BytesLess(a, a)
<1> SUFFICES ASSUME NEW a \in Seq(Int), BytesLess(a, a) PROVE FALSE
  OBVIOUS
<1>1. PICK i \in Int : Before(a, a, i)
  BY LessAt
<1>2. i \in 1..Len(a) /\ a[i] < a[i]
  BY <1>1 DEF Before
<1>3. a[i] \in Int
  BY <1>2
<1> QED BY <1>2, <1>3

LEMMA LessTransitive ==
  ASSUME NEW a \in Seq(Int), NEW b \in Seq(Int), NEW c \in Seq(Int), BytesLess(a, b), BytesLess(b, c)
  PROVE  BytesLess(a, c)
<1>1. PICK i \in Int : Before(a, b, i)
  BY LessAt
<1>2. PICK k \in Int : Before(b, c, k)
  BY LessAt
<1>3. /\ Len(a) \in Nat /\ Len(b) \in Nat /\ Len(c) \in Nat
      /\ \A j \in 1..Len(a) : a[j] \in Int
      /\ \A j \in 1..Len(b) : b[j] \in Int
      /\ \A j \in 1..Len(c) : c[j] \in Int
  OBVIOUS
<1>4. CASE i <= k
  <2>1. i \in 1..Len(c) /\ i <= Len(a) + 1 /\ i \in 1..Len(b)
    BY <1>1, <1>2, <1>3, <1>4 DEF Before
  <2>2. ASSUME NEW j \in 1..(i - 1) PROVE a[j] = c[j]
    <3>1. j \in 1..(k - 1)
      BY <1>4, <2>1
    <3> QED BY <1>1, <1>2, <3>1 DEF Before
  <2>3. ASSUME i <= Len(a) PROVE a[i] < c[i]
    <3>1. a[i] \in Int /\ b[i] \in Int /\ c[i] \in Int /\ a[i] < b[i]
      BY <1>1, <1>3, <2>1, <2>3 DEF Before
    <3>2. CASE i < k
      <4>1. i \in 1..(k - 1)
        BY <2>1, <3>2
      <4>2. b[i] = c[i]
        BY <1>2, <4>1 DEF Before
      <4> QED BY <3>1, <4>2
    <3>3. CASE i = k
      <4>1. b[i] < c[i]
        BY <1>2, <2>1, <3>3 DEF Before
      <4> QED BY <3>1, <4>1
    <3> QED BY <1>4, <3>2, <3>3
  <2>4. Before(a, c, i)
    BY <2>1, <2>2, <2>3 DEF Before
  <2> QED BY <2>4, LessAt
<1>5. CASE k < i
  <2>1. k \in 1..Len(c) /\ k \in 1..(i - 1) /\ k \in 1..Len(b) /\ k \in 1..Len(a)
    BY <1>1, <1>2, <1>3, <1>5 DEF Before
  <2>2. ASSUME NEW j \in 1..(k - 1) PROVE a[j] = c[j]
    <3>1. j \in 1..(i - 1)
      BY <1>5, <2>1
    <3> QED BY <1>1, <1>2, <3>1 DEF Before
  <2>3. a[k] < c[k]
    <3>1. a[k] = b[k] /\ b[k] < c[k]
      BY <1>1, <1>2, <2>1 DEF Before
    <3> QED BY <3>1
  <2>4. Before(a, c, k)
    BY <2>1, <2>2, <2>3 DEF Before
  <2> QED BY <2>4, LessAt
<1> QED BY <1>4, <1>5

\* Two sequences of bytes differ at a place that both have, the first before
\* the second there.
Splits(a, b, i) ==
    /\ i \in 1..Len(a) /\ i <= Len(b) /\ a[i] < b[i]
    /\ \A j \in 1..(i - 1) : a[j] = b[j]

LEMMA ConcatAt ==
  ASSUME NEW S, NEW a \in Seq(S), NEW b \in Seq(S)
  PROVE  /\ a \o b \in Seq(S) /\ Len(a) \in Nat /\ Len(b) \in Nat /\ Len(a \o b) = Len(a) + Len(b)
         /\ \A i \in 1..Len(a) : (a \o b)[i] = a[i]
         /\ \A i \in 1..Len(b) : (a \o b)[Len(a) + i] = b[i]
<1>1. /\ a \o b \in Seq(S) /\ Len(a) \in Nat /\ Len(b) \in Nat /\ Len(a \o b) = Len(a) + Len(b)
      /\ \A i \in 1..(Len(a) + Len(b)) : (a \o b)[i] = IF i <= Len(a) THEN a[i] ELSE b[i - Len(a)]
  BY ConcatProperties, LenProperties
<1>2. ASSUME NEW i \in 1..Len(a) PROVE (a \o b)[i] = a[i]
  <2>1. i \in 1..(Len(a) + Len(b)) /\ i <= Len(a)
    BY <1>1
  <2> QED BY <1>1, <2>1
<1>3. ASSUME NEW i \in 1..Len(b) PROVE (a \o b)[Len(a) + i] = b[i]
  <2>1. Len(a) + i \in 1..(Len(a) + Len(b)) /\ ~(Len(a) + i <= Len(a)) /\ (Len(a) + i) - Len(a) = i
    BY <1>1
  <2> QED BY <1>1, <2>1
<1> QED BY <1>1, <1>2, <1>3

\* What follows does not matter.
LEMMA SplitsAhead ==
  ASSUME NEW a \in Seq(Int), NEW b \in Seq(Int), NEW u \in Seq(Int), NEW v \in Seq(Int),
         NEW i \in Int, Splits(a, b, i)
  PROVE  Splits(a \o u, b \o v, i)
<1> DEFINE x == a \o u
           y == b \o v
<1>1. /\ Len(a) \in Nat /\ Len(b) \in Nat /\ Len(u) \in Nat /\ Len(v) \in Nat
      /\ Len(x) = Len(a) + Len(u) /\ \A j \in 1..Len(a) : x[j] = a[j]
      /\ Len(y) = Len(b) + Len(v) /\ \A j \in 1..Len(b) : y[j] = b[j]
  BY ConcatAt
<1>2. /\ i \in 1..Len(a) /\ i <= Len(b) /\ a[i] < b[i]
      /\ \A j \in 1..(i - 1) : a[j] = b[j]
  BY DEF Splits
<1> HIDE DEF x, y
<1>3. i \in 1..Len(x) /\ i <= Len(y) /\ i \in 1..Len(b)
  BY <1>1, <1>2
<1>4. x[i] < y[i]
  BY <1>1, <1>2, <1>3
<1>5. ASSUME NEW j \in 1..(i - 1) PROVE x[j] = y[j]
  <2>1. j \in 1..Len(a) /\ j \in 1..Len(b)
    BY <1>1, <1>2
  <2> QED BY <1>1, <1>2, <2>1
<1>6. Splits(x, y, i)
  BY <1>3, <1>4, <1>5 DEF Splits
<1> QED BY <1>6 DEF x, y

\* Nor does what both begin with.
LEMMA SplitsBehind ==
  ASSUME NEW a \in Seq(Int), NEW b \in Seq(Int), NEW p \in Seq(Int),
         NEW i \in Int, Splits(a, b, i)
  PROVE  Splits(p \o a, p \o b, Len(p) + i)
<1> DEFINE x == p \o a
           y == p \o b
           n == Len(p)
           k == n + i
<1>1. /\ Len(a) \in Nat /\ Len(b) \in Nat /\ n \in Nat
      /\ Len(x) = n + Len(a) /\ Len(y) = n + Len(b)
      /\ \A j \in 1..n : x[j] = p[j] /\ y[j] = p[j]
      /\ \A j \in 1..Len(a) : x[n + j] = a[j]
      /\ \A j \in 1..Len(b) : y[n + j] = b[j]
  BY ConcatAt
<1>2. /\ i \in 1..Len(a) /\ i <= Len(b) /\ a[i] < b[i]
      /\ \A j \in 1..(i - 1) : a[j] = b[j]
  BY DEF Splits
<1> HIDE DEF x, y, n
<1>3. k \in 1..Len(x) /\ k <= Len(y) /\ i \in 1..Len(b)
  BY <1>1, <1>2
<1>4. x[k] < y[k]
  BY <1>1, <1>2, <1>3
<1>5. ASSUME NEW j \in 1..(k - 1) PROVE x[j] = y[j]
  <2>1. CASE j <= n
    <3>1. j \in 1..n
      BY <1>1, <2>1
    <3> QED BY <1>1, <3>1
  <2>2. CASE j > n
    <3> DEFINE m == j - n
    <3>1. m \in 1..(i - 1) /\ m \in 1..Len(a) /\ m \in 1..Len(b) /\ n + m = j
      BY <1>1, <1>2, <2>2
    <3> HIDE DEF m
    <3> QED BY <1>1, <1>2, <3>1
  <2> QED BY <1>1, <2>1, <2>2
<1> HIDE DEF k
<1>6. Splits(x, y, k)
  BY <1>3, <1>4, <1>5 DEF Splits
<1> QED BY <1>6 DEF x, y, k, n

\* Sequences that differ so are in this order and in no other.
LEMMA SplitsLess ==
  ASSUME NEW a \in Seq(Int), NEW b \in Seq(Int), NEW i \in Int, Splits(a, b, i)
  PROVE  BytesLess(a, b) /\ ~BytesLess(b, a)
<1>1. /\ i \in 1..Len(a) /\ i <= Len(b) /\ a[i] < b[i] /\ Len(a) \in Nat /\ Len(b) \in Nat
      /\ \A j \in 1..(i - 1) : a[j] = b[j]
  BY DEF Splits
<1>2. Before(a, b, i)
  BY <1>1 DEF Before
<1>3. BytesLess(a, b)
  BY <1>2, LessAt
<1>4. ASSUME BytesLess(b, a) PROVE FALSE
  <2>1. BytesLess(a, a)
    BY <1>3, <1>4, LessTransitive
  <2> QED BY <2>1, LessIrreflexive
<1> QED BY <1>3, <1>4

\* A partial result is what the whole begins with.
Extends(whole, part) == \E u \in Seq(Int) : whole = part \o u

LEMMA JoinedAhead ==
  ASSUME NEW m \in Nat, NEW s, NEW f, NEW i \in 0..m,
         Joined(s, m, f), \A k \in 1..m : s[k] \in Seq(Int), \A k \in 0..m : f[k] \in Seq(Int)
  PROVE  Extends(f[m], f[i])
<1> DEFINE T == {k \in 0..(m - i) : \E u \in Seq(Int) : f[i + k] = f[i] \o u}
<1>1. 0 \in T
  <2>1. i + 0 = i /\ 0 \in 0..(m - i)
    OBVIOUS
  <2>2. f[i] \in Seq(Int) /\ <<>> \in Seq(Int)
    OBVIOUS
  <2>3. f[i] = f[i] \o <<>>
    BY <2>2, ConcatEmptySeq
  <2>4. f[i + 0] = f[i] \o <<>>
    BY <2>1, <2>3
  <2>5. \E u \in Seq(Int) : f[i + 0] = f[i] \o u
    BY <2>2, <2>4
  <2> QED BY <2>1, <2>5
<1>2. ASSUME NEW k \in 0..((m - i) - 1), k \in T PROVE k + 1 \in T
  <2> DEFINE q == i + k
  <2>1. q + 1 \in 1..m /\ (q + 1) - 1 = q /\ i + (k + 1) = q + 1 /\ k + 1 \in 0..(m - i)
    OBVIOUS
  <2>2. PICK u \in Seq(Int) : f[q] = f[i] \o u
    BY <1>2
  <2> HIDE DEF q
  <2>3. s[q + 1] \in Seq(Int) /\ f[q + 1] = f[q] \o s[q + 1] /\ f[i] \in Seq(Int)
    BY <2>1 DEF Joined
  <2>4. u \o s[q + 1] \in Seq(Int)
    BY <2>3, ConcatProperties
  <2>5. f[q + 1] = f[i] \o (u \o s[q + 1])
    <3> DEFINE a == f[i]
               b == s[q + 1]
    <3>0. a \in Seq(Int) /\ b \in Seq(Int)
      BY <2>3
    <3> HIDE DEF a, b
    <3>1. (a \o u) \o b = a \o (u \o b)
      BY <3>0, ConcatAssociative
    <3> QED BY <2>2, <2>3, <3>1 DEF a, b
  <2>6. \E v \in Seq(Int) : f[i + (k + 1)] = f[i] \o v
    BY <2>1, <2>4, <2>5
  <2> QED BY <2>1, <2>6
<1>3. m - i \in Nat /\ m - i \in 0..(m - i) /\ i + (m - i) = m
  OBVIOUS
<1>4. m - i \in T
  <2> HIDE DEF T
  <2>1. \A k \in 0..(m - i) : k \in T
    BY <1>1, <1>2, <1>3, UpTo
  <2> QED BY <1>3, <2>1
<1> QED BY <1>3, <1>4 DEF Extends

\* Sequences that begin alike are joined alike.
LEMMA JoinedSame ==
  ASSUME NEW m \in Nat, NEW n \in Nat, NEW s, NEW t, NEW f, NEW g, Joined(s, m, f), Joined(t, n, g),
         NEW i \in Nat, i <= m, i <= n, \A j \in 1..i : s[j] = t[j]
  PROVE  f[i] = g[i]
<1> DEFINE T == {k \in 0..i : f[k] = g[k]}
<1>1. 0 \in T
  <2>1. f[0] = g[0]
    BY DEF Joined
  <2>2. 0 \in 0..i
    OBVIOUS
  <2> QED BY <2>1, <2>2
<1>2. ASSUME NEW k \in 0..(i - 1), k \in T PROVE k + 1 \in T
  <2>1. k + 1 \in 1..m /\ k + 1 \in 1..n /\ (k + 1) - 1 = k /\ k + 1 \in 1..i
    OBVIOUS
  <2>2. f[k + 1] = f[k] \o s[k + 1] /\ g[k + 1] = g[k] \o t[k + 1]
    BY <2>1 DEF Joined
  <2>3. s[k + 1] = t[k + 1] /\ f[k] = g[k]
    BY <1>2, <2>1
  <2>4. f[k + 1] = g[k + 1]
    BY <2>2, <2>3
  <2>5. k + 1 \in 0..i
    BY <2>1
  <2> QED BY <2>4, <2>5
<1> HIDE DEF T
<1>3. \A k \in 0..i : k \in T
  BY <1>1, <1>2, UpTo
<1> QED BY <1>3 DEF T

\* One part more.
LEMMA FlattenAppend ==
  ASSUME NEW S, NEW s \in Seq(Seq(S)), NEW x \in Seq(S)
  PROVE  FlattenSeq(Append(s, x)) = FlattenSeq(s) \o x
<1> DEFINE n == Len(s)
           t == Append(s, x)
<1>1. n \in Nat /\ t \in Seq(Seq(S)) /\ Len(t) = n + 1 /\ t[n + 1] = x /\ \A j \in 1..n : s[j] = t[j]
  BY AppendProperties
<1> HIDE DEF t
<1>2. PICK f : Joined(s, n, f)
  BY FlattenRounds
<1>3. PICK g : Joined(t, n + 1, g)
  BY <1>1, FlattenRounds
<1> HIDE DEF n
<1>4. f[n] = g[n]
  <2>1. n + 1 \in Nat /\ n <= n /\ n <= n + 1
    BY <1>1
  <2> QED BY <1>1, <1>2, <1>3, <2>1, JoinedSame
<1>5. g[n + 1] = g[n] \o x
  <2>1. n + 1 \in 1..(n + 1) /\ (n + 1) - 1 = n
    BY <1>1
  <2> QED BY <1>1, <1>3, <2>1 DEF Joined
<1> QED BY <1>2, <1>3, <1>4, <1>5 DEF Joined, t

\* Two concatenations whose first different parts split are in their order.
LEMMA FlattenSplits ==
  ASSUME NEW s \in Seq(Seq(Int)), NEW t \in Seq(Seq(Int)),
         NEW i \in 1..Len(s), i <= Len(t), \A j \in 1..(i - 1) : s[j] = t[j],
         NEW x \in Int, Splits(s[i], t[i], x)
  PROVE  \E y \in Int : Splits(FlattenSeq(s), FlattenSeq(t), y)
<1> DEFINE m == Len(s)
           n == Len(t)
<1>1. m \in Nat /\ n \in Nat /\ i \in 1..m /\ i \in 1..n
  OBVIOUS
<1>2. (\A k \in 1..m : s[k] \in Seq(Int)) /\ \A k \in 1..n : t[k] \in Seq(Int)
  OBVIOUS
<1>3. PICK f : Joined(s, m, f) /\ \A k \in 0..m : f[k] \in Seq(Int)
  BY FlattenRounds
<1>4. PICK g : Joined(t, n, g) /\ \A k \in 0..n : g[k] \in Seq(Int)
  BY FlattenRounds
<1> HIDE DEF m, n
<1>5. f[i - 1] = g[i - 1]
  <2>1. i - 1 \in Nat /\ i - 1 <= m /\ i - 1 <= n
    BY <1>1
  <2> QED BY <1>1, <1>3, <1>4, <2>1, JoinedSame
<1>6. \E y \in Int : Splits(f[i], g[i], y)
  <2> DEFINE p == f[i - 1]
  <2>1. i - 1 \in 0..m /\ i \in 1..m /\ i \in 1..n
    BY <1>1
  <2>2. p \in Seq(Int) /\ s[i] \in Seq(Int) /\ t[i] \in Seq(Int) /\ f[i] = p \o s[i] /\ g[i] = p \o t[i]
    BY <1>2, <1>3, <1>4, <1>5, <2>1 DEF Joined
  <2> HIDE DEF p
  <2>3. Splits(p \o s[i], p \o t[i], Len(p) + x)
    BY <2>2, SplitsBehind
  <2>4. Len(p) + x \in Int
    BY <2>2, LenProperties
  <2> QED BY <2>2, <2>3, <2>4
<1>7. PICK y \in Int : Splits(f[i], g[i], y)
  BY <1>6
<1>8. Extends(f[m], f[i])
  <2>1. i \in 0..m
    BY <1>1
  <2>2. m \in Nat /\ Joined(s, m, f) /\ \A k \in 0..m : f[k] \in Seq(Int)
    BY <1>1, <1>3
  <2> QED BY <1>2, <2>1, <2>2, JoinedAhead
<1>9. Extends(g[n], g[i])
  <2>1. i \in 0..n
    BY <1>1
  <2>2. n \in Nat /\ Joined(t, n, g) /\ \A k \in 0..n : g[k] \in Seq(Int)
    BY <1>1, <1>4
  <2> QED BY <1>2, <2>1, <2>2, JoinedAhead
<1>10. f[i] \in Seq(Int) /\ g[i] \in Seq(Int)
  <2>1. i \in 0..m /\ i \in 0..n
    BY <1>1
  <2> QED BY <1>3, <1>4, <2>1
<1>11. Splits(f[m], g[n], y)
  <2>1. PICK u \in Seq(Int) : f[m] = f[i] \o u
    BY <1>8 DEF Extends
  <2>2. PICK v \in Seq(Int) : g[n] = g[i] \o v
    BY <1>9 DEF Extends
  <2> QED BY <1>7, <1>10, <2>1, <2>2, SplitsAhead
<1> QED BY <1>3, <1>4, <1>11 DEF Joined, m, n

-----------------------------------------------------------------------------
(* Digits.                                                                 *)

\* What is left of a division.
LEMMA DivisionIs ==
  ASSUME NEW u \in Int, NEW d \in Int, d > 0
  PROVE  /\ u \div d \in Int /\ u % d \in 0..(d - 1) /\ d * (u \div d) \in Int
         /\ d * (u \div d) + (u % d) = u
<1>1. u \div d \in Int
  OBVIOUS
<1>2. u % d \in 0..(d - 1)
  OBVIOUS
<1>3. d * (u \div d) + (u % d) = u
  OBVIOUS
<1>4. d * (u \div d) \in Int
  BY <1>1
<1> QED BY <1>1, <1>2, <1>3, <1>4, Zenon

LEMMA TimesGrows ==
  ASSUME NEW x \in Int, NEW y \in Int, NEW w \in Int, w >= 0, x <= y
  PROVE  w * x \in Int /\ w * y \in Int /\ w * x <= w * y
<1>1. w * (y - x) \in Int /\ w * (y - x) >= 0
  BY SMT
<1>2. w * (y - x) = w * y - w * x /\ w * x \in Int /\ w * y \in Int
  BY SMT
<1> QED BY <1>1, <1>2

LEMMA QuotientIs ==
  ASSUME NEW u \in Int, NEW d \in Int, d > 0, NEW c \in Int, d * c <= u, u < d * c + d
  PROVE  u \div d = c
<1> DEFINE q == u \div d
<1>1. q \in Int /\ d * q \in Int /\ d * q <= u /\ u < d * q + d /\ d * c \in Int
  BY SMT, DivisionIs
<1> HIDE DEF q
<1>2. ASSUME q <= c - 1 PROVE FALSE
  <2>1. d * q <= d * (c - 1) /\ d * (c - 1) = d * c - d
    BY <1>1, <1>2, TimesGrows
  <2> QED BY <1>1, <2>1
<1>3. ASSUME c <= q - 1 PROVE FALSE
  <2>1. d * c <= d * (q - 1) /\ d * (q - 1) = d * q - d
    BY <1>1, <1>3, TimesGrows
  <2> QED BY <1>1, <2>1
<1>4. q = c
  BY <1>1, <1>2, <1>3
<1> QED BY <1>4 DEF q

\* Dividing twice.
LEMMA DivideTwice ==
  ASSUME NEW u \in Int, NEW w \in Int, w > 0, NEW b \in Int, b > 0
  PROVE  (u \div w) \div b = u \div (b * w)
<1> DEFINE a == u \div w
           c == a \div b
<1>1. a \in Int /\ w * a \in Int /\ w * a <= u /\ u < w * a + w
  BY SMT, DivisionIs
<1> HIDE DEF a
<1>2. c \in Int /\ b * c \in Int /\ b * c <= a /\ a + 1 <= b * c + b
  BY <1>1, SMT, DivisionIs
<1> HIDE DEF c
<1>3. w * (b * c) <= w * a
  BY <1>1, <1>2, TimesGrows
<1>4. w * (a + 1) <= w * (b * c + b)
  BY <1>1, <1>2, TimesGrows
<1>5. w * (b * c) = (b * w) * c /\ w * (b * c + b) = (b * w) * c + b * w /\ w * (a + 1) = w * a + w
      /\ b * w \in Int /\ (b * w) * c \in Int
  BY <1>1, <1>2, SMT
<1>6. b * w > 0
  BY SMT
<1>7. u \div (b * w) = c
  <2> DEFINE d == b * w
  <2>1. d \in Int /\ d > 0 /\ d * c <= u /\ u < d * c + d
    BY <1>1, <1>3, <1>4, <1>5, <1>6
  <2> HIDE DEF d
  <2>2. u \div d = c
    BY <1>2, <2>1, QuotientIs
  <2> QED BY <2>2 DEF d
<1> QED BY <1>7 DEF a, c

LEMMA DivisionGrows ==
  ASSUME NEW u \in Int, NEW v \in Int, u <= v, NEW d \in Int, d > 0
  PROVE  u \div d <= v \div d
<1> DEFINE p == u \div d
           q == v \div d
<1>1. p \in Int /\ d * p \in Int /\ d * p <= u
  BY SMT, DivisionIs
<1>2. q \in Int /\ d * q \in Int /\ v < d * q + d
  BY SMT, DivisionIs
<1> HIDE DEF p, q
<1>3. ASSUME q + 1 <= p PROVE FALSE
  <2>1. d * (q + 1) <= d * p /\ d * (q + 1) = d * q + d
    BY <1>1, <1>2, <1>3, TimesGrows
  <2> QED BY <1>1, <1>2, <2>1
<1>4. p <= q
  BY <1>1, <1>2, <1>3
<1> QED BY <1>4 DEF p, q

\* What the first k digits of a number stand for.
Leading(u, k) == u \div Base ^ (IntBytes - k)

\* Every digit is what is left of the number before it.
LEMMA LeadingDigits ==
  ASSUME NEW u \in 0..(Width - 1)
  PROVE  /\ Leading(u, 0) = 0 /\ Leading(u, IntBytes) = u
         /\ \A k \in 0..IntBytes : Leading(u, k) \in Int
         /\ \A k \in 1..IntBytes :
                /\ Digits(u)[k] \in 0..(Base - 1)
                /\ Leading(u, k) = Base * Leading(u, k - 1) + Digits(u)[k]
<1>1. u \in Int /\ 0 <= u /\ u < Width /\ Width \in Int /\ Width > 0 /\ IntBytes \in Nat
  <2>1. IntBytes \in 0..IntBytes
    BY Widths
  <2> QED BY <2>1, Widths
<1>2. Leading(u, 0) = 0
  <2> DEFINE w == Width
  <2>1. w \in Int /\ w > 0 /\ 0 \in Int /\ w * 0 <= u /\ u < w * 0 + w
    BY <1>1
  <2> HIDE DEF w
  <2>2. u \div w = 0
    BY <1>1, <2>1, QuotientIs
  <2>3. IntBytes - 0 = IntBytes
    BY <1>1
  <2> QED BY <2>2, <2>3, Widths DEF Leading, w
<1>3. Leading(u, IntBytes) = u
  <2>1. u \div 1 = u
    BY <1>1
  <2>2. IntBytes - IntBytes = 0
    BY <1>1
  <2> QED BY <2>1, <2>2, Widths DEF Leading
<1>4. ASSUME NEW k \in 0..IntBytes PROVE Leading(u, k) \in Int
  <2>1. IntBytes - k \in 0..IntBytes
    BY <1>1
  <2> DEFINE w == Base ^ (IntBytes - k)
  <2>2. w \in Int /\ w > 0
    BY <2>1, Widths
  <2> HIDE DEF w
  <2>3. u \div w \in Int
    BY <1>1, <2>2, DivisionIs
  <2> QED BY <2>3 DEF Leading, w
<1>5. ASSUME NEW k \in 1..IntBytes
      PROVE  Digits(u)[k] \in 0..(Base - 1) /\ Leading(u, k) = Base * Leading(u, k - 1) + Digits(u)[k]
  <2> DEFINE w == Base ^ (IntBytes - k)
             q == Leading(u, k)
             d == Digits(u)[k]
  <2>1. /\ IntBytes - k \in 0..IntBytes /\ IntBytes - (k - 1) \in 1..IntBytes
        /\ (IntBytes - (k - 1)) - 1 = IntBytes - k
    BY <1>1
  <2>2. w \in Int /\ w > 0 /\ Base \in Int /\ Base > 0 /\ Base ^ (IntBytes - (k - 1)) = Base * w
    <3>1. \A n \in 1..IntBytes : Base ^ n = Base * Base ^ (n - 1)
      BY Widths
    <3> DEFINE n == IntBytes - (k - 1)
    <3>2. n \in 1..IntBytes /\ n - 1 = IntBytes - k
      BY <2>1
    <3> HIDE DEF n
    <3>3. Base ^ n = Base * Base ^ (n - 1)
      BY <3>1, <3>2
    <3>4. w \in Int /\ w > 0 /\ Base \in Int /\ Base > 0
      BY <2>1, Widths
    <3> QED BY <3>2, <3>3, <3>4 DEF n
  <2>3. Leading(u, k - 1) = u \div (Base * w)
    BY <2>2 DEF Leading
  <2>4. q = u \div w
    BY DEF Leading
  <2>5. d = q % Base
    BY DEF Digits, Leading
  <2>6. q \in Int
    <3>1. k \in 0..IntBytes
      BY <1>1
    <3> QED BY <1>4, <3>1
  <2> HIDE DEF w, q, d
  <2>7. Leading(u, k - 1) = q \div Base
    BY <1>1, <2>2, <2>3, <2>4, DivideTwice
  <2>8. q % Base \in 0..(Base - 1) /\ Base * (q \div Base) + (q % Base) = q
    BY <2>2, <2>6, DivisionIs
  <2> QED BY <2>5, <2>7, <2>8 DEF q, d
<1> QED BY <1>2, <1>3, <1>4, <1>5

\* Numbers are in the order of their digits.
LEMMA DigitsSplit ==
  ASSUME NEW u \in 0..(Width - 1), NEW v \in 0..(Width - 1), u < v
  PROVE  \E i \in Int : Splits(Digits(u), Digits(v), i)
<1> DEFINE T == {k \in 0..IntBytes : Leading(u, k) # Leading(v, k)}
<1>1. IntBytes \in T
  <2>1. IntBytes \in 0..IntBytes
    BY Widths
  <2>2. u # v
    OBVIOUS
  <2> QED BY <2>1, <2>2, LeadingDigits
<1>2. PICK k \in T : \A j \in T : k <= j
  <2>1. T \subseteq Nat /\ T # {}
    BY <1>1
  <2> HIDE DEF T
  <2> QED BY <2>1, LeastNumber
<1>3. k \in 1..IntBytes /\ k - 1 \in 0..IntBytes
  <2>1. k \in 0..IntBytes /\ Leading(u, k) # Leading(v, k)
    BY <1>2
  <2>2. k # 0
    BY <2>1, LeadingDigits
  <2> QED BY <2>1, <2>2, Widths
<1>4. ASSUME NEW j \in 0..(k - 1) PROVE Leading(u, j) = Leading(v, j)
  <2>1. j \in 0..IntBytes /\ ~(k <= j)
    BY <1>3, Widths
  <2> QED BY <1>2, <2>1
<1>5. ASSUME NEW j \in 1..(k - 1) PROVE Digits(u)[j] = Digits(v)[j]
  <2>1. j \in 0..(k - 1) /\ j \in 1..IntBytes
    BY <1>3, Widths
  <2>2. Digits(u)[j] = Leading(u, j) % Base /\ Digits(v)[j] = Leading(v, j) % Base
    BY <2>1 DEF Digits, Leading
  <2> QED BY <1>4, <2>1, <2>2
<1>6. Leading(u, k) <= Leading(v, k) /\ Leading(u, k) # Leading(v, k)
  <2> DEFINE w == Base ^ (IntBytes - k)
  <2>1. w \in Int /\ w > 0
    <3>1. IntBytes - k \in 0..IntBytes
      BY <1>3, Widths
    <3> QED BY <3>1, Widths
  <2> HIDE DEF w
  <2>2. u \in Int /\ v \in Int /\ u <= v
    BY Widths
  <2>3. u \div w <= v \div w
    BY <2>1, <2>2, DivisionGrows
  <2> QED BY <1>2, <2>3 DEF Leading, w
<1>7. Digits(u)[k] < Digits(v)[k]
  <2> DEFINE x == Digits(u)[k]
             y == Digits(v)[k]
             p == Base * Leading(u, k - 1)
  <2>1. x \in Int /\ y \in Int
    BY <1>3, LeadingDigits, Widths
  <2>2. Leading(u, k) = p + x /\ Leading(v, k) = p + y
    <3>1. k - 1 \in 0..(k - 1)
      BY <1>3, Widths
    <3>2. Leading(u, k - 1) = Leading(v, k - 1)
      BY <1>4, <3>1
    <3> QED BY <1>3, <3>2, LeadingDigits, Zenon
  <2>3. p \in Int
    BY <1>3, LeadingDigits, Widths
  <2> HIDE DEF x, y, p
  <2>4. x < y
    BY <1>6, <2>1, <2>2, <2>3
  <2> QED BY <2>4 DEF x, y
<1>8. k \in 1..Len(Digits(u)) /\ k <= Len(Digits(v))
  BY <1>3, DigitsLen
<1>9. Splits(Digits(u), Digits(v), k)
  BY <1>5, <1>7, <1>8, Zenon DEF Splits
<1>10. k \in Int
  BY <1>3
<1> QED BY <1>9, <1>10

-----------------------------------------------------------------------------
(* Escaped strings.                                                        *)

\* How a byte of a string stands in a key.
Escaped(c) == IF c \in {0, 1} THEN <<1, c + 1>> ELSE <<c>>

EscapedStr(s) == [i \in DOMAIN s |-> Escaped(s[i])]

LEMMA EncodeStr ==
  ASSUME NEW cell, cell.type # TypeI64, cell.str \in Seq(Int)
  PROVE  /\ \A c \in Int : Escaped(c) \in Seq(Int)
         /\ EscapedStr(cell.str) \in Seq(Seq(Int))
         /\ Append(EscapedStr(cell.str), <<0>>) \in Seq(Seq(Int))
         /\ EncodeKey(cell) = FlattenSeq(Append(EscapedStr(cell.str), <<0>>))
<1> DEFINE s == cell.str
           e == EscapedStr(s)
<1>1. ASSUME NEW c \in Int PROVE Escaped(c) \in Seq(Int)
  <2>1. c + 1 \in Int
    OBVIOUS
  <2>2. <<1, c + 1>> \in Seq(Int) /\ <<c>> \in Seq(Int)
    BY <2>1
  <2> QED BY <2>2 DEF Escaped
<1>2. e \in Seq(Seq(Int))
  <2>1. Len(s) \in Nat /\ DOMAIN s = 1..Len(s) /\ \A i \in 1..Len(s) : s[i] \in Int
    OBVIOUS
  <2>2. e = [i \in 1..Len(s) |-> Escaped(s[i])]
    BY <2>1 DEF EscapedStr
  <2> HIDE DEF e, s
  <2> QED BY <1>1, <2>1, <2>2
<1>3. <<0>> \in Seq(Int)
  OBVIOUS
<1>4. Append(e, <<0>>) \in Seq(Seq(Int))
  <2> HIDE DEF e
  <2> QED BY <1>2, <1>3, AppendProperties
<1>5. EncodeKey(cell) = FlattenSeq(e) \o <<0>>
  BY DEF EncodeKey, EscapedStr, Escaped
<1>6. FlattenSeq(e) \o <<0>> = FlattenSeq(Append(e, <<0>>))
  <2> HIDE DEF e
  <2> QED BY <1>2, <1>3, FlattenAppend
<1> QED BY <1>1, <1>2, <1>4, <1>5, <1>6

\* Escaping keeps the order of bytes, and the end of a string comes first.
LEMMA EscapedSplit ==
  /\ \A c \in Nat, d \in Nat : c < d => \E i \in Int : Splits(Escaped(c), Escaped(d), i)
  /\ \A d \in Nat : Splits(<<0>>, Escaped(d), 1)
<1>1. ASSUME NEW c \in Nat, NEW d \in Nat, c < d
      PROVE  \E i \in Int : Splits(Escaped(c), Escaped(d), i)
  <2>1. CASE d \in {0, 1}
    <3>1. c = 0 /\ d = 1
      BY <1>1, <2>1
    <3>2. Escaped(c) = <<1, 1>> /\ Escaped(d) = <<1, 2>>
      BY <3>1 DEF Escaped
    <3>3. Splits(Escaped(c), Escaped(d), 2)
      BY <3>2 DEF Splits
    <3> QED BY <3>3
  <2>2. CASE d \notin {0, 1}
    <3>1. Escaped(d) = <<d>> /\ d > 1
      BY <2>2 DEF Escaped
    <3>2. Len(Escaped(c)) \in {1, 2} /\ Escaped(c)[1] < d
      <4>1. CASE c \in {0, 1}
        <5>1. Escaped(c) = <<1, c + 1>>
          BY <4>1 DEF Escaped
        <5> QED BY <3>1, <5>1
      <4>2. CASE c \notin {0, 1}
        <5>1. Escaped(c) = <<c>>
          BY <4>2 DEF Escaped
        <5> QED BY <1>1, <5>1
      <4> QED BY <4>1, <4>2
    <3>3. Splits(Escaped(c), Escaped(d), 1)
      BY <3>1, <3>2 DEF Splits
    <3> QED BY <3>3
  <2> QED BY <2>1, <2>2
<1>2. ASSUME NEW d \in Nat PROVE Splits(<<0>>, Escaped(d), 1)
  <2>1. CASE d \in {0, 1}
    <3>1. Escaped(d) = <<1, d + 1>>
      BY <2>1 DEF Escaped
    <3> QED BY <3>1 DEF Splits
  <2>2. CASE d \notin {0, 1}
    <3>1. Escaped(d) = <<d>> /\ d > 0
      BY <2>2 DEF Escaped
    <3> QED BY <3>1 DEF Splits
  <2> QED BY <2>1, <2>2
<1> QED BY <1>1, <1>2

\* Strings are in the order of their keys.
LEMMA StrSplit ==
  ASSUME NEW a, a.type # TypeI64, a.str \in Seq(Nat),
         NEW b, b.type # TypeI64, b.str \in Seq(Nat), BytesLess(a.str, b.str)
  PROVE  \E i \in Int : Splits(EncodeKey(a), EncodeKey(b), i)
<1> DEFINE s == a.str
           t == b.str
           es == Append(EscapedStr(s), <<0>>)
           et == Append(EscapedStr(t), <<0>>)
<1>1. s \in Seq(Int) /\ t \in Seq(Int)
  <2>1. Nat \subseteq Int
    OBVIOUS
  <2> QED BY <2>1, SeqMonotonic
<1>2. /\ es \in Seq(Seq(Int)) /\ EncodeKey(a) = FlattenSeq(es)
      /\ et \in Seq(Seq(Int)) /\ EncodeKey(b) = FlattenSeq(et)
      /\ EscapedStr(s) \in Seq(Seq(Int)) /\ EscapedStr(t) \in Seq(Seq(Int))
  BY <1>1, EncodeStr
<1>3. PICK i \in Int : Before(s, t, i)
  BY <1>1, LessAt
<1>4. /\ Len(es) = Len(s) + 1 /\ \A j \in 1..Len(s) : es[j] = Escaped(s[j])
      /\ es[Len(s) + 1] = <<0>>
      /\ Len(et) = Len(t) + 1 /\ \A j \in 1..Len(t) : et[j] = Escaped(t[j])
      /\ Len(s) \in Nat /\ Len(t) \in Nat
      /\ \A j \in 1..Len(s) : s[j] \in Nat
      /\ \A j \in 1..Len(t) : t[j] \in Nat
  <2>1. Len(EscapedStr(s)) = Len(s) /\ \A j \in 1..Len(s) : EscapedStr(s)[j] = Escaped(s[j])
    BY <1>1 DEF EscapedStr
  <2>2. Len(EscapedStr(t)) = Len(t) /\ \A j \in 1..Len(t) : EscapedStr(t)[j] = Escaped(t[j])
    BY <1>1 DEF EscapedStr
  <2>3. <<0>> \in Seq(Int)
    OBVIOUS
  <2>4. Len(es) = Len(s) + 1 /\ es[Len(s) + 1] = <<0>> /\ \A j \in 1..Len(s) : es[j] = Escaped(s[j])
    <3> DEFINE e == EscapedStr(s)
    <3> HIDE DEF e
    <3>1. e \in Seq(Seq(Int))
      BY <1>2 DEF e
    <3>2. /\ Len(Append(e, <<0>>)) = Len(e) + 1 /\ Append(e, <<0>>)[Len(e) + 1] = <<0>>
          /\ \A j \in 1..Len(e) : Append(e, <<0>>)[j] = e[j]
      BY <2>3, <3>1, AppendProperties
    <3> QED BY <2>1, <3>2 DEF e
  <2>5. Len(et) = Len(t) + 1 /\ \A j \in 1..Len(t) : et[j] = Escaped(t[j])
    <3> DEFINE e == EscapedStr(t)
    <3> HIDE DEF e
    <3>1. e \in Seq(Seq(Int))
      BY <1>2 DEF e
    <3>2. /\ Len(Append(e, <<0>>)) = Len(e) + 1 /\ Append(e, <<0>>)[Len(e) + 1] = <<0>>
          /\ \A j \in 1..Len(e) : Append(e, <<0>>)[j] = e[j]
      BY <2>3, <3>1, AppendProperties
    <3> QED BY <2>2, <3>2 DEF e
  <2> QED BY <2>4, <2>5
<1> HIDE DEF es, et, s, t
<1>5. /\ i \in 1..Len(es) /\ i <= Len(et) /\ i \in 1..Len(t)
      /\ \A j \in 1..(i - 1) : j \in 1..Len(s) /\ j \in 1..Len(t) /\ s[j] = t[j]
  BY <1>3, <1>4 DEF Before
<1>6. \A j \in 1..(i - 1) : es[j] = et[j]
  BY <1>4, <1>5
<1>7. \E x \in Int : Splits(es[i], et[i], x)
  <2>1. CASE i <= Len(s)
    <3>1. s[i] \in Nat /\ t[i] \in Nat /\ s[i] < t[i] /\ es[i] = Escaped(s[i]) /\ et[i] = Escaped(t[i])
      BY <1>3, <1>4, <1>5, <2>1 DEF Before
    <3> QED BY <3>1, EscapedSplit
  <2>2. CASE i > Len(s)
    <3>1. i = Len(s) + 1
      BY <1>4, <1>5, <2>2
    <3>2. t[i] \in Nat /\ es[i] = <<0>> /\ et[i] = Escaped(t[i])
      BY <1>4, <1>5, <3>1
    <3>3. Splits(es[i], et[i], 1)
      BY <3>2, EscapedSplit
    <3> QED BY <3>3
  <2> QED BY <1>4, <2>1, <2>2
<1>8. PICK x \in Int : Splits(es[i], et[i], x)
  BY <1>7
<1> QED BY <1>2, <1>5, <1>6, <1>8, FlattenSplits

-----------------------------------------------------------------------------
(* Cells and tuples.                                                       *)

\* Of two sequences of bytes one comes first, or they are the same.
LEMMA LessTotal ==
  ASSUME NEW a \in Seq(Int), NEW b \in Seq(Int)
  PROVE  a = b \/ BytesLess(a, b) \/ BytesLess(b, a)
<1> DEFINE m == Len(a)
           n == Len(b)
           T == {i \in Nat : i \in 1..m /\ i \in 1..n /\ a[i] # b[i]}
<1>1. /\ m \in Nat /\ n \in Nat
      /\ \A i \in 1..m : a[i] \in Int
      /\ \A i \in 1..n : b[i] \in Int
  OBVIOUS
<1>2. CASE T = {}
  <2>1. ASSUME NEW i \in 1..m, i \in 1..n PROVE a[i] = b[i]
    <3>1. i \in Nat
      <4> HIDE DEF m, n, T
      <4> QED BY <1>1
    <3>2. i \notin T
      <4> HIDE DEF T
      <4> QED BY <1>2
    <3> QED BY <2>1, <3>1, <3>2
  <2>2. CASE m = n
    <3>1. Len(a) = Len(b) /\ \A i \in 1..Len(a) : a[i] = b[i]
      BY <2>1, <2>2
    <3>2. a = b
      BY <3>1, SeqEqual
    <3> QED BY <3>2
  <2> HIDE DEF T
  <2>3. CASE m < n
    <3>1. m + 1 \in 1..n /\ m + 1 <= m + 1 /\ ~(m + 1 <= m)
          /\ \A j \in 1..((m + 1) - 1) : j \in 1..m /\ j \in 1..n
      <4> HIDE DEF m, n
      <4> QED BY <1>1, <2>3
    <3>2. Before(a, b, m + 1) /\ m + 1 \in Int
      <4> HIDE DEF m, n
      <4>1. \A j \in 1..((m + 1) - 1) : a[j] = b[j]
        BY <2>1, <3>1
      <4> QED BY <1>1, <3>1, <4>1 DEF Before, m, n
    <3> HIDE DEF m
    <3> QED BY <3>2, LessAt
  <2>4. CASE n < m
    <3>1. n + 1 \in 1..m /\ n + 1 <= n + 1 /\ ~(n + 1 <= n)
          /\ \A j \in 1..((n + 1) - 1) : j \in 1..m /\ j \in 1..n
      <4> HIDE DEF m, n
      <4> QED BY <1>1, <2>4
    <3>2. Before(b, a, n + 1) /\ n + 1 \in Int
      <4> HIDE DEF m, n
      <4>1. \A j \in 1..((n + 1) - 1) : b[j] = a[j]
        BY <2>1, <3>1
      <4> QED BY <1>1, <3>1, <4>1 DEF Before, m, n
    <3> HIDE DEF n
    <3> QED BY <3>2, LessAt
  <2> HIDE DEF m, n
  <2> QED BY <1>1, <2>2, <2>3, <2>4
<1>3. CASE T # {}
  <2>1. PICK k \in T : \A i \in T : k <= i
    <3>1. T \subseteq Nat
      OBVIOUS
    <3> HIDE DEF T
    <3> QED BY <1>3, <3>1, LeastNumber
  <2>2. k \in Nat /\ k \in 1..m /\ k \in 1..n /\ a[k] # b[k] /\ a[k] \in Int /\ b[k] \in Int
    BY <1>1, <2>1
  <2>3. ASSUME NEW j \in 1..(k - 1) PROVE a[j] = b[j]
    <3>1. j \in 1..m /\ j \in 1..n /\ ~(k <= j) /\ j \in Nat
      <4> HIDE DEF T, m, n
      <4> QED BY <1>1, <2>2
    <3>2. j \notin T
      <4> HIDE DEF T
      <4> QED BY <2>1, <3>1
    <3> QED BY <3>1, <3>2
  <2> HIDE DEF T
  <2>4. k <= m + 1 /\ k <= n + 1 /\ k \in Int
    <3> HIDE DEF m, n
    <3> QED BY <1>1, <2>2
  <2>5. CASE a[k] < b[k]
    <3>1. Before(a, b, k)
      BY <2>2, <2>3, <2>4, <2>5 DEF Before
    <3> QED BY <2>4, <3>1, LessAt
  <2>6. CASE b[k] < a[k]
    <3>1. Before(b, a, k)
      BY <2>2, <2>3, <2>4, <2>6 DEF Before
    <3> QED BY <2>4, <3>1, LessAt
  <2> HIDE DEF m, n
  <2> QED BY <2>2, <2>5, <2>6
<1> QED BY <1>2, <1>3

LEMMA CellsType ==
  ASSUME NEW c \in Cells
  PROVE  /\ c.type \in {TypeI64, TypeStr} /\ c.i64 \in Int /\ c.str \in Seq(Nat) /\ c.str \in Seq(Int)
         /\ c.i64 + Half \in 0..(Width - 1)
         /\ EncodeKey(c) \in Seq(Int)
<1>1. c.type \in {TypeI64, TypeStr} /\ c.i64 \in Int64 /\ c.str \in Seq(0..ByteMax)
  BY DEF Cells
<1>2. c.i64 \in Int /\ c.i64 + Half \in 0..(Width - 1)
  BY <1>1, Widths DEF Int64
<1>3. c.str \in Seq(Nat)
  <2>1. 0..ByteMax \subseteq Nat
    BY CodecAssumption
  <2> QED BY <1>1, <2>1, SeqMonotonic
<1>4. c.str \in Seq(Int)
  <2>1. Nat \subseteq Int
    OBVIOUS
  <2> QED BY <1>3, <2>1, SeqMonotonic
<1>5. EncodeKey(c) \in Seq(Int)
  BY <1>2, <1>4, EncodeKeyType
<1> QED BY <1>1, <1>2, <1>3, <1>4, <1>5

\* Cells of one type are in the order of their keys.
LEMMA CellSplit ==
  ASSUME NEW a \in Cells, NEW b \in Cells, a.type = b.type, CellLess(a, b)
  PROVE  \E i \in Int : Splits(EncodeKey(a), EncodeKey(b), i)
<1>1. CASE a.type = TypeStr
  <2>1. a.type # TypeI64 /\ b.type # TypeI64 /\ BytesLess(a.str, b.str)
    BY <1>1 DEF CellLess, TypeStr, TypeI64
  <2> QED BY <2>1, CellsType, StrSplit
<1>2. CASE a.type = TypeI64
  <2>1. a.type # TypeStr
    BY <1>2 DEF TypeStr, TypeI64
  <2> DEFINE u == a.i64 + Half
             v == b.i64 + Half
  <2>2. u \in 0..(Width - 1) /\ v \in 0..(Width - 1)
    BY CellsType
  <2>3. u < v
    <3>1. a.i64 < b.i64
      BY <2>1 DEF CellLess
    <3>2. a.i64 \in Int /\ b.i64 \in Int /\ Half \in Int
      BY CellsType, Widths
    <3> QED BY <3>1, <3>2
  <2>4. EncodeKey(a) = Digits(u) /\ EncodeKey(b) = Digits(v)
    BY <1>2 DEF EncodeKey
  <2> HIDE DEF u, v
  <2> QED BY <2>2, <2>3, <2>4, DigitsSplit
<1> QED BY <1>1, <1>2, CellsType

LEMMA CellTotal ==
  ASSUME NEW a \in Cells, NEW b \in Cells, a.type = b.type
  PROVE  /\ SameCell(a, b) \/ CellLess(a, b) \/ CellLess(b, a)
         /\ SameCell(a, b) => SameCell(b, a) /\ EncodeKey(a) = EncodeKey(b)
<1>1. SameCell(a, b) \/ CellLess(a, b) \/ CellLess(b, a)
  <2>1. CASE a.type = TypeStr
    <3>1. a.str = b.str \/ BytesLess(a.str, b.str) \/ BytesLess(b.str, a.str)
      BY CellsType, LessTotal
    <3> QED BY <2>1, <3>1 DEF SameCell, CellLess
  <2>2. CASE a.type # TypeStr
    <3>1. a.i64 = b.i64 \/ a.i64 < b.i64 \/ b.i64 < a.i64
      BY CellsType
    <3> QED BY <2>2, <3>1 DEF SameCell, CellLess
  <2> QED BY <2>1, <2>2
<1>2. ASSUME SameCell(a, b) PROVE SameCell(b, a) /\ EncodeKey(a) = EncodeKey(b)
  <2>1. CASE a.type = TypeStr
    <3>1. a.str = b.str /\ a.type # TypeI64
      BY <1>2, <2>1 DEF SameCell, TypeStr, TypeI64
    <3> QED BY <2>1, <3>1 DEF SameCell, EncodeKey
  <2>2. CASE a.type = TypeI64
    <3>1. a.i64 = b.i64 /\ a.type # TypeStr
      BY <1>2, <2>2 DEF SameCell, TypeStr, TypeI64
    <3> QED BY <2>2, <3>1 DEF SameCell, EncodeKey
  <2> QED BY <2>1, <2>2, CellsType
<1> QED BY <1>1, <1>2

\* Cells of the same types, one by one.
SameColumns(a, b) == Len(a) = Len(b) /\ \A i \in 1..Len(a) : a[i].type = b[i].type

TaggedCell(c) == <<c.type>> \o EncodeKey(c)
TaggedCells(cells) == [i \in DOMAIN cells |-> TaggedCell(cells[i])]

LEMMA TaggedParts ==
  ASSUME NEW a \in Seq(Cells)
  PROVE  /\ Tagged(a) = FlattenSeq(TaggedCells(a)) /\ Tagged(a) \in Seq(Int)
         /\ TaggedCells(a) \in Seq(Seq(Int)) /\ Len(TaggedCells(a)) = Len(a)
         /\ \A i \in 1..Len(a) : TaggedCells(a)[i] = <<a[i].type>> \o EncodeKey(a[i])
                                 /\ a[i] \in Cells /\ <<a[i].type>> \in Seq(Int)
<1>1. Len(a) \in Nat /\ DOMAIN a = 1..Len(a) /\ \A i \in 1..Len(a) : a[i] \in Cells
  OBVIOUS
<1>2. ASSUME NEW i \in 1..Len(a) PROVE <<a[i].type>> \in Seq(Int) /\ TaggedCell(a[i]) \in Seq(Int)
  <2>1. a[i].type \in Int /\ EncodeKey(a[i]) \in Seq(Int)
    BY <1>1, CellsType DEF TypeI64, TypeStr
  <2>2. <<a[i].type>> \in Seq(Int)
    BY <2>1
  <2> QED BY <2>1, <2>2, ConcatProperties DEF TaggedCell
<1>3. TaggedCells(a) = [i \in 1..Len(a) |-> TaggedCell(a[i])]
  BY <1>1 DEF TaggedCells
<1>4. TaggedCells(a) \in Seq(Seq(Int)) /\ Len(TaggedCells(a)) = Len(a)
  BY <1>1, <1>2, <1>3
<1>5. Tagged(a) = FlattenSeq(TaggedCells(a))
  BY DEF Tagged, TaggedCells, TaggedCell
<1>6. Tagged(a) \in Seq(Int)
  BY <1>4, <1>5, FlattenType
<1>7. \A i \in 1..Len(a) : TaggedCells(a)[i] = <<a[i].type>> \o EncodeKey(a[i])
  BY <1>3 DEF TaggedCell
<1> QED BY <1>1, <1>2, <1>4, <1>5, <1>6, <1>7

\* Tuples that first differ in one cell differ in their bytes there, and the same way.
LEMMA TupleSplit ==
  ASSUME NEW a \in Seq(Cells), NEW b \in Seq(Cells), SameColumns(a, b), NEW i \in 1..Len(a),
         CellLess(a[i], b[i]), \A j \in 1..(i - 1) : SameCell(a[j], b[j])
  PROVE  BytesLess(Tagged(a), Tagged(b)) /\ ~BytesLess(Tagged(b), Tagged(a))
<1> DEFINE s == TaggedCells(a)
           t == TaggedCells(b)
           n == Len(a)
           tag == <<a[i].type>>
<1>1. n \in Nat /\ Len(b) = n /\ \A j \in 1..n : a[j].type = b[j].type
  BY DEF SameColumns
<1>2. /\ s \in Seq(Seq(Int)) /\ Len(s) = n /\ t \in Seq(Seq(Int)) /\ Len(t) = n
      /\ \A j \in 1..n : /\ s[j] = <<a[j].type>> \o EncodeKey(a[j]) /\ a[j] \in Cells
                         /\ t[j] = <<b[j].type>> \o EncodeKey(b[j]) /\ b[j] \in Cells
                         /\ <<a[j].type>> \in Seq(Int)
  BY <1>1, TaggedParts
<1> HIDE DEF s, t, n
<1>3. i \in 1..n /\ \A j \in 1..(i - 1) : j \in 1..n
  BY <1>1 DEF n
<1>4. ASSUME NEW j \in 1..(i - 1) PROVE s[j] = t[j]
  <2>1. EncodeKey(a[j]) = EncodeKey(b[j]) /\ a[j].type = b[j].type
    BY <1>1, <1>2, <1>3, CellTotal
  <2> QED BY <1>2, <1>3, <2>1
<1>5. PICK x \in Int : Splits(EncodeKey(a[i]), EncodeKey(b[i]), x)
  BY <1>1, <1>2, <1>3, CellSplit
<1>6. tag \in Seq(Int) /\ EncodeKey(a[i]) \in Seq(Int) /\ EncodeKey(b[i]) \in Seq(Int)
      /\ s[i] = tag \o EncodeKey(a[i]) /\ t[i] = tag \o EncodeKey(b[i])
  BY <1>1, <1>2, <1>3, CellsType
<1> HIDE DEF tag
<1>7. Splits(s[i], t[i], Len(tag) + x) /\ Len(tag) + x \in Int
  BY <1>5, <1>6, SplitsBehind, LenProperties
<1>8. \E y \in Int : Splits(FlattenSeq(s), FlattenSeq(t), y)
  <2>1. i \in 1..Len(s) /\ i <= Len(t)
    BY <1>1, <1>2, <1>3
  <2> DEFINE z == Len(tag) + x
  <2>2. Splits(s[i], t[i], z) /\ z \in Int
    BY <1>7
  <2> HIDE DEF z
  <2> QED BY <1>2, <1>4, <2>1, <2>2, FlattenSplits
<1>9. \E y \in Int : Splits(Tagged(a), Tagged(b), y)
  BY <1>8, TaggedParts DEF s, t
<1> QED BY <1>9, TaggedParts, SplitsLess

\* The encoding of a key preserves its order (cell.go:77, schema.go:53): two
\* tuples with columns of the same types are in the order of their bytes.
THEOREM TupleOrder ==
  ASSUME NEW a \in Seq(Cells), NEW b \in Seq(Cells), SameColumns(a, b)
  PROVE  TupleLess(a, b) <=> BytesLess(Tagged(a), Tagged(b))
<1> DEFINE n == Len(a)
           T == {i \in Nat : i \in 1..n /\ ~SameCell(a[i], b[i])}
<1>1. /\ n \in Nat /\ Len(b) = n /\ DOMAIN a = 1..n /\ DOMAIN b = 1..n
      /\ \A i \in 1..n : a[i].type = b[i].type /\ a[i] \in Cells /\ b[i] \in Cells
  BY DEF SameColumns
<1>2. ASSUME TupleLess(a, b) PROVE BytesLess(Tagged(a), Tagged(b))
  <2>1. PICK i \in DOMAIN a \cap DOMAIN b :
            CellLess(a[i], b[i]) /\ \A j \in 1..(i - 1) : SameCell(a[j], b[j])
    BY <1>2 DEF TupleLess
  <2>2. i \in 1..Len(a)
    BY <1>1
  <2> QED BY <2>1, <2>2, TupleSplit
<1>3. ASSUME BytesLess(Tagged(a), Tagged(b)) PROVE TupleLess(a, b)
  <2>1. T # {}
    <3> SUFFICES ASSUME T = {} PROVE FALSE
      OBVIOUS
    <3>1. ASSUME NEW i \in 1..n PROVE TaggedCells(a)[i] = TaggedCells(b)[i]
      <4>1. SameCell(a[i], b[i])
        BY <1>1
      <4>2. EncodeKey(a[i]) = EncodeKey(b[i])
        BY <1>1, <4>1, CellTotal
      <4> QED BY <1>1, <4>2, TaggedParts
    <3>2. TaggedCells(a) = TaggedCells(b)
      <4>1. /\ TaggedCells(a) \in Seq(Seq(Int)) /\ Len(TaggedCells(a)) = n
            /\ TaggedCells(b) \in Seq(Seq(Int)) /\ Len(TaggedCells(b)) = n
        BY <1>1, TaggedParts
      <4> QED BY <3>1, <4>1, SeqEqual
    <3>3. Tagged(a) = Tagged(b) /\ Tagged(a) \in Seq(Int)
      BY <3>2, TaggedParts
    <3> QED BY <1>3, <3>3, LessIrreflexive
  <2>2. PICK i \in T : \A j \in T : i <= j
    <3>1. T \subseteq Nat
      OBVIOUS
    <3> HIDE DEF T
    <3> QED BY <2>1, <3>1, LeastNumber
  <2>3. i \in Nat /\ i \in 1..n /\ ~SameCell(a[i], b[i])
    BY <2>2
  <2>4. ASSUME NEW j \in 1..(i - 1) PROVE SameCell(a[j], b[j]) /\ SameCell(b[j], a[j])
    <3>1. j \in 1..n /\ ~(i <= j) /\ j \in Nat
      <4> HIDE DEF T, n
      <4> QED BY <1>1, <2>3
    <3>2. j \notin T
      <4> HIDE DEF T
      <4> QED BY <2>2, <3>1
    <3>3. SameCell(a[j], b[j])
      BY <3>1, <3>2
    <3> QED BY <1>1, <3>1, <3>3, CellTotal
  <2> HIDE DEF T
  <2>5. CellLess(a[i], b[i]) \/ CellLess(b[i], a[i])
    BY <1>1, <2>3, CellTotal
  <2>6. ASSUME CellLess(b[i], a[i]) PROVE FALSE
    <3>1. SameColumns(b, a) /\ i \in 1..Len(b)
      BY <1>1, <2>3 DEF SameColumns
    <3>2. ~BytesLess(Tagged(a), Tagged(b))
      BY <2>4, <2>6, <3>1, TupleSplit
    <3> QED BY <1>3, <3>2
  <2>7. i \in DOMAIN a \cap DOMAIN b
    BY <1>1, <2>3
  <2> QED BY <2>4, <2>5, <2>6, <2>7 DEF TupleLess
<1> QED BY <1>2, <1>3
-----------------------------------------------------------------------------
(* Numbers are read back from their digits.                                *)

\* The partial sums of Number, from left to right.
Summed(digits, n, f) ==
    /\ f[0] = 0 /\ f[n] = Number(digits)
    /\ \A k \in 1..n : f[k] = f[k - 1] * Base + digits[k]

LEMMA NumberRounds ==
  ASSUME NEW n \in Nat, NEW digits, DOMAIN digits = 1..n
  PROVE  \E f : Summed(digits, n, f)
<1> DEFINE Body(f, s) == IF s = {} THEN 0 ELSE f[s \ {Max(s)}] * Base + digits[Max(s)]
           F == CHOOSE f : f = [s \in SUBSET (1..n) |-> Body(f, s)]
<1>1. F = [s \in SUBSET (1..n) |-> Body(F, s)]
  <2> DEFINE T == {m \in Nat : \E f : f = [s \in SUBSET (1..m) |-> Body(f, s)]}
  <2>1. 0 \in T
    <3> DEFINE e == [s \in SUBSET (1..0) |-> 0]
    <3>1. ASSUME NEW s \in SUBSET (1..0) PROVE s = {}
      OBVIOUS
    <3>2. e = [s \in SUBSET (1..0) |-> Body(e, s)]
      BY <3>1
    <3>3. \E f : f = [s \in SUBSET (1..0) |-> Body(f, s)]
      <4> HIDE DEF e, Body
      <4> QED BY <3>2
    <3> HIDE DEF Body
    <3> QED BY <3>3
  <2>2. ASSUME NEW m \in 0..(n - 1), m \in T PROVE m + 1 \in T
    <3>1. PICK f : f = [s \in SUBSET (1..m) |-> Body(f, s)]
      BY <2>2
    <3> DEFINE g == [s \in SUBSET (1..(m + 1)) |-> Body(f, s)]
    <3>0. m \in Nat /\ SUBSET (1..m) \subseteq SUBSET (1..(m + 1))
      OBVIOUS
    <3>2. ASSUME NEW s \in SUBSET (1..m) PROVE f[s] = g[s]
      <4>1. s \in SUBSET (1..(m + 1))
        BY <3>0
      <4> HIDE DEF Body
      <4>2. f[s] = Body(f, s)
        BY <3>1
      <4>3. g[s] = Body(f, s)
        BY <4>1
      <4> QED BY <4>2, <4>3
    <3>3. ASSUME NEW s \in SUBSET (1..(m + 1)) PROVE Body(f, s) = Body(g, s)
      <4>1. CASE s = {}
        BY <4>1
      <4>2. CASE s # {}
        <5>1. s \ {Max(s)} \in SUBSET (1..m)
          BY <3>0, <4>2, WithoutLargest
        <5>2. f[s \ {Max(s)}] = g[s \ {Max(s)}]
          BY <3>2, <5>1
        <5> HIDE DEF g
        <5> QED BY Zenon, <4>2, <5>2
      <4> QED BY <4>1, <4>2
    <3>4. g = [s \in SUBSET (1..(m + 1)) |-> Body(g, s)]
      <4> HIDE DEF Body
      <4> QED BY <3>3
    <3>5. \E h : h = [s \in SUBSET (1..(m + 1)) |-> Body(h, s)]
      <4> HIDE DEF g, Body
      <4> QED BY <3>4
    <3> HIDE DEF Body
    <3> QED BY <3>0, <3>5
  <2>3. n \in T
    <3> HIDE DEF T
    <3>1. \A m \in 0..n : m \in T
      BY <2>1, <2>2, UpTo
    <3> QED BY <3>1
  <2> HIDE DEF Body
  <2> QED BY <2>3
<1>2. Number(digits) = F[1..n]
  BY Zenon DEF Number, FoldLeft, MapThenFoldSet
<1> DEFINE acc == [k \in 0..n |-> F[1..k]]
<1>3. acc[0] = 0
  <2>1. 1..0 = {} /\ {} \in SUBSET (1..n) /\ 0 \in 0..n
    OBVIOUS
  <2>2. acc[0] = F[{}]
    <3> HIDE DEF F
    <3> QED BY <2>1
  <2>3. F[{}] = Body(F, {})
    <3> HIDE DEF F, Body
    <3> QED BY <1>1, <2>1
  <2> HIDE DEF F, acc
  <2> QED BY <2>2, <2>3
<1>4. ASSUME NEW k \in 1..n PROVE acc[k] = acc[k - 1] * Base + digits[k]
  <2> DEFINE s == 1..k
  <2>1. k \in Nat /\ s \in SUBSET (1..n) /\ s \in SUBSET (1..k) /\ s # {} /\ k \in s
    OBVIOUS
  <2>2. Max(s) = k
    <3>1. Max(s) \in s /\ Max(s) >= k
      BY <2>1, LargestOf
    <3> QED BY <3>1
  <2>3. s \ {k} = 1..(k - 1) /\ k - 1 \in 0..n /\ k \in 0..n
    OBVIOUS
  <2>4. F[s] = Body(F, s)
    <3> HIDE DEF F, Body, s
    <3> QED BY <1>1, <2>1
  <2>5. acc[k] = F[s] /\ acc[k - 1] = F[1..(k - 1)]
    <3> HIDE DEF F
    <3> QED BY <2>3
  <2> HIDE DEF F, acc, s
  <2>6. Body(F, s) = F[s \ {k}] * Base + digits[k]
    BY <2>1, <2>2
  <2> QED BY <2>3, <2>4, <2>5, <2>6
<1>5. acc[n] = F[1..n]
  <2> HIDE DEF F
  <2> QED OBVIOUS
<1>6. Summed(digits, n, acc)
  <2> HIDE DEF F, acc
  <2> QED BY <1>2, <1>3, <1>4, <1>5 DEF Summed
<1> HIDE DEF acc
<1> QED BY <1>6

\* The digits of a number are read back.
LEMMA NumberOfDigits == \A u \in 0..(Width - 1) : Number(Digits(u)) = u
<1> SUFFICES ASSUME NEW u \in 0..(Width - 1) PROVE Number(Digits(u)) = u
  OBVIOUS
<1>1. IntBytes \in Nat /\ IntBytes \in 0..IntBytes /\ Base \in Int
  BY Widths
<1>2. PICK f : Summed(Digits(u), IntBytes, f)
  BY <1>1, DigitsLen, NumberRounds
<1> DEFINE T == {k \in 0..IntBytes : f[k] = Leading(u, k)}
<1>3. 0 \in T
  <2>1. f[0] = Leading(u, 0)
    BY <1>2, LeadingDigits DEF Summed
  <2>2. 0 \in 0..IntBytes
    BY <1>1
  <2> QED BY <2>1, <2>2
<1>4. ASSUME NEW m \in 0..(IntBytes - 1), m \in T PROVE m + 1 \in T
  <2>1. m + 1 \in 1..IntBytes /\ m + 1 \in 0..IntBytes /\ (m + 1) - 1 = m /\ m \in 0..IntBytes
    BY <1>1
  <2>2. f[m + 1] = f[m] * Base + Digits(u)[m + 1] /\ f[m] = Leading(u, m)
    BY <1>2, <1>4, <2>1 DEF Summed
  <2>3. Leading(u, m + 1) = Base * Leading(u, m) + Digits(u)[m + 1] /\ Leading(u, m) \in Int
    BY <2>1, LeadingDigits
  <2> DEFINE q == Leading(u, m)
  <2>4. q \in Int /\ f[m + 1] = q * Base + Digits(u)[m + 1] /\ Leading(u, m + 1) = Base * q + Digits(u)[m + 1]
    BY <2>2, <2>3
  <2> HIDE DEF q
  <2>5. q * Base = Base * q
    BY <1>1, <2>4
  <2>6. f[m + 1] = Leading(u, m + 1)
    BY <2>4, <2>5
  <2> QED BY <2>1, <2>6
<1>5. IntBytes \in T
  <2> HIDE DEF T
  <2>1. \A m \in 0..IntBytes : m \in T
    BY <1>1, <1>3, <1>4, UpTo
  <2> QED BY <1>1, <2>1
<1> QED BY <1>2, <1>5, LeadingDigits DEF Summed

\* Half of the range of an int64 has the sign bit.
LEMMA Halves == Half \in Int /\ Half > 0 /\ 2 * Half = Width /\ Width \in Int
<1>1. Base = 2 * (Base \div 2) /\ Base \div 2 \in Int
  BY CodecAssumption, Widths
<1>2. IntBytes \in 1..IntBytes /\ IntBytes - 1 \in 0..IntBytes
  BY CodecAssumption
<1> DEFINE w == Base ^ (IntBytes - 1)
           h == Base \div 2
<1>3. Width = Base * w /\ w \in Int /\ w > 0 /\ Width \in Int /\ Base > 3
  BY <1>2, Widths
<1>4. Base = 2 * h /\ h \in Int
  BY <1>1
<1> HIDE DEF w, h
<1>5. h > 0
  BY <1>3, <1>4
<1> DEFINE p == h * w
<1>6. p \in Int /\ p > 0
  BY <1>3, <1>4, <1>5
<1>7. Width = 2 * p
  BY <1>3, <1>4
<1> HIDE DEF p
<1> QED BY <1>6, <1>7 DEF Half

\* An int64 survives as an unsigned number.
LEMMA WrappedBack ==
  ASSUME NEW n \in Int64
  PROVE  n % Width \in 0..(Width - 1) /\ Wrapped(n % Width) = n
<1> DEFINE w == Width
           h == Half
<1>1. n >= -h /\ n <= h - 1 /\ w \in Int /\ w > 0 /\ h \in Int /\ n \in Int /\ 2 * h = w
  BY Halves DEF Int64
<1> HIDE DEF w, h
<1>2. n % w = IF n >= 0 THEN n ELSE n + w
  BY <1>1
<1>3. n % w \in 0..(w - 1)
  BY <1>1, <1>2
<1>4. ((n % w) + h) % w = n + h
  <2>1. CASE n >= 0
    <3>1. n + h \in 0..(w - 1) /\ n % w = n
      BY <1>1, <1>2, <2>1
    <3>2. (n + h) % w = n + h
      BY <1>1, <3>1
    <3> QED BY <3>1, <3>2
  <2>2. CASE n < 0
    <3>1. n + h \in 0..(w - 1) /\ (n % w) + h = (n + h) + w
      BY <1>1, <1>2, <2>2
    <3>2. ((n + h) + w) % w = n + h
      BY <1>1, <3>1
    <3> QED BY <3>1, <3>2
  <2> QED BY <1>1, <2>1, <2>2
<1>5. Wrapped(n % w) = n
  BY <1>1, <1>4 DEF Wrapped, w, h
<1> QED BY <1>3, <1>5 DEF w
-----------------------------------------------------------------------------
(* Escaped strings are read back.                                          *)

\* The two parts of a concatenation are found again.
LEMMA ConcatParts ==
  ASSUME NEW a \in Seq(Int), NEW b \in Seq(Int)
  PROVE  /\ SubSeq(a \o b, 1, Len(a)) = a
         /\ SubSeq(a \o b, Len(a) + 1, Len(a \o b)) = b
         /\ a \o b \in Seq(Int) /\ Len(a \o b) = Len(a) + Len(b) /\ Len(a) \in Nat /\ Len(b) \in Nat
<1> DEFINE c == a \o b
           m == Len(a)
           n == Len(b)
<1>1. /\ c \in Seq(Int) /\ m \in Nat /\ n \in Nat /\ Len(c) = m + n
      /\ \A i \in 1..m : c[i] = a[i]
      /\ \A i \in 1..n : c[m + i] = b[i]
  BY ConcatAt
<1>2. \A i \in 1..(m + n) : c[i] \in Int
  BY <1>1
<1> HIDE DEF c
<1>3. SubSeq(c, 1, m) = a
  <2> DEFINE d == SubSeq(c, 1, m)
  <2>1. d \in Seq(Int) /\ Len(d) = m /\ \A i \in 1..m : d[i] = c[i]
    <3> HIDE DEF m, n
    <3>1. 1 \in Int /\ m \in Int /\ \A i \in 1..m : c[i] \in Int
      BY <1>1, <1>2
    <3>2. /\ SubSeq(c, 1, m) \in Seq(Int)
          /\ Len(SubSeq(c, 1, m)) = IF 1 <= m THEN m - 1 + 1 ELSE 0
          /\ \A i \in 1..(m - 1 + 1) : SubSeq(c, 1, m)[i] = c[1 + i - 1]
      BY <3>1, SubSeqProperties
    <3>3. m - 1 + 1 = m /\ (m = 0 \/ 1 <= m) /\ \A i \in 1..m : 1 + i - 1 = i
      BY <1>1
    <3> HIDE DEF d
    <3>4. Len(SubSeq(c, 1, m)) = m
      BY <1>1, <3>2, <3>3
    <3>5. ASSUME NEW i \in 1..m PROVE SubSeq(c, 1, m)[i] = c[i]
      BY <3>2, <3>3
    <3> QED BY <3>2, <3>4, <3>5 DEF d
  <2> HIDE DEF d
  <2>2. Len(d) = Len(a) /\ \A i \in 1..Len(d) : d[i] = a[i]
    BY <1>1, <2>1
  <2>3. d = a
    BY <2>1, <2>2, SeqEqual
  <2> QED BY <2>3 DEF d
<1>4. SubSeq(c, m + 1, m + n) = b
  <2> DEFINE d == SubSeq(c, m + 1, m + n)
  <2>1. d \in Seq(Int) /\ Len(d) = n /\ \A i \in 1..n : d[i] = c[m + i]
    <3> HIDE DEF m, n
    <3>1. m + 1 \in Int /\ m + n \in Int /\ \A i \in (m + 1)..(m + n) : c[i] \in Int
      BY <1>1, <1>2
    <3>2. /\ SubSeq(c, m + 1, m + n) \in Seq(Int)
          /\ Len(SubSeq(c, m + 1, m + n)) = IF m + 1 <= m + n THEN m + n - (m + 1) + 1 ELSE 0
          /\ \A i \in 1..(m + n - (m + 1) + 1) : SubSeq(c, m + 1, m + n)[i] = c[m + 1 + i - 1]
      <4> DEFINE lo == m + 1
                 hi == m + n
      <4> HIDE DEF d, lo, hi
      <4>1. lo \in Int /\ hi \in Int /\ \A i \in lo..hi : c[i] \in Int
        BY <3>1 DEF lo, hi
      <4>2. /\ SubSeq(c, lo, hi) \in Seq(Int)
            /\ Len(SubSeq(c, lo, hi)) = IF lo <= hi THEN hi - lo + 1 ELSE 0
            /\ \A i \in 1..(hi - lo + 1) : SubSeq(c, lo, hi)[i] = c[lo + i - 1]
        BY <4>1, SubSeqProperties
      <4>3. hi - lo + 1 = m + n - (m + 1) + 1
        BY <1>1 DEF lo, hi
      <4> QED BY <4>2, <4>3, Zenon DEF lo, hi
    <3>3. m + n - (m + 1) + 1 = n /\ (n = 0 \/ m + 1 <= m + n) /\ \A i \in 1..n : m + 1 + i - 1 = m + i
      BY <1>1
    <3> HIDE DEF d
    <3>4. Len(SubSeq(c, m + 1, m + n)) = n
      BY <1>1, <3>2, <3>3
    <3>5. ASSUME NEW i \in 1..n PROVE SubSeq(c, m + 1, m + n)[i] = c[m + i]
      BY <3>2, <3>3
    <3> QED BY <3>2, <3>4, <3>5 DEF d
  <2> HIDE DEF d
  <2>2. Len(d) = Len(b) /\ \A i \in 1..Len(d) : d[i] = b[i]
    BY <1>1, <2>1
  <2>3. d = b
    BY <2>1, <2>2, SeqEqual
  <2> QED BY <2>3 DEF d
<1> QED BY <1>1, <1>3, <1>4 DEF c

LEMMA GrownStr ==
  ASSUME NEW ch, NEW t, NEW rest
  PROVE  Grown(ch, Decoded(StrCell(t), rest)) = Decoded(StrCell(<<ch>> \o t), rest)
<1> DEFINE yes == TRUE
           u == <<ch>> \o t
           zero == 0
           d == [ok |-> yes, cell |-> [type |-> TypeStr, i64 |-> zero, str |-> t], rest |-> rest]
<1> HIDE DEF yes, u, zero
<1>1. d.cell.str = t
  OBVIOUS
<1>2. [d EXCEPT !.cell.str = u] = [ok |-> yes, cell |-> [type |-> TypeStr, i64 |-> zero, str |-> u], rest |-> rest]
  OBVIOUS
<1>3. Grown(ch, d) = [d EXCEPT !.cell.str = u]
  <2>1. Grown(ch, d) = [d EXCEPT !.cell.str = <<ch>> \o d.cell.str]
    BY DEF Grown
  <2> QED BY <1>1, <2>1 DEF u
<1> QED BY <1>2, <1>3 DEF Decoded, StrCell, Cell, yes, u, zero

\* What a string is read back as.
LEMMA DecodeStrBack ==
  ASSUME NEW cell, cell.type # TypeI64, cell.str \in Seq(Nat), NEW rest \in Seq(Int)
  PROVE  DecodeStrKey(EncodeKey(cell) \o rest) = Decoded(StrCell(cell.str), rest)
<1> DEFINE s == cell.str
           es == Append(EscapedStr(s), <<0>>)
           m == Len(s)
           data == EncodeKey(cell) \o rest
           n == Len(data)
<1>1. s \in Seq(Int) /\ m \in Nat /\ \A k \in 1..m : s[k] \in Nat
  <2>1. Nat \subseteq Int
    OBVIOUS
  <2>2. s \in Seq(Int)
    BY <2>1, SeqMonotonic
  <2> QED BY <2>2
<1>2. es \in Seq(Seq(Int)) /\ EncodeKey(cell) = FlattenSeq(es) /\ EscapedStr(s) \in Seq(Seq(Int))
  BY <1>1, EncodeStr
<1>3. Len(es) = m + 1 /\ es[m + 1] = <<0>> /\ \A k \in 1..m : es[k] = Escaped(s[k])
  <2>1. Len(EscapedStr(s)) = m /\ \A j \in 1..m : EscapedStr(s)[j] = Escaped(s[j])
    BY <1>1 DEF EscapedStr
  <2>2. <<0>> \in Seq(Int)
    OBVIOUS
  <2> DEFINE e == EscapedStr(s)
  <2> HIDE DEF e
  <2>3. e \in Seq(Seq(Int))
    BY <1>2 DEF e
  <2>4. /\ Len(Append(e, <<0>>)) = Len(e) + 1 /\ Append(e, <<0>>)[Len(e) + 1] = <<0>>
        /\ \A j \in 1..Len(e) : Append(e, <<0>>)[j] = e[j]
    BY <2>2, <2>3, AppendProperties
  <2> QED BY <2>1, <2>4 DEF e
<1>4. PICK f : Joined(es, m + 1, f) /\ \A k \in 0..(m + 1) : f[k] \in Seq(Int)
  <2>1. \E f : Joined(es, Len(es), f) /\ \A k \in 0..Len(es) : f[k] \in Seq(Int)
    BY <1>2, FlattenRounds
  <2> HIDE DEF es, m
  <2> QED BY <1>3, <2>1
<1> HIDE DEF es
<1>5. \A k \in 1..(m + 1) : es[k] \in Seq(Int)
  BY <1>2, <1>3
<1>6. f[m + 1] \in Seq(Int) /\ data = f[m + 1] \o rest
  BY <1>1, <1>2, <1>4 DEF Joined
<1>7. data \in Seq(Int) /\ n \in Nat
  BY <1>6, ConcatProperties, LenProperties
<1>8. PICK F : DecodeStrKey(data) = F[1] /\ \A i \in 1..(n + 1) : F[i] = StrStep(data, F, i)
  BY <1>7, DecodeStrRounds
<1> DEFINE at(k) == Len(f[k - 1])
<1> HIDE DEF data, m, n
\* Where the parts lie.
<1>9. ASSUME NEW k \in 1..(m + 1)
      PROVE  /\ at(k) \in Nat /\ Len(es[k]) \in Nat /\ at(k) + Len(es[k]) <= n
             /\ \A j \in 1..Len(es[k]) : data[at(k) + j] = es[k][j]
             /\ k <= m => at(k + 1) = at(k) + Len(es[k])
  <2> DEFINE p == f[k - 1]
             e == es[k]
  <2>1. k - 1 \in 0..(m + 1) /\ k \in 0..(m + 1) /\ m + 1 \in Nat
    BY <1>1
  <2>2. p \in Seq(Int) /\ e \in Seq(Int) /\ f[k] = p \o e /\ f[k] \in Seq(Int)
    BY <1>4, <1>5, <2>1 DEF Joined
  <2>3. PICK u \in Seq(Int) : f[m + 1] = f[k] \o u
    <3> HIDE DEF at, p, e, s
    <3> DEFINE q == m + 1
    <3>1. Joined(es, q, f) /\ (\A j \in 1..q : es[j] \in Seq(Int)) /\ \A j \in 0..q : f[j] \in Seq(Int)
      BY <1>4, <1>5
    <3>2. q \in Nat /\ k \in 0..q
      BY <2>1
    <3> HIDE DEF q
    <3>3. Extends(f[q], f[k])
      BY <3>1, <3>2, JoinedAhead
    <3> QED BY <3>3 DEF q, Extends
  <2>4. data = f[k] \o (u \o rest) /\ u \o rest \in Seq(Int)
    <3> DEFINE b == f[k]
    <3>1. b \in Seq(Int)
      BY <2>2
    <3> HIDE DEF b
    <3>2. (b \o u) \o rest = b \o (u \o rest)
      BY <3>1, ConcatAssociative
    <3>4. data = (b \o u) \o rest
      BY <1>6, <2>3 DEF b
    <3>3. u \o rest \in Seq(Int)
      BY ConcatProperties
    <3> QED BY <3>2, <3>3, <3>4 DEF b
  <2> HIDE DEF p, e
  <2>5. /\ Len(p) \in Nat /\ Len(e) \in Nat /\ Len(f[k]) = Len(p) + Len(e)
        /\ \A j \in 1..Len(e) : f[k][Len(p) + j] = e[j]
    BY <2>2, ConcatAt
  <2>6. /\ Len(u \o rest) \in Nat /\ n = Len(f[k]) + Len(u \o rest)
        /\ \A j \in 1..Len(f[k]) : data[j] = f[k][j]
    BY <2>2, <2>4, ConcatAt DEF n
  <2>7. ASSUME NEW j \in 1..Len(e) PROVE data[Len(p) + j] = e[j]
    <3>1. Len(p) + j \in 1..Len(f[k])
      BY <2>5
    <3> QED BY <2>5, <2>6, <3>1
  <2>8. Len(p) + Len(e) <= n
    BY <2>5, <2>6
  <2>9. (k + 1) - 1 = k
    BY <1>1
  <2> QED BY <2>5, <2>7, <2>8, <2>9 DEF p, e
<1> DEFINE From(k) == SubSeq(s, k, m)
           T == {i \in Nat : F[at(m + 1 - i) + 1] = Decoded(StrCell(From(m + 1 - i)), rest)}
<1>10. 0 \in T
  <2> DEFINE a == at(m + 1)
  <2>1. m + 1 \in 1..(m + 1) /\ m + 1 - 0 = m + 1 /\ ~(m + 1 <= m)
    BY <1>1
  <2>2. a \in Nat /\ a + 1 <= n /\ data[a + 1] = 0 /\ n = a + 1 + Len(rest) /\ Len(rest) \in Nat
    <3>1. es[m + 1] = <<0>> /\ Len(es[m + 1]) = 1
      BY <1>3
    <3>2. f[m + 1] = f[m] \o <<0>> /\ (m + 1) - 1 = m /\ m \in 0..(m + 1)
      <4>1. (m + 1) - 1 = m /\ m \in 0..(m + 1)
        BY <1>1
      <4>2. f[m + 1] = f[(m + 1) - 1] \o es[m + 1]
        BY <1>4, <2>1 DEF Joined
      <4> QED BY <3>1, <4>1, <4>2
    <3>3. Len(f[m + 1]) = Len(f[m]) + 1 /\ Len(f[m]) \in Nat
      <4>1. <<0>> \in Seq(Int) /\ f[m] \in Seq(Int) /\ Len(<<0>>) = 1
        BY <1>4, <3>2
      <4> QED BY <3>2, <4>1, ConcatAt
    <3>4. n = Len(f[m + 1]) + Len(rest) /\ Len(rest) \in Nat
      BY <1>6, ConcatAt DEF n
    <3>5. 1 \in 1..Len(es[m + 1]) /\ es[m + 1][1] = 0
      BY <3>1
    <3>6. data[at(m + 1) + 1] = 0
      BY <1>9, <2>1, <3>5
    <3>7. a = Len(f[m])
      BY <3>2
    <3> HIDE DEF a
    <3> QED BY <3>3, <3>4, <3>6, <3>7 DEF a
  <2>3. SubSeq(data, a + 2, n) = rest
    <3> DEFINE b == f[m + 1]
    <3>1. b \in Seq(Int) /\ data = b \o rest
      BY <1>6
    <3> HIDE DEF b
    <3>2. SubSeq(b \o rest, Len(b) + 1, Len(b \o rest)) = rest /\ Len(b \o rest) = Len(b) + Len(rest) /\ Len(b) \in Nat
      BY <3>1, ConcatParts
    <3> HIDE DEF a
    <3>3. Len(b) = a + 1
      BY <2>2, <3>1, <3>2 DEF n
    <3>4. Len(b) + 1 = a + 2
      BY <2>2, <3>3
    <3> QED BY <3>1, <3>2, <3>4 DEF n
  <2> HIDE DEF a
  <2>4. F[a + 1] = StrStep(data, F, a + 1)
    <3>1. a + 1 \in 1..(n + 1)
      BY <2>2
    <3> QED BY <1>8, <3>1
  <2>5. a + 1 + 1 = a + 2 /\ ~(a + 1 > n)
    BY <1>7, <2>2
  <2>6. F[a + 1] = Decoded(StrCell(<<>>), rest)
    BY <2>2, <2>3, <2>4, <2>5 DEF StrStep, n
  <2>7. From(m + 1) = <<>>
    <3>1. m + 1 \in Int /\ m \in Int /\ m < m + 1
      BY <1>1
    <3> QED BY <3>1, SubSeqEmpty
  <2> QED BY <2>1, <2>6, <2>7 DEF a
<1>11. ASSUME NEW i \in 0..(m - 1), i \in T PROVE i + 1 \in T
  <2> DEFINE k == m - i
             a == at(k)
             c == s[k]
  <2>1. k \in 1..m /\ k \in 1..(m + 1) /\ k + 1 = m + 1 - i /\ k = m + 1 - (i + 1) /\ i + 1 \in Nat
    BY <1>1
  <2>2. F[at(k + 1) + 1] = Decoded(StrCell(From(k + 1)), rest)
    BY <1>11, <2>1
  <2>3. c \in Nat /\ es[k] = Escaped(c)
    BY <1>1, <1>3, <2>1
  <2>4. /\ a \in Nat /\ Len(es[k]) \in Nat /\ a + Len(es[k]) <= n /\ at(k + 1) = a + Len(es[k])
        /\ \A j \in 1..Len(es[k]) : data[a + j] = es[k][j]
    <3>1. k \in 1..(m + 1) /\ k <= m
      BY <1>1, <2>1
    <3> HIDE DEF k, at
    <3> QED BY <1>9, <3>1
  <2>5. From(k) = <<c>> \o From(k + 1)
    <3>1. k \in 1..Len(s) /\ m \in k..Len(s)
      BY <1>1, <2>1 DEF m
    <3> HIDE DEF k
    <3> QED BY <1>1, <3>1, SubSeqRecursiveFirst
  <2> DEFINE next == F[at(k + 1) + 1]
             there == at(k + 1) + 1
  <2> HIDE DEF k, From, at, a, c
  <2>6. F[a + 1] = Grown(c, F[there])
    <3>1. CASE c \in {0, 1}
      <4>1. es[k] = <<1, c + 1>>
        BY <2>3, <3>1 DEF Escaped
      <4>2. Len(es[k]) = 2 /\ es[k][1] = 1 /\ es[k][2] = c + 1
        BY <4>1
      <4>3. a + 2 <= n /\ data[a + 1] = 1 /\ data[a + 2] = c + 1 /\ there = a + 3
        <5>1. 1 \in 1..Len(es[k]) /\ 2 \in 1..Len(es[k])
          BY <4>2
        <5> QED BY <2>4, <4>2, <5>1
      <4>4. a + 1 \in 1..(n + 1) /\ a + 1 + 1 = a + 2 /\ a + 1 + 2 = a + 3 /\ ~(a + 1 > n) /\ a + 1 # n
        BY <1>7, <2>4, <4>3
      <4>5. F[a + 1] = StrStep(data, F, a + 1)
        BY <1>8, <4>4
      <4>6. c + 1 \in {1, 2} /\ (c + 1) - 1 = c
        BY <3>1
      <4> HIDE DEF there
      <4> QED BY <4>3, <4>4, <4>5, <4>6 DEF StrStep, n
    <3>2. CASE c \notin {0, 1}
      <4>1. es[k] = <<c>>
        BY <2>3, <3>2 DEF Escaped
      <4>2. Len(es[k]) = 1 /\ es[k][1] = c
        BY <4>1
      <4>3. a + 1 <= n /\ data[a + 1] = c /\ there = a + 2
        <5>1. 1 \in 1..Len(es[k])
          BY <4>2
        <5> QED BY <2>4, <4>2, <5>1
      <4>4. a + 1 \in 1..(n + 1) /\ a + 1 + 1 = a + 2 /\ ~(a + 1 > n)
        BY <1>7, <2>4, <4>3
      <4>5. F[a + 1] = StrStep(data, F, a + 1)
        BY <1>8, <4>4
      <4> HIDE DEF there
      <4> QED BY <3>2, <4>3, <4>4, <4>5 DEF StrStep, n
    <3> QED BY <3>1, <3>2
  <2>7. Grown(c, Decoded(StrCell(From(k + 1)), rest)) = Decoded(StrCell(<<c>> \o From(k + 1)), rest)
    BY GrownStr
  <2>8. F[a + 1] = Decoded(StrCell(From(k)), rest)
    BY <2>2, <2>5, <2>6, <2>7
  <2>9. F[at(m + 1 - (i + 1)) + 1] = Decoded(StrCell(From(m + 1 - (i + 1))), rest)
    BY <2>1, <2>8 DEF a
  <2> QED BY <2>1, <2>9
<1>12. m \in T
  <2> HIDE DEF T
  <2>1. \A i \in 0..m : i \in T
    BY <1>1, <1>10, <1>11, UpTo
  <2> QED BY <1>1, <2>1
<1>13. F[1] = Decoded(StrCell(s), rest)
  <2>1. m + 1 - m = 1 /\ 1 - 1 = 0
    BY <1>1
  <2>2. at(1) = 0
    BY <1>4, <2>1 DEF Joined
  <2>3. From(1) = s
    BY <1>1, SubSeqFull DEF m
  <2>4. F[at(1) + 1] = Decoded(StrCell(From(1)), rest)
    BY <1>12, <2>1
  <2>5. 0 + 1 = 1
    OBVIOUS
  <2> HIDE DEF at, From
  <2> QED BY <2>2, <2>3, <2>4, <2>5
<1> QED BY <1>8, <1>13 DEF data
-----------------------------------------------------------------------------
(* Cells are read back, with what follows them.                            *)

\* What a cell is decoded to: the field its type does not use is empty.
Plain(cell) == IF cell.type = TypeI64 THEN IntCell(cell.i64) ELSE StrCell(cell.str)

LEMMA PlainSame ==
  ASSUME NEW cell \in Cells
  PROVE  /\ Plain(cell) \in Cells /\ Plain(cell).type = cell.type
         /\ EncodeKey(Plain(cell)) = EncodeKey(cell) /\ EncodeVal(Plain(cell)) = EncodeVal(cell)
<1>1. 0 \in Int64 /\ cell.i64 \in Int64 /\ cell.str \in Seq(0..ByteMax) /\ cell.type \in {TypeI64, TypeStr}
  <2>1. 0 \in Int64
    <3> QED BY Halves DEF Int64
  <2> QED BY <2>1 DEF Cells
<1>2. CASE cell.type = TypeI64
  <2> DEFINE c == IntCell(cell.i64)
  <2>1. Plain(cell) = c /\ c.type = TypeI64 /\ c.i64 = cell.i64 /\ c = [type |-> TypeI64, i64 |-> cell.i64, str |-> <<>>]
    BY <1>2 DEF Plain, IntCell, Cell
  <2>2. c \in Cells
    <3>1. <<>> \in Seq(0..ByteMax)
      OBVIOUS
    <3> HIDE DEF c
    <3> QED BY <1>1, <2>1, <3>1 DEF Cells
  <2> HIDE DEF c
  <2> QED BY <1>2, <2>1, <2>2 DEF EncodeKey, EncodeVal
<1>3. CASE cell.type = TypeStr
  <2> DEFINE c == StrCell(cell.str)
  <2>1. TypeStr # TypeI64
    BY DEF TypeStr, TypeI64
  <2>2. Plain(cell) = c /\ c.type = TypeStr /\ c.str = cell.str /\ c = [type |-> TypeStr, i64 |-> 0, str |-> cell.str]
    BY <1>3, <2>1 DEF Plain, StrCell, Cell
  <2>3. c \in Cells
    <3> DEFINE zero == 0
    <3>1. zero \in Int64 /\ c = [type |-> TypeStr, i64 |-> zero, str |-> cell.str]
      BY <1>1, <2>2
    <3> HIDE DEF c, zero
    <3> QED BY <1>1, <3>1 DEF Cells
  <2> HIDE DEF c
  <2> QED BY <1>3, <2>1, <2>2, <2>3 DEF EncodeKey, EncodeVal
<1> QED BY <1>1, <1>2, <1>3

LEMMA DecodeKeyBack ==
  ASSUME NEW cell \in Cells, NEW rest \in Seq(Int)
  PROVE  DecodeKey(cell.type, EncodeKey(cell) \o rest) = Decoded(Plain(cell), rest)
<1>1. cell.i64 \in Int64 /\ cell.str \in Seq(0..ByteMax) /\ cell.type \in {TypeI64, TypeStr}
  BY DEF Cells
<1>2. CASE cell.type = TypeI64
  <2> DEFINE u == cell.i64 + Half
             e == Digits(u)
             data == e \o rest
  <2>1. u \in 0..(Width - 1) /\ u - Half = cell.i64
    BY CellsType, Halves
  <2>2. Number(e) = u /\ e \in Seq(Int) /\ Len(e) = IntBytes /\ EncodeKey(cell) = e
    BY <1>2, <2>1, NumberOfDigits, DigitsType, DigitsLen DEF EncodeKey
  <2>3. TypeI64 # TypeStr
    BY DEF TypeI64, TypeStr
  <2> HIDE DEF u, e
  <2>4. /\ SubSeq(data, 1, IntBytes) = e /\ SubSeq(data, IntBytes + 1, Len(data)) = rest
        /\ ~(Len(data) < IntBytes)
    <3>1. /\ SubSeq(e \o rest, 1, Len(e)) = e /\ SubSeq(e \o rest, Len(e) + 1, Len(e \o rest)) = rest
          /\ Len(e \o rest) = Len(e) + Len(rest) /\ Len(e) \in Nat /\ Len(rest) \in Nat
      BY <2>2, ConcatParts
    <3> QED BY <2>2, <3>1
  <2> HIDE DEF data
  <2>5. DecodeKey(cell.type, data) = Decoded(IntCell(Number(SubSeq(data, 1, IntBytes)) - Half), SubSeq(data, IntBytes + 1, Len(data)))
    BY <1>2, <2>3, <2>4 DEF DecodeKey
  <2>6. DecodeKey(cell.type, data) = Decoded(IntCell(cell.i64), rest)
    BY <2>1, <2>2, <2>4, <2>5
  <2> QED BY <1>2, <2>2, <2>6 DEF Plain, data
<1>3. CASE cell.type = TypeStr
  <2>1. cell.type # TypeI64 /\ cell.str \in Seq(Nat)
    <3>1. 0..ByteMax \subseteq Nat
      OBVIOUS
    <3>2. cell.str \in Seq(Nat)
      BY <1>1, <3>1, SeqMonotonic
    <3> QED BY <1>3, <3>2 DEF TypeI64, TypeStr
  <2>2. DecodeStrKey(EncodeKey(cell) \o rest) = Decoded(StrCell(cell.str), rest)
    BY <2>1, DecodeStrBack
  <2> QED BY <1>3, <2>1, <2>2 DEF DecodeKey, Plain
<1> QED BY <1>1, <1>2, <1>3

LEMMA MiddlePart ==
  ASSUME NEW a \in Seq(Int), NEW b \in Seq(Int), NEW c \in Seq(Int)
  PROVE  SubSeq((a \o b) \o c, Len(a) + 1, Len(a) + Len(b)) = b
<1> DEFINE e == (a \o b) \o c
           m == Len(a)
           n == Len(b)
           lo == m + 1
           hi == m + n
           d == SubSeq(e, lo, hi)
<1>1. /\ m \in Nat /\ n \in Nat /\ a \o b \in Seq(Int) /\ Len(a \o b) = m + n
      /\ \A i \in 1..n : (a \o b)[m + i] = b[i]
  BY ConcatAt
<1> DEFINE ab == a \o b
<1>2. ab \in Seq(Int) /\ Len(ab) = m + n /\ \A i \in 1..n : ab[m + i] = b[i]
  BY <1>1
<1> HIDE DEF ab
<1>3. ab \o c \in Seq(Int) /\ \A i \in 1..Len(ab) : (ab \o c)[i] = ab[i]
  BY <1>2, ConcatAt
<1>4. e = ab \o c
  BY DEF ab
<1> HIDE DEF m, n, e
<1>5. ASSUME NEW i \in 1..n PROVE e[m + i] = b[i]
  <2>1. m + i \in 1..Len(ab)
    BY <1>1, <1>2
  <2> QED BY <1>2, <1>3, <1>4, <2>1
<1>6. lo \in Int /\ hi \in Int /\ \A i \in lo..hi : e[i] \in Int
  <2>1. lo \in Int /\ hi \in Int
    BY <1>1
  <2>2. ASSUME NEW i \in lo..hi PROVE e[i] \in Int
    <3>1. i \in 1..Len(ab)
      BY <1>1, <1>2
    <3> QED BY <1>2, <1>3, <1>4, <3>1
  <2> QED BY <2>1, <2>2
<1>7. /\ hi - lo + 1 = n /\ (n = 0 \/ lo <= hi) /\ \A i \in 1..n : lo + i - 1 = m + i
  BY <1>1
<1> HIDE DEF lo, hi, d
<1>8. /\ SubSeq(e, lo, hi) \in Seq(Int)
      /\ Len(SubSeq(e, lo, hi)) = IF lo <= hi THEN hi - lo + 1 ELSE 0
      /\ \A i \in 1..(hi - lo + 1) : SubSeq(e, lo, hi)[i] = e[lo + i - 1]
  BY <1>6, SubSeqProperties
<1>9. d \in Seq(Int)
  BY <1>8 DEF d
<1>10. Len(d) = n
  BY <1>1, <1>7, <1>8 DEF d
<1>11. ASSUME NEW i \in 1..n PROVE d[i] = b[i]
  BY <1>5, <1>7, <1>8 DEF d
<1>12. d = b
  <2>1. Len(d) = Len(b) /\ \A i \in 1..Len(d) : d[i] = b[i]
    BY <1>10, <1>11 DEF n
  <2> QED BY <1>9, <2>1, SeqEqual
<1> QED BY <1>12 DEF d, lo, hi, m, n, e

LEMMA ReverseTwice ==
  ASSUME NEW d \in Seq(Int)
  PROVE  Reverse(d) \in Seq(Int) /\ Len(Reverse(d)) = Len(d) /\ Reverse(Reverse(d)) = d
<1> DEFINE n == Len(d)
           r == Reverse(d)
           t == Reverse(r)
<1>1. n \in Nat /\ \A i \in 1..n : d[i] \in Int
  OBVIOUS
<1>2. r = [i \in 1..n |-> d[(n - i) + 1]]
  BY DEF Reverse
<1> HIDE DEF n, r
<1>3. ASSUME NEW i \in 1..n PROVE (n - i) + 1 \in 1..n /\ (n - ((n - i) + 1)) + 1 = i
  BY <1>1
<1>4. r \in Seq(Int) /\ Len(r) = n
  <2>1. \A i \in 1..n : d[(n - i) + 1] \in Int
    BY <1>1, <1>3
  <2> QED BY <1>1, <1>2, <2>1
<1>5. t = [i \in 1..n |-> r[(n - i) + 1]]
  BY <1>4 DEF Reverse
<1> HIDE DEF t
<1>6. t \in Seq(Int) /\ Len(t) = n
  <2>1. \A i \in 1..n : r[(n - i) + 1] \in Int
    BY <1>3, <1>4
  <2> QED BY <1>1, <1>5, <2>1
<1>7. ASSUME NEW i \in 1..n PROVE t[i] = d[i]
  <2>1. t[i] = r[(n - i) + 1]
    BY <1>5
  <2>2. r[(n - i) + 1] = d[(n - ((n - i) + 1)) + 1]
    BY <1>2, <1>3
  <2> QED BY <1>3, <2>1, <2>2
<1>8. t = d
  BY <1>6, <1>7, SeqEqual DEF n
<1> QED BY <1>4, <1>8 DEF r, t, n

LEMMA DecodeValBack ==
  ASSUME NEW cell \in Cells, NEW rest \in Seq(Int)
  PROVE  EncodeVal(cell) \in Seq(Int) /\ DecodeVal(cell.type, EncodeVal(cell) \o rest) = Decoded(Plain(cell), rest)
<1>1. cell.i64 \in Int64 /\ cell.str \in Seq(Int) /\ cell.type \in {TypeI64, TypeStr} /\ TypeI64 # TypeStr
  BY CellsType DEF Cells, TypeI64, TypeStr
<1> DEFINE e == EncodeVal(cell)
           data == e \o rest
<1>2. CASE cell.type = TypeI64
  <2> DEFINE u == cell.i64 % Width
             d == Digits(u)
  <2>1. u \in 0..(Width - 1) /\ Wrapped(u) = cell.i64 /\ u \in Int
    BY <1>1, WrappedBack
  <2>2. Number(d) = u /\ d \in Seq(Int) /\ Len(d) = IntBytes /\ e = Reverse(d)
    <3>1. Number(d) = u /\ Len(d) = IntBytes /\ e = Reverse(d)
      BY <1>2, <2>1, NumberOfDigits, DigitsLen DEF EncodeVal
    <3> HIDE DEF u, e
    <3>2. d \in Seq(Int)
      BY <2>1, DigitsType
    <3> QED BY <3>1, <3>2
  <2> HIDE DEF u, d, e
  <2>3. e \in Seq(Int) /\ Len(e) = IntBytes /\ Reverse(e) = d
    BY <2>2, ReverseTwice
  <2>4. /\ SubSeq(data, 1, IntBytes) = e /\ SubSeq(data, IntBytes + 1, Len(data)) = rest
        /\ ~(IntBytes > Len(data))
    <3>1. /\ SubSeq(e \o rest, 1, Len(e)) = e /\ SubSeq(e \o rest, Len(e) + 1, Len(e \o rest)) = rest
          /\ Len(e \o rest) = Len(e) + Len(rest) /\ Len(e) \in Nat /\ Len(rest) \in Nat
      BY <2>3, ConcatParts
    <3> QED BY <2>3, <3>1
  <2> HIDE DEF data
  <2>5. DecodeVal(cell.type, data) = Decoded(IntCell(Wrapped(Number(Reverse(SubSeq(data, 1, IntBytes))))),
                                             SubSeq(data, IntBytes + 1, Len(data)))
    BY <1>2, <2>4 DEF DecodeVal
  <2>6. DecodeVal(cell.type, data) = Decoded(IntCell(cell.i64), rest)
    BY <2>1, <2>2, <2>3, <2>4, <2>5
  <2> QED BY <1>2, <2>3, <2>6 DEF Plain, data, e
<1>3. CASE cell.type = TypeStr
  <2> DEFINE s == cell.str
             m == Len(s)
             h == <<m>>
  <2>1. e = h \o s
    BY <1>1, <1>3 DEF EncodeVal
  <2>2. s \in Seq(Int) /\ m \in Nat /\ h \in Seq(Int) /\ Len(h) = 1 /\ h[1] = m
    <3>1. s \in Seq(Int) /\ m \in Nat
      BY <1>1, LenProperties
    <3> HIDE DEF m
    <3> QED BY <3>1
  <2> HIDE DEF e, m, h, s
  <2>3. e \in Seq(Int) /\ Len(e) = 1 + m
    <3>1. h \o s \in Seq(Int) /\ Len(h \o s) = Len(h) + Len(s)
      BY <2>2, ConcatAt
    <3> QED BY <2>1, <2>2, <3>1 DEF m
  <2>4. SubSeq(data, 2, 1 + m) = s
    <3>1. SubSeq((h \o s) \o rest, Len(h) + 1, Len(h) + Len(s)) = s
      BY <2>2, MiddlePart
    <3>2. Len(h) + 1 = 2 /\ Len(h) + Len(s) = 1 + m
      BY <2>2 DEF m
    <3> QED BY <2>1, <3>1, <3>2
  <2>5. SubSeq(data, (1 + m) + 1, Len(data)) = rest /\ ~(1 + m > Len(data)) /\ data \in Seq(Int) /\ Len(data) >= 1
    <3>1. /\ SubSeq(e \o rest, Len(e) + 1, Len(e \o rest)) = rest
          /\ Len(e \o rest) = Len(e) + Len(rest) /\ Len(rest) \in Nat /\ e \o rest \in Seq(Int)
      BY <2>3, ConcatParts
    <3> QED BY <2>2, <2>3, <3>1
  <2>6. data[1] = m
    <3>1. e[1] = m
      <4>1. 1 \in 1..Len(h) /\ \A i \in 1..Len(h) : (h \o s)[i] = h[i]
        BY <2>2, ConcatAt
      <4> QED BY <2>1, <2>2, <4>1
    <3>2. 1 \in 1..Len(e) /\ \A i \in 1..Len(e) : (e \o rest)[i] = e[i]
      BY <2>2, <2>3, ConcatAt
    <3> QED BY <3>1, <3>2
  <2>7. data # <<>>
    BY <2>5
  <2> HIDE DEF data
  <2>8. DecodeVal(cell.type, data) = Decoded(StrCell(s), rest)
    <3>1. DecodeVal(cell.type, data) = Decoded(StrCell(SubSeq(data, 2, 1 + m)), SubSeq(data, (1 + m) + 1, Len(data)))
      BY <1>1, <1>3, <2>5, <2>6, <2>7 DEF DecodeVal
    <3> QED BY <2>4, <2>5, <3>1
  <2> QED BY <1>1, <1>3, <2>3, <2>8 DEF Plain, data, e, s
<1> QED BY <1>1, <1>2, <1>3
-----------------------------------------------------------------------------
(* Rows are read back.                                                     *)

LEMMA ThreeParts ==
  ASSUME NEW a \in Seq(Int), NEW b \in Seq(Int), NEW c \in Seq(Int)
  PROVE  (a \o b) \o c = a \o (b \o c) /\ b \o c \in Seq(Int)
<1>1. (a \o b) \o c = a \o (b \o c)
  BY ConcatAssociative
<1>2. b \o c \in Seq(Int)
  BY ConcatProperties
<1> QED BY <1>1, <1>2

\* What follows the first pieces of a concatenation.
Rests(s, rest, r) ==
    /\ r[0] = FlattenSeq(s) \o rest /\ r[Len(s)] = rest
    /\ \A k \in 0..Len(s) : r[k] \in Seq(Int)
    /\ \A k \in 1..Len(s) : r[k - 1] = s[k] \o r[k]

LEMMA FlattenRests ==
  ASSUME NEW s \in Seq(Seq(Int)), NEW rest \in Seq(Int)
  PROVE  \E r : Rests(s, rest, r)
<1> DEFINE n == Len(s)
<1>1. n \in Nat /\ \A k \in 1..n : s[k] \in Seq(Int)
  OBVIOUS
<1>2. PICK f : Joined(s, n, f) /\ \A k \in 0..n : f[k] \in Seq(Int)
  BY FlattenRounds
<1> HIDE DEF n
<1> DEFINE data == f[n] \o rest
           r == [k \in 0..n |-> SubSeq(data, Len(f[k]) + 1, Len(data))]
<1>3. /\ f[n] \in Seq(Int) /\ f[0] = <<>> /\ f[n] = FlattenSeq(s) /\ n \in 0..n /\ 0 \in 0..n
      /\ \A k \in 1..n : f[k] = f[k - 1] \o s[k] /\ k \in 0..n /\ k - 1 \in 0..n
  <2>1. n \in 0..n /\ 0 \in 0..n /\ \A k \in 1..n : k \in 0..n /\ k - 1 \in 0..n
    BY <1>1
  <2> QED BY <1>2, <2>1 DEF Joined
<1> HIDE DEF data
<1>4. ASSUME NEW k \in 0..n, NEW w \in Seq(Int), data = f[k] \o w PROVE r[k] = w
  <2> DEFINE a == f[k]
  <2>1. a \in Seq(Int)
    BY <1>2
  <2>2. r[k] = SubSeq(data, Len(a) + 1, Len(data)) /\ data = a \o w
    BY <1>4
  <2> HIDE DEF a, r
  <2>3. SubSeq(a \o w, Len(a) + 1, Len(a \o w)) = w
    BY <2>1, ConcatParts
  <2> QED BY <2>2, <2>3
<1> HIDE DEF r
<1>5. ASSUME NEW k \in 0..n PROVE r[k] \in Seq(Int) /\ data = f[k] \o r[k]
  <2>1. PICK u \in Seq(Int) : f[n] = f[k] \o u
    <3>1. Extends(f[n], f[k])
      BY <1>1, <1>2, JoinedAhead
    <3> QED BY <3>1 DEF Extends
  <2> DEFINE a == f[k]
  <2>2. a \in Seq(Int)
    BY <1>2
  <2> HIDE DEF a
  <2>3. (a \o u) \o rest = a \o (u \o rest) /\ u \o rest \in Seq(Int)
    BY <2>2, ThreeParts
  <2>4. data = f[k] \o (u \o rest)
    <3>1. data = (a \o u) \o rest
      BY <2>1 DEF data, a
    <3> QED BY <2>3, <3>1 DEF a
  <2>5. r[k] = u \o rest
    BY <1>4, <2>3, <2>4
  <2> QED BY <2>3, <2>4, <2>5
<1>6. ASSUME NEW k \in 1..n PROVE r[k - 1] = s[k] \o r[k]
  <2> DEFINE a == f[k - 1]
             b == s[k]
             c == r[k]
  <2>1. a \in Seq(Int) /\ b \in Seq(Int) /\ c \in Seq(Int) /\ k - 1 \in 0..n
    BY <1>1, <1>2, <1>3, <1>5
  <2>2. data = (a \o b) \o c
    <3>1. k \in 0..n /\ f[k] = a \o b
      BY <1>3
    <3> QED BY <1>5, <3>1
  <2> HIDE DEF a, b, c
  <2>3. (a \o b) \o c = a \o (b \o c) /\ b \o c \in Seq(Int)
    BY <2>1, ThreeParts
  <2>4. data = f[k - 1] \o (b \o c)
    BY <2>2, <2>3 DEF a
  <2> DEFINE w == b \o c
  <2>5. w \in Seq(Int) /\ data = f[k - 1] \o w
    BY <2>3, <2>4
  <2> HIDE DEF w
  <2>6. r[k - 1] = w
    BY <1>4, <2>1, <2>5
  <2> QED BY <2>6 DEF w, b, c
<1>7. r[0] = data
  <2>1. data = <<>> \o r[0] /\ r[0] \in Seq(Int)
    BY <1>3, <1>5
  <2> QED BY <2>1, ConcatEmptySeq
<1>8. r[n] = rest
  BY <1>3, <1>4 DEF data
<1>9. Rests(s, rest, r)
  BY <1>3, <1>5, <1>6, <1>7, <1>8 DEF Rests, n, data
<1> QED BY <1>9

\* The cells of a row have the types of its columns.
TypedRow(schema, row) ==
    /\ DOMAIN row = DOMAIN schema.cols
    /\ \A i \in DOMAIN schema.cols : row[i] \in Cells /\ row[i].type = schema.cols[i].type

PlainRow(schema, row) == [i \in DOMAIN schema.cols |-> Plain(row[i])]

\* The row after the first k cells of the key.
KeyedRow(schema, row, k) ==
    [c \in DOMAIN schema.cols |-> IF \E i \in 1..k : schema.pkey[i] = c THEN Plain(row[c]) ELSE ErrCell]

LEMMA KeyBack ==
  ASSUME NEW schema, SchemaFits(schema), NEW row, TypedRow(schema, row)
  PROVE  /\ Tagged(KeyCells(schema, row)) \in Seq(Int)
         /\ LET keyed == Fill(schema, NewRow(schema), schema.pkey, Tagged(KeyCells(schema, row)) \o <<0>>, TRUE)
            IN  keyed.ok /\ keyed.row = KeyedRow(schema, row, Len(schema.pkey))
<1> DEFINE n == Len(schema.pkey)
           pkey == schema.pkey
           cells == KeyCells(schema, row)
           s == TaggedCells(cells)
           data == Tagged(cells) \o <<0>>
           keyed == Fill(schema, NewRow(schema), pkey, data, TRUE)
<1>1. n \in Nat /\ DOMAIN pkey = 1..n /\ \A i \in 1..n : pkey[i] \in DOMAIN schema.cols
  BY DEF SchemaFits
<1>2. cells \in Seq(Cells) /\ Len(cells) = n /\ \A i \in 1..n : cells[i] = row[pkey[i]]
  <2>1. cells = [i \in 1..n |-> row[pkey[i]]]
    BY <1>1 DEF KeyCells
  <2>2. \A i \in 1..n : row[pkey[i]] \in Cells
    BY <1>1 DEF TypedRow
  <2> HIDE DEF cells, n, pkey
  <2> QED BY <1>1, <2>1, <2>2
<1> HIDE DEF cells
<1>3. /\ Tagged(cells) = FlattenSeq(s) /\ Tagged(cells) \in Seq(Int) /\ s \in Seq(Seq(Int)) /\ Len(s) = n
      /\ \A i \in 1..n : s[i] = <<cells[i].type>> \o EncodeKey(cells[i])
                         /\ cells[i] \in Cells /\ <<cells[i].type>> \in Seq(Int)
  <2> HIDE DEF n
  <2> QED BY <1>2, TaggedParts
<1> HIDE DEF s
<1>4. PICK r : Rests(s, <<0>>, r)
  <2>1. <<0>> \in Seq(Int)
    OBVIOUS
  <2> QED BY <1>3, <2>1, FlattenRests
<1>5. PICK acc : Rounds(acc, n, schema, NewRow(schema), pkey, data, TRUE)
  <2> HIDE DEF n, data
  <2> QED BY <1>1, FillRounds
<1> DEFINE At(k) == [ok |-> TRUE, row |-> KeyedRow(schema, row, k), rest |-> r[k]]
           T == {k \in Nat : acc[k] = At(k)}
<1>6. 0 \in T
  <2>1. KeyedRow(schema, row, 0) = NewRow(schema)
    BY DEF KeyedRow, NewRow
  <2>2. r[0] = data
    BY <1>3, <1>4 DEF Rests
  <2>3. acc[0] = [ok |-> TRUE, row |-> NewRow(schema), rest |-> data]
    BY <1>5 DEF Rounds
  <2> HIDE DEF data
  <2> QED BY <2>1, <2>2, <2>3
<1>7. ASSUME NEW m \in 0..(n - 1), m \in T PROVE m + 1 \in T
  <2> DEFINE k == m + 1
             p == pkey[k]
             cell == row[p]
             old == At(m)
             yes == TRUE
             was == KeyedRow(schema, row, m)
  <2>1. k \in 1..n /\ k - 1 = m /\ k \in Nat /\ p \in DOMAIN schema.cols
    BY <1>1
  <2>2. acc[k] = FillCell(schema, TRUE, old, p)
    <3>1. acc[k] = FillCell(schema, TRUE, acc[k - 1], pkey[k])
      BY <1>5, <2>1 DEF Rounds
    <3> HIDE DEF k, old
    <3> QED BY <1>7, <2>1, <3>1 DEF old
  <2>3. /\ cell \in Cells /\ schema.cols[p].type = cell.type /\ s[k] = <<cell.type>> \o EncodeKey(cell)
        /\ EncodeKey(cell) \in Seq(Int) /\ cell.type \in Int
    <3>1. cell \in Cells /\ schema.cols[p].type = cell.type
      BY <2>1 DEF TypedRow
    <3>2. cells[k] = cell
      BY <1>2, <2>1
    <3>3. s[k] = <<cells[k].type>> \o EncodeKey(cells[k])
      BY <1>3, <2>1
    <3> HIDE DEF cell
    <3>4. EncodeKey(cell) \in Seq(Int) /\ cell.type \in Int
      BY <3>1, CellsType DEF TypeI64, TypeStr
    <3> QED BY <3>1, <3>2, <3>3, <3>4
  <2>4. r[m] = s[k] \o r[k] /\ r[k] \in Seq(Int)
    <3>1. k \in 0..n
      BY <2>1
    <3> HIDE DEF k
    <3> QED BY <1>3, <1>4, <2>1, <3>1 DEF Rests
  <2> HIDE DEF k, p, cell
  <2>5. r[m] # <<>> /\ Tail(r[m]) = EncodeKey(cell) \o r[k]
    <3> DEFINE t == cell.type
               e == EncodeKey(cell)
               w == e \o r[k]
    <3>1. t \in Int /\ e \in Seq(Int)
      BY <2>3
    <3> HIDE DEF t, e
    <3>2. w \in Seq(Int)
      BY <2>4, <3>1, ConcatProperties
    <3>3. r[m] = <<t>> \o w
      <4>1. (<<t>> \o e) \o r[k] = <<t>> \o (e \o r[k])
        <5>1. <<t>> \in Seq(Int)
          BY <3>1
        <5> DEFINE a == <<t>>
        <5> HIDE DEF a
        <5>2. a \in Seq(Int)
          BY <5>1 DEF a
        <5>3. (a \o e) \o r[k] = a \o (e \o r[k])
          BY <2>4, <3>1, <5>2, ThreeParts
        <5> QED BY <5>3 DEF a
      <4>2. s[k] = <<t>> \o e
        BY <2>3 DEF t, e
      <4> QED BY <2>4, <4>1, <4>2
    <3> HIDE DEF w
    <3>4. <<t>> \o w # <<>> /\ Tail(<<t>> \o w) = w
      BY <3>1, <3>2
    <3> QED BY <3>3, <3>4 DEF w, e
  <2>6. DecodeKey(schema.cols[p].type, Tail(r[m])) = Decoded(Plain(cell), r[k])
    BY <2>3, <2>4, <2>5, DecodeKeyBack
  <2>7. FillCell(schema, TRUE, old, p) = [ok |-> yes, row |-> [was EXCEPT ![p] = Plain(cell)], rest |-> r[k]]
    <3>1. old.ok /\ old.row = was /\ old.rest = r[m]
      OBVIOUS
    <3>2. LET d == DecodeKey(schema.cols[p].type, Tail(r[m]))
          IN  d.ok /\ d.cell = Plain(cell) /\ d.rest = r[k]
      BY <2>6 DEF Decoded
    <3> HIDE DEF old, was
    <3> QED BY <2>5, <3>1, <3>2 DEF FillCell
  <2>8. [was EXCEPT ![p] = Plain(cell)] = KeyedRow(schema, row, k)
    <3> DEFINE D == DOMAIN schema.cols
    <3>1. \A c \in D : (\E i \in 1..k : pkey[i] = c) <=> (\E i \in 1..m : pkey[i] = c) \/ c = p
      <4>1. \A i : i \in 1..k <=> i \in 1..m \/ i = k
        BY <2>1 DEF k
      <4> QED BY <4>1 DEF p
    <3>2. was = [c \in D |-> IF \E i \in 1..m : pkey[i] = c THEN Plain(row[c]) ELSE ErrCell]
      BY DEF KeyedRow
    <3>3. KeyedRow(schema, row, k) = [c \in D |-> IF \E i \in 1..k : pkey[i] = c THEN Plain(row[c]) ELSE ErrCell]
      BY DEF KeyedRow
    <3>4. p \in D
      BY <2>1
    <3> HIDE DEF was, D
    <3> QED BY <3>1, <3>2, <3>3, <3>4 DEF cell
  <2>9. acc[k] = At(k)
    <3> HIDE DEF was, old
    <3> QED BY <2>2, <2>7, <2>8
  <2> QED BY <2>1, <2>9 DEF k
<1>8. n \in T
  <2> HIDE DEF T
  <2>1. \A m \in 0..n : m \in T
    BY <1>1, <1>6, <1>7, UpTo
  <2> QED BY <1>1, <2>1
<1>9. keyed = At(n)
  <2> HIDE DEF n, data, At, keyed
  <2>1. keyed = acc[n]
    BY <1>5 DEF Rounds, keyed
  <2> QED BY <1>8, <2>1
<1>10. keyed.ok /\ keyed.row = KeyedRow(schema, row, n)
  <2> HIDE DEF keyed, n
  <2> QED BY <1>9
<1> HIDE DEF keyed
<1>11. Tagged(KeyCells(schema, row)) \in Seq(Int)
  BY <1>3 DEF cells
<1> QED BY <1>10, <1>11 DEF cells, keyed, data, pkey, n

\* The row after the key and the first k columns of the value.
ValuedRow(schema, row, k) ==
    [c \in DOMAIN schema.cols |-> IF IsPKey(schema, c) \/ c <= k THEN Plain(row[c]) ELSE ErrCell]

ValueParts(schema, row) ==
    [i \in DOMAIN schema.cols |-> IF IsPKey(schema, i) THEN <<>> ELSE EncodeVal(row[i])]

LEMMA ValueBack ==
  ASSUME NEW schema, SchemaFits(schema), NEW row, TypedRow(schema, row)
  PROVE  LET whole == Fill(schema, KeyedRow(schema, row, Len(schema.pkey)), [i \in DOMAIN schema.cols |-> i],
                           RowVal(schema, row), FALSE)
         IN  whole.ok /\ whole.row = PlainRow(schema, row)
<1> DEFINE n == Len(schema.cols)
           columns == [i \in DOMAIN schema.cols |-> i]
           s == ValueParts(schema, row)
           data == RowVal(schema, row)
           start == KeyedRow(schema, row, Len(schema.pkey))
           whole == Fill(schema, start, columns, data, FALSE)
<1>1. n \in Nat /\ DOMAIN schema.cols = 1..n /\ DOMAIN columns = 1..n /\ \A k \in 1..n : columns[k] = k
  BY DEF SchemaFits
<1> HIDE DEF columns
<1>2. \A i \in 1..n : row[i] \in Cells /\ row[i].type = schema.cols[i].type
  BY <1>1 DEF TypedRow
<1>3. /\ s \in Seq(Seq(Int)) /\ Len(s) = n
      /\ \A i \in 1..n : s[i] = IF IsPKey(schema, i) THEN <<>> ELSE EncodeVal(row[i])
  <2>1. s = [i \in 1..n |-> IF IsPKey(schema, i) THEN <<>> ELSE EncodeVal(row[i])]
    BY <1>1 DEF ValueParts
  <2>2. ASSUME NEW i \in 1..n PROVE (IF IsPKey(schema, i) THEN <<>> ELSE EncodeVal(row[i])) \in Seq(Int)
    <3> DEFINE cell == row[i]
               rest == <<>>
    <3>1. cell \in Cells /\ rest \in Seq(Int)
      BY <1>2
    <3> HIDE DEF cell, rest
    <3>2. EncodeVal(cell) \in Seq(Int)
      BY <3>1, DecodeValBack
    <3> QED BY <3>1, <3>2 DEF cell, rest
  <2> HIDE DEF s, n
  <2> QED BY <1>1, <2>1, <2>2
<1>4. data = FlattenSeq(s) /\ data \in Seq(Int)
  <2>1. data = FlattenSeq(s)
    BY DEF RowVal, ValueParts
  <2> HIDE DEF s, data
  <2> QED BY <1>3, <2>1, FlattenType
<1> HIDE DEF s, data
<1>5. PICK r : Rests(s, <<>>, r)
  <2>1. <<>> \in Seq(Int)
    OBVIOUS
  <2> QED BY <1>3, <2>1, FlattenRests
<1>6. PICK acc : Rounds(acc, n, schema, start, columns, data, FALSE)
  <2> HIDE DEF n, start
  <2> QED BY <1>1, FillRounds
<1> DEFINE At(k) == [ok |-> TRUE, row |-> ValuedRow(schema, row, k), rest |-> r[k]]
           T == {k \in Nat : acc[k] = At(k)}
<1>7. 0 \in T
  <2>1. ValuedRow(schema, row, 0) = start
    <3>1. ASSUME NEW c \in DOMAIN schema.cols
          PROVE  IsPKey(schema, c) \/ c <= 0 <=> \E i \in 1..Len(schema.pkey) : schema.pkey[i] = c
      <4>1. ~(c <= 0)
        BY <1>1
      <4>2. DOMAIN schema.pkey = 1..Len(schema.pkey)
        BY DEF SchemaFits
      <4> QED BY <4>1, <4>2 DEF IsPKey, ToSet
    <3> QED BY <3>1 DEF ValuedRow, KeyedRow
  <2>2. r[0] = data
    <3>1. r[0] = FlattenSeq(s) \o <<>>
      BY <1>5 DEF Rests
    <3> QED BY <1>4, <3>1, ConcatEmptySeq
  <2>3. acc[0] = [ok |-> TRUE, row |-> start, rest |-> data]
    BY <1>6 DEF Rounds
  <2> HIDE DEF start
  <2> QED BY <2>1, <2>2, <2>3
<1>8. ASSUME NEW m \in 0..(n - 1), m \in T PROVE m + 1 \in T
  <2> DEFINE k == m + 1
             cell == row[k]
             old == At(m)
             yes == TRUE
             no == FALSE
             was == ValuedRow(schema, row, m)
  <2>1. k \in 1..n /\ k - 1 = m /\ k \in Nat /\ k \in DOMAIN schema.cols /\ k \in 0..n
    BY <1>1
  <2>2. acc[k] = FillCell(schema, no, old, k)
    <3>1. acc[k] = FillCell(schema, no, acc[k - 1], columns[k])
      BY <1>6, <2>1 DEF Rounds
    <3> HIDE DEF k, old
    <3> QED BY <1>1, <1>8, <2>1, <3>1 DEF old
  <2>3. /\ cell \in Cells /\ schema.cols[k].type = cell.type
        /\ s[k] = IF IsPKey(schema, k) THEN <<>> ELSE EncodeVal(cell)
    BY <1>2, <1>3, <2>1
  <2>4. r[m] = s[k] \o r[k] /\ r[k] \in Seq(Int)
    <3> HIDE DEF k
    <3> QED BY <1>3, <1>5, <2>1 DEF Rests
  <2>5. \A c \in DOMAIN schema.cols : c <= k <=> c <= m \/ c = k
    BY <1>1
  <2> HIDE DEF k, cell
  <2>6. old.ok /\ old.row = was /\ old.rest = r[m] /\ ~no
    OBVIOUS
  <2>7. CASE IsPKey(schema, k)
    <3>1. r[m] = r[k]
      BY <2>3, <2>4, <2>7, ConcatEmptySeq
    <3>2. was = ValuedRow(schema, row, k)
      BY <2>5, <2>7 DEF ValuedRow
    <3>3. acc[k] = old
      <4> HIDE DEF old, no
      <4> QED BY <2>2, <2>6, <2>7 DEF FillCell
    <3>4. acc[k] = At(k)
      <4> HIDE DEF was
      <4> QED BY <3>1, <3>2, <3>3 DEF was
    <3> QED BY <2>1, <3>4 DEF k
  <2>8. CASE ~IsPKey(schema, k)
    <3>1. DecodeVal(schema.cols[k].type, r[m]) = Decoded(Plain(cell), r[k])
      BY <2>3, <2>4, <2>8, DecodeValBack
    <3>2. FillCell(schema, no, old, k) = [ok |-> yes, row |-> [was EXCEPT ![k] = Plain(cell)], rest |-> r[k]]
      <4>1. LET d == DecodeVal(schema.cols[k].type, r[m])
            IN  d.ok /\ d.cell = Plain(cell) /\ d.rest = r[k]
        BY <3>1 DEF Decoded
      <4> HIDE DEF old, was, no
      <4> QED BY <2>6, <2>8, <4>1 DEF FillCell
    <3>3. [was EXCEPT ![k] = Plain(cell)] = ValuedRow(schema, row, k)
      <4> DEFINE D == DOMAIN schema.cols
      <4>1. was = [c \in D |-> IF IsPKey(schema, c) \/ c <= m THEN Plain(row[c]) ELSE ErrCell]
        BY DEF ValuedRow
      <4>2. ValuedRow(schema, row, k) = [c \in D |-> IF IsPKey(schema, c) \/ c <= k THEN Plain(row[c]) ELSE ErrCell]
        BY DEF ValuedRow
      <4>3. k \in D /\ \A c \in D : c <= k <=> c <= m \/ c = k
        BY <2>1, <2>5
      <4> HIDE DEF was, D
      <4> QED BY <4>1, <4>2, <4>3 DEF cell
    <3>4. acc[k] = At(k)
      <4> HIDE DEF was, old, no
      <4> QED BY <2>2, <3>2, <3>3
    <3> QED BY <2>1, <3>4 DEF k
  <2> QED BY <2>7, <2>8
<1>9. n \in T
  <2> HIDE DEF T
  <2>1. \A m \in 0..n : m \in T
    BY <1>1, <1>7, <1>8, UpTo
  <2> QED BY <1>1, <2>1
<1>10. whole = At(n)
  <2> HIDE DEF n, At, whole
  <2>1. whole = acc[n]
    BY <1>6 DEF Rounds, whole
  <2> QED BY <1>9, <2>1
<1>11. ValuedRow(schema, row, n) = PlainRow(schema, row)
  <2>1. \A c \in DOMAIN schema.cols : c <= n
    BY <1>1
  <2> QED BY <2>1 DEF ValuedRow, PlainRow
<1>12. whole.ok /\ whole.row = PlainRow(schema, row)
  <2> HIDE DEF whole, n
  <2> QED BY <1>10, <1>11
<1> HIDE DEF whole
<1> QED BY <1>12 DEF whole, start, columns, data

\* The round trip of a row: what is stored for it, its key and its value, is
\* decoded without an error to the row itself but for the fields its types do not
\* use, whatever numbers and strings are in it and whichever columns are the key
\* (DecodeKey, schema.go:91; DecodeVal, schema.go:112).
THEOREM RowRoundTrip ==
  ASSUME NEW schema, SchemaFits(schema), NEW row, TypedRow(schema, row)
  PROVE  /\ RowKey(schema, row) \in Seq(Int)
         /\ DecodeRow(schema, RowKey(schema, row), RowVal(schema, row)).ok
         /\ DecodeRow(schema, RowKey(schema, row), RowVal(schema, row)).row = PlainRow(schema, row)
<1> DEFINE p == TablePrefix(schema)
           t == Tagged(KeyCells(schema, row))
           z == <<0>>
           key == RowKey(schema, row)
           val == RowVal(schema, row)
           body == SubSeq(key, Len(p) + 1, Len(key))
           keyed == Fill(schema, NewRow(schema), schema.pkey, body, TRUE)
           whole == Fill(schema, keyed.row, [i \in DOMAIN schema.cols |-> i], val, FALSE)
<1>1. t \in Seq(Int) /\ z \in Seq(Int)
  <2>1. t \in Seq(Int)
    <3> HIDE DEF t
    <3> QED BY KeyBack DEF t
  <2> QED BY <2>1
<1>2. p \in Seq(Int)
  <2> DEFINE name == NameBytes[schema.table]
  <2>1. name \in Seq(Int) /\ 0 \in Int
    BY NameBytesType DEF SchemaFits
  <2> HIDE DEF name
  <2>2. Append(name, 0) \in Seq(Int)
    BY <2>1
  <2> QED BY <2>2 DEF TablePrefix, name
<1>3. key = (p \o t) \o z
  BY DEF RowKey
<1> HIDE DEF p, t, z, key
<1>4. t \o z \in Seq(Int) /\ key = p \o (t \o z)
  BY <1>1, <1>2, <1>3, ThreeParts
<1>5. body = t \o z /\ key \in Seq(Int)
  <2> DEFINE w == t \o z
  <2>1. w \in Seq(Int) /\ key = p \o w
    BY <1>4
  <2> HIDE DEF w
  <2>2. SubSeq(p \o w, Len(p) + 1, Len(p \o w)) = w /\ p \o w \in Seq(Int)
    BY <1>2, <2>1, ConcatParts
  <2> QED BY <2>1, <2>2 DEF w
<1> HIDE DEF body
<1>6. keyed.ok /\ keyed.row = KeyedRow(schema, row, Len(schema.pkey))
  BY <1>5, KeyBack DEF t, z
<1> HIDE DEF keyed
<1>7. whole.ok /\ whole.row = PlainRow(schema, row)
  BY <1>6, ValueBack DEF val
<1>8. DecodeRow(schema, key, val) = whole
  <2>1. DecodeRow(schema, key, val) = IF keyed.ok THEN whole ELSE keyed
    BY DEF DecodeRow, body, p, keyed
  <2> HIDE DEF whole
  <2> QED BY <1>6, <2>1
<1> HIDE DEF whole
<1>9. DecodeRow(schema, key, val).ok /\ DecodeRow(schema, key, val).row = PlainRow(schema, row)
  BY <1>7, <1>8
<1> QED BY <1>5, <1>9 DEF key, val

\* Empty fields do not show in the bytes.
LEMMA PlainRowSame ==
  ASSUME NEW schema, SchemaFits(schema), NEW row, TypedRow(schema, row)
  PROVE  /\ TypedRow(schema, PlainRow(schema, row))
         /\ RowKey(schema, PlainRow(schema, row)) = RowKey(schema, row)
         /\ RowVal(schema, PlainRow(schema, row)) = RowVal(schema, row)
<1> DEFINE plain == PlainRow(schema, row)
           D == DOMAIN schema.cols
<1>1. DOMAIN plain = D /\ \A i \in D : plain[i] = Plain(row[i])
  BY DEF PlainRow
<1>2. ASSUME NEW i \in D
      PROVE  /\ plain[i] \in Cells /\ plain[i].type = row[i].type /\ row[i].type = schema.cols[i].type
             /\ EncodeKey(plain[i]) = EncodeKey(row[i]) /\ EncodeVal(plain[i]) = EncodeVal(row[i])
  <2> DEFINE cell == row[i]
  <2>1. cell \in Cells /\ cell.type = schema.cols[i].type
    BY DEF TypedRow
  <2> HIDE DEF cell
  <2>2. /\ Plain(cell) \in Cells /\ Plain(cell).type = cell.type
        /\ EncodeKey(Plain(cell)) = EncodeKey(cell) /\ EncodeVal(Plain(cell)) = EncodeVal(cell)
    BY <2>1, PlainSame
  <2>3. plain[i] = Plain(cell)
    BY <1>1 DEF cell
  <2> QED BY <2>1, <2>2, <2>3 DEF cell
<1> HIDE DEF plain
<1>3. TypedRow(schema, plain)
  BY <1>1, <1>2 DEF TypedRow
<1>4. \A i \in DOMAIN schema.pkey : schema.pkey[i] \in D
  BY DEF SchemaFits
<1> HIDE DEF D
<1>5. Tagged(KeyCells(schema, plain)) = Tagged(KeyCells(schema, row))
  <2> DEFINE a == KeyCells(schema, plain)
             b == KeyCells(schema, row)
             K == DOMAIN schema.pkey
  <2>1. DOMAIN a = K /\ DOMAIN b = K
    BY DEF KeyCells
  <2>2. \A i \in K : a[i] = plain[schema.pkey[i]] /\ b[i] = row[schema.pkey[i]]
    BY DEF KeyCells
  <2> HIDE DEF a, b, K
  <2>3. \A i \in K : <<a[i].type>> \o EncodeKey(a[i]) = <<b[i].type>> \o EncodeKey(b[i])
    BY <1>2, <1>4, <2>2 DEF K
  <2>4. [i \in DOMAIN a |-> <<a[i].type>> \o EncodeKey(a[i])] = [i \in DOMAIN b |-> <<b[i].type>> \o EncodeKey(b[i])]
    BY <2>1, <2>3
  <2>5. Tagged(a) = Tagged(b)
    BY <2>4, Zenon DEF Tagged
  <2> QED BY <2>5 DEF a, b
<1>6. ValueParts(schema, plain) = ValueParts(schema, row)
  BY <1>2 DEF ValueParts, D
<1>7. RowKey(schema, plain) = RowKey(schema, row)
  BY <1>5 DEF RowKey
<1>8. RowVal(schema, plain) = RowVal(schema, row)
  <2>1. RowVal(schema, plain) = FlattenSeq(ValueParts(schema, plain))
    BY DEF RowVal, ValueParts
  <2>2. RowVal(schema, row) = FlattenSeq(ValueParts(schema, row))
    BY DEF RowVal, ValueParts
  <2> QED BY <1>6, <2>1, <2>2
<1> QED BY <1>3, <1>7, <1>8 DEF plain
-----------------------------------------------------------------------------
(* The tables that keys are in.                                            *)

\* A prefix has the bytes of what it begins.
LEMMA PrefixBytes ==
  ASSUME NEW p \in Seq(Int), NEW key \in Seq(Int), IsPrefix(p, key)
  PROVE  Len(p) <= Len(key) /\ \A i \in 1..Len(p) : key[i] = p[i]
<1> DEFINE n == Len(p)
<1>1. n \in Nat /\ Len(key) \in Nat /\ n <= Len(key) /\ SubSeq(p, 1, n) = SubSeq(key, 1, n)
  BY LenProperties DEF IsPrefix
<1>2. SubSeq(p, 1, n) = p
  BY SubSeqFull
<1>3. SubSeq(key, 1, n) = p
  BY <1>1, <1>2
<1> HIDE DEF n
<1>4. \A i \in 1..n : SubSeq(key, 1, n)[i] = key[i]
  <2>1. \A i \in 1..n : key[i] \in Int
    BY <1>1
  <2>2. n - 1 + 1 = n /\ \A i \in 1..n : 1 + i - 1 = i
    BY <1>1
  <2>3. \A i \in 1..(n - 1 + 1) : SubSeq(key, 1, n)[i] = key[1 + i - 1]
    BY <1>1, <2>1, SubSeqProperties
  <2> QED BY <2>2, <2>3
<1>5. \A i \in 1..n : key[i] = p[i]
  BY <1>3, <1>4
<1> QED BY <1>1, <1>5 DEF n

\* The prefix of a table: its name, whose bytes are no escapes, and a zero.
LEMMA PrefixType ==
  ASSUME NEW schema, SchemaFits(schema)
  PROVE  /\ NameBytes[schema.table] \in Seq(Int) /\ Len(NameBytes[schema.table]) \in Nat
         /\ TablePrefix(schema) \in Seq(Int) /\ Len(TablePrefix(schema)) = Len(NameBytes[schema.table]) + 1
         /\ \A i \in 1..Len(NameBytes[schema.table]) :
               TablePrefix(schema)[i] = NameBytes[schema.table][i] /\ NameBytes[schema.table][i] > 0
         /\ TablePrefix(schema)[Len(NameBytes[schema.table]) + 1] = 0
<1> DEFINE name == NameBytes[schema.table]
<1>1. name \in Seq(3..(ByteMax - 1)) /\ name \in Seq(Int)
  <2>1. schema.table \in DOMAIN NameBytes
    BY DEF SchemaFits
  <2> QED BY <2>1, CodecAssumption, NameBytesType
<1>2. TablePrefix(schema) = Append(name, 0)
  BY DEF TablePrefix
<1> HIDE DEF name
<1>3. /\ Append(name, 0) \in Seq(Int) /\ Len(Append(name, 0)) = Len(name) + 1
      /\ \A i \in 1..Len(name) : Append(name, 0)[i] = name[i]
      /\ Append(name, 0)[Len(name) + 1] = 0
  <2>1. 0 \in Int
    OBVIOUS
  <2> QED BY <1>1, <2>1, AppendProperties
<1>4. ASSUME NEW i \in 1..Len(name) PROVE name[i] > 0
  <2> DEFINE S == 3..(ByteMax - 1)
  <2>1. name[i] \in S
    <3>1. name \in Seq(S)
      BY <1>1
    <3> HIDE DEF S
    <3> QED BY <3>1
  <2>2. ByteMax \in Int
    BY CodecAssumption
  <2> QED BY <2>1, <2>2
<1>5. Len(name) \in Nat
  BY <1>1, LenProperties
<1> QED BY <1>1, <1>2, <1>3, <1>4, <1>5 DEF name

\* A key is in one table: no name with its zero begins another's.
LEMMA OneTable ==
  ASSUME NEW a, SchemaFits(a), NEW b, SchemaFits(b), NEW key \in Seq(Int), InTable(a, key), InTable(b, key)
  PROVE  NameBytes[a.table] = NameBytes[b.table]
<1> DEFINE m == NameBytes[a.table]
           n == NameBytes[b.table]
           p == TablePrefix(a)
           q == TablePrefix(b)
<1>1. /\ m \in Seq(Int) /\ Len(m) \in Nat /\ p \in Seq(Int) /\ Len(p) = Len(m) + 1
      /\ \A i \in 1..Len(m) : p[i] = m[i] /\ m[i] > 0
      /\ p[Len(m) + 1] = 0
  BY PrefixType
<1>2. /\ n \in Seq(Int) /\ Len(n) \in Nat /\ q \in Seq(Int) /\ Len(q) = Len(n) + 1
      /\ \A i \in 1..Len(n) : q[i] = n[i] /\ n[i] > 0
      /\ q[Len(n) + 1] = 0
  BY PrefixType
<1>3. IsPrefix(p, key) /\ IsPrefix(q, key)
  BY DEF InTable
<1> HIDE DEF m, n, p, q
<1>4. (\A i \in 1..Len(p) : key[i] = p[i]) /\ (\A i \in 1..Len(q) : key[i] = q[i])
  BY <1>1, <1>2, <1>3, PrefixBytes
<1>5. (\A i \in 1..(Len(m) + 1) : key[i] = p[i]) /\ (\A i \in 1..(Len(n) + 1) : key[i] = q[i])
  BY <1>1, <1>2, <1>4
<1>6. ~(Len(m) < Len(n))
  <2> SUFFICES ASSUME Len(m) < Len(n) PROVE FALSE
    OBVIOUS
  <2>1. Len(m) + 1 \in 1..(Len(m) + 1) /\ Len(m) + 1 \in 1..Len(n) /\ Len(m) + 1 \in 1..(Len(n) + 1)
    BY <1>1, <1>2
  <2>2. key[Len(m) + 1] = 0 /\ key[Len(m) + 1] = n[Len(m) + 1] /\ n[Len(m) + 1] > 0
    BY <1>1, <1>2, <1>5, <2>1
  <2> QED BY <2>2
<1>7. ~(Len(n) < Len(m))
  <2> SUFFICES ASSUME Len(n) < Len(m) PROVE FALSE
    OBVIOUS
  <2>1. Len(n) + 1 \in 1..(Len(n) + 1) /\ Len(n) + 1 \in 1..Len(m) /\ Len(n) + 1 \in 1..(Len(m) + 1)
    BY <1>1, <1>2
  <2>2. key[Len(n) + 1] = 0 /\ key[Len(n) + 1] = m[Len(n) + 1] /\ m[Len(n) + 1] > 0
    BY <1>1, <1>2, <1>5, <2>1
  <2> QED BY <2>2
<1>8. Len(m) = Len(n)
  BY <1>1, <1>2, <1>6, <1>7
<1>9. ASSUME NEW i \in 1..Len(m) PROVE m[i] = n[i]
  <2>1. i \in 1..Len(n) /\ i \in 1..(Len(m) + 1) /\ i \in 1..(Len(n) + 1)
    BY <1>1, <1>8
  <2> QED BY <1>1, <1>2, <1>5, <2>1
<1>10. m = n
  BY <1>1, <1>2, <1>8, <1>9, SeqEqual
<1> QED BY <1>10 DEF m, n

\* The key of a row is in the row's table.
LEMMA KeyInTable ==
  ASSUME NEW schema, SchemaFits(schema), NEW row, TypedRow(schema, row)
  PROVE  InTable(schema, RowKey(schema, row))
<1> DEFINE p == TablePrefix(schema)
           t == Tagged(KeyCells(schema, row))
           z == <<0>>
<1>1. p \in Seq(Int) /\ t \in Seq(Int) /\ z \in Seq(Int)
  <2>1. t \in Seq(Int)
    <3> HIDE DEF t
    <3> QED BY KeyBack DEF t
  <2>2. p \in Seq(Int)
    BY PrefixType
  <2> QED BY <2>1, <2>2
<1>2. RowKey(schema, row) = (p \o t) \o z
  BY DEF RowKey
<1> HIDE DEF p, t, z
<1> DEFINE w == t \o z
<1>3. RowKey(schema, row) = p \o w /\ w \in Seq(Int)
  BY <1>1, <1>2, ThreeParts
<1> HIDE DEF w
<1>4. SubSeq(p \o w, 1, Len(p)) = p /\ Len(p \o w) = Len(p) + Len(w) /\ Len(p) \in Nat /\ Len(w) \in Nat
  BY <1>1, <1>3, ConcatParts
<1>5. SubSeq(p, 1, Len(p)) = p
  BY <1>1, SubSeqFull
<1>6. IsPrefix(p, p \o w)
  BY <1>4, <1>5 DEF IsPrefix
<1> QED BY <1>3, <1>6 DEF InTable, p
=============================================================================
