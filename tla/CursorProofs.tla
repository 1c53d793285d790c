---------------------------- MODULE CursorProofs ----------------------------
(***************************************************************************)
(* Proofs about MergedCursor, and about RangeScan on top of it, for every  *)
(* number of keys and levels, every content of the levels and every        *)
(* tombstone.                                                              *)
(***************************************************************************)
EXTENDS RangeScan, WellFoundedInduction, TLAPS

\* No level holds the empty key, whose frontier is nil (CaptureFrontier).
NonEmptyKeys == MinKey = 1

-----------------------------------------------------------------------------
(* Extrema of bounded sets of integers.                                    *)

\* Every non-empty set of natural numbers has a least element.
LEMMA LeastNat ==
  ASSUME NEW T, T \subseteq Nat, T # {}
  PROVE  \E x \in T : \A y \in T : x <= y
<1> DEFINE R == OpToRel(<, Nat)
<1>1. IsWellFoundedOn(R, Nat)
  BY NatLessThanWellFounded
<1>2. \E x \in T : \A y \in T : ~(<<y, x>> \in R)
  <2> HIDE DEF R
  <2> QED BY <1>1, WFMin
<1>3. ASSUME NEW x \in Nat, NEW y \in Nat, ~(<<y, x>> \in R) PROVE x <= y
  BY <1>3, SMT DEF OpToRel
<1> QED BY <1>2, <1>3

\* Least does what its name says.
LEMMA LeastProps ==
  ASSUME NEW lo \in Int, NEW S, S \subseteq Int, S # {}, \A k \in S : lo <= k
  PROVE  Least(S) \in S /\ \A j \in S : Least(S) <= j
<1> DEFINE T == {k - lo : k \in S}
<1>0. \A k \in S : k - lo \in Nat
  OBVIOUS
<1>1. T \subseteq Nat /\ T # {}
  BY <1>0
<1>2. PICK x \in T : \A y \in T : x <= y
  <2> HIDE DEF T
  <2> QED BY <1>1, LeastNat
<1>3. PICK k \in S : x = k - lo
  BY <1>2
<1>4. \A j \in S : k <= j
  <2> TAKE j \in S
  <2>1. j - lo \in T
    OBVIOUS
  <2>2. k - lo <= j - lo
    BY <1>2, <1>3, <2>1
  <2> QED BY <2>2, <1>3
<1> QED BY <1>4 DEF Least

\* Greatest does what its name says.
LEMMA GreatestProps ==
  ASSUME NEW hi \in Int, NEW S, S \subseteq Int, S # {}, \A k \in S : k <= hi
  PROVE  Greatest(S) \in S /\ \A j \in S : Greatest(S) >= j
<1> DEFINE T == {hi - k : k \in S}
<1>0. \A k \in S : hi - k \in Nat
  OBVIOUS
<1>1. T \subseteq Nat /\ T # {}
  BY <1>0
<1>2. PICK x \in T : \A y \in T : x <= y
  <2> HIDE DEF T
  <2> QED BY <1>1, LeastNat
<1>3. PICK k \in S : x = hi - k
  BY <1>2
<1>4. \A j \in S : k >= j
  <2> TAKE j \in S
  <2>1. hi - j \in T
    OBVIOUS
  <2>2. hi - k <= hi - j
    BY <1>2, <1>3, <2>1
  <2> QED BY <2>2, <1>3
<1> QED BY <1>4 DEF Greatest

\* An extremum is the only element with its property.
LEMMA LeastUnique ==
  ASSUME NEW S, S \subseteq Int, NEW x \in S, \A j \in S : x <= j
  PROVE  Least(S) = x
<1>1. Least(S) \in S /\ \A j \in S : Least(S) <= j
  BY DEF Least
<1>2. Least(S) <= x /\ x <= Least(S) /\ Least(S) \in Int /\ x \in Int
  BY <1>1
<1> QED BY <1>2

\* An extremum is the only element with its property.
LEMMA GreatestUnique ==
  ASSUME NEW S, S \subseteq Int, NEW x \in S, \A j \in S : x >= j
  PROVE  Greatest(S) = x
<1>1. Greatest(S) \in S /\ \A j \in S : Greatest(S) >= j
  BY DEF Greatest
<1>2. Greatest(S) >= x /\ x >= Greatest(S) /\ Greatest(S) \in Int /\ x \in Int
  BY <1>1
<1> QED BY <1>2
-----------------------------------------------------------------------------
(* Where level i stands if it stands at its first key from b on: upwards   *)
(* LevelSeek(i, b), downwards SeekDown(i, b).                              *)

SeekDown(i, b) == Greatest({k \in held[i] \union {Low} : k <= b})

\* The level cursor at b, ascending.
LEMMA LevelSeekProps ==
  ASSUME NonEmptyKeys, CursorTypeOK, NEW i \in Levels, NEW b \in Int, b <= High
  PROVE  /\ LevelSeek(i, b) \in held[i] \union {High}
         /\ LevelSeek(i, b) >= b
         /\ \A k \in held[i] \union {High} : k >= b => LevelSeek(i, b) <= k
<1> DEFINE S == {k \in held[i] \union {High} : k >= b}
<1>1. S \subseteq Int /\ High \in S /\ \A k \in S : b <= k
  BY CursorAssumption DEF CursorTypeOK, NonEmptyKeys, High, Keys
<1>2. Least(S) \in S /\ \A j \in S : Least(S) <= j
  <2> HIDE DEF S
  <2> QED BY <1>1, LeastProps
<1> QED BY <1>2 DEF LevelSeek

\* The level cursor at b, descending.
LEMMA SeekDownProps ==
  ASSUME NonEmptyKeys, CursorTypeOK, NEW i \in Levels, NEW b \in Int, b >= Low
  PROVE  /\ SeekDown(i, b) \in held[i] \union {Low}
         /\ SeekDown(i, b) <= b
         /\ \A k \in held[i] \union {Low} : k <= b => SeekDown(i, b) >= k
<1> DEFINE S == {k \in held[i] \union {Low} : k <= b}
<1>1. S \subseteq Int /\ Low \in S /\ \A k \in S : k <= b
  BY CursorAssumption DEF CursorTypeOK, NonEmptyKeys, Low, Keys
<1>2. Greatest(S) \in S /\ \A j \in S : Greatest(S) >= j
  <2> HIDE DEF S
  <2> QED BY <1>1, GreatestProps
<1> QED BY <1>2 DEF SeekDown

\* extreme picks the newest of the levels with the extreme key, if any is valid.
LEMMA ExtremeProps ==
  ASSUME NonEmptyKeys, NEW ps \in [Levels -> Low..High], NEW d \in BOOLEAN
  PROVE  LET w == Extreme(ps, d)
         IN  \/ w = None /\ \A i \in Levels : ~LevelValid(ps[i])
             \/ /\ w \in Levels /\ LevelValid(ps[w])
                /\ \A j \in Levels : LevelValid(ps[j]) =>
                       /\ IF d THEN ps[w] >= ps[j] ELSE ps[w] <= ps[j]
                       /\ ps[j] = ps[w] => w <= j
<1> USE CursorAssumption
<1> DEFINE valid == {i \in Levels : LevelValid(ps[i])}
           best  == {i \in valid : \A j \in valid : IF d THEN ps[i] >= ps[j] ELSE ps[i] <= ps[j]}
           V     == {ps[i] : i \in valid}
<1>0. Extreme(ps, d) = IF valid = {} THEN None ELSE Least(best)
  BY DEF Extreme
<1>1. CASE valid = {}
  BY <1>0, <1>1
<1>2. CASE valid # {}
  <2>1. V \subseteq Int /\ V # {} /\ (\A k \in V : Low <= k) /\ (\A k \in V : k <= High)
    BY <1>2 DEF Low, High, NonEmptyKeys
  <2>2. Low \in Int /\ High \in Int
    BY DEF Low, High, NonEmptyKeys
  <2>3. best # {}
    <3>1. CASE d
      <4>1. Greatest(V) \in V /\ \A j \in V : Greatest(V) >= j
        <5> HIDE DEF V
        <5> QED BY <2>1, <2>2, GreatestProps
      <4>2. PICK i \in valid : ps[i] = Greatest(V)
        BY <4>1
      <4>3. \A j \in valid : ps[i] >= ps[j]
        <5> TAKE j \in valid
        <5> QED BY <4>1, <4>2
      <4>4. i \in best
        BY <3>1, <4>3
      <4> QED BY <4>4
    <3>2. CASE ~d
      <4>1. Least(V) \in V /\ \A j \in V : Least(V) <= j
        <5> HIDE DEF V
        <5> QED BY <2>1, <2>2, LeastProps
      <4>2. PICK i \in valid : ps[i] = Least(V)
        BY <4>1
      <4>3. \A j \in valid : ps[i] <= ps[j]
        <5> TAKE j \in valid
        <5> QED BY <4>1, <4>2
      <4>4. i \in best
        BY <3>2, <4>3
      <4> QED BY <4>4
    <3> QED BY <3>1, <3>2
  <2>4. best \subseteq Int /\ \A k \in best : 1 <= k
    BY DEF Levels
  <2>5. Least(best) \in best /\ \A j \in best : Least(best) <= j
    <3>1. 1 \in Int
      OBVIOUS
    <3> HIDE DEF best, valid
    <3> QED BY <2>3, <2>4, <3>1, LeastProps
  <2>6. Extreme(ps, d) = Least(best)
    BY <1>0, <1>2
  <2>7. ASSUME NEW j \in valid, ps[j] = ps[Least(best)] PROVE j \in best
    BY <2>5, <2>7
  <2>8. ASSUME NEW j \in Levels, LevelValid(ps[j])
        PROVE  /\ IF d THEN ps[Least(best)] >= ps[j] ELSE ps[Least(best)] <= ps[j]
               /\ ps[j] = ps[Least(best)] => Least(best) <= j
    BY <2>5, <2>7, <2>8
  <2>9. Least(best) \in Levels /\ LevelValid(ps[Least(best)])
    BY <2>5
  <2> HIDE DEF best, valid
  <2> QED BY <2>6, <2>8, <2>9
<1> QED BY <1>1, <1>2
-----------------------------------------------------------------------------
(* The invariant.                                                          *)

\* A valid cursor stands on its frontier, every level at its first key at or
\* past it, and no newer level has the same key; a cursor that has run off has
\* no frontier.
CursorInv ==
    /\ CursorTypeOK
    /\ Valid => /\ frontier = Key
                /\ \A i \in Levels : pos[i] = IF desc THEN SeekDown(i, frontier)
                                                    ELSE LevelSeek(i, frontier)
                /\ \A i \in Levels : pos[i] = Key => which <= i
    /\ ~Valid => frontier = None

\* The key shown, and the keys to show.
At == IF Valid THEN Key ELSE None
Present == UNION {held[i] : i \in Levels}

\* Settling levels that stand at their first keys from b upwards.
LEMMA SettleUp ==
  ASSUME NonEmptyKeys, CursorTypeOK, NEW b \in Int, b <= High, held' = held,
         NEW ps, ps = [i \in Levels |-> LevelSeek(i, b)], Settle(ps, FALSE)
  PROVE  /\ CursorInv'
         /\ At' = LET S == {k \in Present : k >= b} IN IF S = {} THEN None ELSE Least(S)
<1> DEFINE w  == Extreme(ps, FALSE)
           S  == {k \in Present : k >= b}
<1> USE CursorAssumption DEF NonEmptyKeys
<1>0. /\ held \in [Levels -> SUBSET Keys] /\ Keys = 1..MaxKey
      /\ Low = 0 /\ High = MaxKey + 1 /\ None = -2 /\ MaxKey \in Nat /\ MinKey = 1
  BY DEF CursorTypeOK, Keys, Low, High, None
<1>1. ASSUME NEW i \in Levels
      PROVE  /\ ps[i] \in held[i] \union {High} /\ ps[i] >= b /\ ps[i] \in Low..High
             /\ \A k \in held[i] \union {High} : k >= b => ps[i] <= k
  <2>1. /\ LevelSeek(i, b) \in held[i] \union {High} /\ LevelSeek(i, b) >= b
        /\ \A k \in held[i] \union {High} : k >= b => LevelSeek(i, b) <= k
    BY <1>1, LevelSeekProps
  <2>2. ps[i] = LevelSeek(i, b)
    OBVIOUS
  <2>3. \A k \in held[i] \union {High} : k \in Low..High
    BY <1>0
  <2> QED BY <2>1, <2>2, <2>3
<1>2. ps \in [Levels -> Low..High]
  BY <1>1
<1>3. pos' = ps /\ desc' = FALSE /\ which' = w /\ frontier' = CaptureFrontier(ps, w)
  BY DEF Settle
<1>6. \/ w = None /\ \A i \in Levels : ~LevelValid(ps[i])
      \/ /\ w \in Levels /\ LevelValid(ps[w])
         /\ \A j \in Levels : LevelValid(ps[j]) => ps[w] <= ps[j] /\ (ps[j] = ps[w] => w <= j)
  <2> QED BY <1>2, ExtremeProps
<1> HIDE DEF w
<1>4. CASE w = None /\ \A i \in Levels : ~LevelValid(ps[i])
  <2>1. \A i \in Levels : ps[i] = High
    BY <1>0, <1>1, <1>4 DEF LevelValid
  <2>2. S = {}
    BY <1>0, <1>1, <2>1 DEF Present
  <2>3. frontier' = None /\ ~Valid'
    BY <1>3, <1>4 DEF CaptureFrontier, Valid
  <2>4. CursorTypeOK'
    BY <1>0, <1>2, <1>3, <1>4, <2>3 DEF CursorTypeOK
  <2> QED BY <2>2, <2>3, <2>4 DEF CursorInv, At
<1>5. CASE /\ w \in Levels /\ LevelValid(ps[w])
           /\ \A j \in Levels : LevelValid(ps[j]) => ps[w] <= ps[j] /\ (ps[j] = ps[w] => w <= j)
  <2>1. ps[w] \in held[w] /\ ps[w] \in Keys /\ ps[w] >= b /\ w # None
    BY <1>0, <1>1, <1>5 DEF LevelValid, Levels
  <2>2. frontier' = ps[w] /\ Key' = ps[w] /\ Valid' /\ which' = w
    BY <1>0, <1>3, <2>1 DEF CaptureFrontier, Valid, Key, EmptyKey
  <2>3. ASSUME NEW i \in Levels PROVE ps[w] <= ps[i]
    BY <1>0, <1>1, <1>5, <2>1 DEF LevelValid
  <2>4. ASSUME NEW i \in Levels PROVE ps[i] = Least({k \in held[i] \union {High} : k >= ps[w]})
    <3> DEFINE T == {k \in held[i] \union {High} : k >= ps[w]}
    <3>1. T \subseteq Int
      BY <1>0
    <3>4. ps[i] \in T
      BY <1>1, <2>3
    <3>2. \A k \in T : ps[i] <= k
      <4> TAKE k \in T
      <4>1. k \in Int /\ b \in Int /\ ps[w] \in Int
        BY <1>0, <2>1
      <4> QED BY <1>1, <2>1, <4>1
    <3> HIDE DEF T
    <3>3. Least(T) = ps[i]
      BY <3>1, <3>2, <3>4, LeastUnique
    <3> QED BY <3>3 DEF T
  <2>5. ASSUME NEW i \in Levels PROVE pos'[i] = LevelSeek(i, frontier)'
    <3>1. LevelSeek(i, frontier)' = Least({k \in held[i] \union {High} : k >= ps[w]})
      BY <2>2 DEF LevelSeek
    <3>2. pos'[i] = ps[i]
      BY <1>3
    <3> QED BY <2>4, <3>1, <3>2
  <2>6. ASSUME NEW i \in Levels, pos'[i] = Key' PROVE which' <= i
    BY <1>3, <1>5, <2>2, <2>6
  <2>7. CursorTypeOK'
    BY <1>0, <1>2, <1>3, <1>5, <2>1, <2>2 DEF CursorTypeOK
  <2>8. ps[w] \in S /\ S \subseteq Int
    BY <1>0, <2>1, <1>5 DEF Present
  <2>9. \A k \in S : ps[w] <= k
    <3> TAKE k \in S
    <3>1. PICK i \in Levels : k \in held[i]
      BY DEF Present
    <3>2. k \in Int /\ ps[w] \in Int
      BY <1>0, <2>1, <3>1
    <3>3. ps[i] \in Int
      BY <1>0, <1>1
    <3>4. ps[w] <= ps[i] /\ ps[i] <= k
      BY <1>1, <2>3, <3>1
    <3> QED BY <3>2, <3>3, <3>4
  <2>10. Least(S) = ps[w]
    <3> HIDE DEF S
    <3> QED BY <2>8, <2>9, LeastUnique
  <2>11. At' = Least(S) /\ S # {}
    BY <2>2, <2>8, <2>10 DEF At
  <2> QED BY <1>3, <2>2, <2>5, <2>6, <2>7, <2>11 DEF CursorInv
<1> QED BY <1>4, <1>5, <1>6
\* Settling levels that stand at their first keys from b downwards.
LEMMA SettleDown ==
  ASSUME NonEmptyKeys, CursorTypeOK, NEW b \in Int, b >= Low, held' = held,
         NEW ps, ps = [i \in Levels |-> SeekDown(i, b)], Settle(ps, TRUE)
  PROVE  /\ CursorInv'
         /\ At' = LET S == {k \in Present : k <= b} IN IF S = {} THEN None ELSE Greatest(S)
<1> DEFINE w  == Extreme(ps, TRUE)
           S  == {k \in Present : k <= b}
<1> USE CursorAssumption DEF NonEmptyKeys
<1>0. /\ held \in [Levels -> SUBSET Keys] /\ Keys = 1..MaxKey
      /\ Low = 0 /\ High = MaxKey + 1 /\ None = -2 /\ MaxKey \in Nat /\ MinKey = 1
  BY DEF CursorTypeOK, Keys, Low, High, None
<1>1. ASSUME NEW i \in Levels
      PROVE  /\ ps[i] \in held[i] \union {Low} /\ ps[i] <= b /\ ps[i] \in Low..High
             /\ \A k \in held[i] \union {Low} : k <= b => ps[i] >= k
  <2>1. /\ SeekDown(i, b) \in held[i] \union {Low} /\ SeekDown(i, b) <= b
        /\ \A k \in held[i] \union {Low} : k <= b => SeekDown(i, b) >= k
    BY <1>1, SeekDownProps
  <2>2. ps[i] = SeekDown(i, b)
    OBVIOUS
  <2>3. \A k \in held[i] \union {Low} : k \in Low..High
    BY <1>0
  <2> QED BY <2>1, <2>2, <2>3
<1>2. ps \in [Levels -> Low..High]
  BY <1>1
<1>3. pos' = ps /\ desc' = TRUE /\ which' = w /\ frontier' = CaptureFrontier(ps, w)
  BY DEF Settle
<1>6. \/ w = None /\ \A i \in Levels : ~LevelValid(ps[i])
      \/ /\ w \in Levels /\ LevelValid(ps[w])
         /\ \A j \in Levels : LevelValid(ps[j]) => ps[w] >= ps[j] /\ (ps[j] = ps[w] => w <= j)
  <2> QED BY <1>2, ExtremeProps
<1> HIDE DEF w
<1>4. CASE w = None /\ \A i \in Levels : ~LevelValid(ps[i])
  <2>1. \A i \in Levels : ps[i] = Low
    BY <1>0, <1>1, <1>4 DEF LevelValid
  <2>2. S = {}
    BY <1>0, <1>1, <2>1 DEF Present
  <2>3. frontier' = None /\ ~Valid'
    BY <1>3, <1>4 DEF CaptureFrontier, Valid
  <2>4. CursorTypeOK'
    BY <1>0, <1>2, <1>3, <1>4, <2>3 DEF CursorTypeOK
  <2> QED BY <2>2, <2>3, <2>4 DEF CursorInv, At
<1>5. CASE /\ w \in Levels /\ LevelValid(ps[w])
           /\ \A j \in Levels : LevelValid(ps[j]) => ps[w] >= ps[j] /\ (ps[j] = ps[w] => w <= j)
  <2>1. ps[w] \in held[w] /\ ps[w] \in Keys /\ ps[w] <= b /\ w # None
    BY <1>0, <1>1, <1>5 DEF LevelValid, Levels
  <2>2. frontier' = ps[w] /\ Key' = ps[w] /\ Valid' /\ which' = w
    BY <1>0, <1>3, <2>1 DEF CaptureFrontier, Valid, Key, EmptyKey
  <2>3. ASSUME NEW i \in Levels PROVE ps[w] >= ps[i]
    BY <1>0, <1>1, <1>5, <2>1 DEF LevelValid
  <2>4. ASSUME NEW i \in Levels PROVE ps[i] = Greatest({k \in held[i] \union {Low} : k <= ps[w]})
    <3> DEFINE T == {k \in held[i] \union {Low} : k <= ps[w]}
    <3>1. T \subseteq Int
      BY <1>0
    <3>4. ps[i] \in T
      BY <1>1, <2>3
    <3>2. \A k \in T : ps[i] >= k
      <4> TAKE k \in T
      <4>1. k \in Int /\ b \in Int /\ ps[w] \in Int
        BY <1>0, <2>1
      <4> QED BY <1>1, <2>1, <4>1
    <3> HIDE DEF T
    <3>3. Greatest(T) = ps[i]
      BY <3>1, <3>2, <3>4, GreatestUnique
    <3> QED BY <3>3 DEF T
  <2>5. ASSUME NEW i \in Levels PROVE pos'[i] = SeekDown(i, frontier)'
    <3>1. SeekDown(i, frontier)' = Greatest({k \in held[i] \union {Low} : k <= ps[w]})
      BY <2>2 DEF SeekDown
    <3>2. pos'[i] = ps[i]
      BY <1>3
    <3> QED BY <2>4, <3>1, <3>2
  <2>6. ASSUME NEW i \in Levels, pos'[i] = Key' PROVE which' <= i
    BY <1>3, <1>5, <2>2, <2>6
  <2>7. CursorTypeOK'
    BY <1>0, <1>2, <1>3, <1>5, <2>1, <2>2 DEF CursorTypeOK
  <2>8. ps[w] \in S /\ S \subseteq Int
    BY <1>0, <2>1, <1>5 DEF Present
  <2>9. \A k \in S : ps[w] >= k
    <3> TAKE k \in S
    <3>1. PICK i \in Levels : k \in held[i]
      BY DEF Present
    <3>2. k \in Int /\ ps[w] \in Int
      BY <1>0, <2>1, <3>1
    <3>3. ps[i] \in Int
      BY <1>0, <1>1
    <3>4. ps[w] >= ps[i] /\ ps[i] >= k
      BY <1>1, <2>3, <3>1
    <3> QED BY <3>2, <3>3, <3>4
  <2>10. Greatest(S) = ps[w]
    <3> HIDE DEF S
    <3> QED BY <2>8, <2>9, GreatestUnique
  <2>11. At' = Greatest(S) /\ S # {}
    BY <2>2, <2>8, <2>10 DEF At
  <2> QED BY <1>3, <2>2, <2>5, <2>6, <2>7, <2>11 DEF CursorInv
<1> QED BY <1>4, <1>5, <1>6

\* The levels of a new cursor stand where they should.
LEMMA SeekInv ==
  ASSUME NonEmptyKeys, CursorInv, NEW key \in Keys, Seek(key)
  PROVE  CursorInv' /\ Cursor!Seek(key) /\ UNCHANGED held
<1> DEFINE ps == [i \in Levels |-> LevelSeek(i, key)]
<1>1. key \in Int /\ key <= High
  BY CursorAssumption DEF Keys, High, NonEmptyKeys
<1>2. held' = held /\ CursorTypeOK /\ Settle(ps, FALSE)
  BY DEF Seek, CursorInv
<1> HIDE DEF ps
<1>3. /\ CursorInv'
      /\ At' = LET S == {k \in Present : k >= key} IN IF S = {} THEN None ELSE Least(S)
  BY <1>1, <1>2, SettleUp DEF ps
<1> QED BY <1>2, <1>3 DEF Cursor!Seek, Cursor!Nearest, Least, At, Present
\* A valid cursor stands on a key.
LEMMA FrontierKey == ASSUME NonEmptyKeys, CursorInv, Valid PROVE Key \in Keys
<1>1. /\ which \in Levels /\ frontier = Key /\ frontier \in Keys \union {None}
      /\ pos \in [Levels -> Low..High]
  BY DEF CursorInv, CursorTypeOK, Valid
<1>2. pos[which] \in Low..High
  BY <1>1
<1> QED BY <1>1, <1>2, CursorAssumption DEF Key, NonEmptyKeys, Low, High, None

\* Going on upwards, every level moves to its first key above the current one.
LEMMA AdvanceUp ==
  ASSUME NonEmptyKeys, CursorInv, Valid, ~desc, NEW i \in Levels
  PROVE  (IF LevelValid(pos[i]) /\ pos[i] = Key THEN LevelNext(i, pos[i]) ELSE pos[i])
            = LevelSeek(i, Key + 1)
<1> DEFINE T == {k \in held[i] \union {High} : k >= Key + 1}
<1>0. /\ held[i] \subseteq 1..MaxKey /\ Key \in 1..MaxKey
      /\ Low = 0 /\ High = MaxKey + 1 /\ MaxKey \in Nat
  BY CursorAssumption, FrontierKey DEF NonEmptyKeys, CursorInv, CursorTypeOK, Keys, Low, High
<1>1. /\ pos[i] \in held[i] \union {High} /\ pos[i] >= Key
      /\ \A k \in held[i] \union {High} : k >= Key => pos[i] <= k
  <2>1. CursorTypeOK /\ pos[i] = LevelSeek(i, Key)
    BY DEF CursorInv
  <2>2. Key \in Int /\ Key <= High
    BY <1>0
  <2> QED BY <2>1, <2>2, LevelSeekProps
<1>2. CASE pos[i] = Key
  <2>1. LevelValid(pos[i])
    BY <1>0, <1>2 DEF LevelValid
  <2>2. {k \in held[i] \union {High} : k > pos[i] \/ k = High} = T
    BY <1>0, <1>2
  <2> QED BY <1>2, <2>1, <2>2 DEF LevelNext, LevelSeek
<1>3. CASE pos[i] # Key
  <2>1. T \subseteq Int
    BY <1>0
  <2>2. pos[i] \in T
    BY <1>0, <1>1, <1>3
  <2>3. \A k \in T : pos[i] <= k
    BY <1>0, <1>1
  <2>4. Least(T) = pos[i]
    <3> HIDE DEF T
    <3> QED BY <2>1, <2>2, <2>3, LeastUnique
  <2> QED BY <1>3, <2>4 DEF LevelSeek
<1> QED BY <1>2, <1>3

\* Turning upwards, every level moves to its first key above the current one.
LEMMA ReorientUp ==
  ASSUME NonEmptyKeys, CursorInv, Valid, desc, NEW i \in Levels
  PROVE  Reorient(i, pos[i], frontier, FALSE) = LevelSeek(i, Key + 1)
<1> DEFINE T == {k \in held[i] \union {High} : k >= Key + 1}
           q == IF LevelValid(pos[i]) THEN pos[i] ELSE LevelNext(i, pos[i])
<1>0. /\ held[i] \subseteq 1..MaxKey /\ Key \in 1..MaxKey
      /\ Low = 0 /\ High = MaxKey + 1 /\ MaxKey \in Nat
  BY CursorAssumption, FrontierKey DEF NonEmptyKeys, CursorInv, CursorTypeOK, Keys, Low, High
<1>1. pos[i] \in held[i] \union {Low} /\ pos[i] <= Key
  <2>1. CursorTypeOK /\ pos[i] = SeekDown(i, Key)
    BY DEF CursorInv
  <2>2. Key \in Int /\ Key >= Low
    BY <1>0
  <2> QED BY <2>1, <2>2, SeekDownProps
<1>2. q \in Int /\ q > Low /\ \A k \in T : q <= k
  <2>1. CASE LevelValid(pos[i])
    BY <1>0, <1>1, <2>1 DEF LevelValid
  <2>2. CASE ~LevelValid(pos[i])
    <3> DEFINE F == {k \in held[i] \union {High} : k > pos[i] \/ k = High}
    <3>1. pos[i] = Low
      BY <1>0, <1>1, <2>2 DEF LevelValid
    <3>2. F \subseteq Int /\ High \in F /\ (\A k \in F : 1 <= k) /\ 1 \in Int
      BY <1>0, <3>1
    <3>3. Least(F) \in F /\ \A k \in F : Least(F) <= k
      <4> HIDE DEF F
      <4> QED BY <3>2, LeastProps
    <3>4. q = Least(F)
      BY <2>2 DEF LevelNext
    <3>5. T \subseteq F
      BY <1>0, <3>1
    <3>6. Least(F) \in Int /\ Least(F) > Low
      BY <1>0, <3>2, <3>3
    <3> HIDE DEF F, q, T
    <3> QED BY <3>3, <3>4, <3>5, <3>6
  <2> QED BY <2>1, <2>2
<1>3. frontier = Key
  BY DEF CursorInv
<1>4. {k \in held[i] \union {Low, High} : k >= q /\ (k > Key \/ k = High)} = T
  <2> HIDE DEF q
  <2>1. ASSUME NEW k \in held[i] \union {Low, High}, k >= q, k > Key \/ k = High PROVE k \in T
    BY <1>0, <1>2, <2>1
  <2>2. ASSUME NEW k \in T PROVE k \in held[i] \union {Low, High} /\ k >= q /\ k > Key
    BY <1>0, <1>2, <2>2
  <2> QED BY <2>1, <2>2
<1> QED BY <1>3, <1>4 DEF Reorient, Advance, LevelSeek

\* Going on downwards, every level moves to its first key below the current one.
LEMMA AdvanceDown ==
  ASSUME NonEmptyKeys, CursorInv, Valid, desc, NEW i \in Levels
  PROVE  (IF LevelValid(pos[i]) /\ pos[i] = Key THEN LevelPrev(i, pos[i]) ELSE pos[i])
            = SeekDown(i, Key - 1)
<1> DEFINE T == {k \in held[i] \union {Low} : k <= Key - 1}
<1>0. /\ held[i] \subseteq 1..MaxKey /\ Key \in 1..MaxKey
      /\ Low = 0 /\ High = MaxKey + 1 /\ MaxKey \in Nat
  BY CursorAssumption, FrontierKey DEF NonEmptyKeys, CursorInv, CursorTypeOK, Keys, Low, High
<1>1. /\ pos[i] \in held[i] \union {Low} /\ pos[i] <= Key
      /\ \A k \in held[i] \union {Low} : k <= Key => pos[i] >= k
  <2>1. CursorTypeOK /\ pos[i] = SeekDown(i, Key)
    BY DEF CursorInv
  <2>2. Key \in Int /\ Key >= Low
    BY <1>0
  <2> QED BY <2>1, <2>2, SeekDownProps
<1>2. CASE pos[i] = Key
  <2>1. LevelValid(pos[i])
    BY <1>0, <1>2 DEF LevelValid
  <2>2. {k \in held[i] \union {Low} : k < pos[i] \/ k = Low} = T
    BY <1>0, <1>2
  <2> QED BY <1>2, <2>1, <2>2 DEF LevelPrev, SeekDown
<1>3. CASE pos[i] # Key
  <2>1. T \subseteq Int
    BY <1>0
  <2>2. pos[i] \in T
    BY <1>0, <1>1, <1>3
  <2>3. \A k \in T : pos[i] >= k
    BY <1>0, <1>1
  <2>4. Greatest(T) = pos[i]
    <3> HIDE DEF T
    <3> QED BY <2>1, <2>2, <2>3, GreatestUnique
  <2> QED BY <1>3, <2>4 DEF SeekDown
<1> QED BY <1>2, <1>3

\* Turning downwards, every level moves to its first key below the current one.
LEMMA ReorientDown ==
  ASSUME NonEmptyKeys, CursorInv, Valid, ~desc, NEW i \in Levels
  PROVE  Reorient(i, pos[i], frontier, TRUE) = SeekDown(i, Key - 1)
<1> DEFINE T == {k \in held[i] \union {Low} : k <= Key - 1}
           q == IF LevelValid(pos[i]) THEN pos[i] ELSE LevelPrev(i, pos[i])
<1>0. /\ held[i] \subseteq 1..MaxKey /\ Key \in 1..MaxKey
      /\ Low = 0 /\ High = MaxKey + 1 /\ MaxKey \in Nat
  BY CursorAssumption, FrontierKey DEF NonEmptyKeys, CursorInv, CursorTypeOK, Keys, Low, High
<1>1. pos[i] \in held[i] \union {High} /\ pos[i] >= Key
  <2>1. CursorTypeOK /\ pos[i] = LevelSeek(i, Key)
    BY DEF CursorInv
  <2>2. Key \in Int /\ Key <= High
    BY <1>0
  <2> QED BY <2>1, <2>2, LevelSeekProps
<1>2. q \in Int /\ q < High /\ \A k \in T : q >= k
  <2>1. CASE LevelValid(pos[i])
    BY <1>0, <1>1, <2>1 DEF LevelValid
  <2>2. CASE ~LevelValid(pos[i])
    <3> DEFINE F == {k \in held[i] \union {Low} : k < pos[i] \/ k = Low}
    <3>1. pos[i] = High
      BY <1>0, <1>1, <2>2 DEF LevelValid
    <3>2. F \subseteq Int /\ Low \in F /\ (\A k \in F : k <= MaxKey) /\ MaxKey \in Int
      BY <1>0, <3>1
    <3>3. Greatest(F) \in F /\ \A k \in F : Greatest(F) >= k
      <4> HIDE DEF F
      <4> QED BY <3>2, GreatestProps
    <3>4. q = Greatest(F)
      BY <2>2 DEF LevelPrev
    <3>5. T \subseteq F
      BY <1>0, <3>1
    <3>6. Greatest(F) \in Int /\ Greatest(F) < High
      BY <1>0, <3>2, <3>3
    <3> HIDE DEF F, q, T
    <3> QED BY <3>3, <3>4, <3>5, <3>6
  <2> QED BY <2>1, <2>2
<1>3. frontier = Key
  BY DEF CursorInv
<1>4. {k \in held[i] \union {Low, High} : k <= q /\ (k < Key \/ k = Low)} = T
  <2> HIDE DEF q
  <2>1. ASSUME NEW k \in held[i] \union {Low, High}, k <= q, k < Key \/ k = Low PROVE k \in T
    BY <1>0, <1>2, <2>1
  <2>2. ASSUME NEW k \in T PROVE k \in held[i] \union {Low, High} /\ k <= q /\ k < Key
    BY <1>0, <1>2, <2>2
  <2> QED BY <2>1, <2>2
<1> QED BY <1>3, <1>4 DEF Reorient, Advance, SeekDown
-----------------------------------------------------------------------------
(* Steps.                                                                  *)

\* Where a step in direction d ends: on the next key, or off the end.
LEMMA StepInv ==
  ASSUME NonEmptyKeys, CursorInv, NEW d \in BOOLEAN, Step(d)
  PROVE  /\ CursorInv' /\ UNCHANGED held
         /\ IF d THEN Cursor!Prev ELSE Cursor!Next
<1>0. held' = held /\ CursorTypeOK
  BY DEF Step, CursorInv
<1>1. CASE ~Valid
  <2>1. frontier = None
    BY <1>1 DEF CursorInv
  <2>2. /\ pos' = pos /\ frontier' = frontier /\ which' = None /\ desc' \in BOOLEAN
        /\ which = None
    BY <1>1, <2>1 DEF Step, Valid, CursorInv, CursorTypeOK
  <2>3. CursorInv' /\ At = None /\ At' = None
    BY <1>0, <1>1, <2>1, <2>2 DEF CursorInv, CursorTypeOK, Valid, At
  <2>4. Cursor!Next /\ Cursor!Prev
    BY <1>0, <2>3 DEF Cursor!Next, Cursor!Prev, At, Present
  <2> QED BY <1>0, <2>3, <2>4
<1>2. CASE Valid
  <2>0. Key \in Int /\ Key + 1 \in Int /\ Key - 1 \in Int /\ Key + 1 <= High /\ Key - 1 >= Low
        /\ Key # None
    BY <1>2, FrontierKey, CursorAssumption DEF Keys, High, Low, NonEmptyKeys, None
  <2>1. frontier # None
    BY <1>2, <2>0 DEF CursorInv
  <2>2. CASE ~d
    <3> DEFINE up == [i \in Levels |-> LevelSeek(i, Key + 1)]
    <3>1. Settle(up, FALSE)
      <4>1. CASE desc
        <5>1. Settle([i \in Levels |-> Reorient(i, pos[i], frontier, FALSE)], FALSE)
          BY <2>1, <2>2, <4>1 DEF Step
        <5>2. [i \in Levels |-> Reorient(i, pos[i], frontier, FALSE)] = up
          BY <1>2, <4>1, ReorientUp
        <5> QED BY <5>1, <5>2
      <4>2. CASE ~desc
        <5> DEFINE ps == [i \in Levels |-> IF LevelValid(pos[i]) /\ pos[i] = Key
                                           THEN LevelNext(i, pos[i]) ELSE pos[i]]
        <5>1. Settle(ps, FALSE)
          <6>1. d = FALSE /\ d = desc
            BY <2>2, <4>2, <1>0 DEF CursorTypeOK
          <6>2. Settle([i \in Levels |-> IF LevelValid(pos[i]) /\ pos[i] = Key
                                        THEN Advance(i, pos[i], FALSE) ELSE pos[i]], FALSE)
            BY <1>2, <6>1 DEF Step
          <6>3. \A i \in Levels : Advance(i, pos[i], FALSE) = LevelNext(i, pos[i])
            BY DEF Advance
          <6> QED BY <6>2, <6>3
        <5>2. ps = up
          BY <1>2, <4>2, AdvanceUp
        <5> QED BY <5>1, <5>2
      <4> QED BY <4>1, <4>2
    <3>2. /\ CursorInv'
          /\ At' = LET S == {k \in Present : k >= Key + 1} IN IF S = {} THEN None ELSE Least(S)
      <4> HIDE DEF up
      <4> QED BY <1>0, <2>0, <3>1, SettleUp DEF up
    <3>3. {k \in Present : k >= Key + 1} = {k \in Present : k > Key}
      BY <1>0, <2>0, CursorAssumption DEF CursorTypeOK, Present, Keys
    <3>4. At' = LET S == {k \in Present : k > Key} IN IF S = {} THEN None ELSE Least(S)
      BY <3>2, <3>3
    <3>5. Cursor!Next
      BY <1>0, <1>2, <2>0, <3>4 DEF Cursor!Next, Cursor!Nearest, Least, At, Present
    <3> QED BY <1>0, <2>2, <3>2, <3>5
  <2>3. CASE d
    <3> DEFINE down == [i \in Levels |-> SeekDown(i, Key - 1)]
    <3>1. Settle(down, TRUE)
      <4>1. CASE ~desc
        <5>1. Settle([i \in Levels |-> Reorient(i, pos[i], frontier, TRUE)], TRUE)
          BY <2>1, <2>3, <4>1 DEF Step
        <5>2. [i \in Levels |-> Reorient(i, pos[i], frontier, TRUE)] = down
          BY <1>2, <4>1, ReorientDown
        <5> QED BY <5>1, <5>2
      <4>2. CASE desc
        <5> DEFINE ps == [i \in Levels |-> IF LevelValid(pos[i]) /\ pos[i] = Key
                                           THEN LevelPrev(i, pos[i]) ELSE pos[i]]
        <5>1. Settle(ps, TRUE)
          <6>1. d = TRUE /\ d = desc
            BY <2>3, <4>2, <1>0 DEF CursorTypeOK
          <6>2. Settle([i \in Levels |-> IF LevelValid(pos[i]) /\ pos[i] = Key
                                        THEN Advance(i, pos[i], TRUE) ELSE pos[i]], TRUE)
            BY <1>2, <6>1 DEF Step
          <6>3. \A i \in Levels : Advance(i, pos[i], TRUE) = LevelPrev(i, pos[i])
            BY DEF Advance
          <6> QED BY <6>2, <6>3
        <5>2. ps = down
          BY <1>2, <4>2, AdvanceDown
        <5> QED BY <5>1, <5>2
      <4> QED BY <4>1, <4>2
    <3>2. /\ CursorInv'
          /\ At' = LET S == {k \in Present : k <= Key - 1} IN IF S = {} THEN None ELSE Greatest(S)
      <4> HIDE DEF down
      <4> QED BY <1>0, <2>0, <3>1, SettleDown DEF down
    <3>3. {k \in Present : k <= Key - 1} = {k \in Present : k < Key}
      BY <1>0, <2>0, CursorAssumption DEF CursorTypeOK, Present, Keys
    <3>4. At' = LET S == {k \in Present : k < Key} IN IF S = {} THEN None ELSE Greatest(S)
      BY <3>2, <3>3
    <3>5. Cursor!Prev
      BY <1>0, <1>2, <2>0, <3>4 DEF Cursor!Prev, Cursor!Farthest, Greatest, At, Present
    <3> QED BY <1>0, <2>3, <3>2, <3>5
  <2> QED BY <2>2, <2>3
<1> QED BY <1>1, <1>2
-----------------------------------------------------------------------------
(* Theorems.                                                               *)

\* A cursor that was not used yet satisfies the invariant.
LEMMA CursorInitInv == ASSUME NonEmptyKeys, CursorInit PROVE CursorInv
<1>1. High \in Low..High
  BY CursorAssumption DEF NonEmptyKeys, Low, High
<1>2. CursorTypeOK
  BY <1>1 DEF CursorInit, CursorTypeOK
<1> QED BY <1>2 DEF CursorInit, CursorInv, Valid

\* The invariant is inductive.
LEMMA CursorNextInv ==
  ASSUME NonEmptyKeys, CursorInv, [CursorNext]_cursorVars
  PROVE  CursorInv'
<1>1. ASSUME NEW key \in Keys, Seek(key) PROVE CursorInv'
  BY <1>1, SeekInv
<1>2. ASSUME NEW d \in BOOLEAN, Step(d) PROVE CursorInv'
  BY <1>2, StepInv
<1>3. CASE UNCHANGED cursorVars
  BY <1>3 DEF cursorVars, CursorInv, CursorTypeOK, Valid, Key, SeekDown, LevelSeek
<1> QED BY <1>1, <1>2, <1>3 DEF CursorNext

\* The cursors of the levels never get out of step (LevelsAroundFrontier), over
\* any number of levels and through any sequence of Seek, Next and Prev.
THEOREM CursorAroundFrontier ==
  ASSUME NonEmptyKeys PROVE CursorSpec => []LevelsAroundFrontier
<1>1. CursorInit => CursorInv
  BY CursorInitInv
<1>2. CursorInv /\ [CursorNext]_cursorVars => CursorInv'
  BY CursorNextInv
<1>3. CursorInv => LevelsAroundFrontier
  BY DEF CursorInv, LevelsAroundFrontier, LevelSeek, SeekDown
<1> QED BY <1>1, <1>2, <1>3, PTL DEF CursorSpec

\* What the invariant says about copies of a key in several levels.
LEMMA NewestShown == ASSUME NonEmptyKeys, CursorInv PROVE ShowsNewest
<1> SUFFICES ASSUME Valid, NEW i \in Levels, Key \in held[i] PROVE which <= i
  BY DEF ShowsNewest
<1>1. CursorTypeOK /\ Key \in Int /\ Key <= High /\ Key >= Low /\ Key # Low /\ Key # High
  BY FrontierKey, CursorAssumption DEF CursorInv, Keys, Low, High, NonEmptyKeys
<1>2. pos[i] = Key
  <2>1. CASE desc
    <3>1. pos[i] = SeekDown(i, Key)
      BY <2>1 DEF CursorInv
    <3>2. pos[i] >= Key /\ pos[i] <= Key
      BY <1>1, <3>1, SeekDownProps
    <3> QED BY <1>1, <3>2 DEF CursorTypeOK, Low, High
  <2>2. CASE ~desc
    <3>1. pos[i] = LevelSeek(i, Key)
      BY <2>2 DEF CursorInv
    <3>2. pos[i] >= Key /\ pos[i] <= Key
      BY <1>1, <3>1, LevelSeekProps
    <3> QED BY <1>1, <3>2 DEF CursorTypeOK, Low, High
  <2> QED BY <2>1, <2>2
<1> QED BY <1>2 DEF CursorInv

\* What the merged cursor shows is the newest entry of its key (ShowsNewest).
THEOREM CursorShowsNewest ==
  ASSUME NonEmptyKeys PROVE CursorSpec => []ShowsNewest
<1>1. CursorInit => CursorInv
  BY CursorInitInv
<1>2. CursorInv /\ [CursorNext]_cursorVars => CursorInv'
  BY CursorNextInv
<1>3. CursorInv => ShowsNewest
  BY NewestShown
<1> QED BY <1>1, <1>2, <1>3, PTL DEF CursorSpec

\* The merged cursor is a cursor over one sorted map (ImplementsCursor): no key
\* is skipped, shown twice or shown out of order, whatever the directions of
\* the calls.
THEOREM CursorImplements ==
  ASSUME NonEmptyKeys PROVE CursorSpec => ImplementsCursor
<1>1. CursorInit => CursorInv
  BY CursorInitInv
<1>2. CursorInv /\ [CursorNext]_cursorVars => CursorInv'
  BY CursorNextInv
<1>3. CursorInit => Cursor!Init
  BY DEF CursorInit, Cursor!Init, Valid
<1>4. CursorInv => FollowsCalls
  BY SeekInv, StepInv DEF FollowsCalls
<1>5. CursorInv => [FollowsCalls]_cursorVars
  BY <1>4
<1> QED BY <1>1, <1>2, <1>3, <1>5, PTL DEF CursorSpec, ImplementsCursor
-----------------------------------------------------------------------------
(* Scans of a range.                                                       *)

\* The live keys that a scan in direction d will still meet, the one the
\* cursor stands on included.
Remaining(d) == IF Valid THEN {j \in Live : IF d THEN j <= Key ELSE j >= Key} ELSE {}

TombsHeld == held \in [Levels -> SUBSET Keys] /\ \A i \in Levels : tombs[i] \subseteq held[i]

-----------------------------------------------------------------------------
(* Where the cursor stands.                                                *)

\* The key of a valid cursor is an entry of the level it is read from.
LEMMA ShownIsHeld ==
  ASSUME NonEmptyKeys, CursorInv, Valid
  PROVE  Key \in Keys /\ which \in Levels /\ Key \in held[which]
<1>1. /\ Key \in Keys /\ which \in Levels /\ Key = pos[which] /\ frontier = Key /\ CursorTypeOK
      /\ pos[which] = IF desc THEN SeekDown(which, frontier) ELSE LevelSeek(which, frontier)
  BY FrontierKey DEF CursorInv, CursorTypeOK, Valid, Key
<1>2. Key \in Int /\ Low <= Key /\ Key <= High /\ Key # Low /\ Key # High
  BY <1>1, CursorAssumption DEF Keys, Low, High
<1>3. CASE desc
  <2>1. SeekDown(which, Key) \in held[which] \union {Low}
    BY <1>1, <1>2, SeekDownProps
  <2> QED BY <1>1, <1>2, <1>3, <2>1
<1>4. CASE ~desc
  <2>1. LevelSeek(which, Key) \in held[which] \union {High}
    BY <1>1, <1>2, LevelSeekProps
  <2> QED BY <1>1, <1>2, <1>4, <2>1
<1> QED BY <1>1, <1>3, <1>4

\* A reader should see the key of a cursor if and only if it is no tombstone.
LEMMA LiveUnlessTombstone ==
  ASSUME NonEmptyKeys, CursorInv, TombsHeld, Valid
  PROVE  Key \in Live <=> ~OnTombstone
<1>1. Key \in Keys /\ which \in Levels /\ Key \in held[which]
  BY ShownIsHeld
<1>2. \A i \in Levels : Key \in held[i] => which <= i
  BY NewestShown DEF ShowsNewest
<1>3. ASSUME ~OnTombstone PROVE Key \in Live
  <2>1. Key \in held[which] \ tombs[which]
    BY <1>1, <1>3 DEF OnTombstone, Deleted
  <2>2. \A j \in 1..(which - 1) : Key \notin held[j]
    <3> TAKE j \in 1..(which - 1)
    <3>1. j \in Levels /\ j < which
      BY <1>1, CursorAssumption DEF Levels
    <3> QED BY <1>1, <1>2, <3>1, CursorAssumption DEF Levels
  <2> QED BY <1>1, <2>1, <2>2 DEF Live
<1>4. ASSUME OnTombstone, Key \in Live PROVE FALSE
  <2>1. PICK i \in Levels : Key \in held[i] \ tombs[i] /\ \A j \in 1..(i - 1) : Key \notin held[j]
    BY <1>4 DEF Live
  <2>2. which <= i /\ i # which
    BY <1>2, <1>4, <2>1 DEF OnTombstone, Deleted
  <2>3. which \in 1..(i - 1)
    BY <1>1, <2>1, <2>2, CursorAssumption DEF Levels
  <2> QED BY <1>1, <2>1, <2>3
<1> QED BY <1>3, <1>4

\* Live keys are keys of the levels.
LEMMA LiveInPresent == Live \subseteq Present /\ Live \subseteq Keys
<1>1. ASSUME NEW k \in Live PROVE k \in Present /\ k \in Keys
  <2>1. k \in Keys /\ \E i \in Levels : k \in held[i]
    BY <1>1 DEF Live
  <2> QED BY <2>1 DEF Present
<1> QED BY <1>1

\* On a live key, or on none, the cursor stands where the scan has got to.
LEMMA StandsOnRemaining ==
  ASSUME NonEmptyKeys, CursorInv, TombsHeld, ~OnTombstone, NEW d \in BOOLEAN
  PROVE  StandsOn(Remaining(d), d)
<1>1. CASE ~Valid
  BY <1>1 DEF Remaining, StandsOn
<1>2. CASE Valid
  <2>0. Key \in Live
    BY <1>2, LiveUnlessTombstone
  <2>1. Key \in Live /\ Key \in Int /\ Live \subseteq Int
    BY <2>0, LiveInPresent, CursorAssumption DEF Keys
  <2>3. CASE d
    <3> DEFINE T == {j \in Live : j <= Key}
    <3>1. Remaining(d) = T
      BY <1>2, <2>3 DEF Remaining
    <3>2. T \subseteq Int /\ Key \in T /\ \A j \in T : Key >= j
      <4>1. Key <= Key
        BY <2>1
      <4>2. \A j \in T : j \in Int /\ j <= Key
        BY <2>1
      <4> QED BY <2>1, <4>1, <4>2
    <3> HIDE DEF T
    <3>3. Greatest(T) = Key
      BY <3>2, GreatestUnique
    <3> QED BY <1>2, <2>3, <3>1, <3>2, <3>3 DEF StandsOn
  <2>4. CASE ~d
    <3> DEFINE T == {j \in Live : j >= Key}
    <3>1. Remaining(d) = T
      BY <1>2, <2>4 DEF Remaining
    <3>2. T \subseteq Int /\ Key \in T /\ \A j \in T : Key <= j
      <4>1. Key >= Key
        BY <2>1
      <4>2. \A j \in T : j \in Int /\ j >= Key
        BY <2>1
      <4> QED BY <2>1, <4>1, <4>2
    <3> HIDE DEF T
    <3>3. Least(T) = Key
      BY <3>2, LeastUnique
    <3> QED BY <1>2, <2>4, <3>1, <3>2, <3>3 DEF StandsOn
  <2> QED BY <2>3, <2>4
<1> QED BY <1>1, <1>2
-----------------------------------------------------------------------------
(* What the calls of the merged cursor do to what remains.                 *)

\* Where a call ends, as the abstract cursor says it, is a key or nowhere.
LEMMA ValidAfter ==
  ASSUME NonEmptyKeys, CursorInv', NEW v, At' = v
  PROVE  /\ v = None => ~Valid'
         /\ v # None => Valid' /\ Key' = v
<1>1. Valid' => Key' # None
  BY CursorAssumption DEF CursorInv, CursorTypeOK, Valid, Key, NonEmptyKeys, Low, High, None
<1> QED BY <1>1 DEF At

\* The least and the greatest key of a set of keys.
LEMMA ExtremeKeys ==
  ASSUME NonEmptyKeys, NEW S, S \subseteq Keys, S # {}
  PROVE  /\ Least(S) \in S /\ \A j \in S : Least(S) <= j
         /\ Greatest(S) \in S /\ \A j \in S : Greatest(S) >= j
         /\ Least(S) # None /\ Greatest(S) # None
<1>1. /\ S \subseteq Int /\ 1 \in Int /\ MaxKey \in Int /\ None \notin S
      /\ \A k \in S : 1 <= k /\ k <= MaxKey
  BY CursorAssumption DEF Keys, None, NonEmptyKeys
<1>2. Least(S) \in S /\ \A j \in S : Least(S) <= j
  BY <1>1, LeastProps
<1>3. Greatest(S) \in S /\ \A j \in S : Greatest(S) >= j
  BY <1>1, GreatestProps
<1> QED BY <1>1, <1>2, <1>3

\* A Seek leaves the live keys from its key on.
LEMMA SeekRemaining ==
  ASSUME NonEmptyKeys, CursorInv, NEW key \in Keys, Seek(key), tombs' = tombs,
         held \in [Levels -> SUBSET Keys]
  PROVE  Remaining(FALSE)' = {j \in Live : j >= key}
<1> DEFINE S == {k \in Present : k >= key}
<1>1. /\ CursorInv' /\ held' = held
      /\ At' = IF S = {} THEN None ELSE Least(S)
  BY SeekInv DEF Cursor!Seek, Cursor!Nearest, Least, At, Present
<1>2. Live' = Live /\ Live \subseteq Present /\ Present \subseteq Keys
  BY <1>1, LiveInPresent DEF Live, Present
<1>3. Keys \subseteq Int
  BY CursorAssumption DEF Keys
<1>4. CASE S = {}
  <2>1. ~Valid'
    BY <1>1, <1>4, ValidAfter
  <2> QED BY <1>2, <1>4, <2>1 DEF Remaining
<1>5. CASE S # {}
  <2>1. Least(S) \in S /\ (\A j \in S : Least(S) <= j) /\ Least(S) # None
    BY <1>2, <1>5, ExtremeKeys
  <2>2. Valid' /\ Key' = Least(S)
    BY <1>1, <1>5, <2>1, ValidAfter
  <2>3. Remaining(FALSE)' = {j \in Live : j >= Least(S)}
    BY <1>2, <2>2 DEF Remaining
  <2>4. {j \in Live : j >= Least(S)} = {j \in Live : j >= key}
    <3> DEFINE x == Least(S)
    <3>1. x \in Int /\ x >= key /\ \A j \in Present : j >= key => x <= j
      BY <1>2, <1>3, <2>1
    <3> HIDE DEF x
    <3>2. \A j \in Live : j >= x <=> j >= key
      BY <1>2, <1>3, <3>1
    <3>3. {j \in Live : j >= x} = {j \in Live : j >= key}
      BY <3>2
    <3> QED BY <3>3 DEF x
  <2> QED BY <2>3, <2>4
<1> QED BY <1>4, <1>5

\* A step leaves the live keys strictly past the one it left.
LEMMA StepRemaining ==
  ASSUME NonEmptyKeys, CursorInv, Valid, NEW d \in BOOLEAN, Step(d), tombs' = tombs
  PROVE  Remaining(d)' = {j \in Live : IF d THEN j < Key ELSE j > Key}
<1> DEFINE up == {k \in Present : k > Key}
           down == {k \in Present : k < Key}
<1>1. /\ CursorInv' /\ held' = held /\ held \in [Levels -> SUBSET Keys]
      /\ IF d THEN Cursor!Prev ELSE Cursor!Next
  BY StepInv DEF CursorInv, CursorTypeOK
<1>2. Live' = Live /\ Live \subseteq Present /\ Present \subseteq Keys
  BY <1>1, LiveInPresent DEF Live, Present
<1>3. Keys \subseteq Int /\ Key \in Keys /\ Key # None /\ At = Key
  BY FrontierKey, CursorAssumption DEF Keys, None, NonEmptyKeys, At
<1>4. CASE d
  <2>1. At' = IF down = {} THEN None ELSE Greatest(down)
    BY <1>1, <1>3, <1>4 DEF Cursor!Prev, Cursor!Farthest, Greatest, At, Present
  <2>2. CASE down = {}
    <3>1. ~Valid'
      BY <1>1, <2>1, <2>2, ValidAfter
    <3> QED BY <1>2, <1>4, <2>2, <3>1 DEF Remaining
  <2>3. CASE down # {}
    <3>1. Greatest(down) \in down /\ (\A j \in down : Greatest(down) >= j) /\ Greatest(down) # None
      BY <1>2, <2>3, ExtremeKeys
    <3>2. Valid' /\ Key' = Greatest(down)
      BY <1>1, <2>1, <2>3, <3>1, ValidAfter
    <3>3. Remaining(d)' = {j \in Live : j <= Greatest(down)}
      BY <1>2, <1>4, <3>2 DEF Remaining
    <3>4. {j \in Live : j <= Greatest(down)} = {j \in Live : j < Key}
      <4> DEFINE x == Greatest(down)
      <4>1. x \in Int /\ x < Key /\ \A j \in Present : j < Key => x >= j
        BY <1>2, <1>3, <3>1
      <4> HIDE DEF x
      <4>2. \A j \in Live : j <= x <=> j < Key
        BY <1>2, <1>3, <4>1
      <4>3. {j \in Live : j <= x} = {j \in Live : j < Key}
        BY <4>2
      <4> QED BY <4>3 DEF x
    <3> QED BY <1>4, <3>3, <3>4
  <2> QED BY <2>2, <2>3
<1>5. CASE ~d
  <2>1. At' = IF up = {} THEN None ELSE Least(up)
    BY <1>1, <1>3, <1>5 DEF Cursor!Next, Cursor!Nearest, Least, At, Present
  <2>2. CASE up = {}
    <3>1. ~Valid'
      BY <1>1, <2>1, <2>2, ValidAfter
    <3> QED BY <1>2, <1>5, <2>2, <3>1 DEF Remaining
  <2>3. CASE up # {}
    <3>1. Least(up) \in up /\ (\A j \in up : Least(up) <= j) /\ Least(up) # None
      BY <1>2, <2>3, ExtremeKeys
    <3>2. Valid' /\ Key' = Least(up)
      BY <1>1, <2>1, <2>3, <3>1, ValidAfter
    <3>3. Remaining(d)' = {j \in Live : j >= Least(up)}
      BY <1>2, <1>5, <3>2 DEF Remaining
    <3>4. {j \in Live : j >= Least(up)} = {j \in Live : j > Key}
      <4> DEFINE x == Least(up)
      <4>1. x \in Int /\ x > Key /\ \A j \in Present : j > Key => x <= j
        BY <1>2, <1>3, <3>1
      <4> HIDE DEF x
      <4>2. \A j \in Live : j >= x <=> j > Key
        BY <1>2, <1>3, <4>1
      <4>3. {j \in Live : j >= x} = {j \in Live : j > Key}
        BY <4>2
      <4> QED BY <4>3 DEF x
    <3> QED BY <1>5, <3>3, <3>4
  <2> QED BY <2>2, <2>3
<1> QED BY <1>4, <1>5

\* Skipping a tombstone skips no live key.
LEMMA SkipRemaining ==
  ASSUME NonEmptyKeys, CursorInv, TombsHeld, OnTombstone, NEW d \in BOOLEAN, Step(d), tombs' = tombs
  PROVE  Remaining(d)' = Remaining(d)
<1>1. Valid /\ Key \notin Live /\ Key \in Int /\ Live \subseteq Int
  BY LiveUnlessTombstone, LiveInPresent, FrontierKey, CursorAssumption DEF OnTombstone, Keys
<1>2. Remaining(d)' = {j \in Live : IF d THEN j < Key ELSE j > Key}
  BY <1>1, StepRemaining
<1>3. Remaining(d) = {j \in Live : IF d THEN j <= Key ELSE j >= Key}
  BY <1>1 DEF Remaining
<1>4. \A j \in Live : (IF d THEN j < Key ELSE j > Key) <=> (IF d THEN j <= Key ELSE j >= Key)
  BY <1>1
<1> QED BY <1>2, <1>3, <1>4
-----------------------------------------------------------------------------
(* The inductive invariant.                                                *)

\* What the running loop has left is what its call asks for.
LoopInv ==
    /\ call.name = "range" => call.from = range.start /\ call.desc = range.desc
    /\ phase = "seek" => /\ call.name = "range" /\ ~ahead
                         /\ Remaining(FALSE) = Onward(call.from, FALSE, TRUE)
    /\ phase = "skip" /\ call.name = "move" =>
          /\ ahead = call.desc
          /\ call.from # None => Remaining(ahead) = Onward(call.from, call.desc, FALSE)
    /\ phase = "skip" /\ call.name = "range" =>
          /\ ahead /\ call.desc
          /\ Onward(call.from, FALSE, TRUE) # {} => Remaining(TRUE) = Onward(call.from, TRUE, TRUE)

ScanInv ==
    /\ ScanTypeOK /\ CursorInv /\ TombsHeld
    /\ LoopInv /\ MovesToNeighbour /\ RangeStartsRight

\* Types and entries after any call that is a call of the merged cursor.
LEMMA CallKeeps ==
  ASSUME NonEmptyKeys, ScanInv, UNCHANGED tombs,
         (\E key \in Keys : Seek(key)) \/ (\E d \in BOOLEAN : Step(d))
  PROVE  CursorInv' /\ CursorTypeOK' /\ TombsHeld' /\ held' = held /\ Live' = Live
         /\ tombs' \in [Levels -> SUBSET Keys]
<1>1. CursorInv' /\ held' = held
  BY SeekInv, StepInv DEF ScanInv
<1> QED BY <1>1 DEF ScanInv, ScanTypeOK, CursorInv, TombsHeld, Live

\* Every step keeps the invariant.
LEMMA ScanInvStep ==
  ASSUME NonEmptyKeys, ScanInv, [ScanNext]_scanVars
  PROVE  ScanInv'
<1>0. /\ ScanTypeOK /\ CursorInv /\ TombsHeld /\ held \in [Levels -> SUBSET Keys]
      /\ call \in Call /\ range \in Bounds
  BY DEF ScanInv, ScanTypeOK, TombsHeld
<1>1. ASSUME NEW b \in Bounds, Range(b) PROVE ScanInv'
  <2>1. /\ b.start \in Keys /\ Seek(b.start) /\ tombs' = tombs /\ range' = b
        /\ call' = [name |-> "range", from |-> b.start, desc |-> b.desc]
        /\ call' \in Call /\ phase' = "seek" /\ ahead' = FALSE
    BY <1>1 DEF Range, Bounds, Call
  <2>2. /\ CursorInv' /\ CursorTypeOK' /\ TombsHeld' /\ Live' = Live
        /\ tombs' \in [Levels -> SUBSET Keys]
    BY <2>1, CallKeeps
  <2>3. ScanTypeOK'
    BY <2>1, <2>2 DEF ScanTypeOK
  <2>4. Remaining(FALSE)' = {j \in Live : j >= b.start}
    BY <1>0, <2>1, SeekRemaining
  <2>5. Onward(call.from, FALSE, TRUE)' = {j \in Live : j >= b.start}
    <3>1. Onward(call.from, FALSE, TRUE)' = {j \in Live : j = b.start \/ j > b.start}
      BY <2>1, <2>2 DEF Onward
    <3>2. b.start \in Int /\ Live \subseteq Int
      BY <2>1, LiveInPresent, CursorAssumption DEF Keys
    <3>3. \A j \in Live : (j = b.start \/ j > b.start) <=> j >= b.start
      BY <3>2
    <3> QED BY <3>1, <3>3
  <2>6. LoopInv'
    BY <2>1, <2>4, <2>5 DEF LoopInv
  <2> QED BY <2>1, <2>2, <2>3, <2>6 DEF ScanInv, MovesToNeighbour, RangeStartsRight
<1>2. CASE SkipTombstone
  <2>1. /\ OnTombstone /\ Step(ahead) /\ ahead \in BOOLEAN /\ phase \in {"seek", "skip"}
        /\ UNCHANGED <<tombs, phase, ahead, range, call>>
    BY <1>0, <1>2 DEF SkipTombstone, ScanTypeOK
  <2>2. /\ CursorInv' /\ CursorTypeOK' /\ TombsHeld' /\ Live' = Live
        /\ tombs' \in [Levels -> SUBSET Keys]
    BY <2>1, CallKeeps
  <2>3. Remaining(ahead)' = Remaining(ahead)
    BY <1>0, <2>1, SkipRemaining
  <2>4. ScanTypeOK'
    BY <1>0, <2>1, <2>2 DEF ScanTypeOK
  <2>5. LoopInv'
    <3>1. \A k, d, i : Onward(k, d, i)' = Onward(k, d, i)
      BY <2>2 DEF Onward
    <3>2. phase = "seek" => ahead = FALSE
      BY <2>1 DEF ScanInv, LoopInv
    <3>3. phase = "skip" /\ call.name = "range" => ahead = TRUE
      BY <2>1 DEF ScanInv, LoopInv
    <3> QED BY <2>1, <2>3, <3>1, <3>2, <3>3 DEF ScanInv, LoopInv
  <2> QED BY <2>1, <2>2, <2>4, <2>5 DEF ScanInv, MovesToNeighbour, RangeStartsRight
<1>3. CASE FixUp
  <2>1. /\ phase = "seek" /\ ~OnTombstone /\ Step(TRUE) /\ phase' = "skip" /\ ahead' = TRUE
        /\ UNCHANGED <<tombs, range, call>> /\ range.desc /\ (Valid => Key > range.start)
    BY <1>3 DEF FixUp, Move, NeedsFix
  <2>2. /\ CursorInv' /\ CursorTypeOK' /\ TombsHeld' /\ Live' = Live
        /\ tombs' \in [Levels -> SUBSET Keys]
    BY <2>1, CallKeeps
  <2>3. /\ call.name = "range" /\ call.from = range.start /\ call.desc
        /\ Remaining(FALSE) = Onward(call.from, FALSE, TRUE) /\ range.start \in Keys
    BY <1>0, <2>1 DEF ScanInv, LoopInv, Bounds
  <2>4. ScanTypeOK'
    BY <1>0, <2>1, <2>2 DEF ScanTypeOK
  <2>5. ASSUME Onward(call.from, FALSE, TRUE) # {}
        PROVE  Remaining(TRUE)' = Onward(call.from, TRUE, TRUE)
    <3>1. Valid /\ Remaining(FALSE) = {j \in Live : j >= Key}
      BY <2>3, <2>5 DEF Remaining
    <3>2. Remaining(TRUE)' = {j \in Live : j < Key}
      BY <1>0, <2>1, <3>1, StepRemaining
    <3>3. /\ range.start \in Int /\ Key \in Int /\ Live \subseteq Int /\ Key > range.start
      BY <1>0, <2>1, <2>3, <3>1, FrontierKey, LiveInPresent, CursorAssumption DEF Keys
    <3>4. \A j \in Live : j >= Key <=> (j = range.start \/ j > range.start)
      <4>1. {j \in Live : j >= Key} = {j \in Live : j = range.start \/ j > range.start}
        BY <2>3, <3>1 DEF Onward
      <4> QED BY <4>1
    <3>5. \A j \in Live : j < Key <=> (j = range.start \/ j < range.start)
      <4> TAKE j \in Live
      <4>1. j \in Int /\ (j >= Key <=> (j = range.start \/ j > range.start))
        BY <3>3, <3>4
      <4>2. range.start \notin Live
        BY <3>3, <3>4
      <4> QED BY <3>3, <4>1, <4>2
    <3>6. Onward(call.from, TRUE, TRUE) = {j \in Live : j = range.start \/ j < range.start}
      BY <2>3 DEF Onward
    <3> QED BY <3>2, <3>5, <3>6
  <2>6. LoopInv'
    <3>1. \A k, d, i : Onward(k, d, i)' = Onward(k, d, i)
      BY <2>2 DEF Onward
    <3>2. Onward(call.from, FALSE, TRUE)' # {} => Remaining(TRUE)' = Onward(call.from, TRUE, TRUE)'
      BY <2>1, <2>5, <3>1
    <3> QED BY <2>1, <2>3, <3>2 DEF ScanInv, LoopInv
  <2> QED BY <2>1, <2>2, <2>4, <2>6 DEF ScanInv, MovesToNeighbour, RangeStartsRight
<1>4. CASE Return
  <2>1. /\ phase \in {"seek", "skip"} /\ ~OnTombstone /\ (phase = "seek" => ~NeedsFix)
        /\ phase' = "ready" /\ UNCHANGED <<cursorVars, tombs, ahead, range, call>>
    BY <1>4 DEF Return
  <2>2. /\ CursorInv' /\ TombsHeld' /\ ScanTypeOK' /\ LoopInv'
    BY <1>0, <2>1 DEF ScanInv, cursorVars, CursorInv, CursorTypeOK, TombsHeld, ScanTypeOK, LoopInv,
                      Valid, Key, LevelSeek, SeekDown
  <2>3. \A d \in BOOLEAN : StandsOn(Remaining(d), d)
    BY <1>0, <2>1, StandsOnRemaining
  <2>4. MovesToNeighbour'
    <3> SUFFICES ASSUME call.name = "move", call.from # None
                 PROVE  StandsOn(Onward(call.from, call.desc, FALSE), call.desc)
      BY <2>1 DEF MovesToNeighbour, StandsOn, Onward, Live, cursorVars, Valid, Key
    <3>1. phase = "skip"
      BY <2>1 DEF ScanInv, LoopInv
    <3>2. /\ ahead = call.desc /\ ahead \in BOOLEAN
          /\ Remaining(ahead) = Onward(call.from, call.desc, FALSE)
      BY <1>0, <3>1 DEF ScanInv, LoopInv, ScanTypeOK
    <3> QED BY <2>3, <3>2
  <2>5. RangeStartsRight'
    <3> SUFFICES ASSUME call.name = "range", call.desc => Onward(call.from, FALSE, TRUE) # {}
                 PROVE  StandsOn(Onward(call.from, call.desc, TRUE), call.desc)
      BY <2>1 DEF RangeStartsRight, StandsOn, Onward, Live, cursorVars, Valid, Key
    <3>1. CASE phase = "skip"
      <4>1. call.desc = TRUE /\ Remaining(TRUE) = Onward(call.from, TRUE, TRUE)
        BY <1>0, <3>1 DEF ScanInv, LoopInv, Call
      <4> QED BY <2>3, <4>1
    <3>2. CASE phase = "seek"
      <4>1. /\ Remaining(FALSE) = Onward(call.from, FALSE, TRUE)
            /\ call.from = range.start /\ call.desc = range.desc /\ call.desc \in BOOLEAN
            /\ range.start \in Keys
        BY <1>0, <3>2 DEF ScanInv, LoopInv, Call, Bounds
      <4>2. CASE ~call.desc
        <5>1. call.desc = FALSE
          BY <4>1, <4>2
        <5> QED BY <2>3, <4>1, <5>1
      <4>3. CASE call.desc
        <5>1. Valid /\ ~(Key > range.start) /\ Remaining(FALSE) # {}
          BY <2>1, <3>2, <4>1, <4>3 DEF NeedsFix, Remaining
        <5>2. Key \in Live /\ Key \in Int /\ range.start \in Int /\ Live \subseteq Int
          BY <1>0, <2>1, <4>1, <5>1, FrontierKey, LiveUnlessTombstone, LiveInPresent,
             CursorAssumption DEF Keys
        <5>3. Key \in Remaining(FALSE)
          BY <5>1, <5>2 DEF Remaining
        <5>4. Key = range.start \/ Key > range.start
          BY <4>1, <5>3 DEF Onward
        <5>5. Key = range.start
          BY <5>1, <5>4
        <5>6. Remaining(TRUE) = {j \in Live : j <= Key}
          BY <5>1 DEF Remaining
        <5>7. Onward(call.from, TRUE, TRUE) = {j \in Live : j = Key \/ j < Key}
          BY <4>1, <5>5 DEF Onward
        <5>8. \A j \in Live : j <= Key <=> (j = Key \/ j < Key)
          BY <5>2
        <5>9. Remaining(TRUE) = Onward(call.from, TRUE, TRUE) /\ call.desc = TRUE
          BY <4>1, <4>3, <5>6, <5>7, <5>8
        <5> QED BY <2>3, <5>9
      <4> QED BY <4>2, <4>3
    <3> QED BY <2>1, <3>1, <3>2
  <2> QED BY <2>2, <2>4, <2>5 DEF ScanInv
<1>5. ASSUME NEW d \in BOOLEAN, phase = "ready", Move(d), Asked(d) PROVE ScanInv'
  <2>1. /\ Step(d) /\ phase' = "skip" /\ ahead' = d /\ UNCHANGED <<tombs, range>>
        /\ call' = [name |-> "move", from |-> IF Valid THEN Key ELSE None, desc |-> d]
    BY <1>5 DEF Move, Asked
  <2>2. /\ CursorInv' /\ CursorTypeOK' /\ TombsHeld' /\ Live' = Live
        /\ tombs' \in [Levels -> SUBSET Keys]
    BY <2>1, CallKeeps
  <2>3. Valid => Key \in Keys
    BY <1>0, FrontierKey
  <2>4. ScanTypeOK'
    <3>1. call' \in Call
      BY <2>1, <2>3 DEF Call
    <3> QED BY <1>0, <2>1, <2>2, <3>1 DEF ScanTypeOK
  <2>5. call'.from # None => Remaining(d)' = Onward(call.from, call.desc, FALSE)'
    <3> SUFFICES ASSUME call'.from # None
                 PROVE  Remaining(d)' = Onward(call.from, call.desc, FALSE)'
      OBVIOUS
    <3>1. Valid /\ call'.from = Key /\ call'.desc = d
      BY <2>1
    <3>2. Remaining(d)' = {j \in Live : IF d THEN j < Key ELSE j > Key}
      BY <1>0, <2>1, <3>1, StepRemaining
    <3>3. Onward(call.from, call.desc, FALSE)' = {j \in Live : IF d THEN j < Key ELSE j > Key}
      BY <2>2, <3>1 DEF Onward
    <3> QED BY <3>2, <3>3
  <2>6. LoopInv'
    BY <2>1, <2>5 DEF LoopInv
  <2> QED BY <2>1, <2>2, <2>4, <2>6 DEF ScanInv, MovesToNeighbour, RangeStartsRight
<1>6. CASE NextRow
  <2>1. range.desc \in BOOLEAN
    BY <1>0 DEF Bounds
  <2> QED BY <1>5, <1>6, <2>1 DEF NextRow
<1>7. CASE PrevRow
  BY <1>5, <1>7 DEF PrevRow
<1>8. CASE UNCHANGED scanVars
  <2>1. /\ held' = held /\ pos' = pos /\ which' = which /\ frontier' = frontier /\ desc' = desc
        /\ tombs' = tombs /\ phase' = phase /\ ahead' = ahead /\ range' = range /\ call' = call
    BY <1>8 DEF scanVars, cursorVars
  <2>2. Live' = Live /\ Valid' = Valid /\ Key' = Key
    BY <2>1 DEF Live, Valid, Key
  <2>3. CursorInv' /\ TombsHeld'
    BY <2>1 DEF ScanInv, CursorInv, CursorTypeOK, TombsHeld, Valid, Key, LevelSeek, SeekDown
  <2>4. ScanTypeOK'
    BY <2>1, <2>3 DEF ScanInv, ScanTypeOK, CursorInv, CursorTypeOK
  <2>5. LoopInv'
    BY <2>1, <2>2 DEF ScanInv, LoopInv, Remaining, Onward
  <2>6. MovesToNeighbour' /\ RangeStartsRight'
    BY <2>1, <2>2 DEF ScanInv, MovesToNeighbour, RangeStartsRight, StandsOn, Onward
  <2> QED BY <2>3, <2>4, <2>5, <2>6 DEF ScanInv
<1> QED BY <1>1, <1>2, <1>3, <1>4, <1>6, <1>7, <1>8 DEF ScanNext
-----------------------------------------------------------------------------
(* Theorems.                                                               *)

\* The invariant holds throughout.
LEMMA ScanInvHolds == ASSUME NonEmptyKeys PROVE ScanSpec => []ScanInv
<1>1. ScanInit => ScanInv
  <2> SUFFICES ASSUME ScanInit PROVE ScanInv
    OBVIOUS
  <2>1. CursorInv /\ CursorTypeOK /\ TombsHeld
    BY CursorInitInv DEF ScanInit, CursorInv, TombsHeld, CursorTypeOK
  <2>2. 1 \in Keys
    BY CursorAssumption DEF Keys, NonEmptyKeys
  <2>3. ScanTypeOK
    BY <2>1, <2>2 DEF ScanInit, ScanTypeOK, Bounds, Call
  <2> QED BY <2>1, <2>3 DEF ScanInit, ScanInv, LoopInv, MovesToNeighbour, RangeStartsRight
<1>2. ScanInv /\ [ScanNext]_scanVars => ScanInv'
  BY ScanInvStep
<1> QED BY <1>1, <1>2, PTL DEF ScanSpec

\* The state of a scan is what ScanTypeOK says.
THEOREM ScanTypeCorrect == ASSUME NonEmptyKeys PROVE ScanSpec => []ScanTypeOK
<1>1. ScanInv => ScanTypeOK
  BY DEF ScanInv
<1> QED BY <1>1, ScanInvHolds, PTL

\* Next and Prev of a scan go to the neighbouring live key (MovesToNeighbour),
\* over any number of levels and any runs of tombstones, in any order.
THEOREM ScanMovesToNeighbour == ASSUME NonEmptyKeys PROVE ScanSpec => []MovesToNeighbour
<1>1. ScanInv => MovesToNeighbour
  BY DEF ScanInv
<1> QED BY <1>1, ScanInvHolds, PTL

\* A range starts at the live key nearest to its start (RangeStartsRight).
THEOREM ScanStartsRight == ASSUME NonEmptyKeys PROVE ScanSpec => []RangeStartsRight
<1>1. ScanInv => RangeStartsRight
  BY DEF ScanInv
<1> QED BY <1>1, ScanInvHolds, PTL
=============================================================================
