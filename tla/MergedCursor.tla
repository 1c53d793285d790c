---------------------------- MODULE MergedCursor ----------------------------
(***************************************************************************)
(* MergedSortedKVIter (storage/merge.go) over the cursors of its levels:   *)
(* SortedArrayIter (sortedarray.go) and SortedFileIter (sstable.go).       *)
(*                                                                         *)
(* The keys are the numbers MinKey..MaxKey; 0 is the empty byte string,    *)
(* the smallest of all keys.  A level cursor is the key it stands on, or   *)
(* Low or High when its pos is one before the first or one past the last   *)
(* entry.  Level 1 is the newest.                                          *)
(***************************************************************************)
EXTENDS Integers

CONSTANTS MinKey,     \* 0 if the store may hold the empty key, else 1
          MaxKey,     \* the largest key
          NumLevels   \* the MemTable and the SSTables

ASSUME CursorAssumption ==
    MinKey \in {0, 1} /\ MaxKey \in Nat \ {0} /\ NumLevels \in Nat

Keys     == MinKey..MaxKey
EmptyKey == 0
Levels   == 1..NumLevels
Low      == MinKey - 1
High     == MaxKey + 1
None     == -2     \* MergedSortedKVIter.which is -1, frontier is nil

VARIABLES held,      \* the keys of each level, tombstones included
          pos,       \* the level cursors
          which,     \* the level that holds the current key
          frontier,  \* the current key, for a change of direction
          desc       \* the current direction

cursorVars == <<held, pos, which, frontier, desc>>

CursorTypeOK ==
    /\ held \in [Levels -> SUBSET Keys]
    /\ pos \in [Levels -> Low..High]
    /\ which \in Levels \union {None}
    /\ frontier \in Keys \union {None}
    /\ desc \in BOOLEAN

-----------------------------------------------------------------------------
(* The cursor of level i, standing at p.                                   *)

Least(S)    == CHOOSE k \in S : \A j \in S : k <= j
Greatest(S) == CHOOSE k \in S : \A j \in S : k >= j

LevelSeek(i, key) == Least({k \in held[i] \union {High} : k >= key})
LevelNext(i, p) == Least({k \in held[i] \union {High} : k > p \/ k = High})
LevelPrev(i, p) == Greatest({k \in held[i] \union {Low} : k < p \/ k = Low})
LevelValid(p) == p # Low /\ p # High

\* advance
Advance(i, p, d) == IF d THEN LevelPrev(i, p) ELSE LevelNext(i, p)

\* Faulty: a level that has run off its end is left there.
ReorientStaysOff(i, p, key, d) ==
    LET passed == {k \in held[i] \union {Low, High} :
                      IF d THEN k <= p /\ (k < key \/ k = Low)
                           ELSE k >= p /\ (k > key \/ k = High)}
    IN  IF ~LevelValid(p) THEN p ELSE IF d THEN Greatest(passed) ELSE Least(passed)

\* reorient: back into range, then on to the first key strictly past key.
Reorient(i, p, key, d) ==
    LET q == IF LevelValid(p) THEN p ELSE Advance(i, p, d)
        passed == {k \in held[i] \union {Low, High} :
                      IF d THEN k <= q /\ (k < key \/ k = Low)
                           ELSE k >= q /\ (k > key \/ k = High)}
    IN  IF d THEN Greatest(passed) ELSE Least(passed)
-----------------------------------------------------------------------------
\* Faulty: of several levels with the same key the oldest is taken.
ExtremeOldest(ps, d) ==
    LET valid == {i \in Levels : LevelValid(ps[i])}
        best == {i \in valid : \A j \in valid : IF d THEN ps[i] >= ps[j] ELSE ps[i] <= ps[j]}
    IN  IF valid = {} THEN None ELSE Greatest(best)

\* extreme: the level with the smallest (largest) current key, the newest of
\* several.
Extreme(ps, d) ==
    LET valid == {i \in Levels : LevelValid(ps[i])}
        best == {i \in valid : \A j \in valid : IF d THEN ps[i] >= ps[j] ELSE ps[i] <= ps[j]}
    IN  IF valid = {} THEN None ELSE Least(best)

\* Faulty: the frontier of an exhausted cursor is an empty key instead of nil.
CaptureEmpty(ps, w) == IF w = None THEN EmptyKey ELSE ps[w]

\* captureFrontier: a copy of the key, made by appending its bytes to nil.  The
\* copy of the empty key is nil again.
CaptureFrontier(ps, w) == IF w = None \/ ps[w] = EmptyKey THEN None ELSE ps[w]

\* which and frontier follow from the level cursors.
Settle(ps, d) ==
    /\ pos' = ps
    /\ desc' = d
    /\ which' = Extreme(ps, d)
    /\ frontier' = CaptureFrontier(ps, Extreme(ps, d))

Valid == which # None
Key   == pos[which]

CursorInit ==
    /\ held \in [Levels -> SUBSET Keys]
    /\ pos = [i \in Levels |-> High]
    /\ which = None /\ frontier = None /\ desc = FALSE

\* cursor: a new cursor over the levels (Iter is a Seek of the first key).
Seek(key) ==
    /\ Settle([i \in Levels |-> LevelSeek(i, key)], FALSE)
    /\ UNCHANGED held

\* Faulty: only the level that shows the key moves on, not the shadowed ones.
StepOne(d) ==
    /\ IF d # desc
       THEN IF frontier = None
            THEN desc' = d /\ which' = None /\ UNCHANGED <<pos, frontier>>
            ELSE Settle([i \in Levels |-> Reorient(i, pos[i], frontier, d)], d)
       ELSE IF ~Valid
            THEN UNCHANGED <<pos, which, frontier, desc>>
            ELSE Settle([pos EXCEPT ![which] = Advance(which, Key, d)], d)
    /\ UNCHANGED held

\* step: a change of direction moves every level relative to the frontier;
\* otherwise every level that stands on the current key moves on.
Step(d) ==
    /\ IF d # desc
       THEN IF frontier = None
            THEN desc' = d /\ which' = None /\ UNCHANGED <<pos, frontier>>
            ELSE Settle([i \in Levels |-> Reorient(i, pos[i], frontier, d)], d)
       ELSE IF ~Valid
            THEN UNCHANGED <<pos, which, frontier, desc>>
            ELSE Settle([i \in Levels |-> IF LevelValid(pos[i]) /\ pos[i] = Key
                                          THEN Advance(i, pos[i], d) ELSE pos[i]], d)
    /\ UNCHANGED held

CursorNext == (\E key \in Keys : Seek(key)) \/ (\E d \in BOOLEAN : Step(d))

CursorSpec == CursorInit /\ [][CursorNext]_cursorVars
-----------------------------------------------------------------------------
\* The entry the cursor shows is the newest one of its key: no newer level
\* holds the key (merge.go: on a tie level 0 wins, lower copies are skipped).
ShowsNewest == Valid => \A i \in Levels : Key \in held[i] => which <= i

\* The level cursors agree on the frontier: each stands on its first key at or
\* past it, so that no key can be skipped or shown twice, also after the
\* direction has changed in the middle of a scan (merge.go, step and reorient).
LevelsAroundFrontier ==
    Valid => /\ frontier = Key
             /\ \A i \in Levels :
                   pos[i] = IF desc THEN Greatest({k \in held[i] \union {Low} : k <= frontier})
                                    ELSE Least({k \in held[i] \union {High} : k >= frontier})

Cursor == INSTANCE MapCursor
    WITH End <- None,
         present <- UNION {held[i] : i \in Levels},
         at <- IF Valid THEN Key ELSE None

\* Each call moves the merged cursor as the call of its name moves a cursor
\* over the union of the levels: Next and Prev, in any order, go to the
\* neighbouring key.
FollowsCalls ==
    /\ \A key \in Keys : Seek(key) => Cursor!Seek(key)
    /\ Step(FALSE) => Cursor!Next
    /\ Step(TRUE) => Cursor!Prev

\* The merged cursor behaves as a cursor over one sorted map: from any point,
\* after any sequence of Seek, Next and Prev, every call ends where MapCursor
\* says (merge.go, MergedSortedKVIter).
ImplementsCursor == Cursor!Init /\ [][FollowsCalls]_cursorVars
=============================================================================
