----------------------------- MODULE RangeScan -----------------------------
(***************************************************************************)
(* KV.Seek and KV.Range over the merged cursor: filterDeleted and          *)
(* NoDeletedIter (storage/filterdel.go) skip tombstones, RangedKVIter      *)
(* (storage/ranged.go) bounds the scan and gives it a direction.           *)
(*                                                                         *)
(* Skipping is a loop of steps of the merged cursor; one iteration is one  *)
(* step here.                                                              *)
(***************************************************************************)
EXTENDS MergedCursor

VARIABLES tombs,    \* the tombstones of each level
          phase,    \* "new", "ready", or the loop that is running
          ahead,    \* the direction of the running loop
          range,    \* the arguments of Range
          call      \* what the last call was asked, for the properties

scanVars == <<cursorVars, tombs, phase, ahead, range, call>>

Bounds == [start : Keys, stop : Keys, desc : BOOLEAN]

\* name: "range", or "move" for a Next or Prev of the RangedKVIter; from: the
\* key asked for, or the key the cursor stood on (None: it stood on none).
Call == [name : {"range", "move"}, from : Keys \union {None}, desc : BOOLEAN]

ScanTypeOK ==
    /\ CursorTypeOK
    /\ tombs \in [Levels -> SUBSET Keys]
    /\ phase \in {"new", "seek", "skip", "ready"}
    /\ ahead \in BOOLEAN
    /\ range \in Bounds
    /\ call \in Call

Deleted == Key \in tombs[which]
OnTombstone == Valid /\ Deleted

\* RangedKVIter.Valid
InRange == Valid /\ IF range.desc THEN Key >= range.stop ELSE Key <= range.stop
-----------------------------------------------------------------------------
ScanInit ==
    /\ CursorInit
    /\ tombs \in [Levels -> SUBSET Keys]
    /\ \A i \in Levels : tombs[i] \subseteq held[i]
    /\ phase = "new" /\ ahead = FALSE
    /\ range = [start |-> 1, stop |-> 1, desc |-> FALSE]
    /\ call = [name |-> "range", from |-> 1, desc |-> FALSE]

\* Range begins with Seek(start).
Range(b) ==
    /\ phase = "new"
    /\ Seek(b.start)
    /\ range' = b
    /\ call' = [name |-> "range", from |-> b.start, desc |-> b.desc]
    /\ phase' = "seek" /\ ahead' = FALSE
    /\ UNCHANGED tombs

\* Faulty: Prev skips tombstones forwards.
SkipForwards ==
    /\ phase \in {"seek", "skip"}
    /\ OnTombstone
    /\ Step(FALSE)
    /\ UNCHANGED <<tombs, phase, ahead, range, call>>

\* Faulty: the loop does not move.
SkipStuck ==
    /\ phase \in {"seek", "skip"}
    /\ OnTombstone
    /\ UNCHANGED scanVars

\* The loops of filterDeleted and of NoDeletedIter.Next and Prev.
SkipTombstone ==
    /\ phase \in {"seek", "skip"}
    /\ OnTombstone
    /\ Step(ahead)
    /\ UNCHANGED <<tombs, phase, ahead, range, call>>

\* The first step of NoDeletedIter.Next (d = FALSE) and Prev (d = TRUE).
Move(d) ==
    /\ Step(d)
    /\ phase' = "skip" /\ ahead' = d
    /\ UNCHANGED <<tombs, range>>

\* Faulty: only an exhausted cursor is corrected.
NeedsFixAtEnd == range.desc /\ ~Valid

\* Range: a descending scan that stands above start, or on no key, steps back.
NeedsFix == range.desc /\ (Valid => Key > range.start)

FixUp ==
    /\ phase = "seek" /\ ~OnTombstone
    /\ NeedsFix
    /\ Move(TRUE)
    /\ UNCHANGED call

Return ==
    /\ phase \in {"seek", "skip"} /\ ~OnTombstone
    /\ phase = "seek" => ~NeedsFix
    /\ phase' = "ready"
    /\ UNCHANGED <<cursorVars, tombs, ahead, range, call>>

Asked(d) == call' = [name |-> "move", from |-> IF Valid THEN Key ELSE None, desc |-> d]

\* RangedKVIter.Next does nothing past stop; RangedKVIter.Prev always moves.
NextRow ==
    /\ phase = "ready"
    /\ InRange
    /\ Move(range.desc) /\ Asked(range.desc)

PrevRow ==
    /\ phase = "ready"
    /\ Move(~range.desc) /\ Asked(~range.desc)

ScanNext ==
    \/ \E b \in Bounds : Range(b)
    \/ SkipTombstone
    \/ FixUp
    \/ Return
    \/ NextRow
    \/ PrevRow

ScanSpec == ScanInit /\ [][ScanNext]_scanVars /\ WF_scanVars(SkipTombstone \/ FixUp \/ Return)
-----------------------------------------------------------------------------
\* The keys a reader should see: the newest entry is not a tombstone.
Live == {k \in Keys : \E i \in Levels : /\ k \in held[i] \ tombs[i]
                                        /\ \A j \in 1..(i - 1) : k \notin held[j]}

\* The live keys in direction d from key k, k itself included or not.
Onward(k, d, inclusive) ==
    {j \in Live : \/ inclusive /\ j = k
                  \/ IF d THEN j < k ELSE j > k}

StandsOn(S, d) ==
    IF S = {} THEN ~Valid ELSE Valid /\ Key = IF d THEN Greatest(S) ELSE Least(S)

\* A Next or Prev from a live key ends on the neighbouring live key, or off the
\* end if there is none: no key is skipped, shown twice or shown although it is
\* deleted, whatever the reader did before (filterdel.go, ranged.go).
MovesToNeighbour ==
    (phase = "ready" /\ call.name = "move" /\ call.from # None) =>
        StandsOn(Onward(call.from, call.desc, FALSE), call.desc)

\* Range begins at the live key nearest to start in its direction (ranged.go:51),
\* provided that, for a descending scan, the Seek finds a live key at all.
RangeStartsRight ==
    (phase = "ready" /\ call.name = "range"
     /\ (call.desc => Onward(call.from, FALSE, TRUE) # {})) =>
        StandsOn(Onward(call.from, call.desc, TRUE), call.desc)

\* Every call of a cursor returns: the loops over tombstones end.
CallsReturn == phase \in {"seek", "skip"} ~> phase = "ready"
=============================================================================
