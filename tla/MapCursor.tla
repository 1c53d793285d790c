----------------------------- MODULE MapCursor -----------------------------
(***************************************************************************)
(* What a merged cursor promises: it stands on a key of one sorted map, or *)
(* has run off an end of it, and each call moves it to where its name      *)
(* says.  A cursor that has run off stays there until the next Seek.       *)
(***************************************************************************)
EXTENDS Integers

CONSTANTS Keys,    \* the keys, natural numbers
          End      \* the cursor has run off

VARIABLES present, \* the keys of the map
          at       \* the key the cursor stands on, or End

Nearest(S) == CHOOSE k \in S : \A j \in S : k <= j
Farthest(S) == CHOOSE k \in S : \A j \in S : k >= j

Init == present \in SUBSET Keys /\ at = End

\* To the first key from key on.
Seek(key) ==
    LET above == {k \in present : k >= key}
    IN  /\ at' = IF above = {} THEN End ELSE Nearest(above)
        /\ UNCHANGED present

\* To the neighbouring key above, if any.
Next ==
    LET above == {k \in present : k > at}
    IN  /\ at' = IF at = End \/ above = {} THEN End ELSE Nearest(above)
        /\ UNCHANGED present

\* To the neighbouring key below, if any.
Prev ==
    LET below == {k \in present : k < at}
    IN  /\ at' = IF at = End \/ below = {} THEN End ELSE Farthest(below)
        /\ UNCHANGED present
=============================================================================
