----------------------------- MODULE DurableMap -----------------------------
(***************************************************************************)
(* What the storage engine promises: a map from keys to values that a      *)
(* crash does not change.  A write that returned success is there; a write *)
(* that was interrupted, or returned an error, is there or not after the   *)
(* next restart, and not seen before.  Levels, log, metadata and           *)
(* compaction are not visible: nothing but a write changes an answer.      *)
(***************************************************************************)
CONSTANTS Keys,    \* the keys
          Vals,    \* the values
          Absent   \* a key without a value

Writes == [key : Keys, val : Vals \union {Absent}]

VARIABLES up,      \* the store is open
          store,   \* what Get answers for every key
          writing, \* the write in progress: no element or one; Absent is a delete
          maybe    \* for every key, other answers a restart may bring

vars == <<up, store, writing, maybe>>

Init ==
    /\ up = FALSE
    /\ store = [k \in Keys |-> Absent]
    /\ writing = {}
    /\ maybe = [k \in Keys |-> {}]

\* No new answers become possible for the keys in S.
Bounded(S) == DOMAIN maybe' = Keys /\ \A k \in S : maybe'[k] \subseteq maybe[k]

Start == ~up /\ up' = TRUE /\ UNCHANGED <<store, writing, maybe>>

\* A write is started.
Begin(w) ==
    /\ up /\ writing = {}
    /\ writing' = {w}
    /\ Bounded(Keys \ {w.key}) /\ maybe'[w.key] \subseteq maybe[w.key] \union {w.val}
    /\ UNCHANGED <<up, store>>

\* It returns success: no earlier write of the key can come back.
Commit(w) ==
    /\ up /\ writing = {w}
    /\ store' = [store EXCEPT ![w.key] = w.val]
    /\ writing' = {}
    /\ Bounded(Keys) /\ maybe'[w.key] = {}
    /\ UNCHANGED up

\* It returns an error.
Fail(w) ==
    /\ up /\ writing = {w}
    /\ writing' = {}
    /\ Bounded(Keys)
    /\ UNCHANGED <<up, store>>

\* Failed writes are forgotten for good, for instance by a compaction.
Forget == Bounded(Keys) /\ UNCHANGED <<up, store, writing>>

\* The store is stopped, by a crash or not: what it holds is settled.
Stop ==
    /\ DOMAIN store' = Keys
    /\ \A k \in Keys : store'[k] \in {store[k]} \union maybe[k]
    /\ maybe' = [k \in Keys |-> {}]
    /\ up' = FALSE /\ writing' = {}

Next ==
    \/ Start
    \/ \E w \in Writes : Begin(w) \/ Commit(w) \/ Fail(w)
    \/ Forget
    \/ Stop

Spec == Init /\ [][Next]_vars
=============================================================================
