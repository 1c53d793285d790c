--------------------------- MODULE MetaRegister ---------------------------
(***************************************************************************)
(* What the metadata store promises to its user: a register that holds one *)
(* KVMetaData value and survives crashes.  A write that returned success   *)
(* is there until the next one; a write that was interrupted, or that      *)
(* returned an error, is either there or not there after the next restart, *)
(* and not seen before.  MetaStore, the double-buffered implementation, is *)
(* shown to implement this specification.                                  *)
(***************************************************************************)
EXTENDS Naturals

CONSTANTS Versions,  \* the version numbers
          Tables,    \* the lists of SSTable names a KVMetaData can carry
          NoTables   \* the empty list, part of the zero KVMetaData

MetaData == [version : Versions, tables : Tables]
Zero     == [version |-> 0, tables |-> NoTables]

VARIABLES up,        \* the register is in use
          live,      \* the value a reader sees
          writing,   \* the write in progress: no element or one
          unsure     \* writes without success that a restart may bring back

vars == <<up, live, writing, unsure>>

Init == up = FALSE /\ live = Zero /\ writing = {} /\ unsure = {}

Start == ~up /\ up' = TRUE /\ UNCHANGED <<live, writing, unsure>>

\* A write of d is accepted: it must carry a version above the live one.  It
\* may overwrite what an earlier failed write has left.
Begin(d) ==
    /\ up /\ writing = {}
    /\ d.version > live.version
    /\ writing' = {d}
    /\ unsure' \subseteq unsure \union {d}
    /\ UNCHANGED <<up, live>>

\* The write of d returns: d is live, no earlier write can come back.
Commit(d) ==
    /\ up /\ writing = {d}
    /\ live' = d
    /\ writing' = {} /\ unsure' = {}
    /\ UNCHANGED up

\* The write of d returns an error.
Fail(d) ==
    /\ up /\ writing = {d}
    /\ writing' = {} /\ unsure' \subseteq unsure
    /\ UNCHANGED <<up, live>>

\* The register is stopped, by a crash or not: what it holds is settled.
Stop ==
    /\ live' \in {live} \union unsure
    /\ up' = FALSE /\ writing' = {} /\ unsure' = {}

Next == Start \/ (\E d \in MetaData : Begin(d) \/ Commit(d) \/ Fail(d)) \/ Stop

Spec == Init /\ [][Next]_vars
=============================================================================
