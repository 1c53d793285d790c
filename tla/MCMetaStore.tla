---------------------------- MODULE MCMetaStore ----------------------------
(***************************************************************************)
(* Instances of MetaStore for TLC.                                         *)
(***************************************************************************)
EXTENDS MetaStore

ThreeTables == {"none", "x", "y"}
TwoTables == {"none", "x"}
MCNoTables == "none"

\* Power losses alone; process deaths and I/O errors; both kinds of crash.
PowerOrErrors == {{"power"}, {"kill", "ioerr"}}
KillAndPower == {{"kill", "power"}}

ASSUME MetaAssumption == MetaConstants
=============================================================================
