------------------------------- MODULE MCWAL -------------------------------
(***************************************************************************)
(* Instances of WALHistory for TLC.                                        *)
(***************************************************************************)
EXTENDS WALHistory

\* Power losses that may tear a record; process deaths and I/O errors.
PowerOrErrors == {{"power", "torn"}, {"kill", "ioerr"}}
PowerAndTorn == {{"power", "torn"}}
=============================================================================
