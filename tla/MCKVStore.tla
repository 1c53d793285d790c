----------------------------- MODULE MCKVStore -----------------------------
(***************************************************************************)
(* Instances of KVStore for TLC.                                           *)
(***************************************************************************)
EXTENDS KVStore, TLC

NoFaults == {{}}
PowerAndTorn == {{"power", "torn"}}
ErrorsOrOpenErrors == {{"kill", "ioerr"}, {"kill", "openerr"}}
OpenErrors == {{"openerr"}}

KeySymmetry == Permutations(Keys)
ValSymmetry == Permutations(Vals)
=============================================================================
