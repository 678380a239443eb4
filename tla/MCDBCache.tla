------------------------------ MODULE MCDBCache ------------------------------
(* Instances of DBCache for TLC.                                           *)
EXTENDS DBCache, TLC

CONSTANTS ta, tb, ra, rb, h1, h2

MCTable == {ta, tb}
MCRecord == {ra, rb}
MCTableOf == (ra :> ta) @@ (rb :> tb)
Symmetry == Permutations(Handler)
=============================================================================
