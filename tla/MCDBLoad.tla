------------------------------- MODULE MCDBLoad -------------------------------
(* Instances of DBLoad for TLC.                                            *)
EXTENDS DBLoad, TLC

CONSTANTS h1, h2, d1, d2, t1, t2

(* One table is in both databases, the other in the first only.            *)
MCExists == {<<d1, t1>>, <<d2, t1>>, <<d1, t2>>}
Symmetry == Permutations(Handler)
=============================================================================
