----------------------------- MODULE MCDBAutoKey -----------------------------
(* Instances of DBAutoKey for TLC.                                         *)
EXTENDS DBAutoKey, TLC

CONSTANTS h1, h2

(* With three digits 2 is "nine": keys before and at each carry, keys that *)
(* have no next, a letter alone and before a digit, and the empty key.     *)
MCNamed == {<<>>, <<0>>, <<2>>, <<1, 2>>, <<2, 1>>, <<3>>, <<3, 1>>}
Symmetry == Permutations(Handler)
=============================================================================
