---------------------------- MODULE MCFUNetServer ----------------------------
(* Instances of FUNetServer for TLC.                                       *)
EXTENDS FUNetServer, TLC

CONSTANTS c1, c2

(* One client sends three requests while the other comes and goes, or both *)
(* send two.                                                               *)
Uneven == c1 :> 3 @@ c2 :> 0
Even == c1 :> 2 @@ c2 :> 2
Symmetry == Permutations(Handle)
=============================================================================
