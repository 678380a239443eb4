--------------------------- MODULE MCNetServerWin32 ---------------------------
(* Instances of NetServerWin32 for TLC.                                    *)
EXTENDS NetServerWin32, TLC

CONSTANTS c1, c2

(* One client sends and is answered while the other comes and goes. *)
Uneven == c1 :> 1 @@ c2 :> 0
(* Neither sends anything. *)
Silent == c1 :> 0 @@ c2 :> 0
Symmetry == Permutations(Worker) \cup Permutations(Socket)
=============================================================================
