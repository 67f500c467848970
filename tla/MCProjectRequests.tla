------------------------- MODULE MCProjectRequests -------------------------
(* Two files, the first of which is edited twice, and two requests that do  *)
(* again and again what each of them may do.                                *)
EXTENDS ProjectRequests, TLC

CONSTANTS f1, f2

TwiceAndOnce == f1 :> 2 @@ f2 :> 1

Symmetry == Permutations(Request)
=============================================================================
