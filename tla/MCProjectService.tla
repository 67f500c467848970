--------------------------- MODULE MCProjectService ---------------------------
(***************************************************************************)
(* Two files; the text t2 imports the file b.                              *)
(***************************************************************************)
EXTENDS ProjectService, TLC

CONSTANTS a, b, t1, t2

ImportsOfT2 == t1 :> {} @@ t2 :> {b}
=============================================================================
