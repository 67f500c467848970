-------------------------- MODULE MCDocumentRegistry --------------------------
(***************************************************************************)
(* Two projects that share two files; or one project that spells one file  *)
(* in two ways, on a file system that ignores case.                        *)
(***************************************************************************)
EXTENDS DocumentRegistry, TLC

CONSTANTS f1, f2, q1, q2

CaseSensitive == f1 :> q1 @@ f2 :> q2
OnePath == [f \in File |-> q1]

Symmetry == Permutations(Entry) \cup Permutations(Project) \cup Permutations(Option)
=============================================================================
