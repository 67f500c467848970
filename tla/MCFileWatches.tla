--------------------------- MODULE MCFileWatches ---------------------------
(***************************************************************************)
(* Two projects, a file, an edit, a refusal and an open document; builds   *)
(* look up files in and out of the current directory, in node_modules, and *)
(* near to the root of a volume.                                           *)
(***************************************************************************)
EXTENDS FileWatches

Home == <<"/", "home", "u", "p", "q">>

MCRoots == {Home}

MCLookups ==
    {{},
     {Home \o <<"a.ts">>, Home \o <<"src", "b.ts">>, <<"c:/", "c.ts">>},
     {<<"c:/", "in", "node_modules", "x", "d.ts">>, <<"//server/", "c$", "in", "lib", "c.ts">>}}

\* Nothing is claimed of what follows once two projects have got the same number.
Unmixed == ~mixed

Symmetry == Permutations(Project)
=============================================================================
