------------------------------ MODULE MCFileOrder ------------------------------
(***************************************************************************)
(* Programs of two source files, each with up to two references to         *)
(* itself, the other and a library, and two libraries that may refer to    *)
(* each other; a file may be missing.                                      *)
(***************************************************************************)
EXTENDS FileOrder

CONSTANTS a, b, l, m

MCPath == {a, b, l, m}

Libs == {l, m}

Ref(p) == [path |-> p, isLib |-> p \in Libs]

Lists(paths, max) ==
    {[i \in DOMAIN s |-> Ref(s[i])] : s \in UNION {[1 .. n -> paths] : n \in 0 .. max}}

MCReferences ==
    {(a :> fromA @@ b :> fromB @@ l :> fromL @@ m :> fromM) :
        fromA \in Lists({a, b, l}, 2), fromB \in Lists({a, l, m}, 2),
        fromL \in Lists({m}, 1), fromM \in Lists({l}, 1)}

MCProgram ==
    [roots : {<<Ref(a), Ref(b), Ref(l)>>, <<Ref(b), Ref(m)>>},
     references : MCReferences,
     missing : {{}, {b}}]

MCPriority == [p \in MCPath |-> IF p = l THEN 1 ELSE IF p = m THEN 0 ELSE 2]
=============================================================================
