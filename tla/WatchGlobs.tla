----------------------------- MODULE WatchGlobs -----------------------------
(***************************************************************************)
(* Which directories are watched for the locations where a module was      *)
(* looked for and not found (internal/project/watch.go).  A location is    *)
(* the sequence of the components of its path, in lower case: a root ("/", *)
(* "c:/" or "//server/"), directories, and a file name.                    *)
(***************************************************************************)
EXTENDS Integers, Sequences, FiniteSets, SequencesExt, FiniteSetsExt, TLC

Volume == {"c:/"}            \* the roots and next components in DOS style
Share == {"c$"}

\* "Assuming all of the input paths are filenames": no lookup is for a directory.
IsFileName(l) == l \in Seq(STRING) /\ l # <<>> /\ Last(l) # "node_modules"

NoWatch == [dir |-> <<>>, recursive |-> FALSE]

Indices(l, name) == {i \in DOMAIN l : l[i] = name}

\* Components of the root of the file system: "//server/c$" are two.
OsRootLength(l) ==
    IF Len(l) >= 2 /\ l[1] \notin Volume \cup {"/"} /\ l[2] \in Share THEN 2 ELSE 1

isDosStyle(l) == l[1] \in Volume \/ OsRootLength(l) = 2

\* The components that are too near to the root to be watched: "c:/", "/workspaces",
\* "/home/user", "c:/users/user".
perceivedOsRootLengthForWatching(l) ==
    LET root == OsRootLength(l)
    IN  IF Len(l) <= root \/ (isDosStyle(l) /\ l[root + 1] # "users") THEN root
        ELSE IF l[root + 1] = "workspaces" THEN root + 1
        ELSE root + 2

canWatchDirectoryOrFile(l) ==
    Len(l) >= 2 /\ Len(l) > perceivedOsRootLengthForWatching(l) + 1

NearRoot(l) ==
    LET osRoot == perceivedOsRootLengthForWatching(l)
    IN  Len(l) <= osRoot + 1 \/ \E i \in Indices(l, "node_modules") : i <= osRoot + 1

\* A directory of the root with all that is in it, or the root without.
InRootDirectory(l, root) ==
    IF Len(l) > Len(root) + 1
    THEN [dir |-> SubSeq(l, 1, Max({Len(root), perceivedOsRootLengthForWatching(l)}) + 1),
          recursive |-> TRUE]
    ELSE [dir |-> root, recursive |-> FALSE]

\* The outermost node_modules with all that is in it, or the location's own directory.
getDirectoryToWatchFromFailedLookupLocationDirectory(l) ==
    LET modules == Indices(l, "node_modules")
    IN  [dir |-> SubSeq(l, 1, IF modules = {} THEN Len(l) - 1 ELSE Min(modules)),
         recursive |-> modules # {}]

getDirectoryToWatchFailedLookupLocation(l, root) ==
    IF NearRoot(l) THEN NoWatch
    ELSE IF canWatchDirectoryOrFile(root) /\ IsPrefix(root, l) THEN InRootDirectory(l, root)
    ELSE getDirectoryToWatchFromFailedLookupLocationDirectory(l)

\* One file stands for all of its directory, whichever the map yields first.
resolutionLookupGlobs(data, root) ==
    LET Representative(d) == CHOOSE l \in data : Front(l) = d
        watches == {getDirectoryToWatchFailedLookupLocation(Representative(d), root) :
                        d \in {Front(l) : l \in data}} \ {NoWatch}
    IN  {[dir |-> d, recursive |-> [dir |-> d, recursive |-> TRUE] \in watches] :
            d \in {w.dir : w \in watches}}

\* What the client matches the location of an event with.
Matches(glob, l) ==
    /\ IsPrefix(glob.dir, l) /\ Len(l) > Len(glob.dir)
    /\ glob.recursive \/ Len(l) = Len(glob.dir) + 1
=============================================================================
