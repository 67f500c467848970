------------------------------ MODULE ScriptInfo ------------------------------
(***************************************************************************)
(* The server's view of one file (internal/project/scriptinfo.go): its     *)
(* text, from the editor while the file is open and from disk otherwise,   *)
(* the version of that text, and the projects the file is attached to.     *)
(* The operations are operators on the record; the component that calls    *)
(* them (Project, ProjectService) owns the state.                          *)
(***************************************************************************)
EXTENDS Naturals, Sequences, SequencesExt

CONSTANTS
    Path,               \* files
    Text,               \* contents of files
    NoText,             \* the text of an info before it is given one; no file
    Project,            \* project objects
    NoInfo, NoVersion

VARIABLE
    disk                \* path -> its content, NoText where there is no file

Exists(p) == disk[p] # NoText

\* The script infos of the service.
Info ==
    [text : Text, version : Nat, isOpen : BOOLEAN, pendingReloadFromDisk : BOOLEAN,
     matchesDiskText : BOOLEAN, deferredDelete : BOOLEAN,
     containingProjects : {c \in Seq(Project) : IsInjective(c)}]

ASSUME InfoAssumption ==
    /\ NoText \notin Text
    /\ NoInfo \notin Info
    /\ NoVersion \notin Nat

NewScriptInfo ==
    [text |-> NoText, version |-> 0, isOpen |-> FALSE, pendingReloadFromDisk |-> FALSE,
     matchesDiskText |-> FALSE, deferredDelete |-> FALSE, containingProjects |-> <<>>]

setText(i, t) == [i EXCEPT !.text = t, !.version = @ + 1]

SetTextFromDisk(i, t) ==
    IF t = i.text THEN i ELSE [setText(i, t) EXCEPT !.matchesDiskText = TRUE]

\* A pending reload reads the disk at every look at the text or the version: the
\* flag stays set.
reloadIfNeeded(i, p) ==
    IF i.pendingReloadFromDisk /\ Exists(p) THEN SetTextFromDisk(i, disk[p]) ELSE i

open_pending(i, t) ==
    LET j == [i EXCEPT !.isOpen = TRUE]
    IN  IF t = j.text THEN j ELSE [setText(j, t) EXCEPT !.matchesDiskText = FALSE]

open(i, t) ==
    LET j == [i EXCEPT !.isOpen = TRUE, !.pendingReloadFromDisk = FALSE]
    IN  IF t = j.text THEN j ELSE [setText(j, t) EXCEPT !.matchesDiskText = FALSE]

\* close(fileExists) asks for a reload where the text may be the editor's.
NeedsReload(i, p) == Exists(p) /\ ~i.pendingReloadFromDisk /\ ~i.matchesDiskText

close_kept(i, p) == [i EXCEPT !.isOpen = FALSE]

close(i, p) ==
    [i EXCEPT !.isOpen = FALSE, !.pendingReloadFromDisk = @ \/ NeedsReload(i, p)]

isAttached(i, P) == Contains(i.containingProjects, P)

attachToProject(i, P) ==
    IF isAttached(i, P) THEN i
    ELSE [i EXCEPT !.containingProjects = Append(@, P)]

detachFromProject(i, P) ==
    IF ~isAttached(i, P) THEN i
    ELSE LET index == CHOOSE k \in DOMAIN i.containingProjects :
                          i.containingProjects[k] = P
         IN  [i EXCEPT !.containingProjects = RemoveAt(@, index)]
=============================================================================
