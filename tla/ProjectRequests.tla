--------------------------- MODULE ProjectRequests ---------------------------
(***************************************************************************)
(* The requests about one project (internal/project/project.go): each runs *)
(* in a goroutine of its own, brings the project up to date under the      *)
(* project's lock, takes the program and converts positions with it, while *)
(* the dispatcher goes on editing the open files.  The text of a file, its *)
(* version and its line map have no lock, nor has the program once it is   *)
(* there (scriptinfo.go, documentregistry.go).                             *)
(*                                                                         *)
(* Texts are numbered in the order in which the dispatcher sets them; a    *)
(* line map is the number of the text it was computed from.  Each read or  *)
(* write of a field is one step.                                           *)
(***************************************************************************)
EXTENDS RequestState

scriptVars == <<text, version, lineMap>>
dispatchVars == <<edited, step>>
dirtyVars == <<dirty, dirtyFilePath>>
updateVars == <<document, program, unread, seen>>
requestVars == <<stage, about, snapshot, lines, sent>>
vars == <<scriptVars, dispatchVars, mu, dirtyVars, updateVars, requestVars>>

Init ==
    /\ text = [f \in File |-> 1] /\ version = [f \in File |-> 1]
    /\ lineMap = [f \in File |-> None]
    /\ edited = NoFile /\ step = "idle"
    /\ mu = Nobody
    /\ dirty = FALSE /\ dirtyFilePath = NoFile
    /\ document = [f \in File |-> [version |-> 1, text |-> 1]]
    /\ program = document
    /\ unread = {} /\ seen = [f \in File |-> None]
    /\ stage = [r \in Request |-> "new"] /\ about \in [Request -> File]
    /\ snapshot = [r \in Request |-> program]
    /\ lines = [r \in Request |-> None]
    /\ sent = [r \in Request |-> text]

-----------------------------------------------------------------------------
(* The dispatcher: one message after the other.                            *)

\* A change of a part of the text is converted with the line map, and one of the whole
\* text is not.
ChangeFile(f) ==
    /\ step = "idle" /\ text[f] <= MaxEdits[f]
    /\ edited' = f /\ step' = "text"
    /\ \/ UNCHANGED lineMap
       \/ lineMap' = [lineMap EXCEPT ![f] = IF @ = None THEN text[f] ELSE @]
    /\ UNCHANGED <<text, version, mu, dirtyVars, updateVars, requestVars>>

\* setText, field by field, before the project is told.
SetText ==
    /\ step = "text" /\ step' = "version"
    /\ text' = [text EXCEPT ![edited] = @ + 1]
    /\ UNCHANGED <<version, lineMap, edited, mu, dirtyVars, updateVars, requestVars>>

SetVersion ==
    /\ step = "version" /\ step' = "lineMap"
    /\ version' = [version EXCEPT ![edited] = @ + 1]
    /\ UNCHANGED <<text, lineMap, edited, mu, dirtyVars, updateVars, requestVars>>

DropLineMap ==
    /\ step = "lineMap" /\ step' = "mark"
    /\ lineMap' = [lineMap EXCEPT ![edited] = None]
    /\ UNCHANGED <<text, version, edited, mu, dirtyVars, updateVars, requestVars>>

DirtyFile_first(f) == IF dirty THEN dirtyFilePath ELSE f

DirtyFile(f) == IF dirty /\ f # dirtyFilePath THEN NoFile ELSE f

MarkFileAsDirty ==
    /\ step = "mark" /\ Free
    /\ dirty' = TRUE /\ dirtyFilePath' = DirtyFile(edited)
    /\ step' = "idle" /\ edited' = NoFile
    /\ UNCHANGED <<scriptVars, mu, updateVars, requestVars>>

Dispatch(r, f) ==
    /\ step = "idle" /\ stage[r] = "new"
    /\ stage' = [stage EXCEPT ![r] = "update"]
    /\ about' = [about EXCEPT ![r] = f]
    /\ sent' = [sent EXCEPT ![r] = text]
    /\ UNCHANGED <<scriptVars, dispatchVars, mu, dirtyVars, updateVars, snapshot, lines>>

-----------------------------------------------------------------------------
(* updateGraph, by a request.                                              *)

Advance(r, from, to) == stage[r] = from /\ stage' = [stage EXCEPT ![r] = to]

UpToDate(r) ==
    /\ Free /\ ~dirty
    /\ Advance(r, "update", "take")
    /\ UNCHANGED <<scriptVars, dispatchVars, mu, dirtyVars, updateVars,
                   about, snapshot, lines, sent>>

Changed == IF dirtyFilePath = NoFile THEN File ELSE {dirtyFilePath}

BeginUpdate(r) ==
    /\ Free /\ dirty
    /\ Advance(r, "update", "load")
    /\ mu' = r
    /\ unread' = Changed
    /\ UNCHANGED <<scriptVars, dispatchVars, dirtyVars, document, program, seen,
                   about, snapshot, lines, sent>>

\* getDocumentWorker; the files of a new program are acquired by several goroutines.
ReadVersion(f) ==
    /\ f \in unread /\ seen[f] = None
    /\ seen' = [seen EXCEPT ![f] = version[f]]
    /\ UNCHANGED <<scriptVars, dispatchVars, mu, dirtyVars, document, program, unread,
                   requestVars>>

Parsed(f) ==
    IF document[f].version = seen[f]
    THEN document[f]
    ELSE [version |-> seen[f], text |-> text[f]]

ReadText(f) ==
    /\ f \in unread /\ seen[f] # None
    /\ document' = [document EXCEPT ![f] = Parsed(f)]
    /\ seen' = [seen EXCEPT ![f] = None]
    /\ unread' = unread \ {f}
    /\ UNCHANGED <<scriptVars, dispatchVars, mu, dirtyVars, program, requestVars>>

\* If the file cannot be replaced, all of the program is loaded anew.
CannotReplaceFile(r) ==
    /\ stage[r] = "load" /\ unread = {} /\ dirtyFilePath # NoFile
    /\ stage' = [stage EXCEPT ![r] = "reload"]
    /\ unread' = File
    /\ UNCHANGED <<scriptVars, dispatchVars, mu, dirtyVars, document, program, seen,
                   about, snapshot, lines, sent>>

InstallProgram(r) ==
    /\ stage[r] \in {"load", "reload"} /\ unread = {}
    /\ stage' = [stage EXCEPT ![r] = "clean"]
    /\ program' = document
    /\ UNCHANGED <<scriptVars, dispatchVars, mu, dirtyVars, document, unread, seen,
                   about, snapshot, lines, sent>>

FinishUpdate(r) ==
    /\ Advance(r, "clean", "take")
    /\ dirty' = FALSE /\ dirtyFilePath' = NoFile
    /\ mu' = Nobody
    /\ UNCHANGED <<scriptVars, dispatchVars, updateVars, about, snapshot, lines, sent>>

-----------------------------------------------------------------------------
(* The request itself.                                                     *)

\* GetProgram reads the program after updateGraph has given the lock away.
GetProgram(r) ==
    /\ Advance(r, "take", "compare")
    /\ snapshot' = [snapshot EXCEPT ![r] = program]
    /\ UNCHANGED <<scriptVars, dispatchVars, mu, dirtyVars, updateVars, about, lines, sent>>

\* GetLineMap takes the line map of the script info if the file has its version, and
\* computes one of the file's text otherwise.
GetLineMap(r) ==
    /\ \/ /\ snapshot[r][about[r]].version = version[about[r]]
          /\ Advance(r, "compare", "look")
       \/ /\ snapshot[r][about[r]].version # version[about[r]]
          /\ Advance(r, "compare", "answer")
    /\ UNCHANGED <<scriptVars, dispatchVars, mu, dirtyVars, updateVars,
                   about, snapshot, lines, sent>>

\* LineMap computes what is not there, from the text it reads, and stores it.
Look(r) ==
    /\ Advance(r, "look", IF lineMap[about[r]] = None THEN "compute" ELSE "answer")
    /\ UNCHANGED <<scriptVars, dispatchVars, mu, dirtyVars, updateVars,
                   about, snapshot, lines, sent>>

ComputeLineStarts(r) ==
    /\ Advance(r, "compute", "store")
    /\ lines' = [lines EXCEPT ![r] = text[about[r]]]
    /\ UNCHANGED <<scriptVars, dispatchVars, mu, dirtyVars, updateVars, about, snapshot, sent>>

StoreLineMap(r) ==
    /\ Advance(r, "store", "answer")
    /\ lineMap' = [lineMap EXCEPT ![about[r]] = lines[r]]
    /\ lines' = [lines EXCEPT ![r] = None]
    /\ UNCHANGED <<text, version, dispatchVars, mu, dirtyVars, updateVars, about, snapshot, sent>>

\* The request converts another position, or it ends and another one takes its place.
Answer(r) ==
    /\ stage[r] = "answer"
    /\ stage' \in {[stage EXCEPT ![r] = s] : s \in {"compare", "new"}}
    /\ UNCHANGED <<scriptVars, dispatchVars, mu, dirtyVars, updateVars,
                   about, snapshot, lines, sent>>

-----------------------------------------------------------------------------
Edit ==
    \/ SetText \/ SetVersion \/ DropLineMap \/ MarkFileAsDirty
    \/ \E f \in File : ChangeFile(f)

UpdateGraph(r) ==
    \/ UpToDate(r) \/ BeginUpdate(r) \/ CannotReplaceFile(r)
    \/ InstallProgram(r) \/ FinishUpdate(r)

Handle(r) ==
    \/ \E f \in File : Dispatch(r, f)
    \/ GetProgram(r) \/ GetLineMap(r)
    \/ Look(r) \/ ComputeLineStarts(r) \/ StoreLineMap(r) \/ Answer(r)

Next ==
    \/ Edit
    \/ \E f \in File : ReadVersion(f) \/ ReadText(f)
    \/ \E r \in Request : UpdateGraph(r) \/ Handle(r)

Spec == Init /\ [][Next]_vars

-----------------------------------------------------------------------------
Program == [File -> [version : Nat, text : Nat]]

Stages ==
    {"new", "update", "load", "reload", "clean", "take", "compare", "look", "compute",
     "store", "answer"}

TypeOK ==
    /\ text \in [File -> Nat] /\ version \in [File -> Nat] /\ lineMap \in [File -> Nat]
    /\ edited \in File \cup {NoFile} /\ (edited = NoFile <=> step = "idle")
    /\ step \in {"idle", "text", "version", "lineMap", "mark"}
    /\ mu \in Request \cup {Nobody}
    /\ dirty \in BOOLEAN /\ dirtyFilePath \in File \cup {NoFile}
    /\ document \in Program /\ program \in Program
    /\ unread \subseteq File /\ seen \in [File -> Nat]
    /\ stage \in [Request -> Stages] /\ about \in [Request -> File]
    /\ snapshot \in [Request -> Program] /\ lines \in [Request -> Nat]
    /\ sent \in [Request -> [File -> Nat]]
=============================================================================
