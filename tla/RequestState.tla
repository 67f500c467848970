---------------------------- MODULE RequestState ----------------------------
(***************************************************************************)
(* What the requests about one project share (ProjectRequests): the fields *)
(* of the script infos, of the project and of the registry's documents,    *)
(* the places of the dispatcher and of the requests, and what the requests *)
(* are promised.                                                           *)
(***************************************************************************)
EXTENDS Naturals

CONSTANTS
    File, Request,
    Nobody, NoFile,
    MaxEdits                 \* of each file

ASSUME RequestsAssumption ==
    /\ Nobody \notin Request
    /\ NoFile \notin File
    /\ MaxEdits \in [File -> Nat]

VARIABLES
    text, version, lineMap,  \* script infos; line map None: not computed
    edited,                  \* file that the dispatcher is at, or NoFile
    step,                    \* what the dispatcher does next: "idle", "text", "version", ...
    mu,                      \* request that has the project's lock, or Nobody
    dirty, dirtyFilePath,
    document,                \* registry: file -> [version, text] it was last parsed with
    program,                 \* of the project: file -> [version, text]
    unread,                  \* files of the update yet to be acquired
    seen,                    \* version read of a file that is being acquired, or None
    stage,                   \* request -> how far it is
    about,                   \* request -> file it asks about
    snapshot,                \* request -> program it works with
    lines,                   \* request -> line map that it has computed, or None
    sent                     \* request -> texts when it was dispatched (history)

None == 0

Free_always == TRUE

\* The lock of the project is nobody's.
Free == mu = Nobody

-----------------------------------------------------------------------------
\* A request works with a program in which every file is as new as when the request
\* was dispatched, whoever has brought the project up to date and whatever is edited
\* in the meantime.
SeesEarlierChanges ==
    \A r \in Request :
        stage[r] \in {"compare", "look", "compute", "store", "answer"}
            => \A f \in File : snapshot[r][f].text >= sent[r][f]

\* No change is forgotten: when neither the dispatcher nor an update is at work, a
\* project that is not marked dirty has every file in the version of its script info,
\* although the files are read and written without a lock.
NoChangeIsForgotten ==
    Free /\ step = "idle" /\ ~dirty =>
        \A f \in File : program[f] = [version |-> version[f], text |-> text[f]]

\* "The current line ranges from lineMap.LineStarts[line] (or 0) to
\* lineMap.LineStarts[line+1] (or len(text))" (converters.go): the line map with which
\* the dispatcher converts the next change of a file is that of the text it changes.
LineMapsAreOfTheirTexts ==
    step = "idle" => \A f \in File : lineMap[f] \in {None, text[f]}
=============================================================================
