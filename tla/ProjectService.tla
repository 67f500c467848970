---------------------------- MODULE ProjectService ----------------------------
(***************************************************************************)
(* The project service of the language server                              *)
(* (internal/project/service.go): script infos and projects under the      *)
(* editor's notifications (open, change, save, close), the client's file   *)
(* watch events and requests, while files and the config file change on    *)
(* disk.  There is one directory with a config file at most (the files     *)
(* Inside it) and one inferred project for the rest.                       *)
(*                                                                         *)
(* Each operation is one action: notifications are handled one at a time.  *)
(* The client reports a change on disk if the server watches the path, and *)
(* later than it happens.                                                  *)
(***************************************************************************)
EXTENDS Project

CONSTANTS
    Inside,             \* the files under the directory of the config file
    NoProject, Config,
    MaxChanges          \* bound: how many things the user does

ASSUME ServiceAssumption ==
    /\ Inside \subseteq Path
    /\ Config \notin Path
    /\ NoProject \notin Project
    /\ MaxChanges \in Nat

VARIABLES
    service,      \* the service's own state
    buffer,       \* what the editor shows of each open file
    reports,      \* changes on disk the client has yet to report, in order
    unwatched,    \* paths that changed where the server does not watch
    answer,       \* the project that answered the last request
    hurried,      \* files that were opened with the text the server had while a change of
                  \* them on disk was still to be reported, and not edited since (history)
    changes       \* how many things the user has done

vars == <<disk, config, service, buffer, reports, unwatched, answer, hurried, changes>>
diskVars == <<disk, config>>
reportVars == <<reports, unwatched>>

NoAnswer == [path |-> NoPath, project |-> NoProject]

Init ==
    /\ disk \in [Path -> Text \cup {NoText}]
    /\ config \in (SUBSET Inside) \cup {NoConfig}
    /\ service = [infos |-> [p \in Path |-> NoInfo],
                  versions |-> [p \in Path |-> NoVersion],
                  projects |-> [P \in Project |-> NewProject],
                  configured |-> NoProject,
                  openFiles |-> {},
                  panic |-> "none"]
    /\ buffer = [p \in Path |-> NoText]
    /\ reports = <<>>
    /\ unwatched = {}
    /\ answer = NoAnswer
    /\ hurried = {}
    /\ changes = 0

\* The projects of the service's tables, the configured one first.
Projects(s) ==
    (IF s.configured = NoProject THEN <<>> ELSE <<s.configured>>)
        \o (IF s.projects[Inferred].exists THEN <<Inferred>> ELSE <<>>)

-----------------------------------------------------------------------------
(* Helpers of the operations, as in service.go.                            *)

\* getConfigFileNameForFile, findConfiguredProjectByName.
HasConfigFile(p) == p \in Inside /\ config # NoConfig

Usable(s, P) == P # NoProject /\ ~s.projects[P].deferredClose

assignOrphanScriptInfoToInferredProject(s, p) ==
    LET r == IF s.projects[Inferred].exists THEN s
             ELSE [s EXCEPT !.projects[Inferred] = [NewProject EXCEPT !.exists = TRUE]]
    IN  updateGraph(AddRoot(r, Inferred, p), Inferred)

\* findCreateOrReloadConfiguredProject(..., projectLoadKindCreate, FALSE).
createOrReloadConfiguredProject(s) ==
    LET P == IF Usable(s, s.configured) THEN s.configured
             ELSE CHOOSE Q \in Configured : ~s.projects[Q].exists
        r == IF P = s.configured THEN s
             ELSE [s EXCEPT !.projects[P] = [@ EXCEPT !.exists = TRUE], !.configured = P]
    IN  [loadConfig(r, P) EXCEPT !.projects[P] = markAsDirty(@)]

\* The projects of the file are updated one after the other; the loop reads the list as
\* it is by then, and nil where it has become shorter.
updateContainingProjects(s, p) ==
    LET projects(r) == r.infos[p].containingProjects
        after[k \in 0 .. Len(projects(s))] ==
            IF k = 0 THEN s
            ELSE IF k \in DOMAIN projects(after[k - 1])
            THEN updateGraph(after[k - 1], projects(after[k - 1])[k])
            ELSE Panic(after[k - 1], "nil project in assignProjectToOpenedScriptInfo")
    IN  after[Len(projects(s))]

updateInferredProjects(s) ==
    IF s.projects[Inferred].exists THEN updateGraph(s, Inferred) ELSE s

assignProjectToOpenedScriptInfo(s, p) ==
    LET r == IF HasConfigFile(p) THEN createOrReloadConfiguredProject(s) ELSE s
        q == updateContainingProjects(r, p)
    IN  IF isOrphan(q, p) THEN assignOrphanScriptInfoToInferredProject(q, p) ELSE q

\* detachAllProjects, and the end of the info or the delay of its end.
handleDeletedFile(s, p, deferredDelete) ==
    LET i == [s.infos[p] EXCEPT !.containingProjects = <<>>]
        r == [s EXCEPT !.projects = Override([P \in Range(s.infos[p].containingProjects) |->
                                                 RemoveFile(s.projects[P], P, p)], @)]
    IN  IF i.isOpen THEN Panic(s, "cannot delete an open file")
        ELSE IF deferredDelete
        THEN [r EXCEPT !.infos[p] = [i EXCEPT !.pendingReloadFromDisk = TRUE,
                                              !.deferredDelete = TRUE]]
        ELSE [r EXCEPT !.infos[p] = NoInfo, !.versions[p] = i.version]

ensureProjectForOpenFile(s, p) ==
    IF ~Live(s, p) THEN Panic(s, "scriptInfo not found for open file")
    ELSE IF isOrphan(s, p) THEN assignOrphanScriptInfoToInferredProject(s, p)
    ELSE s

\* The open files come in any order, that of a Go map.
ensureProjectForOpenFiles(s, files) ==
    LET after[k \in 0 .. Len(files)] ==
            IF k = 0 THEN s ELSE ensureProjectForOpenFile(after[k - 1], files[k])
    IN  updateInferredProjects(after[Len(files)])

ensureProjectStructureUpToDate(s, files) ==
    LET hasChanges == \E P \in Range(Projects(s)) : s.projects[P].dirty
        r == updateInferredProjects(
                 IF s.configured = NoProject THEN s ELSE updateGraph(s, s.configured))
    IN  IF hasChanges THEN ensureProjectForOpenFiles(r, files) ELSE r

\* getDefaultProjectForScript: the one containing project, or the first by kind,
\* the file's own config before others; NoProject where the code panics.
getDefaultProjectForScript(s, p) ==
    LET containing == s.infos[p].containingProjects
        candidates == {k \in DOMAIN containing :
                           containing[k] \in Configured /\ Usable(s, containing[k])}
        default == IF /\ \E k \in candidates : k # Len(containing)
                      /\ HasConfigFile(p) /\ Usable(s, s.configured)
                   THEN s.configured ELSE NoProject
    IN  IF Len(containing) = 1
        THEN IF s.projects[containing[1]].deferredClose THEN NoProject ELSE containing[1]
        ELSE IF default # NoProject THEN default
        ELSE IF candidates # {} THEN containing[Min(candidates)]
        ELSE IF Contains(containing, Inferred) THEN Inferred
        ELSE NoProject

-----------------------------------------------------------------------------
(* The editor.                                                             *)

Running == service.panic = "none"

\* Another thing that the user does, of MaxChanges.
Change ==
    /\ Running
    /\ changes < MaxChanges
    /\ changes' = changes + 1
    /\ answer' = NoAnswer

\* The paths that changed on disk, by other hands than the server's, and of which no
\* report has arrived.
Untold == {reports[k].path : k \in DOMAIN reports} \cup unwatched

\* A new project object for the config file is made when the last one is closed.
MayCreate == Usable(service, service.configured)
             \/ \E Q \in Configured : ~service.projects[Q].exists

OpenFile(p, t) ==
    /\ Change /\ MayCreate
    /\ p \notin service.openFiles
    /\ LET s == service
           i == IF s.infos[p] = NoInfo
                THEN [NewScriptInfo EXCEPT !.version = FirstVersion(s, p, 0)]
                ELSE s.infos[p]
           j == open([i EXCEPT !.deferredDelete = FALSE], t)
           r == [s EXCEPT !.infos[p] = j, !.openFiles = @ \cup {p},
                          !.versions[p] = IF s.infos[p] = NoInfo THEN NoVersion ELSE @]
           q == IF j.version # i.version THEN markContainingProjectsAsDirty(r, p) ELSE r
       IN  /\ service' = assignProjectToOpenedScriptInfo(q, p)
           /\ hurried' = IF j.version # i.version THEN hurried \ {p}
                         ELSE IF p \in Untold THEN hurried \cup {p} ELSE hurried
    /\ buffer' = [buffer EXCEPT ![p] = t]
    /\ UNCHANGED <<diskVars, reportVars>>

\* editContent of an open file.
ChangeFile(p, t) ==
    /\ Change
    /\ p \in service.openFiles
    /\ service' = markContainingProjectsAsDirty(
                      [service EXCEPT !.infos[p] = setText(@, t)], p)
    /\ hurried' = hurried \ {p}
    /\ buffer' = [buffer EXCEPT ![p] = t]
    /\ UNCHANGED <<diskVars, reportVars>>

\* CloseFile.  The loop removes the file from an inferred project it is a root of,
\* which deletes an element of the very slice it ranges over and leaves a nil at
\* its end.
CloseFile(p) ==
    /\ Change
    /\ p \in service.openFiles
    /\ LET s == service
           containing == s.infos[p].containingProjects
           r == [s EXCEPT !.infos[p] = close(@, p), !.openFiles = @ \ {p}]
           q == IF NeedsReload(s.infos[p], p) THEN markContainingProjectsAsDirty(r, p) ELSE r
           root == Contains(containing, Inferred) /\ p \in s.projects[Inferred].rootFiles
           d == IF root THEN [q EXCEPT !.projects[Inferred] = RemoveFile(@, Inferred, p),
                                       !.infos[p] = detachFromProject(@, Inferred)]
                ELSE q
       IN  service' =
             IF root /\ Last(containing) # Inferred THEN Panic(d, "nil project in CloseFile")
             ELSE IF Exists(p) THEN d ELSE handleDeletedFile(d, p, FALSE)
    /\ buffer' = [buffer EXCEPT ![p] = NoText]
    /\ UNCHANGED <<diskVars, reportVars, hurried>>

-----------------------------------------------------------------------------
(* Changes on disk, which the client reports where the server watches:     *)
(* the directory of a loaded config file, and places where imports failed. *)

Watched(x, kind) ==
    \/ x \in Inside \cup {Config} /\ service.configured # NoProject
    \/ kind = "created" /\ \E P \in Range(Projects(service)) :
                               x \in service.projects[P].failedLookups

Report(x, kind) ==
    IF Watched(x, kind)
    THEN /\ reports' = Append(reports, [path |-> x, kind |-> kind])
         /\ UNCHANGED unwatched
    ELSE /\ unwatched' = unwatched \cup {x}
         /\ UNCHANGED reports

WriteFile(p, t) ==
    /\ Change
    /\ disk[p] # t
    /\ disk' = [disk EXCEPT ![p] = t]
    /\ Report(p, IF t = NoText THEN "deleted" ELSE IF Exists(p) THEN "changed" ELSE "created")
    /\ UNCHANGED <<config, service, buffer, hurried>>

\* The editor saves a file: it is written, and didSave repeats its text to
\* MarkFileSaved.
SaveFile(p) ==
    /\ Change
    /\ p \in service.openFiles
    /\ disk' = [disk EXCEPT ![p] = buffer[p]]
    /\ service' = [service EXCEPT !.infos[p] = SetTextFromDisk(@, buffer[p])]
    /\ Report(p, IF Exists(p) THEN "changed" ELSE "created")
    /\ UNCHANGED <<config, buffer, hurried>>

WriteConfig(files) ==
    /\ Change
    /\ config # files
    /\ config' = files
    /\ Report(Config, IF files = NoConfig THEN "deleted"
                      ELSE IF config = NoConfig THEN "created" ELSE "changed")
    /\ UNCHANGED <<disk, service, buffer, hurried>>

-----------------------------------------------------------------------------
(* OnWatchedFilesChanged.                                                  *)

Reported(x) ==
    /\ Running
    /\ reports # <<>> /\ Head(reports).path = x
    /\ reports' = Tail(reports)
    /\ answer' = NoAnswer
    /\ UNCHANGED <<diskVars, buffer, unwatched, hurried, changes>>

onConfigFileChanged(s, P, kind) ==
    LET r == CASE kind = "created" -> [s EXCEPT !.projects[P].deferredClose = FALSE]
               [] kind = "deleted" -> [s EXCEPT !.projects[P].deferredClose = TRUE]
               [] OTHER -> s
    IN  IF r.projects[P].deferredClose THEN r
        ELSE [r EXCEPT !.projects[P] = markAsDirty([@ EXCEPT !.pendingReload = "full"])]

ConfigFileChanged ==
    /\ Reported(Config)
    /\ service' = IF service.configured = NoProject THEN service
                  ELSE onConfigFileChanged(service, service.configured, Head(reports).kind)

delayReload_unmarked(s, p) ==
    [s EXCEPT !.infos[p] = [@ EXCEPT !.deferredDelete = FALSE, !.pendingReloadFromDisk = TRUE]]

\* A closed file that changed: delayReloadNonMixedContentFile.
delayReload(s, p) ==
    markContainingProjectsAsDirty(
        [s EXCEPT !.infos[p] = [@ EXCEPT !.deferredDelete = FALSE,
                                         !.pendingReloadFromDisk = TRUE]], p)

\* The watch events of open files are ignored.
WatchedFileChanged(p) ==
    /\ Reported(p)
    /\ service' =
         IF p \in service.openFiles THEN service
         ELSE IF ~Live(service, p)
         THEN [service EXCEPT !.projects = Override([P \in Range(Projects(service)) |->
                  onWatchEventForNilScriptInfo(service.projects[P], P, p)], @)]
         ELSE IF Head(reports).kind = "deleted" THEN handleDeletedFile(service, p, TRUE)
         ELSE delayReload(service, p)

-----------------------------------------------------------------------------
(* A request about an open file: EnsureDefaultProjectForFile, and the      *)
(* program of the project it finds.                                        *)

EnsureDefaultProjectForFile(p) ==
    /\ Running
    /\ p \in service.openFiles
    /\ \E files \in SetToSeqs(service.openFiles) :
       LET s == service
           direct == IF isOrphan(s, p) THEN NoProject ELSE getDefaultProjectForScript(s, p)
           r == IF direct # NoProject THEN s ELSE ensureProjectStructureUpToDate(s, files)
           P == IF direct # NoProject THEN direct ELSE getDefaultProjectForScript(r, p)
       IN  IF P = NoProject
           THEN /\ service' = Panic(r, "no default project")
                /\ answer' = NoAnswer
           ELSE /\ service' = updateGraph(r, P)
                /\ answer' = [path |-> p, project |-> P]
    /\ UNCHANGED <<diskVars, buffer, reportVars, hurried, changes>>

Next ==
    \/ \E p \in Path :
         \/ \E t \in Text : OpenFile(p, t) \/ ChangeFile(p, t)
         \/ \E t \in Text \cup {NoText} : WriteFile(p, t)
         \/ CloseFile(p) \/ SaveFile(p) \/ WatchedFileChanged(p)
         \/ EnsureDefaultProjectForFile(p)
    \/ ConfigFileChanged
    \/ \E files \in (SUBSET Inside) \cup {NoConfig} : WriteConfig(files)

Spec == Init /\ [][Next]_vars

-----------------------------------------------------------------------------
\* The failed assertions and nil dereferences of the code that is modelled.
Failures ==
    {"script info is already a root", "cannot delete an open file",
     "scriptInfo not found for open file", "changed file not available",
     "nil project in assignProjectToOpenedScriptInfo", "nil project in CloseFile",
     "changed file not in program", "no default project", "failed to load project"}

Service ==
    [infos : [Path -> Info \cup {NoInfo}], versions : [Path -> Nat \cup {NoVersion}],
     projects : [Project -> ProjectState], configured : Configured \cup {NoProject},
     openFiles : SUBSET Path, panic : Failures \cup {"none"}]

TypeOK ==
    /\ disk \in [Path -> Text \cup {NoText}]
    /\ config \in (SUBSET Inside) \cup {NoConfig}
    /\ Running => /\ service \in Service
                  /\ answer \in [path : Path, project : Project] \cup {NoAnswer}
    /\ buffer \in [Path -> Text \cup {NoText}]
    /\ reports \in Seq([path : Path \cup {Config}, kind : {"created", "changed", "deleted"}])
    /\ unwatched \subseteq Path \cup {Config}
    /\ hurried \subseteq Path
    /\ changes \in Nat

\* The file of the project's program, if any.
FileOf(P, p) ==
    IF service.projects[P].program = NoProgram THEN NoDoc
    ELSE service.projects[P].program.files[p]

\* Whatever happens on disk, an open file has the text the editor shows.
EditorTextPrevails ==
    \A p \in service.openFiles : Running =>
        /\ Live(service, p)
        /\ service.infos[p].isOpen
        /\ service.infos[p].text = buffer[p]

\* A parsed file and a script info of the same version have the same text: the
\* document registry, which compares versions only, never serves a stale file.
VersionDeterminesText ==
    \A P \in Project : \A p \in Path :
        (Running /\ FileOf(P, p) # NoDoc /\ service.infos[p] # NoInfo
            /\ FileOf(P, p).version = service.infos[p].version)
        => FileOf(P, p).text = service.infos[p].text

\* Nothing on disk or in the config file has changed but what was reported.
NothingUnseen == reports = <<>> /\ unwatched = {}

Settled(P) ==
    /\ Running /\ NothingUnseen
    /\ service.projects[P].program # NoProgram
    /\ ~service.projects[P].dirty

\* Once every change has been reported, a project that is not marked dirty has
\* the program that building it anew would give.
RebuildChangesNothing ==
    \A P \in Range(Projects(service)) : Settled(P) =>
        LET anew == NewProgram(service, P, service.projects[P].rootFiles).projects[P].program
        IN  anew.files = service.projects[P].program.files

\* Once every change has been reported, the files in the program of a project that is not
\* marked dirty have the texts that the server has, or would read if they were asked for.
ProgramsAreCurrent ==
    \A P \in Project : \A p \in Path \ hurried :
        (Settled(P) /\ FileOf(P, p) # NoDoc) => FileOf(P, p).text = CurrentText(service, p)

\* A closed file is read again before it is next used, if the disk may differ from
\* its text, once the client has reported what it saw: close and the watch events
\* leave a pending reload.  matchesDiskText exempts a file (see MatchesDiskText).
ClosedFilesAreReread ==
    \A p \in Path \ service.openFiles :
        (Running /\ NothingUnseen /\ Live(service, p) /\ Exists(p)
            /\ service.infos[p].text # disk[p])
        => service.infos[p].pendingReloadFromDisk \/ service.infos[p].matchesDiskText

\* A config change that was reported has been loaded once its project is up to
\* date ("single-file change followed by config change reloads program").
ConfigIsCurrent ==
    \A P \in Range(Projects(service)) \ {Inferred} : Settled(P) /\ Usable(service, P) =>
        service.projects[P].commandLine = config

\* setRootFiles gives a configured project the root files its config file names: a
\* file the config no longer includes is no longer a root.
RootsAreIncluded ==
    \A P \in Range(Projects(service)) \ {Inferred} : Settled(P) =>
        service.projects[P].rootFiles \subseteq service.projects[P].commandLine

\* The text of a closed file that is flagged matchesDiskText does match the disk.
MatchesDiskText ==
    \A p \in Path \ service.openFiles :
        (Running /\ NothingUnseen /\ Live(service, p) /\ Exists(p)
            /\ service.infos[p].matchesDiskText)
        => reloadIfNeeded(service.infos[p], p).text = disk[p]

\* The project that answers a request about an open file has the file in its
\* program ("its default configured project ... is default if info is part of it").
AnswersHaveTheFile ==
    answer # NoAnswer /\ Running => FileOf(answer.project, answer.path) # NoDoc

\* The program that answers a request about an open file has the text the editor shows,
\* whichever project is chosen and whatever changed before.  (A file that was opened with
\* a text the disk no longer had may be stale: CurrentWhenOpened.)
AnswersAreCurrent ==
    (/\ answer # NoAnswer /\ Running
     /\ answer.path \notin hurried
     /\ FileOf(answer.project, answer.path) # NoDoc) =>
        FileOf(answer.project, answer.path).text = buffer[answer.path]

\* The same of every open file.  A closed file that is to be reloaded is read again for
\* the project that is updated first; when it is opened with that text before the change
\* is reported, its other projects are never marked.
CurrentWhenOpened ==
    (answer # NoAnswer /\ Running /\ FileOf(answer.project, answer.path) # NoDoc) =>
        FileOf(answer.project, answer.path).text = buffer[answer.path]

\* No sequence of legal notifications adds a root twice, deletes an open file, loses
\* the info of an open file, detaches a file for good from a project that is being
\* updated on its behalf, or replaces a file that cannot be had any more.
InternalAssertionsHold ==
    service.panic \notin {"script info is already a root", "cannot delete an open file",
                          "scriptInfo not found for open file", "changed file not available",
                          "nil project in assignProjectToOpenedScriptInfo"}

\* CloseFile works for a file of several projects ("If this file belongs to
\* multiple projects").
ClosesFilesOfSeveralProjects == service.panic # "nil project in CloseFile"

\* UpdateProgram is asked to replace only a file that the program has: "The only
\* change in the current program is the contents of the file named by
\* p.dirtyFilePath".
OnlyProgramFilesAreReplaced == service.panic # "changed file not in program"

\* A request about an open file finds a project ("scriptInfo must be attached to a
\* non-background project before calling getDefaultProject").
OpenFilesHaveADefaultProject == service.panic # "no default project"

\* A config file that is to be reloaded can be read ("failed to reload config").
ConfigIsReadable == service.panic # "failed to load project"
=============================================================================
