------------------------------- MODULE Project -------------------------------
(***************************************************************************)
(* A project of the language server (internal/project/project.go): its     *)
(* root files, the program last built from them, and the marks that say    *)
(* what has changed since.  updateGraph brings the program up to date,     *)
(* replacing one file where the marks allow it.                            *)
(*                                                                         *)
(* The operators take and return the state s of the service, a record with *)
(* the script infos and the projects.  A failed assertion or nil           *)
(* dereference is remembered in s.panic and ends the server.               *)
(***************************************************************************)
EXTENDS ScriptInfo, FiniteSets, FiniteSetsExt

CONSTANTS
    Inferred,           \* the one project that is not configured
    Imports,            \* text -> the paths its imports name
    NoConfig, NoProgram, NoDoc, NoPath

VARIABLE
    config              \* the files the config file on disk includes, or NoConfig

\* A version of a file, parsed.
Doc == [version : Nat, text : Text]

Program == [roots : SUBSET Path, files : [Path -> Doc \cup {NoDoc}]]

ASSUME ProjectAssumption ==
    /\ Inferred \in Project
    /\ Imports \in [Text -> SUBSET Path]
    /\ NoPath \notin Path
    /\ NoDoc \notin Doc
    /\ NoProgram \notin Program

Configured == Project \ {Inferred}

ProjectState ==
    [exists : BOOLEAN, dirty : BOOLEAN, dirtyFilePath : Path \cup {NoPath},
     pendingReload : {"none", "fileNames", "full"}, deferredClose : BOOLEAN,
     rootFiles : SUBSET Path, commandLine : SUBSET Path,
     program : Program \cup {NoProgram}, failedLookups : SUBSET Path]

NewProject ==
    [exists |-> FALSE, dirty |-> TRUE, dirtyFilePath |-> NoPath, pendingReload |-> "none",
     deferredClose |-> FALSE, rootFiles |-> {}, commandLine |-> {}, program |-> NoProgram,
     failedLookups |-> {}]

\* The function g with the values of f where f has one.  (The comparison makes TLC
\* evaluate the function.)
Override(f, g) ==
    LET h == [x \in DOMAIN g |-> IF x \in DOMAIN f THEN f[x] ELSE g[x]]
    IN  IF h = g THEN g ELSE h

Panic(s, why) == IF s.panic = "none" THEN [s EXCEPT !.panic = why] ELSE s

-----------------------------------------------------------------------------
(* Marks.                                                                  *)

MarkFileAsDirty_first(project, p) ==
    IF ~project.dirty THEN [project EXCEPT !.dirty = TRUE, !.dirtyFilePath = p] ELSE project

\* One changed file is remembered; a second one makes the mark a general one.
MarkFileAsDirty(project, p) ==
    IF ~project.dirty THEN [project EXCEPT !.dirty = TRUE, !.dirtyFilePath = p]
    ELSE IF project.dirtyFilePath # p THEN [project EXCEPT !.dirtyFilePath = NoPath]
    ELSE project

markAsDirty(project) == [project EXCEPT !.dirty = TRUE, !.dirtyFilePath = NoPath]

markContainingProjectsAsDirty(s, p) ==
    [s EXCEPT !.projects = Override([P \in Range(s.infos[p].containingProjects) |->
                                        MarkFileAsDirty(s.projects[P], p)], @)]

-----------------------------------------------------------------------------
(* Script infos on behalf of a project.                                    *)

\* Service.GetScriptInfoByPath.
Live(s, p) == s.infos[p] # NoInfo /\ ~s.infos[p].deferredDelete

\* getOrCreateScriptInfoWorker finds or makes an info without the editor.
Available(s, p) == Live(s, p) \/ Exists(p)

FirstVersion_reset(s, p, v) == v

\* A recreated info goes on counting where its predecessor stopped.
FirstVersion(s, p, v) == IF s.versions[p] = NoVersion THEN v ELSE s.versions[p] + 1

getOrCreateScriptInfo(s, p) ==
    IF s.infos[p] = NoInfo
    THEN [SetTextFromDisk(NewScriptInfo, disk[p]) EXCEPT !.version = FirstVersion(s, p, @)]
    ELSE [s.infos[p] EXCEPT !.deferredDelete = FALSE]

\* The table of infos gets new ones; where there was none, the version that its
\* predecessor left is used up.
Enter(s, infos) ==
    LET made == {p \in DOMAIN infos : s.infos[p] = NoInfo}
    IN  [s EXCEPT !.infos = Override(infos, @),
                  !.versions = Override([p \in made |-> NoVersion], @)]

\* GetSourceFile: the info is attached to the project and reloaded, and the
\* document registry keeps the parsed file of a version it has seen.
LoadFile(s, P, p) == reloadIfNeeded(attachToProject(getOrCreateScriptInfo(s, p), P), p)

LoadFiles(s, P, files) == Enter(s, [p \in files |-> LoadFile(s, P, p)])

AcquireDocument(s, P, p) ==
    LET old == IF s.projects[P].program = NoProgram THEN NoDoc
               ELSE s.projects[P].program.files[p]
        i == s.infos[p]
    IN  IF old # NoDoc /\ old.version = i.version THEN old
        ELSE [version |-> i.version, text |-> i.text]

-----------------------------------------------------------------------------
(* Root files.                                                             *)

addRoot(s, P, p) ==
    IF p \in s.projects[P].rootFiles THEN Panic(s, "script info is already a root")
    ELSE [s EXCEPT !.projects[P].rootFiles = @ \cup {p},
                   !.infos[p] = attachToProject(@, P)]

AddRoot(s, P, p) == [addRoot(s, P, p) EXCEPT !.projects[P] = markAsDirty(@)]

removeFile_rootKept(project, P, files) == project

\* removeFile, for some files: a configured project is to list its files again, an
\* inferred one forgets the roots.
removeFile(project, P, files) ==
    IF files \cap project.rootFiles = {} THEN project
    ELSE IF P = Inferred THEN [project EXCEPT !.rootFiles = @ \ files]
    ELSE [project EXCEPT !.pendingReload = "fileNames"]

RemoveFile(project, P, p) == markAsDirty(removeFile(project, P, {p}))

\* setRootFiles of a configured project: the named files become roots and the others
\* are removed, which for a root that has an info only detaches it.
setRootFiles(s, P, names) ==
    LET roots == s.projects[P].rootFiles
        Named(p) == IF p \in roots THEN getOrCreateScriptInfo(s, p)
                    ELSE attachToProject(getOrCreateScriptInfo(s, p), P)
        others == {p \in roots \ names : Live(s, p)}
        r == Enter(s, [p \in names \cup others |->
                         IF p \in names THEN Named(p) ELSE detachFromProject(s.infos[p], P)])
    IN  [r EXCEPT !.projects[P] =
            removeFile([@ EXCEPT !.rootFiles = names \cup others], P, others)]

\* The files an include pattern matches: those that exist.
Matching(files) == {p \in files : Exists(p)}

loadConfig(s, P) ==
    IF config = NoConfig THEN Panic(s, "failed to load project")
    ELSE setRootFiles([s EXCEPT !.projects[P] = [@ EXCEPT !.commandLine = config]], P,
                      Matching(config))

-----------------------------------------------------------------------------
(* Programs.                                                               *)

\* The text a program would find in the file.
CurrentText(s, p) == reloadIfNeeded(getOrCreateScriptInfo(s, p), p).text

\* Module resolution looks at the disk, never at the editor.
Resolved(t) == {p \in Imports[t] : Exists(p)}

\* The files that the roots reach: the least set that holds the available roots
\* and the available imports of its members.
Reachable(s, roots) ==
    LET Ok(F) == {p \in F : Available(s, p)}
        Closed(F) == /\ Ok(roots) \subseteq F
                     /\ \A p \in F : Available(s, p) =>
                            Ok(Resolved(CurrentText(s, p))) \subseteq F
    IN  {p \in Path : \A F \in SUBSET Path : Closed(F) => p \in F}

NewProgram(s, P, roots) ==
    LET files == Reachable(s, roots)
        r == LoadFiles(s, P, files)
        program == [roots |-> roots,
                    files |-> [p \in Path |-> IF p \in files THEN AcquireDocument(r, P, p)
                                              ELSE NoDoc]]
        failed == {p \in UNION {Imports[r.infos[q].text] : q \in files} : ~Exists(p)}
    IN  [r EXCEPT !.projects[P] = [@ EXCEPT !.program = program, !.failedLookups = failed]]

\* Program.UpdateProgram: the changed file takes the place of the old one, unless
\* its imports differ (canReplaceFileInProgram).
UpdateProgram(s, P, p) ==
    LET program == s.projects[P].program
        r == LoadFiles(s, P, {p})
        file == AcquireDocument(r, P, p)
    IN  IF program.files[p] = NoDoc THEN Panic(s, "changed file not in program")
        ELSE IF ~Available(s, p) THEN Panic(s, "changed file not available")
        ELSE IF Imports[file.text] = Imports[program.files[p].text]
             THEN [r EXCEPT !.projects[P] = [@ EXCEPT !.program.files[p] = file]]
             ELSE NewProgram(r, P, program.roots)

updateProgram(s, P) ==
    LET p == s.projects[P].dirtyFilePath
    IN  IF s.projects[P].program = NoProgram \/ p = NoPath
        THEN NewProgram(s, P, s.projects[P].rootFiles)
        ELSE UpdateProgram(s, P, p)

Reload(s, P) ==
    LET project == s.projects[P]
        r == CASE project.pendingReload = "fileNames" ->
                      setRootFiles(s, P, Matching(project.commandLine))
               [] project.pendingReload = "full" -> loadConfig(s, P)
               [] OTHER -> s
    IN  [r EXCEPT !.projects[P] = [@ EXCEPT !.pendingReload = "none"]]

updateGraph(s, P) ==
    IF ~s.projects[P].dirty \/ s.panic # "none" THEN s
    ELSE [updateProgram(Reload(s, P), P) EXCEPT
              !.projects[P] = [@ EXCEPT !.dirty = FALSE, !.dirtyFilePath = NoPath]]

-----------------------------------------------------------------------------
isOrphanProject(s, P) ==
    IF P = Inferred THEN s.projects[P].rootFiles = {} ELSE s.projects[P].deferredClose

isOrphan(s, p) ==
    \/ s.infos[p].deferredDelete
    \/ \A P \in Range(s.infos[p].containingProjects) : isOrphanProject(s, P)

\* onWatchEventForNilScriptInfo: a file the config includes, or that an import
\* failed to find, may have appeared or gone.
onWatchEventForNilScriptInfo(project, P, p) ==
    IF P # Inferred /\ p \in project.rootFiles \cup project.commandLine
    THEN markAsDirty([project EXCEPT !.pendingReload = "fileNames"])
    ELSE IF p \in project.failedLookups THEN markAsDirty(project)
    ELSE project
=============================================================================
