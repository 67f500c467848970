--------------------------- MODULE DocumentRegistry ---------------------------
(***************************************************************************)
(* The registry of parsed source files that the projects of a language     *)
(* server share (internal/project/documentregistry.go), with the projects  *)
(* whose program updates acquire and release documents.                    *)
(*                                                                         *)
(* An update of a program parses its files in parallel, one task per file  *)
(* name; updates of different projects run in different requests, each     *)
(* under its own project's mutex only.  The registry is a concurrent map   *)
(* of entries; an entry has a mutex, but getDocumentWorker counts a        *)
(* reference to an up-to-date entry without taking it.  Every access to    *)
(* shared memory is therefore an action of its own, and refCount++ is a    *)
(* read followed by a write.                                               *)
(*                                                                         *)
(* Three things upset the counts, and the code does not exclude them (see  *)
(* Upsets).  The history variable upset says whether one of them has ever  *)
(* happened; no action reads it.                                           *)
(***************************************************************************)
EXTENDS Naturals, Integers, FiniteSets

CONSTANTS
    Project,
    File,               \* file names as programs spell them
    Path,               \* canonical paths, one script info each
    PathOf,             \* File -> Path: not injective where case is ignored
    Option,             \* the compiler options that affect parsing
    Entry,              \* registry entries (pointers)
    NoEntry, NoDoc, Nobody,
    MaxVersion,         \* bound: edits per script info
    MaxDrift            \* bound: how wrong a count may be for updates to go on

ASSUME RegistryAssumption ==
    /\ PathOf \in [File -> Path]
    /\ IsFiniteSet(Project) /\ IsFiniteSet(File)
    /\ NoEntry \notin Entry
    /\ NoDoc \notin [key : Path \X Option, version : 0 .. MaxVersion, text : 0 .. MaxVersion]
    /\ Nobody \notin Project \X File
    /\ MaxVersion \in Nat
    /\ MaxDrift \in Nat

VARIABLES
    documents,    \* registry key -> entry, or NoEntry
    entries,      \* what each entry holds
    script,       \* path -> the version and text of its script info
    editing,      \* the paths whose text is changed and version not yet
    options,      \* project -> its current compiler options
    program,      \* project -> file -> the document its program holds
    building,     \* project -> file -> the document of the program in the making
    phase,        \* project -> what its updateGraph is doing
    task,         \* project -> file -> the state of the task for the file
    upset         \* history: the counts can no longer be relied on, see Upsets

vars == <<documents, entries, script, editing, options, program, building, phase, task, upset>>
registryVars == <<documents, entries>>
scriptVars == <<script, editing>>
projectVars == <<options, program, building, phase>>

Version == 0 .. MaxVersion
Key == Path \X Option
Doc == [key : Key, version : Version, text : Version]
Worker == Project \X File

Idle == [pc |-> "idle", key |-> NoDoc, old |-> NoDoc, version |-> 0, text |-> 0,
         entry |-> NoEntry, count |-> 0]

Init ==
    /\ documents = [k \in Key |-> NoEntry]
    /\ entries = [e \in Entry |-> [version |-> 0, text |-> 0, refs |-> 0, lock |-> Nobody]]
    /\ script = [q \in Path |-> [version |-> 0, text |-> 0]]
    /\ editing = {}
    /\ options \in [Project -> Option]
    /\ program = [p \in Project |-> [f \in File |-> NoDoc]]
    /\ building = [p \in Project |-> [f \in File |-> NoDoc]]
    /\ phase = [p \in Project |-> "idle"]
    /\ task = [p \in Project |-> [f \in File |-> Idle]]
    /\ upset = FALSE

-----------------------------------------------------------------------------
(* The editor: setText stores the text, then increments the version, while *)
(* requests that were started before the edit go on.                       *)

setText_versionFirst(s, step) ==
    IF step = 1 THEN [s EXCEPT !.version = @ + 1] ELSE [s EXCEPT !.text = @ + 1]

setText(s, step) ==
    IF step = 1 THEN [s EXCEPT !.text = @ + 1] ELSE [s EXCEPT !.version = @ + 1]

BeginEdit(q) ==
    /\ q \notin editing
    /\ script[q].version < MaxVersion
    /\ script' = [script EXCEPT ![q] = setText(@, 1)]
    /\ editing' = editing \cup {q}
    /\ UNCHANGED <<registryVars, projectVars, task>>

EndEdit(q) ==
    /\ q \in editing
    /\ script' = [script EXCEPT ![q] = setText(@, 2)]
    /\ editing' = editing \ {q}
    /\ UNCHANGED <<registryVars, projectVars, task>>

-----------------------------------------------------------------------------
(* Tasks.                                                                  *)

Set(p, f, t) == task' = [task EXCEPT ![p][f] = t]

At(p, f, c) == task[p][f].pc = c

PathKey(p, f) == <<PathOf[f], options[p]>>

\* The document the current program holds for the path, under whatever name:
\* program.GetSourceFileByPath.
OldDoc(p, f) ==
    LET held == {program[p][g] : g \in {g \in File : PathOf[g] = PathOf[f]}} \ {NoDoc}
    IN  IF held = {} THEN NoDoc ELSE CHOOSE d \in held : TRUE

\* getDocumentWorker: scriptInfo.Version() ...
ReadVersion(p, f) ==
    /\ At(p, f, "version")
    /\ Set(p, f, [task[p][f] EXCEPT !.pc = "text", !.version = script[PathOf[f]].version,
                                    !.key = PathKey(p, f), !.old = OldDoc(p, f)])
    /\ UNCHANGED <<registryVars, scriptVars, projectVars>>

\* ... scriptInfo.Text() ...
ReadText(p, f) ==
    /\ At(p, f, "text")
    /\ Set(p, f, [task[p][f] EXCEPT !.pc = "load", !.text = script[PathOf[f]].text])
    /\ UNCHANGED <<registryVars, scriptVars, projectVars>>

\* ... documents.Load(key).
LoadEntry(p, f) ==
    /\ At(p, f, "load")
    /\ LET e == documents[task[p][f].key]
       IN  Set(p, f, [task[p][f] EXCEPT !.pc = IF e = NoEntry THEN "store" ELSE "compare",
                                        !.entry = e])
    /\ UNCHANGED <<registryVars, scriptVars, projectVars>>

\* An entry no longer reachable: the allocator may hand out its address again.
Unreachable(e) ==
    /\ \A k \in Key : documents[k] # e
    /\ \A p \in Project : \A f \in File : task[p][f].entry # e

\* documents.LoadOrStore after the file has been parsed.
StoreEntry(p, f) ==
    /\ At(p, f, "store")
    /\ LET t == task[p][f]
       IN  \/ /\ documents[t.key] # NoEntry
              /\ Set(p, f, [t EXCEPT !.pc = "lock", !.entry = documents[t.key]])
              /\ UNCHANGED registryVars
           \/ /\ documents[t.key] = NoEntry
              /\ \E e \in Entry :
                   /\ Unreachable(e)
                   /\ documents' = [documents EXCEPT ![t.key] = e]
                   /\ entries' = [entries EXCEPT ![e] =
                          [version |-> t.version, text |-> t.text, refs |-> 0, lock |-> Nobody]]
                   /\ Set(p, f, [t EXCEPT !.pc = "lock", !.entry = e])
    /\ UNCHANGED <<scriptVars, projectVars>>

\* entry.sourceFile.Version != scriptInfoVersion, read without the lock: the
\* entry is brought up to date under the lock, or only counted, without it.
CompareVersion(p, f) ==
    /\ At(p, f, "compare")
    /\ Set(p, f, [task[p][f] EXCEPT !.pc =
                      IF entries[task[p][f].entry].version # task[p][f].version
                      THEN "replace" ELSE "count"])
    /\ UNCHANGED <<registryVars, scriptVars, projectVars>>

\* entry.mu.Lock() and, out of date, entry.sourceFile = sourceFile.
LockEntry(p, f) ==
    LET t == task[p][f]
    IN  /\ t.pc \in {"replace", "lock"}
        /\ entries[t.entry].lock = Nobody
        /\ entries' = [entries EXCEPT ![t.entry] =
               IF t.pc = "lock" THEN [@ EXCEPT !.lock = <<p, f>>]
               ELSE [@ EXCEPT !.lock = <<p, f>>, !.version = t.version, !.text = t.text]]
        /\ Set(p, f, [t EXCEPT !.pc = "count"])
        /\ UNCHANGED <<documents, scriptVars, projectVars>>

\* entry.refCount++: the read ...
ReadCount(p, f) ==
    /\ At(p, f, "count")
    /\ Set(p, f, [task[p][f] EXCEPT !.pc = "counted",
                                    !.count = entries[task[p][f].entry].refs])
    /\ UNCHANGED <<registryVars, scriptVars, projectVars>>

Unlock(e, w) == IF entries[e].lock = w THEN Nobody ELSE entries[e].lock

AfterAcquire_leak(old) == "idle"

\* AcquireDocument goes on to release the document of the old program.
AfterAcquire(old) == IF old = NoDoc THEN "idle" ELSE "release"

\* ... and the write; the entry's source file is returned and the mutex, if it
\* was taken, unlocked.
WriteCount(p, f) ==
    LET t == task[p][f]
        e == entries[t.entry]
    IN  /\ At(p, f, "counted")
        /\ entries' = [entries EXCEPT ![t.entry].refs = t.count + 1,
                                      ![t.entry].lock = Unlock(t.entry, <<p, f>>)]
        /\ building' = [building EXCEPT ![p][f] =
               [key |-> t.key, version |-> e.version, text |-> e.text]]
        /\ task' = [task EXCEPT ![p][f] =
               [Idle EXCEPT !.pc = AfterAcquire(t.old), !.old = t.old,
                            !.version = t.version]]
        /\ UNCHANGED <<documents, scriptVars, options, program, phase>>

\* releaseDocumentWithKey: the entry is loaded ...
LoadReleased(p, f) ==
    /\ At(p, f, "release")
    /\ LET e == documents[task[p][f].old.key]
       IN  IF e = NoEntry THEN task' = [task EXCEPT ![p][f] = Idle]
           ELSE Set(p, f, [task[p][f] EXCEPT !.pc = "releasing", !.entry = e])
    /\ UNCHANGED <<registryVars, scriptVars, projectVars>>

\* ... locked, its count read ...
LockReleased(p, f) ==
    LET t == task[p][f]
    IN  /\ At(p, f, "releasing")
        /\ entries[t.entry].lock = Nobody
        /\ entries' = [entries EXCEPT ![t.entry].lock = <<p, f>>]
        /\ Set(p, f, [t EXCEPT !.pc = "released", !.count = entries[t.entry].refs])
        /\ UNCHANGED <<documents, scriptVars, projectVars>>

Unregister_early(k, n) ==
    documents' = IF n <= 1 THEN [documents EXCEPT ![k] = NoEntry] ELSE documents

\* A key whose count has come down to 0 is deleted (and OnReleaseDocument runs).
Unregister(k, n) ==
    documents' = IF n = 0 THEN [documents EXCEPT ![k] = NoEntry] ELSE documents

\* ... and written back.
WriteReleased(p, f) ==
    LET t == task[p][f]
    IN  /\ At(p, f, "released")
        /\ entries' = [entries EXCEPT ![t.entry].refs = t.count - 1,
                                      ![t.entry].lock = Nobody]
        /\ Unregister(t.old.key, t.count - 1)
        /\ task' = [task EXCEPT ![p][f] = Idle]
        /\ UNCHANGED <<scriptVars, projectVars>>

Work(p, f) ==
    \/ ReadVersion(p, f) \/ ReadText(p, f) \/ LoadEntry(p, f) \/ StoreEntry(p, f)
    \/ CompareVersion(p, f) \/ LockEntry(p, f) \/ ReadCount(p, f) \/ WriteCount(p, f)
    \/ LoadReleased(p, f) \/ LockReleased(p, f) \/ WriteReleased(p, f)

-----------------------------------------------------------------------------
(* updateGraph of a project.                                               *)

Quiet(p) == \A f \in File : task[p][f].pc = "idle"

\* The bound on counts that have gone wrong: a project that holds documents may
\* always drop them, but acquires no more.
MayAcquire == \A e \in Entry : entries[e].refs \in -MaxDrift .. Cardinality(Worker) + MaxDrift

Load(p, files) ==
    /\ task' = [task EXCEPT ![p] =
           [f \in File |-> IF f \in files THEN [Idle EXCEPT !.pc = "version"] ELSE Idle]]
    /\ building' = [building EXCEPT ![p] = [f \in File |-> NoDoc]]
    /\ UNCHANGED <<registryVars, scriptVars, program>>

Held(p) == {f \in File : program[p][f] # NoDoc}

\* NewProgram: the tasks of the files its roots reach, perhaps after the config
\* file was reloaded with other options.
RebuildProgram(p) ==
    /\ phase[p] = "idle"
    /\ \E files \in SUBSET File : (files = {} \/ MayAcquire) /\ Load(p, files)
    /\ \E o \in Option : options' = [options EXCEPT ![p] = o]
    /\ phase' = [phase EXCEPT ![p] = "rebuild"]

\* UpdateProgram: the one changed file is parsed first ...
UpdateProgram(p) ==
    /\ phase[p] = "idle" /\ MayAcquire
    /\ \E f \in Held(p) : Load(p, {f})
    /\ phase' = [phase EXCEPT ![p] = "replace"]
    /\ UNCHANGED options

\* ... and takes the place of the old one in a copy of the program ...
ReplaceFile(p) ==
    /\ phase[p] = "replace" /\ Quiet(p)
    /\ program' = [program EXCEPT ![p] =
           [f \in File |-> IF building[p][f] # NoDoc THEN building[p][f] ELSE @[f]]]
    /\ phase' = [phase EXCEPT ![p] = "idle"]
    /\ UNCHANGED <<registryVars, scriptVars, options, building, task>>

\* ... unless its imports changed (canReplaceFileInProgram): then a new program
\* is built after all, and the file acquired a second time.
CannotReplaceFile(p) ==
    /\ phase[p] = "replace" /\ Quiet(p)
    /\ \E files \in SUBSET File :
         /\ \A f \in File : building[p][f] # NoDoc => f \in files
         /\ Load(p, files)
    /\ phase' = [phase EXCEPT ![p] = "rebuild"]
    /\ UNCHANGED options

Dropped(p) ==
    {f \in Held(p) : \A g \in File : PathOf[g] = PathOf[f] => building[p][g] = NoDoc}

\* A finished NewProgram replaces the old program, whose files that have no
\* successor are released one after the other.
InstallProgram(p) ==
    /\ phase[p] = "rebuild" /\ Quiet(p)
    /\ phase' = [phase EXCEPT ![p] = "drop"]
    /\ task' = [task EXCEPT ![p] =
           [f \in File |-> IF f \in Dropped(p)
                           THEN [Idle EXCEPT !.pc = "dropped", !.old = program[p][f]]
                           ELSE Idle]]
    /\ program' = [program EXCEPT ![p] = building[p]]
    /\ UNCHANGED <<registryVars, scriptVars, options, building>>

ReleaseDropped(p, f) ==
    /\ phase[p] = "drop"
    /\ At(p, f, "dropped")
    /\ \A g \in File : task[p][g].pc \in {"idle", "dropped"}
    /\ Set(p, f, [task[p][f] EXCEPT !.pc = "release"])
    /\ UNCHANGED <<registryVars, scriptVars, projectVars>>

FinishUpdate(p) ==
    /\ phase[p] = "drop" /\ Quiet(p)
    /\ phase' = [phase EXCEPT ![p] = "idle"]
    /\ task' = [task EXCEPT ![p] = [f \in File |-> Idle]]
    /\ UNCHANGED <<registryVars, scriptVars, options, program, building>>

-----------------------------------------------------------------------------
(* What upsets the counts.                                                 *)

\* A task is about to write a count back that another has changed since it was
\* read: one of two references is lost, or one of two releases.
CountIsStale(p, f) ==
    /\ task[p][f].pc \in {"counted", "released"}
    /\ entries[task[p][f].entry].refs # task[p][f].count

\* A task has found an entry, to count in, that another has deleted since: the
\* reference goes to an entry that is no longer in the registry.
EntryIsGone(p, f) ==
    /\ task[p][f].pc \in {"compare", "replace", "lock", "count", "counted"}
    /\ documents[task[p][f].key] # task[p][f].entry

Uses(p, f) == program[p][f] # NoDoc \/ building[p][f] # NoDoc \/ task[p][f].pc # "idle"

\* Where case is ignored: a program and its successor name one path in two ways.
\* Each name counts, and the path is released once.
SpelledTwice(p) ==
    \E f, g \in File : f # g /\ PathOf[f] = PathOf[g] /\ Uses(p, f) /\ Uses(p, g)

Upsets ==
    \E p \in Project : SpelledTwice(p) \/ \E f \in File : CountIsStale(p, f) \/ EntryIsGone(p, f)

-----------------------------------------------------------------------------
Step ==
    \/ \E q \in Path : BeginEdit(q) \/ EndEdit(q)
    \/ \E p \in Project :
         \/ RebuildProgram(p) \/ UpdateProgram(p) \/ ReplaceFile(p) \/ CannotReplaceFile(p)
         \/ InstallProgram(p) \/ FinishUpdate(p)
         \/ \E f \in File : Work(p, f) \/ ReleaseDropped(p, f)

Next == Step /\ upset' = (upset \/ Upsets')

Spec == Init /\ [][Next]_vars

-----------------------------------------------------------------------------
Pc == {"idle", "version", "text", "load", "store", "compare", "replace", "lock", "count",
       "counted", "dropped", "release", "releasing", "released"}

StateOK ==
    /\ documents \in [Key -> Entry \cup {NoEntry}]
    /\ entries \in [Entry -> [version : Version, text : Version, refs : Int,
                              lock : Worker \cup {Nobody}]]
    /\ script \in [Path -> [version : Version, text : Version]]
    /\ editing \subseteq Path
    /\ options \in [Project -> Option]
    /\ program \in [Project -> [File -> Doc \cup {NoDoc}]]
    /\ building \in [Project -> [File -> Doc \cup {NoDoc}]]
    /\ phase \in [Project -> {"idle", "rebuild", "replace", "drop"}]
    /\ task \in [Project -> [File -> [pc : Pc, key : Key \cup {NoDoc}, old : Doc \cup {NoDoc},
                     version : Version, text : Version, entry : Entry \cup {NoEntry},
                     count : Int]]]

TypeOK == StateOK /\ upset \in BOOLEAN

Holders(k) == {w \in Worker : program[w[1]][w[2]] # NoDoc /\ program[w[1]][w[2]].key = k}

\* Between updates the count of a document is the number of program files that
\* hold it, and a document nobody holds has left the registry ("tracking that the
\* caller has referenced it ... and remove it from the registry if the count
\* reaches 0", AcquireDocument), however the updates of the projects interleave,
\* until one of the three things of Upsets happens.
RefCountsAreHolders ==
    (~upset /\ \A p \in Project : phase[p] = "idle") =>
        \A k \in Key :
            IF Holders(k) = {} THEN documents[k] = NoEntry
            ELSE /\ documents[k] # NoEntry
                 /\ entries[documents[k]].refs = Cardinality(Holders(k))

\* Until then a document leaves the registry only when no other project holds it,
\* whatever that project is doing, and not while the update at hand moves it from
\* the old program to the new one.
ReleasesOnlyTheUnheld ==
    [][\A k \in Key : ~upset /\ documents[k] # NoEntry /\ documents'[k] = NoEntry =>
           \A p \in Project : \A f \in File :
               /\ phase[p] = "idle" => program[p][f] = NoDoc \/ program[p][f].key # k
               /\ phase[p] # "idle" => building[p][f] = NoDoc \/ building[p][f].key # k]_vars

\* A source file labelled with a version is never parsed from a text older than
\* that version, although version and text are read one after the other while the
\* editor may be changing them.
TextAsNewAsVersion ==
    \A p \in Project : \A f \in File :
        building[p][f] # NoDoc => building[p][f].text >= building[p][f].version

\* "the same version tracked by the ScriptInfo" (AcquireDocument), which the code does not
\* keep: what LoadOrStore finds of another project is not compared with the version read.
AcquiresTheTrackedVersion ==
    \A p \in Project : \A f \in File :
        (building[p][f] # NoDoc /\ phase[p] \in {"rebuild", "replace"})
            => building[p][f].version >= task[p][f].version
=============================================================================
