------------------------------ MODULE FileLoader ------------------------------
(***************************************************************************)
(* The parallel loading of the files of a program (fileLoader and          *)
(* parseTask of internal/compiler/fileloader.go) on a work group           *)
(* (internal/core/workgroup.go).                                           *)
(*                                                                         *)
(* A task is made for every root file and for every reference of a parsed  *)
(* file; the table tasksByFileName keeps the first task of a file, which   *)
(* is started, and the lists of tasks are updated to hold that one.  The   *)
(* load is over when the work group has nothing left to run.               *)
(*                                                                         *)
(* Parsing, module resolution and the options that switch references off   *)
(* are external: a file that exists has a list of references, in the order *)
(* in which start adds them, each to a library or not.                     *)
(***************************************************************************)
EXTENDS Naturals, Sequences, FiniteSets

CONSTANTS
    Path, Main, NoTask,
    Program              \* programs: root files, references of each file, missing files

Reference == [path : Path, isLib : BOOLEAN]

ASSUME FileLoaderAssumption ==
    /\ Main \notin Path
    /\ \A program \in Program :
           /\ program.roots \in Seq(Reference)
           /\ program.references \in [Path -> Seq(Reference)]
           /\ program.missing \subseteq Path

\* Who makes tasks: the loader itself, and the task that is started for a path.  A task
\* is named for its maker and its place in the list of that maker.
Starter == Path \cup {Main}

Task == [by : Starter, at : Nat]

ASSUME NoTaskAssumption == NoTask \notin Task

VARIABLES
    program, singleThreaded,     \* given
    tasksByFileName,             \* path -> the task stored for it
    tasks,                       \* rootTasks of Main, subTasks of the task of a path
    next,                        \* the place of a starter in its list
    stage,                       \* path -> how far the task stored for it is
    fns,                         \* queued and not running, oldest first
    totalFileCount,
    waited                       \* RunAndWait has returned

vars == <<program, singleThreaded, tasksByFileName, tasks, next, stage, fns, totalFileCount,
          waited>>

ReferenceOf(t) ==
    IF t.by = Main THEN program.roots[t.at] ELSE program.references[t.by][t.at]

\* addRootTasks and addSubTask: a new task for each reference.
NewTasks(s, references) == [i \in DOMAIN references |-> [by |-> s, at |-> i]]

Init ==
    /\ program \in Program
    /\ singleThreaded \in BOOLEAN
    /\ tasksByFileName = [p \in Path |-> NoTask]
    /\ tasks = [s \in Starter |-> IF s = Main THEN NewTasks(Main, program.roots) ELSE <<>>]
    /\ next = [s \in Starter |-> 1]
    /\ stage = [p \in Path |-> "none"]
    /\ fns = <<>>
    /\ totalFileCount = 0
    /\ waited = FALSE

-----------------------------------------------------------------------------
(* startTasks, one task at a time.                                         *)

\* The path of the task at hand.
Current(s) == ReferenceOf(tasks[s][next[s]]).path

\* The loop of a starter runs: the loader's from the beginning, a task's once its file
\* is parsed.
InLoop(s) ==
    /\ s # Main => stage[s] = "starting"
    /\ next[s] \in DOMAIN tasks[s]

LoopOver_early(s) == next[s] >= Len(tasks[s])

LoopOver(s) == next[s] > Len(tasks[s])

\* LoadOrStore has stored the task at hand.
Won(s) == tasksByFileName[Current(s)] = tasks[s][next[s]]

Replace_kept(s) == UNCHANGED tasks

Replace(s) == tasks' = [tasks EXCEPT ![s][next[s]] = tasksByFileName[Current(s)]]

\* LoadOrStore finds a task of the file.
TakeLoaded(s) ==
    /\ InLoop(s) /\ tasksByFileName[Current(s)] \notin {NoTask, tasks[s][next[s]]}
    /\ Replace(s)
    /\ next' = [next EXCEPT ![s] = @ + 1]
    /\ UNCHANGED <<program, singleThreaded, tasksByFileName, stage, fns, totalFileCount, waited>>

Store(s) ==
    /\ InLoop(s) /\ tasksByFileName[Current(s)] = NoTask
    /\ tasksByFileName' = [tasksByFileName EXCEPT ![Current(s)] = tasks[s][next[s]]]
    /\ UNCHANGED <<program, singleThreaded, tasks, next, stage, fns, totalFileCount, waited>>

\* parseTask.start
Start(s) ==
    /\ InLoop(s) /\ Won(s)
    /\ totalFileCount' = totalFileCount + 1
    /\ fns' = Append(fns, Current(s))
    /\ stage' = [stage EXCEPT ![Current(s)] = "queued"]
    /\ next' = [next EXCEPT ![s] = @ + 1]
    /\ UNCHANGED <<program, singleThreaded, tasksByFileName, tasks, waited>>

-----------------------------------------------------------------------------
(* The work group.                                                         *)

Without(s, k) == SubSeq(s, 1, k - 1) \o SubSeq(s, k + 1, Len(s))

\* The parallel group has a goroutine for each function; the other one takes the
\* function that was queued last when it waits and runs nothing.
MayRun(k) ==
    \/ ~singleThreaded
    \/ /\ k = Len(fns)
       /\ LoopOver(Main)
       /\ \A p \in Path : stage[p] # "starting"

Skipped_unfinished == "queued"

\* A file that is missing ends its task.
Skipped == "done"

\* The function of a task parses the file and makes tasks for its references.
Parse(k) ==
    /\ k \in DOMAIN fns /\ MayRun(k)
    /\ fns' = Without(fns, k)
    /\ LET p == fns[k]
       IN  IF p \in program.missing
           THEN /\ stage' = [stage EXCEPT ![p] = Skipped]
                /\ UNCHANGED tasks
           ELSE /\ stage' = [stage EXCEPT ![p] = "starting"]
                /\ tasks' = [tasks EXCEPT ![p] = NewTasks(p, program.references[p])]
    /\ UNCHANGED <<program, singleThreaded, tasksByFileName, next, totalFileCount, waited>>

Finish(p) ==
    /\ stage[p] = "starting" /\ LoopOver(p)
    /\ stage' = [stage EXCEPT ![p] = "done"]
    /\ UNCHANGED <<program, singleThreaded, tasksByFileName, tasks, next, fns, totalFileCount,
                   waited>>

Idle_queueEmpty == fns = <<>>

\* Nothing is queued or running.
Idle == \A p \in Path : stage[p] \notin {"queued", "starting"}

RunAndWait ==
    /\ ~waited /\ LoopOver(Main) /\ Idle
    /\ waited' = TRUE
    /\ UNCHANGED <<program, singleThreaded, tasksByFileName, tasks, next, stage, fns,
                   totalFileCount>>

-----------------------------------------------------------------------------
Goroutine(s) ==
    \/ TakeLoaded(s) \/ Store(s) \/ Start(s)
    \/ s \in Path /\ (Finish(s) \/ \E k \in DOMAIN fns : fns[k] = s /\ Parse(k))
    \/ s = Main /\ RunAndWait

Next == \E s \in Starter : Goroutine(s)

Spec == Init /\ [][Next]_vars

\* Every goroutine runs when it can.
FairSpec == Spec /\ \A s \in Starter : WF_vars(Goroutine(s))

-----------------------------------------------------------------------------
TypeOK ==
    /\ program \in Program /\ singleThreaded \in BOOLEAN
    /\ tasksByFileName \in [Path -> Task \cup {NoTask}]
    /\ tasks \in [Starter -> Seq(Task)]
    /\ next \in [Starter -> Nat \ {0}]
    /\ stage \in [Path -> {"none", "queued", "starting", "done"}]
    /\ fns \in Seq(Path)
    /\ totalFileCount \in 0 .. Cardinality(Path) /\ waited \in BOOLEAN

\* Queue is not called after RunAndWait has returned (it would panic), and no task of the
\* load is left behind: the program is assembled from tasks nobody works on any more.
NothingRunsAfterTheWait ==
    waited => /\ \A s \in Starter : ~InLoop(s)
              /\ \A p \in Path : stage[p] \in {"none", "done"}

Paths(references) == {references[i].path : i \in DOMAIN references}

Closed(files) ==
    /\ Paths(program.roots) \subseteq files
    /\ \A p \in files \ program.missing : Paths(program.references[p]) \subseteq files

\* When the load is over the files loaded are those that are reachable from the roots:
\* the smallest set that is closed under references.
LoadsTheReachable ==
    LET loaded == {p \in Path : stage[p] # "none"}
    IN  /\ waited => Closed(loaded)
        /\ \A files \in SUBSET Path : Closed(files) => loaded \subseteq files

\* Every load ends, cyclic references or not.
LoadingEnds == <>waited
=============================================================================
