------------------------------ MODULE FileOrder ------------------------------
(***************************************************************************)
(* The order of the files of a program (processAllProgramFiles,            *)
(* collectTasks and sortLibs of internal/compiler/fileloader.go), which    *)
(* decides the order of declarations and diagnostics, once they are loaded *)
(* by FileLoader.                                                          *)
(***************************************************************************)
EXTENDS FileLoader, SequencesExt

CONSTANT Priority            \* of a library file, by its place in the list of libraries

ASSUME FileOrderAssumption == Priority \in [Path -> Nat]

PathOf(t) == ReferenceOf(t).path

SubTasks(t) == IF tasksByFileName[PathOf(t)] = t THEN tasks[PathOf(t)] ELSE <<>>

RECURSIVE collectTasksWorker(_, _)

\* Each task comes after its subtasks, and once.
collectTasksWorker(list, acc) ==
    IF list = <<>> THEN acc
    ELSE LET t == Head(list)
             inner == collectTasksWorker(SubTasks(t), [acc EXCEPT !.seen = @ \cup {t}])
         IN  collectTasksWorker(Tail(list),
                 IF t \in acc.seen THEN acc ELSE [inner EXCEPT !.out = Append(@, t)])

collectTasks == collectTasksWorker(tasks[Main], [seen |-> {}, out |-> <<>>]).out

\* The file of a task that was started and found its file.
HasFile(t) == tasksByFileName[PathOf(t)] = t /\ PathOf(t) \notin program.missing

PathsOf(list) == [i \in DOMAIN list |-> PathOf(list[i])]

sortLibs(libs) == SortSeq(libs, LAMBDA p, q : Priority[p] < Priority[q])

\* The files of the program: the libraries by priority, then the others.
Files ==
    LET found == SelectSeq(collectTasks, HasFile)
        Lib(t) == ReferenceOf(t).isLib
        Other(t) == ~Lib(t)
    IN  sortLibs(PathsOf(SelectSeq(found, Lib))) \o PathsOf(SelectSeq(found, Other))

-----------------------------------------------------------------------------
(* What the order should be, told from the references alone.               *)

RECURSIVE Visit(_, _)

\* Depth first, every file after those it refers to.
Visit(references, acc) ==
    IF references = <<>> THEN acc
    ELSE LET r == Head(references)
             below == IF r.path \in program.missing THEN <<>> ELSE program.references[r.path]
             inner == Visit(below, [acc EXCEPT !.seen = @ \cup {r.path}])
         IN  Visit(Tail(references),
                 IF r.path \in acc.seen THEN acc
                 ELSE IF r.path \in program.missing THEN [acc EXCEPT !.seen = @ \cup {r.path}]
                 ELSE [inner EXCEPT !.out = Append(@, r)])

Expected ==
    LET found == Visit(program.roots, [seen |-> {}, out |-> <<>>]).out
        Lib(r) == r.isLib
        Other(r) == ~r.isLib
        Names(list) == [i \in DOMAIN list |-> list[i].path]
    IN  SortSeq(Names(SelectSeq(found, Lib)), LAMBDA p, q : Priority[p] < Priority[q])
            \o Names(SelectSeq(found, Other))

Reaches(p, q) ==
    \A files \in SUBSET Path :
        /\ p \in files
        /\ \A f \in files \ program.missing : Paths(program.references[f]) \subseteq files
        => q \in files

Before(p, q) == \E i, j \in DOMAIN Files : i < j /\ Files[i] = p /\ Files[j] = q

\* A file follows those it refers to, except for references that form a cycle and for
\* libraries, which come first whatever they refer to.
ReferencesFirst ==
    \A p \in ToSet(Files) : \A r \in ToSet(program.references[p]) :
        \/ Reaches(r.path, p) \/ r.path \in program.missing
        \/ Before(r.path, p)
        \/ \E t \in ToSet(collectTasks) : PathOf(t) = p /\ ReferenceOf(t).isLib

\* The files come in one order, whichever of the tasks for a file was started first:
\* that of a walk through the references, each file after those it refers to.
OrderIgnoresTheSchedule == waited => Files = Expected /\ ReferencesFirst
=============================================================================
