------------------------------- MODULE Compile -------------------------------
(***************************************************************************)
(* What tsc does with a program (internal/execute/tsc.go,                  *)
(* internal/compiler): without syntax errors it has the files checked by   *)
(* several checkers at once and collects what they found; then it emits    *)
(* all files at once, and the goroutine of a file asks the checker of that *)
(* file, which other goroutines use too.  The checkers are created by      *)
(* whoever needs them first, which is an emitter if there are errors.      *)
(*                                                                         *)
(* A checker is a number; file number i of the program belongs to checker  *)
(* i % CheckerCount.                                                       *)
(***************************************************************************)
EXTENDS Naturals, FiniteSets

CONSTANTS
    File,                    \* the files there may be, by their place in programs
    Emittable,               \* no declaration files, JSON files or files of node_modules
    JavaScript,              \* those of the files in JavaScript
    Unwritable,              \* files whose output cannot always be written
    Checkers                 \* of a program that is not single threaded: 4 in the code

ASSUME CompileAssumption ==
    /\ File \subseteq Nat
    /\ Emittable \subseteq File /\ JavaScript \subseteq File /\ Unwritable \subseteq Emittable
    /\ Checkers \in Nat \ {0}

VARIABLES
    options,                 \* [singleThreaded, verbatimModuleSyntax, outputs]; by
                             \* declaration, emitDeclarationOnly and noEmit the outputs
                             \* are some of "js", "dts"
    program,                 \* file of the program -> the version it was loaded in
    errors,                  \* "none", "syntax", "global": what keeps the files unchecked
    phase,                   \* how far emitFilesAndReportErrors is
    once,                    \* createCheckersOnce: "new", "running", "done"
    checkers,                \* checkers that exist
    todo,                    \* checker -> files its work item has yet to check
    checked,                 \* files whose checker has their types
    checkerMu,               \* files whose emitter has the lock of their checker
    stage,                   \* file -> how far its emitter is
    part,                    \* file -> what its emitter makes: "js" or "dts"
    output,                  \* "js", "dts" -> file -> the version it was made from, or 0
    unwritten                \* files with an output that the last build could not write
                             \* (history)

inputVars == <<options, program, errors>>
checkVars == <<once, checkers, todo, checked>>
emitVars == <<checkerMu, stage, part, output, unwritten>>
vars == <<inputVars, phase, checkVars, emitVars>>

Part == {"js", "dts"}
Options == [singleThreaded : BOOLEAN, verbatimModuleSyntax : BOOLEAN, outputs : SUBSET Part]
Errors == {"none", "syntax", "global"}
SourceFiles == DOMAIN program
SourceFilesToEmit == SourceFiles \cap Emittable

Slot == 0 .. Checkers - 1
CheckerCount == IF options.singleThreaded THEN 1 ELSE Checkers
Checker == 0 .. CheckerCount - 1
CheckerOf(f) == Cardinality({g \in SourceFiles : g < f}) % CheckerCount
Files(c) == {f \in SourceFiles : CheckerOf(f) = c}

NoOutput == [p \in Part |-> [f \in File |-> 0]]

\* Before anything has been compiled.
Idle ==
    /\ errors = "none" /\ phase = "done"
    /\ once = "new" /\ checkers = {}
    /\ todo = [c \in Slot |-> {}] /\ checked = {}
    /\ checkerMu = {}
    /\ stage = [f \in File |-> "none"] /\ part = [f \in File |-> "js"]
    /\ output = NoOutput /\ unwritten = {}

\* A new program, with checkers of its own, in which there are some errors.
Start ==
    /\ errors' \in Errors /\ phase' = "syntactic"
    /\ once' = "new" /\ checkers' = {}
    /\ todo' = [c \in Slot |-> {}] /\ checked' = {}
    /\ stage' = [f \in File |-> "none"] /\ part' = [f \in File |-> "js"]
    /\ unwritten' = {}
    /\ UNCHANGED <<options, program, checkerMu, output>>

-----------------------------------------------------------------------------
(* emitFilesAndReportErrors.                                               *)

Continue(from, to) == phase = from /\ phase' = to

GetSyntacticDiagnostics ==
    /\ Continue("syntactic", IF errors = "syntax" THEN "emit" ELSE "global")
    /\ UNCHANGED <<inputVars, checkVars, emitVars>>

\* The first that needs the checkers.
GetGlobalDiagnostics ==
    /\ once = "done"
    /\ Continue("global", IF errors = "global" THEN "emit" ELSE "check")
    /\ UNCHANGED <<inputVars, checkVars, emitVars>>

\* CheckSourceFiles queues a work item for each checker ...
CheckSourceFiles ==
    /\ Continue("check", "checking")
    /\ todo' = [c \in Slot |-> Files(c)]
    /\ UNCHANGED <<inputVars, once, checkers, checked, emitVars>>

CheckSourceFile(c) ==
    /\ \E f \in todo[c] :
           /\ \A g \in todo[c] : f <= g
           /\ todo' = [todo EXCEPT ![c] = @ \ {f}]
           /\ checked' = checked \cup {f}
    /\ UNCHANGED <<inputVars, phase, once, checkers, emitVars>>

\* ... and RunAndWait waits for all of them, before the diagnostics are collected.
Waited_one == \E c \in Checker : todo[c] = {}

Waited == \A c \in Checker : todo[c] = {}

RunAndWait ==
    /\ Waited /\ Continue("checking", "collect")
    /\ UNCHANGED <<inputVars, checkVars, emitVars>>

\* The diagnostics of a file are asked of all checkers, and its own checks it.
GetSemanticDiagnostics ==
    /\ Continue("collect", "emit")
    /\ checked' = SourceFiles
    /\ UNCHANGED <<inputVars, once, checkers, todo, emitVars>>

Emit ==
    /\ Continue("emit", "emitting")
    /\ stage' = [f \in File |-> IF f \in SourceFilesToEmit THEN "queued" ELSE "none"]
    /\ UNCHANGED <<inputVars, checkVars, checkerMu, part, output, unwritten>>

Report ==
    /\ \A f \in SourceFilesToEmit : stage[f] = "end"
    /\ Continue("emitting", "done")
    /\ UNCHANGED <<inputVars, checkVars, emitVars>>

-----------------------------------------------------------------------------
(* createCheckers.                                                         *)

NeedsCheckers == phase = "global" \/ \E f \in SourceFiles : stage[f] = "resolve"

BeginCheckers ==
    /\ NeedsCheckers /\ once = "new"
    /\ once' = "running"
    /\ UNCHANGED <<inputVars, phase, checkers, todo, checked, emitVars>>

NewChecker(c) ==
    /\ once = "running" /\ c \notin checkers
    /\ checkers' = checkers \cup {c}
    /\ UNCHANGED <<inputVars, phase, once, todo, checked, emitVars>>

AllCreated == checkers = Checker

EndCheckers ==
    /\ once = "running" /\ AllCreated
    /\ once' = "done"
    /\ UNCHANGED <<inputVars, phase, checkers, todo, checked, emitVars>>

-----------------------------------------------------------------------------
(* The emitter of a file: its JavaScript, then its declarations.           *)

Step(f, from, to) == stage[f] = from /\ stage' = [stage EXCEPT ![f] = to]

Lock(f) == checkerMu \cap Files(CheckerOf(f)) = {} /\ checkerMu' = checkerMu \cup {f}

Unlock(f) == checkerMu' = checkerMu \ {f}

\* A work group of one thread runs its last item to the end before the next.
InTurn(f) ==
    options.singleThreaded =>
        \A g \in SourceFilesToEmit : stage[g] = IF g > f THEN "end" ELSE "queued"

importElisionEnabled(f) == ~options.verbatimModuleSyntax /\ f \notin JavaScript

\* The next of the outputs that are still to be made: declarations need a resolver,
\* JavaScript does for the imports that it leaves out.
Make(f, p) ==
    /\ part' = [part EXCEPT ![f] = p]
    /\ stage' = [stage EXCEPT ![f] =
                     IF p = "dts" \/ importElisionEnabled(f) THEN "resolve" ELSE "write"]

MakeNext(f, outputs) ==
    \/ "js" \in outputs /\ Make(f, "js")
    \/ outputs = {"dts"} /\ Make(f, "dts")
    \/ outputs = {} /\ stage' = [stage EXCEPT ![f] = "end"] /\ UNCHANGED part

StartEmitter(f) ==
    /\ InTurn(f) /\ stage[f] = "queued"
    /\ MakeNext(f, options.outputs)
    /\ UNCHANGED <<inputVars, phase, checkVars, checkerMu, output, unwritten>>

\* GetEmitResolver makes sure that the file is checked.
GetEmitResolver(f) ==
    /\ once = "done" /\ Step(f, "resolve", "check") /\ Lock(f)
    /\ UNCHANGED <<inputVars, phase, checkVars, part, output, unwritten>>

EnsureChecked_skip(f) == UNCHANGED checked

EnsureChecked(f) == checked' = checked \cup {f}

CheckForEmit(f) ==
    /\ Step(f, "check", "transform") /\ EnsureChecked(f) /\ Unlock(f)
    /\ UNCHANGED <<inputVars, phase, once, checkers, todo, part, output, unwritten>>

\* The transformers ask the resolver, which takes the lock of its checker for every
\* question ...
Ask(f) ==
    /\ Step(f, "transform", "ask") /\ Lock(f)
    /\ UNCHANGED <<inputVars, phase, checkVars, part, output, unwritten>>

Answer(f) ==
    /\ Step(f, "ask", "asked") /\ Unlock(f)
    /\ UNCHANGED <<inputVars, phase, checkVars, part, output, unwritten>>

\* ... but for that of a parameter with an initializer in a declaration,
\* RequiresAddingImplicitUndefined, which takes no lock.
AskParameter(f) ==
    /\ part[f] = "dts" /\ Step(f, "asked", "peek")
    /\ UNCHANGED <<inputVars, phase, checkVars, checkerMu, part, output, unwritten>>

AnswerParameter(f) ==
    /\ Step(f, "peek", "asked")
    /\ UNCHANGED <<inputVars, phase, checkVars, checkerMu, part, output, unwritten>>

\* A failure is reported, and the emitter goes on.
WriteFile(f) ==
    /\ stage[f] \in {"asked", "write"}
    /\ \/ /\ output' = [output EXCEPT ![part[f]][f] = program[f]]
          /\ UNCHANGED unwritten
       \/ /\ f \in Unwritable /\ unwritten' = unwritten \cup {f}
          /\ UNCHANGED output
    /\ MakeNext(f, options.outputs \ {"js", part[f]})
    /\ UNCHANGED <<inputVars, phase, checkVars, checkerMu>>

Emitter(f) ==
    \/ StartEmitter(f) \/ GetEmitResolver(f) \/ CheckForEmit(f)
    \/ Ask(f) \/ Answer(f) \/ WriteFile(f)

-----------------------------------------------------------------------------
Main ==
    \/ GetSyntacticDiagnostics \/ GetGlobalDiagnostics \/ CheckSourceFiles
    \/ RunAndWait \/ GetSemanticDiagnostics \/ Emit \/ Report

CreateCheckers == BeginCheckers \/ EndCheckers \/ \E c \in Checker : NewChecker(c)

CompileStep ==
    \/ Main \/ CreateCheckers
    \/ \E c \in Checker : CheckSourceFile(c)
    \/ \E f \in SourceFiles : Emitter(f) \/ AskParameter(f) \/ AnswerParameter(f)

-----------------------------------------------------------------------------
\* A checker is used by its worker, by the goroutine that collects the diagnostics or
\* by one of the emitters that are at one of some stages.
Exclusive(stages) ==
    \A c \in Checker :
        /\ \A f, g \in Files(c) : stage[f] \in stages /\ stage[g] \in stages => f = g
        /\ phase = "collect" => todo[c] = {}
        /\ phase = "collect" \/ todo[c] # {} => \A f \in Files(c) : stage[f] \notin stages

\* One goroutine at a time computes with a checker, although every emitter of its
\* files has it and the phases follow each other without a lock; but for the
\* questions that take none.
UsesAreExclusive == Exclusive({"check", "ask"})

\* "emitHost operations must be thread-safe" (emitHost.go), which the resolver of
\* GetEmitResolver is not: it looks at parameters while another emitter has the lock.
OperationsAreThreadSafe == Exclusive({"check", "ask", "peek"})

\* No emitter asks about a file before its checker exists and knows the types of the
\* file, even if errors have skipped the check of the program and the emitters
\* themselves create the checkers.
AsksOnlyTheChecked ==
    \A f \in SourceFiles :
        stage[f] \in {"transform", "ask", "asked", "peek"}
            => CheckerOf(f) \in checkers /\ f \in checked
=============================================================================
