--------------------------- MODULE TscWatch_proofs ---------------------------
(***************************************************************************)
(* Proofs that the goroutines of every compilation of tsc --watch share    *)
(* the checkers safely, and that the watcher leaves no file uncompiled,    *)
(* for any number of files, checkers and edits.                            *)
(***************************************************************************)
EXTENDS TscWatch, FiniteSetTheorems, TLAPS

Holding == {"check", "ask"}
Asking == {"transform", "ask", "asked", "peek"}

TypeInv ==
    /\ config \in Parsed \cup {NoConfig}
    /\ options \in Options
    /\ SourceFiles \subseteq File
    /\ todo \in [Slot -> SUBSET File]
    /\ stage \in [File -> {"none", "queued", "resolve", "write", "end", "check"} \cup Asking]
    /\ checkerMu \subseteq File

(***************************************************************************)
(* The strengthening.                                                      *)
(***************************************************************************)

\* The lock of a checker is held by the one emitter that computes with it.
LockInv ==
    /\ \A f \in File : f \in checkerMu <=> stage[f] \in Holding
    /\ \A f, g \in SourceFiles :
           f \in checkerMu /\ g \in checkerMu /\ CheckerOf(f) = CheckerOf(g) => f = g

\* Emitters run in one phase and workers in another, and nothing runs between builds.
PhaseInv ==
    /\ phase # "emitting" => \A f \in File : stage[f] \in {"none", "end"}
    /\ phase = "emitting" => \A f \in File : stage[f] # "none" => f \in SourceFilesToEmit
    /\ phase \notin {"checking", "done"} => \A c \in Checker : todo[c] = {}
    /\ cycle # "build" => phase = "done"

\* Whoever has got past createCheckers finds the checker of every file.
CheckedInv ==
    /\ cycle = "build" /\ once = "done" => \A f \in SourceFiles : CheckerOf(f) \in checkers
    /\ \A f \in SourceFiles :
           /\ stage[f] \in {"check"} \cup Asking => CheckerOf(f) \in checkers
           /\ stage[f] \in Asking => f \in checked

IInv == TypeInv /\ LockInv /\ PhaseInv /\ CheckedInv

USE DEF Holding, Asking

\* Every file of a program has a checker of the pool, whatever the numbers.
LEMMA CheckerOfFile ==
    ASSUME options \in Options, SourceFiles \subseteq File, NEW f \in SourceFiles
    PROVE  CheckerOf(f) \in Checker
<1> DEFINE Before == {g \in SourceFiles : g < f}
<1>1. f \in Nat /\ SourceFiles \subseteq Nat
  BY CompileAssumption DEF CompileAssumption
<1>2. Before \subseteq 0 .. f - 1
  <2>1. ASSUME NEW g \in SourceFiles, g < f
        PROVE  g \in 0 .. f - 1
    BY <1>1, <2>1
  <2> QED BY <2>1
<1>3. Cardinality(Before) \in Nat
  <2>1. IsFiniteSet(0 .. f - 1)
    BY <1>1, FS_Interval
  <2> QED BY <1>2, <2>1, FS_Subset, FS_CardinalityType
<1>4. CheckerCount \in Nat \ {0}
  BY CompileAssumption DEF CompileAssumption, CheckerCount
<1>5. Cardinality(Before) % CheckerCount \in 0 .. CheckerCount - 1
  <2> HIDE DEF Before
  <2> QED BY <1>3, <1>4
<1> QED BY <1>5 DEF CheckerOf, Checker

\* The invariant holds before the first cycle.
LEMMA InitInv == Init => IInv
BY WatchAssumption
DEF Init, Idle, WatchAssumption, IInv, TypeInv, LockInv, PhaseInv, CheckedInv, SourceFiles, NoFiles

(***************************************************************************)
(* The steps of a compilation.                                             *)
(***************************************************************************)

\* emitFilesAndReportErrors goes on.
LEMMA MainStep == IInv /\ cycle = "build" /\ Main /\ UNCHANGED <<cycle, config>> => IInv'
<1> SUFFICES ASSUME IInv, cycle = "build", Main, UNCHANGED <<cycle, config>>
             PROVE  IInv'
  OBVIOUS
<1> USE DEF IInv, TypeInv, inputVars, checkVars, emitVars, Continue, SourceFiles, Checker,
            CheckerCount, CheckerOf, Files
<1>1. TypeInv'
  BY DEF Main, GetSyntacticDiagnostics, GetGlobalDiagnostics, CheckSourceFiles, RunAndWait,
         GetSemanticDiagnostics, Emit, Report
<1>2. LockInv'
  BY DEF LockInv, PhaseInv, Main, GetSyntacticDiagnostics, GetGlobalDiagnostics,
         CheckSourceFiles, RunAndWait, GetSemanticDiagnostics, Emit, Report
<1>3. PhaseInv'
  <2>1. CASE GetSyntacticDiagnostics
    BY <2>1 DEF PhaseInv, GetSyntacticDiagnostics
  <2>2. CASE GetGlobalDiagnostics
    BY <2>2 DEF PhaseInv, GetGlobalDiagnostics
  <2>3. CASE CheckSourceFiles
    BY <2>3 DEF PhaseInv, CheckSourceFiles
  <2>4. CASE RunAndWait
    BY <2>4 DEF PhaseInv, RunAndWait, Waited
  <2>5. CASE GetSemanticDiagnostics
    BY <2>5 DEF PhaseInv, GetSemanticDiagnostics
  <2>6. CASE Emit
    BY <2>6 DEF PhaseInv, Emit, SourceFilesToEmit
  <2>7. CASE Report
    BY <2>7 DEF PhaseInv, Report, SourceFilesToEmit
  <2> QED BY <2>1, <2>2, <2>3, <2>4, <2>5, <2>6, <2>7 DEF Main
<1>4. CheckedInv'
  BY DEF CheckedInv, PhaseInv, Main, GetSyntacticDiagnostics, GetGlobalDiagnostics,
         CheckSourceFiles, RunAndWait, GetSemanticDiagnostics, Emit, Report
<1> QED BY <1>1, <1>2, <1>3, <1>4

\* The checkers are created.
LEMMA CreateStep == IInv /\ cycle = "build" /\ CreateCheckers /\ UNCHANGED <<cycle, config>> => IInv'
<1> SUFFICES ASSUME IInv, cycle = "build", CreateCheckers, UNCHANGED <<cycle, config>>
             PROVE  IInv'
  OBVIOUS
<1>1. \A f \in SourceFiles : CheckerOf(f) \in Checker
  BY CheckerOfFile DEF IInv, TypeInv
<1> USE DEF IInv, inputVars, checkVars, emitVars
<1>2. UNCHANGED <<options, program, phase, todo, checked, checkerMu, stage>>
      /\ checkers \subseteq checkers'
      /\ (once' = "done" => once = "done" \/ checkers' = Checker)
  BY DEF CreateCheckers, BeginCheckers, NewChecker, EndCheckers, AllCreated
<1>3. UNCHANGED <<SourceFiles, Checker>> /\ \A f \in SourceFiles : UNCHANGED CheckerOf(f)
  BY <1>2 DEF SourceFiles, Checker, CheckerCount, CheckerOf
<1>4. TypeInv' /\ LockInv' /\ PhaseInv'
  BY <1>2, <1>3 DEF TypeInv, LockInv, PhaseInv, SourceFilesToEmit
<1>5. CheckedInv'
  BY <1>1, <1>2, <1>3 DEF CheckedInv
<1> QED BY <1>4, <1>5

\* A worker checks a file.
LEMMA WorkerStep ==
    ASSUME IInv, cycle = "build", NEW c \in Checker, CheckSourceFile(c), UNCHANGED <<cycle, config>>
    PROVE  IInv'
<1> USE DEF IInv, inputVars, emitVars, CheckSourceFile
<1>1. UNCHANGED <<SourceFiles, Checker>> /\ \A f \in SourceFiles : UNCHANGED CheckerOf(f)
  BY DEF SourceFiles, Checker, CheckerCount, CheckerOf
<1>2. c \in Slot /\ Checker \subseteq Slot
  BY CompileAssumption DEF CompileAssumption, Checker, CheckerCount, Slot
<1>3. PICK f \in todo[c] : /\ todo' = [todo EXCEPT ![c] = @ \ {f}]
                          /\ checked' = checked \cup {f}
  OBVIOUS
<1>4. checked \subseteq checked' /\ todo' \in [Slot -> SUBSET File]
      /\ \A d \in Checker : todo[d] = {} => todo'[d] = {}
  BY <1>2, <1>3 DEF TypeInv
<1> QED BY <1>1, <1>4 DEF TypeInv, LockInv, PhaseInv, CheckedInv

(***************************************************************************)
(* The steps of an emitter.                                                *)
(***************************************************************************)

\* An emitter goes on; it is known what it may do to the locks and what it needs.
LEMMA EmitterStep ==
    ASSUME IInv, cycle = "build", UNCHANGED <<cycle, config>>, NEW f \in SourceFiles,
           Emitter(f) \/ AskParameter(f) \/ AnswerParameter(f)
    PROVE  IInv'
<1> USE DEF IInv, inputVars, checkVars, emitVars, Step
<1>1. UNCHANGED <<SourceFiles, Checker, options, phase, once, checkers, todo>>
      /\ \A g \in SourceFiles : UNCHANGED CheckerOf(g)
  BY DEF Emitter, StartEmitter, GetEmitResolver, CheckForEmit, Ask, Answer, WriteFile, MakeNext, Make,
         AskParameter, AnswerParameter, SourceFiles, Checker, CheckerCount, CheckerOf
<1>2. f \in File /\ stage \in [File -> {"none", "queued", "resolve", "write", "end", "check"} \cup Asking]
  BY DEF TypeInv
<1>3. /\ stage[f] \notin {"none", "end"}
      /\ \E s \in {"resolve", "write", "end", "check"} \cup Asking : stage' = [stage EXCEPT ![f] = s]
  BY <1>2 DEF Emitter, StartEmitter, GetEmitResolver, CheckForEmit, Ask, Answer, WriteFile, MakeNext, Make,
         AskParameter, AnswerParameter
<1>4. checked \subseteq checked'
  BY DEF Emitter, StartEmitter, GetEmitResolver, CheckForEmit, EnsureChecked, Ask, Answer,
         WriteFile, MakeNext, Make, AskParameter, AnswerParameter
<1>5. LockInv' /\ checkerMu' \subseteq File
  <2>1. CASE stage'[f] \in Holding
    <3>1. Lock(f) /\ stage[f] \notin Holding
      BY <1>2, <2>1 DEF Emitter, StartEmitter, GetEmitResolver, CheckForEmit, Ask, Answer, WriteFile, MakeNext, Make,
         AskParameter, AnswerParameter
    <3> QED BY <1>1, <1>2, <1>3, <2>1, <3>1 DEF LockInv, Lock, Files, TypeInv
  <2>2. CASE stage'[f] \notin Holding
    <3>1. IF stage[f] \in Holding THEN Unlock(f) ELSE UNCHANGED checkerMu
      BY <1>2, <2>2 DEF Emitter, StartEmitter, GetEmitResolver, CheckForEmit, Ask, Answer, WriteFile, MakeNext, Make,
         AskParameter, AnswerParameter
    <3> QED BY <1>1, <1>2, <1>3, <2>2, <3>1 DEF LockInv, Unlock, TypeInv
  <2> QED BY <2>1, <2>2
<1>6. TypeInv'
  BY <1>1, <1>2, <1>3, <1>5 DEF TypeInv
<1>7. PhaseInv'
  BY <1>1, <1>2, <1>3 DEF PhaseInv, SourceFilesToEmit
<1>8. CheckedInv'
  <2>1. \/ stage'[f] \in {"resolve", "write", "end"}
        \/ stage'[f] = "check" /\ once = "done"
        \/ stage'[f] = "transform" /\ stage[f] = "check" /\ f \in checked'
        \/ stage'[f] \in Asking /\ stage[f] \in Asking
    BY <1>2 DEF Emitter, StartEmitter, GetEmitResolver, CheckForEmit, Ask, Answer, WriteFile, MakeNext, Make,
         AskParameter, AnswerParameter, EnsureChecked
  <2> QED BY <1>1, <1>2, <1>3, <1>4, <2>1 DEF CheckedInv
<1> QED BY <1>5, <1>6, <1>7, <1>8

(***************************************************************************)
(* The steps of editors and the watcher.                                   *)
(***************************************************************************)

\* What happens between compilations changes nothing they have, and starts with new
\* checkers.
LEMMA WatcherStep == IInv /\ (Watcher \/ EditConfig \/ \E f \in Edited : EditFile(f)) => IInv'
<1> SUFFICES ASSUME IInv, Watcher \/ EditConfig \/ \E f \in Edited : EditFile(f)
             PROVE  IInv'
  OBVIOUS
<1> USE DEF IInv, inputVars, checkVars, emitVars, diskVars, cycleVars, watcherVars, vars
<1>1. CASE EndStat /\ Modified
  <2>1. Start /\ phase = "done" /\ cycle' = "build" /\ UNCHANGED config
    BY <1>1 DEF EndStat, PhaseInv
  <2>2. UNCHANGED <<SourceFiles, Checker>> /\ \A g \in SourceFiles : UNCHANGED CheckerOf(g)
    BY <2>1 DEF Start, SourceFiles, Checker, CheckerCount, CheckerOf
  <2>3. \A f \in File : stage[f] \in {"none", "end"} /\ stage'[f] = "none"
    BY <2>1 DEF Start, PhaseInv
  <2>4. Checker \subseteq Slot
    BY CompileAssumption DEF CompileAssumption, Checker, CheckerCount, Slot, TypeInv
  <2> QED BY <2>1, <2>2, <2>3, <2>4 DEF Start, TypeInv, LockInv, PhaseInv, CheckedInv
<1>2. CASE ReadConfig \/ \E f \in File : Load(f)
  <2>1. /\ UNCHANGED <<config, phase, once, checkers, todo, checked, checkerMu, stage>>
        /\ cycle # "build" /\ cycle' # "build" /\ phase = "done"
        /\ options' \in Options /\ SourceFiles' \subseteq File
    <3>1. CASE ReadConfig
      BY <3>1, WatchAssumption
      DEF ReadConfig, PhaseInv, TypeInv, SourceFiles, NoFiles, WatchAssumption
    <3>2. ASSUME NEW f \in File, Load(f)
          PROVE  SourceFiles' \subseteq File
      BY <3>2 DEF Load, TypeInv, SourceFiles, With
    <3>3. CASE \E f \in File : Load(f)
      BY <3>2, <3>3 DEF Load, PhaseInv, TypeInv
    <3> QED BY <1>2, <3>1, <3>3
  <2>2. \A f \in File : stage[f] \in {"none", "end"}
    BY <2>1 DEF PhaseInv
  <2> QED BY <2>1, <2>2 DEF TypeInv, LockInv, PhaseInv, CheckedInv
<1>3. CASE \/ Loaded \/ (EndStat /\ ~Modified) \/ EndBuild \/ Wake
           \/ \E f \in File : StatAbsent(f) \/ Stat(f)
           \/ EditConfig \/ \E f \in Edited : EditFile(f)
  <2>1. /\ UNCHANGED vars /\ config' \in Parsed \cup {NoConfig}
        /\ cycle # "build" => cycle' # "build"
        /\ cycle' # "build" => phase = "done"
    BY <1>3 DEF Loaded, EndStat, EndBuild, Wake, NextToStat, StatAbsent, Stat, EditConfig, EditFile, Edits, PhaseInv, TypeInv
  <2>2. UNCHANGED <<SourceFiles, Checker>> /\ \A g \in SourceFiles : UNCHANGED CheckerOf(g)
    BY <2>1 DEF SourceFiles, Checker, CheckerCount, CheckerOf
  <2> QED BY <2>1, <2>2 DEF TypeInv, LockInv, PhaseInv, CheckedInv, SourceFilesToEmit
<1> HIDE DEF IInv
<1>4. CASE Watcher
  <2>1. CASE \E f \in File : Load(f) \/ StatAbsent(f) \/ Stat(f)
    BY <1>2, <1>3, <2>1
  <2> QED BY <1>1, <1>2, <1>3, <1>4, <2>1 DEF Watcher
<1> QED BY <1>3, <1>4

(***************************************************************************)
(* The theorems.                                                           *)
(***************************************************************************)

\* Every step keeps the invariant.
LEMMA NextInv == IInv /\ [Next]_watchVars => IInv'
<1> SUFFICES ASSUME IInv, [Next]_watchVars PROVE IInv'
  OBVIOUS
<1>1. CASE CompileAndEmit
  <2>1. cycle = "build" /\ CompileStep /\ UNCHANGED <<cycle, config>>
    BY <1>1 DEF CompileAndEmit, watcherVars, diskVars
  <2> QED BY <2>1, MainStep, CreateStep, WorkerStep, EmitterStep DEF CompileStep
<1>2. CASE UNCHANGED watchVars
  <2>1. UNCHANGED <<vars, cycle, config>>
    BY <1>2 DEF watchVars, watcherVars, diskVars
  <2>2. UNCHANGED <<SourceFiles, Checker>> /\ \A g \in SourceFiles : UNCHANGED CheckerOf(g)
    BY <2>1 DEF vars, inputVars, SourceFiles, Checker, CheckerCount, CheckerOf
  <2> QED BY <2>1, <2>2
          DEF vars, inputVars, checkVars, emitVars, IInv, TypeInv, LockInv, PhaseInv, CheckedInv,
              SourceFilesToEmit
<1> QED BY <1>1, <1>2, WatcherStep DEF Next

\* In every compilation of tsc --watch one goroutine at a time computes with a checker
\* (but for questions without lock), whatever the numbers of files and checkers.
THEOREM ExclusiveUses == Spec => []UsesAreExclusive
<1>1. IInv => UsesAreExclusive
  <2> SUFFICES ASSUME IInv, NEW c \in Checker
               PROVE  /\ \A f, g \in Files(c) : stage[f] \in Holding /\ stage[g] \in Holding => f = g
                      /\ phase = "collect" => todo[c] = {}
                      /\ phase = "collect" \/ todo[c] # {} =>
                             \A f \in Files(c) : stage[f] \notin Holding
    BY DEF UsesAreExclusive, Exclusive
  <2>1. \A f, g \in Files(c) : stage[f] \in Holding /\ stage[g] \in Holding => f = g
    BY DEF IInv, TypeInv, LockInv, Files
  <2>2. phase \notin {"checking", "done"} => todo[c] = {}
    BY DEF IInv, PhaseInv
  <2>3. phase # "emitting" => \A f \in Files(c) : stage[f] \notin Holding
    BY DEF IInv, TypeInv, PhaseInv, Files
  <2> QED BY <2>1, <2>2, <2>3
<1> QED BY <1>1, InitInv, NextInv, PTL DEF Spec

\* No emitter asks a checker that does not exist or has not checked its file, even when
\* errors have skipped the check of the program.
THEOREM AsksTheChecked == Spec => []AsksOnlyTheChecked
<1>1. IInv => AsksOnlyTheChecked
  BY DEF IInv, CheckedInv, AsksOnlyTheChecked
<1> QED BY <1>1, InitInv, NextInv, PTL DEF Spec

(***************************************************************************)
(* What the watcher remembers of the last build.                           *)
(***************************************************************************)

\* Times of some files.
IsTimes(g) == DOMAIN g \subseteq File /\ \A f \in DOMAIN g : g[f] \in Nat \ {0}

WatchTypeInv ==
    /\ edits \in Nat /\ disk \in [File -> Nat]
    /\ cycle \in {"config", "load", "stat", "build", "sleep"}
    /\ IsTimes(program) /\ IsTimes(prevModified) /\ IsTimes(currState)
    /\ unread \subseteq File /\ unstated \subseteq File
    /\ configModified \in BOOLEAN /\ filesModified \in BOOLEAN
    /\ part \in [File -> Part]
    /\ output \in [Part -> [File -> Nat]]

\* A file that is edited gets a time that it has never had; so one with the time that
\* it had before has not been edited in between.
Past(g) == \A f \in DOMAIN g : disk[f] # 0 => g[f] <= disk[f]

TimesInv ==
    /\ \A f \in File : disk[f] <= edits + 1
    /\ \A f \in SourceFiles : program[f] <= edits + 1
    /\ \A f \in DOMAIN prevModified : prevModified[f] <= edits + 1
    /\ \A f \in DOMAIN currState : currState[f] <= edits + 1
    /\ Past(program) /\ Past(prevModified) /\ Past(currState)

\* The time that a file had at the end of the cycle before, as far as the watcher has
\* not found out that it has another.
BaseTime(f) ==
    IF cycle = "stat" /\ f \in DOMAIN currState THEN currState[f] ELSE ModTime(prevModified, f)

\* While the watcher has seen no change, what was emitted last is what is loaded.
Unmodified == cycle # "build" /\ ~configModified /\ (cycle = "stat" => ~filesModified)

EmittedInv ==
    Unmodified =>
        \A f \in File \ missed :
            /\ BaseTime(f) # 0 /\ f \in Emittable \ unwritten =>
                   \A p \in options.outputs : output[p][f] = BaseTime(f)
            /\ stage[f] # "none" => BaseTime(f) # 0

\* The program of the cycle is as new as the times that it is compared with.
CycleInv ==
    /\ cycle \in {"load", "stat"} =>
           \A f \in SourceFiles : ModTime(prevModified, f) <= program[f]
    /\ cycle = "stat" =>
           /\ configModified => filesModified
           /\ unstated \subseteq SourceFiles
           /\ DOMAIN currState \subseteq SourceFiles \ unstated
           /\ ~filesModified => \A f \in DOMAIN currState : program[f] = currState[f]
    /\ cycle \in {"build", "sleep", "config"} =>
           /\ ~configModified
           /\ prevModified = currState
           /\ DOMAIN currState \subseteq SourceFiles
           /\ \A f \in DOMAIN currState \ missed : program[f] = currState[f]

\* An emitter that has ended has written what it should.
WrittenInv ==
    cycle = "build" =>
        /\ \A f \in SourceFiles \ missed : f \in DOMAIN currState
        /\ \A f \in File : stage[f] # "none" => f \in SourceFiles
        /\ \A f \in SourceFiles :
               /\ part[f] = "dts" /\ "js" \in options.outputs /\ f \notin unwritten
                      => output["js"][f] = program[f]
               /\ stage[f] = "end" => UpToDate(f)
        /\ phase = "done" => \A f \in SourceFiles : UpToDate(f)

WatchInv == WatchTypeInv /\ TimesInv /\ EmittedInv /\ CycleInv /\ WrittenInv

\* Files and config file change while the watcher does something else than to compile.
LEMMA EditKeeps ==
    ASSUME WatchInv, EditConfig \/ \E f \in Edited : EditFile(f)
    PROVE  WatchInv'
<1>1. UNCHANGED <<watcherVars, vars>> /\ edits' = edits + 1 /\ cycle # "build"
  BY DEF EditConfig, EditFile, Edits
<1>2. UNCHANGED <<cycle, unread, unstated, currState, filesModified, prevModified, configModified,
                  missed, options, program, phase, part, output, unwritten, stage>>
  BY <1>1 DEF watcherVars, cycleVars, vars, inputVars, emitVars
<1>3. /\ disk' \in [File -> Nat]
      /\ \A f \in File : disk'[f] \in {disk[f], 0, edits + 2}
  BY WatchAssumption DEF EditConfig, EditFile, WatchInv, WatchTypeInv, WatchAssumption
<1>4. WatchTypeInv'
  BY <1>1, <1>2, <1>3 DEF WatchInv, WatchTypeInv, IsTimes
<1>5. TimesInv'
  <2>1. ASSUME NEW g, IsTimes(g), Past(g), \A f \in DOMAIN g : g[f] <= edits + 1
        PROVE  \A f \in DOMAIN g : /\ g[f] <= edits' + 1
                                   /\ disk'[f] # 0 => g[f] <= disk'[f]
    BY <1>1, <1>3, <2>1 DEF WatchInv, WatchTypeInv, IsTimes, Past
  <2>2. \A f \in File : disk'[f] <= edits' + 1
    BY <1>1, <1>3 DEF WatchInv, WatchTypeInv, TimesInv
  <2> QED BY <1>2, <2>1, <2>2 DEF WatchInv, WatchTypeInv, TimesInv, Past, SourceFiles
<1>6. EmittedInv' /\ CycleInv'
  BY <1>1, <1>2 DEF WatchInv, EmittedInv, CycleInv, Unmodified, BaseTime, ModTime, SourceFiles
<1>7. WrittenInv'
  BY <1>1, <1>2 DEF WrittenInv
<1> QED BY <1>4, <1>5, <1>6, <1>7 DEF WatchInv

\* A cycle begins: the config file is read, and whether it is new is noted.
LEMMA ReadConfigKeeps ==
    ASSUME WatchInv, ReadConfig
    PROVE  WatchInv'
<1>1. /\ cycle = "config"
      /\ UNCHANGED <<disk, config, edits, unstated, currState, filesModified, prevModified,
                     missed, part, output, unwritten, stage>>
      /\ IF config = NoConfig
         THEN cycle' = "sleep" /\ UNCHANGED <<options, program, unread, configModified>>
         ELSE /\ cycle' = "load" /\ configModified' = (configModified \/ options # config)
              /\ options' = config /\ program' = NoFiles /\ unread' = {f \in File : disk[f] # 0}
  BY DEF ReadConfig, diskVars, emitVars, ConfigModified
<1>2. WatchTypeInv'
  <2>1. configModified' \in BOOLEAN
    BY <1>1 DEF WatchInv, WatchTypeInv
  <2>2. IsTimes(program)'
    BY <1>1 DEF WatchInv, WatchTypeInv, IsTimes, NoFiles
  <2>3. unread' \subseteq File /\ cycle' \in {"sleep", "load"}
    BY <1>1 DEF WatchInv, WatchTypeInv
  <2> QED BY <1>1, <2>1, <2>2, <2>3 DEF WatchInv, WatchTypeInv, IsTimes
<1>3. CASE config = NoConfig
  <2>1. TimesInv'
    BY <1>1, <1>3 DEF WatchInv, TimesInv, Past, SourceFiles
  <2>2. EmittedInv' /\ CycleInv' /\ WrittenInv'
    BY <1>1, <1>3 DEF WatchInv, EmittedInv, CycleInv, WrittenInv, Unmodified, BaseTime, ModTime,
                      SourceFiles
  <2> QED BY <1>2, <2>1, <2>2 DEF WatchInv
<1>4. CASE config # NoConfig
  <2>1. DOMAIN program' = {}
    BY <1>1, <1>4 DEF NoFiles
  <2>2. TimesInv'
    BY <1>1, <1>4, <2>1 DEF WatchInv, TimesInv, Past, SourceFiles
  <2>3. CycleInv' /\ WrittenInv'
    BY <1>1, <1>4, <2>1 DEF CycleInv, WrittenInv, SourceFiles
  <2>4. ~configModified' => options' = options
    BY <1>1, <1>4
  <2>5. ~configModified /\ cycle = "config" /\ cycle' = "load"
    BY <1>1, <1>4 DEF WatchInv, CycleInv
  <2>6. EmittedInv'
    BY <1>1, <2>4, <2>5 DEF WatchInv, EmittedInv, Unmodified, BaseTime, ModTime
  <2> QED BY <1>2, <2>2, <2>3, <2>6 DEF WatchInv
<1> QED BY <1>3, <1>4

\* A file of the program is loaded as it is on disk.
LEMMA LoadKeeps ==
    ASSUME WatchInv, NEW f \in File, Load(f)
    PROVE  WatchInv'
<1>1. /\ cycle = "load" /\ cycle' = "load" /\ unread' \subseteq unread
      /\ program' = IF disk[f] = 0 THEN program ELSE With(program, f, disk[f])
      /\ UNCHANGED <<disk, config, edits, unstated, currState, filesModified, prevModified,
                     configModified, missed, options, part, output, unwritten, stage>>
  BY DEF Load, diskVars, emitVars
<1>2. /\ SourceFiles' \subseteq SourceFiles \cup {f}
      /\ \A g \in SourceFiles' : \/ g = f /\ program'[g] = disk[f] /\ disk[f] # 0
                                 \/ g \in SourceFiles /\ program'[g] = program[g]
  BY <1>1 DEF With, SourceFiles
<1>3. disk[f] \in Nat
  BY DEF WatchInv, WatchTypeInv
<1>4. WatchTypeInv'
  BY <1>1, <1>2, <1>3 DEF WatchInv, WatchTypeInv, IsTimes, SourceFiles
<1>5. TimesInv'
  BY <1>1, <1>2, <1>3 DEF WatchInv, TimesInv, Past, SourceFiles
<1>6. CycleInv'
  <2>1. ModTime(prevModified, f) <= disk[f] \/ disk[f] = 0
    BY <1>3 DEF WatchInv, TimesInv, Past, ModTime
  <2> QED BY <1>1, <1>2, <2>1 DEF WatchInv, CycleInv, ModTime
<1>7. EmittedInv' /\ WrittenInv'
  BY <1>1 DEF WatchInv, EmittedInv, WrittenInv, Unmodified, BaseTime, ModTime
<1> QED BY <1>4, <1>5, <1>6, <1>7 DEF WatchInv

\* All files are loaded, and their times will be looked at.
LEMMA LoadedKeeps ==
    ASSUME WatchInv, Loaded
    PROVE  WatchInv'
<1>1. /\ cycle = "load" /\ cycle' = "stat" /\ unstated' = SourceFiles /\ currState' = NoFiles
      /\ filesModified' = configModified
      /\ UNCHANGED <<disk, config, edits, unread, prevModified, configModified, missed,
                     options, program, part, output, unwritten, stage>>
  BY DEF Loaded, diskVars, vars, inputVars, emitVars
<1>2. WatchTypeInv' /\ TimesInv'
  BY <1>1 DEF WatchInv, WatchTypeInv, IsTimes, NoFiles, TimesInv, Past, SourceFiles
<1>3. EmittedInv' /\ CycleInv' /\ WrittenInv'
  BY <1>1 DEF WatchInv, WatchTypeInv, EmittedInv, CycleInv, WrittenInv, Unmodified, BaseTime,
              ModTime, SourceFiles, NoFiles
<1> QED BY <1>2, <1>3 DEF WatchInv

\* A file that is gone by the time it is looked at has no time.
LEMMA StatAbsentKeeps ==
    ASSUME WatchInv, NEW f \in File, StatAbsent(f)
    PROVE  WatchInv'
<1>1. /\ cycle = "stat" /\ unstated' = unstated \ {f}
      /\ UNCHANGED <<disk, config, edits, cycle, unread, currState, filesModified, prevModified,
                     configModified, missed, options, program, part, output, unwritten, stage>>
  BY DEF StatAbsent, NextToStat, diskVars, vars, inputVars, emitVars
<1>2. WatchTypeInv' /\ TimesInv'
  BY <1>1 DEF WatchInv, WatchTypeInv, IsTimes, TimesInv, Past, SourceFiles
<1>3. EmittedInv' /\ CycleInv' /\ WrittenInv'
  BY <1>1 DEF WatchInv, EmittedInv, CycleInv, WrittenInv, Unmodified, BaseTime, ModTime, SourceFiles
<1> QED BY <1>2, <1>3 DEF WatchInv

\* A file with the time it had before has been loaded in the version of that time: it was
\* loaded in between.
LEMMA StatKeeps ==
    ASSUME WatchInv, NEW f \in File, Stat(f)
    PROVE  WatchInv'
<1>1. /\ cycle = "stat" /\ f \in unstated /\ unstated' = unstated \ {f} /\ disk[f] # 0
      /\ currState' = With(currState, f, disk[f])
      /\ filesModified' = (filesModified \/ Differs(f))
      /\ prevModified' = IF filesModified THEN prevModified ELSE Without(prevModified, f)
      /\ UNCHANGED <<disk, config, edits, cycle, unread, configModified, missed, options, program,
                     part, output, unwritten, stage>>
  BY DEF Stat, NextToStat, diskVars, vars, inputVars, emitVars
<1>2. /\ f \in SourceFiles /\ f \notin DOMAIN currState /\ disk[f] \in Nat /\ program[f] \in Nat
      /\ ModTime(prevModified, f) <= program[f] /\ program[f] <= disk[f]
      /\ ModTime(prevModified, f) \in Nat
  BY <1>1 DEF WatchInv, WatchTypeInv, IsTimes, CycleInv, TimesInv, Past, SourceFiles, ModTime
<1>3. /\ DOMAIN currState' = DOMAIN currState \cup {f} /\ currState'[f] = disk[f]
      /\ \A g \in DOMAIN currState : currState'[g] = currState[g]
  BY <1>1, <1>2 DEF With
<1>4. /\ DOMAIN prevModified' \subseteq DOMAIN prevModified
      /\ \A g \in DOMAIN prevModified' : prevModified'[g] = prevModified[g]
      /\ \A g \in DOMAIN prevModified : g # f => g \in DOMAIN prevModified'
  BY <1>1 DEF Without
<1>5. filesModified' \in BOOLEAN
  BY <1>1 DEF WatchInv, WatchTypeInv, Differs
<1>6. WatchTypeInv'
  <2>1. IsTimes(currState)' /\ IsTimes(prevModified)'
    BY <1>1, <1>2, <1>3, <1>4 DEF WatchInv, WatchTypeInv, IsTimes
  <2> QED BY <1>1, <1>5, <2>1 DEF WatchInv, WatchTypeInv, IsTimes
<1>7. TimesInv'
  BY <1>1, <1>2, <1>3, <1>4 DEF WatchInv, WatchTypeInv, TimesInv, Past, SourceFiles
<1>8. ~filesModified' => /\ ~filesModified
                         /\ disk[f] = ModTime(prevModified, f)
  BY <1>1 DEF Differs
<1>9. CycleInv'
  <2>1. \A g \in SourceFiles : ModTime(prevModified, g)' <= program[g]
    <3>1. \A g \in SourceFiles : ModTime(prevModified, g) <= program[g] /\ program[g] \in Nat
      BY <1>1 DEF WatchInv, WatchTypeInv, IsTimes, CycleInv, SourceFiles
    <3>2. \A g \in SourceFiles : ModTime(prevModified, g)' \in {ModTime(prevModified, g), 0}
      BY <1>4 DEF ModTime
    <3> QED BY <3>1, <3>2
  <2>2. configModified => filesModified'
    BY <1>1 DEF WatchInv, CycleInv
  <2>3. ~filesModified' => program[f] = disk[f]
    BY <1>2, <1>8
  <2>4. /\ unstated' \subseteq SourceFiles /\ DOMAIN currState' \subseteq SourceFiles \ unstated'
        /\ ~filesModified' => \A g \in DOMAIN currState' : program[g] = currState'[g]
    BY <1>1, <1>2, <1>3, <1>8, <2>3 DEF WatchInv, CycleInv
  <2> QED BY <1>1, <2>1, <2>2, <2>4 DEF CycleInv, SourceFiles
<1>10. EmittedInv'
  <2>1. ~filesModified' => \A g \in File : BaseTime(g)' = BaseTime(g)
    BY <1>1, <1>2, <1>3, <1>4, <1>8 DEF BaseTime, ModTime
  <2>2. Unmodified' => Unmodified /\ ~filesModified'
    BY <1>1, <1>8 DEF Unmodified
  <2> QED BY <1>1, <2>1, <2>2 DEF WatchInv, EmittedInv
<1>11. WrittenInv'
  BY <1>1 DEF WrittenInv
<1> QED BY <1>6, <1>7, <1>9, <1>10, <1>11 DEF WatchInv

\* The times are compared: the cycle builds, or sleeps and keeps what was emitted.
LEMMA EndStatKeeps ==
    ASSUME WatchInv, IInv, EndStat
    PROVE  WatchInv'
<1>1. /\ cycle = "stat" /\ unstated = {} /\ prevModified' = currState /\ configModified' = FALSE
      /\ UNCHANGED <<disk, config, edits, unread, unstated, currState, filesModified, options,
                     program, output>>
  BY DEF EndStat, diskVars, cycleVars, vars, inputVars, emitVars, Start
<1>2. TimesInv'
  BY <1>1 DEF WatchInv, TimesInv, Past, SourceFiles
<1>3. CASE Modified
  <2>1. /\ cycle' = "build" /\ missed' = EditedWhileLoaded /\ phase' = "syntactic"
        /\ stage' = [f \in File |-> "none"] /\ part' = [f \in File |-> "js"]
        /\ unwritten' = {}
    BY <1>3 DEF EndStat, Start
  <2>2. WatchTypeInv'
    <3>1. IsTimes(program)' /\ IsTimes(prevModified)' /\ IsTimes(currState)'
      BY <1>1 DEF WatchInv, WatchTypeInv, IsTimes
    <3>2. configModified' \in BOOLEAN /\ filesModified' \in BOOLEAN
      BY <1>1 DEF WatchInv, WatchTypeInv
    <3>3. part' \in [File -> Part] /\ cycle' \in {"build", "sleep"}
      BY <2>1 DEF Part
    <3> QED BY <1>1, <3>1, <3>2, <3>3 DEF WatchInv, WatchTypeInv
  <2>3. EmittedInv'
    BY <2>1 DEF EmittedInv, Unmodified
  <2>4. \A f \in SourceFiles : /\ program[f] # 0
                               /\ f \notin missed' => program[f] = ModTime(currState, f)
    <3>1. \A f \in SourceFiles : program[f] # 0
      BY DEF WatchInv, WatchTypeInv, IsTimes, SourceFiles
    <3>2. \A f \in SourceFiles : f \notin missed' => program[f] = ModTime(currState, f)
      BY <2>1 DEF EditedWhileLoaded
    <3> QED BY <3>1, <3>2
  <2>5. \A f \in SourceFiles \ missed' : f \in DOMAIN currState /\ program[f] = currState[f]
    BY <2>4 DEF ModTime
  <2>6. DOMAIN currState \subseteq SourceFiles
    BY <1>1 DEF WatchInv, CycleInv
  <2>7. CycleInv'
    BY <1>1, <2>1, <2>5, <2>6 DEF CycleInv, SourceFiles
  <2>8. WrittenInv'
    <3>1. \A f \in File : stage'[f] = "none" /\ part'[f] = "js"
      BY <2>1
    <3>2. SourceFiles' = SourceFiles /\ SourceFiles \subseteq File
      BY <1>1 DEF SourceFiles, IInv, TypeInv
    <3>3. \A f \in SourceFiles \ missed' : f \in DOMAIN currState'
      BY <1>1, <2>5
    <3> QED BY <2>1, <3>1, <3>2, <3>3 DEF WrittenInv
  <2> QED BY <1>2, <2>2, <2>3, <2>7, <2>8 DEF WatchInv
<1>4. CASE ~Modified
  <2>1. /\ cycle' = "sleep" /\ UNCHANGED <<missed, phase, stage, part, unwritten>>
        /\ ~filesModified /\ DOMAIN prevModified = {}
    BY <1>4 DEF EndStat, vars, inputVars, emitVars, Modified, Leftover, NoFiles
  <2>2. WatchTypeInv'
    BY <1>1, <2>1 DEF WatchInv, WatchTypeInv, IsTimes
  <2>3. ~configModified
    BY <1>1, <2>1 DEF WatchInv, CycleInv
  <2>4. \A f \in File : BaseTime(f)' = BaseTime(f)
    BY <1>1, <2>1 DEF BaseTime, ModTime
  <2>5. EmittedInv'
    BY <1>1, <2>1, <2>3, <2>4 DEF WatchInv, EmittedInv, Unmodified
  <2>6. CycleInv'
    BY <1>1, <2>1 DEF WatchInv, CycleInv, SourceFiles
  <2>7. WrittenInv'
    BY <2>1 DEF WrittenInv
  <2> QED BY <1>2, <2>2, <2>5, <2>6, <2>7 DEF WatchInv
<1> QED BY <1>3, <1>4

\* Compiled, the files are what the watcher compares with from now on.
LEMMA EndBuildKeeps ==
    ASSUME WatchInv, EndBuild \/ Wake
    PROVE  WatchInv'
<1>1. UNCHANGED <<disk, config, edits, unread, unstated, currState, filesModified, prevModified,
                  configModified, missed, options, program, phase, part, output, unwritten, stage>>
  BY DEF EndBuild, Wake, diskVars, cycleVars, vars, inputVars, emitVars
<1>2. TimesInv'
  BY <1>1 DEF WatchInv, TimesInv, Past, SourceFiles
<1>3. CASE EndBuild
  <2>1. cycle = "build" /\ cycle' = "sleep" /\ phase = "done"
    BY <1>3 DEF EndBuild
  <2>2. WatchTypeInv' /\ CycleInv' /\ WrittenInv'
    BY <1>1, <2>1 DEF WatchInv, WatchTypeInv, IsTimes, CycleInv, WrittenInv, SourceFiles
  <2>3. /\ prevModified = currState /\ DOMAIN currState \subseteq SourceFiles
        /\ \A f \in DOMAIN currState \ missed : program[f] = currState[f] /\ UpToDate(f)
        /\ \A f \in File \ missed : stage[f] # "none" => f \in DOMAIN currState
        /\ \A f \in DOMAIN currState : currState[f] # 0
    BY <2>1 DEF WatchInv, CycleInv, WrittenInv, WatchTypeInv, IsTimes
  <2>4. \A f \in File : BaseTime(f)' = IF f \in DOMAIN currState THEN currState[f] ELSE 0
    BY <1>1, <2>1, <2>3 DEF BaseTime, ModTime
  <2>5. EmittedInv'
    BY <1>1, <2>3, <2>4 DEF EmittedInv, UpToDate
  <2> QED BY <1>2, <2>2, <2>5 DEF WatchInv
<1>4. CASE Wake
  <2>1. cycle = "sleep" /\ cycle' = "config"
    BY <1>4 DEF Wake
  <2>2. WatchTypeInv' /\ CycleInv' /\ WrittenInv'
    BY <1>1, <2>1 DEF WatchInv, WatchTypeInv, IsTimes, CycleInv, WrittenInv, SourceFiles
  <2>3. EmittedInv'
    BY <1>1, <2>1 DEF WatchInv, EmittedInv, Unmodified, BaseTime, ModTime
  <2> QED BY <1>2, <2>2, <2>3 DEF WatchInv
<1> QED BY <1>3, <1>4

\* An emitter that ends has written the JavaScript of its file and, if they are wanted,
\* its declarations; a compilation ends when all emitters have.
LEMMA CompileKeeps ==
    ASSUME WatchInv, IInv, CompileAndEmit
    PROVE  WatchInv'
<1>1. /\ cycle = "build" /\ CompileStep
      /\ UNCHANGED <<disk, config, edits, cycle, unread, unstated, currState, filesModified,
                     prevModified, configModified, missed>>
  BY DEF CompileAndEmit, diskVars, watcherVars, cycleVars
<1>2. UNCHANGED <<options, program>>
  BY <1>1 DEF CompileStep, Main, GetSyntacticDiagnostics, GetGlobalDiagnostics, CheckSourceFiles,
     RunAndWait, GetSemanticDiagnostics, Emit, Report, CreateCheckers, BeginCheckers, NewChecker,
     EndCheckers, CheckSourceFile, Emitter, StartEmitter, GetEmitResolver, CheckForEmit, Ask, Answer,
     AskParameter, AnswerParameter, WriteFile, inputVars
<1>3. TimesInv' /\ EmittedInv' /\ CycleInv'
  BY <1>1, <1>2 DEF WatchInv, TimesInv, Past, SourceFiles, EmittedInv, Unmodified, CycleInv
<1>4. /\ WatchTypeInv /\ WrittenInv /\ SourceFiles \subseteq File
      /\ stage \in [File -> {"none", "queued", "resolve", "write", "end", "check"} \cup Asking]
  BY DEF WatchInv, IInv, TypeInv
<1>5. SourceFiles' = SourceFiles
  BY <1>2 DEF SourceFiles
<1>6. WatchTypeInv' /\ WrittenInv'
  <2>1. ASSUME UNCHANGED <<part, output, unwritten>>,
               \A f \in File : stage'[f] # "none" => f \in SourceFiles,
               \A f \in SourceFiles : stage'[f] = "end" => stage[f] = "end",
               phase' = "done" =>
                   phase = "done" \/ \A f \in SourceFilesToEmit : stage[f] = "end"
        PROVE  WatchTypeInv' /\ WrittenInv'
    BY <1>1, <1>2, <1>4, <1>5, <2>1 DEF WatchTypeInv, IsTimes, WrittenInv, UpToDate,
                                           SourceFilesToEmit
  <2>2. \A f \in File : stage[f] # "none" => f \in SourceFiles
    BY <1>1, <1>4 DEF WrittenInv
  <2>3. CASE Main
    <3>1. CASE Emit
      <4>1. /\ UNCHANGED <<part, output, unwritten>> /\ phase' = "emitting"
            /\ stage' = [f \in File |-> IF f \in SourceFilesToEmit THEN "queued" ELSE "none"]
        BY <3>1 DEF Emit, Continue
      <4>2. /\ \A f \in File : stage'[f] # "none" => f \in SourceFiles
            /\ \A f \in SourceFiles : stage'[f] # "end"
        BY <1>4, <4>1 DEF SourceFilesToEmit
      <4> QED BY <2>1, <4>1, <4>2
    <3>2. CASE Report
      <4>1. /\ UNCHANGED <<part, output, unwritten, stage>>
            /\ \A f \in SourceFilesToEmit : stage[f] = "end"
        BY <3>2 DEF Report, emitVars
      <4> QED BY <2>1, <2>2, <4>1
    <3>3. CASE ~Emit /\ ~Report
      <4>1. UNCHANGED <<part, output, unwritten, stage>> /\ phase' # "done"
        BY <2>3, <3>3 DEF Main, GetSyntacticDiagnostics, GetGlobalDiagnostics, CheckSourceFiles,
           RunAndWait, GetSemanticDiagnostics, Continue, emitVars
      <4> QED BY <2>1, <2>2, <4>1
    <3> QED BY <3>1, <3>2, <3>3
  <2>4. CASE CreateCheckers \/ \E c \in Checker : CheckSourceFile(c)
    <3>1. UNCHANGED <<part, output, unwritten, stage, phase>>
      BY <2>4 DEF CreateCheckers, BeginCheckers, NewChecker, EndCheckers, CheckSourceFile, emitVars
    <3> QED BY <2>1, <2>2, <3>1
  <2>5. ASSUME NEW f \in SourceFiles, GetEmitResolver(f) \/ CheckForEmit(f) \/ Ask(f) \/ Answer(f)
                                          \/ AskParameter(f) \/ AnswerParameter(f)
        PROVE  WatchTypeInv' /\ WrittenInv'
    <3>1. /\ UNCHANGED <<part, output, unwritten, phase>>
          /\ \E s \in {"check"} \cup Asking : stage' = [stage EXCEPT ![f] = s]
      BY <2>5 DEF GetEmitResolver, CheckForEmit, Ask, Answer, AskParameter, AnswerParameter, Step
    <3>2. /\ \A g \in File : stage'[g] # "none" => g \in SourceFiles
          /\ \A g \in SourceFiles : stage'[g] = "end" => stage[g] = "end"
      BY <1>4, <2>2, <3>1
    <3> QED BY <2>1, <3>1, <3>2
  <2>6. ASSUME NEW f \in SourceFiles, StartEmitter(f) \/ WriteFile(f)
        PROVE  WatchTypeInv' /\ WrittenInv'
    <3>1. /\ f \in File /\ program[f] \in Nat /\ part[f] \in Part
          /\ part \in [File -> Part] /\ output \in [Part -> [File -> Nat]]
          /\ options.outputs \in SUBSET Part
      BY <1>4 DEF WatchTypeInv, IsTimes, SourceFiles, IInv, TypeInv, Options
    <3>2. phase = "emitting" /\ phase' = phase
      BY <1>4, <2>6, <3>1 DEF StartEmitter, WriteFile, IInv, PhaseInv
    <3>3. /\ output' \in [Part -> [File -> Nat]] /\ unwritten \subseteq unwritten'
          /\ \A p \in Part, g \in File : g # f => output'[p][g] = output[p][g]
      <4>1. CASE StartEmitter(f)
        BY <3>1, <4>1 DEF StartEmitter
      <4>2. CASE output' = [output EXCEPT ![part[f]][f] = program[f]] /\ UNCHANGED unwritten
        BY <3>1, <4>2
      <4>3. CASE unwritten' = unwritten \cup {f} /\ UNCHANGED output
        BY <3>1, <4>3
      <4> QED BY <2>6, <4>1, <4>2, <4>3 DEF WriteFile
    <3>4. PICK left \in SUBSET Part :
              /\ MakeNext(f, left)
              /\ \A p \in options.outputs \ left :
                     f \notin unwritten' => output'[p][f] = program[f]
      <4>1. CASE StartEmitter(f)
        BY <3>1, <4>1 DEF StartEmitter
      <4>2. CASE WriteFile(f)
        <5>1. MakeNext(f, options.outputs \ {"js", part[f]})
          BY <4>2 DEF WriteFile
        <5>2. f \notin unwritten' => /\ output' = [output EXCEPT ![part[f]][f] = program[f]]
                                     /\ f \notin unwritten
          BY <4>2 DEF WriteFile
        <5>3. f \notin unwritten' => output'[part[f]][f] = program[f]
          BY <3>1, <5>2
        <5>4. /\ "js" \in options.outputs /\ part[f] # "js" /\ f \notin unwritten'
              => output'["js"][f] = program[f]
          <6>1. part[f] # "js" => part[f] = "dts"
            BY <3>1 DEF Part
          <6>2. part[f] # "js" /\ f \notin unwritten' => output'["js"][f] = output["js"][f]
            BY <3>1, <5>2 DEF Part
          <6> QED BY <1>1, <1>4, <5>2, <6>1, <6>2 DEF WrittenInv
        <5> QED BY <3>1, <5>1, <5>3, <5>4
      <4> QED BY <2>6, <4>1, <4>2
    <3>5. /\ part' \in [File -> Part]
          /\ \A g \in File : g # f => part'[g] = part[g] /\ stage'[g] = stage[g]
          /\ part'[f] = "dts" => left \in {{}, {"dts"}}
          /\ stage'[f] = "end" => left = {}
      <4>1. CASE Make(f, "js")
        BY <1>4, <3>1, <4>1 DEF Make, Part
      <4>2. CASE left = {"dts"} /\ Make(f, "dts")
        BY <1>4, <3>1, <4>2 DEF Make, Part
      <4>3. CASE left = {} /\ stage' = [stage EXCEPT ![f] = "end"] /\ UNCHANGED part
        BY <1>4, <3>1, <4>3
      <4> QED BY <3>4, <4>1, <4>2, <4>3 DEF MakeNext
    <3>6. WatchTypeInv'
      BY <1>1, <1>2, <1>4, <3>3, <3>5 DEF WatchTypeInv, IsTimes
    <3>7. ASSUME NEW g \in SourceFiles
          PROVE  /\ part'[g] = "dts" /\ "js" \in options.outputs /\ g \notin unwritten'
                        => output'["js"][g] = program[g]
                 /\ stage'[g] = "end" => UpToDate(g)'
      <4>1. CASE g = f
        BY <1>2, <3>4, <3>5, <4>1 DEF UpToDate
      <4>2. CASE g # f
        <5>1. /\ part[g] = "dts" /\ "js" \in options.outputs /\ g \notin unwritten
                     => output["js"][g] = program[g]
              /\ stage[g] = "end" => UpToDate(g)
          BY <1>1, <1>4 DEF WrittenInv
        <5>2. /\ part'[g] = part[g] /\ stage'[g] = stage[g]
              /\ \A p \in Part : output'[p][g] = output[p][g]
          BY <1>4, <3>3, <3>5, <4>2
        <5> QED BY <1>2, <3>1, <3>3, <5>1, <5>2 DEF UpToDate, Part
      <4> QED BY <4>1, <4>2
    <3>8. \A g \in File : stage'[g] # "none" => g \in SourceFiles
      BY <2>2, <3>5
    <3>9. WrittenInv'
      BY <1>1, <1>2, <1>4, <1>5, <3>2, <3>7, <3>8 DEF WrittenInv
    <3> QED BY <3>6, <3>9
  <2>7. ASSUME NEW f \in SourceFiles, Emitter(f) \/ AskParameter(f) \/ AnswerParameter(f)
        PROVE  WatchTypeInv' /\ WrittenInv'
    BY <2>5, <2>6, <2>7 DEF Emitter
  <2> QED BY <1>1, <2>3, <2>4, <2>7 DEF CompileStep
<1> QED BY <1>3, <1>6 DEF WatchInv

\* The memory of the watcher at first: nothing is built and nothing emitted.
LEMMA InitWatch == Init => WatchInv
<1> SUFFICES ASSUME Init PROVE WatchInv
  OBVIOUS
<1>1. /\ edits = 0 /\ disk = [f \in File |-> 1] /\ cycle = "config"
      /\ DOMAIN program = {} /\ DOMAIN prevModified = {} /\ DOMAIN currState = {}
      /\ prevModified = currState /\ unread = {} /\ unstated = {} /\ missed = {}
      /\ configModified = FALSE /\ filesModified = FALSE
      /\ stage = [f \in File |-> "none"] /\ part = [f \in File |-> "js"]
      /\ output = [p \in Part |-> [f \in File |-> 0]] /\ unwritten = {}
  BY DEF Init, Idle, NoFiles, NoOutput
<1>2. WatchTypeInv
  BY <1>1 DEF WatchTypeInv, IsTimes, Part
<1>3. TimesInv
  BY <1>1 DEF TimesInv, Past, SourceFiles
<1>4. EmittedInv /\ CycleInv /\ WrittenInv
  BY <1>1 DEF EmittedInv, Unmodified, BaseTime, ModTime, CycleInv, WrittenInv, SourceFiles
<1> QED BY <1>2, <1>3, <1>4 DEF WatchInv

\* No step makes the watcher take an old output for a current one.
LEMMA NextWatch == WatchInv /\ IInv /\ [Next]_watchVars => WatchInv'
<1> SUFFICES ASSUME WatchInv, IInv, [Next]_watchVars PROVE WatchInv'
  OBVIOUS
<1>1. CASE UNCHANGED watchVars
  <2>1. UNCHANGED <<disk, config, edits, cycle, unread, unstated, currState, filesModified,
                    prevModified, configModified, missed, options, program, phase, part, output, unwritten, stage>>
    BY <1>1 DEF watchVars, watcherVars, diskVars, cycleVars, vars, inputVars, emitVars
  <2>2. WatchTypeInv' /\ TimesInv'
    BY <2>1 DEF WatchInv, WatchTypeInv, IsTimes, TimesInv, Past, SourceFiles
  <2>3. EmittedInv' /\ CycleInv'
    BY <2>1 DEF WatchInv, EmittedInv, Unmodified, BaseTime, ModTime, CycleInv, SourceFiles
  <2>4. WrittenInv'
    BY <2>1 DEF WatchInv, WrittenInv, UpToDate, SourceFiles
  <2> QED BY <2>2, <2>3, <2>4 DEF WatchInv
<1>2. CASE Watcher
  BY <1>2, ReadConfigKeeps, LoadKeeps, LoadedKeeps, StatAbsentKeeps, StatKeeps, EndStatKeeps,
     EndBuildKeeps DEF Watcher
<1> QED BY <1>1, <1>2, EditKeeps, CompileKeeps DEF Next

\* A cycle of tsc --watch ends with every file that it has found compiled in the version
\* it has loaded, whatever was edited, deleted or restored in between, the config file
\* included: the cycle that compiles nothing has seen the times of the last build.
THEOREM NothingIsForgotten == Spec => []NothingIsLeftUncompiled
<1>1. WatchInv => NothingIsLeftUncompiled
  <2> SUFFICES ASSUME WatchInv, cycle = "sleep"
               PROVE  /\ \A f \in DOMAIN currState \ missed : UpToDate(f)
                      /\ \A f \in File \ missed : stage[f] # "none" => f \in SourceFiles
    BY DEF NothingIsLeftUncompiled
  <2>1. /\ prevModified = currState /\ DOMAIN currState \subseteq SourceFiles /\ ~configModified
        /\ \A f \in DOMAIN currState \ missed : program[f] = currState[f]
    BY DEF WatchInv, CycleInv
  <2>2. /\ DOMAIN currState \subseteq File
        /\ \A f \in DOMAIN currState : currState[f] # 0
    BY DEF WatchInv, WatchTypeInv, IsTimes
  <2>3. \A f \in File : BaseTime(f) = IF f \in DOMAIN currState THEN currState[f] ELSE 0
    BY <2>1 DEF BaseTime, ModTime
  <2> QED BY <2>1, <2>2, <2>3 DEF WatchInv, EmittedInv, Unmodified, UpToDate
<1>2. WatchInv /\ IInv /\ [Next]_watchVars => WatchInv' /\ IInv'
  BY NextWatch, NextInv
<1> QED BY <1>1, <1>2, InitWatch, InitInv, PTL DEF Spec
=============================================================================
