------------------------------ MODULE TscWatch ------------------------------
(***************************************************************************)
(* tsc --watch with a config file (internal/execute/watch.go, watcher.go): *)
(* a loop that in every cycle parses the config file, loads the program    *)
(* file by file, asks for the modification times of its files one by one   *)
(* and compiles it if something differs from the cycle before; while files *)
(* and config file are edited at any time.                                 *)
(*                                                                         *)
(* A version of a file is also its modification time.  The first cycle is  *)
(* what tsc does without --watch.                                          *)
(***************************************************************************)
EXTENDS Compile

CONSTANTS
    Parsed,                  \* options that config files have here
    NoConfig,                \* "no config file"
    Edited,                  \* files that are edited
    MaxEdits

ASSUME WatchAssumption ==
    /\ Parsed \subseteq Options
    /\ NoConfig \notin Options
    /\ Edited \subseteq File
    /\ MaxEdits \in Nat

VARIABLES
    disk,                    \* file -> its version; 0: there is none
    config,                  \* the options in the config file, or NoConfig
    edits,
    cycle,                   \* what the watcher does next
    unread, unstated,        \* files of the cycle yet to be loaded, to be asked about
    prevModified, currState, \* file -> modification time, of some files
    configModified, filesModified,
    missed                   \* files of the last build that were edited while it was
                             \* loaded (history)

diskVars == <<disk, config, edits>>
cycleVars == <<unread, unstated, currState, filesModified>>
watcherVars == <<cycle, cycleVars, prevModified, configModified, missed>>
watchVars == <<diskVars, watcherVars, vars>>

NoFiles == [f \in {} |-> 0]
With(g, f, v) == [x \in DOMAIN g \cup {f} |-> IF x = f THEN v ELSE g[x]]
Without(g, f) == [x \in DOMAIN g \ {f} |-> g[x]]
ModTime(g, f) == IF f \in DOMAIN g THEN g[f] ELSE 0

Init ==
    /\ Idle
    /\ options \in Parsed /\ config = options
    /\ program = NoFiles
    /\ disk = [f \in File |-> 1] /\ edits = 0
    /\ cycle = "config"
    /\ unread = {} /\ unstated = {}
    /\ prevModified = NoFiles /\ currState = NoFiles
    /\ configModified = FALSE /\ filesModified = FALSE
    /\ missed = {}

-----------------------------------------------------------------------------
(* Editors.  The compilation of a loaded program reads neither files nor   *)
(* config file: an edit during it is one after it.                         *)

Edits == edits < MaxEdits /\ cycle # "build" /\ edits' = edits + 1

EditFile(f) ==
    /\ Edits
    /\ disk' \in {[disk EXCEPT ![f] = edits + 2], [disk EXCEPT ![f] = 0]}
    /\ disk' # disk
    /\ UNCHANGED <<config, watcherVars, vars>>

EditConfig ==
    /\ Edits
    /\ config' \in (Parsed \cup {NoConfig}) \ {config}
    /\ UNCHANGED <<disk, watcherVars, vars>>

-----------------------------------------------------------------------------
(* doCycle.                                                                *)

ConfigModified == configModified \/ options # config

\* hasErrorsInTsConfig: without config file nothing is compiled.
ReadConfig ==
    /\ cycle = "config"
    /\ IF config = NoConfig
       THEN cycle' = "sleep" /\ UNCHANGED <<options, program, unread, configModified>>
       ELSE /\ cycle' = "load"
            /\ configModified' = ConfigModified
            /\ options' = config
            /\ program' = NoFiles
            /\ unread' = {f \in File : disk[f] # 0}
    /\ UNCHANGED <<diskVars, unstated, currState, filesModified, prevModified, missed>>
    /\ UNCHANGED <<errors, phase, checkVars, emitVars>>

\* NewProgramFromParsedCommandLine.
Load(f) ==
    /\ cycle = "load" /\ f \in unread
    /\ unread' = unread \ {f}
    /\ program' = IF disk[f] = 0 THEN program ELSE With(program, f, disk[f])
    /\ UNCHANGED <<diskVars, cycle, unstated, currState, filesModified>>
    /\ UNCHANGED <<prevModified, configModified, missed>>
    /\ UNCHANGED <<options, errors, phase, checkVars, emitVars>>

Loaded ==
    /\ cycle = "load" /\ unread = {}
    /\ cycle' = "stat"
    /\ unstated' = SourceFiles
    /\ currState' = NoFiles /\ filesModified' = configModified
    /\ UNCHANGED <<diskVars, unread, prevModified, configModified, missed, vars>>

\* hasBeenModified: a file that has gone is skipped ...
NextToStat(f) == cycle = "stat" /\ f \in unstated /\ \A g \in unstated : f <= g

StatAbsent(f) ==
    /\ NextToStat(f) /\ disk[f] = 0
    /\ unstated' = unstated \ {f}
    /\ UNCHANGED <<diskVars, cycle, unread, currState, filesModified>>
    /\ UNCHANGED <<prevModified, configModified, missed, vars>>

Differs_ifKnown(f) == f \in DOMAIN prevModified /\ disk[f] # prevModified[f]

Differs(f) == disk[f] # ModTime(prevModified, f)

Stat(f) ==
    /\ NextToStat(f) /\ disk[f] # 0
    /\ unstated' = unstated \ {f}
    /\ currState' = With(currState, f, disk[f])
    /\ filesModified' = (filesModified \/ Differs(f))
    /\ prevModified' = IF filesModified THEN prevModified ELSE Without(prevModified, f)
    /\ UNCHANGED <<diskVars, cycle, unread, configModified, missed, vars>>

\* ... and one that is left over was deleted.
Leftover_no == FALSE

Leftover == prevModified # NoFiles

Modified == filesModified \/ Leftover

EditedWhileLoaded == {f \in SourceFiles : program[f] # ModTime(currState, f)}

EndStat ==
    /\ cycle = "stat" /\ unstated = {}
    /\ prevModified' = currState
    /\ configModified' = FALSE
    /\ IF Modified
       THEN cycle' = "build" /\ missed' = EditedWhileLoaded /\ Start
       ELSE cycle' = "sleep" /\ UNCHANGED <<missed, vars>>
    /\ UNCHANGED <<diskVars, cycleVars>>

\* compileAndEmit
CompileAndEmit ==
    /\ cycle = "build" /\ CompileStep
    /\ UNCHANGED <<diskVars, watcherVars>>

EndBuild ==
    /\ cycle = "build" /\ phase = "done"
    /\ cycle' = "sleep"
    /\ UNCHANGED <<diskVars, cycleVars, prevModified, configModified, missed, vars>>

Wake ==
    /\ cycle = "sleep" /\ cycle' = "config"
    /\ UNCHANGED <<diskVars, cycleVars, prevModified, configModified, missed, vars>>

-----------------------------------------------------------------------------
Watcher ==
    \/ ReadConfig \/ Loaded \/ EndStat \/ EndBuild \/ Wake
    \/ \E f \in File : Load(f) \/ StatAbsent(f) \/ Stat(f)

Next == (\E f \in Edited : EditFile(f)) \/ EditConfig \/ Watcher \/ CompileAndEmit

InBuild(A) == cycle = "build" /\ A /\ UNCHANGED <<diskVars, watcherVars>>

\* The watcher's loop and the goroutines of a compilation go on running, a lock lets
\* nobody wait for ever and a parameter is asked about finitely often.
Spec ==
    /\ Init /\ [][Next]_watchVars
    /\ WF_watchVars(Watcher)
    /\ WF_watchVars(InBuild(Main)) /\ WF_watchVars(InBuild(CreateCheckers))
    /\ WF_watchVars(InBuild(\E c \in Checker : CheckSourceFile(c)))
    /\ \A f \in File :
           /\ SF_watchVars(InBuild(f \in SourceFiles /\ Emitter(f)))
           /\ WF_watchVars(InBuild(f \in SourceFiles /\ AnswerParameter(f)))

-----------------------------------------------------------------------------
UpToDate(f) ==
    f \in Emittable \ unwritten => \A p \in options.outputs : output[p][f] = program[f]

\* A cycle ends, compiling or not, with every file it found compiled with its options
\* in the version it has loaded and with no file left in the compilation that it has
\* not loaded; but for files that were edited while their build was loaded and files
\* whose output their build could not write, which no later cycle tries again.
NothingIsLeftUncompiled ==
    cycle = "sleep" /\ config # NoConfig =>
        /\ \A f \in DOMAIN currState \ missed : UpToDate(f)
        /\ \A f \in File \ missed : stage[f] # "none" => f \in SourceFiles

\* Edits reach the output: cycles end, no goroutine of a compilation waits for ever for
\* the checkers or the lock of one, and again and again every file is compiled in the
\* version it has, the last one when the edits are over; but for files whose edit fell
\* between their loading and the look at their time or whose output could not be written,
\* and as long as there is a config file.
EditsAreCompiled ==
    []<>(/\ cycle = "sleep"
         /\ config = NoConfig
                \/ \A f \in Emittable \ (missed \cup unwritten), p \in options.outputs :
                     disk[f] # 0 => output[p][f] = disk[f])

\* "deleted files are handled outside of this loop" (watcher.go): a file that is gone
\* for good is not in the program of the last compilation for ever.
DeletedFilesAreHandled ==
    \A f \in File : disk[f] = 0 ~> disk[f] # 0 \/ stage[f] = "none" \/ config = NoConfig
=============================================================================
