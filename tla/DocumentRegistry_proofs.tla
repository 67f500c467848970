----------------------- MODULE DocumentRegistry_proofs -----------------------
(***************************************************************************)
(* Proofs about the registry of documents, for any projects, files, paths, *)
(* options and entries.                                                    *)
(*                                                                         *)
(* Nothing is assumed of the schedule: the updates of the projects, the    *)
(* tasks of an update and the editor interleave in any way.  What is said  *)
(* of the counts holds until one of the three things of Upsets happens.    *)
(***************************************************************************)
EXTENDS DocumentRegistry, FiniteSetTheorems, TLAPS

Acquiring == {"text", "load", "store", "compare", "replace", "lock", "count", "counted"}

\* The task has an entry in hand: to count in, or to count out.
Entering == {"compare", "replace", "lock", "count", "counted"}
Leaving == {"releasing", "released"}

Releasing == {"dropped", "release"} \cup Leaving

(***************************************************************************)
(* The types and the texts.                                                *)
(***************************************************************************)

\* Between the two halves of an edit the text is one ahead of its version.
TextLeads ==
    \A q \in Path :
        /\ script[q].text = script[q].version + IF q \in editing THEN 1 ELSE 0
        /\ q \in editing => script[q].version < MaxVersion

\* What a task has in hand at each stage.
TasksAreSet ==
    \A p \in Project : \A f \in File :
        /\ task[p][f].pc \in Acquiring => task[p][f].key \in Key
        /\ task[p][f].pc \in Entering \cup Leaving => task[p][f].entry \in Entry
        /\ task[p][f].pc \in Releasing => task[p][f].old \in Doc

\* The same of what the tasks have read, and of what was parsed from it.
TextsAreNew ==
    /\ \A e \in Entry : entries[e].text >= entries[e].version
    /\ \A p \in Project : \A f \in File :
           /\ task[p][f].pc = "text" => task[p][f].version <= script[PathOf[f]].version
           /\ task[p][f].pc \in {"load", "store", "compare", "replace", "lock"}
                  => task[p][f].text >= task[p][f].version

TInv == StateOK /\ TextLeads /\ TasksAreSet /\ TextsAreNew /\ TextAsNewAsVersion

(***************************************************************************)
(* The counts, as long as nothing has upset them.                          *)
(***************************************************************************)

\* A project that does not update has no tasks.
Resting == \A p \in Project : phase[p] = "idle" => Quiet(p)

\* What the task for file f of project p does in each phase of the update.
PhaseFits(p, f) ==
    /\ task[p][f].pc = "dropped" => phase[p] = "drop"
    /\ phase[p] = "drop" => task[p][f].pc \in {"idle"} \cup Releasing
    /\ task[p][f].pc \in {"version"} \cup Acquiring => building[p][f] = NoDoc
    /\ phase[p] # "drop" /\ task[p][f].pc \in Releasing => building[p][f] # NoDoc
    /\ phase[p] = "drop" => building[p][f] = program[p][f]
    /\ phase[p] = "drop" /\ task[p][f].pc \in Releasing => program[p][f] = NoDoc
    /\ phase[p] = "replace" /\ (building[p][f] # NoDoc \/ task[p][f].pc # "idle")
           => program[p][f] # NoDoc

\* The keys of the documents that the task and the programs have in hand.
KeyFits(p, f) ==
    /\ program[p][f] # NoDoc => program[p][f].key[1] = PathOf[f]
    /\ program[p][f] # NoDoc /\ phase[p] \in {"idle", "replace", "drop"}
           => program[p][f].key = PathKey(p, f)
    /\ building[p][f] # NoDoc /\ phase[p] \in {"rebuild", "replace"}
           => building[p][f].key = PathKey(p, f)
    /\ task[p][f].pc \in Acquiring
           => task[p][f].key = PathKey(p, f) /\ task[p][f].old = program[p][f]
    /\ task[p][f].pc \in Releasing
           => IF phase[p] = "drop" THEN task[p][f].old.key[1] = PathOf[f]
              ELSE task[p][f].old = program[p][f]

\* The entry that the task has in hand is that of its key, and as the task saw it.
EntryFits(p, f) ==
    /\ task[p][f].pc \in Entering => task[p][f].entry = documents[task[p][f].key]
    /\ task[p][f].pc \in Leaving => task[p][f].entry = documents[task[p][f].old.key]
    /\ task[p][f].pc \in {"counted", "released"}
           => task[p][f].count = entries[task[p][f].entry].refs

Fits(p, f) == PhaseFits(p, f) /\ KeyFits(p, f) /\ EntryFits(p, f)

\* Every key has an entry of its own.
EntriesApart ==
    \A k, l \in Key : documents[k] = documents[l] /\ documents[k] # NoEntry => k = l

\* The document that project p counts for file f ...
Main(p, f) ==
    IF phase[p] = "drop" /\ task[p][f].pc \in Releasing THEN task[p][f].old
    ELSE IF phase[p] \in {"rebuild", "replace"} /\ building[p][f] # NoDoc THEN building[p][f]
    ELSE program[p][f]

\* ... and the one that it counts still, until the task has released it.
Extra(p, f) ==
    IF phase[p] # "drop" /\ task[p][f].pc \in Releasing THEN task[p][f].old ELSE NoDoc

Of(d, k) == d # NoDoc /\ d.key = k

MainHolders(k) == {w \in Worker : Of(Main(w[1], w[2]), k)}
ExtraHolders(k) == {w \in Worker : Of(Extra(w[1], w[2]), k)}

Total(k) == Cardinality(MainHolders(k)) + Cardinality(ExtraHolders(k))

\* The task is about to count itself in with the entry of k.
Counts(p, f, k) == task[p][f].pc \in {"lock", "count", "counted"} /\ task[p][f].key = k

\* The count is right, and an entry that counts nobody is about to count its first.
CountFits(k) ==
    IF documents[k] = NoEntry THEN Total(k) = 0
    ELSE /\ entries[documents[k]].refs = Total(k)
         /\ Total(k) = 0 => \E p \in Project : \E f \in File : Counts(p, f, k)

CountsAddUp == \A k \in Key : CountFits(k)

SInv ==
    /\ TInv
    /\ ~Upsets
    /\ Resting
    /\ EntriesApart
    /\ \A p \in Project : \A f \in File : Fits(p, f)
    /\ CountsAddUp

IInv == TInv /\ (~upset => SInv)

-----------------------------------------------------------------------------
(***************************************************************************)
(* One task takes a step.                                                  *)
(***************************************************************************)

TaskRecord ==
    [pc : Pc, key : Key \cup {NoDoc}, old : Doc \cup {NoDoc}, version : Version, text : Version,
     entry : Entry \cup {NoEntry}, count : Int]

EntryRecord == [version : Version, text : Version, refs : Int, lock : Worker \cup {Nobody}]

\* The absence of a document is no document, that of an entry no entry.
LEMMA Distinct == NoDoc \notin Doc /\ NoEntry \notin Entry
<1> QED
    BY RegistryAssumption DEF Doc, Key, Version

\* Set changes the task of one file of one project.
LEMMA OneTask ==
    ASSUME StateOK, NEW p \in Project, NEW f \in File, NEW t \in TaskRecord, Set(p, f, t)
    PROVE  /\ task' \in [Project -> [File -> TaskRecord]]
           /\ task'[p][f] = t
           /\ \A q \in Project : \A g \in File : q # p \/ g # f => task'[q][g] = task[q][g]
<1>1. task \in [Project -> [File -> TaskRecord]]
    BY DEF StateOK, TaskRecord
<1> HIDE DEF TaskRecord
<1>2. task' = [task EXCEPT ![p] = [task[p] EXCEPT ![f] = t]] /\ task[p] \in [File -> TaskRecord]
    BY <1>1 DEF Set
<1>3. [task[p] EXCEPT ![f] = t] \in [File -> TaskRecord]
    BY <1>2
<1>4. task' \in [Project -> [File -> TaskRecord]]
    BY <1>1, <1>2, <1>3
<1>5. task'[p] = [task[p] EXCEPT ![f] = t] /\ \A q \in Project : q # p => task'[q] = task[q]
    BY <1>1, <1>2
<1>6. task'[p][f] = t /\ \A g \in File : g # f => task'[p][g] = task[p][g]
    BY <1>2, <1>5
<1>7. QED
    BY <1>4, <1>5, <1>6

\* The types of what a worker has in hand.
LEMMA TaskOf ==
    ASSUME StateOK, NEW p \in Project, NEW f \in File
    PROVE  /\ task[p][f] \in TaskRecord
           /\ program[p][f] \in Doc \cup {NoDoc} /\ building[p][f] \in Doc \cup {NoDoc}
           /\ PathOf[f] \in Path /\ PathKey(p, f) \in Key
<1> QED
    BY RegistryAssumption DEF StateOK, TaskRecord, PathKey, Key

\* The type of the old document of a file.
LEMMA OldDocType ==
    ASSUME StateOK, NEW p \in Project, NEW f \in File
    PROVE  OldDoc(p, f) \in Doc \cup {NoDoc}
<1> DEFINE held == {program[p][g] : g \in {g \in File : PathOf[g] = PathOf[f]}} \ {NoDoc}
<1>1. held \subseteq Doc
    BY TaskOf
<1>2. OldDoc(p, f) = IF held = {} THEN NoDoc ELSE CHOOSE d \in held : TRUE
    BY DEF OldDoc
<1> HIDE DEF held
<1>3. held # {} => (CHOOSE d \in held : TRUE) \in held
    OBVIOUS
<1>4. QED
    BY <1>1, <1>2, <1>3

\* What a step of a task must keep of what it has in hand.
TaskIsSet(t) ==
    /\ t.pc \in Acquiring => t.key \in Key
    /\ t.pc \in Entering \cup Leaving => t.entry \in Entry
    /\ t.pc \in Releasing => t.old \in Doc

\* What it takes of the next record of a task to keep the types and the texts.
LEMMA AfterTask ==
    ASSUME TInv, NEW p \in Project, NEW f \in File, NEW t \in TaskRecord, Set(p, f, t),
           TaskIsSet(t),
           t.pc = "text" => t.version <= script[PathOf[f]].version,
           t.pc \in {"load", "store", "compare", "replace", "lock"} => t.text >= t.version,
           UNCHANGED <<scriptVars, options, program, phase>>,
           documents' \in [Key -> Entry \cup {NoEntry}],
           entries' \in [Entry -> EntryRecord],
           \A e \in Entry : entries'[e].text >= entries'[e].version,
           building' \in [Project -> [File -> Doc \cup {NoDoc}]],
           \A q \in Project : \A g \in File :
               building'[q][g] # NoDoc => building'[q][g].text >= building'[q][g].version
    PROVE  TInv'
<1>1. /\ task' \in [Project -> [File -> TaskRecord]]
      /\ task'[p][f] = t
      /\ \A q \in Project : \A g \in File : q # p \/ g # f => task'[q][g] = task[q][g]
    BY OneTask DEF TInv
<1>2. UNCHANGED <<script, editing, options, program, phase>>
    BY DEF scriptVars
<1>3. StateOK'
    BY <1>1, <1>2 DEF TInv, StateOK, TaskRecord, EntryRecord
<1>4. TextLeads'
    BY <1>2 DEF TInv, TextLeads
<1>5. TasksAreSet'
    BY <1>1 DEF TInv, TasksAreSet, TaskIsSet
<1>6. TextsAreNew'
  <2> SUFFICES ASSUME NEW q \in Project, NEW g \in File
               PROVE  /\ task'[q][g].pc = "text" => task'[q][g].version <= script[PathOf[g]].version
                      /\ task'[q][g].pc \in {"load", "store", "compare", "replace", "lock"}
                             => task'[q][g].text >= task'[q][g].version
      BY <1>2 DEF TextsAreNew
  <2>1. CASE q = p /\ g = f
      BY <1>1, <2>1
  <2>2. CASE q # p \/ g # f
      BY <1>1, <2>2 DEF TInv, TextsAreNew
  <2>3. QED
      BY <2>1, <2>2
<1>7. TextAsNewAsVersion'
    BY DEF TextAsNewAsVersion
<1>8. QED
    BY <1>3, <1>4, <1>5, <1>6, <1>7 DEF TInv

\* A step that touches no memory but the task's own.
LEMMA AfterTaskAlone ==
    ASSUME TInv, NEW p \in Project, NEW f \in File, NEW t \in TaskRecord, Set(p, f, t),
           TaskIsSet(t),
           t.pc = "text" => t.version <= script[PathOf[f]].version,
           t.pc \in {"load", "store", "compare", "replace", "lock"} => t.text >= t.version,
           UNCHANGED <<registryVars, scriptVars, projectVars>>
    PROVE  TInv'
<1>1. UNCHANGED <<documents, entries, options, program, phase, building>>
    BY DEF registryVars, projectVars
<1>2. /\ documents' \in [Key -> Entry \cup {NoEntry}]
      /\ entries' \in [Entry -> EntryRecord]
      /\ building' \in [Project -> [File -> Doc \cup {NoDoc}]]
    BY <1>1 DEF TInv, StateOK, EntryRecord
<1>3. /\ \A e \in Entry : entries'[e].text >= entries'[e].version
      /\ \A q \in Project : \A g \in File :
             building'[q][g] # NoDoc => building'[q][g].text >= building'[q][g].version
    BY <1>1 DEF TInv, TextsAreNew, TextAsNewAsVersion
<1>4. QED
    BY <1>1, <1>2, <1>3, AfterTask

\* The versions and texts that a worker deals with are numbers, in the order stated.
LEMMA TextsOfTasks ==
    ASSUME TInv, NEW p \in Project, NEW f \in File
    PROVE  /\ script[PathOf[f]] \in [version : Version, text : Version]
           /\ script[PathOf[f]].version \in Int /\ script[PathOf[f]].text \in Int
           /\ script[PathOf[f]].text >= script[PathOf[f]].version
           /\ task[p][f].version \in Int /\ task[p][f].text \in Int
<1>1. PathOf[f] \in Path /\ task[p][f] \in TaskRecord
    BY TaskOf DEF TInv
<1>2. script[PathOf[f]] \in [version : Version, text : Version]
    BY <1>1 DEF TInv, StateOK
<1>3. Version \subseteq Int
    BY RegistryAssumption DEF Version
<1>4. script[PathOf[f]].version \in Int /\ script[PathOf[f]].text \in Int
    BY <1>2, <1>3
<1>5. script[PathOf[f]].text >= script[PathOf[f]].version
    BY <1>1, <1>4 DEF TInv, TextLeads
<1>6. QED
    BY <1>1, <1>2, <1>3, <1>4, <1>5 DEF TaskRecord

\* Reading the script info and the map.
LEMMA AfterRead ==
    ASSUME TInv, NEW p \in Project, NEW f \in File,
           ReadVersion(p, f) \/ ReadText(p, f) \/ LoadEntry(p, f)
    PROVE  TInv'
<1> DEFINE t == task[p][f]
           s == script[PathOf[f]]
<1>1. /\ t \in TaskRecord /\ PathKey(p, f) \in Key /\ OldDoc(p, f) \in Doc \cup {NoDoc}
      /\ s.version \in Version /\ s.text \in Version
      /\ s.version \in Int /\ s.text \in Int /\ s.text >= s.version
      /\ t.version \in Int /\ t.text \in Int
    BY TextsOfTasks, TaskOf, OldDocType DEF TInv
<1>2. CASE ReadVersion(p, f)
  <2> DEFINE u == [t EXCEPT !.pc = "text", !.version = s.version,
                            !.key = PathKey(p, f), !.old = OldDoc(p, f)]
  <2>1. Set(p, f, u) /\ UNCHANGED <<registryVars, scriptVars, projectVars>>
      BY <1>2 DEF ReadVersion
  <2>2. u \in TaskRecord /\ u.pc = "text" /\ u.key \in Key /\ u.version = s.version
      BY <1>1 DEF TaskRecord, Pc
  <2> HIDE DEF u
  <2>3. TaskIsSet(u)
      BY <2>2 DEF TaskIsSet, Acquiring, Entering, Leaving, Releasing
  <2>4. QED
      BY <1>1, <2>1, <2>2, <2>3, AfterTaskAlone
<1>3. CASE ReadText(p, f)
  <2> DEFINE u == [t EXCEPT !.pc = "load", !.text = s.text]
  <2>1. /\ t.pc = "text" /\ Set(p, f, u)
        /\ UNCHANGED <<registryVars, scriptVars, projectVars>>
      BY <1>3 DEF ReadText, At
  <2>2. /\ u \in TaskRecord /\ u.pc = "load" /\ u.version = t.version /\ u.text = s.text
        /\ u.key = t.key
      BY <1>1 DEF TaskRecord, Pc
  <2>3. t.key \in Key /\ t.version <= s.version
      BY <2>1 DEF TInv, TasksAreSet, TextsAreNew, Acquiring
  <2> HIDE DEF u
  <2>4. TaskIsSet(u)
      BY <2>2, <2>3 DEF TaskIsSet, Acquiring, Entering, Leaving, Releasing
  <2>5. u.text >= u.version
      BY <1>1, <2>2, <2>3
  <2>6. QED
      BY <2>1, <2>2, <2>4, <2>5, AfterTaskAlone
<1>4. CASE LoadEntry(p, f)
  <2> DEFINE e == documents[t.key]
             to == IF e = NoEntry THEN "store" ELSE "compare"
             u == [t EXCEPT !.pc = to, !.entry = e]
  <2>1. /\ t.pc = "load" /\ Set(p, f, u)
        /\ UNCHANGED <<registryVars, scriptVars, projectVars>>
      BY <1>4 DEF LoadEntry, At
  <2>2. t.key \in Key /\ t.text >= t.version
      BY <2>1 DEF TInv, TasksAreSet, TextsAreNew, Acquiring
  <2>3. e \in Entry \cup {NoEntry}
      BY <2>2 DEF TInv, StateOK
  <2>4. to \in {"store", "compare"} /\ (to = "compare" => e # NoEntry)
      OBVIOUS
  <2> HIDE DEF e, to
  <2>5. /\ u \in TaskRecord /\ u.pc = to /\ u.version = t.version /\ u.text = t.text
        /\ u.key = t.key /\ u.entry = e
      BY <1>1, <2>3, <2>4 DEF TaskRecord, Pc
  <2> HIDE DEF u
  <2>6. TaskIsSet(u)
      BY <2>2, <2>3, <2>4, <2>5 DEF TaskIsSet, Acquiring, Entering, Leaving, Releasing
  <2>7. QED
      BY <2>1, <2>2, <2>4, <2>5, <2>6, AfterTaskAlone
<1>5. QED
    BY <1>2, <1>3, <1>4

\* Storing a new entry, and comparing versions.
LEMMA AfterStoreOrCompare ==
    ASSUME TInv, NEW p \in Project, NEW f \in File, StoreEntry(p, f) \/ CompareVersion(p, f)
    PROVE  TInv'
<1> DEFINE t == task[p][f]
<1>1. /\ t \in TaskRecord /\ t.pc \in {"store", "compare"} /\ t.key \in Key
      /\ t.text >= t.version /\ t.version \in Int /\ t.text \in Int
      /\ t.pc = "compare" => t.entry \in Entry
  <2>1. t \in TaskRecord /\ t.pc \in {"store", "compare"}
      BY TaskOf DEF TInv, StoreEntry, CompareVersion, At
  <2>2. QED
      BY <2>1, TextsOfTasks DEF TInv, TasksAreSet, TextsAreNew, Acquiring, Entering
<1>2. ASSUME StoreEntry(p, f), NEW e \in Entry, Set(p, f, [t EXCEPT !.pc = "lock", !.entry = e]),
             documents' \in [Key -> Entry \cup {NoEntry}],
             entries' \in [Entry -> EntryRecord],
             \A g \in Entry : entries'[g].text >= entries'[g].version
      PROVE  TInv'
  <2> DEFINE u == [t EXCEPT !.pc = "lock", !.entry = e]
  <2>1. UNCHANGED <<scriptVars, options, program, building, phase>>
      BY <1>2 DEF StoreEntry, projectVars
  <2>2. /\ u \in TaskRecord /\ u.pc = "lock" /\ u.version = t.version /\ u.text = t.text
        /\ u.key = t.key /\ u.entry = e
      BY <1>1 DEF TaskRecord, Pc
  <2>3. Set(p, f, u)
      BY <1>2
  <2> HIDE DEF u
  <2>4. TaskIsSet(u)
      BY <1>1, <2>2 DEF TaskIsSet, Acquiring, Entering, Leaving, Releasing
  <2>5. /\ building' \in [Project -> [File -> Doc \cup {NoDoc}]]
        /\ \A q \in Project : \A g \in File :
               building'[q][g] # NoDoc => building'[q][g].text >= building'[q][g].version
      BY <2>1 DEF TInv, StateOK, TextAsNewAsVersion
  <2>6. QED
      BY <1>1, <1>2, <2>1, <2>2, <2>3, <2>4, <2>5, AfterTask
<1>3. ASSUME StoreEntry(p, f), documents[t.key] # NoEntry,
             Set(p, f, [t EXCEPT !.pc = "lock", !.entry = documents[t.key]]),
             UNCHANGED registryVars
      PROVE  TInv'
  <2>1. documents[t.key] \in Entry /\ UNCHANGED <<documents, entries>>
      BY <1>1, <1>3 DEF TInv, StateOK, registryVars
  <2>2. /\ documents' \in [Key -> Entry \cup {NoEntry}]
        /\ entries' \in [Entry -> EntryRecord]
        /\ \A g \in Entry : entries'[g].text >= entries'[g].version
      BY <2>1 DEF TInv, StateOK, EntryRecord, TextsAreNew
  <2>3. QED
      BY <1>2, <1>3, <2>1, <2>2
<1>4. ASSUME StoreEntry(p, f), NEW e \in Entry,
             documents' = [documents EXCEPT ![t.key] = e],
             entries' = [entries EXCEPT ![e] =
                [version |-> t.version, text |-> t.text, refs |-> 0, lock |-> Nobody]],
             Set(p, f, [t EXCEPT !.pc = "lock", !.entry = e])
      PROVE  TInv'
  <2> DEFINE new == [version |-> t.version, text |-> t.text, refs |-> 0, lock |-> Nobody]
  <2>1. new \in EntryRecord /\ new.text >= new.version
      BY <1>1 DEF EntryRecord, TaskRecord
  <2>2. entries \in [Entry -> EntryRecord]
      BY DEF TInv, StateOK, EntryRecord
  <2> HIDE DEF new
  <2>3. entries' = [entries EXCEPT ![e] = new]
      BY <1>4 DEF new
  <2>4. /\ entries' \in [Entry -> EntryRecord] /\ entries'[e] = new
        /\ \A g \in Entry : g # e => entries'[g] = entries[g]
      BY <2>1, <2>2, <2>3
  <2>5. \A g \in Entry : entries'[g].text >= entries'[g].version
      BY <2>1, <2>4 DEF TInv, TextsAreNew
  <2>6. documents' \in [Key -> Entry \cup {NoEntry}]
      BY <1>1, <1>4 DEF TInv, StateOK
  <2>7. QED
      BY <1>2, <1>4, <2>4, <2>5, <2>6
<1>5. CASE StoreEntry(p, f)
    BY <1>3, <1>4, <1>5 DEF StoreEntry
<1>6. CASE CompareVersion(p, f)
  <2> DEFINE to == IF entries[t.entry].version # t.version THEN "replace" ELSE "count"
             u == [t EXCEPT !.pc = to]
  <2>1. /\ t.pc = "compare" /\ Set(p, f, u)
        /\ UNCHANGED <<registryVars, scriptVars, projectVars>>
      BY <1>6 DEF CompareVersion, At
  <2>2. to \in {"replace", "count"}
      OBVIOUS
  <2> HIDE DEF to
  <2>3. /\ u \in TaskRecord /\ u.pc = to /\ u.version = t.version /\ u.text = t.text
        /\ u.key = t.key /\ u.entry = t.entry
      BY <1>1, <2>2 DEF TaskRecord, Pc
  <2> HIDE DEF u
  <2>4. TaskIsSet(u)
      BY <1>1, <2>1, <2>2, <2>3 DEF TaskIsSet, Acquiring, Entering, Leaving, Releasing
  <2>5. QED
      BY <1>1, <2>1, <2>2, <2>3, <2>4, AfterTaskAlone
<1>7. QED
    BY <1>5, <1>6

\* Counting in.
LEMMA AfterCount ==
    ASSUME TInv, NEW p \in Project, NEW f \in File,
           LockEntry(p, f) \/ ReadCount(p, f) \/ WriteCount(p, f)
    PROVE  TInv'
<1> DEFINE t == task[p][f]
           e == entries[t.entry]
<1>1. /\ t \in TaskRecord /\ t.pc \in {"replace", "lock", "count", "counted"}
      /\ t.key \in Key /\ t.entry \in Entry /\ t.version \in Int /\ t.text \in Int
      /\ e \in EntryRecord /\ e.text >= e.version
      /\ entries \in [Entry -> EntryRecord]
      /\ t.pc \in {"replace", "lock"} => t.text >= t.version
  <2>1. t \in TaskRecord /\ t.pc \in {"replace", "lock", "count", "counted"}
      BY TaskOf DEF TInv, LockEntry, ReadCount, WriteCount, At
  <2>2. t.key \in Key /\ t.entry \in Entry /\ entries \in [Entry -> EntryRecord]
      BY <2>1 DEF TInv, StateOK, EntryRecord, TasksAreSet, Acquiring, Entering
  <2>3. e \in EntryRecord /\ e.text >= e.version
      BY <2>2 DEF TInv, TextsAreNew
  <2>4. t.pc \in {"replace", "lock"} => t.text >= t.version
      BY DEF TInv, TextsAreNew
  <2>5. QED
      BY <2>1, <2>2, <2>3, <2>4, TextsOfTasks
<1>2. ASSUME NEW new \in EntryRecord, entries' = [entries EXCEPT ![t.entry] = new],
             new.text >= new.version
      PROVE  /\ entries' \in [Entry -> EntryRecord]
             /\ \A g \in Entry : entries'[g].text >= entries'[g].version
    BY <1>1, <1>2 DEF TInv, TextsAreNew
<1>3. CASE LockEntry(p, f)
  <2> DEFINE new == IF t.pc = "lock" THEN [e EXCEPT !.lock = <<p, f>>]
                    ELSE [e EXCEPT !.lock = <<p, f>>, !.version = t.version, !.text = t.text]
             u == [t EXCEPT !.pc = "count"]
  <2>1. /\ t.pc \in {"replace", "lock"} /\ Set(p, f, u)
        /\ entries' = [entries EXCEPT ![t.entry] = new]
        /\ UNCHANGED <<documents, scriptVars, projectVars>>
      BY <1>1, <1>3 DEF LockEntry
  <2>2. <<p, f>> \in Worker
      BY DEF Worker
  <2>3. new \in EntryRecord /\ new.text >= new.version
    <3>1. CASE t.pc = "lock"
        BY <1>1, <2>2, <3>1 DEF EntryRecord
    <3>2. CASE t.pc # "lock"
        BY <1>1, <2>1, <2>2, <3>2 DEF EntryRecord, TaskRecord
    <3>3. QED
        BY <3>1, <3>2
  <2> HIDE DEF new
  <2>4. /\ entries' \in [Entry -> EntryRecord]
        /\ \A g \in Entry : entries'[g].text >= entries'[g].version
      BY <1>2, <2>1, <2>3
  <2>5. /\ u \in TaskRecord /\ u.pc = "count" /\ u.key = t.key /\ u.entry = t.entry
      BY <1>1 DEF TaskRecord, Pc
  <2> HIDE DEF u
  <2>6. TaskIsSet(u)
      BY <1>1, <2>5 DEF TaskIsSet, Acquiring, Entering, Leaving, Releasing
  <2>7. UNCHANGED <<documents, scriptVars, options, program, phase, building>>
      BY <2>1 DEF projectVars
  <2>8. /\ documents' \in [Key -> Entry \cup {NoEntry}]
        /\ building' \in [Project -> [File -> Doc \cup {NoDoc}]]
        /\ \A q \in Project : \A g \in File :
               building'[q][g] # NoDoc => building'[q][g].text >= building'[q][g].version
      BY <2>7 DEF TInv, StateOK, TextAsNewAsVersion
  <2>9. QED
      BY <2>1, <2>4, <2>5, <2>6, <2>7, <2>8, AfterTask
<1>4. CASE ReadCount(p, f)
  <2> DEFINE u == [t EXCEPT !.pc = "counted", !.count = e.refs]
  <2>1. Set(p, f, u) /\ UNCHANGED <<registryVars, scriptVars, projectVars>>
      BY <1>4 DEF ReadCount
  <2>2. u \in TaskRecord /\ u.pc = "counted" /\ u.key = t.key /\ u.entry = t.entry
      BY <1>1 DEF TaskRecord, Pc, EntryRecord
  <2> HIDE DEF u
  <2>3. TaskIsSet(u)
      BY <1>1, <2>2 DEF TaskIsSet, Acquiring, Entering, Leaving, Releasing
  <2>4. QED
      BY <2>1, <2>2, <2>3, AfterTaskAlone
<1>5. CASE WriteCount(p, f)
  <2> DEFINE new == [e EXCEPT !.refs = t.count + 1, !.lock = Unlock(t.entry, <<p, f>>)]
             to == AfterAcquire(t.old)
             u == [Idle EXCEPT !.pc = to, !.old = t.old, !.version = t.version]
             d == [key |-> t.key, version |-> e.version, text |-> e.text]
  <2>1. /\ Set(p, f, u)
        /\ entries' = [entries EXCEPT ![t.entry].refs = t.count + 1,
                                      ![t.entry].lock = Unlock(t.entry, <<p, f>>)]
        /\ building' = [building EXCEPT ![p][f] = d]
        /\ UNCHANGED <<documents, scriptVars, options, program, phase>>
      BY <1>5 DEF WriteCount, Set
  <2>2. entries' = [entries EXCEPT ![t.entry] = new]
      BY <1>1, <2>1
  <2>3. new \in EntryRecord /\ new.text >= new.version
    <3>1. t.count + 1 \in Int
        BY <1>1 DEF TaskRecord
    <3>2. Unlock(t.entry, <<p, f>>) \in Worker \cup {Nobody}
        BY <1>1 DEF Unlock, EntryRecord
    <3>3. QED
        BY <1>1, <3>1, <3>2 DEF EntryRecord
  <2>4. d \in Doc /\ d.text >= d.version
      BY <1>1 DEF Doc, EntryRecord
  <2>5. /\ to \in {"idle", "release"} /\ (to = "release" => t.old \in Doc)
      BY <1>1 DEF AfterAcquire, TaskRecord
  <2> HIDE DEF new, d, to
  <2>6. /\ entries' \in [Entry -> EntryRecord]
        /\ \A g \in Entry : entries'[g].text >= entries'[g].version
      BY <1>2, <2>2, <2>3
  <2>7. /\ building' \in [Project -> [File -> Doc \cup {NoDoc}]]
        /\ \A q \in Project : \A g \in File :
               building'[q][g] # NoDoc => building'[q][g].text >= building'[q][g].version
    <3>1. building \in [Project -> [File -> Doc \cup {NoDoc}]]
        BY DEF TInv, StateOK
    <3>2. building' \in [Project -> [File -> Doc \cup {NoDoc}]]
        BY <2>1, <2>4, <3>1
    <3>3. /\ building'[p][f] = d
          /\ \A q \in Project : \A g \in File :
                 q # p \/ g # f => building'[q][g] = building[q][g]
        BY <2>1, <3>1
    <3>4. QED
        BY <2>4, <3>2, <3>3 DEF TInv, TextAsNewAsVersion
  <2>8. /\ u \in TaskRecord /\ u.pc = to /\ u.old = t.old
    <3>1. /\ NoDoc \in Key \cup {NoDoc} /\ 0 \in Version /\ 0 \in Int
          /\ NoEntry \in Entry \cup {NoEntry}
        BY RegistryAssumption DEF Version
    <3>2. t.old \in Doc \cup {NoDoc} /\ t.version \in Version
        BY <1>1 DEF TaskRecord
    <3>3. QED
        BY <2>5, <3>1, <3>2 DEF TaskRecord, Pc, Idle
  <2> HIDE DEF u
  <2>9. TaskIsSet(u)
      BY <2>5, <2>8 DEF TaskIsSet, Acquiring, Entering, Leaving, Releasing
  <2>10. documents' \in [Key -> Entry \cup {NoEntry}]
      BY <2>1 DEF TInv, StateOK
  <2>11. QED
      BY <2>1, <2>5, <2>6, <2>7, <2>8, <2>9, <2>10, AfterTask
<1>6. QED
    BY <1>3, <1>4, <1>5

\* The record of a task that is idle.
LEMMA IdleType == Idle \in TaskRecord /\ TaskIsSet(Idle) /\ Idle.pc = "idle"
<1>1. /\ NoDoc \in Key \cup {NoDoc} /\ NoDoc \in Doc \cup {NoDoc} /\ 0 \in Version /\ 0 \in Int
      /\ NoEntry \in Entry \cup {NoEntry}
    BY RegistryAssumption DEF Version
<1>2. QED
    BY <1>1 DEF Idle, TaskRecord, Pc, TaskIsSet, Acquiring, Entering, Leaving, Releasing

\* Counting out.
LEMMA AfterRelease ==
    ASSUME TInv, NEW p \in Project, NEW f \in File,
           \/ LoadReleased(p, f) \/ LockReleased(p, f) \/ WriteReleased(p, f)
           \/ ReleaseDropped(p, f)
    PROVE  TInv'
<1> DEFINE t == task[p][f]
           e == entries[t.entry]
<1>1. /\ t \in TaskRecord /\ t.pc \in Releasing /\ t.old \in Doc
      /\ t.pc \in Leaving => t.entry \in Entry
      /\ entries \in [Entry -> EntryRecord]
      /\ documents \in [Key -> Entry \cup {NoEntry}]
  <2>1. t \in TaskRecord /\ t.pc \in Releasing
      BY TaskOf DEF TInv, LoadReleased, LockReleased, WriteReleased, ReleaseDropped, At,
                    Releasing, Leaving
  <2>2. QED
      BY <2>1 DEF TInv, StateOK, EntryRecord, TasksAreSet
<1>2. ASSUME NEW new \in EntryRecord, t.pc \in Leaving,
             entries' = [entries EXCEPT ![t.entry] = new],
             new.text = e.text, new.version = e.version
      PROVE  /\ entries' \in [Entry -> EntryRecord]
             /\ \A g \in Entry : entries'[g].text >= entries'[g].version
    BY <1>1, <1>2 DEF TInv, TextsAreNew
<1>3. ASSUME UNCHANGED projectVars
      PROVE  /\ UNCHANGED <<options, program, phase>>
             /\ building' \in [Project -> [File -> Doc \cup {NoDoc}]]
             /\ \A q \in Project : \A g \in File :
                    building'[q][g] # NoDoc => building'[q][g].text >= building'[q][g].version
    BY <1>3 DEF TInv, StateOK, TextAsNewAsVersion, projectVars
<1>4. CASE LoadReleased(p, f)
  <2> DEFINE x == documents[t.old.key]
             u == IF x = NoEntry THEN Idle ELSE [t EXCEPT !.pc = "releasing", !.entry = x]
  <2>1. Set(p, f, u) /\ UNCHANGED <<registryVars, scriptVars, projectVars>>
      BY <1>4 DEF LoadReleased, Set
  <2>2. x \in Entry \cup {NoEntry}
      BY <1>1 DEF Doc
  <2> HIDE DEF x
  <2>3. u \in TaskRecord /\ TaskIsSet(u) /\ u.pc \in {"idle", "releasing"}
    <3>1. CASE x = NoEntry
        BY <3>1, IdleType
    <3>2. CASE x # NoEntry
        BY <1>1, <2>2, <3>2 DEF TaskRecord, Pc, TaskIsSet, Acquiring, Entering, Leaving, Releasing
    <3>3. QED
        BY <3>1, <3>2
  <2> HIDE DEF u
  <2>4. QED
      BY <2>1, <2>3, AfterTaskAlone
<1>5. CASE LockReleased(p, f)
  <2> DEFINE u == [t EXCEPT !.pc = "released", !.count = e.refs]
             new == [e EXCEPT !.lock = <<p, f>>]
  <2>1. /\ t.pc \in Leaving /\ Set(p, f, u)
        /\ entries' = [entries EXCEPT ![t.entry].lock = <<p, f>>]
        /\ UNCHANGED <<documents, scriptVars, projectVars>>
      BY <1>5 DEF LockReleased, At, Leaving
  <2>2. e \in EntryRecord /\ <<p, f>> \in Worker
      BY <1>1, <2>1 DEF Worker
  <2>3. new \in EntryRecord /\ new.text = e.text /\ new.version = e.version
      BY <2>2 DEF EntryRecord
  <2>4. entries' = [entries EXCEPT ![t.entry] = new]
      BY <1>1, <2>1
  <2> HIDE DEF new
  <2>5. /\ entries' \in [Entry -> EntryRecord]
        /\ \A g \in Entry : entries'[g].text >= entries'[g].version
      BY <1>2, <2>1, <2>3, <2>4
  <2>6. u \in TaskRecord /\ u.pc = "released" /\ u.old = t.old /\ u.entry = t.entry
      BY <1>1, <2>2 DEF TaskRecord, Pc, EntryRecord
  <2> HIDE DEF u
  <2>7. TaskIsSet(u)
      BY <1>1, <2>1, <2>6 DEF TaskIsSet, Acquiring, Entering, Leaving, Releasing
  <2>8. documents' \in [Key -> Entry \cup {NoEntry}]
      BY <1>1, <2>1
  <2>9. QED
      BY <1>3, <2>1, <2>5, <2>6, <2>7, <2>8, AfterTask
<1>6. CASE WriteReleased(p, f)
  <2> DEFINE new == [e EXCEPT !.refs = t.count - 1, !.lock = Nobody]
  <2>1. /\ t.pc \in Leaving /\ Set(p, f, Idle)
        /\ entries' = [entries EXCEPT ![t.entry].refs = t.count - 1, ![t.entry].lock = Nobody]
        /\ UNCHANGED <<scriptVars, projectVars>>
        /\ documents' \in {documents, [documents EXCEPT ![t.old.key] = NoEntry]}
      BY <1>6 DEF WriteReleased, At, Leaving, Set, Unregister
  <2>2. e \in EntryRecord /\ t.count - 1 \in Int
      BY <1>1, <2>1 DEF TaskRecord
  <2>3. new \in EntryRecord /\ new.text = e.text /\ new.version = e.version
      BY <2>2 DEF EntryRecord
  <2>4. entries' = [entries EXCEPT ![t.entry] = new]
      BY <1>1, <2>1
  <2> HIDE DEF new
  <2>5. /\ entries' \in [Entry -> EntryRecord]
        /\ \A g \in Entry : entries'[g].text >= entries'[g].version
      BY <1>2, <2>1, <2>3, <2>4
  <2>6. documents' \in [Key -> Entry \cup {NoEntry}]
      BY <1>1, <2>1
  <2>7. QED
      BY <1>3, <2>1, <2>5, <2>6, IdleType, AfterTask
<1>7. CASE ReleaseDropped(p, f)
  <2> DEFINE u == [t EXCEPT !.pc = "release"]
  <2>1. Set(p, f, u) /\ UNCHANGED <<registryVars, scriptVars, projectVars>>
      BY <1>7 DEF ReleaseDropped
  <2>2. u \in TaskRecord /\ u.pc = "release" /\ u.old = t.old
      BY <1>1 DEF TaskRecord, Pc
  <2> HIDE DEF u
  <2>3. TaskIsSet(u)
      BY <1>1, <2>2 DEF TaskIsSet, Acquiring, Entering, Leaving, Releasing
  <2>4. QED
      BY <2>1, <2>2, <2>3, AfterTaskAlone
<1>8. QED
    BY <1>4, <1>5, <1>6, <1>7

-----------------------------------------------------------------------------
(***************************************************************************)
(* An update goes from phase to phase, and the editor.                     *)
(***************************************************************************)

\* What it takes of the tasks that an update starts to keep the types and the texts.
LEMMA AfterPhase ==
    ASSUME TInv, NEW p \in Project, NEW ts \in [File -> TaskRecord],
           task' = [task EXCEPT ![p] = ts],
           \A f \in File : /\ ts[f].pc \in {"idle", "version", "dropped"}
                           /\ ts[f].pc = "dropped" => ts[f].old \in Doc,
           UNCHANGED <<registryVars, scriptVars>>,
           options' \in [Project -> Option],
           phase' \in [Project -> {"idle", "rebuild", "replace", "drop"}],
           program' \in [Project -> [File -> Doc \cup {NoDoc}]],
           building' \in [Project -> [File -> Doc \cup {NoDoc}]],
           \A q \in Project : \A g \in File :
               building'[q][g] # NoDoc => building'[q][g].text >= building'[q][g].version
    PROVE  TInv'
<1>1. task \in [Project -> [File -> TaskRecord]]
    BY DEF TInv, StateOK, TaskRecord
<1> HIDE DEF TaskRecord
<1>2. /\ task' \in [Project -> [File -> TaskRecord]] /\ task'[p] = ts
      /\ \A q \in Project : q # p => task'[q] = task[q]
    BY <1>1
<1>3. UNCHANGED <<documents, entries, script, editing>>
    BY DEF registryVars, scriptVars
<1>4. StateOK'
    BY <1>2, <1>3 DEF TInv, StateOK, TaskRecord
<1>5. TextLeads'
    BY <1>3 DEF TInv, TextLeads
<1>6. \A f \in File : ts[f].pc \notin Acquiring \cup Entering \cup Leaving
                      /\ (ts[f].pc \in Releasing => ts[f].pc = "dropped")
    BY DEF Acquiring, Entering, Leaving, Releasing
<1>7. TasksAreSet'
    BY <1>2, <1>3, <1>6 DEF TInv, TasksAreSet
<1>8. TextsAreNew'
    BY <1>2, <1>3 DEF TInv, TextsAreNew
<1>9. TextAsNewAsVersion'
    BY DEF TextAsNewAsVersion
<1>10. QED
    BY <1>4, <1>5, <1>7, <1>8, <1>9 DEF TInv

\* The tasks of the files that are loaded are at the start, the others idle.
LoadTasks(files) == [f \in File |-> IF f \in files THEN [Idle EXCEPT !.pc = "version"] ELSE Idle]

\* The tasks that load some files of a project.
LEMMA Loads ==
    ASSUME TInv, NEW p \in Project, NEW files, Load(p, files)
    PROVE  /\ LoadTasks(files) \in [File -> TaskRecord]
           /\ task' = [task EXCEPT ![p] = LoadTasks(files)]
           /\ \A f \in File : LoadTasks(files)[f].pc = IF f \in files THEN "version" ELSE "idle"
           /\ \A f \in File : LoadTasks(files)[f].version = 0
           /\ building' \in [Project -> [File -> Doc \cup {NoDoc}]]
           /\ \A f \in File : building'[p][f] = NoDoc
           /\ \A q \in Project : q # p => building'[q] = building[q]
           /\ UNCHANGED <<registryVars, scriptVars, program>>
<1>1. [Idle EXCEPT !.pc = "version"] \in TaskRecord
    BY IdleType DEF TaskRecord, Pc
<1>2. LoadTasks(files) \in [File -> TaskRecord]
    BY <1>1, IdleType DEF LoadTasks
<1>3. \A f \in File : LoadTasks(files)[f].pc = IF f \in files THEN "version" ELSE "idle"
    BY DEF LoadTasks, Idle
<1>4. \A f \in File : LoadTasks(files)[f].version = 0
    BY DEF LoadTasks, Idle
<1>5. building \in [Project -> [File -> Doc \cup {NoDoc}]]
    BY DEF TInv, StateOK
<1>6. /\ building' = [building EXCEPT ![p] = [f \in File |-> NoDoc]]
      /\ task' = [task EXCEPT ![p] = LoadTasks(files)]
      /\ UNCHANGED <<registryVars, scriptVars, program>>
    BY DEF Load, LoadTasks
<1>7. /\ building' \in [Project -> [File -> Doc \cup {NoDoc}]]
      /\ \A f \in File : building'[p][f] = NoDoc
      /\ \A q \in Project : q # p => building'[q] = building[q]
    BY <1>5, <1>6
<1>8. QED
    BY <1>2, <1>3, <1>4, <1>6, <1>7

\* Loading files keeps the types and the texts.
LEMMA AfterLoad ==
    ASSUME TInv, NEW p \in Project, NEW files, Load(p, files),
           options' \in [Project -> Option],
           phase' \in [Project -> {"idle", "rebuild", "replace", "drop"}]
    PROVE  TInv'
<1> DEFINE ts == LoadTasks(files)
<1>1. /\ ts \in [File -> TaskRecord] /\ task' = [task EXCEPT ![p] = ts]
      /\ \A f \in File : ts[f].pc \in {"idle", "version"}
      /\ building' \in [Project -> [File -> Doc \cup {NoDoc}]]
      /\ \A f \in File : building'[p][f] = NoDoc
      /\ \A q \in Project : q # p => building'[q] = building[q]
      /\ UNCHANGED <<registryVars, scriptVars, program>>
    BY Loads
<1> HIDE DEF ts
<1>2. program' \in [Project -> [File -> Doc \cup {NoDoc}]]
    BY <1>1 DEF TInv, StateOK
<1>3. \A q \in Project : \A g \in File :
          building'[q][g] # NoDoc => building'[q][g].text >= building'[q][g].version
    BY <1>1 DEF TInv, TextAsNewAsVersion
<1>4. QED
    BY <1>1, <1>2, <1>3, AfterPhase

\* The next phase of one project.
LEMMA Advances ==
    ASSUME StateOK, NEW p \in Project, NEW to \in {"idle", "rebuild", "replace", "drop"},
           phase' = [phase EXCEPT ![p] = to]
    PROVE  /\ phase' \in [Project -> {"idle", "rebuild", "replace", "drop"}]
           /\ phase'[p] = to /\ \A q \in Project : q # p => phase'[q] = phase[q]
<1> QED
    BY DEF StateOK

\* The tasks of the files that are dropped hold the documents that are to be released.
DropTasks(p) ==
    [f \in File |-> IF f \in Dropped(p) THEN [Idle EXCEPT !.pc = "dropped", !.old = program[p][f]]
                    ELSE Idle]

\* The tasks that release the dropped files of a project.
LEMMA Drops ==
    ASSUME StateOK, NEW p \in Project
    PROVE  /\ DropTasks(p) \in [File -> TaskRecord]
           /\ \A f \in File : /\ DropTasks(p)[f].pc = IF f \in Dropped(p) THEN "dropped" ELSE "idle"
                              /\ f \in Dropped(p) => /\ DropTasks(p)[f].old = program[p][f]
                                                     /\ program[p][f] \in Doc
<1>1. ASSUME NEW f \in Dropped(p)
      PROVE  /\ f \in File /\ program[p][f] \in Doc
             /\ [Idle EXCEPT !.pc = "dropped", !.old = program[p][f]] \in TaskRecord
             /\ [Idle EXCEPT !.pc = "dropped", !.old = program[p][f]].pc = "dropped"
             /\ [Idle EXCEPT !.pc = "dropped", !.old = program[p][f]].old = program[p][f]
  <2>1. f \in File /\ program[p][f] \in Doc
      BY TaskOf DEF Dropped, Held
  <2>2. /\ NoDoc \in Key \cup {NoDoc} /\ 0 \in Version /\ 0 \in Int
        /\ NoEntry \in Entry \cup {NoEntry}
      BY RegistryAssumption DEF Version
  <2>3. QED
      BY <2>1, <2>2 DEF TaskRecord, Pc, Idle
<1>2. QED
    BY <1>1, IdleType DEF DropTasks

\* Beginning, changing and ending an update keeps the types and the texts.
LEMMA AfterPhaseStep ==
    ASSUME TInv, NEW p \in Project,
           \/ RebuildProgram(p) \/ UpdateProgram(p) \/ ReplaceFile(p) \/ CannotReplaceFile(p)
           \/ InstallProgram(p) \/ FinishUpdate(p)
    PROVE  TInv'
<1>1. /\ options \in [Project -> Option]
      /\ program \in [Project -> [File -> Doc \cup {NoDoc}]]
      /\ building \in [Project -> [File -> Doc \cup {NoDoc}]]
      /\ task \in [Project -> [File -> TaskRecord]]
      /\ StateOK
    BY DEF TInv, StateOK, TaskRecord
<1>2. \A q \in Project : \A g \in File :
          building[q][g] # NoDoc => building[q][g].text >= building[q][g].version
    BY DEF TInv, TextAsNewAsVersion
<1>3. CASE RebuildProgram(p)
  <2>1. PICK files \in SUBSET File : Load(p, files)
      BY <1>3 DEF RebuildProgram
  <2>2. options' \in [Project -> Option]
      BY <1>1, <1>3 DEF RebuildProgram
  <2>3. phase' \in [Project -> {"idle", "rebuild", "replace", "drop"}]
      BY <1>1, <1>3, Advances DEF RebuildProgram
  <2>4. QED
      BY <2>1, <2>2, <2>3, AfterLoad
<1>4. CASE UpdateProgram(p)
  <2>1. PICK f \in Held(p) : Load(p, {f})
      BY <1>4 DEF UpdateProgram
  <2>2. options' \in [Project -> Option]
      BY <1>1, <1>4 DEF UpdateProgram
  <2>3. phase' \in [Project -> {"idle", "rebuild", "replace", "drop"}]
      BY <1>1, <1>4, Advances DEF UpdateProgram
  <2>4. QED
      BY <2>1, <2>2, <2>3, AfterLoad
<1>5. CASE CannotReplaceFile(p)
  <2>1. PICK files \in SUBSET File : Load(p, files)
      BY <1>5 DEF CannotReplaceFile
  <2>2. options' \in [Project -> Option]
      BY <1>1, <1>5 DEF CannotReplaceFile
  <2>3. phase' \in [Project -> {"idle", "rebuild", "replace", "drop"}]
      BY <1>1, <1>5, Advances DEF CannotReplaceFile
  <2>4. QED
      BY <2>1, <2>2, <2>3, AfterLoad
<1>6. CASE ReplaceFile(p)
  <2>1. /\ program' = [program EXCEPT ![p] =
               [f \in File |-> IF building[p][f] # NoDoc THEN building[p][f] ELSE program[p][f]]]
        /\ phase' = [phase EXCEPT ![p] = "idle"]
        /\ UNCHANGED <<registryVars, scriptVars, options, building, task>>
      BY <1>1, <1>6 DEF ReplaceFile
  <2>2. program' \in [Project -> [File -> Doc \cup {NoDoc}]]
      BY <1>1, <2>1
  <2>3. phase' \in [Project -> {"idle", "rebuild", "replace", "drop"}]
      BY <1>1, <2>1, Advances
  <2>4. UNCHANGED <<documents, entries, script, editing, options, building, task>>
      BY <2>1 DEF registryVars, scriptVars
  <2>5. StateOK'
      BY <2>2, <2>3, <2>4 DEF TInv, StateOK
  <2>6. TextLeads' /\ TasksAreSet' /\ TextsAreNew' /\ TextAsNewAsVersion'
      BY <2>4 DEF TInv, TextLeads, TasksAreSet, TextsAreNew, TextAsNewAsVersion
  <2>7. QED
      BY <2>5, <2>6 DEF TInv
<1>7. CASE InstallProgram(p)
  <2>1. /\ phase' = [phase EXCEPT ![p] = "drop"]
        /\ task' = [task EXCEPT ![p] = DropTasks(p)]
        /\ program' = [program EXCEPT ![p] = building[p]]
        /\ UNCHANGED <<registryVars, scriptVars, options, building>>
      BY <1>7 DEF InstallProgram, DropTasks
  <2>2. program' \in [Project -> [File -> Doc \cup {NoDoc}]]
      BY <1>1, <2>1
  <2>3. phase' \in [Project -> {"idle", "rebuild", "replace", "drop"}]
      BY <1>1, <2>1, Advances
  <2>4. /\ DropTasks(p) \in [File -> TaskRecord]
        /\ \A f \in File : /\ DropTasks(p)[f].pc \in {"idle", "version", "dropped"}
                           /\ DropTasks(p)[f].pc = "dropped" => DropTasks(p)[f].old \in Doc
      BY <1>1, Drops
  <2>5. PICK ts : ts = DropTasks(p)
      OBVIOUS
  <2>6. /\ options' \in [Project -> Option]
        /\ building' \in [Project -> [File -> Doc \cup {NoDoc}]]
        /\ \A q \in Project : \A g \in File :
               building'[q][g] # NoDoc => building'[q][g].text >= building'[q][g].version
      BY <1>1, <1>2, <2>1
  <2>7. QED
      BY <2>1, <2>2, <2>3, <2>4, <2>5, <2>6, AfterPhase
<1>8. CASE FinishUpdate(p)
  <2> DEFINE ts == [f \in File |-> Idle]
  <2>1. /\ phase' = [phase EXCEPT ![p] = "idle"]
        /\ task' = [task EXCEPT ![p] = ts]
        /\ UNCHANGED <<registryVars, scriptVars, options, program, building>>
      BY <1>8 DEF FinishUpdate
  <2>2. ts \in [File -> TaskRecord] /\ \A f \in File : ts[f].pc = "idle"
      BY IdleType
  <2>3. phase' \in [Project -> {"idle", "rebuild", "replace", "drop"}]
      BY <1>1, <2>1, Advances
  <2>4. /\ options' \in [Project -> Option]
        /\ program' \in [Project -> [File -> Doc \cup {NoDoc}]]
        /\ building' \in [Project -> [File -> Doc \cup {NoDoc}]]
        /\ \A q \in Project : \A g \in File :
               building'[q][g] # NoDoc => building'[q][g].text >= building'[q][g].version
      BY <1>1, <1>2, <2>1
  <2> HIDE DEF ts
  <2>5. QED
      BY <2>1, <2>2, <2>3, <2>4, AfterPhase
<1>9. QED
    BY <1>3, <1>4, <1>5, <1>6, <1>7, <1>8

\* The two halves of an edit: the text first, then its version.
LEMMA AfterEdit ==
    ASSUME TInv, NEW q \in Path, BeginEdit(q) \/ EndEdit(q)
    PROVE  TInv'
<1> DEFINE s == script[q]
<1>1. /\ script \in [Path -> [version : Version, text : Version]]
      /\ s \in [version : Version, text : Version]
      /\ editing \subseteq Path
      /\ s.version \in Nat /\ s.text \in Nat
      /\ s.text = s.version + IF q \in editing THEN 1 ELSE 0
      /\ q \in editing => s.version < MaxVersion
      /\ MaxVersion \in Nat
    BY RegistryAssumption DEF TInv, StateOK, Version, TextLeads
<1>2. UNCHANGED <<documents, entries, options, program, building, phase, task>>
    BY DEF BeginEdit, EndEdit, registryVars, projectVars
<1>3. PICK new \in [version : Version, text : Version] :
          /\ script' = [script EXCEPT ![q] = new]
          /\ new.version >= s.version /\ editing' \subseteq Path
          /\ \A r \in Path : r # q => (r \in editing' <=> r \in editing)
          /\ new.text = new.version + IF q \in editing' THEN 1 ELSE 0
          /\ q \in editing' => new.version < MaxVersion
  <2>1. CASE BeginEdit(q)
    <3> DEFINE new == [s EXCEPT !.text = @ + 1]
    <3>1. /\ q \notin editing /\ s.version < MaxVersion
          /\ script' = [script EXCEPT ![q] = new] /\ editing' = editing \cup {q}
        BY <2>1 DEF BeginEdit, setText
    <3>2. s.text + 1 \in Version
        BY <1>1, <3>1 DEF Version
    <3>3. /\ new \in [version : Version, text : Version]
          /\ new.version = s.version /\ new.text = s.text + 1
        BY <1>1, <3>2
    <3> HIDE DEF new
    <3>4. /\ q \in editing' /\ editing' \subseteq Path
          /\ \A r \in Path : r # q => (r \in editing' <=> r \in editing)
        BY <1>1, <3>1
    <3>5. new.version >= s.version /\ new.text = new.version + 1
        BY <1>1, <3>1, <3>3
    <3>6. new.version < MaxVersion
        BY <3>1, <3>3
    <3>7. QED
        BY <3>1, <3>3, <3>4, <3>5, <3>6
  <2>2. CASE EndEdit(q)
    <3> DEFINE new == [s EXCEPT !.version = @ + 1]
    <3>1. /\ q \in editing
          /\ script' = [script EXCEPT ![q] = new] /\ editing' = editing \ {q}
        BY <2>2 DEF EndEdit, setText
    <3>2. s.version + 1 \in Version
        BY <1>1, <3>1 DEF Version
    <3>3. /\ new \in [version : Version, text : Version]
          /\ new.version = s.version + 1 /\ new.text = s.text
        BY <1>1, <3>2
    <3> HIDE DEF new
    <3>4. /\ q \notin editing' /\ editing' \subseteq Path
          /\ \A r \in Path : r # q => (r \in editing' <=> r \in editing)
        BY <1>1, <3>1
    <3>5. new.version >= s.version /\ new.text = new.version + 0
        BY <1>1, <3>1, <3>3
    <3>6. QED
        BY <3>1, <3>3, <3>4, <3>5
  <2>3. QED
      BY <2>1, <2>2
<1>4. /\ script' \in [Path -> [version : Version, text : Version]]
      /\ script'[q] = new /\ \A r \in Path : r # q => script'[r] = script[r]
    BY <1>1, <1>3
<1>5. StateOK'
    BY <1>2, <1>3, <1>4 DEF TInv, StateOK
<1>6. TextLeads'
    BY <1>3, <1>4 DEF TInv, TextLeads
<1>7. TasksAreSet' /\ TextAsNewAsVersion'
    BY <1>2 DEF TInv, TasksAreSet, TextAsNewAsVersion
<1>8. TextsAreNew'
  <2> SUFFICES ASSUME NEW p \in Project, NEW f \in File, task[p][f].pc = "text"
               PROVE  task[p][f].version <= script'[PathOf[f]].version
      BY <1>2 DEF TInv, TextsAreNew
  <2>1. /\ task[p][f].version <= script[PathOf[f]].version
        /\ task[p][f].version \in Int /\ script[PathOf[f]].version \in Int
        /\ PathOf[f] \in Path /\ new.version \in Int
      BY TextsOfTasks, TaskOf, RegistryAssumption DEF TInv, TextsAreNew, Version
  <2>2. CASE PathOf[f] = q
      BY <1>1, <1>3, <1>4, <2>1, <2>2
  <2>3. CASE PathOf[f] # q
      BY <1>4, <2>1, <2>3
  <2>4. QED
      BY <2>2, <2>3
<1>9. QED
    BY <1>5, <1>6, <1>7, <1>8 DEF TInv

\* The types and the texts at first.
LEMMA InitEstablishes == Init => TInv
<1> SUFFICES ASSUME Init PROVE TInv
    OBVIOUS
<1>1. 0 \in Version /\ 0 \in Int /\ 0 \in Nat
    BY RegistryAssumption DEF Version
<1>2. task = [p \in Project |-> [f \in File |-> Idle]] /\ Idle \in TaskRecord
    BY IdleType DEF Init
<1>3. task \in [Project -> [File -> TaskRecord]]
    BY <1>2
<1>4. StateOK
    BY <1>1, <1>3 DEF Init, StateOK, TaskRecord
<1>5. TextLeads
    BY <1>1 DEF Init, TextLeads
<1>6. \A p \in Project : \A f \in File : task[p][f].pc = "idle" /\ building[p][f] = NoDoc
    BY IdleType DEF Init
<1>7. TasksAreSet
    BY <1>6 DEF TasksAreSet, Acquiring, Entering, Leaving, Releasing
<1>8. \A e \in Entry : entries[e].text = 0 /\ entries[e].version = 0
    BY DEF Init
<1>9. TextsAreNew
    BY <1>1, <1>6, <1>8 DEF TextsAreNew
<1>10. TextAsNewAsVersion
    BY <1>6 DEF TextAsNewAsVersion
<1>11. QED
    BY <1>4, <1>5, <1>7, <1>9, <1>10 DEF TInv

\* No step breaks the types or makes a text older than its version.
LEMMA NextPreserves ==
    ASSUME TInv, Step \/ UNCHANGED vars
    PROVE  TInv'
<1>1. CASE \E q \in Path : BeginEdit(q) \/ EndEdit(q)
    BY <1>1, AfterEdit
<1>2. ASSUME NEW p \in Project,
             \/ RebuildProgram(p) \/ UpdateProgram(p) \/ ReplaceFile(p) \/ CannotReplaceFile(p)
             \/ InstallProgram(p) \/ FinishUpdate(p)
      PROVE  TInv'
    BY <1>2, AfterPhaseStep
<1>3. ASSUME NEW p \in Project, NEW f \in File, Work(p, f) \/ ReleaseDropped(p, f) PROVE TInv'
    BY <1>3, AfterRead, AfterStoreOrCompare, AfterCount, AfterRelease DEF Work
<1>4. CASE UNCHANGED vars
    BY <1>4 DEF vars, TInv, StateOK, TextLeads, TasksAreSet, TextsAreNew, TextAsNewAsVersion
<1>5. QED
    BY <1>1, <1>2, <1>3, <1>4 DEF Step

\* Types and texts in every behaviour, whatever interleaves.
LEMMA Invariance == Spec => []TInv
<1>1. TInv /\ [Next]_vars => TInv'
    BY NextPreserves DEF Next
<1>2. QED
    BY InitEstablishes, <1>1, PTL DEF Spec

\* Every variable keeps its type, whatever interleaves.
THEOREM TypeCorrect == Spec => []TypeOK
<1>1. Init => TypeOK
    BY InitEstablishes DEF Init, TInv, TypeOK
<1>2. TypeOK /\ TInv' /\ [Next]_vars => TypeOK'
  <2>1. TypeOK /\ [Next]_vars => upset' \in BOOLEAN
      BY DEF TypeOK, Next, vars
  <2>2. QED
      BY <2>1 DEF TypeOK, TInv
<1>3. QED
    BY <1>1, <1>2, Invariance, PTL DEF Spec

\* No program gets a document that was parsed from a text older than the version it is
\* labelled with: getDocumentWorker reads the version before the text, and setText
\* writes the text before the version.
THEOREM TextIsNeverOlder == Spec => []TextAsNewAsVersion
<1>1. TInv => TextAsNewAsVersion
    BY DEF TInv
<1>2. QED
    BY <1>1, Invariance, PTL

-----------------------------------------------------------------------------
(***************************************************************************)
(* Counting the holders of a document.                                     *)
(***************************************************************************)

Bit(b) == IF b THEN 1 ELSE 0

\* Sets that differ in one element at most.
LEMMA OneMoves ==
    ASSUME NEW S, NEW T, NEW x, IsFiniteSet(S), S \ {x} = T \ {x}
    PROVE  /\ IsFiniteSet(T) /\ Cardinality(S) \in Nat /\ Cardinality(T) \in Nat
           /\ Cardinality(T) = Cardinality(S) + Bit(x \in T) - Bit(x \in S)
<1>1. IsFiniteSet(S \ {x}) /\ Cardinality(S \ {x}) = Cardinality(S) - Bit(x \in S)
  <2>1. Cardinality(S) \in Nat
      BY FS_CardinalityType
  <2>2. /\ IsFiniteSet(S \ {x})
        /\ Cardinality(S \ {x}) = IF x \in S THEN Cardinality(S) - 1 ELSE Cardinality(S)
      BY FS_RemoveElement
  <2>3. QED
      BY <2>1, <2>2 DEF Bit
<1>2. T = IF x \in T THEN (S \ {x}) \cup {x} ELSE S \ {x}
    OBVIOUS
<1>3. /\ IsFiniteSet(T)
      /\ Cardinality(T) = Cardinality(S \ {x}) + Bit(x \in T)
  <2>1. CASE x \in T
    <3>1. T = (S \ {x}) \cup {x} /\ x \notin S \ {x}
        BY <1>2, <2>1
    <3>2. QED
        BY <1>1, <2>1, <3>1, FS_AddElement DEF Bit
  <2>2. CASE x \notin T
    <3>1. T = S \ {x}
        BY <1>2, <2>2
    <3>2. Cardinality(S \ {x}) \in Nat
        BY <1>1, FS_CardinalityType
    <3>3. QED
        BY <1>1, <2>2, <3>1, <3>2 DEF Bit
  <2>3. QED
      BY <2>1, <2>2
<1>4. Cardinality(S) \in Nat /\ Cardinality(T) \in Nat
    BY <1>3, FS_CardinalityType
<1>5. QED
    BY <1>1, <1>3, <1>4 DEF Bit

\* The holders of a document can be counted.
LEMMA FiniteHolders ==
    \A k : /\ IsFiniteSet(MainHolders(k)) /\ IsFiniteSet(ExtraHolders(k))
           /\ Cardinality(MainHolders(k)) \in Nat /\ Cardinality(ExtraHolders(k)) \in Nat
           /\ Total(k) \in Nat
<1> TAKE k
<1>1. IsFiniteSet(Worker)
    BY RegistryAssumption, FS_Product DEF Worker
<1>2. IsFiniteSet(MainHolders(k)) /\ IsFiniteSet(ExtraHolders(k))
    BY <1>1, FS_Subset DEF MainHolders, ExtraHolders
<1>3. Cardinality(MainHolders(k)) \in Nat /\ Cardinality(ExtraHolders(k)) \in Nat
    BY <1>2, FS_CardinalityType
<1>4. QED
    BY <1>2, <1>3 DEF Total

\* A document that a worker holds is counted.
LEMMA HeldIsCounted ==
    ASSUME NEW p \in Project, NEW f \in File, NEW k, Of(Main(p, f), k) \/ Of(Extra(p, f), k)
    PROVE  Total(k) # 0
<1>1. <<p, f>> \in Worker
    BY DEF Worker
<1>2. <<p, f>> \in MainHolders(k) \/ <<p, f>> \in ExtraHolders(k)
    BY <1>1 DEF MainHolders, ExtraHolders
<1>3. Cardinality(MainHolders(k)) # 0 \/ Cardinality(ExtraHolders(k)) # 0
    BY <1>2, FiniteHolders, FS_EmptySet
<1>4. QED
    BY <1>3, FiniteHolders DEF Total

\* A document that is counted once is held by one worker, and once.
LEMMA OnlyHolder ==
    ASSUME NEW p \in Project, NEW f \in File, NEW q \in Project, NEW g \in File, NEW k,
           Total(k) = 1, Of(Main(p, f), k) \/ Of(Extra(p, f), k)
    PROVE  /\ Of(Main(q, g), k) => q = p /\ g = f /\ ~Of(Extra(p, f), k)
           /\ Of(Extra(q, g), k) => q = p /\ g = f /\ ~Of(Main(p, f), k)
<1> DEFINE M == MainHolders(k)
           X == ExtraHolders(k)
           w == <<p, f>>
           v == <<q, g>>
<1>0. w \in Worker /\ v \in Worker /\ w[1] = p /\ w[2] = f /\ v[1] = q /\ v[2] = g
    BY DEF Worker
<1>1. /\ IsFiniteSet(M) /\ IsFiniteSet(X) /\ Cardinality(M) \in Nat /\ Cardinality(X) \in Nat
      /\ Cardinality(M) + Cardinality(X) = 1
    BY FiniteHolders DEF Total
<1>2. /\ w \in M <=> Of(Main(p, f), k)
      /\ w \in X <=> Of(Extra(p, f), k)
      /\ v \in M <=> Of(Main(q, g), k)
      /\ v \in X <=> Of(Extra(q, g), k)
    BY <1>0 DEF MainHolders, ExtraHolders
<1>3. M = {} \/ X = {}
  <2>1. Cardinality(M) = 0 \/ Cardinality(X) = 0
      BY <1>1
  <2>2. QED
      BY <1>1, <2>1, FS_EmptySet
<1> HIDE DEF M, X
<1>4. ASSUME NEW S, IsFiniteSet(S), Cardinality(S) = 1, w \in S, v \in S PROVE v = w
  <2>1. IsFiniteSet(S \ {w}) /\ Cardinality(S \ {w}) = 0
      BY <1>4, FS_RemoveElement
  <2>2. S \ {w} = {}
      BY <2>1, FS_EmptySet
  <2>3. QED
      BY <1>4, <2>2
<1>5. M = {} => Cardinality(X) = 1
    BY <1>1, FS_EmptySet
<1>6. X = {} => Cardinality(M) = 1
    BY <1>1, FS_EmptySet
<1>7. v \in M => v = w /\ w \notin X
    BY <1>1, <1>2, <1>3, <1>4, <1>6
<1>8. v \in X => v = w /\ w \notin M
    BY <1>1, <1>2, <1>3, <1>4, <1>5
<1>9. QED
    BY <1>2, <1>7, <1>8

\* The total when one worker takes and drops documents.
LEMMA TotalMoves ==
    ASSUME NEW p \in Project, NEW f \in File, NEW k,
           \A q \in Project : \A g \in File : q # p \/ g # f =>
               /\ Of(Main(q, g), k)' <=> Of(Main(q, g), k)
               /\ Of(Extra(q, g), k)' <=> Of(Extra(q, g), k)
    PROVE  Total(k)' = Total(k) + Bit(Of(Main(p, f), k)') - Bit(Of(Main(p, f), k))
                                + Bit(Of(Extra(p, f), k)') - Bit(Of(Extra(p, f), k))
<1> DEFINE w == <<p, f>>
<1>1. w \in Worker
    BY DEF Worker
<1>2. MainHolders(k) \ {w} = MainHolders(k)' \ {w}
  <2>1. ASSUME NEW v \in Worker, v # w
        PROVE  Of(Main(v[1], v[2]), k)' <=> Of(Main(v[1], v[2]), k)
      BY <2>1 DEF Worker
  <2>2. QED
      BY <2>1 DEF MainHolders
<1>3. ExtraHolders(k) \ {w} = ExtraHolders(k)' \ {w}
  <2>1. ASSUME NEW v \in Worker, v # w
        PROVE  Of(Extra(v[1], v[2]), k)' <=> Of(Extra(v[1], v[2]), k)
      BY <2>1 DEF Worker
  <2>2. QED
      BY <2>1 DEF ExtraHolders
<1>4. /\ w \in MainHolders(k) <=> Of(Main(p, f), k)
      /\ w \in MainHolders(k)' <=> Of(Main(p, f), k)'
      /\ w \in ExtraHolders(k) <=> Of(Extra(p, f), k)
      /\ w \in ExtraHolders(k)' <=> Of(Extra(p, f), k)'
    BY <1>1 DEF MainHolders, ExtraHolders
<1>5. /\ Cardinality(MainHolders(k)') =
             Cardinality(MainHolders(k)) + Bit(w \in MainHolders(k)') - Bit(w \in MainHolders(k))
      /\ Cardinality(ExtraHolders(k)') =
             Cardinality(ExtraHolders(k)) + Bit(w \in ExtraHolders(k)') - Bit(w \in ExtraHolders(k))
    BY <1>2, <1>3, OneMoves, FiniteHolders
<1> HIDE DEF w
<1>6. /\ Bit(w \in MainHolders(k)') = Bit(Of(Main(p, f), k)')
      /\ Bit(w \in MainHolders(k)) = Bit(Of(Main(p, f), k))
      /\ Bit(w \in ExtraHolders(k)') = Bit(Of(Extra(p, f), k)')
      /\ Bit(w \in ExtraHolders(k)) = Bit(Of(Extra(p, f), k))
    BY <1>4 DEF Bit
<1>7. /\ Bit(Of(Main(p, f), k)') \in Int /\ Bit(Of(Main(p, f), k)) \in Int
      /\ Bit(Of(Extra(p, f), k)') \in Int /\ Bit(Of(Extra(p, f), k)) \in Int
    BY DEF Bit
<1>8. Total(k)' = Cardinality(MainHolders(k)') + Cardinality(ExtraHolders(k)')
    BY DEF Total
<1>9. QED
    BY <1>5, <1>6, <1>7, <1>8, FiniteHolders DEF Total

\* A step after which the same workers hold a document.
LEMMA TotalStays ==
    ASSUME NEW k, \A q \in Project : \A g \in File :
                      /\ Of(Main(q, g), k)' <=> Of(Main(q, g), k)
                      /\ Of(Extra(q, g), k)' <=> Of(Extra(q, g), k)
    PROVE  Total(k)' = Total(k)
<1>1. \A v \in Worker : /\ Of(Main(v[1], v[2]), k)' <=> Of(Main(v[1], v[2]), k)
                        /\ Of(Extra(v[1], v[2]), k)' <=> Of(Extra(v[1], v[2]), k)
    BY DEF Worker
<1>2. MainHolders(k)' = MainHolders(k) /\ ExtraHolders(k)' = ExtraHolders(k)
    BY <1>1 DEF MainHolders, ExtraHolders
<1>3. QED
    BY <1>2 DEF Total

-----------------------------------------------------------------------------
(***************************************************************************)
(* What the steps of a task leave alone.                                   *)
(***************************************************************************)

\* While a task works its project updates.
LEMMA Working ==
    ASSUME SInv, NEW p \in Project, NEW f \in File, task[p][f].pc # "idle"
    PROVE  phase[p] # "idle"
<1> QED
    BY DEF SInv, Resting, Quiet

\* The keys that the task for f of p deals with have the path of f.
LEMMA KeysHavePath ==
    ASSUME SInv, NEW p \in Project, NEW f \in File
    PROVE  /\ task[p][f].pc \in Acquiring
                  => task[p][f].key \in Key /\ task[p][f].key[1] = PathOf[f]
           /\ task[p][f].pc \in Releasing
                  => /\ task[p][f].old \in Doc /\ task[p][f].old.key \in Key
                     /\ task[p][f].old.key[1] = PathOf[f]
           /\ \A k : Of(Main(p, f), k) \/ Of(Extra(p, f), k) => k[1] = PathOf[f]
<1>1. /\ task[p][f].pc \in Acquiring => task[p][f].key \in Key
      /\ task[p][f].pc \in Releasing => task[p][f].old \in Doc
      /\ program[p][f] \in Doc \cup {NoDoc} /\ NoDoc \notin Doc
    BY TaskOf, Distinct DEF SInv, TInv, TasksAreSet
<1>2. Fits(p, f) /\ PathKey(p, f)[1] = PathOf[f]
    BY DEF SInv, PathKey
<1>3. task[p][f].pc \in Releasing => task[p][f].old.key[1] = PathOf[f]
    BY <1>1, <1>2 DEF Fits, KeyFits
<1>4. \A d \in Doc : d.key \in Key
    BY DEF Doc
<1>5. \A k : Of(Main(p, f), k) \/ Of(Extra(p, f), k) => k[1] = PathOf[f]
    BY <1>2, <1>3 DEF Fits, KeyFits, Of, Main, Extra
<1>6. QED
    BY <1>1, <1>2, <1>3, <1>4, <1>5 DEF Fits, KeyFits

\* What a task has in hand on its way to a document.
LEMMA AcquiringHas ==
    ASSUME SInv, NEW p \in Project, NEW f \in File, task[p][f].pc \in Acquiring
    PROVE  /\ task[p][f].key \in Key /\ task[p][f].key = PathKey(p, f)
           /\ task[p][f].key[1] = PathOf[f]
           /\ task[p][f].old = program[p][f] /\ building[p][f] = NoDoc
           /\ phase[p] \in {"rebuild", "replace"}
           /\ phase[p] = "replace" => program[p][f] # NoDoc
<1>1. task[p][f].key \in Key /\ task[p][f].key[1] = PathOf[f]
    BY KeysHavePath
<1>2. PhaseFits(p, f) /\ KeyFits(p, f)
    BY DEF SInv, Fits
<1>3. task[p][f].key = PathKey(p, f) /\ task[p][f].old = program[p][f]
    BY <1>2 DEF KeyFits
<1>4. task[p][f].pc # "idle" /\ task[p][f].pc \notin {"idle"} \cup Releasing
    BY DEF Acquiring, Releasing, Leaving
<1>5. /\ building[p][f] = NoDoc /\ phase[p] # "drop"
      /\ phase[p] = "replace" => program[p][f] # NoDoc
    BY <1>2, <1>4 DEF PhaseFits
<1>6. phase[p] \in {"idle", "rebuild", "replace", "drop"}
    BY DEF SInv, TInv, StateOK
<1>7. phase[p] # "idle"
    BY <1>4, Working
<1>8. QED
    BY <1>1, <1>3, <1>5, <1>6, <1>7

\* The entry that a task is about to be counted with ...
LEMMA EnteringHas ==
    ASSUME SInv, NEW p \in Project, NEW f \in File, task[p][f].pc \in Entering
    PROVE  /\ task[p][f].entry \in Entry /\ task[p][f].entry # NoEntry
           /\ task[p][f].entry = documents[task[p][f].key]
<1>1. task[p][f].entry \in Entry
    BY DEF SInv, TInv, TasksAreSet
<1>2. EntryFits(p, f)
    BY DEF SInv, Fits
<1>3. QED
    BY <1>1, <1>2, Distinct DEF EntryFits

\* ... and the document that it is about to be counted out of.
LEMMA LeavingHas ==
    ASSUME SInv, NEW p \in Project, NEW f \in File, task[p][f].pc \in Leaving
    PROVE  /\ task[p][f].old \in Doc /\ task[p][f].old # NoDoc
           /\ task[p][f].old.key \in Key /\ task[p][f].old.key[1] = PathOf[f]
           /\ task[p][f].entry \in Entry /\ task[p][f].entry # NoEntry
           /\ task[p][f].entry = documents[task[p][f].old.key]
<1>1. task[p][f].pc \in Releasing
    BY DEF Releasing
<1>2. /\ task[p][f].old \in Doc /\ task[p][f].old.key \in Key
      /\ task[p][f].old.key[1] = PathOf[f]
    BY <1>1, KeysHavePath
<1>3. task[p][f].entry \in Entry
    BY DEF SInv, TInv, TasksAreSet
<1>4. EntryFits(p, f)
    BY DEF SInv, Fits
<1>5. task[p][f].entry = documents[task[p][f].old.key]
    BY <1>4 DEF EntryFits
<1>6. QED
    BY <1>2, <1>3, <1>5, Distinct

\* What a step of the task for f of p leaves alone.
Frame(p, f) ==
    /\ UNCHANGED <<options, program, phase>>
    /\ \A q \in Project : \A g \in File :
           q # p \/ g # f => task'[q][g] = task[q][g] /\ building'[q][g] = building[q][g]
    /\ \A k \in Key : k[1] # PathOf[f] =>
           /\ documents'[k] = documents[k]
           /\ documents[k] # NoEntry => entries'[documents[k]] = entries[documents[k]]
    /\ \A q \in Project : \A g \in File :
           (q # p \/ g # f) /\ task[q][g].pc \in Leaving =>
               documents'[task[q][g].old.key] = documents[task[q][g].old.key]

\* A step of one task leaves the others as they were.
LEMMA OthersFit ==
    ASSUME SInv, ~Upsets', NEW p \in Project, NEW f \in File, task[p][f].pc # "idle",
           Frame(p, f)
    PROVE  /\ Resting'
           /\ \A q \in Project : \A g \in File : q # p \/ g # f =>
                  /\ Fits(q, g)'
                  /\ \A k : /\ Of(Main(q, g), k)' <=> Of(Main(q, g), k)
                            /\ Of(Extra(q, g), k)' <=> Of(Extra(q, g), k)
                            /\ Counts(q, g, k)' <=> Counts(q, g, k)
<1>1. Resting'
    BY Working DEF SInv, Resting, Frame, Quiet
<1>2. ASSUME NEW q \in Project, NEW g \in File, q # p \/ g # f
      PROVE  /\ Fits(q, g)'
             /\ \A k : /\ Of(Main(q, g), k)' <=> Of(Main(q, g), k)
                       /\ Of(Extra(q, g), k)' <=> Of(Extra(q, g), k)
                       /\ Counts(q, g, k)' <=> Counts(q, g, k)
  <2> DEFINE t == task[q][g]
  <2>1. /\ task'[q][g] = task[q][g] /\ building'[q][g] = building[q][g]
        /\ program'[q][g] = program[q][g] /\ phase'[q] = phase[q]
        /\ PathKey(q, g)' = PathKey(q, g)
      BY <1>2 DEF Frame, PathKey
  <2>2. /\ Fits(q, g)
        /\ t.pc \in Acquiring => t.key \in Key /\ t.key[1] = PathOf[g]
        /\ t.pc \in Releasing => t.old.key \in Key /\ t.old.key[1] = PathOf[g]
      BY KeysHavePath DEF SInv
  <2>3. t.pc \in Entering => t.entry = documents'[t.key]
      BY <2>1 DEF Upsets, EntryIsGone, Entering
  <2>4. PhaseFits(q, g)' /\ KeyFits(q, g)'
      BY <2>1, <2>2 DEF Fits, PhaseFits, KeyFits
  <2>5. t.pc \in {"counted", "released"} => t.count = entries'[t.entry].refs
      BY <2>1 DEF Upsets, CountIsStale
  <2>6. EntryFits(q, g)'
      BY <1>2, <2>1, <2>2, <2>3, <2>5 DEF Frame, Fits, EntryFits
  <2>7. \A k : /\ Of(Main(q, g), k)' <=> Of(Main(q, g), k)
               /\ Of(Extra(q, g), k)' <=> Of(Extra(q, g), k)
               /\ Counts(q, g, k)' <=> Counts(q, g, k)
      BY <2>1 DEF Of, Main, Extra, Counts
  <2>8. QED
      BY <2>4, <2>6, <2>7 DEF Fits
<1>3. QED
    BY <1>1, <1>2

\* So it is enough to look at the task itself and at the keys of its path.
LEMMA AfterWork ==
    ASSUME SInv, ~Upsets', NEW p \in Project, NEW f \in File, task[p][f].pc # "idle",
           Frame(p, f), TInv', EntriesApart', Fits(p, f)',
           \A k \in Key : k[1] = PathOf[f] => CountFits(k)'
    PROVE  SInv'
<1>1. /\ Resting'
      /\ \A q \in Project : \A g \in File : q # p \/ g # f =>
             /\ Fits(q, g)'
             /\ \A k : /\ Of(Main(q, g), k)' <=> Of(Main(q, g), k)
                       /\ Of(Extra(q, g), k)' <=> Of(Extra(q, g), k)
                       /\ Counts(q, g, k)' <=> Counts(q, g, k)
    BY OthersFit
<1>2. \A k : Of(Main(p, f), k) \/ Of(Extra(p, f), k) => k[1] = PathOf[f]
    BY KeysHavePath
<1>3. \A k : Of(Main(p, f), k)' \/ Of(Extra(p, f), k)' => k[1] = PathOf[f]
  <2>1. /\ task'[p][f].pc \in Releasing => task'[p][f].old \in Doc
        /\ Fits(p, f)' /\ PathKey(p, f)'[1] = PathOf[f] /\ NoDoc \notin Doc
      BY Distinct DEF TInv, TasksAreSet, PathKey
  <2>2. QED
      BY <2>1 DEF Fits, KeyFits, Of, Main, Extra
<1>4. ASSUME NEW k \in Key, k[1] # PathOf[f] PROVE CountFits(k)'
  <2>1. Total(k)' = Total(k)
      BY <1>1, <1>2, <1>3, <1>4, TotalStays
  <2>2. /\ CountFits(k) /\ documents'[k] = documents[k]
        /\ documents[k] # NoEntry => entries'[documents[k]] = entries[documents[k]]
      BY <1>4 DEF SInv, CountsAddUp, Frame
  <2>3. \A q \in Project : \A g \in File : Counts(q, g, k) => Counts(q, g, k)'
    <3>1. ~Counts(p, f, k)
        BY <1>4, KeysHavePath DEF Counts, Acquiring
    <3>2. QED
        BY <1>1, <3>1
  <2>4. QED
      BY <2>1, <2>2, <2>3 DEF CountFits
<1>5. CountsAddUp'
    BY <1>4 DEF CountsAddUp
<1>6. QED
    BY <1>1, <1>5 DEF SInv

\* A step that changes no count and nothing that is counted.
LEMMA AfterQuietWork ==
    ASSUME SInv, ~Upsets', NEW p \in Project, NEW f \in File, task[p][f].pc # "idle",
           Frame(p, f), TInv', Fits(p, f)', UNCHANGED <<documents, building>>,
           \A k \in Key : documents[k] # NoEntry =>
               entries'[documents[k]].refs = entries[documents[k]].refs,
           task'[p][f].pc \in Releasing <=> task[p][f].pc \in Releasing,
           task[p][f].pc \in Releasing => task'[p][f].old = task[p][f].old,
           task[p][f].pc \in {"lock", "count", "counted"} =>
               /\ task'[p][f].pc \in {"lock", "count", "counted"}
               /\ task'[p][f].key = task[p][f].key
    PROVE  SInv'
<1>1. EntriesApart'
    BY DEF SInv, EntriesApart
<1>2. \A q \in Project : \A g \in File : q # p \/ g # f =>
          \A k : /\ Of(Main(q, g), k)' <=> Of(Main(q, g), k)
                 /\ Of(Extra(q, g), k)' <=> Of(Extra(q, g), k)
                 /\ Counts(q, g, k)' <=> Counts(q, g, k)
    BY OthersFit
<1>3. \A k : /\ Of(Main(p, f), k)' <=> Of(Main(p, f), k)
             /\ Of(Extra(p, f), k)' <=> Of(Extra(p, f), k)
             /\ Counts(p, f, k) => Counts(p, f, k)'
    BY DEF Frame, Of, Main, Extra, Counts
<1>4. ASSUME NEW k \in Key PROVE CountFits(k)'
  <2>1. Total(k)' = Total(k)
      BY <1>2, <1>3, TotalStays
  <2>2. \A q \in Project : \A g \in File : Counts(q, g, k) => Counts(q, g, k)'
      BY <1>2, <1>3
  <2>3. QED
      BY <2>1, <2>2 DEF SInv, CountsAddUp, CountFits
<1>5. QED
    BY <1>1, <1>4, AfterWork

\* The old document of a file that is spelled in one way is its own.
LEMMA OldDocIs ==
    ASSUME SInv, NEW p \in Project, NEW f \in File, Uses(p, f)
    PROVE  OldDoc(p, f) = program[p][f]
<1> DEFINE held == {program[p][g] : g \in {g \in File : PathOf[g] = PathOf[f]}} \ {NoDoc}
<1>0. \A g \in File : PathOf[g] = PathOf[f] /\ program[p][g] # NoDoc => g = f
    BY DEF SInv, Upsets, SpelledTwice, Uses
<1>1. held = {program[p][f]} \ {NoDoc}
    BY <1>0
<1>2. OldDoc(p, f) = IF held = {} THEN NoDoc ELSE CHOOSE d \in held : TRUE
    BY DEF OldDoc
<1> HIDE DEF held
<1>3. CASE program[p][f] = NoDoc
    BY <1>1, <1>2, <1>3
<1>4. CASE program[p][f] # NoDoc
  <2>1. held = {program[p][f]}
      BY <1>1, <1>4
  <2>2. (CHOOSE d \in held : TRUE) = program[p][f]
      BY <2>1
  <2>3. QED
      BY <1>2, <2>1, <2>2
<1>5. QED
    BY <1>3, <1>4

\* A task that sets nothing but its own state.
LEMMA AloneFrames ==
    ASSUME SInv, NEW p \in Project, NEW f \in File, NEW t \in TaskRecord, Set(p, f, t),
           UNCHANGED <<registryVars, projectVars>>
    PROVE  /\ Frame(p, f) /\ task'[p][f] = t
           /\ UNCHANGED <<documents, entries, building, options, program, phase>>
<1> QED
    BY OneTask DEF SInv, TInv, Frame, registryVars, projectVars

\* The steps that read, and change the task alone.
LEMMA ReadFits ==
    ASSUME SInv, ~Upsets', NEW p \in Project, NEW f \in File,
           \/ ReadVersion(p, f) \/ ReadText(p, f) \/ LoadEntry(p, f)
           \/ CompareVersion(p, f) \/ ReadCount(p, f)
    PROVE  SInv'
<1> DEFINE t == task[p][f]
<1>0. TInv'
    BY AfterRead, AfterStoreOrCompare, AfterCount DEF SInv
<1>1. /\ t \in TaskRecord /\ PathKey(p, f) \in Key
      /\ program[p][f] \in Doc \cup {NoDoc}
      /\ script[PathOf[f]] \in [version : Version, text : Version]
      /\ Fits(p, f)
    BY TextsOfTasks, TaskOf DEF SInv, TInv
<1>2. ASSUME NEW u \in TaskRecord, Set(p, f, u), UNCHANGED <<registryVars, projectVars>>,
             t.pc \in {"version", "text", "load", "compare", "count"},
             u.pc \in Acquiring, Fits(p, f)',
             t.pc = "count" => u.pc = "counted" /\ u.key = t.key
      PROVE  SInv'
  <2>1. /\ Frame(p, f) /\ task'[p][f] = u
        /\ UNCHANGED <<documents, entries, building, options, program, phase>>
      BY <1>2, AloneFrames
  <2>2. u.pc \notin Releasing /\ t.pc \notin Releasing /\ t.pc # "idle"
      BY <1>2 DEF Acquiring, Releasing, Leaving
  <2>3. t.pc \in {"lock", "count", "counted"} =>
            u.pc \in {"lock", "count", "counted"} /\ u.key = t.key
      BY <1>2
  <2>4. QED
      BY <1>0, <1>2, <2>1, <2>2, <2>3, AfterQuietWork
<1>3. ASSUME NEW u \in TaskRecord, Set(p, f, u), UNCHANGED <<registryVars, projectVars>>,
             t.pc \in {"version"} \cup Acquiring, u.pc \in Acquiring,
             u.key = PathKey(p, f), u.old = program[p][f],
             u.pc \in Entering => u.entry = documents[u.key],
             u.pc = "counted" => u.count = entries[u.entry].refs
      PROVE  Fits(p, f)'
  <2>1. /\ task'[p][f] = u /\ PathKey(p, f)' = PathKey(p, f)
        /\ UNCHANGED <<documents, entries, building, options, program, phase>>
      BY <1>3, AloneFrames DEF PathKey
  <2>2. /\ u.pc \notin Releasing \cup Leaving \cup {"dropped", "idle", "released"}
        /\ t.pc \notin Releasing \cup {"idle"}
      BY <1>3 DEF Acquiring, Releasing, Leaving
  <2>3. PhaseFits(p, f)'
      BY <1>1, <1>3, <2>1, <2>2 DEF Fits, PhaseFits
  <2>4. KeyFits(p, f)'
      BY <1>1, <1>3, <2>1, <2>2 DEF Fits, KeyFits
  <2>5. EntryFits(p, f)'
      BY <1>1, <1>3, <2>1, <2>2 DEF Fits, EntryFits
  <2>6. QED
      BY <2>3, <2>4, <2>5 DEF Fits
<1>4. CASE ReadVersion(p, f)
  <2> DEFINE u == [t EXCEPT !.pc = "text", !.version = script[PathOf[f]].version,
                            !.key = PathKey(p, f), !.old = OldDoc(p, f)]
  <2>1. /\ t.pc = "version" /\ Set(p, f, u) /\ UNCHANGED <<registryVars, projectVars>>
      BY <1>4 DEF ReadVersion, At
  <2>5. OldDoc(p, f) = program[p][f]
      BY <2>1, OldDocIs DEF Uses
  <2>2. /\ u \in TaskRecord /\ u.pc = "text" /\ u.key = PathKey(p, f) /\ u.old = program[p][f]
      BY <1>1, <2>5 DEF TaskRecord, Pc
  <2> HIDE DEF u
  <2>3. u.pc \in Acquiring /\ u.pc \notin Entering
      BY <2>2 DEF Acquiring, Entering
  <2>4. QED
      BY <1>2, <1>3, <2>1, <2>2, <2>3
<1>5. ASSUME t.pc \in Acquiring
      PROVE  /\ t.key = PathKey(p, f) /\ t.old = program[p][f] /\ t.key \in Key
             /\ t.pc \in Entering => /\ t.entry = documents[t.key]
                                     /\ t.entry \in Entry
    BY <1>1, <1>5 DEF Fits, KeyFits, EntryFits, SInv, TInv, TasksAreSet
<1>6. CASE ReadText(p, f)
  <2> DEFINE u == [t EXCEPT !.pc = "load", !.text = script[PathOf[f]].text]
  <2>1. /\ t.pc = "text" /\ Set(p, f, u) /\ UNCHANGED <<registryVars, projectVars>>
      BY <1>6 DEF ReadText, At
  <2>2. /\ u \in TaskRecord /\ u.pc = "load" /\ u.key = t.key /\ u.old = t.old
      BY <1>1 DEF TaskRecord, Pc
  <2> HIDE DEF u
  <2>3. u.pc \in Acquiring /\ u.pc \notin Entering /\ t.pc \in Acquiring
      BY <2>1, <2>2 DEF Acquiring, Entering
  <2>4. QED
      BY <1>2, <1>3, <1>5, <2>1, <2>2, <2>3
<1>7. CASE LoadEntry(p, f)
  <2> DEFINE e == documents[t.key]
             to == IF e = NoEntry THEN "store" ELSE "compare"
             u == [t EXCEPT !.pc = to, !.entry = e]
  <2>1. /\ t.pc = "load" /\ Set(p, f, u) /\ UNCHANGED <<registryVars, projectVars>>
      BY <1>7 DEF LoadEntry, At
  <2>2. t.pc \in Acquiring
      BY <2>1 DEF Acquiring
  <2>3. e \in Entry \cup {NoEntry} /\ to \in {"store", "compare"} /\ (to = "store" <=> e = NoEntry)
      BY <1>5, <2>2 DEF SInv, TInv, StateOK
  <2> HIDE DEF to
  <2>4. /\ u \in TaskRecord /\ u.pc = to /\ u.key = t.key /\ u.old = t.old /\ u.entry = e
      BY <1>1, <2>3 DEF TaskRecord, Pc
  <2> HIDE DEF u
  <2>5. u.pc \in Acquiring /\ u.pc \notin {"lock", "count", "counted"}
      BY <2>3, <2>4 DEF Acquiring
  <2>6. QED
      BY <1>2, <1>3, <1>5, <2>1, <2>2, <2>3, <2>4, <2>5
<1>8. CASE CompareVersion(p, f)
  <2> DEFINE to == IF entries[t.entry].version # t.version THEN "replace" ELSE "count"
             u == [t EXCEPT !.pc = to]
  <2>1. /\ t.pc = "compare" /\ Set(p, f, u) /\ UNCHANGED <<registryVars, projectVars>>
      BY <1>8 DEF CompareVersion, At
  <2>2. t.pc \in Acquiring /\ t.pc \in Entering
      BY <2>1 DEF Acquiring, Entering
  <2>3. to \in {"replace", "count"}
      OBVIOUS
  <2> HIDE DEF to
  <2>5. /\ u \in TaskRecord /\ u.pc = to /\ u.key = t.key /\ u.old = t.old /\ u.entry = t.entry
      BY <1>1, <2>3 DEF TaskRecord, Pc
  <2> HIDE DEF u
  <2>6. u.pc \in Acquiring /\ u.pc \notin {"lock", "store", "counted"}
      BY <2>3, <2>5 DEF Acquiring
  <2>7. QED
      BY <1>2, <1>3, <1>5, <2>1, <2>2, <2>5, <2>6
<1>9. CASE ReadCount(p, f)
  <2> DEFINE n == entries[t.entry].refs
             u == [t EXCEPT !.pc = "counted", !.count = n]
  <2>1. /\ t.pc = "count" /\ Set(p, f, u) /\ UNCHANGED <<registryVars, projectVars>>
      BY <1>9 DEF ReadCount, At
  <2>2. t.pc \in Acquiring /\ t.pc \in Entering
      BY <2>1 DEF Acquiring, Entering
  <2>3. n \in Int
      BY <1>5, <2>2 DEF SInv, TInv, StateOK
  <2> HIDE DEF n
  <2>4. /\ u \in TaskRecord /\ u.pc = "counted" /\ u.key = t.key /\ u.old = t.old
        /\ u.entry = t.entry /\ u.count = n
      BY <1>1, <2>3 DEF TaskRecord, Pc
  <2> HIDE DEF u
  <2>5. u.pc \in Acquiring
      BY <2>4 DEF Acquiring
  <2>6. u.count = entries[u.entry].refs
      BY <1>5, <2>1, <2>2, <2>4 DEF n
  <2>7. QED
      BY <1>2, <1>3, <1>5, <2>1, <2>2, <2>4, <2>5, <2>6
<1>10. QED
    BY <1>4, <1>6, <1>7, <1>8, <1>9

\* The entry of another task is found after all: it is taken as it is.
LEMMA FoundFits ==
    ASSUME SInv, ~Upsets', NEW p \in Project, NEW f \in File, StoreEntry(p, f),
           documents[task[p][f].key] # NoEntry
    PROVE  SInv'
<1> DEFINE t == task[p][f]
           e == documents[t.key]
           u == [t EXCEPT !.pc = "lock", !.entry = e]
<1>0. TInv'
    BY AfterStoreOrCompare DEF SInv
<1>1. /\ t \in TaskRecord /\ Fits(p, f) /\ t.pc = "store" /\ t.pc \in Acquiring
      /\ t.pc \notin Releasing
    BY TaskOf DEF SInv, TInv, StoreEntry, At, Acquiring, Releasing, Leaving
<1>2. /\ t.key = PathKey(p, f) /\ t.old = program[p][f] /\ building[p][f] = NoDoc
      /\ phase[p] \in {"rebuild", "replace"} /\ (phase[p] = "replace" => program[p][f] # NoDoc)
      /\ e \in Entry
    BY <1>1, AcquiringHas DEF SInv, TInv, StateOK
<1>3. Set(p, f, u) /\ UNCHANGED <<registryVars, projectVars>>
    BY DEF StoreEntry
<1>4. u \in TaskRecord /\ u.pc = "lock" /\ u.key = t.key /\ u.old = t.old /\ u.entry = e
    BY <1>1, <1>2 DEF TaskRecord, Pc
<1> HIDE DEF u
<1>5. /\ Frame(p, f) /\ task'[p][f] = u /\ PathKey(p, f)' = PathKey(p, f)
      /\ UNCHANGED <<documents, entries, building, options, program, phase>>
    BY <1>3, <1>4, AloneFrames DEF PathKey
<1>6. u.pc \notin Releasing \cup Leaving /\ u.pc \in Acquiring /\ u.pc \in Entering
    BY <1>4 DEF Acquiring, Entering, Releasing, Leaving
<1>7. PhaseFits(p, f)' /\ KeyFits(p, f)'
    BY <1>1, <1>2, <1>4, <1>5, <1>6 DEF Fits, PhaseFits, KeyFits
<1>8. EntryFits(p, f)'
    BY <1>4, <1>5, <1>6 DEF EntryFits
<1>9. Fits(p, f)'
    BY <1>7, <1>8 DEF Fits
<1>10. QED
    BY <1>0, <1>1, <1>4, <1>5, <1>6, <1>9, AfterQuietWork

\* A new document is counted by nobody, and its task is about to count the first.
LEMMA StoreFits ==
    ASSUME SInv, ~Upsets', NEW p \in Project, NEW f \in File, StoreEntry(p, f),
           documents[task[p][f].key] = NoEntry
    PROVE  SInv'
<1> DEFINE t == task[p][f]
<1>0. TInv'
    BY AfterStoreOrCompare DEF SInv
<1>1. /\ t \in TaskRecord /\ Fits(p, f) /\ t.pc = "store" /\ t.pc \in Acquiring
      /\ documents \in [Key -> Entry \cup {NoEntry}]
      /\ entries \in [Entry -> EntryRecord]
    BY TaskOf DEF SInv, TInv, StateOK, EntryRecord, StoreEntry, At, Acquiring
<1>2. /\ t.key \in Key /\ t.key = PathKey(p, f) /\ t.old = program[p][f]
      /\ documents[t.key] = NoEntry /\ building[p][f] = NoDoc /\ t.key[1] = PathOf[f]
      /\ t.version \in Version /\ t.text \in Version /\ NoEntry \notin Entry
    BY <1>1, AcquiringHas, Distinct DEF TaskRecord
<1>3. PICK e \in Entry :
          /\ Unreachable(e)
          /\ documents' = [documents EXCEPT ![t.key] = e]
          /\ entries' = [entries EXCEPT ![e] =
                 [version |-> t.version, text |-> t.text, refs |-> 0, lock |-> Nobody]]
          /\ Set(p, f, [t EXCEPT !.pc = "lock", !.entry = e])
          /\ UNCHANGED <<scriptVars, projectVars>>
    BY <1>2 DEF StoreEntry
<1> DEFINE u == [t EXCEPT !.pc = "lock", !.entry = e]
<1>4. /\ u \in TaskRecord /\ u.pc = "lock" /\ u.key = t.key /\ u.old = t.old /\ u.entry = e
    BY <1>1 DEF TaskRecord, Pc
<1>5. Set(p, f, u)
    BY <1>3
<1> HIDE DEF u
<1>6. /\ task'[p][f] = u /\ UNCHANGED <<options, program, phase, building>>
      /\ \A q \in Project : \A g \in File : q # p \/ g # f => task'[q][g] = task[q][g]
    BY <1>3, <1>4, <1>5, OneTask DEF SInv, TInv, projectVars
<1>7. /\ documents'[t.key] = e
      /\ \A k \in Key : k # t.key => /\ documents'[k] = documents[k] /\ documents[k] # e
                                     /\ documents[k] # NoEntry =>
                                            entries'[documents[k]] = entries[documents[k]]
      /\ entries'[e].refs = 0
    BY <1>1, <1>2, <1>3 DEF Unreachable
<1>8. Frame(p, f)
  <2>1. \A q \in Project : \A g \in File : task[q][g].pc \in Leaving =>
            task[q][g].old.key \in Key /\ documents[task[q][g].old.key] # NoEntry
      BY LeavingHas
  <2>2. QED
      BY <1>2, <1>6, <1>7, <2>1 DEF Frame
<1>9. EntriesApart'
    BY <1>7 DEF SInv, EntriesApart
<1>10. PathKey(p, f)' = PathKey(p, f)
    BY <1>6 DEF PathKey
<1>11. Fits(p, f)'
  <2>1. PhaseFits(p, f)' /\ KeyFits(p, f)'
      BY <1>1, <1>2, <1>4, <1>6, <1>10
         DEF Fits, PhaseFits, KeyFits, Acquiring, Releasing, Leaving
  <2>2. EntryFits(p, f)'
      BY <1>4, <1>6, <1>7 DEF EntryFits, Leaving
  <2>3. QED
      BY <2>1, <2>2 DEF Fits
<1>12. ASSUME NEW k \in Key PROVE CountFits(k)'
  <2>1. \A q \in Project : \A g \in File :
            /\ Of(Main(q, g), k)' <=> Of(Main(q, g), k)
            /\ Of(Extra(q, g), k)' <=> Of(Extra(q, g), k)
            /\ Counts(q, g, k) => Counts(q, g, k)'
      BY <1>1, <1>4, <1>6 DEF Of, Main, Extra, Counts, Releasing, Leaving
  <2>2. Total(k)' = Total(k)
      BY <2>1, TotalStays
  <2>3. CASE k = t.key
    <3>1. Counts(p, f, k)' /\ Total(k)' = 0
        BY <1>2, <1>4, <1>6, <2>2, <2>3 DEF Counts, SInv, CountsAddUp, CountFits
    <3>2. QED
        BY <1>2, <1>7, <2>3, <3>1 DEF CountFits
  <2>4. CASE k # t.key
      BY <1>7, <2>1, <2>2, <2>4 DEF SInv, CountsAddUp, CountFits
  <2>5. QED
      BY <2>3, <2>4
<1>13. QED
    BY <1>0, <1>1, <1>8, <1>9, <1>11, <1>12, AfterWork

\* The task takes the mutex of the entry, and perhaps brings it up to date.
LEMMA LockFits ==
    ASSUME SInv, ~Upsets', NEW p \in Project, NEW f \in File, LockEntry(p, f)
    PROVE  SInv'
<1> DEFINE t == task[p][f]
           e == entries[t.entry]
<1>0. TInv'
    BY AfterCount DEF SInv
<1>1. /\ t \in TaskRecord /\ Fits(p, f) /\ t.pc \in {"replace", "lock"} /\ t.pc \in Acquiring
      /\ t.pc \in Entering
      /\ entries \in [Entry -> EntryRecord]
    BY TaskOf DEF SInv, TInv, StateOK, EntryRecord, LockEntry, Acquiring, Entering
<1>2. /\ t.key \in Key /\ t.key = PathKey(p, f) /\ t.old = program[p][f]
      /\ t.entry \in Entry /\ t.entry = documents[t.key] /\ building[p][f] = NoDoc
      /\ t.key[1] = PathOf[f] /\ NoEntry \notin Entry /\ phase[p] # "drop"
    BY <1>1, AcquiringHas, EnteringHas, Distinct
<1> DEFINE new == IF t.pc = "lock" THEN [e EXCEPT !.lock = <<p, f>>]
                  ELSE [e EXCEPT !.lock = <<p, f>>, !.version = t.version, !.text = t.text]
           u == [t EXCEPT !.pc = "count"]
<1>3. /\ entries' = [entries EXCEPT ![t.entry] = new] /\ Set(p, f, u)
      /\ UNCHANGED <<documents, scriptVars, projectVars>>
    BY DEF LockEntry
<1>4. new.refs = e.refs
    BY <1>1, <1>2 DEF EntryRecord
<1>5. /\ u \in TaskRecord /\ u.pc = "count" /\ u.key = t.key /\ u.old = t.old
      /\ u.entry = t.entry
    BY <1>1 DEF TaskRecord, Pc
<1> HIDE DEF u, new
<1>6. /\ task'[p][f] = u /\ UNCHANGED <<options, program, phase, building, documents>>
      /\ \A q \in Project : \A g \in File : q # p \/ g # f => task'[q][g] = task[q][g]
      /\ PathKey(p, f)' = PathKey(p, f)
    BY <1>3, <1>5, OneTask DEF SInv, TInv, projectVars, PathKey
<1>7. /\ entries'[t.entry] = new
      /\ \A g \in Entry : g # t.entry => entries'[g] = entries[g]
      /\ \A g \in Entry : entries'[g].refs = entries[g].refs
    BY <1>1, <1>2, <1>3, <1>4
<1>8. \A k \in Key : /\ documents[k] # NoEntry => documents[k] \in Entry
                     /\ k # t.key => documents[k] # t.entry
    BY <1>2 DEF SInv, EntriesApart, TInv, StateOK
<1>9. Frame(p, f)
    BY <1>2, <1>6, <1>7, <1>8 DEF Frame
<1>10. Fits(p, f)'
  <2>1. PhaseFits(p, f)' /\ KeyFits(p, f)'
      BY <1>1, <1>2, <1>5, <1>6 DEF Fits, PhaseFits, KeyFits, Acquiring, Releasing, Leaving
  <2>2. EntryFits(p, f)'
      BY <1>2, <1>4, <1>5, <1>6, <1>7 DEF EntryFits, Leaving
  <2>3. QED
      BY <2>1, <2>2 DEF Fits
<1>11. \A k \in Key : documents[k] # NoEntry =>
           entries'[documents[k]].refs = entries[documents[k]].refs
    BY <1>7, <1>8
<1>12. t.pc \notin Releasing /\ u.pc \notin Releasing
    BY <1>1, <1>5 DEF Releasing, Leaving
<1>13. QED
    BY <1>0, <1>1, <1>5, <1>6, <1>9, <1>10, <1>11, <1>12, AfterQuietWork

\* The new document is counted, and the old one until it is released.
LEMMA WriteFits ==
    ASSUME SInv, ~Upsets', NEW p \in Project, NEW f \in File, WriteCount(p, f)
    PROVE  SInv'
<1> DEFINE t == task[p][f]
           e == entries[t.entry]
<1>0. TInv'
    BY AfterCount DEF SInv
<1>1. /\ t \in TaskRecord /\ Fits(p, f) /\ t.pc = "counted" /\ t.pc \in Acquiring
      /\ t.pc \in Entering /\ t.pc # "idle"
      /\ t.pc \notin Releasing
      /\ entries \in [Entry -> EntryRecord]
      /\ program[p][f] \in Doc \cup {NoDoc} /\ NoDoc \notin Doc
    BY TaskOf, Distinct
       DEF SInv, TInv, StateOK, EntryRecord, WriteCount, At, Acquiring, Entering, Releasing, Leaving
<1>2. /\ t.key \in Key /\ t.key = PathKey(p, f) /\ t.old = program[p][f]
      /\ t.entry \in Entry /\ t.entry = documents[t.key] /\ building[p][f] = NoDoc
      /\ t.key[1] = PathOf[f] /\ t.count = e.refs
      /\ NoEntry \notin Entry
      /\ phase[p] \in {"rebuild", "replace"}
      /\ phase[p] = "replace" => program[p][f] # NoDoc
  <2>1. EntryFits(p, f)
      BY <1>1 DEF Fits
  <2>2. t.count = e.refs
      BY <1>1, <2>1 DEF EntryFits
  <2>3. QED
      BY <1>1, <2>2, AcquiringHas, EnteringHas, Distinct
<1> DEFINE d == [key |-> t.key, version |-> e.version, text |-> e.text]
           new == [e EXCEPT !.refs = t.count + 1, !.lock = Unlock(t.entry, <<p, f>>)]
           u == [Idle EXCEPT !.pc = AfterAcquire(t.old), !.old = t.old, !.version = t.version]
<1>3. /\ entries' = [entries EXCEPT ![t.entry] = new]
      /\ building' = [building EXCEPT ![p][f] = d] /\ task' = [task EXCEPT ![p][f] = u]
      /\ UNCHANGED <<documents, options, program, phase>>
    BY <1>1, <1>2 DEF WriteCount
<1>4. u \in TaskRecord /\ u.pc = AfterAcquire(t.old) /\ u.old = t.old
  <2>1. t.old \in Doc \cup {NoDoc} /\ t.version \in Version /\ AfterAcquire(t.old) \in Pc
      BY <1>1 DEF TaskRecord, AfterAcquire, Pc
  <2>2. QED
      BY <2>1, IdleType DEF TaskRecord, Idle
<1>5. /\ d \in Doc /\ d.key = t.key /\ d.version = e.version /\ d # NoDoc
  <2>1. e.version \in Version /\ e.text \in Version
      BY <1>1, <1>2 DEF EntryRecord
  <2>2. d \in Doc /\ d.key = t.key /\ d.version = e.version
      BY <1>2, <2>1 DEF Doc
  <2>3. QED
      BY <1>1, <2>2
<1>6. new.refs = e.refs + 1
    BY <1>1, <1>2 DEF EntryRecord
<1>7. Set(p, f, u) /\ UNCHANGED <<documents, options, program, phase>>
    BY <1>3 DEF Set
<1> HIDE DEF u, d, new
<1>8. /\ task'[p][f] = u
      /\ \A q \in Project : \A g \in File : q # p \/ g # f => task'[q][g] = task[q][g]
      /\ PathKey(p, f)' = PathKey(p, f)
    BY <1>4, <1>7, OneTask DEF SInv, TInv, PathKey
<1>9. /\ building'[p][f] = d
      /\ \A q \in Project : \A g \in File : q # p \/ g # f => building'[q][g] = building[q][g]
    BY <1>3 DEF SInv, TInv, StateOK
<1>10. /\ entries'[t.entry] = new
       /\ \A g \in Entry : g # t.entry => entries'[g] = entries[g]
    BY <1>1, <1>2, <1>3
<1>11. \A k \in Key : /\ documents[k] # NoEntry => documents[k] \in Entry
                      /\ k # t.key => documents[k] # t.entry
    BY <1>2 DEF SInv, EntriesApart, TInv, StateOK
<1>12. Frame(p, f)
    BY <1>2, <1>7, <1>8, <1>9, <1>10, <1>11 DEF Frame
<1>13. EntriesApart'
    BY <1>7 DEF SInv, EntriesApart
<1>14. /\ u.pc \in {"idle", "release"} /\ (u.pc = "release" <=> program[p][f] # NoDoc)
       /\ u.pc \in Releasing <=> u.pc = "release"
       /\ u.pc \notin Acquiring \cup Entering \cup Leaving
    BY <1>2, <1>4 DEF AfterAcquire, Releasing, Acquiring, Entering, Leaving
<1>15. Fits(p, f)'
  <2>1. PhaseFits(p, f)' /\ KeyFits(p, f)'
      BY <1>1, <1>2, <1>4, <1>5, <1>7, <1>8, <1>9, <1>14 DEF Fits, PhaseFits, KeyFits
  <2>2. EntryFits(p, f)'
      BY <1>8, <1>14 DEF EntryFits
  <2>3. QED
      BY <2>1, <2>2 DEF Fits
<1>16. ASSUME NEW k \in Key PROVE CountFits(k)'
  <2>1. \A q \in Project : \A g \in File : q # p \/ g # f =>
            /\ Of(Main(q, g), k)' <=> Of(Main(q, g), k)
            /\ Of(Extra(q, g), k)' <=> Of(Extra(q, g), k)
            /\ Counts(q, g, k)' <=> Counts(q, g, k)
      BY <1>1, <1>12, OthersFit
  <2>2. Total(k)' = Total(k) + Bit(k = t.key)
    <3>1. /\ Of(Main(p, f), k)' <=> k = t.key
          /\ Of(Main(p, f), k) <=> Of(program[p][f], k)
          /\ Of(Extra(p, f), k)' <=> Of(program[p][f], k)
          /\ ~Of(Extra(p, f), k)
        BY <1>1, <1>2, <1>4, <1>5, <1>7, <1>8, <1>9, <1>14 DEF Of, Main, Extra
    <3>2. Total(k)' = Total(k) + Bit(Of(Main(p, f), k)') - Bit(Of(Main(p, f), k))
                               + Bit(Of(Extra(p, f), k)') - Bit(Of(Extra(p, f), k))
        BY <2>1, TotalMoves
    <3>3. QED
        BY <3>1, <3>2, FiniteHolders DEF Bit
  <2>3. CASE k = t.key
    <3>1. e.refs = Total(k)
        BY <1>2, <2>3 DEF SInv, CountsAddUp, CountFits
    <3>2. Total(k)' = Total(k) + 1 /\ Total(k) \in Nat
        BY <2>2, <2>3, FiniteHolders DEF Bit
    <3>3. entries'[documents'[k]].refs = Total(k)' /\ Total(k)' # 0 /\ documents'[k] # NoEntry
        BY <1>2, <1>6, <1>7, <1>10, <2>3, <3>1, <3>2
    <3>4. QED
        BY <3>3 DEF CountFits
  <2>4. CASE k # t.key
    <3>1. Total(k)' = Total(k)
        BY <2>2, <2>4, FiniteHolders DEF Bit
    <3>2. \A q \in Project : \A g \in File : Counts(q, g, k) => Counts(q, g, k)'
        BY <2>1, <2>4 DEF Counts
    <3>3. QED
        BY <1>7, <1>10, <1>11, <2>4, <3>1, <3>2 DEF SInv, CountsAddUp, CountFits
  <2>5. QED
      BY <2>3, <2>4
<1>17. QED
    BY <1>0, <1>1, <1>12, <1>13, <1>15, <1>16, AfterWork

\* The task goes on with its release; it finds an entry, since it holds the document.
LEMMA ReleaseFits ==
    ASSUME SInv, ~Upsets', NEW p \in Project, NEW f \in File,
           LoadReleased(p, f) \/ LockReleased(p, f) \/ ReleaseDropped(p, f)
    PROVE  SInv'
<1> DEFINE t == task[p][f]
           e == entries[t.entry]
<1>0. TInv'
    BY AfterRelease DEF SInv
<1>1. /\ t \in TaskRecord /\ Fits(p, f) /\ t.pc \in {"dropped", "release", "releasing"}
      /\ t.pc \in Releasing /\ t.pc # "idle" /\ t.pc \notin {"version"} \cup Acquiring \cup Entering
      /\ entries \in [Entry -> EntryRecord]
    BY TaskOf DEF SInv, TInv, StateOK, EntryRecord, LoadReleased, LockReleased, ReleaseDropped,
                  At, Releasing, Leaving, Acquiring, Entering
<1>2. /\ t.old \in Doc /\ t.old.key \in Key /\ t.old.key[1] = PathOf[f]
      /\ t.old # NoDoc
    BY <1>1, KeysHavePath, Distinct
<1>3. documents[t.old.key] # NoEntry
  <2>1. Of(Main(p, f), t.old.key) \/ Of(Extra(p, f), t.old.key)
      BY <1>1, <1>2 DEF Of, Main, Extra
  <2>2. Total(t.old.key) # 0
      BY <2>1, HeldIsCounted
  <2>3. QED
      BY <1>2, <2>2 DEF SInv, CountsAddUp, CountFits
<1>4. documents[t.old.key] \in Entry
    BY <1>2, <1>3 DEF SInv, TInv, StateOK
<1>5. ASSUME NEW u \in TaskRecord, Set(p, f, u), UNCHANGED <<documents, projectVars>>,
             u.pc \in {"release", "releasing", "released"}, u.old = t.old,
             u.pc \in Leaving => u.entry = documents[t.old.key],
             u.pc = "released" => u.count = entries'[u.entry].refs,
             \A g \in Entry : /\ g # documents[t.old.key] => entries'[g] = entries[g]
                              /\ entries'[g].refs = entries[g].refs
      PROVE  SInv'
  <2>1. /\ task'[p][f] = u /\ UNCHANGED <<options, program, phase, building, documents>>
        /\ \A q \in Project : \A g \in File : q # p \/ g # f => task'[q][g] = task[q][g]
        /\ PathKey(p, f)' = PathKey(p, f)
      BY <1>5, OneTask DEF SInv, TInv, projectVars, PathKey
  <2>2. u.pc \in Releasing /\ u.pc # "dropped" /\ u.pc \notin {"version", "idle"} \cup Acquiring \cup Entering
      BY <1>5 DEF Releasing, Leaving, Acquiring, Entering
  <2>3. \A k \in Key : /\ documents[k] # NoEntry => documents[k] \in Entry
                       /\ k # t.old.key => documents[k] # documents[t.old.key]
      BY <1>2, <1>3 DEF SInv, EntriesApart, TInv, StateOK
  <2>4. Frame(p, f)
      BY <1>2, <1>5, <2>1, <2>3 DEF Frame
  <2>5. PhaseFits(p, f)'
      BY <1>1, <2>1, <2>2 DEF Fits, PhaseFits
  <2>6. KeyFits(p, f)'
      BY <1>1, <1>5, <2>1, <2>2 DEF Fits, KeyFits
  <2>7. EntryFits(p, f)'
      BY <1>5, <2>1, <2>2 DEF EntryFits
  <2>9. \A k \in Key : documents[k] # NoEntry =>
            entries'[documents[k]].refs = entries[documents[k]].refs
      BY <1>5, <2>3
  <2>10. t.pc \notin {"lock", "count", "counted"}
      BY <1>1
  <2>11. Fits(p, f)'
      BY <2>5, <2>6, <2>7 DEF Fits
  <2>12. QED
      BY <1>0, <1>1, <1>5, <2>1, <2>2, <2>4, <2>9, <2>10, <2>11, AfterQuietWork
<1>6. CASE LoadReleased(p, f)
  <2> DEFINE x == documents[t.old.key]
             u == [t EXCEPT !.pc = "releasing", !.entry = x]
  <2>1. Set(p, f, u) /\ UNCHANGED <<registryVars, projectVars>>
      BY <1>3, <1>6 DEF LoadReleased
  <2>2. /\ u \in TaskRecord /\ u.pc = "releasing" /\ u.old = t.old
        /\ u.entry = x
      BY <1>1, <1>4 DEF TaskRecord, Pc
  <2> HIDE DEF u
  <2>3. UNCHANGED <<documents, entries, projectVars>>
      BY <2>1 DEF registryVars
  <2>4. QED
      BY <1>5, <2>1, <2>2, <2>3
<1>7. CASE LockReleased(p, f)
  <2> DEFINE u == [t EXCEPT !.pc = "released", !.count = e.refs]
             new == [e EXCEPT !.lock = <<p, f>>]
  <2>1. /\ t.pc = "releasing" /\ Set(p, f, u)
        /\ entries' = [entries EXCEPT ![t.entry].lock = <<p, f>>]
        /\ UNCHANGED <<documents, projectVars>>
      BY <1>7 DEF LockReleased, At
  <2>2. t.entry = documents[t.old.key] /\ t.entry \in Entry /\ e \in EntryRecord
      BY <1>1, <1>4, <2>1 DEF Fits, EntryFits, Leaving
  <2>3. new.refs = e.refs /\ e.refs \in Int
      BY <2>2 DEF EntryRecord
  <2>4. entries' = [entries EXCEPT ![t.entry] = new]
      BY <1>1, <2>1, <2>2
  <2>5. /\ u \in TaskRecord /\ u.pc = "released" /\ u.old = t.old
        /\ u.entry = t.entry /\ u.count = e.refs
      BY <1>1, <2>3 DEF TaskRecord, Pc
  <2> HIDE DEF u, new
  <2>6. \A g \in Entry : /\ g # documents[t.old.key] => entries'[g] = entries[g]
                         /\ entries'[g].refs = entries[g].refs
      BY <1>1, <2>2, <2>3, <2>4
  <2>7. u.count = entries'[u.entry].refs
      BY <2>2, <2>5, <2>6
  <2>8. QED
      BY <1>5, <2>1, <2>2, <2>5, <2>6, <2>7
<1>8. CASE ReleaseDropped(p, f)
  <2> DEFINE u == [t EXCEPT !.pc = "release"]
  <2>1. Set(p, f, u) /\ UNCHANGED <<registryVars, projectVars>>
      BY <1>8 DEF ReleaseDropped
  <2>2. u \in TaskRecord /\ u.pc = "release" /\ u.old = t.old
      BY <1>1 DEF TaskRecord, Pc
  <2> HIDE DEF u
  <2>3. UNCHANGED <<documents, entries, projectVars>> /\ u.pc \notin Leaving
      BY <2>1, <2>2 DEF registryVars, Leaving
  <2>4. QED
      BY <1>5, <2>1, <2>2, <2>3
<1>9. QED
    BY <1>6, <1>7, <1>8

\* The task counts itself out, and the last one takes the document off the registry.
LEMMA WriteReleasedFits ==
    ASSUME SInv, ~Upsets', NEW p \in Project, NEW f \in File, WriteReleased(p, f)
    PROVE  SInv'
<1> DEFINE t == task[p][f]
           e == entries[t.entry]
           k0 == t.old.key
<1>0. TInv'
    BY AfterRelease DEF SInv
<1>1. /\ t \in TaskRecord /\ Fits(p, f) /\ t.pc = "released" /\ t.pc \in Leaving
      /\ t.pc \in Releasing /\ t.pc # "idle" /\ t.pc \notin {"version"} \cup Acquiring \cup Entering
      /\ entries \in [Entry -> EntryRecord]
      /\ program[p][f] \in Doc \cup {NoDoc}
    BY TaskOf DEF SInv, TInv, StateOK, EntryRecord, WriteReleased, At, Releasing, Leaving,
                  Acquiring, Entering
<1>2. /\ t.old \in Doc /\ k0 \in Key /\ k0[1] = PathOf[f] /\ t.old # NoDoc
      /\ t.entry \in Entry /\ t.entry = documents[k0] /\ t.count = e.refs /\ documents[k0] # NoEntry
  <2>1. EntryFits(p, f)
      BY <1>1 DEF Fits
  <2>2. t.count = e.refs
      BY <1>1, <2>1 DEF EntryFits
  <2>3. QED
      BY <1>1, <2>2, LeavingHas
<1>3. /\ Of(Main(p, f), k0) \/ Of(Extra(p, f), k0)
      /\ e.refs = Total(k0) /\ Total(k0) # 0 /\ Total(k0) \in Nat
  <2>1. Of(Main(p, f), k0) \/ Of(Extra(p, f), k0)
      BY <1>1, <1>2 DEF Of, Main, Extra
  <2>2. QED
      BY <1>2, <2>1, HeldIsCounted, FiniteHolders DEF SInv, CountsAddUp, CountFits
<1> DEFINE new == [e EXCEPT !.refs = t.count - 1, !.lock = Nobody]
<1>4. /\ entries' = [entries EXCEPT ![t.entry] = new]
      /\ documents' = IF t.count - 1 = 0 THEN [documents EXCEPT ![k0] = NoEntry] ELSE documents
      /\ Set(p, f, Idle) /\ UNCHANGED projectVars
    BY <1>1, <1>2 DEF WriteReleased, Unregister, Set
<1>5. new.refs = e.refs - 1
    BY <1>1, <1>2 DEF EntryRecord
<1> HIDE DEF new
<1>6. /\ task'[p][f] = Idle /\ UNCHANGED <<options, program, phase, building>>
      /\ \A q \in Project : \A g \in File : q # p \/ g # f => task'[q][g] = task[q][g]
      /\ PathKey(p, f)' = PathKey(p, f)
    BY <1>4, IdleType, OneTask DEF SInv, TInv, projectVars, PathKey
<1>7. /\ entries'[t.entry] = new
      /\ \A g \in Entry : g # t.entry => entries'[g] = entries[g]
    BY <1>1, <1>2, <1>4
<1>8. \A k \in Key : /\ documents[k] # NoEntry => documents[k] \in Entry
                     /\ k # k0 => documents[k] # t.entry /\ documents'[k] = documents[k]
    BY <1>2, <1>4 DEF SInv, EntriesApart, TInv, StateOK
<1>9. documents'[k0] = IF Total(k0) = 1 THEN NoEntry ELSE documents[k0]
  <2>1. t.count - 1 = 0 <=> Total(k0) = 1
      BY <1>2, <1>3
  <2>2. documents \in [Key -> Entry \cup {NoEntry}]
      BY DEF SInv, TInv, StateOK
  <2>3. QED
      BY <1>2, <1>4, <2>1, <2>2
<1>10. Frame(p, f)
  <2>1. ASSUME NEW q \in Project, NEW g \in File, q # p \/ g # f, task[q][g].pc \in Leaving
        PROVE  documents'[task[q][g].old.key] = documents[task[q][g].old.key]
    <3>1. /\ task[q][g].old.key \in Key /\ task[q][g].pc \in Releasing
          /\ Of(Main(q, g), task[q][g].old.key) \/ Of(Extra(q, g), task[q][g].old.key)
        BY <2>1, LeavingHas DEF Of, Main, Extra, Releasing
    <3>2. Total(k0) = 1 => task[q][g].old.key # k0
        BY <1>3, <2>1, <3>1, OnlyHolder
    <3>3. QED
        BY <1>8, <1>9, <3>1, <3>2
  <2>2. QED
      BY <1>2, <1>6, <1>7, <1>8, <2>1 DEF Frame
<1>11. EntriesApart'
    BY <1>8, <1>9 DEF SInv, EntriesApart
<1>12. /\ Idle.pc = "idle"
       /\ Idle.pc \notin {"version"} \cup Acquiring \cup Entering \cup Leaving \cup Releasing
    BY DEF Idle, Acquiring, Entering, Leaving, Releasing
<1>13. Fits(p, f)'
  <2>1. PhaseFits(p, f)'
      BY <1>1, <1>6, <1>12 DEF Fits, PhaseFits
  <2>2. KeyFits(p, f)'
      BY <1>1, <1>6, <1>12 DEF Fits, KeyFits
  <2>3. EntryFits(p, f)'
      BY <1>6, <1>12 DEF EntryFits
  <2>4. QED
      BY <2>1, <2>2, <2>3 DEF Fits
<1>14. ASSUME NEW k \in Key PROVE CountFits(k)'
  <2>1. \A q \in Project : \A g \in File : q # p \/ g # f =>
            /\ Of(Main(q, g), k)' <=> Of(Main(q, g), k)
            /\ Of(Extra(q, g), k)' <=> Of(Extra(q, g), k)
            /\ Counts(q, g, k)' <=> Counts(q, g, k)
      BY <1>1, <1>10, OthersFit
  <2>2. Total(k)' = Total(k) - Bit(k = k0)
    <3>1. Total(k)' = Total(k) + Bit(Of(Main(p, f), k)') - Bit(Of(Main(p, f), k))
                               + Bit(Of(Extra(p, f), k)') - Bit(Of(Extra(p, f), k))
        BY <2>1, TotalMoves
    <3>2. CASE phase[p] = "drop"
      <4>1. /\ ~Of(Main(p, f), k)' /\ (Of(Main(p, f), k) <=> k = k0)
            /\ ~Of(Extra(p, f), k)' /\ ~Of(Extra(p, f), k)
          BY <1>1, <1>2, <1>6, <1>12, <3>2 DEF Fits, PhaseFits, Of, Main, Extra
      <4>2. QED
          BY <3>1, <4>1, FiniteHolders DEF Bit
    <3>3. CASE phase[p] # "drop"
      <4>1. /\ Of(Main(p, f), k)' <=> Of(Main(p, f), k)
            /\ ~Of(Extra(p, f), k)' /\ (Of(Extra(p, f), k) <=> k = k0)
          BY <1>1, <1>2, <1>6, <1>12, <3>3 DEF Of, Main, Extra
      <4>2. QED
          BY <3>1, <4>1, FiniteHolders DEF Bit
    <3>4. QED
        BY <3>2, <3>3
  <2>3. CASE k = k0
    <3>1. Total(k)' = Total(k) - 1
        BY <2>2, <2>3, FiniteHolders DEF Bit
    <3>2. CASE Total(k) = 1
        BY <1>9, <2>3, <3>1, <3>2 DEF CountFits
    <3>3. CASE Total(k) # 1
      <4>1. /\ documents'[k] = t.entry /\ documents'[k] # NoEntry
            /\ entries'[documents'[k]].refs = Total(k)'
          BY <1>2, <1>3, <1>5, <1>7, <1>9, <2>3, <3>1, <3>3
      <4>2. Total(k)' # 0
          BY <1>3, <2>3, <3>1, <3>3
      <4>3. QED
          BY <4>1, <4>2 DEF CountFits
    <3>4. QED
        BY <3>2, <3>3
  <2>4. CASE k # k0
    <3>1. Total(k)' = Total(k)
        BY <2>2, <2>4, FiniteHolders DEF Bit
    <3>2. \A q \in Project : \A g \in File : Counts(q, g, k) => Counts(q, g, k)'
        BY <1>1, <2>1 DEF Counts
    <3>3. QED
        BY <1>7, <1>8, <2>4, <3>1, <3>2 DEF SInv, CountsAddUp, CountFits
  <2>5. QED
      BY <2>3, <2>4
<1>15. QED
    BY <1>0, <1>1, <1>10, <1>11, <1>13, <1>14, AfterWork

-----------------------------------------------------------------------------
(***************************************************************************)
(* From phase to phase.                                                    *)
(***************************************************************************)

\* A step of the update of p while its tasks are idle moves documents between the
\* programs and the tasks, and neither adds nor drops one.
LEMMA PhaseFrame ==
    ASSUME SInv, ~Upsets', NEW p \in Project, Quiet(p), TInv', UNCHANGED <<documents, entries>>,
           \A q \in Project : q # p =>
               /\ task'[q] = task[q] /\ building'[q] = building[q] /\ program'[q] = program[q]
               /\ phase'[q] = phase[q] /\ options'[q] = options[q],
           phase'[p] = "idle" => Quiet(p)',
           \A f \in File : /\ Fits(p, f)'
                           /\ \A k : /\ Of(Main(p, f), k)' <=> Of(Main(p, f), k)
                                     /\ Of(Extra(p, f), k)' <=> Of(Extra(p, f), k)
    PROVE  SInv'
<1>2. Resting'
    BY DEF SInv, Resting, Quiet
<1>3. EntriesApart'
    BY DEF SInv, EntriesApart
<1>4. ASSUME NEW q \in Project, NEW f \in File, q # p
      PROVE  /\ Fits(q, f)'
             /\ \A k : /\ Of(Main(q, f), k)' <=> Of(Main(q, f), k)
                       /\ Of(Extra(q, f), k)' <=> Of(Extra(q, f), k)
  <2>1. /\ task'[q][f] = task[q][f] /\ building'[q][f] = building[q][f]
        /\ program'[q][f] = program[q][f] /\ phase'[q] = phase[q]
        /\ PathKey(q, f)' = PathKey(q, f) /\ Fits(q, f)
      BY <1>4 DEF PathKey, SInv
  <2>2. PhaseFits(q, f)' /\ KeyFits(q, f)'
      BY <2>1 DEF Fits, PhaseFits, KeyFits
  <2>3. EntryFits(q, f)'
      BY <2>1 DEF Fits, EntryFits
  <2>4. \A k : /\ Of(Main(q, f), k)' <=> Of(Main(q, f), k)
               /\ Of(Extra(q, f), k)' <=> Of(Extra(q, f), k)
      BY <2>1 DEF Of, Main, Extra
  <2>5. QED
      BY <2>2, <2>3, <2>4 DEF Fits
<1>5. ASSUME NEW k \in Key PROVE CountFits(k)'
  <2>1. Total(k)' = Total(k)
      BY <1>4, TotalStays
  <2>2. \A q \in Project : \A g \in File : Counts(q, g, k) => Counts(q, g, k)'
    <3>1. \A g \in File : ~Counts(p, g, k)
        BY DEF Quiet, Counts
    <3>2. QED
        BY <3>1 DEF Counts
  <2>3. QED
      BY <2>1, <2>2 DEF SInv, CountsAddUp, CountFits
<1>6. QED
    BY <1>2, <1>3, <1>4, <1>5 DEF SInv, CountsAddUp

\* The tasks of an update that starts, or starts again, have taken nothing yet.
LEMMA LoadFits ==
    ASSUME SInv, ~Upsets', NEW p \in Project, NEW files, Load(p, files), Quiet(p),
           TInv', NEW to \in {"rebuild", "replace"}, phase' = [phase EXCEPT ![p] = to],
           \A q \in Project : q # p => options'[q] = options[q],
           phase[p] \in {"idle", "replace"},
           to = "replace" => /\ options'[p] = options[p]
                             /\ \A f \in files : program[p][f] # NoDoc
    PROVE  SInv'
<1>1. /\ LoadTasks(files) \in [File -> TaskRecord]
      /\ task' = [task EXCEPT ![p] = LoadTasks(files)]
      /\ \A f \in File : LoadTasks(files)[f].pc = IF f \in files THEN "version" ELSE "idle"
      /\ \A f \in File : building'[p][f] = NoDoc
      /\ \A q \in Project : q # p => building'[q] = building[q]
      /\ UNCHANGED <<documents, entries, program>>
    BY Loads DEF SInv, registryVars
<1>2. PICK ts : ts = LoadTasks(files)
    OBVIOUS
<1>3. task'[p] = ts /\ \A q \in Project : q # p => task'[q] = task[q]
    BY <1>1, <1>2 DEF SInv, TInv, StateOK
<1>4. phase'[p] = to /\ \A q \in Project : q # p => phase'[q] = phase[q]
    BY Advances DEF SInv, TInv
<1>5. ASSUME NEW f \in File
      PROVE  /\ Fits(p, f)'
             /\ \A k : /\ Of(Main(p, f), k)' <=> Of(Main(p, f), k)
                       /\ Of(Extra(p, f), k)' <=> Of(Extra(p, f), k)
  <2>1. /\ task'[p][f].pc = IF f \in files THEN "version" ELSE "idle"
        /\ building'[p][f] = NoDoc /\ program'[p][f] = program[p][f] /\ phase'[p] = to
        /\ task'[p][f].pc \notin Acquiring \cup Entering \cup Leaving \cup Releasing
        /\ Fits(p, f) /\ task[p][f].pc \notin Releasing /\ phase[p] \in {"idle", "replace"}
      BY <1>1, <1>2, <1>3, <1>4
         DEF SInv, Quiet, Acquiring, Entering, Leaving, Releasing
  <2>2. to = "replace" => PathKey(p, f)' = PathKey(p, f)
      BY DEF PathKey
  <2>3. PhaseFits(p, f)'
      BY <2>1 DEF PhaseFits
  <2>4. KeyFits(p, f)'
      BY <2>1, <2>2 DEF Fits, KeyFits
  <2>5. EntryFits(p, f)'
      BY <2>1 DEF EntryFits, Leaving, Entering, Acquiring
  <2>6. phase[p] = "replace" /\ building[p][f] # NoDoc =>
            program[p][f] # NoDoc /\ program[p][f].key = building[p][f].key
      BY <2>1 DEF Fits, PhaseFits, KeyFits
  <2>7. \A k : /\ Of(Main(p, f), k)' <=> Of(Main(p, f), k)
               /\ Of(Extra(p, f), k)' <=> Of(Extra(p, f), k)
      BY <2>1, <2>6 DEF Of, Main, Extra
  <2>8. QED
      BY <2>3, <2>4, <2>5, <2>7 DEF Fits
<1>6. QED
    BY <1>1, <1>3, <1>4, <1>5, PhaseFrame

\* An update begins, or begins anew when a file cannot be replaced.
LEMMA StartFits ==
    ASSUME SInv, ~Upsets', NEW p \in Project,
           RebuildProgram(p) \/ UpdateProgram(p) \/ CannotReplaceFile(p)
    PROVE  SInv'
<1>0. TInv' /\ options \in [Project -> Option]
    BY AfterPhaseStep DEF SInv, TInv, StateOK
<1>1. CASE RebuildProgram(p)
  <2>1. PICK files \in SUBSET File : Load(p, files)
      BY <1>1 DEF RebuildProgram
  <2>2. /\ phase[p] = "idle" /\ phase' = [phase EXCEPT ![p] = "rebuild"]
        /\ \A q \in Project : q # p => options'[q] = options[q]
      BY <1>0, <1>1 DEF RebuildProgram
  <2>3. Quiet(p)
      BY <2>2 DEF SInv, Resting
  <2>4. QED
      BY <1>0, <2>1, <2>2, <2>3, LoadFits
<1>2. CASE UpdateProgram(p)
  <2>1. PICK files : Load(p, files) /\ \E f \in Held(p) : files = {f}
      BY <1>2 DEF UpdateProgram
  <2>2. /\ phase[p] = "idle" /\ phase' = [phase EXCEPT ![p] = "replace"]
        /\ options' = options
      BY <1>2 DEF UpdateProgram
  <2>3. Quiet(p)
      BY <2>2 DEF SInv, Resting
  <2>4. \A g \in files : program[p][g] # NoDoc
      BY <2>1 DEF Held
  <2>5. QED
      BY <1>0, <2>1, <2>2, <2>3, <2>4, LoadFits
<1>3. CASE CannotReplaceFile(p)
  <2>1. PICK files \in SUBSET File : Load(p, files)
      BY <1>3 DEF CannotReplaceFile
  <2>2. /\ phase[p] = "replace" /\ Quiet(p)
        /\ phase' = [phase EXCEPT ![p] = "rebuild"] /\ options' = options
      BY <1>3 DEF CannotReplaceFile
  <2>3. QED
      BY <1>0, <2>1, <2>2, LoadFits
<1>4. QED
    BY <1>1, <1>2, <1>3

\* A file that is replaced in the program of an edited project.
LEMMA ReplaceFits ==
    ASSUME SInv, ~Upsets', NEW p \in Project, ReplaceFile(p)
    PROVE  SInv'
<1>0. TInv' /\ program \in [Project -> [File -> Doc \cup {NoDoc}]]
    BY AfterPhaseStep DEF SInv, TInv, StateOK
<1>1. /\ phase[p] = "replace" /\ Quiet(p)
      /\ program' = [program EXCEPT ![p] =
             [f \in File |-> IF building[p][f] # NoDoc THEN building[p][f] ELSE program[p][f]]]
      /\ phase' = [phase EXCEPT ![p] = "idle"]
      /\ UNCHANGED <<documents, entries, options, building, task>>
    BY <1>0 DEF ReplaceFile, registryVars
<1>2. phase'[p] = "idle" /\ \A q \in Project : q # p => phase'[q] = phase[q]
    BY <1>1, Advances DEF SInv, TInv
<1>3. /\ \A f \in File : program'[p][f] = IF building[p][f] # NoDoc THEN building[p][f]
                                          ELSE program[p][f]
      /\ \A q \in Project : q # p => program'[q] = program[q]
    BY <1>0, <1>1
<1>4. ASSUME NEW f \in File
      PROVE  /\ Fits(p, f)'
             /\ \A k : /\ Of(Main(p, f), k)' <=> Of(Main(p, f), k)
                       /\ Of(Extra(p, f), k)' <=> Of(Extra(p, f), k)
  <2>1. /\ Fits(p, f) /\ task[p][f].pc = "idle" /\ PathKey(p, f)' = PathKey(p, f)
        /\ task[p][f].pc \notin Acquiring \cup Entering \cup Leaving \cup Releasing
        /\ PathKey(p, f)[1] = PathOf[f]
      BY <1>1 DEF SInv, Quiet, PathKey, Acquiring, Entering, Leaving, Releasing
  <2>2. PhaseFits(p, f)' /\ KeyFits(p, f)'
      BY <1>1, <1>2, <1>3, <2>1 DEF Fits, PhaseFits, KeyFits
  <2>3. EntryFits(p, f)'
      BY <1>1, <1>2, <2>1 DEF EntryFits
  <2>4. \A k : /\ Of(Main(p, f), k)' <=> Of(Main(p, f), k)
               /\ Of(Extra(p, f), k)' <=> Of(Extra(p, f), k)
      BY <1>1, <1>2, <1>3, <2>1 DEF Of, Main, Extra
  <2>5. QED
      BY <2>2, <2>3, <2>4 DEF Fits
<1>5. Quiet(p)'
    BY <1>1 DEF Quiet
<1>6. QED
    BY <1>0, <1>1, <1>2, <1>3, <1>4, <1>5, PhaseFrame

\* The new program takes the place of the old one, and the dropped files are released.
LEMMA InstallFits ==
    ASSUME SInv, ~Upsets', NEW p \in Project, InstallProgram(p)
    PROVE  SInv'
<1>0. /\ TInv' /\ program \in [Project -> [File -> Doc \cup {NoDoc}]]
      /\ task \in [Project -> [File -> TaskRecord]]
    BY AfterPhaseStep DEF SInv, TInv, StateOK, TaskRecord
<1>1. /\ phase[p] = "rebuild" /\ Quiet(p)
      /\ program' = [program EXCEPT ![p] = building[p]]
      /\ phase' = [phase EXCEPT ![p] = "drop"]
      /\ task' = [task EXCEPT ![p] = DropTasks(p)]
      /\ UNCHANGED <<documents, entries, options, building>>
    BY DEF InstallProgram, DropTasks, registryVars
<1>2. phase'[p] = "drop" /\ \A q \in Project : q # p => phase'[q] = phase[q]
    BY <1>1, Advances DEF SInv, TInv
<1>3. PICK ts : ts = DropTasks(p)
    OBVIOUS
<1>4. /\ task'[p] = ts /\ program'[p] = building[p]
      /\ \A q \in Project : q # p => task'[q] = task[q] /\ program'[q] = program[q]
    BY <1>0, <1>1, <1>3
<1>5. \A f \in File :
          /\ ts[f].pc = IF program[p][f] # NoDoc /\ building[p][f] = NoDoc THEN "dropped" ELSE "idle"
          /\ ts[f].pc = "dropped" => ts[f].old = program[p][f]
  <2>1. \A f \in File : f \in Dropped(p) <=> program[p][f] # NoDoc /\ building[p][f] = NoDoc
    <3>1. \A f, g \in File :
              PathOf[g] = PathOf[f] /\ program[p][f] # NoDoc /\ building[p][g] # NoDoc => g = f
        BY DEF SInv, Upsets, SpelledTwice, Uses
    <3>2. QED
        BY <3>1 DEF Dropped, Held
  <2>2. QED
      BY <1>3, <2>1, Drops DEF SInv, TInv
<1>6. ASSUME NEW f \in File
      PROVE  /\ Fits(p, f)'
             /\ \A k : /\ Of(Main(p, f), k)' <=> Of(Main(p, f), k)
                       /\ Of(Extra(p, f), k)' <=> Of(Extra(p, f), k)
  <2>1. /\ Fits(p, f) /\ task[p][f].pc = "idle" /\ PathKey(p, f)' = PathKey(p, f)
        /\ task[p][f].pc \notin Releasing
        /\ PathKey(p, f)[1] = PathOf[f]
      BY <1>1 DEF SInv, Quiet, PathKey, Leaving, Releasing
  <2>2. /\ ts[f].pc \notin {"version"} \cup Acquiring \cup Entering \cup Leaving
        /\ ts[f].pc \in {"idle"} \cup Releasing
        /\ ts[f].pc \in Releasing <=> program[p][f] # NoDoc /\ building[p][f] = NoDoc
        /\ ts[f].pc \in Releasing => ts[f].old = program[p][f]
        /\ ts[f].pc \notin {"store", "lock", "count", "counted", "released"}
      BY <1>5 DEF Acquiring, Entering, Leaving, Releasing
  <2>3. task'[p][f] = ts[f] /\ program'[p][f] = building[p][f] /\ building'[p][f] = building[p][f]
      BY <1>1, <1>4
  <2>4. PhaseFits(p, f)'
      BY <1>2, <2>2, <2>3 DEF PhaseFits
  <2>5. KeyFits(p, f)'
      BY <1>1, <1>2, <2>1, <2>2, <2>3 DEF Fits, KeyFits
  <2>6. EntryFits(p, f)'
      BY <1>2, <2>2, <2>3 DEF EntryFits
  <2>7. \A k : /\ Of(Main(p, f), k)' <=> Of(Main(p, f), k)
               /\ Of(Extra(p, f), k)' <=> Of(Extra(p, f), k)
      BY <1>1, <1>2, <2>1, <2>2, <2>3 DEF Of, Main, Extra
  <2>8. QED
      BY <2>4, <2>5, <2>6, <2>7 DEF Fits
<1>7. QED
    BY <1>0, <1>1, <1>2, <1>4, <1>6, PhaseFrame

\* The end of an update, when all tasks have ended.
LEMMA FinishFits ==
    ASSUME SInv, ~Upsets', NEW p \in Project, FinishUpdate(p)
    PROVE  SInv'
<1>0. TInv' /\ task \in [Project -> [File -> TaskRecord]]
    BY AfterPhaseStep DEF SInv, TInv, StateOK, TaskRecord
<1>1. /\ phase[p] = "drop" /\ Quiet(p)
      /\ phase' = [phase EXCEPT ![p] = "idle"]
      /\ task' = [task EXCEPT ![p] = [f \in File |-> Idle]]
      /\ UNCHANGED <<documents, entries, options, program, building>>
    BY DEF FinishUpdate, registryVars
<1>2. phase'[p] = "idle" /\ \A q \in Project : q # p => phase'[q] = phase[q]
    BY <1>1, Advances DEF SInv, TInv
<1>3. /\ \A f \in File : task'[p][f].pc = "idle"
      /\ \A q \in Project : q # p => task'[q] = task[q]
    BY <1>0, <1>1, IdleType
<1>4. ASSUME NEW f \in File
      PROVE  /\ Fits(p, f)'
             /\ \A k : /\ Of(Main(p, f), k)' <=> Of(Main(p, f), k)
                       /\ Of(Extra(p, f), k)' <=> Of(Extra(p, f), k)
  <2>1. /\ Fits(p, f) /\ PathKey(p, f)' = PathKey(p, f) /\ task'[p][f].pc = "idle"
        /\ task[p][f].pc \notin Releasing
        /\ task'[p][f].pc \notin {"version"} \cup Acquiring \cup Entering \cup Leaving \cup Releasing
      BY <1>1, <1>3 DEF SInv, Quiet, PathKey, Acquiring, Entering, Leaving, Releasing
  <2>2. PhaseFits(p, f)' /\ KeyFits(p, f)'
      BY <1>1, <1>2, <2>1 DEF Fits, PhaseFits, KeyFits
  <2>3. EntryFits(p, f)'
      BY <1>2, <2>1 DEF EntryFits, Entering, Leaving
  <2>4. \A k : /\ Of(Main(p, f), k)' <=> Of(Main(p, f), k)
               /\ Of(Extra(p, f), k)' <=> Of(Extra(p, f), k)
      BY <1>1, <1>2, <2>1 DEF Of, Main, Extra
  <2>5. QED
      BY <2>2, <2>3, <2>4 DEF Fits
<1>5. Quiet(p)'
    BY <1>3 DEF Quiet
<1>6. QED
    BY <1>0, <1>1, <1>2, <1>3, <1>4, <1>5, PhaseFrame

-----------------------------------------------------------------------------
(***************************************************************************)
(* The invariant, and what it says of the counts.                          *)
(***************************************************************************)

\* The editor changes nothing that is counted.
LEMMA EditFits ==
    ASSUME SInv, TInv', UNCHANGED <<documents, entries, options, program, building, phase, task>>
    PROVE  SInv'
<1>1. Resting' /\ EntriesApart' /\ ~Upsets'
    BY DEF SInv, Resting, Quiet, EntriesApart, Upsets, CountIsStale, EntryIsGone, SpelledTwice, Uses
<1>2. ASSUME NEW p \in Project, NEW f \in File PROVE Fits(p, f)'
  <2>1. Fits(p, f) /\ PathKey(p, f)' = PathKey(p, f)
      BY DEF SInv, PathKey
  <2>2. PhaseFits(p, f)' /\ KeyFits(p, f)'
      BY <2>1 DEF Fits, PhaseFits, KeyFits
  <2>3. EntryFits(p, f)'
      BY <2>1 DEF Fits, EntryFits
  <2>4. QED
      BY <2>2, <2>3 DEF Fits
<1>3. ASSUME NEW k \in Key PROVE CountFits(k)'
  <2>1. Total(k)' = Total(k)
      BY TotalStays DEF Of, Main, Extra
  <2>2. QED
      BY <2>1 DEF SInv, CountsAddUp, CountFits, Counts
<1>4. QED
    BY <1>1, <1>2, <1>3 DEF SInv, CountsAddUp

\* The books are right while nothing is registered.
LEMMA InitFits ==
    ASSUME Init
    PROVE  SInv
<1>1. /\ TInv
      /\ \A k \in Key : documents[k] = NoEntry
      /\ \A p \in Project : phase[p] = "idle"
      /\ \A p \in Project : \A f \in File :
             program[p][f] = NoDoc /\ building[p][f] = NoDoc /\ task[p][f].pc = "idle"
    BY InitEstablishes, IdleType DEF Init
<1>2. Resting /\ EntriesApart /\ ~Upsets
    BY <1>1 DEF Resting, EntriesApart, Quiet, Upsets, CountIsStale, EntryIsGone, SpelledTwice, Uses
<1>3. ASSUME NEW p \in Project, NEW f \in File PROVE Fits(p, f)
    BY <1>1 DEF Fits, PhaseFits, KeyFits, EntryFits,
                Acquiring, Entering, Releasing, Leaving
<1>4. ASSUME NEW k \in Key PROVE CountFits(k)
  <2>1. \A p \in Project : \A f \in File : Main(p, f) = NoDoc /\ Extra(p, f) = NoDoc
      BY <1>1 DEF Main, Extra, Releasing, Leaving
  <2>2. MainHolders(k) = {} /\ ExtraHolders(k) = {}
      BY <2>1 DEF MainHolders, ExtraHolders, Worker, Of
  <2>3. Total(k) = 0
      BY <2>2, FS_EmptySet DEF Total
  <2>4. QED
      BY <1>1, <2>3 DEF CountFits
<1>5. QED
    BY <1>1, <1>2, <1>3, <1>4 DEF SInv, CountsAddUp

\* No step puts the books in disorder that does not upset them.
LEMMA NextFits ==
    ASSUME SInv, Step, ~Upsets'
    PROVE  SInv'
<1>0. TInv'
    BY NextPreserves DEF SInv
<1>1. CASE \E q \in Path : BeginEdit(q) \/ EndEdit(q)
    BY <1>0, <1>1, EditFits DEF BeginEdit, EndEdit, registryVars, projectVars
<1>2. ASSUME NEW p \in Project,
             \/ RebuildProgram(p) \/ UpdateProgram(p) \/ ReplaceFile(p) \/ CannotReplaceFile(p)
             \/ InstallProgram(p) \/ FinishUpdate(p)
      PROVE  SInv'
    BY <1>2, StartFits, ReplaceFits, InstallFits, FinishFits
<1>3. ASSUME NEW p \in Project, NEW f \in File, Work(p, f) \/ ReleaseDropped(p, f) PROVE SInv'
    BY <1>3, ReadFits, FoundFits, StoreFits, LockFits, WriteFits, ReleaseFits, WriteReleasedFits
       DEF Work
<1>4. QED
    BY <1>1, <1>2, <1>3 DEF Step

\* The books in every behaviour, until something upsets them.
LEMMA Counting == Spec => []IInv
<1>1. Init => IInv
    BY InitFits DEF IInv, SInv
<1>2. ASSUME IInv, [Next]_vars PROVE IInv'
  <2>1. TInv'
      BY <1>2, NextPreserves DEF IInv, Next
  <2>2. ASSUME ~upset' PROVE SInv'
    <3>1. CASE Next
        BY <1>2, <2>2, <3>1, NextFits DEF IInv, Next
    <3>2. CASE UNCHANGED vars
        BY <1>2, <2>1, <2>2, <3>2, EditFits DEF IInv, vars
    <3>3. QED
        BY <1>2, <3>1, <3>2
  <2>3. QED
      BY <2>1, <2>2 DEF IInv
<1>3. QED
    BY <1>1, <1>2, PTL DEF Spec

\* Between updates the count of a document is the number of program files that hold it,
\* and the registry holds no document that nobody does: AcquireDocument, ReleaseDocument
\* and the program updates of project.go keep the books, over any number of updates of
\* any number of projects that overlap in any way, until a count is written back stale,
\* an entry is deleted under a task that has found it, or a path is spelled twice.
THEOREM CountsAreExact == Spec => []RefCountsAreHolders
<1>1. ASSUME SInv PROVE RefCountsAreHolders
  <2> SUFFICES ASSUME \A p \in Project : phase[p] = "idle", NEW k \in Key
               PROVE  IF Holders(k) = {} THEN documents[k] = NoEntry
                      ELSE /\ documents[k] # NoEntry
                           /\ entries[documents[k]].refs = Cardinality(Holders(k))
      BY DEF RefCountsAreHolders
  <2>1. \A p \in Project : \A f \in File : task[p][f].pc = "idle"
      BY <1>1 DEF SInv, Resting, Quiet
  <2>2. \A w \in Worker : Main(w[1], w[2]) = program[w[1]][w[2]] /\ Extra(w[1], w[2]) = NoDoc
      BY <2>1 DEF Worker, Main, Extra, Releasing, Leaving
  <2>3. MainHolders(k) = Holders(k) /\ ExtraHolders(k) = {}
      BY <2>2 DEF MainHolders, ExtraHolders, Holders, Of
  <2>4. Total(k) = Cardinality(Holders(k)) /\ (Cardinality(Holders(k)) = 0 <=> Holders(k) = {})
    <3>1. Total(k) = Cardinality(Holders(k)) + Cardinality({}) /\ IsFiniteSet(Holders(k))
        BY <2>3, FiniteHolders DEF Total
    <3>2. QED
        BY <3>1, FS_EmptySet, FS_CardinalityType
  <2>5. ~ \E p \in Project : \E f \in File : Counts(p, f, k)
      BY <2>1 DEF Counts
  <2>6. QED
      BY <1>1, <2>4, <2>5 DEF SInv, CountsAddUp, CountFits
<1>2. IInv => RefCountsAreHolders
    BY <1>1 DEF IInv, RefCountsAreHolders
<1>3. QED
    BY <1>2, Counting, PTL

\* Only the last step of a release takes a document off the registry.
LEMMA OnlyReleasesUnregister ==
    ASSUME TInv, Step, NEW k \in Key, documents[k] # NoEntry, documents'[k] = NoEntry
    PROVE  \E p \in Project : \E f \in File :
               /\ WriteReleased(p, f) /\ k = task[p][f].old.key /\ task[p][f].count - 1 = 0
<1>0. documents \in [Key -> Entry \cup {NoEntry}] /\ documents' # documents
    BY DEF TInv, StateOK
<1>1. ~ \E q \in Path : BeginEdit(q) \/ EndEdit(q)
    BY <1>0 DEF BeginEdit, EndEdit, registryVars
<1>2. ASSUME NEW p \in Project,
             \/ RebuildProgram(p) \/ UpdateProgram(p) \/ ReplaceFile(p) \/ CannotReplaceFile(p)
             \/ InstallProgram(p) \/ FinishUpdate(p)
      PROVE  FALSE
    BY <1>0, <1>2 DEF RebuildProgram, UpdateProgram, ReplaceFile, CannotReplaceFile,
                      InstallProgram, FinishUpdate, Load, registryVars
<1>3. PICK p \in Project, f \in File : Work(p, f) \/ ReleaseDropped(p, f)
    BY <1>1, <1>2 DEF Step
<1>4. ~StoreEntry(p, f)
  <2> SUFFICES ASSUME StoreEntry(p, f) PROVE FALSE
      OBVIOUS
  <2>1. PICK e \in Entry : /\ documents[task[p][f].key] = NoEntry
                           /\ documents' = [documents EXCEPT ![task[p][f].key] = e]
      BY <1>0 DEF StoreEntry, registryVars
  <2>2. QED
      BY <1>0, <2>1
<1>5. WriteReleased(p, f)
    BY <1>0, <1>3, <1>4
       DEF Work, ReadVersion, ReadText, LoadEntry, CompareVersion, LockEntry, ReadCount,
           WriteCount, LoadReleased, LockReleased, ReleaseDropped, registryVars
<1>6. /\ task[p][f].count - 1 = 0
      /\ documents' = [documents EXCEPT ![task[p][f].old.key] = NoEntry]
    BY <1>0, <1>5 DEF WriteReleased, Unregister
<1>7. k = task[p][f].old.key
    BY <1>0, <1>6
<1>8. QED
    BY <1>5, <1>6, <1>7

\* The document that a task releases as the only one left is held by nobody else.
LEMMA LastHolder ==
    ASSUME SInv, NEW p \in Project, NEW f \in File, task[p][f].pc = "released",
           Total(task[p][f].old.key) = 1,
           NEW q \in Project, NEW g \in File
    PROVE  /\ phase[q] = "idle" => ~Of(program[q][g], task[p][f].old.key)
           /\ phase[q] # "idle" => ~Of(building[q][g], task[p][f].old.key)
<1> DEFINE k == task[p][f].old.key
<1>1. /\ task[p][f].pc \in Releasing /\ task[p][f].old # NoDoc /\ phase[p] # "idle"
      /\ Fits(p, f) /\ Fits(q, g)
    BY KeysHavePath, Distinct, Working DEF SInv, Releasing, Leaving
<1>2. Of(Main(p, f), k) \/ Of(Extra(p, f), k)
    BY <1>1 DEF Of, Main, Extra
<1>3. \/ phase[q] = "idle" /\ Of(program[q][g], k)
      \/ phase[q] # "idle" /\ Of(building[q][g], k)
      => Of(Main(q, g), k)
  <2>1. phase[q] \in {"idle", "rebuild", "replace", "drop"}
      BY DEF SInv, TInv, StateOK
  <2>2. phase[q] = "idle" => task[q][g].pc \notin Releasing
      BY DEF SInv, Resting, Quiet, Releasing, Leaving
  <2>3. QED
      BY <1>1, <2>1, <2>2 DEF Fits, PhaseFits, Of, Main
<1>4. Of(Main(q, g), k) => q = p /\ g = f /\ ~Of(Extra(p, f), k)
    BY <1>2, OnlyHolder
<1>5. ~Of(Extra(p, f), k) => phase[p] = "drop"
    BY <1>1 DEF Of, Extra
<1>6. phase[p] = "drop" => building[p][f] = NoDoc
    BY <1>1 DEF Fits, PhaseFits
<1>7. QED
    BY <1>1, <1>3, <1>4, <1>5, <1>6 DEF Of

\* A document leaves the registry only when no program holds it: not one of another
\* project, whatever that project is doing, and not the new one of the update at hand;
\* until something upsets the counts.
THEOREM OnlyTheUnheldAreReleased == Spec => ReleasesOnlyTheUnheld
<1> DEFINE Kept ==
        \A k \in Key : ~upset /\ documents[k] # NoEntry /\ documents'[k] = NoEntry =>
           \A p \in Project : \A f \in File :
               /\ phase[p] = "idle" => program[p][f] = NoDoc \/ program[p][f].key # k
               /\ phase[p] # "idle" => building[p][f] = NoDoc \/ building[p][f].key # k
<1>1. ASSUME IInv, Next PROVE Kept
  <2> SUFFICES ASSUME NEW k \in Key, ~upset, documents[k] # NoEntry, documents'[k] = NoEntry,
                      NEW q \in Project, NEW g \in File
               PROVE  /\ phase[q] = "idle" => program[q][g] = NoDoc \/ program[q][g].key # k
                      /\ phase[q] # "idle" => building[q][g] = NoDoc \/ building[q][g].key # k
      OBVIOUS
  <2>0. SInv /\ Step
      BY <1>1 DEF IInv, Next
  <2>1. PICK p \in Project, f \in File :
            WriteReleased(p, f) /\ k = task[p][f].old.key /\ task[p][f].count - 1 = 0
      BY <2>0, OnlyReleasesUnregister DEF SInv
  <2>2. task[p][f].pc = "released" /\ Fits(p, f) /\ task[p][f].count \in Int
      BY <2>0, <2>1, TaskOf DEF WriteReleased, At, SInv, TInv, TaskRecord
  <2>3. task[p][f].count = Total(k)
      BY <2>0, <2>1, <2>2 DEF SInv, CountsAddUp, CountFits, Fits, EntryFits, Leaving
  <2>4. Total(k) = 1
      BY <2>1, <2>2, <2>3
  <2>5. QED
      BY <2>0, <2>1, <2>2, <2>4, LastHolder DEF Of
<1>2. IInv /\ [Next]_vars => [Kept]_vars
    BY <1>1
<1>3. QED
    BY <1>2, Counting, PTL DEF Spec, ReleasesOnlyTheUnheld
=============================================================================
