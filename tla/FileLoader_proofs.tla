-------------------------- MODULE FileLoader_proofs --------------------------
(***************************************************************************)
(* Proofs about the loading of files for any program, in parallel or not.  *)
(***************************************************************************)
EXTENDS FileLoader, TLAPS

\* What a starter has tasks for.
ReferencesOf(s) == IF s = Main THEN program.roots ELSE program.references[s]

Loaded == {p \in Path : stage[p] # "none"}

TypeInv ==
    /\ program \in Program /\ singleThreaded \in BOOLEAN
    /\ tasksByFileName \in [Path -> Task \cup {NoTask}]
    /\ tasks \in [Starter -> Seq(Task)]
    /\ next \in [Starter -> Nat \ {0}]
    /\ stage \in [Path -> {"none", "queued", "starting", "done"}]
    /\ fns \in Seq(Path)
    /\ totalFileCount \in Nat /\ waited \in BOOLEAN

(***************************************************************************)
(* The strengthening.                                                      *)
(***************************************************************************)

\* A list of tasks is as long as that of the references it was made for, once made.
ListsAreComplete ==
    /\ Len(tasks[Main]) = Len(program.roots)
    /\ \A p \in Path : /\ Len(tasks[p]) \in {0, Len(program.references[p])}
                       /\ stage[p] = "starting" => /\ p \notin program.missing
                                                   /\ Len(tasks[p]) = Len(program.references[p])

\* The tasks that a loop has yet to come to are the starter's own.
RestIsOwn ==
    \A s \in Starter : \A i \in DOMAIN tasks[s] :
        i >= next[s] => tasks[s][i] = [by |-> s, at |-> i]

\* What a loop is through with is stored.
PastIsStored ==
    \A s \in Starter : \A i \in DOMAIN ReferencesOf(s) :
        i < next[s] => tasksByFileName[ReferencesOf(s)[i].path] # NoTask

\* A loaded file is stored.
LoadedIsStored == \A p \in Loaded : tasksByFileName[p] # NoTask

\* A stored file is loaded and its starter is through with it, or the starter is at it.
StoredIsStarted ==
    \A p \in Path : \A t \in Task : tasksByFileName[p] = t =>
        IF p \in Loaded THEN t.at < next[t.by]
        ELSE InLoop(t.by) /\ t.at = next[t.by] /\ Current(t.by) = p

\* The queue holds the queued files, each once.
QueueIsExact ==
    /\ \A k \in DOMAIN fns : stage[fns[k]] = "queued"
    /\ \A k, j \in DOMAIN fns : fns[k] = fns[j] => k = j

DoneIsThrough ==
    \A p \in Path : stage[p] = "done" =>
        p \in program.missing \/ next[p] > Len(program.references[p])

OverAfterTheWait ==
    waited => /\ next[Main] > Len(program.roots)
              /\ \A p \in Path : stage[p] \in {"none", "done"}

LoadedIsReachable == \A files \in SUBSET Path : Closed(files) => Loaded \subseteq files

IInv ==
    /\ TypeInv
    /\ ListsAreComplete
    /\ RestIsOwn
    /\ PastIsStored
    /\ LoadedIsStored
    /\ StoredIsStarted
    /\ QueueIsExact
    /\ DoneIsThrough
    /\ OverAfterTheWait
    /\ LoadedIsReachable

-----------------------------------------------------------------------------
\* The program consists of sequences of references to files.
LEMMA ProgramType ==
    ASSUME program \in Program
    PROVE  /\ program.roots \in Seq(Reference)
           /\ program.references \in [Path -> Seq(Reference)]
           /\ program.missing \subseteq Path
           /\ \A s \in Starter : ReferencesOf(s) \in Seq(Reference)
           /\ \A s \in Starter : \A i \in DOMAIN ReferencesOf(s) :
                  ReferencesOf(s)[i].path \in Path
<1>1. /\ program.roots \in Seq(Reference)
      /\ program.references \in [Path -> Seq(Reference)]
      /\ program.missing \subseteq Path
  BY FileLoaderAssumption
<1>2. \A s \in Starter : ReferencesOf(s) \in Seq(Reference)
  BY <1>1 DEF ReferencesOf, Starter
<1>3. \A s \in Starter : \A i \in DOMAIN ReferencesOf(s) : ReferencesOf(s)[i] \in Reference
  BY <1>2
<1>4. QED
  BY <1>1, <1>2, <1>3 DEF Reference

\* Dropping an element of a sequence shifts those behind it.
LEMMA WithoutShifts ==
    ASSUME NEW S, NEW s \in Seq(S), NEW k \in DOMAIN s
    PROVE  /\ Without(s, k) \in Seq(S)
           /\ Len(Without(s, k)) = Len(s) - 1
           /\ \A i \in 1 .. Len(s) - 1 : Without(s, k)[i] = IF i < k THEN s[i] ELSE s[i + 1]
<1> DEFINE front == SubSeq(s, 1, k - 1)
           back == SubSeq(s, k + 1, Len(s))
<1>1. /\ front \in Seq(S) /\ Len(front) = k - 1
      /\ \A i \in 1 .. k - 1 : front[i] = s[i]
  OBVIOUS
<1>2. /\ back \in Seq(S) /\ Len(back) = Len(s) - k
      /\ \A i \in 1 .. Len(s) - k : back[i] = s[k + i]
  OBVIOUS
<1> HIDE DEF front, back
<1>3. Without(s, k) = front \o back
  BY DEF Without, front, back
<1>4. /\ front \o back \in Seq(S) /\ Len(front \o back) = Len(s) - 1
  BY <1>1, <1>2
<1>5. \A i \in 1 .. Len(s) - 1 :
          (front \o back)[i] = IF i < k THEN front[i] ELSE back[i - (k - 1)]
  BY <1>1, <1>2
<1>6. ASSUME NEW i \in 1 .. Len(s) - 1
      PROVE  (front \o back)[i] = IF i < k THEN s[i] ELSE s[i + 1]
  <2>1. CASE i < k
    BY <1>1, <1>5, <2>1
  <2>2. CASE ~(i < k)
    <3>1. i - (k - 1) \in 1 .. Len(s) - k /\ k + (i - (k - 1)) = i + 1
      BY <2>2
    <3>2. QED
      BY <1>2, <1>5, <2>2, <3>1
  <2>3. QED
    BY <2>1, <2>2
<1>7. QED
  BY <1>3, <1>4, <1>6

\* The task at hand of a loop is the starter's own, for the reference at its place.
LEMMA CurrentReference ==
    ASSUME IInv, NEW s \in Starter, InLoop(s)
    PROVE  /\ next[s] \in DOMAIN ReferencesOf(s)
           /\ tasks[s][next[s]] = [by |-> s, at |-> next[s]]
           /\ Current(s) = ReferencesOf(s)[next[s]].path
           /\ Current(s) \in Path
           /\ s # Main => s \in Path /\ s \notin program.missing
<1>1. DOMAIN tasks[s] = DOMAIN ReferencesOf(s)
  BY ProgramType DEF IInv, TypeInv, ListsAreComplete, InLoop, ReferencesOf, Starter
<1>2. tasks[s][next[s]] = [by |-> s, at |-> next[s]]
  BY DEF IInv, TypeInv, RestIsOwn, InLoop
<1>3. ReferenceOf([by |-> s, at |-> next[s]]) = ReferencesOf(s)[next[s]]
  BY DEF ReferenceOf, ReferencesOf
<1>4. s # Main => s \in Path /\ s \notin program.missing
  BY DEF IInv, ListsAreComplete, InLoop, Starter
<1>5. QED
  BY <1>1, <1>2, <1>3, <1>4, ProgramType DEF IInv, TypeInv, InLoop, Current

\* While a loop runs the wait is not over.
LEMMA LoopsPrecedeTheWait ==
    ASSUME IInv, NEW s \in Starter, InLoop(s)
    PROVE  ~waited
<1>1. ReferencesOf(s) \in Seq(Reference) /\ next[s] \in DOMAIN ReferencesOf(s)
  BY CurrentReference, ProgramType DEF IInv, TypeInv
<1>2. next[s] \in 1 .. Len(ReferencesOf(s))
  BY <1>1
<1>3. CASE s = Main
  <2>1. next[Main] <= Len(program.roots)
    BY <1>2, <1>3 DEF ReferencesOf
  <2>2. next[Main] \in Nat /\ Len(program.roots) \in Nat
    BY <1>1, <1>3 DEF IInv, TypeInv, Starter, ReferencesOf
  <2>3. QED
    BY <2>1, <2>2 DEF IInv, OverAfterTheWait
<1>4. CASE s # Main
  BY <1>4 DEF IInv, OverAfterTheWait, InLoop, Starter
<1>5. QED
  BY <1>3, <1>4

\* The new tasks of a starter are its own, one for each reference.
LEMMA NewTasksAreOwn ==
    ASSUME NEW s \in Starter, NEW refs \in Seq(Reference)
    PROVE  /\ NewTasks(s, refs) \in Seq(Task)
           /\ Len(NewTasks(s, refs)) = Len(refs)
           /\ DOMAIN NewTasks(s, refs) = DOMAIN refs
           /\ \A i \in DOMAIN refs : NewTasks(s, refs)[i] = [by |-> s, at |-> i]
<1>1. Len(refs) \in Nat /\ DOMAIN refs = 1 .. Len(refs)
  OBVIOUS
<1>2. \A i \in 1 .. Len(refs) : [by |-> s, at |-> i] \in Task
  BY <1>1 DEF Task
<1>3. NewTasks(s, refs) \in [1 .. Len(refs) -> Task]
  BY <1>1, <1>2 DEF NewTasks
<1>4. NewTasks(s, refs) \in Seq(Task)
  BY <1>1, <1>3
<1>5. \A i \in DOMAIN refs : NewTasks(s, refs)[i] = [by |-> s, at |-> i]
  BY DEF NewTasks
<1>6. QED
  BY <1>1, <1>3, <1>4, <1>5

-----------------------------------------------------------------------------
\* The invariant holds before anything is loaded.
THEOREM Initially == Init => IInv
<1> SUFFICES ASSUME Init PROVE IInv
  OBVIOUS
<1>1. /\ program \in Program /\ program.roots \in Seq(Reference)
      /\ Main \in Starter /\ Main \notin Path
  BY ProgramType, FileLoaderAssumption DEF Init, Starter
<1>2. /\ tasks[Main] = NewTasks(Main, program.roots)
      /\ \A p \in Path : tasks[p] = <<>>
      /\ \A s \in Starter : next[s] = 1
      /\ \A p \in Path : stage[p] = "none" /\ tasksByFileName[p] = NoTask
      /\ fns = <<>> /\ ~waited
  BY <1>1 DEF Init, Starter
<1>3. \A s \in Starter : tasks[s] \in Seq(Task)
  <2>1. tasks[Main] \in Seq(Task)
    BY <1>1, <1>2, NewTasksAreOwn
  <2>2. <<>> \in Seq(Task)
    OBVIOUS
  <2>3. QED
    BY <1>2, <2>1, <2>2 DEF Starter
<1>4. TypeInv
  <2>1. tasks \in [Starter -> Seq(Task)]
    BY <1>3 DEF Init
  <2>2. tasksByFileName \in [Path -> Task \cup {NoTask}]
    BY DEF Init
  <2>3. /\ next \in [Starter -> Nat \ {0}] /\ fns \in Seq(Path)
        /\ stage \in [Path -> {"none", "queued", "starting", "done"}]
    BY DEF Init
  <2>4. QED
    BY <2>1, <2>2, <2>3 DEF TypeInv, Init
<1>5. ListsAreComplete
  <2>1. Len(tasks[Main]) = Len(program.roots)
    BY <1>1, <1>2, NewTasksAreOwn
  <2>2. \A p \in Path : Len(tasks[p]) = 0 /\ stage[p] # "starting"
    BY <1>2
  <2>3. QED
    BY <2>1, <2>2 DEF ListsAreComplete
<1>6. RestIsOwn
  <2> SUFFICES ASSUME NEW s \in Starter, NEW i \in DOMAIN tasks[s]
               PROVE  tasks[s][i] = [by |-> s, at |-> i]
    BY DEF RestIsOwn
  <2>1. CASE s = Main
    BY <1>1, <1>2, <2>1, NewTasksAreOwn
  <2>2. CASE s \in Path
    BY <1>2, <2>2
  <2>3. QED
    BY <2>1, <2>2 DEF Starter
<1>7. PastIsStored
  <2> SUFFICES ASSUME NEW s \in Starter, NEW i \in DOMAIN ReferencesOf(s), i < next[s]
               PROVE  FALSE
    BY DEF PastIsStored
  <2>1. ReferencesOf(s) \in Seq(Reference)
    BY <1>1, ProgramType
  <2>2. QED
    BY <1>2, <2>1
<1>8. LoadedIsStored /\ LoadedIsReachable
  BY <1>2 DEF LoadedIsStored, LoadedIsReachable, Loaded
<1>9. StoredIsStarted
  BY <1>2, NoTaskAssumption DEF StoredIsStarted
<1>10. QueueIsExact /\ DoneIsThrough /\ OverAfterTheWait
  BY <1>2 DEF QueueIsExact, DoneIsThrough, OverAfterTheWait
<1>11. QED
  BY <1>4, <1>5, <1>6, <1>7, <1>8, <1>9, <1>10 DEF IInv

-----------------------------------------------------------------------------
\* What a step leaves alone when neither the lists nor the stages change but for the
\* place of one loop, which moves on.
LEMMA LoopsOfOthersStay ==
    ASSUME IInv, NEW s \in Starter, InLoop(s), NEW r \in Starter, r # s,
           next' = [next EXCEPT ![s] = @ + 1], InLoop(r), UNCHANGED <<program, tasks[r]>>,
           r # Main => stage'[r] = stage[r]
    PROVE  InLoop(r)' /\ Current(r)' = Current(r)
<1>1. next'[r] = next[r]
  BY DEF IInv, TypeInv
<1>2. QED
  BY <1>1 DEF InLoop, Current, ReferenceOf

\* A loop moves on past a reference to a file that another task is stored for.
LEMMA TakeLoadedKeeps ==
    ASSUME IInv, NEW s \in Starter, TakeLoaded(s)
    PROVE  IInv'
<1> USE DEF IInv
<1> DEFINE n == next[s]
           p == Current(s)
           t == tasksByFileName[p]
<1>1. InLoop(s)
  BY DEF TakeLoaded
<1>2. /\ n \in DOMAIN ReferencesOf(s) /\ tasks[s][n] = [by |-> s, at |-> n]
      /\ p = ReferencesOf(s)[n].path /\ p \in Path /\ n \in DOMAIN tasks[s]
  BY <1>1, CurrentReference DEF InLoop
<1>3. /\ t \in Task /\ t # NoTask /\ t # tasks[s][n]
      /\ tasks' = [tasks EXCEPT ![s][n] = t]
      /\ next' = [next EXCEPT ![s] = n + 1]
      /\ UNCHANGED <<program, singleThreaded, tasksByFileName, stage, fns, totalFileCount, waited>>
  BY <1>2 DEF TakeLoaded, Replace, TypeInv
<1>4. /\ tasks \in [Starter -> Seq(Task)] /\ next \in [Starter -> Nat \ {0}]
  BY DEF TypeInv
<1>5. /\ tasks'[s] \in Seq(Task) /\ Len(tasks'[s]) = Len(tasks[s])
      /\ \A i \in DOMAIN tasks[s] : i # n => tasks'[s][i] = tasks[s][i]
      /\ \A r \in Starter : r # s => tasks'[r] = tasks[r]
  BY <1>2, <1>3, <1>4
<1>6. /\ next'[s] = n + 1 /\ n \in Nat
      /\ \A r \in Starter : r # s => next'[r] = next[r]
  BY <1>3, <1>4
<1> HIDE DEF n, p, t
<1>7. \A r \in Starter : tasks'[r] \in Seq(Task) /\ Len(tasks'[r]) = Len(tasks[r])
  BY <1>4, <1>5
<1>8. TypeInv'
  BY <1>3, <1>4, <1>6, <1>7 DEF TypeInv
<1>9. ListsAreComplete'
  BY <1>3, <1>7 DEF ListsAreComplete, Starter
<1>10. RestIsOwn'
  <2> SUFFICES ASSUME NEW r \in Starter, NEW i \in DOMAIN tasks'[r], i >= next'[r]
               PROVE  tasks'[r][i] = [by |-> r, at |-> i]
    BY DEF RestIsOwn
  <2>1. i \in DOMAIN tasks[r] /\ i \in Nat
    BY <1>4, <1>7
  <2>2. CASE r = s
    BY <1>5, <1>6, <2>1, <2>2 DEF RestIsOwn, n
  <2>3. CASE r # s
    BY <1>5, <1>6, <2>1, <2>3 DEF RestIsOwn
  <2>4. QED
    BY <2>2, <2>3
<1>11. PastIsStored'
  <2> SUFFICES ASSUME NEW r \in Starter, NEW i \in DOMAIN ReferencesOf(r), i < next'[r]
               PROVE  tasksByFileName[ReferencesOf(r)[i].path] # NoTask
    BY <1>3 DEF PastIsStored, ReferencesOf
  <2>1. i \in Nat /\ next[r] \in Nat
    <3>1. ReferencesOf(r) \in Seq(Reference)
      BY ProgramType DEF TypeInv
    <3>2. QED
      BY <1>4, <3>1
  <2>2. CASE i < next[r]
    BY <2>2 DEF PastIsStored
  <2>3. CASE r = s /\ i = n
    BY <1>2, <1>3, <2>3 DEF t
  <2>4. QED
    BY <1>6, <2>1, <2>2, <2>3 DEF n
<1>12. LoadedIsStored' /\ LoadedIsReachable' /\ QueueIsExact'
  BY <1>3 DEF LoadedIsStored, LoadedIsReachable, QueueIsExact, Loaded, Closed, Paths
<1>13. DoneIsThrough'
  <2> SUFFICES ASSUME NEW q \in Path, stage[q] = "done", q \notin program.missing
               PROVE  next'[q] > Len(program.references[q])
    BY <1>3 DEF DoneIsThrough
  <2>1. q # s /\ q \in Starter
    BY <1>1, FileLoaderAssumption DEF InLoop, Starter
  <2>2. QED
    BY <1>6, <2>1 DEF DoneIsThrough
<1>14. StoredIsStarted'
  <2> SUFFICES ASSUME NEW q \in Path, NEW u \in Task, tasksByFileName[q] = u
               PROVE  IF q \in Loaded THEN u.at < next'[u.by]
                      ELSE InLoop(u.by)' /\ u.at = next'[u.by] /\ Current(u.by)' = q
    BY <1>3 DEF StoredIsStarted, Loaded
  <2>1. u.by \in Starter /\ u.at \in Nat /\ u = [by |-> u.by, at |-> u.at]
    BY DEF Task
  <2>2. CASE q \in Loaded
    <3>1. u.at < next[u.by]
      BY <2>2 DEF StoredIsStarted
    <3>2. QED
      BY <1>4, <1>6, <2>1, <2>2, <3>1 DEF n
  <2>3. CASE q \notin Loaded
    <3>1. InLoop(u.by) /\ u.at = next[u.by] /\ Current(u.by) = q
      BY <2>3 DEF StoredIsStarted
    <3>2. u.by # s
      <4> SUFFICES ASSUME u.by = s PROVE FALSE
        OBVIOUS
      <4>1. q = p /\ u = t
        BY <3>1 DEF p, t
      <4>2. QED
        BY <1>2, <1>3, <2>1, <3>1, <4>1 DEF n
    <3>3. InLoop(u.by)' /\ Current(u.by)' = Current(u.by)
      BY <1>1, <1>3, <1>5, <2>1, <3>1, <3>2, LoopsOfOthersStay DEF n
    <3>4. QED
      BY <1>6, <2>1, <2>3, <3>1, <3>2, <3>3
  <2>4. QED
    BY <2>2, <2>3
<1>15. OverAfterTheWait'
  BY <1>1, <1>3, LoopsPrecedeTheWait DEF OverAfterTheWait
<1>16. QED
  BY <1>8, <1>9, <1>10, <1>11, <1>12, <1>13, <1>14, <1>15

\* A loop stores its task for a file that has none.
LEMMA StoreKeeps ==
    ASSUME IInv, NEW s \in Starter, Store(s)
    PROVE  IInv'
<1> USE DEF IInv
<1> DEFINE n == next[s]
           p == Current(s)
<1>1. InLoop(s)
  BY DEF Store
<1>2. /\ tasks[s][n] = [by |-> s, at |-> n] /\ p \in Path /\ n \in DOMAIN tasks[s]
  BY <1>1, CurrentReference DEF InLoop
<1>3. /\ tasksByFileName[p] = NoTask
      /\ tasksByFileName' = [tasksByFileName EXCEPT ![p] = tasks[s][n]]
      /\ UNCHANGED <<program, singleThreaded, tasks, next, stage, fns, totalFileCount, waited>>
  BY DEF Store
<1>4. /\ tasks[s][n] \in Task /\ tasks[s][n] # NoTask
  <2>1. tasks[s] \in Seq(Task)
    BY DEF TypeInv
  <2>2. QED
    BY <1>2, <2>1, NoTaskAssumption
<1>5. /\ tasksByFileName'[p] = tasks[s][n]
      /\ \A q \in Path : q # p => tasksByFileName'[q] = tasksByFileName[q]
  BY <1>2, <1>3 DEF TypeInv
<1>6. p \notin Loaded
  BY <1>3 DEF LoadedIsStored
<1> HIDE DEF n, p
<1>7. TypeInv'
  BY <1>3, <1>4 DEF TypeInv
<1>8. /\ ListsAreComplete' /\ RestIsOwn' /\ LoadedIsReachable' /\ QueueIsExact'
      /\ DoneIsThrough'
  BY <1>3 DEF ListsAreComplete, RestIsOwn, LoadedIsReachable, QueueIsExact, DoneIsThrough,
              Loaded, Closed, Paths
<1>9. PastIsStored'
  <2> SUFFICES ASSUME NEW r \in Starter, NEW i \in DOMAIN ReferencesOf(r), i < next[r]
               PROVE  tasksByFileName'[ReferencesOf(r)[i].path] # NoTask
    BY <1>3 DEF PastIsStored, ReferencesOf
  <2>1. ReferencesOf(r)[i].path \in Path
    BY ProgramType DEF TypeInv
  <2>2. tasksByFileName[ReferencesOf(r)[i].path] # NoTask
    BY DEF PastIsStored
  <2>3. QED
    BY <1>4, <1>5, <2>1, <2>2
<1>10. LoadedIsStored'
  BY <1>3, <1>4, <1>5 DEF LoadedIsStored, Loaded
<1>11. StoredIsStarted'
  <2>4. /\ Loaded' = Loaded
        /\ \A r \in Starter : InLoop(r)' = InLoop(r) /\ Current(r)' = Current(r)
    BY <1>3 DEF Loaded, InLoop, Current, ReferenceOf
  <2>5. \A u \in Task : u.by \in Starter
    BY DEF Task
  <2> SUFFICES ASSUME NEW q \in Path, NEW u \in Task, tasksByFileName'[q] = u
               PROVE  IF q \in Loaded THEN u.at < next[u.by]
                      ELSE InLoop(u.by) /\ u.at = next[u.by] /\ Current(u.by) = q
    BY <1>3, <2>4, <2>5 DEF StoredIsStarted
  <2>1. CASE q = p
    BY <1>1, <1>2, <1>5, <1>6, <2>1 DEF n, p
  <2>2. CASE q # p
    BY <1>5, <2>2 DEF StoredIsStarted
  <2>3. QED
    BY <2>1, <2>2
<1>12. OverAfterTheWait'
  BY <1>3 DEF OverAfterTheWait
<1>13. QED
  BY <1>7, <1>8, <1>9, <1>10, <1>11, <1>12

\* A loop starts the task it has stored.
LEMMA StartKeeps ==
    ASSUME IInv, NEW s \in Starter, Start(s)
    PROVE  IInv'
<1> USE DEF IInv
<1> DEFINE n == next[s]
           p == Current(s)
<1>1. InLoop(s)
  BY DEF Start
<1>2. /\ n \in DOMAIN ReferencesOf(s) /\ tasks[s][n] = [by |-> s, at |-> n]
      /\ p = ReferencesOf(s)[n].path /\ p \in Path /\ n \in DOMAIN tasks[s]
      /\ s # Main => s \in Path /\ s \notin program.missing
  BY <1>1, CurrentReference DEF InLoop
<1>3. /\ tasksByFileName[p] = tasks[s][n]
      /\ totalFileCount' = totalFileCount + 1
      /\ fns' = Append(fns, p)
      /\ stage' = [stage EXCEPT ![p] = "queued"]
      /\ next' = [next EXCEPT ![s] = n + 1]
      /\ UNCHANGED <<program, singleThreaded, tasksByFileName, tasks, waited>>
  BY DEF Start, Won
<1>4. tasks[s][n] \in Task
  <2>1. tasks[s] \in Seq(Task)
    BY DEF TypeInv
  <2>2. QED
    BY <1>2, <2>1
<1>5. /\ next'[s] = n + 1 /\ n \in Nat /\ next \in [Starter -> Nat \ {0}]
      /\ \A r \in Starter : r # s => next'[r] = next[r]
  BY <1>3 DEF TypeInv
<1>6. p \notin Loaded
  <2>1. p \in Loaded => n < n
    BY <1>2, <1>3, <1>4 DEF StoredIsStarted
  <2>2. QED
    BY <1>5, <2>1
<1>7. /\ stage[p] = "none" /\ stage'[p] = "queued"
      /\ \A q \in Path : q # p => stage'[q] = stage[q]
  BY <1>2, <1>3, <1>6 DEF TypeInv, Loaded
<1>8. Loaded' = Loaded \cup {p}
  BY <1>2, <1>7 DEF Loaded
<1> HIDE DEF n, p
<1>9. TypeInv'
  <2>1. next' \in [Starter -> Nat \ {0}]
    BY <1>3, <1>5
  <2>2. fns' \in Seq(Path) /\ totalFileCount' \in Nat
    BY <1>2, <1>3 DEF TypeInv
  <2>3. stage' \in [Path -> {"none", "queued", "starting", "done"}]
    BY <1>3 DEF TypeInv
  <2>4. QED
    BY <1>3, <2>1, <2>2, <2>3 DEF TypeInv
<1>10. ListsAreComplete'
  BY <1>3, <1>7 DEF ListsAreComplete
<1>11. RestIsOwn'
  <2> SUFFICES ASSUME NEW r \in Starter, NEW i \in DOMAIN tasks[r], i >= next'[r]
               PROVE  tasks[r][i] = [by |-> r, at |-> i]
    BY <1>3 DEF RestIsOwn
  <2>1. tasks[r] \in Seq(Task)
    BY DEF TypeInv
  <2>2. i >= next[r]
    BY <1>5, <2>1 DEF n
  <2>3. QED
    BY <2>2 DEF RestIsOwn
<1>12. PastIsStored'
  <2> SUFFICES ASSUME NEW r \in Starter, NEW i \in DOMAIN ReferencesOf(r), i < next'[r]
               PROVE  tasksByFileName[ReferencesOf(r)[i].path] # NoTask
    BY <1>3 DEF PastIsStored, ReferencesOf
  <2>1. ReferencesOf(r) \in Seq(Reference)
    BY ProgramType DEF TypeInv
  <2>2. CASE i < next[r]
    BY <2>2 DEF PastIsStored
  <2>3. CASE r = s /\ i = n
    BY <1>2, <1>3, <1>4, <2>3, NoTaskAssumption
  <2>4. QED
    BY <1>5, <2>1, <2>2, <2>3 DEF n
<1>13. LoadedIsStored'
  BY <1>3, <1>4, <1>8, NoTaskAssumption DEF LoadedIsStored
<1>14. StoredIsStarted'
  <2> SUFFICES ASSUME NEW q \in Path, NEW u \in Task, tasksByFileName[q] = u
               PROVE  IF q \in Loaded' THEN u.at < next'[u.by]
                      ELSE InLoop(u.by)' /\ u.at = next'[u.by] /\ Current(u.by)' = q
    BY <1>3 DEF StoredIsStarted
  <2>1. u.by \in Starter /\ u.at \in Nat
    BY DEF Task
  <2>2. CASE q = p
    BY <1>2, <1>3, <1>5, <1>8, <2>2
  <2>3. CASE q \in Loaded
    <3>1. u.at < next[u.by]
      BY <2>3 DEF StoredIsStarted
    <3>2. QED
      BY <1>5, <1>8, <2>1, <2>3, <3>1 DEF n
  <2>4. CASE q # p /\ q \notin Loaded
    <3>1. InLoop(u.by) /\ u.at = next[u.by] /\ Current(u.by) = q
      BY <2>4 DEF StoredIsStarted
    <3>2. u.by # s
      BY <2>4, <3>1 DEF p
    <3>3. u.by # Main => stage'[u.by] = stage[u.by]
      BY <1>7, <2>1, <3>1 DEF InLoop, Starter
    <3>4. InLoop(u.by)' /\ Current(u.by)' = Current(u.by)
      BY <1>1, <1>3, <2>1, <3>1, <3>2, <3>3, LoopsOfOthersStay DEF n
    <3>5. QED
      BY <1>5, <1>8, <2>1, <2>4, <3>1, <3>2, <3>4
  <2>5. QED
    BY <2>2, <2>3, <2>4
<1>15. QueueIsExact'
  <2>1. /\ fns \in Seq(Path) /\ Len(fns') = Len(fns) + 1 /\ fns' \in Seq(Path)
        /\ fns'[Len(fns) + 1] = p /\ \A k \in 1 .. Len(fns) : fns'[k] = fns[k]
    BY <1>2, <1>3 DEF TypeInv
  <2>2. \A k \in 1 .. Len(fns) : fns[k] \in Path /\ stage[fns[k]] = "queued" /\ fns[k] # p
    BY <1>7, <2>1 DEF QueueIsExact
  <2>3. \A k \in DOMAIN fns' : k \in 1 .. Len(fns) \/ k = Len(fns) + 1
    BY <2>1
  <2>4. QED
    BY <1>7, <2>1, <2>2, <2>3 DEF QueueIsExact
<1>16. DoneIsThrough'
  <2> SUFFICES ASSUME NEW q \in Path, stage'[q] = "done", q \notin program.missing
               PROVE  next'[q] > Len(program.references[q])
    BY <1>3 DEF DoneIsThrough
  <2>1. q # p /\ q # s /\ q \in Starter
    BY <1>1, <1>7, FileLoaderAssumption DEF InLoop, Starter
  <2>2. QED
    BY <1>5, <1>7, <2>1 DEF DoneIsThrough
<1>17. OverAfterTheWait'
  BY <1>1, <1>3, LoopsPrecedeTheWait DEF OverAfterTheWait
<1>18. LoadedIsReachable'
  <2> SUFFICES ASSUME NEW files \in SUBSET Path, Closed(files)
               PROVE  p \in files
    BY <1>3, <1>8 DEF LoadedIsReachable, Closed, Paths
  <2>1. p \in Paths(ReferencesOf(s))
    BY <1>2 DEF Paths
  <2>2. CASE s = Main
    BY <2>1, <2>2 DEF Closed, ReferencesOf
  <2>3. CASE s # Main
    <3>1. s \in Loaded
      BY <1>1, <1>2, <2>3 DEF InLoop, Loaded
    <3>2. s \in files \ program.missing
      BY <1>2, <2>3, <3>1 DEF LoadedIsReachable
    <3>3. QED
      BY <2>1, <2>3, <3>2 DEF Closed, ReferencesOf
  <2>4. QED
    BY <2>2, <2>3
<1>19. QED
  BY <1>9, <1>10, <1>11, <1>12, <1>13, <1>14, <1>15, <1>16, <1>17, <1>18

\* The function of a task ends it or starts its loop.
LEMMA ParseKeeps ==
    ASSUME IInv, NEW k \in DOMAIN fns, Parse(k)
    PROVE  IInv'
<1> USE DEF IInv
<1> DEFINE p == fns[k]
<1>1. /\ fns \in Seq(Path) /\ p \in Path /\ p \in Starter /\ p # Main /\ stage[p] = "queued"
  BY FileLoaderAssumption DEF TypeInv, QueueIsExact, Starter
<1>2. /\ fns' = Without(fns, k)
      /\ UNCHANGED <<program, singleThreaded, tasksByFileName, next, totalFileCount, waited>>
  BY DEF Parse
<1>3. /\ stage' \in [Path -> {"none", "queued", "starting", "done"}]
      /\ stage'[p] \in {"starting", "done"}
      /\ \A q \in Path : q # p => stage'[q] = stage[q]
      /\ stage'[p] = "done" => p \in program.missing
      /\ stage'[p] = "starting" => p \notin program.missing
  BY <1>1 DEF Parse, Skipped, TypeInv
<1>4. /\ tasks' \in [Starter -> Seq(Task)]
      /\ \A r \in Starter : r # p => tasks'[r] = tasks[r]
      /\ \/ tasks'[p] = tasks[p] /\ stage'[p] = "done"
         \/ tasks'[p] = NewTasks(p, program.references[p]) /\ program.references[p] \in Seq(Reference)
  <2>1. CASE p \in program.missing
    BY <1>1, <2>1 DEF Parse, Skipped, TypeInv
  <2>2. CASE p \notin program.missing
    <3>1. program.references[p] \in Seq(Reference)
      BY <1>1, ProgramType DEF TypeInv
    <3>2. NewTasks(p, program.references[p]) \in Seq(Task)
      BY <1>1, <3>1, NewTasksAreOwn
    <3>3. QED
      BY <1>1, <2>2, <3>1, <3>2 DEF Parse, TypeInv
  <2>3. QED
    BY <2>1, <2>2
<1>5. Loaded' = Loaded
  BY <1>1, <1>3 DEF Loaded
<1>6. Main \in Starter
  BY DEF Starter
<1>7. fns' \in Seq(Path)
  BY <1>1, <1>2, WithoutShifts
<1>8. QueueIsExact'
  <2>1. /\ Len(fns') = Len(fns) - 1
        /\ \A i \in 1 .. Len(fns) - 1 : fns'[i] = IF i < k THEN fns[i] ELSE fns[i + 1]
    BY <1>1, <1>2, WithoutShifts
  <2>2. /\ Len(fns) \in Nat /\ k \in 1 .. Len(fns) /\ DOMAIN fns' = 1 .. Len(fns) - 1
    BY <1>1, <1>7, <2>1
  <2> DEFINE from(i) == IF i < k THEN i ELSE i + 1
  <2>3. \A i \in 1 .. Len(fns) - 1 : from(i) \in DOMAIN fns /\ from(i) # k /\ fns'[i] = fns[from(i)]
    BY <1>1, <2>1, <2>2
  <2>4. \A i, j \in 1 .. Len(fns) - 1 : from(i) = from(j) => i = j
    BY <2>2
  <2> HIDE DEF from
  <2>5. \A i \in DOMAIN fns' : fns'[i] \in Path /\ fns'[i] # p /\ stage[fns'[i]] = "queued"
    BY <1>1, <2>2, <2>3 DEF QueueIsExact
  <2>6. \A i, j \in DOMAIN fns' : fns'[i] = fns'[j] => i = j
    BY <2>2, <2>3, <2>4 DEF QueueIsExact
  <2>7. QED
    BY <1>3, <2>5, <2>6 DEF QueueIsExact
<1> HIDE DEF p
<1>9. TypeInv'
  BY <1>2, <1>3, <1>4, <1>7 DEF TypeInv
<1>10. ListsAreComplete'
  <2>1. Len(tasks'[Main]) = Len(program.roots)
    BY <1>1, <1>4, <1>6 DEF ListsAreComplete
  <2>2. /\ Len(tasks'[p]) \in {0, Len(program.references[p])}
        /\ stage'[p] = "starting" => /\ p \notin program.missing
                                     /\ Len(tasks'[p]) = Len(program.references[p])
    <3>1. CASE tasks'[p] = tasks[p] /\ stage'[p] = "done"
      BY <1>1, <3>1 DEF ListsAreComplete
    <3>2. CASE /\ tasks'[p] = NewTasks(p, program.references[p])
               /\ program.references[p] \in Seq(Reference)
      <4>1. Len(tasks'[p]) = Len(program.references[p])
        BY <1>1, <3>2, NewTasksAreOwn
      <4>2. QED
        BY <1>3, <4>1
    <3>3. QED
      BY <1>4, <3>1, <3>2
  <2>3. QED
    BY <1>2, <1>3, <1>4, <2>1, <2>2 DEF ListsAreComplete, Starter
<1>11. RestIsOwn'
  <2> SUFFICES ASSUME NEW r \in Starter, NEW i \in DOMAIN tasks'[r], i >= next[r]
               PROVE  tasks'[r][i] = [by |-> r, at |-> i]
    BY <1>2 DEF RestIsOwn
  <2>1. CASE tasks'[r] = tasks[r]
    BY <2>1 DEF RestIsOwn
  <2>2. CASE r = p /\ tasks'[p] # tasks[p]
    <3>1. /\ tasks'[p] = NewTasks(p, program.references[p])
          /\ program.references[p] \in Seq(Reference)
      BY <1>4, <2>2
    <3>2. /\ DOMAIN tasks'[p] = DOMAIN program.references[p]
          /\ \A j \in DOMAIN program.references[p] : tasks'[p][j] = [by |-> p, at |-> j]
      BY <1>1, <3>1, NewTasksAreOwn
    <3>3. QED
      BY <2>2, <3>2
  <2>3. QED
    BY <1>4, <2>1, <2>2
<1>12. PastIsStored' /\ LoadedIsStored'
  BY <1>2, <1>5 DEF PastIsStored, LoadedIsStored, ReferencesOf
<1>13. StoredIsStarted'
  <2> SUFFICES ASSUME NEW q \in Path, NEW u \in Task, tasksByFileName[q] = u, q \notin Loaded
               PROVE  InLoop(u.by)' /\ u.at = next[u.by] /\ Current(u.by)' = q
    BY <1>2, <1>5 DEF StoredIsStarted
  <2>1. /\ u.by \in Starter /\ InLoop(u.by) /\ u.at = next[u.by] /\ Current(u.by) = q
    BY DEF StoredIsStarted, Task
  <2>2. u.by # p
    BY <1>1, <2>1 DEF InLoop
  <2>3. tasks'[u.by] = tasks[u.by] /\ (u.by # Main => stage'[u.by] = stage[u.by])
    BY <1>3, <1>4, <2>1, <2>2 DEF Starter
  <2>4. InLoop(u.by)' /\ Current(u.by)' = Current(u.by)
    BY <1>2, <2>1, <2>3 DEF InLoop, Current, ReferenceOf
  <2>5. QED
    BY <2>1, <2>4
<1>14. DoneIsThrough'
  BY <1>2, <1>3 DEF DoneIsThrough
<1>15. OverAfterTheWait'
  BY <1>1, <1>2 DEF OverAfterTheWait
<1>16. LoadedIsReachable'
  BY <1>2, <1>5 DEF LoadedIsReachable, Closed, Paths
<1>17. QED
  BY <1>8, <1>9, <1>10, <1>11, <1>12, <1>13, <1>14, <1>15, <1>16

\* The loop of a task ends.
LEMMA FinishKeeps ==
    ASSUME IInv, NEW p \in Path, Finish(p)
    PROVE  IInv'
<1> USE DEF IInv
<1>1. /\ p \in Starter /\ p # Main /\ stage[p] = "starting" /\ next[p] > Len(tasks[p])
      /\ stage' = [stage EXCEPT ![p] = "done"]
      /\ UNCHANGED <<program, singleThreaded, tasksByFileName, tasks, next, fns, totalFileCount,
                     waited>>
  BY FileLoaderAssumption DEF Finish, LoopOver, Starter
<1>2. /\ stage'[p] = "done" /\ \A q \in Path : q # p => stage'[q] = stage[q]
      /\ stage' \in [Path -> {"none", "queued", "starting", "done"}]
  BY <1>1 DEF TypeInv
<1>3. Loaded' = Loaded
  BY <1>1, <1>2 DEF Loaded
<1>4. ~InLoop(p)
  <2>1. tasks[p] \in Seq(Task) /\ next[p] \in Nat
    BY <1>1 DEF TypeInv
  <2>2. QED
    BY <1>1, <2>1 DEF InLoop
<1>5. TypeInv'
  BY <1>1, <1>2 DEF TypeInv
<1>6. ListsAreComplete'
  BY <1>1, <1>2 DEF ListsAreComplete
<1>7. RestIsOwn' /\ PastIsStored' /\ LoadedIsStored' /\ LoadedIsReachable'
  BY <1>1, <1>3 DEF RestIsOwn, PastIsStored, LoadedIsStored, LoadedIsReachable, ReferencesOf,
                    Closed, Paths
<1>8. StoredIsStarted'
  <2> SUFFICES ASSUME NEW q \in Path, NEW u \in Task, tasksByFileName[q] = u, q \notin Loaded
               PROVE  InLoop(u.by)' /\ u.at = next[u.by] /\ Current(u.by)' = q
    BY <1>1, <1>3 DEF StoredIsStarted
  <2>1. /\ u.by \in Starter /\ InLoop(u.by) /\ u.at = next[u.by] /\ Current(u.by) = q
    BY DEF StoredIsStarted, Task
  <2>2. u.by # Main => stage'[u.by] = stage[u.by]
    BY <1>2, <1>4, <2>1 DEF Starter
  <2>3. InLoop(u.by)' /\ Current(u.by)' = Current(u.by)
    BY <1>1, <2>1, <2>2 DEF InLoop, Current, ReferenceOf
  <2>4. QED
    BY <2>1, <2>3
<1>9. QueueIsExact'
  <2>1. \A k \in DOMAIN fns : fns[k] \in Path /\ stage[fns[k]] = "queued"
    BY DEF QueueIsExact, TypeInv
  <2>2. QED
    BY <1>1, <1>2, <2>1 DEF QueueIsExact
<1>10. DoneIsThrough'
  <2>1. next[p] > Len(program.references[p])
    BY <1>1 DEF ListsAreComplete
  <2>2. QED
    BY <1>1, <1>2, <2>1 DEF DoneIsThrough
<1>11. OverAfterTheWait'
  BY <1>1 DEF OverAfterTheWait
<1>12. QED
  BY <1>5, <1>6, <1>7, <1>8, <1>9, <1>10, <1>11

\* The wait is over when no function is queued or running.
LEMMA RunAndWaitKeeps ==
    ASSUME IInv, RunAndWait
    PROVE  IInv'
<1> USE DEF IInv
<1>1. /\ waited' = TRUE
      /\ UNCHANGED <<program, singleThreaded, tasksByFileName, tasks, next, stage, fns,
                     totalFileCount>>
  BY DEF RunAndWait
<1>2. next[Main] > Len(program.roots)
  BY DEF RunAndWait, LoopOver, ListsAreComplete
<1>3. \A p \in Path : stage[p] \in {"none", "done"}
  BY DEF RunAndWait, Idle, TypeInv
<1>4. OverAfterTheWait'
  BY <1>1, <1>2, <1>3 DEF OverAfterTheWait
<1>5. TypeInv'
  BY <1>1 DEF TypeInv
<1>6. /\ ListsAreComplete' /\ RestIsOwn' /\ PastIsStored' /\ LoadedIsStored' /\ QueueIsExact'
      /\ DoneIsThrough' /\ LoadedIsReachable'
  BY <1>1 DEF ListsAreComplete, RestIsOwn, PastIsStored, LoadedIsStored, QueueIsExact,
              DoneIsThrough, LoadedIsReachable, Loaded, ReferencesOf, Closed, Paths
<1>7. StoredIsStarted'
  <2>1. /\ Loaded' = Loaded /\ next' = next /\ tasksByFileName' = tasksByFileName
        /\ \A s : InLoop(s)' = InLoop(s) /\ Current(s)' = Current(s)
    BY <1>1 DEF Loaded, InLoop, Current, ReferenceOf
  <2>2. QED
    BY <2>1 DEF StoredIsStarted
<1>8. QED
  BY <1>4, <1>5, <1>6, <1>7

-----------------------------------------------------------------------------
\* The invariant holds throughout the load of any program.
THEOREM Invariance == Spec => []IInv
<1>1. Init => IInv
  BY Initially
<1>2. IInv /\ [Next]_vars => IInv'
  <2> SUFFICES ASSUME IInv, [Next]_vars PROVE IInv'
    OBVIOUS
  <2>1. CASE Next
    <3>1. PICK s \in Starter : Goroutine(s)
      BY <2>1 DEF Next
    <3>2. QED
      BY <3>1, TakeLoadedKeeps, StoreKeeps, StartKeeps, ParseKeeps, FinishKeeps,
         RunAndWaitKeeps DEF Goroutine
  <2>2. CASE UNCHANGED vars
    <3>1. TypeInv'
      BY <2>2 DEF vars, IInv, TypeInv
    <3>2. /\ ListsAreComplete' /\ RestIsOwn' /\ PastIsStored' /\ LoadedIsStored'
          /\ QueueIsExact' /\ DoneIsThrough' /\ OverAfterTheWait' /\ LoadedIsReachable'
      BY <2>2 DEF vars, IInv, ListsAreComplete, RestIsOwn, PastIsStored, LoadedIsStored,
                  QueueIsExact, DoneIsThrough, OverAfterTheWait, LoadedIsReachable, Loaded,
                  ReferencesOf, Closed, Paths
    <3>3. StoredIsStarted'
      <4>1. /\ Loaded' = Loaded /\ next' = next /\ tasksByFileName' = tasksByFileName
            /\ \A s : InLoop(s)' = InLoop(s) /\ Current(s)' = Current(s)
        BY <2>2 DEF vars, Loaded, InLoop, Current, ReferenceOf
      <4>2. QED
        BY <4>1 DEF IInv, StoredIsStarted
    <3>4. QED
      BY <3>1, <3>2, <3>3 DEF IInv
  <2>3. QED
    BY <2>1, <2>2
<1>3. QED
  BY <1>1, <1>2, PTL DEF Spec

\* Once RunAndWait has returned no task of the load is queued, running or left behind
\* (workgroup.go: Queue would panic).
THEOREM NothingLate == Spec => []NothingRunsAfterTheWait
<1>1. IInv => NothingRunsAfterTheWait
  <2> SUFFICES ASSUME IInv, waited PROVE NothingRunsAfterTheWait
    BY DEF NothingRunsAfterTheWait
  <2>1. \A s \in Starter : ~InLoop(s)
    BY LoopsPrecedeTheWait
  <2>2. QED
    BY <2>1 DEF IInv, OverAfterTheWait, NothingRunsAfterTheWait
<1>2. QED
  BY <1>1, Invariance, PTL

\* The files loaded are the smallest set that holds the roots and the references of its
\* files, whatever the order of the goroutines (fileloader.go: startTasks).
THEOREM LoadsExactly == Spec => []LoadsTheReachable
<1>1. IInv => LoadsTheReachable
  <2> SUFFICES ASSUME IInv PROVE LoadsTheReachable
    OBVIOUS
  <2>1. \A files \in SUBSET Path : Closed(files) => Loaded \subseteq files
    BY DEF IInv, LoadedIsReachable
  <2>2. ASSUME waited PROVE Closed(Loaded)
    <3>1. \A p \in Path : tasksByFileName[p] # NoTask => p \in Loaded
      <4> SUFFICES ASSUME NEW p \in Path, tasksByFileName[p] # NoTask, p \notin Loaded
                   PROVE  FALSE
        OBVIOUS
      <4>1. tasksByFileName[p] \in Task /\ tasksByFileName[p].by \in Starter
        BY DEF IInv, TypeInv, Task
      <4>2. InLoop(tasksByFileName[p].by)
        BY <4>1 DEF IInv, StoredIsStarted
      <4>3. QED
        BY <2>2, <4>1, <4>2, LoopsPrecedeTheWait
    <3>2. ASSUME NEW s \in Starter, next[s] > Len(ReferencesOf(s))
          PROVE  Paths(ReferencesOf(s)) \subseteq Loaded
      <4> SUFFICES ASSUME NEW i \in DOMAIN ReferencesOf(s)
                   PROVE  ReferencesOf(s)[i].path \in Loaded
        BY DEF Paths
      <4>1. ReferencesOf(s) \in Seq(Reference) /\ ReferencesOf(s)[i].path \in Path
        BY ProgramType DEF IInv, TypeInv
      <4>2. i < next[s]
        BY <3>2, <4>1 DEF IInv, TypeInv
      <4>3. QED
        BY <3>1, <4>1, <4>2 DEF IInv, PastIsStored
    <3>3. Paths(program.roots) \subseteq Loaded
      BY <2>2, <3>2 DEF IInv, OverAfterTheWait, ReferencesOf, Starter
    <3>4. ASSUME NEW p \in Loaded \ program.missing
          PROVE  Paths(program.references[p]) \subseteq Loaded
      <4>1. p \in Path /\ p \in Starter /\ p # Main /\ stage[p] = "done"
        BY <2>2, FileLoaderAssumption DEF IInv, OverAfterTheWait, Loaded, Starter
      <4>2. next[p] > Len(program.references[p])
        BY <4>1 DEF IInv, DoneIsThrough
      <4>3. QED
        BY <3>2, <4>1, <4>2 DEF ReferencesOf
    <3>5. QED
      BY <3>3, <3>4 DEF Closed
  <2>3. QED
    BY <2>1, <2>2 DEF LoadsTheReachable, Loaded
<1>2. QED
  BY <1>1, Invariance, PTL
=============================================================================
