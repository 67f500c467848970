----------------------- MODULE TypingsInstaller_proofs -----------------------
(***************************************************************************)
(* Proofs about automatic type acquisition, for any projects, packages and *)
(* throttle limit.                                                         *)
(***************************************************************************)
EXTENDS TypingsInstaller, SequenceTheorems, FiniteSetTheorems, TLAPS

RequestRecord ==
    [project : Project, inferred : SUBSET Package, cached : SUBSET Package,
     typings : SUBSET Package, stage : Stage]

\* The stages between the discovery and the verdict on the typings to be installed.
Undecided == {"discovered", "filtered", "pending", "installing", "succeeded", "failed"}

Decided == {"installed", "done", "abandoned"}

\* The typings that request r may have installed, if they are to be had.
Wanted(r) == request[r].inferred \cap Registry \cap Valid

\* No request waits twice for a place.
QueuedOnce ==
    \A k, l \in 1 .. Len(pendingRunRequests) :
        pendingRunRequests[k] = pendingRunRequests[l] => k = l

\* What is to be installed is in the registry, once it has been filtered.
InstallsAreRegistered ==
    \A r \in DOMAIN request :
        request[r].stage \notin {"enqueued", "discovered"} => request[r].typings \subseteq Registry

\* The latest request of a project is one of its own.
LatestIsOwn ==
    \A p \in Project : typingsInfo[p] # 0 => request[typingsInfo[p]].project = p

\* A typing that a request wants has its verdict, or the request still has it on its
\* list.
WantedIsListed ==
    \A r \in DOMAIN request :
        /\ request[r].stage \in Undecided
               => Wanted(r) \subseteq packageNameToTypingLocation \cup missingTypingsSet
                                          \cup request[r].typings
        /\ request[r].stage \in Decided
               => Wanted(r) \subseteq packageNameToTypingLocation \cup missingTypingsSet

IInv ==
    /\ TypeOK
    /\ QueuedOnce
    /\ ThrottleIsTight
    /\ InstallsAreRegistered
    /\ LatestIsOwn
    /\ LatestAnswerStays
    /\ WantedIsListed

-----------------------------------------------------------------------------
(***************************************************************************)
(* The requests that were issued.                                          *)
(***************************************************************************)

\* The sequence of requests as a function, whose stages can be counted.
LEMMA Requests ==
    ASSUME TypeOK
    PROVE  /\ Len(request) \in Nat /\ DOMAIN request = 1 .. Len(request)
           /\ request \in Seq(RequestRecord)
           /\ request \in [DOMAIN request -> RequestRecord]
           /\ \A stage : IsFiniteSet(InStage(stage)) /\ Cardinality(InStage(stage)) \in Nat
<1>1. request \in Seq(RequestRecord)
    BY DEF TypeOK, RequestRecord
<1>2. /\ Len(request) \in Nat /\ DOMAIN request = 1 .. Len(request)
      /\ request \in [1 .. Len(request) -> RequestRecord]
    BY <1>1, LenProperties
<1>3. IsFiniteSet(DOMAIN request)
    BY <1>2, FS_Interval
<1>4. ASSUME NEW stage PROVE IsFiniteSet(InStage(stage)) /\ Cardinality(InStage(stage)) \in Nat
    BY <1>3, FS_Subset, FS_CardinalityType DEF InStage
<1>5. QED
    BY <1>1, <1>2, <1>4

\* A step that changes requests and issues none.
LEMMA SameRequests ==
    ASSUME TypeOK, request' \in [DOMAIN request -> RequestRecord]
    PROVE  /\ request' \in Seq(RequestRecord) /\ Len(request') = Len(request)
           /\ DOMAIN request' = DOMAIN request
<1>1. Len(request) \in Nat /\ DOMAIN request = 1 .. Len(request)
    BY Requests
<1>2. request' \in Seq(RequestRecord)
    BY <1>1, SeqDef
<1>3. DOMAIN request' = 1 .. Len(request') /\ Len(request') \in Nat
    BY <1>2, LenProperties
<1>4. 1 .. Len(request') = 1 .. Len(request)
    BY <1>1, <1>3
<1>5. Len(request') = Len(request)
    BY <1>1, <1>3, <1>4
<1>6. QED
    BY <1>2, <1>5

\* A step that lets no request begin or end to wait or to install.
LEMMA ThrottleKept ==
    ASSUME QueuedOnce, ThrottleIsTight, UNCHANGED throttleVars,
           DOMAIN request \subseteq DOMAIN request',
           \A k \in DOMAIN request', stage \in {"pending", "installing"} :
               request'[k].stage = stage <=> k \in DOMAIN request /\ request[k].stage = stage
    PROVE  QueuedOnce' /\ ThrottleIsTight'
<1>1. InStage("pending")' = InStage("pending") /\ InStage("installing")' = InStage("installing")
    BY DEF InStage
<1>2. QED
    BY <1>1 DEF QueuedOnce, ThrottleIsTight, throttleVars

\* One request gets on, on its own.
LEMMA OneMoves ==
    ASSUME TypeOK, NEW r \in DOMAIN request, NEW new \in RequestRecord,
           request' = [request EXCEPT ![r] = new]
    PROVE  /\ request' \in Seq(RequestRecord) /\ Len(request') = Len(request)
           /\ DOMAIN request' = DOMAIN request
           /\ request'[r] = new /\ \A k \in DOMAIN request : k # r => request'[k] = request[k]
<1>1. request \in [DOMAIN request -> RequestRecord]
    BY Requests
<1>2. request' \in [DOMAIN request -> RequestRecord]
    BY <1>1
<1>3. QED
    BY <1>1, <1>2, SameRequests

\* What it takes of a request to keep the invariant when it gets on without touching
\* the throttle.
LEMMA AfterMove ==
    ASSUME IInv, NEW r \in DOMAIN request, NEW new \in RequestRecord,
           request' = [request EXCEPT ![r] = new],
           request[r].stage \notin {"pending", "installing", "done"},
           new.stage \notin {"pending", "installing"},
           new.project = request[r].project, new.inferred = request[r].inferred,
           new.stage \notin {"enqueued", "discovered"} => new.typings \subseteq Registry,
           packageNameToTypingLocation \subseteq packageNameToTypingLocation',
           packageNameToTypingLocation' \subseteq Registry,
           missingTypingsSet \subseteq missingTypingsSet', missingTypingsSet' \subseteq Package,
           new.stage \in Undecided =>
               Wanted(r) \subseteq packageNameToTypingLocation' \cup missingTypingsSet'
                                        \cup new.typings,
           new.stage \in Decided =>
               Wanted(r) \subseteq packageNameToTypingLocation' \cup missingTypingsSet',
           UNCHANGED <<enabled, typingsInfo, throttleVars>>,
           typingFiles' \in [Project -> SUBSET Package],
           \A p \in Project : \/ typingFiles'[p] = typingFiles[p]
                              \/ typingFiles'[p] \in {new.cached, {}} /\ typingsInfo[p] = r,
           \A p \in Project : typingsInfo[p] = r /\ new.stage = "done" =>
                                  typingFiles'[p] \in {new.cached, {}}
    PROVE  IInv'
<1>1. /\ request' \in Seq(RequestRecord) /\ Len(request') = Len(request)
      /\ DOMAIN request' = DOMAIN request
      /\ request'[r] = new /\ \A k \in DOMAIN request : k # r => request'[k] = request[k]
    BY OneMoves DEF IInv
<1>2. TypeOK'
    BY <1>1 DEF IInv, TypeOK, RequestRecord, throttleVars
<1>3. QueuedOnce' /\ ThrottleIsTight'
    BY <1>1, ThrottleKept DEF IInv
<1>4. InstallsAreRegistered'
    BY <1>1 DEF IInv, InstallsAreRegistered
<1>5. LatestIsOwn'
    BY <1>1 DEF IInv, LatestIsOwn
<1>6. LatestAnswerStays'
  <2> SUFFICES ASSUME NEW p \in Project, typingsInfo[p] \in InStage("done")'
               PROVE  typingFiles'[p] \in {request'[typingsInfo[p]].cached, {}}
      BY DEF LatestAnswerStays
  <2>1. CASE typingsInfo[p] = r
      BY <1>1, <2>1 DEF InStage
  <2>2. CASE typingsInfo[p] # r
      BY <1>1, <2>2 DEF InStage, IInv, LatestAnswerStays
  <2>3. QED
      BY <2>1, <2>2
<1>7. WantedIsListed'
  <2> SUFFICES ASSUME NEW k \in DOMAIN request
               PROVE  /\ request'[k].stage \in Undecided
                          => Wanted(k)' \subseteq packageNameToTypingLocation'
                                 \cup missingTypingsSet' \cup request'[k].typings
                      /\ request'[k].stage \in Decided
                          => Wanted(k)' \subseteq packageNameToTypingLocation'
                                 \cup missingTypingsSet'
      BY <1>1 DEF WantedIsListed
  <2>1. CASE k = r
      BY <1>1, <2>1 DEF Wanted
  <2>2. CASE k # r
      BY <1>1, <2>2 DEF Wanted, IInv, WantedIsListed
  <2>3. QED
      BY <2>1, <2>2
<1>8. QED
    BY <1>2, <1>3, <1>4, <1>5, <1>6, <1>7 DEF IInv

\* The same of a request that gets on without an answer to its project.
LEMMA AfterQuietMove ==
    ASSUME IInv, NEW r \in DOMAIN request, NEW new \in RequestRecord,
           request' = [request EXCEPT ![r] = new],
           request[r].stage \notin {"pending", "installing", "done"},
           new.stage \notin {"pending", "installing", "done"},
           new.project = request[r].project, new.inferred = request[r].inferred,
           new.stage \notin {"enqueued", "discovered"} => new.typings \subseteq Registry,
           packageNameToTypingLocation \subseteq packageNameToTypingLocation',
           packageNameToTypingLocation' \subseteq Registry,
           missingTypingsSet \subseteq missingTypingsSet', missingTypingsSet' \subseteq Package,
           new.stage \in Undecided =>
               Wanted(r) \subseteq packageNameToTypingLocation' \cup missingTypingsSet'
                                        \cup new.typings,
           new.stage \in Decided =>
               Wanted(r) \subseteq packageNameToTypingLocation' \cup missingTypingsSet',
           UNCHANGED <<projectVars, throttleVars>>
    PROVE  IInv'
<1>1. UNCHANGED <<enabled, typingsInfo, typingFiles>>
    BY DEF projectVars
<1>2. typingFiles' \in [Project -> SUBSET Package]
    BY <1>1 DEF IInv, TypeOK
<1>3. /\ new.stage \notin {"pending", "installing"} /\ new.stage # "done"
      /\ \A p \in Project : typingFiles'[p] = typingFiles[p]
    BY <1>1
<1>4. QED
    BY <1>1, <1>2, <1>3, AfterMove

\* The invariant holds before the first request.
LEMMA InitEstablishes == Init => IInv
<1> SUFFICES ASSUME Init PROVE IInv
    OBVIOUS
<1>1. /\ request = <<>> /\ DOMAIN request = {} /\ Len(request) = 0
      /\ pendingRunRequests = <<>> /\ Len(pendingRunRequests) = 0 /\ DOMAIN pendingRunRequests = {}
      /\ inFlightRequestCount = 0
      /\ request \in Seq(RequestRecord) /\ pendingRunRequests \in Seq(DOMAIN request)
    BY EmptySeq, LenProperties DEF Init
<1>2. TypeOK
    BY <1>1, TypingsAssumption DEF Init, TypeOK, RequestRecord
<1>3. \A stage : InStage(stage) = {} /\ Cardinality(InStage(stage)) = 0
    BY <1>1, FS_EmptySet DEF InStage
<1>4. QueuedOnce /\ ThrottleIsTight
    BY <1>1, <1>3 DEF QueuedOnce, ThrottleIsTight
<1>5. InstallsAreRegistered /\ LatestIsOwn /\ LatestAnswerStays /\ WantedIsListed
    BY <1>1, <1>3 DEF Init, InstallsAreRegistered, LatestIsOwn, LatestAnswerStays, WantedIsListed
<1>6. QED
    BY <1>2, <1>4, <1>5 DEF IInv

-----------------------------------------------------------------------------
(***************************************************************************)
(* One lemma for every action.                                             *)
(***************************************************************************)

\* A project asks for typings, or acquisition is disabled.
LEMMA AfterEnqueue ==
    ASSUME IInv, NEW p \in Project, NEW inferred \in Inputs, NEW enable \in BOOLEAN,
           NEW force \in BOOLEAN, enqueueInstallTypingsForProject(p, inferred, enable, force)
    PROVE  IInv'
<1>1. /\ UNCHANGED <<tableVars, throttleVars>>
      /\ enabled' \subseteq Project
      /\ \A q \in Project : typingFiles'[q] \in {typingFiles[q], {}}
      /\ typingFiles' \in [Project -> SUBSET Package]
    BY DEF enqueueInstallTypingsForProject, IInv, TypeOK
<1>2. UNCHANGED <<packageNameToTypingLocation, missingTypingsSet, inFlightRequestCount,
                  pendingRunRequests>>
    BY <1>1 DEF tableVars, throttleVars
<1>3. /\ Len(request) \in Nat /\ DOMAIN request = 1 .. Len(request)
      /\ request \in Seq(RequestRecord)
    BY Requests DEF IInv
<1>4. ASSUME UNCHANGED <<typingsInfo, request>> PROVE IInv'
  <2>1. TypeOK'
      BY <1>1, <1>2, <1>4 DEF IInv, TypeOK
  <2>2. QueuedOnce' /\ ThrottleIsTight'
      BY <1>1, <1>4, ThrottleKept DEF IInv
  <2>3. InstallsAreRegistered' /\ LatestIsOwn' /\ WantedIsListed'
      BY <1>2, <1>4 DEF IInv, InstallsAreRegistered, LatestIsOwn, WantedIsListed, Wanted
  <2>4. LatestAnswerStays'
      BY <1>1, <1>4 DEF IInv, LatestAnswerStays, InStage
  <2>5. QED
      BY <2>1, <2>2, <2>3, <2>4 DEF IInv
<1>5. ASSUME EnqueueInstallTypingsRequest(p, inferred) PROVE IInv'
  <2> DEFINE new == [project |-> p, inferred |-> inferred, cached |-> {}, typings |-> {},
                     stage |-> "enqueued"]
             n == Len(request) + 1
  <2>1. /\ Len(request) < MaxRequests
        /\ request' = Append(request, new)
        /\ typingsInfo' = [typingsInfo EXCEPT ![p] = n]
      BY <1>5 DEF EnqueueInstallTypingsRequest
  <2>2. /\ new \in RequestRecord /\ new.stage = "enqueued" /\ new.project = p
      BY TypingsAssumption DEF RequestRecord, Stage
  <2> HIDE DEF new
  <2>3. /\ request' \in Seq(RequestRecord) /\ Len(request') = Len(request) + 1
        /\ \A i \in 1 .. Len(request) : request'[i] = request[i]
        /\ request'[Len(request) + 1] = new
      BY <1>3, <2>1, <2>2, AppendProperties
  <2>4. DOMAIN request' = 1 .. Len(request')
      BY <2>3, LenProperties
  <2>5. /\ n \in DOMAIN request' /\ n \notin DOMAIN request
        /\ \A k \in DOMAIN request' : k = n \/ k \in DOMAIN request
        /\ \A k \in DOMAIN request : k \in DOMAIN request' /\ request'[k] = request[k]
        /\ request'[n] = new /\ n \in Nat /\ n # 0 /\ n = Len(request')
      BY <1>3, <2>3, <2>4
  <2>6. \A q \in Project : /\ typingsInfo[q] \in 0 .. Len(request)
                           /\ q # p => typingsInfo'[q] = typingsInfo[q]
                           /\ typingsInfo'[p] = n
      BY <2>1 DEF IInv, TypeOK
  <2> HIDE DEF n
  <2>7. TypeOK'
    <3>1. pendingRunRequests' \in Seq(DOMAIN request')
        BY <1>2, <2>5, SeqMonotonic DEF IInv, TypeOK
    <3>2. typingsInfo' \in [Project -> 0 .. Len(request')]
      <4>1. 0 .. Len(request) \subseteq 0 .. Len(request') /\ n \in 0 .. Len(request')
          BY <1>3, <2>3, <2>5
      <4>2. QED
          BY <2>1, <4>1 DEF IInv, TypeOK
    <3>3. Len(request') <= MaxRequests
        BY <1>3, <2>1, <2>3, TypingsAssumption
    <3>4. QED
        BY <1>1, <1>2, <2>3, <3>1, <3>2, <3>3 DEF IInv, TypeOK, RequestRecord
  <2>8. QueuedOnce' /\ ThrottleIsTight'
    <3>1. DOMAIN request \subseteq DOMAIN request'
        BY <2>5
    <3>2. \A k \in DOMAIN request', stage \in {"pending", "installing"} :
              request'[k].stage = stage <=> k \in DOMAIN request /\ request[k].stage = stage
        BY <2>2, <2>5
    <3>3. QED
        BY <1>1, <3>1, <3>2, ThrottleKept DEF IInv
  <2>9. InstallsAreRegistered'
      BY <2>2, <2>5 DEF IInv, InstallsAreRegistered
  <2>10. LatestIsOwn'
    <3> SUFFICES ASSUME NEW q \in Project, typingsInfo'[q] # 0
                 PROVE  request'[typingsInfo'[q]].project = q
        BY DEF LatestIsOwn
    <3>1. CASE q = p
        BY <2>2, <2>5, <2>6, <3>1
    <3>2. CASE q # p
      <4>1. typingsInfo[q] \in DOMAIN request
          BY <1>3, <2>6, <3>2
      <4>2. QED
          BY <2>5, <2>6, <3>2, <4>1 DEF IInv, LatestIsOwn
    <3>3. QED
        BY <3>1, <3>2
  <2>11. LatestAnswerStays'
    <3> SUFFICES ASSUME NEW q \in Project, typingsInfo'[q] \in InStage("done")'
                 PROVE  typingFiles'[q] \in {request'[typingsInfo'[q]].cached, {}}
        BY DEF LatestAnswerStays
    <3>1. q # p
        BY <2>2, <2>5, <2>6 DEF InStage
    <3>2. typingsInfo[q] \in DOMAIN request /\ typingsInfo[q] \in InStage("done")
        BY <2>2, <2>5, <2>6, <3>1 DEF InStage
    <3>3. QED
        BY <1>1, <2>5, <2>6, <3>1, <3>2 DEF IInv, LatestAnswerStays
  <2>12. WantedIsListed'
    <3>1. "enqueued" \notin Undecided \cup Decided
        BY DEF Undecided, Decided
    <3>2. QED
        BY <1>2, <2>2, <2>5, <3>1 DEF IInv, WantedIsListed, Wanted
  <2>13. QED
      BY <2>7, <2>8, <2>9, <2>10, <2>11, <2>12 DEF IInv
<1>6. QED
    BY <1>4, <1>5 DEF enqueueInstallTypingsForProject

\* The names of the typings are found and compared with the cache.
LEMMA AfterDiscover ==
    ASSUME IInv, NEW r \in DOMAIN request, DiscoverTypings(r)
    PROVE  IInv'
<1> DEFINE old == request[r]
           new == [old EXCEPT !.cached = Cached, !.typings = old.inferred \ Cached,
                              !.stage = "discovered"]
<1>1. old \in RequestRecord
    BY Requests DEF IInv
<1>2. /\ new \in RequestRecord /\ new.stage = "discovered" /\ new.project = old.project
      /\ new.inferred = old.inferred /\ new.typings = old.inferred \ Cached
    BY <1>1, TypingsAssumption DEF RequestRecord, Stage, Cached
<1>3. /\ old.stage = "enqueued" /\ request' = [request EXCEPT ![r] = new]
      /\ UNCHANGED <<projectVars, tableVars, throttleVars>>
    BY <1>1, Requests DEF DiscoverTypings, IInv, RequestRecord
<1>4. Wanted(r) \subseteq packageNameToTypingLocation \cup missingTypingsSet \cup new.typings
    BY <1>2 DEF Wanted, Cached
<1>5. /\ UNCHANGED <<packageNameToTypingLocation, missingTypingsSet>>
      /\ packageNameToTypingLocation \subseteq Registry /\ missingTypingsSet \subseteq Package
    BY <1>3 DEF tableVars, IInv, TypeOK
<1>6. "discovered" \notin Decided
    BY DEF Decided
<1> HIDE DEF new
<1>7. QED
    BY <1>2, <1>3, <1>4, <1>5, <1>6, AfterQuietMove

\* The typings that cannot be installed are dropped.
LEMMA AfterFilter ==
    ASSUME IInv, NEW r \in DOMAIN request, filterTypings(r)
    PROVE  IInv'
<1> DEFINE old == request[r]
           rest == old.typings \ missingTypingsSet
           typings == (rest \cap Valid \cap Registry) \ packageNameToTypingLocation
           to == IF typings = {} THEN "installed" ELSE "filtered"
           new == [old EXCEPT !.typings = typings, !.stage = to]
<1>1. old \in RequestRecord
    BY Requests DEF IInv
<1>2. /\ new \in RequestRecord /\ new.stage = to /\ new.project = old.project
      /\ new.inferred = old.inferred /\ new.typings = typings /\ typings \subseteq Registry
    BY <1>1 DEF RequestRecord, Stage
<1>3. /\ old.stage = "discovered" /\ request' = [request EXCEPT ![r] = new]
      /\ missingTypingsSet' = missingTypingsSet \cup (rest \ Valid)
      /\ UNCHANGED <<projectVars, packageNameToTypingLocation, throttleVars>>
    BY <1>1, Requests DEF filterTypings, IInv, RequestRecord
<1>4. /\ Wanted(r) \subseteq packageNameToTypingLocation \cup missingTypingsSet' \cup new.typings
      /\ to = "installed" => new.typings = {}
      /\ to \in {"installed", "filtered"} /\ "filtered" \notin Decided
      /\ missingTypingsSet \subseteq missingTypingsSet' /\ missingTypingsSet' \subseteq Package
    BY <1>1, <1>2, <1>3 DEF IInv, TypeOK, WantedIsListed, Wanted, Undecided, Decided, RequestRecord
<1>5. /\ packageNameToTypingLocation \subseteq packageNameToTypingLocation'
      /\ packageNameToTypingLocation' \subseteq Registry
    BY <1>3 DEF IInv, TypeOK
<1>6. /\ new.stage \notin {"pending", "installing", "done"}
      /\ new.typings \subseteq Registry
      /\ new.stage \in Decided =>
             Wanted(r) \subseteq packageNameToTypingLocation' \cup missingTypingsSet'
    BY <1>2, <1>3, <1>4
<1> HIDE DEF new, to, typings
<1>7. QED
    BY <1>2, <1>3, <1>4, <1>5, <1>6, AfterQuietMove

\* The end of an installation is recorded.
LEMMA AfterRecord ==
    ASSUME IInv, NEW r \in DOMAIN request,
           RecordFailure(r) \/ \E found \in SUBSET Package : RecordSuccess(r, found)
    PROVE  IInv'
<1> DEFINE old == request[r]
<1>1. old \in RequestRecord
    BY Requests DEF IInv
<1>2. /\ typingFiles \in [Project -> SUBSET Package]
      /\ packageNameToTypingLocation \subseteq Registry
      /\ missingTypingsSet \subseteq Package
    BY DEF IInv, TypeOK
<1>3. ASSUME RecordFailure(r) PROVE IInv'
  <2> DEFINE new == [old EXCEPT !.stage = "abandoned"]
  <2>1. /\ new \in RequestRecord /\ new.stage = "abandoned" /\ new.project = old.project
        /\ new.inferred = old.inferred /\ new.typings = old.typings
      BY <1>1 DEF RequestRecord, Stage
  <2>2. /\ old.stage = "failed" /\ request' = [request EXCEPT ![r] = new]
        /\ missingTypingsSet' = missingTypingsSet \cup old.typings
        /\ UNCHANGED <<projectVars, packageNameToTypingLocation, throttleVars>>
      BY <1>1, <1>3, Requests DEF RecordFailure, Advance, MarkMissing, IInv, RequestRecord
  <2>3. /\ Wanted(r) \subseteq packageNameToTypingLocation \cup missingTypingsSet'
        /\ missingTypingsSet' \subseteq Package
        /\ old.typings \subseteq Registry
      BY <1>1, <1>2, <2>2 DEF IInv, WantedIsListed, Wanted, Undecided, RequestRecord,
                              InstallsAreRegistered
  <2>4. "abandoned" \notin Undecided
      BY DEF Undecided
  <2> HIDE DEF new
  <2>5. QED
      BY <1>2, <2>1, <2>2, <2>3, <2>4, AfterQuietMove
<1>4. ASSUME NEW found \in SUBSET Package, RecordSuccess(r, found) PROVE IInv'
  <2> DEFINE new == [old EXCEPT !.cached = @ \cup found, !.stage = "installed"]
  <2>1. /\ new \in RequestRecord /\ new.stage = "installed" /\ new.project = old.project
        /\ new.inferred = old.inferred /\ new.typings = old.typings
      BY <1>1 DEF RequestRecord, Stage
  <2>2. /\ old.stage = "succeeded" /\ request' = [request EXCEPT ![r] = new]
        /\ found \subseteq old.typings
        /\ packageNameToTypingLocation' = packageNameToTypingLocation \cup found
        /\ missingTypingsSet' = missingTypingsSet \cup (old.typings \ found)
        /\ UNCHANGED <<projectVars, throttleVars>>
      BY <1>1, <1>4, Requests DEF RecordSuccess, IInv, RequestRecord
  <2>3. /\ Wanted(r) \subseteq packageNameToTypingLocation' \cup missingTypingsSet'
        /\ missingTypingsSet' \subseteq Package
        /\ old.typings \subseteq Registry
        /\ packageNameToTypingLocation' \subseteq Registry
      BY <1>1, <1>2, <2>2 DEF IInv, WantedIsListed, Wanted, Undecided, RequestRecord,
                              InstallsAreRegistered
  <2>4. "installed" \notin Undecided
      BY DEF Undecided
  <2> HIDE DEF new
  <2>5. QED
      BY <1>2, <2>1, <2>2, <2>3, <2>4, AfterQuietMove
<1>5. QED
    BY <1>3, <1>4

\* The answer reaches the project, or is dropped as late.
LEMMA AfterUpdate ==
    ASSUME IInv, NEW r \in DOMAIN request, UpdateTypingFiles(r)
    PROVE  IInv'
<1> DEFINE old == request[r]
           new == [old EXCEPT !.stage = "done"]
           p == old.project
           files == IF p \in enabled THEN old.cached ELSE {}
<1>1. old \in RequestRecord
    BY Requests DEF IInv
<1>2. /\ new \in RequestRecord /\ new.stage = "done" /\ new.project = p
      /\ new.inferred = old.inferred /\ new.typings = old.typings /\ new.cached = old.cached
      /\ p \in Project
    BY <1>1 DEF RequestRecord, Stage
<1>3. /\ old.stage = "installed" /\ request' = [request EXCEPT ![r] = new]
      /\ typingFiles' = IF typingsInfo[p] # r THEN typingFiles
                        ELSE [typingFiles EXCEPT ![p] = files]
      /\ UNCHANGED <<enabled, typingsInfo, tableVars, throttleVars>>
    BY <1>1, Requests DEF UpdateTypingFiles, Advance, IsCurrent, IInv, RequestRecord
<1>4. files \in {old.cached, {}} /\ files \subseteq Package
    BY <1>1 DEF RequestRecord
<1>5. /\ Wanted(r) \subseteq packageNameToTypingLocation \cup missingTypingsSet
      /\ old.typings \subseteq Registry /\ "done" \notin Undecided
      /\ packageNameToTypingLocation \subseteq Registry /\ missingTypingsSet \subseteq Package
      /\ typingFiles \in [Project -> SUBSET Package]
      /\ UNCHANGED <<packageNameToTypingLocation, missingTypingsSet>>
    BY <1>1, <1>3 DEF IInv, TypeOK, WantedIsListed, Wanted, Undecided, Decided, RequestRecord,
                      InstallsAreRegistered, tableVars
<1>6. \A q \in Project : typingsInfo[q] = r => q = p
  <2>1. r # 0
      BY Requests DEF IInv
  <2>2. QED
      BY <2>1 DEF IInv, LatestIsOwn
<1> HIDE DEF files
<1>7. /\ typingFiles' \in [Project -> SUBSET Package]
      /\ \A q \in Project : \/ typingFiles'[q] = typingFiles[q]
                            \/ typingFiles'[q] \in {new.cached, {}} /\ typingsInfo[q] = r
      /\ \A q \in Project : typingsInfo[q] = r => typingFiles'[q] \in {new.cached, {}}
    BY <1>2, <1>3, <1>4, <1>5, <1>6
<1>8. /\ old.stage \notin {"pending", "installing", "done"}
      /\ new.stage \notin {"pending", "installing"} /\ new.typings \subseteq Registry
      /\ request' = [request EXCEPT ![r] = new] /\ new.project = old.project
      /\ UNCHANGED <<enabled, typingsInfo, throttleVars>>
    BY <1>2, <1>3, <1>5
<1> HIDE DEF new, p
<1>9. QED
    BY <1>2, <1>5, <1>7, <1>8, AfterMove

\* npm is started, or the request waits for a place.
LEMMA AfterInstall ==
    ASSUME IInv, NEW r \in DOMAIN request, installTypings(r)
    PROVE  IInv'
<1> DEFINE old == request[r]
           n == Len(pendingRunRequests)
<1> PICK to \in {"installing", "pending"} :
        to = IF BelowLimit THEN "installing" ELSE "pending"
    OBVIOUS
<1> DEFINE new == [old EXCEPT !.stage = to]
<1>1. /\ old \in RequestRecord
      /\ \A stage : IsFiniteSet(InStage(stage)) /\ Cardinality(InStage(stage)) \in Nat
      /\ pendingRunRequests \in Seq(DOMAIN request)
      /\ inFlightRequestCount \in 0 .. ThrottleLimit
      /\ n \in Nat /\ DOMAIN pendingRunRequests = 1 .. n
  <2>1. pendingRunRequests \in Seq(DOMAIN request)
      BY DEF IInv, TypeOK
  <2>2. QED
      BY <2>1, Requests, LenProperties DEF IInv, TypeOK
<1>2. /\ new \in RequestRecord /\ new.stage = to /\ new.project = old.project
      /\ new.inferred = old.inferred /\ new.typings = old.typings /\ new.cached = old.cached
    BY <1>1 DEF RequestRecord, Stage
<1>3. /\ old.stage = "filtered" /\ request' = [request EXCEPT ![r] = new]
      /\ UNCHANGED <<projectVars, tableVars>>
    BY <1>1, Requests DEF installTypings, Advance, IInv, RequestRecord
<1>4. /\ UNCHANGED <<enabled, typingsInfo, typingFiles, packageNameToTypingLocation,
                     missingTypingsSet>>
      /\ "filtered" \in Undecided /\ "filtered" \notin Decided
      /\ {"pending", "installing"} \subseteq Undecided
      /\ "pending" \notin Decided /\ "installing" \notin Decided
    BY <1>3 DEF projectVars, tableVars, Undecided, Decided
<1>5. /\ request' \in Seq(RequestRecord) /\ Len(request') = Len(request)
      /\ DOMAIN request' = DOMAIN request
      /\ request'[r] = new /\ \A k \in DOMAIN request : k # r => request'[k] = request[k]
      /\ \A p \in Project : typingsInfo[p] # 0 => typingsInfo[p] \in DOMAIN request
    BY <1>2, <1>3, OneMoves, Requests DEF IInv, TypeOK
<1> HIDE DEF new
<1>6. InstallsAreRegistered' /\ LatestIsOwn' /\ LatestAnswerStays' /\ WantedIsListed'
  <2>1. InstallsAreRegistered'
      BY <1>2, <1>3, <1>5 DEF IInv, InstallsAreRegistered
  <2>2. LatestIsOwn'
      BY <1>2, <1>4, <1>5 DEF IInv, LatestIsOwn
  <2>3. LatestAnswerStays'
      BY <1>2, <1>4, <1>5 DEF IInv, LatestAnswerStays, InStage
  <2>4. WantedIsListed'
    <3>1. \A k \in DOMAIN request :
              /\ Wanted(k)' = Wanted(k) /\ request'[k].typings = request[k].typings
              /\ request'[k].stage \in Undecided <=> request[k].stage \in Undecided
              /\ request'[k].stage \in Decided <=> request[k].stage \in Decided
        BY <1>2, <1>3, <1>4, <1>5 DEF Wanted
    <3>2. QED
        BY <1>4, <1>5, <3>1 DEF IInv, WantedIsListed
  <2>5. QED
      BY <2>1, <2>2, <2>3, <2>4
<1>7. /\ InStage(to)' = InStage(to) \cup {r} /\ r \notin InStage(to)
      /\ \A stage \in {"pending", "installing"} : stage # to => InStage(stage)' = InStage(stage)
    BY <1>2, <1>3, <1>4, <1>5 DEF InStage
<1>8. Cardinality(InStage(to)') = Cardinality(InStage(to)) + 1
    BY <1>1, <1>7, FS_AddElement
<1>9. ASSUME inFlightRequestCount' \in 0 .. ThrottleLimit,
             pendingRunRequests' \in Seq(DOMAIN request)
      PROVE  TypeOK'
    BY <1>4, <1>5, <1>9 DEF IInv, TypeOK, RequestRecord
<1>10. CASE BelowLimit
  <2>1. /\ to = "installing" /\ inFlightRequestCount < ThrottleLimit
        /\ inFlightRequestCount' = inFlightRequestCount + 1
        /\ UNCHANGED pendingRunRequests
      BY <1>10 DEF installTypings, BelowLimit
  <2>2. ThrottleIsTight'
    <3>1. pendingRunRequests = <<>>
        BY <1>1, <2>1, TypingsAssumption DEF IInv, ThrottleIsTight
    <3>2. QED
        BY <1>7, <1>8, <2>1, <3>1 DEF IInv, ThrottleIsTight
  <2>3. QueuedOnce'
      BY <2>1 DEF IInv, QueuedOnce
  <2>4. TypeOK'
      BY <1>1, <1>9, <2>1, TypingsAssumption
  <2>5. QED
      BY <1>6, <2>2, <2>3, <2>4 DEF IInv
<1>11. CASE ~BelowLimit
  <2>1. /\ to = "pending" /\ ~(inFlightRequestCount < ThrottleLimit)
        /\ pendingRunRequests' = Append(pendingRunRequests, r)
        /\ UNCHANGED inFlightRequestCount
      BY <1>11 DEF installTypings, BelowLimit
  <2>2. /\ pendingRunRequests' \in Seq(DOMAIN request) /\ Len(pendingRunRequests') = n + 1
        /\ \A i \in 1 .. n : pendingRunRequests'[i] = pendingRunRequests[i]
        /\ pendingRunRequests'[n + 1] = r
      BY <1>1, <2>1, AppendProperties
  <2>3. DOMAIN pendingRunRequests' = 1 .. n + 1
      BY <2>2, LenProperties
  <2>4. /\ {pendingRunRequests[k] : k \in 1 .. n} = InStage("pending")
        /\ n = Cardinality(InStage("pending"))
        /\ inFlightRequestCount = Cardinality(InStage("installing"))
      BY <1>1 DEF IInv, ThrottleIsTight
  <2>5. {pendingRunRequests'[k] : k \in 1 .. n + 1}
            = {pendingRunRequests[k] : k \in 1 .. n} \cup {r}
    <3>1. 1 .. n + 1 = (1 .. n) \cup {n + 1}
        BY <1>1
    <3>2. QED
        BY <2>2, <3>1
  <2>6. QueuedOnce'
    <3>1. \A k \in 1 .. n : pendingRunRequests[k] # r
        BY <1>7, <2>1, <2>4
    <3>2. ASSUME NEW k \in 1 .. n + 1, NEW l \in 1 .. n + 1,
                 pendingRunRequests'[k] = pendingRunRequests'[l]
          PROVE  k = l
      <4>1. \A i \in 1 .. n + 1 : i = n + 1 \/ i \in 1 .. n
          BY <1>1
      <4>2. CASE k = n + 1 \/ l = n + 1
          BY <2>2, <3>1, <3>2, <4>1, <4>2
      <4>3. CASE k \in 1 .. n /\ l \in 1 .. n
          BY <2>2, <3>2, <4>3 DEF IInv, QueuedOnce
      <4>4. QED
          BY <4>1, <4>2, <4>3
    <3>3. QED
        BY <2>2, <3>2 DEF QueuedOnce
  <2>7. ThrottleIsTight'
    <3>1. inFlightRequestCount = ThrottleLimit
        BY <1>1, <2>1, TypingsAssumption
    <3>2. inFlightRequestCount' = Cardinality(InStage("installing")')
        BY <1>7, <2>1, <2>4
    <3>3. {pendingRunRequests'[k] : k \in DOMAIN pendingRunRequests'} = InStage("pending")'
        BY <1>7, <2>1, <2>3, <2>4, <2>5
    <3>4. Len(pendingRunRequests') = Cardinality(InStage("pending")')
        BY <1>8, <2>1, <2>2, <2>4
    <3>5. QED
        BY <2>1, <3>1, <3>2, <3>3, <3>4 DEF ThrottleIsTight
  <2>8. TypeOK'
      BY <1>1, <1>9, <2>1, <2>2
  <2>9. QED
      BY <1>6, <2>6, <2>7, <2>8 DEF IInv
<1>12. QED
    BY <1>10, <1>11

\* npm has ended; its place goes to the first request that waits.
LEMMA AfterComplete ==
    ASSUME IInv, NEW r \in DOMAIN request, NEW success \in BOOLEAN,
           onRequestComplete(r, success)
    PROVE  IInv'
<1> DEFINE n == Len(pendingRunRequests)
           next == Head(pendingRunRequests)
           end == IF success THEN "succeeded" ELSE "failed"
           Starts(k) == n # 0 /\ k = next
           Installing == InStage("installing")
           Pending == InStage("pending")
<1>1. /\ pendingRunRequests \in Seq(DOMAIN request)
      /\ n \in Nat /\ DOMAIN pendingRunRequests = 1 .. n
      /\ pendingRunRequests = <<>> <=> n = 0
  <2>1. pendingRunRequests \in Seq(DOMAIN request)
      BY DEF IInv, TypeOK
  <2>2. QED
      BY <2>1, LenProperties, EmptySeq
<1>2. /\ \A stage : IsFiniteSet(InStage(stage)) /\ Cardinality(InStage(stage)) \in Nat
      /\ request \in [DOMAIN request -> RequestRecord]
      /\ inFlightRequestCount \in 0 .. ThrottleLimit
      /\ inFlightRequestCount = Cardinality(Installing)
      /\ n # 0 => inFlightRequestCount = ThrottleLimit
      /\ {pendingRunRequests[k] : k \in 1 .. n} = Pending
      /\ n = Cardinality(Pending)
      /\ \A p \in Project : typingsInfo[p] # 0 => typingsInfo[p] \in DOMAIN request
    BY <1>1, Requests DEF IInv, TypeOK, ThrottleIsTight
<1>3. /\ request[r].stage = "installing"
      /\ UNCHANGED <<projectVars, tableVars>>
    BY DEF onRequestComplete
<1>4. UNCHANGED <<enabled, typingsInfo, typingFiles, packageNameToTypingLocation,
                  missingTypingsSet>>
    BY <1>3 DEF projectVars, tableVars
<1>5. n # 0 => next = pendingRunRequests[1] /\ next \in Pending /\ next \in DOMAIN request
  <2> SUFFICES ASSUME n # 0
               PROVE  next = pendingRunRequests[1] /\ next \in Pending /\ next \in DOMAIN request
      OBVIOUS
  <2>1. next = pendingRunRequests[1] /\ 1 \in 1 .. n
      BY <1>1
  <2>2. QED
      BY <1>2, <2>1 DEF InStage
<1>6. request' = [k \in DOMAIN request |->
                     [request[k] EXCEPT !.stage =
                         IF k = r THEN end ELSE IF Starts(k) THEN "installing" ELSE @]]
    BY <1>1 DEF onRequestComplete
<1> HIDE DEF next
<1>7. \A k \in DOMAIN request :
          /\ request[k] \in RequestRecord
          /\ request'[k] = [request[k] EXCEPT !.stage =
                 IF k = r THEN end ELSE IF Starts(k) THEN "installing" ELSE @]
          /\ request'[k] \in RequestRecord
          /\ request'[k].project = request[k].project
          /\ request'[k].inferred = request[k].inferred
          /\ request'[k].cached = request[k].cached
          /\ request'[k].typings = request[k].typings
          /\ request'[k].stage =
                 IF k = r THEN end ELSE IF Starts(k) THEN "installing" ELSE request[k].stage
  <2> SUFFICES ASSUME NEW k \in DOMAIN request
               PROVE  /\ request[k] \in RequestRecord
                      /\ request'[k] = [request[k] EXCEPT !.stage =
                             IF k = r THEN end ELSE IF Starts(k) THEN "installing" ELSE @]
                      /\ request'[k] \in RequestRecord
                      /\ request'[k].project = request[k].project
                      /\ request'[k].inferred = request[k].inferred
                      /\ request'[k].cached = request[k].cached
                      /\ request'[k].typings = request[k].typings
                      /\ request'[k].stage = IF k = r THEN end
                             ELSE IF Starts(k) THEN "installing" ELSE request[k].stage
      OBVIOUS
  <2>1. PICK to : to = IF k = r THEN end ELSE IF Starts(k) THEN "installing" ELSE request[k].stage
      OBVIOUS
  <2>2. request[k] \in RequestRecord
      BY <1>2
  <2>3. to \in Stage
      BY <2>1, <2>2 DEF RequestRecord, Stage
  <2>4. request'[k] = [request[k] EXCEPT !.stage = to]
      BY <1>6, <2>1
  <2>5. QED
      BY <2>1, <2>2, <2>3, <2>4 DEF RequestRecord
<1>8. /\ DOMAIN request' = DOMAIN request /\ request' \in [DOMAIN request -> RequestRecord]
    BY <1>6, <1>7
<1>9. request' \in Seq(RequestRecord) /\ Len(request') = Len(request)
    BY <1>8, SameRequests DEF IInv
<1>10. \A k \in DOMAIN request : Starts(k) => request[k].stage = "pending"
    BY <1>5 DEF InStage
<1> HIDE DEF Starts
<1>11. InstallsAreRegistered' /\ LatestIsOwn' /\ LatestAnswerStays' /\ WantedIsListed'
  <2>1. InstallsAreRegistered'
    <3>1. \A k \in DOMAIN request :
              request'[k].stage \notin {"enqueued", "discovered"}
                  => request[k].stage \notin {"enqueued", "discovered"}
        BY <1>3, <1>7, <1>10
    <3>2. QED
        BY <1>7, <1>8, <3>1 DEF IInv, InstallsAreRegistered
  <2>2. LatestIsOwn'
      BY <1>2, <1>4, <1>7, <1>8 DEF IInv, LatestIsOwn
  <2>3. LatestAnswerStays'
    <3>1. \A k \in DOMAIN request : request'[k].stage = "done" => request[k].stage = "done"
        BY <1>3, <1>7, <1>10
    <3>2. QED
        BY <1>2, <1>4, <1>7, <1>8, <3>1 DEF IInv, LatestAnswerStays, InStage
  <2>4. WantedIsListed'
    <3>1. \A k \in DOMAIN request :
              /\ Wanted(k)' = Wanted(k)
              /\ request'[k].stage \in Undecided => request[k].stage \in Undecided
              /\ request'[k].stage \in Decided => request[k].stage \in Decided
        BY <1>3, <1>7, <1>10 DEF Wanted, Undecided, Decided
    <3>2. QED
        BY <1>4, <1>7, <1>8, <3>1 DEF IInv, WantedIsListed
  <2>5. QED
      BY <2>1, <2>2, <2>3, <2>4
<1>12. r \in Installing /\ r \notin Pending
    BY <1>3 DEF InStage
<1>13. Cardinality(Installing \ {r}) = Cardinality(Installing) - 1 /\ IsFiniteSet(Installing \ {r})
    BY <1>2, <1>12, FS_RemoveElement
<1>14. CASE n = 0
  <2>1. /\ inFlightRequestCount' = inFlightRequestCount - 1
        /\ UNCHANGED pendingRunRequests
      BY <1>1, <1>14 DEF onRequestComplete, RunNext
  <2>2. InStage("installing")' = Installing \ {r} /\ InStage("pending")' = Pending
      BY <1>3, <1>7, <1>8, <1>14 DEF InStage, Starts
  <2>3. inFlightRequestCount' = Cardinality(InStage("installing")')
      BY <1>2, <1>13, <2>1, <2>2
  <2>4. ThrottleIsTight'
      BY <1>1, <1>2, <1>14, <2>1, <2>2, <2>3 DEF ThrottleIsTight
  <2>5. QueuedOnce'
      BY <2>1 DEF IInv, QueuedOnce
  <2>6. inFlightRequestCount' \in 0 .. ThrottleLimit
    <3>1. Cardinality(Installing \ {r}) \in Nat
        BY <1>13, FS_CardinalityType
    <3>2. QED
        BY <1>2, <1>13, <2>1, <3>1, TypingsAssumption
  <2>7. TypeOK'
      BY <1>4, <1>8, <1>9, <2>1, <2>6 DEF IInv, TypeOK, RequestRecord
  <2>8. QED
      BY <1>11, <2>4, <2>5, <2>7 DEF IInv
<1>15. CASE n # 0
  <2>1. /\ pendingRunRequests' = Tail(pendingRunRequests) /\ UNCHANGED inFlightRequestCount
      BY <1>1, <1>15 DEF onRequestComplete, RunNext
  <2>2. /\ pendingRunRequests' \in Seq(DOMAIN request) /\ Len(pendingRunRequests') = n - 1
        /\ \A i \in 1 .. Len(pendingRunRequests') :
               pendingRunRequests'[i] = pendingRunRequests[i + 1]
      BY <1>1, <1>15, <2>1, HeadTailProperties
  <2>3. DOMAIN pendingRunRequests' = 1 .. n - 1
      BY <2>2, LenProperties
  <2>4. next = pendingRunRequests[1] /\ next \in Pending /\ next # r /\ next \notin Installing
      BY <1>5, <1>12, <1>15 DEF InStage
  <2>5. /\ InStage("installing")' = (Installing \ {r}) \cup {next}
        /\ InStage("pending")' = Pending \ {next}
      BY <1>3, <1>5, <1>7, <1>8, <1>15, <2>4 DEF InStage, Starts
  <2>6. /\ Cardinality(InStage("installing")') = Cardinality(Installing)
        /\ Cardinality(InStage("pending")') = Cardinality(Pending) - 1
    <3>1. Cardinality(InStage("installing")') = Cardinality(Installing \ {r}) + 1
        BY <1>13, <2>4, <2>5, FS_AddElement
    <3>2. Cardinality(InStage("pending")') = Cardinality(Pending) - 1
        BY <1>2, <2>4, <2>5, FS_RemoveElement
    <3>3. QED
        BY <1>2, <1>13, <3>1, <3>2
  <2>7. \A k, l \in 1 .. n : pendingRunRequests[k] = pendingRunRequests[l] => k = l
      BY DEF IInv, QueuedOnce
  <2>8. {pendingRunRequests'[k] : k \in 1 .. n - 1} = Pending \ {next}
    <3>1. ASSUME NEW k \in 1 .. n - 1 PROVE pendingRunRequests'[k] \in Pending \ {next}
      <4>1. k + 1 \in 1 .. n /\ 1 \in 1 .. n /\ k + 1 # 1
          BY <1>1, <1>15
      <4>2. pendingRunRequests'[k] = pendingRunRequests[k + 1]
          BY <2>2
      <4>3. QED
          BY <1>2, <2>4, <2>7, <4>1, <4>2
    <3>2. ASSUME NEW x \in Pending \ {next}
          PROVE  \E k \in 1 .. n - 1 : x = pendingRunRequests'[k]
      <4>1. PICK l \in 1 .. n : x = pendingRunRequests[l]
          BY <1>2
      <4>2. l # 1
          BY <2>4, <4>1
      <4>3. l - 1 \in 1 .. n - 1 /\ (l - 1) + 1 = l
          BY <1>1, <4>2
      <4>4. pendingRunRequests'[l - 1] = x
          BY <2>2, <4>1, <4>3
      <4>5. QED
          BY <4>3, <4>4
    <3>3. QED
        BY <3>1, <3>2
  <2>9. QueuedOnce'
    <3>1. ASSUME NEW k \in 1 .. n - 1, NEW l \in 1 .. n - 1,
                 pendingRunRequests'[k] = pendingRunRequests'[l]
          PROVE  k = l
      <4>1. k + 1 \in 1 .. n /\ l + 1 \in 1 .. n
          BY <1>1
      <4>2. k + 1 = l + 1
          BY <2>2, <2>7, <3>1, <4>1
      <4>3. QED
          BY <4>2
    <3>2. QED
        BY <2>2, <3>1 DEF QueuedOnce
  <2>10. ThrottleIsTight'
    <3>1. inFlightRequestCount' = Cardinality(InStage("installing")')
        BY <1>2, <2>1, <2>6
    <3>2. {pendingRunRequests'[k] : k \in DOMAIN pendingRunRequests'} = InStage("pending")'
        BY <2>3, <2>5, <2>8
    <3>3. Len(pendingRunRequests') = Cardinality(InStage("pending")')
        BY <1>2, <2>2, <2>6
    <3>4. inFlightRequestCount' = ThrottleLimit
        BY <1>2, <1>15, <2>1
    <3>5. QED
        BY <3>1, <3>2, <3>3, <3>4 DEF ThrottleIsTight
  <2>11. TypeOK'
      BY <1>2, <1>4, <1>8, <1>9, <2>1, <2>2 DEF IInv, TypeOK, RequestRecord
  <2>12. QED
      BY <1>11, <2>9, <2>10, <2>11 DEF IInv
<1>16. QED
    BY <1>14, <1>15

-----------------------------------------------------------------------------
\* No step of a request or a project breaks the invariant.
LEMMA NextPreserves ==
    ASSUME IInv, [Next]_vars
    PROVE  IInv'
<1>1. CASE \E p \in Project : \E inferred \in Inputs, enable, force \in BOOLEAN :
               enqueueInstallTypingsForProject(p, inferred, enable, force)
    BY <1>1, AfterEnqueue
<1>2. ASSUME NEW r \in DOMAIN request, discoverAndInstallTypings(r) PROVE IInv'
    BY <1>2, AfterDiscover, AfterFilter, AfterInstall, AfterComplete, AfterRecord, AfterUpdate
    DEF discoverAndInstallTypings
<1>3. CASE UNCHANGED vars
  <2>1. UNCHANGED <<enabled, typingsInfo, typingFiles, request, packageNameToTypingLocation,
                    missingTypingsSet, inFlightRequestCount, pendingRunRequests>>
      BY <1>3 DEF vars, projectVars, tableVars, throttleVars
  <2>2. TypeOK'
      BY <2>1 DEF IInv, TypeOK
  <2>3. QueuedOnce' /\ ThrottleIsTight'
      BY <2>1, ThrottleKept DEF IInv, throttleVars
  <2>4. InstallsAreRegistered' /\ LatestIsOwn' /\ LatestAnswerStays' /\ WantedIsListed'
      BY <2>1 DEF IInv, InstallsAreRegistered, LatestIsOwn, LatestAnswerStays, InStage,
                  WantedIsListed, Wanted
  <2>5. QED
      BY <2>2, <2>3, <2>4 DEF IInv
<1>4. QED
    BY <1>1, <1>2, <1>3 DEF Next

\* The invariant in every behaviour.
LEMMA Invariance == Spec => []IInv
<1>1. IInv /\ [Next]_vars => IInv'
    BY NextPreserves
<1>2. QED
    BY InitEstablishes, <1>1, PTL DEF Spec

\* The count of running installs never exceeds the limit, and every request keeps its
\* shape.
THEOREM TypeCorrect == Spec => []TypeOK
<1>1. IInv => TypeOK
    BY DEF IInv
<1>2. QED
    BY <1>1, Invariance, PTL

\* inFlightRequestCount counts the installs that run, requests wait only while all
\* places are taken, and the queue holds those that wait, each once: no place and no
\* request is ever lost, however the installs end.
THEOREM PlacesAreCounted == Spec => []ThrottleIsTight
<1>1. IInv => ThrottleIsTight
    BY DEF IInv
<1>2. QED
    BY <1>1, Invariance, PTL

\* A project keeps the answer to its latest request, in whatever order the goroutines
\* of its requests end.
THEOREM LateAnswersAreDropped == Spec => []LatestAnswerStays
<1>1. IInv => LatestAnswerStays
    BY DEF IInv
<1>2. QED
    BY <1>1, Invariance, PTL

\* When a request is over, each typing that it wanted and that can be had is in the
\* table of the installed ones or in the set of the missing ones.
THEOREM NothingStaysOpen == Spec => []EveryTypingIsDecided
<1>1. IInv => EveryTypingIsDecided
  <2>1. {"done", "abandoned"} \subseteq Decided
      BY DEF Decided
  <2>2. QED
      BY <2>1 DEF IInv, WantedIsListed, Wanted, EveryTypingIsDecided, Over, InStage
<1>2. QED
    BY <1>1, Invariance, PTL
=============================================================================
