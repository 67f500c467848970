--------------------------- MODULE TypingsInstaller ---------------------------
(***************************************************************************)
(* Automatic type acquisition (internal/project/ata.go, discovertypings.go *)
(* and the part of project.go that asks for it).                           *)
(*                                                                         *)
(* A project whose inputs change enqueues a request; a goroutine discovers *)
(* which typings the project needs, filters those worth installing, has    *)
(* npm install them (at most ThrottleLimit at once, the others queue) and  *)
(* delivers the files to the project, which takes them only if it has not  *)
(* issued a newer request.  All requests share the table of the installed  *)
(* typings and the set of those known to be missing.                       *)
(*                                                                         *)
(* A typing stands for its package.  The types registry is loaded already, *)
(* and an outdated installed typing is as good as none.  The pointer to a  *)
(* TypingsInfo is the number of the request it was made for, 0 is nil.     *)
(***************************************************************************)
EXTENDS Naturals, Sequences, FiniteSets

CONSTANTS
    Project, Package,
    Registry,            \* packages the types registry has
    Valid,               \* packages with a name that npm accepts
    Inputs,              \* sets of typings that a project's files and options can ask for
    ThrottleLimit,
    MaxRequests          \* bound of the model: requests ever issued

ASSUME TypingsAssumption ==
    /\ Registry \subseteq Package /\ Valid \subseteq Package
    /\ Inputs \subseteq SUBSET Package
    /\ ThrottleLimit \in Nat \ {0}
    /\ MaxRequests \in Nat

VARIABLES
    enabled,                       \* projects whose type acquisition is enabled
    typingsInfo,                   \* project -> its latest request
    typingFiles,                   \* project -> typings that its program includes
    request,                       \* the requests issued, in this order
    packageNameToTypingLocation,   \* the packages that are keys of that table
    missingTypingsSet,
    inFlightRequestCount,
    pendingRunRequests

projectVars == <<enabled, typingsInfo, typingFiles>>
tableVars == <<packageNameToTypingLocation, missingTypingsSet>>
throttleVars == <<inFlightRequestCount, pendingRunRequests>>
vars == <<projectVars, request, tableVars, throttleVars>>

\* processCacheLocation has found some typings of an earlier session.
Init ==
    /\ enabled \in SUBSET Project
    /\ typingsInfo = [p \in Project |-> 0]
    /\ typingFiles = [p \in Project |-> {}]
    /\ request = <<>>
    /\ packageNameToTypingLocation \in SUBSET Registry
    /\ missingTypingsSet = {}
    /\ inFlightRequestCount = 0 /\ pendingRunRequests = <<>>

-----------------------------------------------------------------------------
(* The project asks.                                                       *)

EnqueueInstallTypingsRequest(p, inferred) ==
    /\ Len(request) < MaxRequests
    /\ typingsInfo' = [typingsInfo EXCEPT ![p] = Len(request) + 1]
    /\ request' = Append(request, [project |-> p, inferred |-> inferred, cached |-> {},
                                   typings |-> {}, stage |-> "enqueued"])

NeedsTypings(p, inferred, forceRefresh) ==
    IF forceRefresh \/ typingsInfo[p] = 0 THEN TRUE
    ELSE inferred # request[typingsInfo[p]].inferred

\* The graph of project p is updated: its files and options ask for the typings
\* inferred and enable acquisition or not; forceRefresh says that files were added
\* or removed.
enqueueInstallTypingsForProject(p, inferred, enable, forceRefresh) ==
    /\ enabled' = IF enable THEN enabled \cup {p} ELSE enabled \ {p}
    /\ typingFiles' = IF enable THEN typingFiles ELSE [typingFiles EXCEPT ![p] = {}]
    /\ IF enable /\ NeedsTypings(p, inferred, forceRefresh)
       THEN EnqueueInstallTypingsRequest(p, inferred)
       ELSE UNCHANGED <<typingsInfo, request>>
    /\ UNCHANGED <<tableVars, throttleVars>>

-----------------------------------------------------------------------------
(* A request's goroutine.                                                  *)

Advance(r, from, to) ==
    /\ request[r].stage = from
    /\ request' = [request EXCEPT ![r].stage = to]

\* Every installed typing is taken, inferred or not: a name that is not a key of
\* inferredTypings looks like one that has no location yet.
Cached == packageNameToTypingLocation \cap Registry

DiscoverTypings(r) ==
    /\ request[r].stage = "enqueued"
    /\ request' = [request EXCEPT ![r].cached = Cached,
                                  ![r].typings = request[r].inferred \ Cached,
                                  ![r].stage = "discovered"]
    /\ UNCHANGED <<projectVars, tableVars, throttleVars>>

\* Typings that were installed since the discovery are skipped.
filterTypings(r) ==
    /\ request[r].stage = "discovered"
    /\ LET rest == request[r].typings \ missingTypingsSet
           typings == (rest \cap Valid \cap Registry) \ packageNameToTypingLocation
       IN  /\ missingTypingsSet' = missingTypingsSet \cup (rest \ Valid)
           /\ request' = [request EXCEPT ![r].typings = typings,
                              ![r].stage = IF typings = {} THEN "installed" ELSE "filtered"]
    /\ UNCHANGED <<projectVars, packageNameToTypingLocation, throttleVars>>

BelowLimit == inFlightRequestCount < ThrottleLimit

installTypings(r) ==
    /\ IF BelowLimit
       THEN /\ Advance(r, "filtered", "installing")
            /\ inFlightRequestCount' = inFlightRequestCount + 1
            /\ UNCHANGED pendingRunRequests
       ELSE /\ Advance(r, "filtered", "pending")
            /\ pendingRunRequests' = Append(pendingRunRequests, r)
            /\ UNCHANGED inFlightRequestCount
    /\ UNCHANGED <<projectVars, tableVars>>

RunNext_andFree ==
    /\ inFlightRequestCount' = inFlightRequestCount - 1
    /\ pendingRunRequests' = IF pendingRunRequests = <<>> THEN <<>> ELSE Tail(pendingRunRequests)

RunNext_dropRest ==
    /\ inFlightRequestCount' = IF pendingRunRequests = <<>> THEN inFlightRequestCount - 1
                               ELSE inFlightRequestCount
    /\ pendingRunRequests' = <<>>

\* The place of an install that ends goes to the first request that waits.
RunNext ==
    IF pendingRunRequests = <<>>
    THEN /\ inFlightRequestCount' = inFlightRequestCount - 1
         /\ UNCHANGED pendingRunRequests
    ELSE /\ pendingRunRequests' = Tail(pendingRunRequests)
         /\ UNCHANGED inFlightRequestCount

\* npm has ended, for better or worse.
onRequestComplete(r, success) ==
    /\ request[r].stage = "installing"
    /\ RunNext
    /\ request' = [k \in DOMAIN request |->
           [request[k] EXCEPT !.stage =
               IF k = r THEN IF success THEN "succeeded" ELSE "failed"
               ELSE IF pendingRunRequests # <<>> /\ k = Head(pendingRunRequests)
                    THEN "installing" ELSE @]]
    /\ UNCHANGED <<projectVars, tableVars>>

\* The resolver finds the files of some of the packages that npm has installed.
RecordSuccess(r, found) ==
    /\ request[r].stage = "succeeded" /\ found \subseteq request[r].typings
    /\ packageNameToTypingLocation' = packageNameToTypingLocation \cup found
    /\ missingTypingsSet' = missingTypingsSet \cup (request[r].typings \ found)
    /\ request' = [request EXCEPT ![r].cached = @ \cup found, ![r].stage = "installed"]
    /\ UNCHANGED <<projectVars, throttleVars>>

MarkMissing_none(r) == UNCHANGED missingTypingsSet

MarkMissing(r) == missingTypingsSet' = missingTypingsSet \cup request[r].typings

\* Nothing is delivered after a failure, the typings found in the cache neither.
RecordFailure(r) ==
    /\ Advance(r, "failed", "abandoned")
    /\ MarkMissing(r)
    /\ UNCHANGED <<projectVars, packageNameToTypingLocation, throttleVars>>

IsCurrent_always(r) == TRUE

IsCurrent(r) == typingsInfo[request[r].project] = r

UpdateTypingFiles(r) ==
    /\ Advance(r, "installed", "done")
    /\ typingFiles' =
           IF ~IsCurrent(r) THEN typingFiles
           ELSE [typingFiles EXCEPT ![request[r].project] =
                     IF request[r].project \in enabled THEN request[r].cached ELSE {}]
    /\ UNCHANGED <<enabled, typingsInfo, tableVars, throttleVars>>

discoverAndInstallTypings(r) ==
    \/ DiscoverTypings(r) \/ filterTypings(r) \/ installTypings(r)
    \/ \E success \in BOOLEAN : onRequestComplete(r, success)
    \/ \E found \in SUBSET Package : RecordSuccess(r, found)
    \/ RecordFailure(r) \/ UpdateTypingFiles(r)

Next ==
    \/ \E p \in Project :
           \E inferred \in Inputs, enable, force \in BOOLEAN :
               enqueueInstallTypingsForProject(p, inferred, enable, force)
    \/ \E r \in DOMAIN request : discoverAndInstallTypings(r)

Spec == Init /\ [][Next]_vars

\* Goroutines run when they can, and npm ends.
FairSpec ==
    /\ Spec
    /\ \A r \in 1 .. MaxRequests :
           WF_vars(r \in DOMAIN request /\ discoverAndInstallTypings(r))

-----------------------------------------------------------------------------
Stage == {"enqueued", "discovered", "filtered", "pending", "installing", "succeeded",
          "failed", "installed", "done", "abandoned"}

TypeOK ==
    /\ enabled \subseteq Project
    /\ request \in Seq([project : Project, inferred : SUBSET Package, cached : SUBSET Package,
                        typings : SUBSET Package, stage : Stage])
    /\ Len(request) <= MaxRequests
    /\ typingsInfo \in [Project -> 0 .. Len(request)]
    /\ typingFiles \in [Project -> SUBSET Package]
    /\ packageNameToTypingLocation \subseteq Registry
    /\ missingTypingsSet \subseteq Package
    /\ inFlightRequestCount \in 0 .. ThrottleLimit
    /\ pendingRunRequests \in Seq(DOMAIN request)

InStage(stage) == {r \in DOMAIN request : request[r].stage = stage}

\* The count is that of the installs that run, a request waits only while all places
\* are taken, and those that wait are queued, each once.
ThrottleIsTight ==
    /\ inFlightRequestCount = Cardinality(InStage("installing"))
    /\ pendingRunRequests # <<>> => inFlightRequestCount = ThrottleLimit
    /\ {pendingRunRequests[k] : k \in DOMAIN pendingRunRequests} = InStage("pending")
    /\ Len(pendingRunRequests) = Cardinality(InStage("pending"))

Over == InStage("done") \cup InStage("abandoned")

\* A late answer never replaces the one to the project's latest request (a project
\* whose acquisition was disabled in between has no typings).
LatestAnswerStays ==
    \A p \in Project :
        LET r == typingsInfo[p]
        IN  r \in InStage("done") => typingFiles[p] \in {request[r].cached, {}}

\* What a finished request asked for is installed or known to be missing, so that
\* no later request installs it again.
EveryTypingIsDecided ==
    \A r \in Over :
        request[r].inferred \cap Registry \cap Valid
            \subseteq packageNameToTypingLocation \cup missingTypingsSet

\* A request that is issued ends, however many wait.
EveryRequestEnds ==
    \A r \in 1 .. MaxRequests :
        r \in DOMAIN request ~> r \in Over

-----------------------------------------------------------------------------
(* Properties that the code does not have; see the README.                 *)

\* A typing that is installed is not known to be missing.
OneVerdict == packageNameToTypingLocation \cap missingTypingsSet = {}

\* A project gets the typings that its files and options ask for, and no others.
OnlyInferredTypings ==
    \A p \in Project : typingsInfo[p] # 0 /\ Over = DOMAIN request
        => typingFiles[p] \subseteq request[typingsInfo[p]].inferred

\* When all is done, a project has the installed typings that it asked for.
InstalledTypingsArrive ==
    \A p \in enabled : typingsInfo[p] # 0 /\ Over = DOMAIN request
        => request[typingsInfo[p]].inferred \cap packageNameToTypingLocation
               \subseteq typingFiles[p]
=============================================================================
