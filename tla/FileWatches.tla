---------------------------- MODULE FileWatches ----------------------------
(***************************************************************************)
(* How a project learns that a file it has looked for in vain now exists   *)
(* (internal/project/watch.go, project.go, internal/lsp/server.go).  A     *)
(* build leaves the locations that it did not find; updateWatchers, still  *)
(* under the lock of the project, makes globs of them and asks the client, *)
(* over the connection that all projects share, to register these and to   *)
(* unregister the earlier ones; an event for one of the locations makes    *)
(* the project dirty.                                                      *)
(*                                                                         *)
(* The client is external.  It may refuse what it is asked, and it need    *)
(* not answer.  Projects are updated concurrently and number their         *)
(* requests and handles without a lock; the history variable mixed says    *)
(* whether two of them have got the same number (see MixUps).  The history *)
(* variables late and bypassed say which created files no project could    *)
(* have been told of.                                                      *)
(***************************************************************************)
EXTENDS WatchGlobs

CONSTANTS
    Project,
    Lookups,                 \* the sets of locations that a build may look up
    Roots,                   \* current directories of the server
    MaxEdits, MaxRefusals, MaxFiles, MaxOpen   \* bounds

ASSUME WatchesAssumption ==
    {MaxEdits, MaxRefusals, MaxFiles, MaxOpen} \subseteq Nat

\* "Assuming all of the input paths are filenames" (watch.go): a location that a module
\* resolution looks up is never a directory.
ASSUME LookupsAssumption ==
    /\ Roots \subseteq Seq(STRING)
    /\ \A ls \in Lookups : \A l \in ls : IsFileName(l) /\ l \notin Roots

VARIABLES
    root,                    \* the current directory
    exists,                  \* the locations where a file is
    openFiles, scriptInfos,  \* the locations that are open, and that have a script info
    containingProjects,      \* location -> projects that its script info is attached to
    lookups,                 \* project -> locations that its files make it look up
    dirty,                   \* project -> "no", "file" (only dirtyFilePath) or "all"
    failed,                  \* project -> locations that its program did not find
    data, globs, watcherID,  \* project -> its failedLookupsWatch
    stage,                   \* project -> how far its update is; "idle": p.mu is free
    call,                    \* project -> what it asks the client, the handle it is about,
                             \*   and the clientSeq that it has read
    nextWatcher,             \* Server.watcherID
    watchers, clientSeq,
    pendingServerRequests,   \* id -> the project that waits
    requests,                \* requests the client has not seen
    responses,               \* responses readLoop has not delivered
    delivered,               \* project -> the response that it waits for
    registrations,           \* what the client watches
    events,                  \* created files that the dispatch loop has not heard of
    event, todo,             \* the one it handles, and the projects it has to tell
    marking,                 \* projects whose lock markAsDirty waits for
    edits, refusals,
    late,                    \* project -> locations created during its last update
    bypassed,                \* project -> locations of events that it was not told of
    refused,                 \* projects whose last update failed
    mixed                    \* two projects have got the same number

infoVars == <<openFiles, scriptInfos, containingProjects>>
projectVars == <<lookups, dirty, failed, data, globs, watcherID>>
serverVars == <<nextWatcher, watchers, clientSeq, pendingServerRequests, delivered>>
clientVars == <<requests, responses, registrations, refusals>>
eventVars == <<exists, events, event, todo, marking, late, bypassed>>
vars == <<root, infoVars, projectVars, stage, call, serverVars, clientVars, eventVars, edits,
          refused, mixed>>

None == -1                   \* no handle; the handle "watcher-n" is n
NoEvent == [at |-> <<>>, known |-> FALSE]
NoCall == [asks |-> "nothing", handle |-> None, seq |-> 0]
Location == UNION Lookups
Marks == {"no", "file", "all"}
Stages == {"idle", "built", "unwatched", "count", "number", "send", "await"}

Init ==
    /\ root \in Roots
    /\ exists = {} /\ events = {} /\ event = NoEvent /\ todo = {} /\ marking = {}
    /\ openFiles = {} /\ scriptInfos = {} /\ containingProjects = [l \in Location |-> {}]
    /\ lookups \in [Project -> Lookups]
    /\ dirty = [p \in Project |-> "all"]
    /\ failed = [p \in Project |-> {}]
    /\ data = [p \in Project |-> {}] /\ globs = [p \in Project |-> {}]
    /\ watcherID = [p \in Project |-> None]
    /\ stage = [p \in Project |-> "idle"]
    /\ call = [p \in Project |-> NoCall]
    /\ nextWatcher = 0 /\ watchers = {} /\ clientSeq = 0 /\ pendingServerRequests = <<>>
    /\ delivered = [p \in Project |-> "none"]
    /\ requests = {} /\ responses = {} /\ registrations = {}
    /\ edits = 0 /\ refusals = 0
    /\ late = [p \in Project |-> {}] /\ bypassed = [p \in Project |-> {}]
    /\ refused = {} /\ mixed = FALSE

At(p, s) == stage[p] = s
Go(p, s) == stage' = [stage EXCEPT ![p] = s]
End(p) == Go(p, "idle") /\ call' = [call EXCEPT ![p] = NoCall]
Fail(p) == End(p) /\ refused' = refused \cup {p}
Succeed(p) == End(p) /\ refused' = refused \ {p}

markAsDirty(p) == dirty' = [dirty EXCEPT ![p] = "all"]

\* A second file makes it everything that is dirty.
MarkFileAsDirty(p) ==
    \E mark \in IF dirty[p] = "no" THEN {"file"} ELSE {dirty[p], "all"} :
        dirty' = [dirty EXCEPT ![p] = mark]

-----------------------------------------------------------------------------
(* The project.                                                            *)

\* An edit of a file of the project: of its imports, so that the program is not reused, or
\* of other text.
Edit(p) ==
    /\ At(p, "idle") /\ edits < MaxEdits
    /\ edits' = edits + 1
    /\ \E ls \in Lookups :
           /\ lookups' = [lookups EXCEPT ![p] = ls]
           /\ IF ls = lookups[p] THEN MarkFileAsDirty(p)
                                 ELSE dirty' = [dirty EXCEPT ![p] = "all"]
    /\ UNCHANGED <<root, infoVars, failed, data, globs, watcherID, stage, call, serverVars,
                   clientVars, eventVars, refused>>

\* The update of the program, up to updateWatchers: what is found is loaded, its script
\* info made and attached.
updateGraph(p) ==
    /\ At(p, "idle") /\ dirty[p] # "no"
    /\ dirty' = [dirty EXCEPT ![p] = "no"]
    /\ LET found == lookups[p] \cap exists
       IN  /\ failed' = [failed EXCEPT ![p] = lookups[p] \ exists]
           /\ scriptInfos' = scriptInfos \cup found
           /\ containingProjects' =
                  [l \in Location |-> IF l \in found THEN containingProjects[l] \cup {p}
                                                    ELSE containingProjects[l]]
    /\ late' = [late EXCEPT ![p] = {}] /\ bypassed' = [bypassed EXCEPT ![p] = {}]
    /\ Go(p, "built")
    /\ UNCHANGED <<root, openFiles, lookups, data, globs, watcherID, call, serverVars,
                   clientVars, exists, events, event, todo, marking, edits, refused>>

\* The update that takes over the program but for one file: nothing is looked up, and the
\* watches stay.
UpdateProgram(p) ==
    /\ At(p, "idle") /\ dirty[p] = "file"
    /\ dirty' = [dirty EXCEPT ![p] = "no"]
    /\ UNCHANGED <<root, infoVars, lookups, failed, data, globs, watcherID, stage, call,
                   serverVars, clientVars, eventVars, edits, refused>>

Ask(p, what, h) ==
    /\ call' = [call EXCEPT ![p].asks = what, ![p].handle = h]
    /\ Go(p, "count")

SameGlobs_length(old, new) == Cardinality(old) = Cardinality(new)

SameGlobs(old, new) == old = new

\* updateWorker keeps the new globs before it asks the client for anything; then
\* UnwatchFiles.
updateWorker(p) ==
    /\ At(p, "built")
    /\ data' = [data EXCEPT ![p] = failed[p]]
    /\ LET new == resolutionLookupGlobs(failed[p], root)
       IN  IF SameGlobs(globs[p], new)
           THEN End(p) /\ UNCHANGED <<globs, refused>>
           ELSE /\ globs' = [globs EXCEPT ![p] = new]
                /\ \/ /\ watcherID[p] = None
                      /\ Go(p, "unwatched") /\ UNCHANGED <<call, refused>>
                   \/ /\ watcherID[p] \in watchers
                      /\ Ask(p, "unwatch", watcherID[p]) /\ UNCHANGED refused
                   \/ /\ watcherID[p] \notin watchers \cup {None}
                      /\ Fail(p)
    /\ UNCHANGED <<root, infoVars, lookups, dirty, failed, watcherID, serverVars, clientVars,
                   eventVars, edits>>

\* The rest of updateWorker, and WatchFiles: the number of the handle is read before
\* the client is asked.
Register(p) ==
    /\ At(p, "unwatched")
    /\ watcherID' = [watcherID EXCEPT ![p] = None]
    /\ IF globs[p] = {} THEN Succeed(p)
                        ELSE Ask(p, "watch", nextWatcher) /\ UNCHANGED refused
    /\ UNCHANGED <<root, infoVars, lookups, dirty, failed, data, globs, serverVars, clientVars,
                   eventVars, edits>>

-----------------------------------------------------------------------------
(* The server.                                                             *)

\* clientSeq++ of sendRequest, without a lock: it is read, and then written.
LoadSeq(p) ==
    /\ At(p, "count") /\ Go(p, "number")
    /\ call' = [call EXCEPT ![p].seq = clientSeq]
    /\ UNCHANGED <<root, infoVars, projectVars, serverVars, clientVars, eventVars, edits,
                   refused>>

StoreSeq(p) ==
    /\ At(p, "number") /\ Go(p, "send")
    /\ clientSeq' = call[p].seq + 1
    /\ UNCHANGED <<root, infoVars, projectVars, call, nextWatcher, watchers,
                   pendingServerRequests, delivered, clientVars, eventVars, edits, refused>>

\* The id is made of what clientSeq is by now.
sendRequest(p) ==
    /\ At(p, "send") /\ Go(p, "await")
    /\ call' = [call EXCEPT ![p].seq = clientSeq]
    /\ pendingServerRequests' = [i \in DOMAIN pendingServerRequests \cup {clientSeq} |->
                                    IF i = clientSeq THEN p ELSE pendingServerRequests[i]]
    /\ requests' = requests \cup {[id |-> clientSeq, asks |-> call[p].asks,
                                   handle |-> call[p].handle, globs |-> globs[p]]}
    /\ UNCHANGED <<root, infoVars, projectVars, nextWatcher, watchers, clientSeq, delivered,
                   responses, registrations, refusals, eventVars, edits, refused>>

\* readLoop finds the waiting goroutine by the id of the response.  How long it stands at a
\* full requestQueue before it reads the response is left open: nothing is fair here.
readLoop(r) ==
    /\ r \in responses
    /\ responses' = responses \ {r}
    /\ IF r.id \in DOMAIN pendingServerRequests
       THEN /\ delivered' = [delivered EXCEPT ![pendingServerRequests[r.id]] = r.result]
            /\ pendingServerRequests' =
                   [i \in DOMAIN pendingServerRequests \ {r.id} |-> pendingServerRequests[i]]
       ELSE UNCHANGED <<delivered, pendingServerRequests>>
    /\ UNCHANGED <<root, infoVars, projectVars, stage, call, nextWatcher, watchers, clientSeq,
                   requests, registrations, refusals, eventVars, edits, refused>>

Receive(p, answer) ==
    /\ At(p, "await") /\ delivered[p] = answer
    /\ delivered' = [delivered EXCEPT ![p] = "none"]

Refuse(p) ==
    /\ Receive(p, "error")
    /\ Fail(p)
    /\ UNCHANGED <<root, infoVars, projectVars, nextWatcher, watchers, clientSeq,
                   pendingServerRequests, clientVars, eventVars, edits>>

Remaining_all(h) == watchers

Remaining(h) == watchers \ {h}

\* UnwatchFiles returns.
Unwatch(p) ==
    /\ call[p].asks = "unwatch" /\ Receive(p, "done")
    /\ watchers' = Remaining(call[p].handle)
    /\ Go(p, "unwatched")
    /\ UNCHANGED <<root, infoVars, projectVars, call, nextWatcher, clientSeq,
                   pendingServerRequests, clientVars, eventVars, edits, refused>>

NextHandle_same(n) == n

NextHandle(n) == n + 1

\* WatchFiles returns.
Watch(p) ==
    /\ call[p].asks = "watch" /\ Receive(p, "done")
    /\ watchers' = watchers \cup {call[p].handle}
    /\ nextWatcher' = NextHandle(nextWatcher)
    /\ watcherID' = [watcherID EXCEPT ![p] = call[p].handle]
    /\ Succeed(p)
    /\ UNCHANGED <<root, infoVars, lookups, dirty, failed, data, globs, clientSeq,
                   pendingServerRequests, clientVars, eventVars, edits>>

-----------------------------------------------------------------------------
(* The client: it does what it is asked, or refuses, and says so.          *)

Answer(r) ==
    /\ r \in requests
    /\ requests' = requests \ {r}
    /\ \/ /\ registrations' = IF r.asks = "watch"
                              THEN registrations \cup {[handle |-> r.handle, globs |-> r.globs]}
                              ELSE {g \in registrations : g.handle # r.handle}
          /\ responses' = responses \cup {[id |-> r.id, result |-> "done"]}
          /\ UNCHANGED refusals
       \/ /\ refusals < MaxRefusals
          /\ refusals' = refusals + 1
          /\ responses' = responses \cup {[id |-> r.id, result |-> "error"]}
          /\ UNCHANGED registrations
    /\ UNCHANGED <<root, infoVars, projectVars, stage, call, serverVars, eventVars, edits,
                   refused>>

Watched(l, gs) == \E g \in gs : Matches(g, l)

\* A file is created; the client tells what it has been asked to watch for.
Create(l) ==
    /\ l \notin exists /\ Cardinality(exists) < MaxFiles
    /\ exists' = exists \cup {l}
    /\ events' = events \cup {k \in {l} : \E g \in registrations : Watched(l, g.globs)}
    /\ late' = [p \in Project |-> late[p] \cup {k \in {l} : ~At(p, "idle")}]
    /\ UNCHANGED <<root, projectVars, infoVars, stage, call, serverVars, clientVars, event,
                   todo, marking, bypassed, edits, refused>>

-----------------------------------------------------------------------------
(* The dispatch loop.  It handles one notification at a time.              *)

OpenFile(l) ==
    /\ event = NoEvent
    /\ l \notin openFiles /\ Cardinality(openFiles) < MaxOpen
    /\ openFiles' = openFiles \cup {l} /\ scriptInfos' = scriptInfos \cup {l}
    /\ UNCHANGED <<root, containingProjects, projectVars, stage, call, serverVars, clientVars,
                   eventVars, edits, refused>>

\* The script info of a file that is not on disk is deleted.
CloseFile(l) ==
    /\ event = NoEvent
    /\ l \in openFiles
    /\ openFiles' = openFiles \ {l}
    /\ scriptInfos' = IF l \in exists THEN scriptInfos ELSE scriptInfos \ {l}
    /\ UNCHANGED <<root, containingProjects, projectVars, stage, call, serverVars, clientVars,
                   eventVars, edits, refused>>

\* The projects that are told of a change at l: none if l is open, those that have it if
\* it has a script info, and else all, which see whether they have looked for it.
Told(l) ==
    IF l \in openFiles THEN {} ELSE IF l \in scriptInfos THEN containingProjects[l] ELSE Project

Handled == IF todo' = {} /\ marking' = {} THEN NoEvent ELSE event

OnWatchedFilesChanged(l) ==
    /\ event = NoEvent /\ l \in events
    /\ events' = events \ {l}
    /\ todo' = Told(l)
    /\ event' = IF Told(l) = {} THEN NoEvent ELSE [at |-> l, known |-> l \in scriptInfos]
    /\ bypassed' = [p \in Project |-> bypassed[p] \cup {k \in {l} : p \notin Told(l)}]
    /\ UNCHANGED <<root, infoVars, projectVars, stage, call, serverVars, clientVars, exists,
                   marking, late, edits, refused>>

\* A containing project has its file marked.
delayReloadNonMixedContentFile(p) ==
    /\ event.known /\ p \in todo
    /\ At(p, "idle") /\ MarkFileAsDirty(p)
    /\ todo' = todo \ {p} /\ UNCHANGED marking
    /\ event' = Handled
    /\ UNCHANGED <<root, infoVars, lookups, failed, data, globs, watcherID, stage, call,
                   serverVars, clientVars, exists, events, late, bypassed, edits, refused>>

\* The locations are looked up without the lock, which markAsDirty then waits for.
onWatchEventForNilScriptInfo(p) ==
    /\ ~event.known /\ p \in todo /\ marking = {}
    /\ todo' = todo \ {p}
    /\ marking' = {q \in {p} : event.at \in data[q]}
    /\ event' = Handled
    /\ UNCHANGED <<root, infoVars, projectVars, stage, call, serverVars, clientVars, exists,
                   events, late, bypassed, edits, refused>>

Mark(p) ==
    /\ p \in marking /\ At(p, "idle")
    /\ markAsDirty(p)
    /\ marking' = marking \ {p} /\ UNCHANGED todo
    /\ event' = Handled
    /\ UNCHANGED <<root, infoVars, lookups, failed, data, globs, watcherID, stage, call,
                   serverVars, clientVars, exists, events, late, bypassed, edits, refused>>

-----------------------------------------------------------------------------
(* What mixes the projects up.                                             *)

\* Two projects ask for the same handle, or one has its number overwritten by another
\* before it is used.
MixUps ==
    \E p, q \in Project :
        \/ p # q /\ call[p].asks = "watch" /\ call[q].asks = "watch"
                 /\ call[p].handle = call[q].handle
        \/ At(p, "number") /\ clientSeq # call[p].seq
        \/ At(p, "send") /\ clientSeq # call[p].seq + 1

-----------------------------------------------------------------------------
Update(p) ==
    \/ updateWorker(p) \/ Register(p)
    \/ LoadSeq(p) \/ StoreSeq(p) \/ sendRequest(p)
    \/ Refuse(p) \/ Unwatch(p) \/ Watch(p)

Read == \E r \in responses : readLoop(r)
Client == \E r \in requests : Answer(r)

Dispatch ==
    \/ \E l \in Location : OpenFile(l) \/ CloseFile(l)
    \/ \E l \in events : OnWatchedFilesChanged(l)
    \/ \E p \in todo : delayReloadNonMixedContentFile(p) \/ onWatchEventForNilScriptInfo(p)
    \/ \E p \in marking : Mark(p)

Step ==
    \/ \E p \in Project : Edit(p) \/ updateGraph(p) \/ UpdateProgram(p) \/ Update(p)
    \/ Read \/ Client \/ Dispatch
    \/ \E l \in Location : Create(l)

Next == Step /\ mixed' = (mixed \/ MixUps')

Spec == Init /\ [][Next]_vars

-----------------------------------------------------------------------------
TypeOK ==
    /\ stage \in [Project -> Stages]
    /\ call \in [Project -> [asks : {"nothing", "watch", "unwatch"}, handle : None .. nextWatcher,
                            seq : Nat]]
    /\ {watcherID[p] : p \in Project} \cup watchers
           \subseteq None .. nextWatcher
    /\ \A i \in DOMAIN pendingServerRequests : pendingServerRequests[i] \in Project
    /\ todo \cup marking = {} <=> event = NoEvent
    /\ openFiles \subseteq scriptInfos

Settled == \A p \in Project : At(p, "idle")

\* Between two updates server, client and projects agree on what is registered: no
\* registration is left behind that nobody can unregister, whatever has been refused,
\* until two projects that are updated at once get the same number.
RegistrationsAreKnown ==
    ~mixed /\ Settled =>
        LET used == {watcherID[p] : p \in Project} \ {None}
        IN  watchers = used /\ {g.handle : g \in registrations} = used

\* "The id used to register the request. The id can be used to deregister the request
\* again" (lsp_generated.go): one id names one registration, until two projects that are
\* updated at once get the same number.
HandlesAreUnique ==
    ~mixed => \A g, h \in registrations : g.handle = h.handle => g = h

\* A project that is up to date has found every file that exists among those it looks
\* up, until two projects that are updated at once get the same number.  It may miss a file
\* that was created while it was updated, one that is too near to the root to be watched,
\* those of a project to which the client has refused a registration, and one that was open
\* or loaded by another project when its event came.
CreatedFilesAreNoticed ==
    ~mixed => \A p \in Project :
        At(p, "idle") /\ dirty[p] # "all" /\ events = {} /\ p \notin todo \cup marking \cup refused
            => \A l \in failed[p] \cap exists : l \in late[p] \cup bypassed[p] \/ NearRoot(l)
=============================================================================
