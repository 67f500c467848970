----------------------------- MODULE CheckerPool -----------------------------
(***************************************************************************)
(* The pool of type checkers of one program of a language-service project  *)
(* (internal/project/checkerpool.go) and the request handlers that borrow  *)
(* from it.  Every region that runs under p.mu is one action; cond.Wait    *)
(* splits a call in two, and GetAllCheckers, which looks at the request    *)
(* associations without the lock, is split at that look.                   *)
(*                                                                         *)
(* A request makes a bounded number of calls (MaxCalls bounds the model,   *)
(* not the code), nests the checkers it gets and returns them in reverse   *)
(* order (every caller defers the release).                                *)
(***************************************************************************)
EXTENDS Naturals, Sequences, FiniteSets

CONSTANTS
    Request,            \* the requests, each with its own request ID ...
    Anonymous,          \* ... except these, whose context carries no ID
    Cancelable,         \* the requests whose context may be canceled
    StringCompletion,   \* the requests that complete inside a string literal
    File, Checker,
    NoFile, NoChecker,
    MaxCheckers,        \* slots of the pool
    MaxCalls            \* bound: calls one request makes

ASSUME PoolAssumption ==
    /\ Anonymous \subseteq Request
    /\ Cancelable \subseteq Request
    /\ StringCompletion \subseteq Request
    /\ NoFile \notin File
    /\ NoChecker \notin Checker
    /\ MaxCheckers \in Nat \ {0}
    /\ MaxCalls \in Nat

ASSUME RequestsAreFinite == IsFiniteSet(Request)

VARIABLES
    checkers,             \* slot -> checker, or NoChecker (nil)
    inUse,                \* the checkers marked in use
    fileAssociations,     \* file -> slot, 0 when the map has no entry
    requestAssociations,  \* request -> slot, 0 when the map has no entry
    wasCanceled,          \* the checkers a canceled context interrupted
    pc,                   \* where the handler of a request is
    call,                 \* the call a request waits in
    seen,                 \* what GetAllCheckers read without the lock
    leases,               \* the releases a request still has to run, nested
    using,                \* the checker a handler computes with
    ctxCanceled,          \* the requests whose context is canceled
    calls                 \* calls made so far

poolVars == <<checkers, inUse, fileAssociations, requestAssociations>>
vars == <<poolVars, wasCanceled, pc, call, seen, leases, using, ctxCanceled, calls>>

Slot == 1 .. MaxCheckers
NoSlot == 0

\* A release closure: index NoSlot is the release that does nothing.
Lease == [index : Slot \cup {NoSlot}, checker : Checker, early : BOOLEAN]

\* A call in progress: for a file or not, and whether the caller releases the
\* checker before it uses it.
Call == [file : File \cup {NoFile}, early : BOOLEAN]
NoCall == [file |-> NoFile, early |-> FALSE]

Init ==
    /\ checkers = [i \in Slot |-> NoChecker]
    /\ inUse = {}
    /\ fileAssociations = [f \in File |-> NoSlot]
    /\ requestAssociations = [r \in Request |-> NoSlot]
    /\ wasCanceled = {}
    /\ pc = [r \in Request |-> "running"]
    /\ call = [r \in Request |-> NoCall]
    /\ seen = [r \in Request |-> NoSlot]
    /\ leases = [r \in Request |-> <<>>]
    /\ using = [r \in Request |-> NoChecker]
    /\ ctxCanceled = {}
    /\ calls = [r \in Request |-> 0]

-----------------------------------------------------------------------------
Filled == {i \in Slot : checkers[i] # NoChecker}
Idle == {i \in Filled : checkers[i] \notin inUse}
Empty == {i \in Slot : checkers[i] = NoChecker}
Parked == {r \in Request : pc[r] = "parked"}
Woken == {r \in Request : pc[r] = "woken"}

IsFirst(i, S) == i \in S /\ \A j \in S : i <= j

\* A checker object nothing refers to: the one NewChecker allocates.
Fresh(c) ==
    /\ \A i \in Slot : checkers[i] # c
    /\ \A r \in Request : using[r] # c

\* The checker in slot i is in the hands of request r from now on; k is the
\* call that asked for it.
Push(r, k, i, c) ==
    /\ leases' = [leases EXCEPT ![r] =
                     Append(@, [index |-> i, checker |-> c, early |-> k.early])]
    /\ using' = [using EXCEPT ![r] = IF k.early THEN @ ELSE c]
    /\ pc' = [pc EXCEPT ![r] = "running"]

Associate_forgotten(r, i) == UNCHANGED requestAssociations

Associate(r, i) ==
    requestAssociations' =
        IF r \in Anonymous THEN requestAssociations
                           ELSE [requestAssociations EXCEPT ![r] = i]

\* fileAssociations[file] = index, once getCheckerLocked has returned.
AssociateFile(k, i) ==
    fileAssociations' =
        IF k.file = NoFile THEN fileAssociations
                           ELSE [fileAssociations EXCEPT ![k.file] = i]

TakeIdle_unmarked(r, k, i) ==
    /\ Associate(r, i)
    /\ AssociateFile(k, i)
    /\ Push(r, k, i, checkers[i])
    /\ UNCHANGED <<checkers, inUse, wasCanceled>>

\* A checker nobody uses is taken.
TakeIdle(r, k, i) ==
    /\ inUse' = inUse \cup {checkers[i]}
    /\ Associate(r, i)
    /\ AssociateFile(k, i)
    /\ Push(r, k, i, checkers[i])
    /\ UNCHANGED <<checkers, wasCanceled>>

createCheckerLocked(r, k, i, c) ==
    /\ Fresh(c)
    /\ checkers' = [checkers EXCEPT ![i] = c]
    /\ inUse' = inUse \cup {c}
    /\ wasCanceled' = wasCanceled \ {c}
    /\ Associate(r, i)
    /\ AssociateFile(k, i)
    /\ Push(r, k, i, c)

\* The call finds no checker and no empty slot: it waits on p.cond.
Park(r, k) ==
    /\ pc' = [pc EXCEPT ![r] = "parked"]
    /\ call' = [call EXCEPT ![r] = k]
    /\ UNCHANGED <<poolVars, wasCanceled, leases, using>>

getCheckerLocked(r, k) ==
    \/ /\ \E i \in Slot : IsFirst(i, Idle) /\ TakeIdle(r, k, i)
       /\ UNCHANGED call
    \/ /\ Idle = {}
       /\ \E i \in Slot : /\ IsFirst(i, Empty)
                          /\ \E c \in Checker : createCheckerLocked(r, k, i, c)
       /\ UNCHANGED call
    \/ Idle = {} /\ Empty = {} /\ Park(r, k)

\* getRequestCheckerLocked finds a checker in the associated slot i ...
Finds(i) == i \in Filled

\* ... and hands it out again: taken if it is idle, shared (with a release that
\* does nothing) if it is in use, "by the same request".
getRequestCheckerLocked(r, i) ==
    /\ IF checkers[i] \in inUse
       THEN Push(r, NoCall, NoSlot, checkers[i]) /\ UNCHANGED inUse
       ELSE Push(r, NoCall, i, checkers[i]) /\ inUse' = inUse \cup {checkers[i]}
    /\ UNCHANGED <<checkers, fileAssociations, requestAssociations, wasCanceled, call>>

-----------------------------------------------------------------------------
\* A handler makes its next call.  One that returned its checker early has
\* finished with it before it asks for another.
StartCall(r) ==
    /\ pc[r] = "running"
    /\ leases[r] = <<>> => using[r] = NoChecker
    /\ calls[r] < MaxCalls
    /\ calls' = [calls EXCEPT ![r] = @ + 1]
    /\ UNCHANGED ctxCanceled

\* A handler without a request ID that holds a checker asks for no other: the
\* pool could not tell that it is the same caller.
GetCheckerForFile(r, f) ==
    /\ StartCall(r)
    /\ r \in Anonymous => leases[r] = <<>>
    /\ LET k == [file |-> f, early |-> FALSE]
       IN  \/ /\ Finds(requestAssociations[r])
              /\ getRequestCheckerLocked(r, requestAssociations[r])
           \/ /\ ~Finds(requestAssociations[r])
              /\ fileAssociations[f] \in Idle
              /\ TakeIdle(r, k, fileAssociations[f])
              /\ UNCHANGED call
           \/ /\ ~Finds(requestAssociations[r])
              /\ fileAssociations[f] \notin Idle
              /\ getCheckerLocked(r, k)
    /\ UNCHANGED seen

\* GetChecker does not consult the request associations; its callers hold no
\* checker.  A completion in a string literal (getStringLiteralCompletionEntries)
\* gives the checker back at once and goes on using it.
GetChecker(r) ==
    /\ StartCall(r)
    /\ leases[r] = <<>>
    /\ getCheckerLocked(r, [file |-> NoFile, early |-> r \in StringCompletion])
    /\ UNCHANGED seen

\* GetAllCheckers looks at the associations without holding p.mu (and panics
\* without a request ID) ...
GetAllCheckersLook(r) ==
    /\ r \notin Anonymous
    /\ StartCall(r)
    /\ pc' = [pc EXCEPT ![r] = "looked"]
    /\ seen' = [seen EXCEPT ![r] = requestAssociations[r]]
    /\ UNCHANGED <<poolVars, wasCanceled, call, leases, using>>

\* ... and acts on what it saw, by now perhaps changed.
GetAllCheckersTake(r) ==
    /\ pc[r] = "looked"
    /\ \/ Finds(seen[r]) /\ getRequestCheckerLocked(r, seen[r])
       \/ ~Finds(seen[r]) /\ getCheckerLocked(r, NoCall)
    /\ seen' = [seen EXCEPT ![r] = NoSlot]
    /\ UNCHANGED <<ctxCanceled, calls>>

\* waitForAvailableChecker after cond.Wait returned: it looks only for a
\* checker that exists, never at the empty slots.
waitForAvailableChecker(r) ==
    /\ pc[r] = "woken"
    /\ \/ /\ \E i \in Slot : IsFirst(i, Idle) /\ TakeIdle(r, call[r], i)
          /\ call' = [call EXCEPT ![r] = NoCall]
       \/ Idle = {} /\ Park(r, call[r])
    /\ UNCHANGED <<seen, ctxCanceled, calls>>

-----------------------------------------------------------------------------
Top(r) == leases[r][Len(leases[r])]

Pop(r) ==
    /\ leases' = [leases EXCEPT ![r] = SubSeq(@, 1, Len(@) - 1)]
    /\ using' = [using EXCEPT ![r] = IF Top(r).early THEN Top(r).checker
                                     ELSE IF Len(leases[r]) = 1 THEN NoChecker ELSE @]

Signal_never == UNCHANGED pc

Signal ==
    \/ \E w \in Parked : pc' = [pc EXCEPT ![w] = "woken"]
    \/ Parked = {} /\ UNCHANGED pc

Dissociate_never(r) == UNCHANGED requestAssociations
Dissociate_all(r) == requestAssociations' = [q \in Request |-> NoSlot]

Dissociate(r) == requestAssociations' = [requestAssociations EXCEPT ![r] = NoSlot]

GiveBack_canceled(l) == UNCHANGED checkers /\ inUse' = inUse \ {l.checker}

\* A checker whose work was canceled is disposed, any other is idle again.
GiveBack(l) ==
    /\ checkers' = IF l.checker \in wasCanceled
                   THEN [checkers EXCEPT ![l.index] = NoChecker]
                   ELSE checkers
    /\ inUse' = inUse \ {l.checker}

\* The closure createRelease returns, or noop.
Release(r) ==
    /\ pc[r] = "running"
    /\ leases[r] # <<>>
    /\ Pop(r)
    /\ \/ /\ Top(r).index = NoSlot
          /\ UNCHANGED <<checkers, inUse, requestAssociations, pc>>
       \/ /\ Top(r).index # NoSlot
          /\ Dissociate(r)
          /\ GiveBack(Top(r))
          /\ Signal
    /\ UNCHANGED <<fileAssociations, wasCanceled, call, seen, ctxCanceled, calls>>

\* The handler that returned its checker early is done with it.
StopUsing(r) ==
    /\ leases[r] = <<>>
    /\ using[r] # NoChecker
    /\ using' = [using EXCEPT ![r] = NoChecker]
    /\ UNCHANGED <<poolVars, wasCanceled, pc, call, seen, leases, ctxCanceled, calls>>

\* The client cancels the request (or the context of its handler ends).
CancelContext(r) ==
    /\ r \in Cancelable \ ctxCanceled
    /\ pc[r] # "done"
    /\ ctxCanceled' = ctxCanceled \cup {r}
    /\ UNCHANGED <<poolVars, wasCanceled, pc, call, seen, leases, using, calls>>

\* CheckSourceFile notices at its end that the context was canceled.
CheckSourceFile(r) ==
    /\ pc[r] = "running"
    /\ leases[r] # <<>>
    /\ r \in ctxCanceled
    /\ using[r] \in Checker
    /\ wasCanceled' = wasCanceled \cup {using[r]}
    /\ UNCHANGED <<poolVars, pc, call, seen, leases, using, ctxCanceled, calls>>

\* The handler returns and runs the cleanup of GetLanguageServiceForRequest.
EndRequest(r) ==
    /\ pc[r] = "running"
    /\ leases[r] = <<>>
    /\ using[r] = NoChecker
    /\ pc' = [pc EXCEPT ![r] = "done"]
    /\ UNCHANGED <<poolVars, wasCanceled, call, seen, leases, using, ctxCanceled, calls>>

isRequestCheckerInUse(r) ==
    LET i == requestAssociations[r] IN i \in Filled /\ checkers[i] \in inUse

Handler(r) ==
    \/ \E f \in File : GetCheckerForFile(r, f)
    \/ GetChecker(r)
    \/ GetAllCheckersLook(r)
    \/ GetAllCheckersTake(r)
    \/ waitForAvailableChecker(r)
    \/ CheckSourceFile(r)
    \/ Release(r)
    \/ StopUsing(r)
    \/ EndRequest(r)

Next == \E r \in Request : Handler(r) \/ CancelContext(r)

Spec == Init /\ [][Next]_vars

\* Every handler is a goroutine the Go scheduler keeps running: it takes its
\* next step, returns what it borrowed and ends.
Fairness == \A r \in Request : WF_vars(Handler(r))

FairSpec == Spec /\ Fairness

-----------------------------------------------------------------------------
TypeOK ==
    /\ checkers \in [Slot -> Checker \cup {NoChecker}]
    /\ inUse \subseteq Checker
    /\ fileAssociations \in [File -> Slot \cup {NoSlot}]
    /\ requestAssociations \in [Request -> Slot \cup {NoSlot}]
    /\ wasCanceled \subseteq Checker
    /\ pc \in [Request -> {"running", "looked", "parked", "woken", "done"}]
    /\ call \in [Request -> Call]
    /\ seen \in [Request -> Slot \cup {NoSlot}]
    /\ leases \in [Request -> Seq(Lease)]
    /\ using \in [Request -> Checker \cup {NoChecker}]
    /\ ctxCanceled \subseteq Request
    /\ calls \in [Request -> 0 .. MaxCalls]

Holds(r, c) == leases[r] # <<>> /\ leases[r][1].checker = c

\* Two requests never hold the same checker, however acquisitions, waits,
\* cancellations and disposals interleave.
ExclusiveLease ==
    \A r, q \in Request : \A c \in Checker : Holds(r, c) /\ Holds(q, c) => r = q

\* "A request can only access one checker" (GetAllCheckers): all the checkers a
\* request holds at a time are one, and only the outermost release returns it.
OneCheckerPerRequest ==
    \A r \in Request : \A n \in 1 .. Len(leases[r]) :
        /\ leases[r][n].checker = leases[r][1].checker
        /\ leases[r][n].index = NoSlot <=> n # 1

\* getRequestCheckerLocked assumes that a checker in use found through a request
\* association is in use by that request.
InUseByTheSameRequest ==
    \A r \in Request \ Anonymous :
        LET i == requestAssociations[r]
        IN  i # NoSlot => /\ checkers[i] \in inUse
                          /\ Holds(r, checkers[i])

\* The cleanup of a request does not find its checker still in use, which would
\* make it panic.
CleanupNeverPanics ==
    \A r \in Request : leases[r] = <<>> => ~isRequestCheckerInUse(r)

\* A checker that a canceled request interrupted is never there for another
\* request to take (GetDiagnostics would panic: "previously cancelled").
CanceledNeverReused ==
    \A i \in Filled : checkers[i] \in wasCanceled =>
        \E r \in ctxCanceled : Holds(r, checkers[i])

\* What GetAllCheckers read without the lock is still so when it is used.
UnlockedLookIsCurrent ==
    \A r \in Request : pc[r] = "looked" => seen[r] = requestAssociations[r]

\* While requests wait, there is a pending wake-up for every checker that stands
\* idle, so that none is idle while a request waits for it unnoticed.
IdleCheckersAreAnnounced ==
    Parked # {} => Cardinality(Idle) <= Cardinality(Woken)

\* A waiting call found the pool full; it waits "for an available checker" and
\* not beside an empty slot it could fill.
WaitsOnlyWhileFull == Parked # {} => Empty = {}

\* Two handlers never compute with the same checker at the same time: a checker
\* in use is in use by one goroutine.
ExclusiveUse ==
    \A r, q \in Request : using[r] = using[q] /\ using[r] # NoChecker => r = q

\* Every request eventually ends, whoever barges in before a waiter that has been
\* woken; none waits for a checker for ever, unless canceled requests have cost the
\* pool all its checkers.
EveryRequestEnds == \A r \in Request : <>(pc[r] = "done") \/ <>[](Filled = {})

Lent == [r \in Request |->
            IF leases[r] = <<>> THEN NoChecker ELSE leases[r][1].checker]

Promise == INSTANCE CheckerLease WITH lent <- Lent

\* The pool implements the abstract lending of checkers to requests.
LendsOneCheckerToOneRequest == Promise!Spec
=============================================================================
