------------------------------ MODULE LspServer ------------------------------
(***************************************************************************)
(* The message loops of the language server (internal/lsp/server.go).      *)
(*                                                                         *)
(* readLoop reads the client's messages and queues requests and            *)
(* notifications; dispatchLoop takes them from the queue, handles the      *)
(* blocking ones itself and starts a goroutine for each of the others;     *)
(* writeLoop writes what the handlers send.  A handler may itself ask the  *)
(* client something and wait for the answer: to refresh diagnostics, or,   *)
(* holding the lock of the project it updates, to unregister and register  *)
(* watchers, one after the other.                                          *)
(*                                                                         *)
(* The client is external: it follows the protocol, answers what the       *)
(* server asks, and reads what the server writes.  There is one project.   *)
(***************************************************************************)
EXTENDS Naturals, Sequences, FiniteSets

CONSTANTS
    Notification,            \* didOpen, didChange, ... of one document, each once
    Request,                 \* ids of requests about the document
    Initialize, Shutdown,    \* ids of the requests that begin and end the session
    Exit,                    \* the exit notification
    Nobody,
    QueueSize,               \* capacity of a channel: 100 in the code
    MaxQuestions             \* that one handler asks the client: six for each project

ASSUME LspAssumption ==
    /\ QueueSize \in Nat \ {0} /\ MaxQuestions \in Nat \ {0}
    /\ Notification \cap Request = {}
    /\ {Initialize, Shutdown, Exit, Nobody} \cap (Notification \cup Request) = {}
    /\ Initialize # Shutdown /\ Exit \notin {Initialize, Shutdown}
    /\ Nobody \notin {Initialize, Shutdown, Exit}

VARIABLES
    input,                   \* the client's messages that are not read yet
    closed,                  \* the client has closed its end
    sent,                    \* ids and notifications that the client has sent
    cancelable,              \* requests the client has not asked to cancel
    asked,                   \* handlers whose question the client has to answer
    replies,                 \* id -> responses the client has received
    reading,                 \* readLoop runs
    initialized,             \* initializeParams is set
    requestQueue,
    dispatcher,              \* the message dispatchLoop handles, NoMessage, or Ended
    exiting,                 \* the context of dispatchLoop is canceled
    writing,                 \* writeLoop runs
    outgoingQueue,
    pendingClientRequests,   \* ids whose context can be canceled
    canceled,                \* ids whose context is canceled
    pendingServerRequests,   \* handlers that wait for the client
    answered,                \* handlers whose response channel has the answer
    stage,                   \* handler -> how far it is
    questions,               \* handler -> what it has asked the client
    mu,                      \* the handler that holds the project's lock
    applied,                 \* notifications the service has applied
    before,                  \* request -> notifications that were sent before it
    seen                     \* request -> notifications that it saw applied

clientVars == <<closed, sent, cancelable, asked, replies, before>>
queueVars == <<requestQueue, outgoingQueue, writing>>
pendingVars == <<pendingClientRequests, canceled, pendingServerRequests, answered>>
loopVars == <<reading, initialized, dispatcher, exiting>>
handlerVars == <<stage, questions, mu, applied, seen>>
vars == <<input, clientVars, queueVars, pendingVars, loopVars, handlerVars>>

Id == Request \cup {Initialize, Shutdown}
Handler == Notification \cup Id \cup {Exit}
Ended == [kind |-> "ended", id |-> Nobody]
NoMessage == [kind |-> "none", id |-> Nobody]

Init ==
    /\ input = <<>> /\ closed = FALSE /\ sent = {} /\ cancelable = Request /\ asked = {}
    /\ replies = [i \in Id |-> 0]
    /\ reading = TRUE /\ initialized = FALSE
    /\ requestQueue = <<>> /\ outgoingQueue = <<>> /\ writing = TRUE
    /\ dispatcher = NoMessage /\ exiting = FALSE
    /\ pendingClientRequests = {} /\ canceled = {}
    /\ pendingServerRequests = {} /\ answered = {}
    /\ stage = [h \in Handler |-> "none"] /\ questions = [h \in Handler |-> 0]
    /\ mu = Nobody /\ applied = {}
    /\ before = [i \in Id |-> {}] /\ seen = [i \in Id |-> {}]

-----------------------------------------------------------------------------
(* The client.                                                             *)

Write(kind, id) == input' = Append(input, [kind |-> kind, id |-> id])

ClientSends(kind, id) ==
    /\ id \notin sent /\ Shutdown \notin sent /\ ~closed
    /\ Write(kind, id)
    /\ sent' = sent \cup {id}
    /\ UNCHANGED <<closed, cancelable, asked, replies, queueVars, pendingVars, loopVars,
                   handlerVars>>

SendRequest(i) ==
    /\ i = Shutdown => replies[Initialize] > 0
    /\ ClientSends("request", i)
    /\ before' = [before EXCEPT ![i] = sent \cap Notification]

SendNotification(n) ==
    /\ replies[Initialize] > 0
    /\ ClientSends("notification", n)
    /\ UNCHANGED before

SendCancel(i) ==
    /\ i \in sent \cap cancelable /\ replies[i] = 0
    /\ Shutdown \notin sent /\ ~closed
    /\ cancelable' = cancelable \ {i}
    /\ Write("cancel", i)
    /\ UNCHANGED <<closed, sent, asked, replies, before, queueVars, pendingVars, loopVars,
                   handlerVars>>

\* The client ends: with an exit notification after shutdown, or at any time
\* without a word.
Close ==
    /\ ~closed
    /\ closed' = TRUE
    /\ IF replies[Shutdown] > 0 THEN Write("notification", Exit) ELSE UNCHANGED input
    /\ UNCHANGED <<sent, cancelable, asked, replies, before, queueVars, pendingVars, loopVars,
                   handlerVars>>

Answer(h) ==
    /\ h \in asked /\ ~closed
    /\ asked' = asked \ {h}
    /\ Write("response", h)
    /\ UNCHANGED <<closed, sent, cancelable, replies, before, queueVars, pendingVars, loopVars,
                   handlerVars>>

-----------------------------------------------------------------------------
(* readLoop.                                                               *)

\* The message at hand; the loop goes on to the next one when it is through with it.
Reads(kinds) == reading /\ input # <<>> /\ Head(input).kind \in kinds

ReadEnd ==
    /\ reading /\ input = <<>> /\ closed
    /\ reading' = FALSE
    /\ UNCHANGED <<input, clientVars, queueVars, pendingVars, initialized, dispatcher, exiting,
                   handlerVars>>

HasRoom(queue) == Len(queue) < QueueSize

sendResponse(i) ==
    /\ HasRoom(outgoingQueue)
    /\ outgoingQueue' = Append(outgoingQueue, [kind |-> "response", id |-> i])

NeedsInitialize(m) == ~initialized /\ m.kind = "request"

AfterReply_queued(messages) ==
    IF Head(messages).id = Initialize THEN messages ELSE Tail(messages)

AfterReply(messages) == Tail(messages)

\* handleInitialize, or the error ServerNotInitialized.
BeforeInitialize ==
    /\ Reads({"request"}) /\ NeedsInitialize(Head(input))
    /\ initialized' = (Head(input).id = Initialize)
    /\ sendResponse(Head(input).id)
    /\ input' = AfterReply(input)
    /\ UNCHANGED <<reading, clientVars, requestQueue, writing, pendingVars, dispatcher, exiting,
                   handlerVars>>

Forget(h) == pendingServerRequests' = pendingServerRequests \ {h}

Waiting_never(h) == FALSE

Waiting(h) == h \in pendingServerRequests

\* A response wakes the handler that waits for it.
ReadResponse ==
    /\ Reads({"response"})
    /\ IF Waiting(Head(input).id)
       THEN /\ answered' = answered \cup {Head(input).id}
            /\ Forget(Head(input).id)
       ELSE UNCHANGED <<answered, pendingServerRequests>>
    /\ input' = Tail(input)
    /\ UNCHANGED <<reading, clientVars, queueVars, pendingClientRequests, canceled, initialized,
                   dispatcher, exiting, handlerVars>>

cancelRequest ==
    /\ Reads({"cancel"})
    /\ canceled' = canceled \cup (pendingClientRequests \cap {Head(input).id})
    /\ pendingClientRequests' = pendingClientRequests \ {Head(input).id}
    /\ input' = Tail(input)
    /\ UNCHANGED <<reading, clientVars, queueVars, pendingServerRequests, answered, initialized,
                   dispatcher, exiting, handlerVars>>

\* Everything else is queued; the loop blocks while the queue is full.
QueueRequest ==
    /\ Reads({"request", "notification"}) /\ ~NeedsInitialize(Head(input))
    /\ HasRoom(requestQueue)
    /\ requestQueue' = Append(requestQueue, Head(input))
    /\ input' = Tail(input)
    /\ UNCHANGED <<reading, clientVars, outgoingQueue, writing, pendingVars, initialized,
                   dispatcher, exiting, handlerVars>>

-----------------------------------------------------------------------------
(* dispatchLoop.                                                           *)


GroupCanceled == ~reading \/ dispatcher = Ended \/ ~writing

isBlockingMethod_none(m) == m.id \in {}

isBlockingMethod(m) == m.id \in Notification

Register(m) == pendingClientRequests' = pendingClientRequests \cup ({m.id} \cap Id)

Dispatch ==
    /\ dispatcher = NoMessage /\ requestQueue # <<>>
    /\ LET m == Head(requestQueue)
       IN  /\ Register(m)
           /\ stage' = [stage EXCEPT ![m.id] = "start"]
           /\ dispatcher' = IF isBlockingMethod(m) THEN m ELSE NoMessage
    /\ requestQueue' = Tail(requestQueue)
    /\ UNCHANGED <<input, clientVars, outgoingQueue, writing, canceled, pendingServerRequests,
                   answered, reading, initialized, exiting, questions, mu, applied, seen>>

\* The blocking handler has returned.
DispatchNext ==
    /\ dispatcher \notin {NoMessage, Ended} /\ stage[dispatcher.id] = "done"
    /\ dispatcher' = NoMessage
    /\ UNCHANGED <<input, clientVars, queueVars, pendingVars, reading, initialized, exiting,
                   handlerVars>>

DispatchEnd ==
    /\ dispatcher = NoMessage
    /\ exiting \/ GroupCanceled
    /\ dispatcher' = Ended
    /\ UNCHANGED <<input, clientVars, queueVars, pendingVars, reading, initialized, exiting,
                   handlerVars>>

-----------------------------------------------------------------------------
(* Handlers.  A notification is applied, a request looks at the project;   *)
(* either may then ask the client: updateGraph registers watchers under    *)
(* the project's lock, OnWatchedFilesChanged refreshes diagnostics without *)
(* it.                                                                     *)

Advance(h, to) == stage' = [stage EXCEPT ![h] = to]

Ask(h) ==
    /\ Advance(h, "ask")
    /\ questions' = [questions EXCEPT ![h] = @ + 1]

Apply(n) ==
    /\ stage[n] = "start" /\ mu = Nobody
    /\ applied' = applied \cup {n}
    /\ \/ Advance(n, "done") /\ UNCHANGED <<questions, mu>>
       \/ Ask(n) /\ mu' \in {n, Nobody}
    /\ UNCHANGED <<input, clientVars, queueVars, pendingVars, loopVars, seen>>

Look(r) ==
    /\ stage[r] = "start" /\ mu = Nobody
    /\ seen' = [seen EXCEPT ![r] = applied]
    /\ \/ Advance(r, "reply") /\ UNCHANGED <<questions, mu>>
       \/ Ask(r) /\ mu' = r
    /\ UNCHANGED <<input, clientVars, queueVars, pendingVars, loopVars, applied>>

\* Shutdown, and an initialize that comes a second time.
Control(i) ==
    /\ stage[i] = "start"
    /\ Advance(i, "reply")
    /\ UNCHANGED <<input, clientVars, queueVars, pendingVars, loopVars, questions, mu, applied,
                   seen>>

Leave ==
    /\ stage[Exit] = "start"
    /\ exiting' = TRUE
    /\ Advance(Exit, "done")
    /\ UNCHANGED <<input, clientVars, queueVars, pendingVars, reading, initialized, dispatcher,
                   questions, mu, applied, seen>>

\* sendRequest makes the entry for the response under the lock of the table ...
sendRequest(h) ==
    /\ stage[h] = "ask"
    /\ pendingServerRequests' = pendingServerRequests \cup {h}
    /\ Advance(h, "send")
    /\ UNCHANGED <<input, clientVars, queueVars, pendingClientRequests, canceled, answered,
                   loopVars, questions, mu, applied, seen>>

\* ... and then waits for room in the queue.
SendQuestion(h) ==
    /\ stage[h] = "send" /\ HasRoom(outgoingQueue)
    /\ outgoingQueue' = Append(outgoingQueue, [kind |-> "request", id |-> h])
    /\ Advance(h, "await")
    /\ UNCHANGED <<input, clientVars, requestQueue, writing, pendingVars, loopVars, questions, mu,
                   applied, seen>>

\* The refresh of diagnostics is done or has failed; whether watchers have been
\* registered or not, the update goes on, with the next ones or to its end.
Resume(h) ==
    \/ /\ mu = h /\ questions[h] < MaxQuestions
       /\ Ask(h) /\ UNCHANGED mu
    \/ /\ mu = h /\ mu' = Nobody
       /\ Advance(h, IF h \in Request THEN "reply" ELSE "done")
       /\ UNCHANGED questions
    \/ /\ mu # h
       /\ \E to \in {"reply", "done"} : Advance(h, to)
       /\ UNCHANGED <<questions, mu>>

Proceed(h) ==
    /\ stage[h] = "await" /\ h \in answered
    /\ answered' = answered \ {h}
    /\ Resume(h)
    /\ UNCHANGED <<input, clientVars, queueVars, pendingClientRequests, canceled,
                   pendingServerRequests, loopVars, applied, seen>>

\* Registering watchers waits with context.TODO(), whatever happens to the server.
GiveUp(h) ==
    /\ stage[h] = "await" /\ mu # h
    /\ exiting \/ GroupCanceled
    /\ Forget(h)
    /\ answered' = answered \ {h}
    /\ Advance(h, "reply")
    /\ UNCHANGED <<input, clientVars, queueVars, pendingClientRequests, canceled, loopVars,
                   questions, mu, applied, seen>>

sendResult(i) ==
    /\ stage[i] = "reply"
    /\ sendResponse(i)
    /\ Advance(i, "replied")
    /\ UNCHANGED <<input, clientVars, requestQueue, writing, pendingVars, loopVars, questions, mu,
                   applied, seen>>

\* The dispatcher reports the error of a notification, which has no id.
sendError(n) ==
    /\ stage[n] = "reply"
    /\ sendResponse(Nobody)
    /\ Advance(n, "done")
    /\ UNCHANGED <<input, clientVars, requestQueue, writing, pendingVars, loopVars, questions, mu,
                   applied, seen>>

Unregister_never(i) == UNCHANGED pendingClientRequests

Unregister(i) == pendingClientRequests' = pendingClientRequests \ {i}

Finish(i) ==
    /\ stage[i] = "replied"
    /\ Unregister(i)
    /\ Advance(i, "done")
    /\ UNCHANGED <<input, clientVars, queueVars, canceled, pendingServerRequests, answered,
                   loopVars, questions, mu, applied, seen>>

Handle(h) ==
    \/ h \in Notification /\ Apply(h)
    \/ h \in Request /\ Look(h)
    \/ h \in {Initialize, Shutdown} /\ Control(h)
    \/ h = Exit /\ Leave
    \/ sendRequest(h) \/ SendQuestion(h) \/ Proceed(h) \/ GiveUp(h)
    \/ h \in Notification /\ sendError(h)
    \/ h \in Id /\ (sendResult(h) \/ Finish(h))

-----------------------------------------------------------------------------
(* writeLoop.                                                              *)

\* A message reaches the client, or is lost when the client is gone.
WriteMessage ==
    /\ writing /\ outgoingQueue # <<>>
    /\ LET m == Head(outgoingQueue)
       IN  /\ asked' = IF m.kind = "request" /\ ~closed THEN asked \cup {m.id} ELSE asked
           /\ replies' = IF m.kind = "response" /\ m.id \in Id /\ ~closed
                         THEN [replies EXCEPT ![m.id] = @ + 1] ELSE replies
    /\ outgoingQueue' = Tail(outgoingQueue)
    /\ UNCHANGED <<input, closed, sent, cancelable, before, requestQueue, writing, pendingVars,
                   loopVars, handlerVars>>

\* The pipe is broken: a message has been taken off the queue, and is lost.  Or another
\* loop has returned.
WriteEnd ==
    /\ writing
    /\ \/ closed /\ outgoingQueue # <<>> /\ outgoingQueue' = Tail(outgoingQueue)
       \/ GroupCanceled /\ UNCHANGED outgoingQueue
    /\ writing' = FALSE
    /\ UNCHANGED <<input, clientVars, requestQueue, pendingVars, loopVars, handlerVars>>

-----------------------------------------------------------------------------
Client ==
    \/ \E i \in Id : SendRequest(i) \/ SendCancel(i)
    \/ \E n \in Notification : SendNotification(n)
    \/ Close

ReadLoop ==
    ReadEnd \/ BeforeInitialize \/ ReadResponse \/ cancelRequest \/ QueueRequest

DispatchLoop == Dispatch \/ DispatchNext \/ DispatchEnd

WriteLoop == WriteMessage \/ WriteEnd

Server == ReadLoop \/ DispatchLoop \/ WriteLoop \/ \E h \in Handler : Handle(h)

Answers == \E h \in Handler : Answer(h)

Next == Client \/ Answers \/ Server

Spec == Init /\ [][Next]_vars

\* Some goroutine runs as long as one can, and the client answers; nobody has to send.
\* That none is passed over for ever need not be said: no message is handled twice.
FairSpec == Spec /\ WF_vars(Server) /\ WF_vars(Answers)

-----------------------------------------------------------------------------
Message ==
    [kind : {"none", "ended", "request", "notification", "cancel", "response"},
     id : Handler \cup {Nobody}]

TypeOK ==
    /\ input \in Seq(Message)
    /\ sent \subseteq Handler /\ asked \subseteq Handler /\ cancelable \subseteq Request
    /\ replies \in [Id -> Nat]
    /\ dispatcher \in Message
    /\ closed \in BOOLEAN /\ reading \in BOOLEAN /\ initialized \in BOOLEAN
    /\ exiting \in BOOLEAN /\ writing \in BOOLEAN
    /\ requestQueue \in Seq(Message) /\ Len(requestQueue) <= QueueSize
    /\ outgoingQueue \in Seq(Message) /\ Len(outgoingQueue) <= QueueSize
    /\ pendingClientRequests \cup canceled \subseteq Id
    /\ pendingServerRequests \cup answered \subseteq Handler
    /\ stage \in [Handler -> {"none", "start", "ask", "send", "await", "reply", "replied", "done"}]
    /\ questions \in [Handler -> 0 .. MaxQuestions]
    /\ mu \in Handler \cup {Nobody}
    /\ applied \subseteq Notification
    /\ before \in [Id -> SUBSET Notification] /\ seen \in [Id -> SUBSET Notification]

\* A request is answered from a state in which every notification that the client
\* sent before it has been applied: that is what isBlockingMethod is for.
RequestsSeeEarlierChanges ==
    \A r \in Request : stage[r] \in {"ask", "send", "await", "reply", "replied", "done"}
                           => before[r] \subseteq seen[r]

\* No request gets two responses, be it sent before, during or after initialization
\* or canceled.
AnsweredAtMostOnce ==
    \A i \in Id :
        replies[i] + Cardinality({k \in 1 .. Len(outgoingQueue) :
                         outgoingQueue[k] = [kind |-> "response", id |-> i]}) <= 1

\* The tables hold exactly what is under way.  A request can be canceled from its
\* dispatch until its handler returns; the answer to a question finds the handler that
\* waits for it; neither leaves an entry behind.
TablesHoldWhatRuns ==
    /\ pendingClientRequests = {i \in Id : stage[i] \notin {"none", "done"}} \ canceled
    /\ pendingServerRequests = {h \in Handler : stage[h] \in {"send", "await"}} \ answered

Gone == ~reading /\ dispatcher = Ended /\ ~writing

\* What the server may stand at for ever.  A handler waits for an answer that has not come
\* yet; a message waits for room in a queue that nobody empties.
NotAnswered(h) == stage[h] = "await" /\ h \notin answered

Choked == ~writing /\ ~HasRoom(outgoingQueue)

HandlerStands(h) == (mu = h /\ NotAnswered(h)) \/ (stage[h] \in {"send", "reply"} /\ Choked)

\* dispatchLoop is in a handler, which may stand there or wait for one that has the project.
DispatcherStands ==
    \E h \in {dispatcher.id, mu} \cap Handler : dispatcher.id \in Handler /\ HandlerStands(h)

Full ==
    /\ Reads({"request", "notification"}) /\ ~NeedsInitialize(Head(input))
    /\ ~HasRoom(requestQueue)

ReaderStands ==
    \/ Full /\ dispatcher = Ended
    \/ Reads({"request"}) /\ NeedsInitialize(Head(input)) /\ Choked

\* The answer that dispatchLoop waits for, for itself or for the handler that has the
\* project's lock, is behind a message for the queue of requests, which is full.
Clogged ==
    /\ Full /\ dispatcher.id \in Handler
    /\ \E h \in {dispatcher.id, mu} \cap Handler : NotAnswered(h)

\* Every request is answered, unless the client goes away first or the queue of
\* requests is full while dispatchLoop waits for an answer of the client behind it.
EveryRequestIsAnswered == \A i \in Id : i \in sent ~> replies[i] > 0 \/ closed \/ Clogged

=============================================================================
