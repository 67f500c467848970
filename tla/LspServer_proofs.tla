--------------------------- MODULE LspServer_proofs ---------------------------
(***************************************************************************)
(* Proofs about the message loops of the language server, for any set of   *)
(* requests and notifications and any capacity of the channels.            *)
(***************************************************************************)
EXTENDS LspServer, SequenceTheorems, FiniteSetTheorems, TLAPS

(***************************************************************************)
(* The strengthening.  A request or notification travels from the client's *)
(* pipe (input) to the queue of requests and from there to a handler; what *)
(* the properties say of its end needs that it is nowhere twice on the way *)
(* and that nothing overtakes it.                                          *)
(***************************************************************************)

\* What the client writes, what is queued, and what the server writes.
ClientMessage ==
    [kind : {"request"}, id : Id]
        \cup [kind : {"notification"}, id : Notification \cup {Exit}]
        \cup [kind : {"cancel"}, id : Request]
        \cup [kind : {"response"}, id : Handler]

Queued ==
    [kind : {"request"}, id : Id]
        \cup [kind : {"notification"}, id : Notification \cup {Exit}]

ServerMessage ==
    [kind : {"response"}, id : Id \cup {Nobody}] \cup [kind : {"request"}, id : Handler]

\* The message m asks for the handler h.
Carries(m, h) == m.kind \in {"request", "notification"} /\ m.id = h

\* The message at place k of a queue asks for the handler h.
At(queue, k, h) == k \in 1 .. Len(queue) /\ Carries(queue[k], h)

On(queue, h) == \E k \in Nat : At(queue, k, h)

OutAt(queue, k, i) == k \in 1 .. Len(queue) /\ queue[k] = [kind |-> "response", id |-> i]

OutOn(queue, i) == \E k \in Nat : OutAt(queue, k, i)

Out(i) == OutOn(outgoingQueue, i)

Stage == {"none", "start", "ask", "send", "await", "reply", "replied", "done"}

\* Every piece of the state has its type.
Typed ==
    /\ input \in Seq(ClientMessage)
    /\ requestQueue \in Seq(Queued) /\ Len(requestQueue) <= QueueSize
    /\ outgoingQueue \in Seq(ServerMessage) /\ Len(outgoingQueue) <= QueueSize
    /\ sent \subseteq Handler /\ asked \subseteq Handler /\ cancelable \subseteq Request
    /\ replies \in [Id -> Nat]
    /\ dispatcher \in Queued \cup {NoMessage, Ended}
    /\ closed \in BOOLEAN /\ reading \in BOOLEAN /\ initialized \in BOOLEAN
    /\ exiting \in BOOLEAN /\ writing \in BOOLEAN
    /\ pendingClientRequests \subseteq Id /\ canceled \subseteq Id
    /\ pendingServerRequests \subseteq Handler /\ answered \subseteq Handler
    /\ stage \in [Handler -> Stage] /\ questions \in [Handler -> 0 .. MaxQuestions]
    /\ mu \in Handler \cup {Nobody}
    /\ applied \subseteq Notification
    /\ before \in [Id -> SUBSET Notification] /\ seen \in [Id -> SUBSET Notification]

\* The client has not sent the message that asks for h.
Unsent(h) == IF h = Exit THEN ~closed ELSE h \notin sent

\* A message is in one place, and once, until its handler starts.
OnceUnderWay ==
    \A h \in Handler :
        /\ \A k, l \in Nat : At(input, k, h) /\ At(input, l, h) => k = l
        /\ \A k, l \in Nat : At(requestQueue, k, h) /\ At(requestQueue, l, h) => k = l
        /\ On(input, h) => ~On(requestQueue, h) /\ stage[h] = "none" /\ ~Unsent(h)
        /\ On(requestQueue, h) => stage[h] = "none" /\ ~Unsent(h)
        /\ stage[h] # "none" => ~Unsent(h)

\* A request that is under way or being handled has no response yet; a response is
\* in one place.
OneResponse ==
    \A i \in Id :
        /\ \A k, l \in Nat : OutAt(outgoingQueue, k, i) /\ OutAt(outgoingQueue, l, i) => k = l
        /\ On(input, i) \/ On(requestQueue, i) \/ i \notin sent
               \/ stage[i] \in {"start", "ask", "send", "await", "reply"}
               => ~Out(i) /\ replies[i] = 0
        /\ Out(i) => replies[i] = 0
        /\ replies[i] <= 1

\* An entry of the tables outlives neither its handler nor its question.
CanceledHaveStarted ==
    /\ \A i \in canceled : stage[i] # "none"
    /\ \A h \in answered : stage[h] \in {"send", "await"}

\* No notification that was sent is lost before it is handled.
NotificationsAreKept ==
    \A n \in Notification \cap sent : On(input, n) \/ On(requestQueue, n) \/ stage[n] # "none"

\* dispatchLoop is busy with the notification that is not applied yet.
AppliedOneByOne ==
    \A n \in Notification :
        /\ stage[n] = "start" => dispatcher.id = n
        /\ stage[n] \notin {"none", "start"} => n \in applied

\* A request is never ahead of a notification that was sent before it.
NothingOvertakes ==
    \A r \in Request : \A n \in before[r] :
        /\ n \in sent
        /\ \A k \in Nat : At(input, k, r) =>
               \/ On(requestQueue, n) \/ stage[n] # "none"
               \/ \E l \in Nat : l < k /\ At(input, l, n)
        /\ \A k \in Nat : At(requestQueue, k, r) =>
               \/ stage[n] # "none"
               \/ \E l \in Nat : l < k /\ At(requestQueue, l, n)
        /\ stage[r] # "none" => n \in applied

IInv ==
    /\ Typed
    /\ OnceUnderWay
    /\ OneResponse
    /\ CanceledHaveStarted
    /\ TablesHoldWhatRuns
    /\ NotificationsAreKept
    /\ AppliedOneByOne
    /\ NothingOvertakes
    /\ RequestsSeeEarlierChanges

\* Who asks the client: not the handlers of shutdown and initialize; that of another
\* request only while it holds the project's lock; none before it has started.
AskersAreKnown ==
    /\ \A i \in {Initialize, Shutdown} : stage[i] \notin {"ask", "send", "await"}
    /\ \A r \in Request : stage[r] \in {"ask", "send", "await"} => mu = r
    /\ \A h \in Handler : stage[h] \in {"none", "start"} => questions[h] = 0

-----------------------------------------------------------------------------
(***************************************************************************)
(* Places in a queue, when a message is appended and when the first leaves.*)
(***************************************************************************)

\* Where requests and notifications are when one is appended to a queue, ...
LEMMA AtAppend ==
    ASSUME NEW S, NEW q \in Seq(S), NEW m \in S, NEW h
    PROVE  /\ \A k \in Nat : At(Append(q, m), k, h) <=>
                  At(q, k, h) \/ (k = Len(q) + 1 /\ Carries(m, h))
           /\ On(Append(q, m), h) <=> On(q, h) \/ Carries(m, h)
<1>1. /\ Len(q) \in Nat /\ Len(Append(q, m)) = Len(q) + 1
      /\ \A i \in 1 .. Len(q) : Append(q, m)[i] = q[i]
      /\ Append(q, m)[Len(q) + 1] = m
    BY AppendProperties, LenProperties
<1>2. \A k \in Nat : At(Append(q, m), k, h) <=>
                  At(q, k, h) \/ (k = Len(q) + 1 /\ Carries(m, h))
    BY <1>1 DEF At
<1>3. Len(q) + 1 \in Nat
    BY <1>1
<1>4. QED
    BY <1>2, <1>3 DEF On

\* ... and when the first leaves it.
LEMMA AtTail ==
    ASSUME NEW S, NEW q \in Seq(S), q # <<>>, NEW h
    PROVE  /\ \A k \in Nat : At(Tail(q), k, h) <=> k # 0 /\ At(q, k + 1, h)
           /\ At(q, 1, h) <=> Carries(Head(q), h)
           /\ \A k \in Nat : At(q, k, h) <=>
                  (k = 1 /\ Carries(Head(q), h)) \/ (k > 1 /\ At(Tail(q), k - 1, h))
           /\ On(q, h) <=> Carries(Head(q), h) \/ On(Tail(q), h)
<1>1. /\ Len(q) \in Nat \ {0} /\ Len(Tail(q)) = Len(q) - 1
      /\ \A i \in 1 .. Len(Tail(q)) : Tail(q)[i] = q[i + 1]
      /\ Head(q) = q[1]
    BY HeadTailProperties, EmptySeq
<1>2. \A k \in Nat : At(Tail(q), k, h) <=> k # 0 /\ At(q, k + 1, h)
    BY <1>1 DEF At
<1>3. At(q, 1, h) <=> Carries(Head(q), h)
    BY <1>1 DEF At
<1>4. \A k \in Nat : At(q, k, h) => k # 0
    BY <1>1 DEF At
<1>5. \A k \in Nat : k > 1 => k - 1 \in Nat \ {0} /\ (k - 1) + 1 = k
    OBVIOUS
<1>6. \A k \in Nat : At(q, k, h) <=>
                  (k = 1 /\ Carries(Head(q), h)) \/ (k > 1 /\ At(Tail(q), k - 1, h))
    BY <1>2, <1>3, <1>4, <1>5
<1>7. On(q, h) <=> Carries(Head(q), h) \/ On(Tail(q), h)
  <2>1. ASSUME NEW k \in Nat, At(q, k, h) PROVE Carries(Head(q), h) \/ On(Tail(q), h)
      BY <1>5, <1>6, <2>1 DEF On
  <2>2. ASSUME NEW k \in Nat, At(Tail(q), k, h) PROVE On(q, h)
    <3>1. k + 1 \in Nat /\ At(q, k + 1, h)
        BY <1>2, <2>2
    <3>2. QED
        BY <3>1 DEF On
  <2>3. QED
      BY <1>3, <2>1, <2>2 DEF On
<1>8. QED
    BY <1>2, <1>3, <1>6, <1>7

\* The same of the responses in the outgoing queue: one is appended, ...
LEMMA OutAppend ==
    ASSUME NEW S, NEW q \in Seq(S), NEW m \in S, NEW i
    PROVE  /\ \A k \in Nat : OutAt(Append(q, m), k, i) <=>
                  OutAt(q, k, i) \/ (k = Len(q) + 1 /\ m = [kind |-> "response", id |-> i])
           /\ OutOn(Append(q, m), i) <=> OutOn(q, i) \/ m = [kind |-> "response", id |-> i]
           /\ \A k \in Nat : OutAt(q, k, i) => k <= Len(q)
<1>1. /\ Len(q) \in Nat /\ Len(Append(q, m)) = Len(q) + 1
      /\ \A n \in 1 .. Len(q) : Append(q, m)[n] = q[n]
      /\ Append(q, m)[Len(q) + 1] = m
    BY AppendProperties, LenProperties
<1>2. \A k \in Nat : OutAt(Append(q, m), k, i) <=>
                  OutAt(q, k, i) \/ (k = Len(q) + 1 /\ m = [kind |-> "response", id |-> i])
    BY <1>1 DEF OutAt
<1>3. Len(q) + 1 \in Nat
    BY <1>1
<1>4. \A k \in Nat : OutAt(q, k, i) => k <= Len(q)
    BY <1>1 DEF OutAt
<1>5. QED
    BY <1>2, <1>3, <1>4 DEF OutOn

\* ... and the first is written.
LEMMA OutTail ==
    ASSUME NEW S, NEW q \in Seq(S), q # <<>>, NEW i
    PROVE  /\ \A k \in Nat : OutAt(Tail(q), k, i) <=> k # 0 /\ OutAt(q, k + 1, i)
           /\ Head(q) = [kind |-> "response", id |-> i] => OutAt(q, 1, i)
           /\ OutOn(Tail(q), i) => OutOn(q, i)
<1>1. /\ Len(q) \in Nat \ {0} /\ Len(Tail(q)) = Len(q) - 1
      /\ \A n \in 1 .. Len(Tail(q)) : Tail(q)[n] = q[n + 1]
      /\ Head(q) = q[1]
    BY HeadTailProperties, EmptySeq
<1>2. \A k \in Nat : OutAt(Tail(q), k, i) <=> k # 0 /\ OutAt(q, k + 1, i)
    BY <1>1 DEF OutAt
<1>3. Head(q) = [kind |-> "response", id |-> i] => OutAt(q, 1, i)
    BY <1>1 DEF OutAt
<1>4. ASSUME NEW k \in Nat, OutAt(Tail(q), k, i) PROVE OutOn(q, i)
  <2>1. k + 1 \in Nat /\ OutAt(q, k + 1, i)
      BY <1>2, <1>4
  <2>2. QED
      BY <2>1 DEF OutOn
<1>5. QED
    BY <1>2, <1>3, <1>4 DEF OutOn

-----------------------------------------------------------------------------
\* The invariant holds before the client has sent anything.
LEMMA InitEstablishes == Init => IInv
<1> SUFFICES ASSUME Init PROVE IInv
    OBVIOUS
<1>1. Len(<<>>) = 0
    OBVIOUS
<1>2. \A h, k : ~At(<<>>, k, h) /\ ~OutAt(<<>>, k, h)
    BY <1>1 DEF At, OutAt
<1>3. Typed
  <2>1. /\ input \in Seq(ClientMessage) /\ requestQueue \in Seq(Queued)
        /\ outgoingQueue \in Seq(ServerMessage)
        /\ Len(requestQueue) <= QueueSize /\ Len(outgoingQueue) <= QueueSize
      BY <1>1, LspAssumption DEF Init
  <2>2. questions \in [Handler -> 0 .. MaxQuestions]
    <3>1. 0 \in 0 .. MaxQuestions
        BY LspAssumption
    <3>2. QED
        BY <3>1 DEF Init
  <2>3. QED
      BY <2>1, <2>2 DEF Init, Typed, Stage
<1>4. OnceUnderWay
    BY <1>2 DEF Init, OnceUnderWay, On
<1>5. OneResponse
    BY <1>2 DEF Init, OneResponse, Out, OutOn
<1>6. CanceledHaveStarted /\ TablesHoldWhatRuns
    BY DEF Init, CanceledHaveStarted, TablesHoldWhatRuns, Id, Handler
<1>7. NotificationsAreKept /\ AppliedOneByOne /\ NothingOvertakes
    BY LspAssumption DEF Init, NotificationsAreKept, AppliedOneByOne, NothingOvertakes, Id, Handler
<1>8. RequestsSeeEarlierChanges
    BY DEF Init, RequestsSeeEarlierChanges, Id, Handler
<1>9. QED
    BY <1>3, <1>4, <1>5, <1>6, <1>7, <1>8 DEF IInv

-----------------------------------------------------------------------------
(***************************************************************************)
(* Steps of the client.                                                    *)
(***************************************************************************)

\* The message m joins the client's pipe and asks for nobody.
LEMMA ClientChats ==
    ASSUME IInv, NEW m \in ClientMessage, m.kind \in {"cancel", "response"},
           input' = Append(input, m),
           asked' \subseteq Handler, cancelable' \subseteq Request,
           UNCHANGED <<closed, sent, replies, before, queueVars, pendingVars, loopVars,
                       handlerVars>>
    PROVE  IInv'
<1>1. Typed'
  <2>1. input' \in Seq(ClientMessage)
      BY AppendProperties DEF IInv, Typed
  <2>2. QED
      BY <2>1 DEF IInv, Typed, queueVars, pendingVars, loopVars, handlerVars
<1>2. \A h : /\ \A k \in Nat : At(input', k, h) <=> At(input, k, h)
             /\ On(input', h) <=> On(input, h)
  <2>1. \A h : ~Carries(m, h)
      BY DEF Carries
  <2>2. input \in Seq(ClientMessage)
      BY DEF IInv, Typed
  <2>3. QED
      BY <2>1, <2>2, AtAppend
<1>3. OnceUnderWay'
    BY <1>2 DEF IInv, OnceUnderWay, Unsent, queueVars, handlerVars
<1>4. OneResponse'
    BY <1>2 DEF IInv, OneResponse, Out, queueVars, handlerVars
<1>5. CanceledHaveStarted' /\ TablesHoldWhatRuns'
    BY DEF IInv, CanceledHaveStarted, TablesHoldWhatRuns, pendingVars, handlerVars
<1>6. NotificationsAreKept'
    BY <1>2 DEF IInv, NotificationsAreKept, queueVars, handlerVars
<1>7. AppliedOneByOne'
    BY DEF IInv, AppliedOneByOne, loopVars, handlerVars
<1>8. NothingOvertakes'
    BY <1>2 DEF IInv, NothingOvertakes, queueVars, handlerVars
<1>9. RequestsSeeEarlierChanges'
    BY DEF IInv, RequestsSeeEarlierChanges, handlerVars
<1>10. QED
    BY <1>1, <1>3, <1>4, <1>5, <1>6, <1>7, <1>8, <1>9 DEF IInv

\* The client sends the message m, which asks for h, for the first time.
LEMMA ClientAsks ==
    ASSUME IInv, NEW h \in Handler, NEW m \in ClientMessage, Carries(m, h),
           Unsent(h),
           input' = Append(input, m),
           IF h = Exit THEN closed' = TRUE /\ sent' = sent
                       ELSE sent' = sent \cup {h} /\ closed' = closed,
           IF h \in Id THEN before' = [before EXCEPT ![h] = sent \cap Notification]
                       ELSE before' = before,
           UNCHANGED <<cancelable, asked, replies, queueVars, pendingVars, loopVars,
                       handlerVars>>
    PROVE  IInv'
<1>1. Typed'
  <2>1. input' \in Seq(ClientMessage)
      BY AppendProperties DEF IInv, Typed
  <2>2. before' \in [Id -> SUBSET Notification]
      BY DEF IInv, Typed
  <2>3. QED
      BY <2>1, <2>2 DEF IInv, Typed, queueVars, pendingVars, loopVars, handlerVars
<1>2. \A g : /\ \A k \in Nat : At(input', k, g) <=>
                    At(input, k, g) \/ (k = Len(input) + 1 /\ g = h)
             /\ On(input', g) <=> On(input, g) \/ g = h
  <2>1. \A g : Carries(m, g) <=> g = h
      BY DEF Carries
  <2>2. input \in Seq(ClientMessage)
      BY DEF IInv, Typed
  <2>3. QED
      BY <2>1, <2>2, AtAppend
<1>3. /\ ~On(input, h) /\ ~On(requestQueue, h) /\ stage[h] = "none"
      /\ \A k \in Nat : ~At(input, k, h) /\ ~At(requestQueue, k, h)
    BY DEF IInv, OnceUnderWay, On
<1>4. ~Unsent(h)' /\ \A g \in Handler : ~Unsent(g) => ~Unsent(g)'
    BY DEF Unsent
<1>5. /\ UNCHANGED <<requestQueue, outgoingQueue, replies, stage, applied, seen, dispatcher>>
      /\ Exit \notin Id \cup Notification
    BY LspAssumption DEF queueVars, loopVars, handlerVars, Id
<1>6. OnceUnderWay'
    BY <1>2, <1>3, <1>4, <1>5 DEF IInv, OnceUnderWay
<1>7. OneResponse'
  <2>1. h \in Id => ~Out(h) /\ replies[h] = 0
      BY <1>5 DEF IInv, OneResponse, Unsent
  <2>2. sent \subseteq sent'
      OBVIOUS
  <2>3. QED
      BY <1>2, <1>5, <2>1, <2>2 DEF IInv, OneResponse, Out
<1>8. CanceledHaveStarted' /\ TablesHoldWhatRuns'
    BY DEF IInv, CanceledHaveStarted, TablesHoldWhatRuns, pendingVars, handlerVars
<1>9. NotificationsAreKept'
    BY <1>2, <1>5 DEF IInv, NotificationsAreKept
<1>10. AppliedOneByOne'
    BY <1>5 DEF IInv, AppliedOneByOne
<1>11. NothingOvertakes'
  <2> SUFFICES ASSUME NEW r \in Request, NEW n \in before'[r]
               PROVE  /\ n \in sent'
                      /\ \A k \in Nat : At(input', k, r) =>
                             \/ On(requestQueue, n) \/ stage[n] # "none"
                             \/ \E l \in Nat : l < k /\ At(input', l, n)
                      /\ \A k \in Nat : At(requestQueue, k, r) =>
                             \/ stage[n] # "none"
                             \/ \E l \in Nat : l < k /\ At(requestQueue, l, n)
                      /\ stage[r] # "none" => n \in applied
      BY <1>5 DEF NothingOvertakes
  <2>1. CASE r = h
    <3>1. n \in sent \cap Notification
        BY <2>1 DEF IInv, Typed, Id
    <3>2. On(input, n) \/ On(requestQueue, n) \/ stage[n] # "none"
        BY <3>1 DEF IInv, NotificationsAreKept
    <3>3. \A l \in Nat : At(input, l, n) => l < Len(input) + 1
      <4>1. Len(input) \in Nat
          BY LenProperties DEF IInv, Typed
      <4>2. QED
          BY <4>1 DEF At
    <3>4. \A k \in Nat : At(input', k, r) => k = Len(input) + 1
        BY <1>2, <1>3, <2>1
    <3>5. On(input, n) => \E l \in Nat : l < Len(input) + 1 /\ At(input', l, n)
        BY <1>2, <3>3 DEF On
    <3>6. n \in sent'
        BY <3>1
    <3>7. QED
        BY <1>3, <2>1, <3>2, <3>4, <3>5, <3>6
  <2>2. CASE r # h
    <3>1. n \in before[r]
        BY <2>2 DEF IInv, Typed, Id
    <3>2. \A k \in Nat : At(input', k, r) <=> At(input, k, r)
        BY <1>2, <2>2
    <3>3. \A l \in Nat : At(input, l, n) => At(input', l, n)
        BY <1>2
    <3>4. QED
        BY <3>1, <3>2, <3>3 DEF IInv, NothingOvertakes
  <2>3. QED
      BY <2>1, <2>2
<1>12. RequestsSeeEarlierChanges'
    BY <1>3, <1>5 DEF IInv, Typed, RequestsSeeEarlierChanges, Id
<1>13. QED
    BY <1>1, <1>6, <1>7, <1>8, <1>9, <1>10, <1>11, <1>12 DEF IInv

\* The client sends a message, closes the pipe or answers the server.
LEMMA AfterClient ==
    ASSUME IInv, Client \/ Answers
    PROVE  IInv'
<1>1. ASSUME NEW i \in Id, SendRequest(i)
      PROVE  IInv'
  <2> DEFINE m == [kind |-> "request", id |-> i]
  <2>1. m \in ClientMessage /\ Carries(m, i) /\ i \in Handler /\ i # Exit
      BY LspAssumption DEF ClientMessage, Carries, Handler, Id
  <2>2. /\ Unsent(i) /\ input' = Append(input, m)
        /\ sent' = sent \cup {i} /\ before' = [before EXCEPT ![i] = sent \cap Notification]
        /\ UNCHANGED <<closed, cancelable, asked, replies, queueVars, pendingVars, loopVars,
                       handlerVars>>
      BY <1>1, <2>1 DEF SendRequest, ClientSends, Write, Unsent
  <2> HIDE DEF m
  <2>3. QED
      BY <2>1, <2>2, ClientAsks
<1>2. ASSUME NEW n \in Notification, SendNotification(n)
      PROVE  IInv'
  <2> DEFINE m == [kind |-> "notification", id |-> n]
  <2>1. m \in ClientMessage /\ Carries(m, n) /\ n \in Handler /\ n # Exit /\ n \notin Id
      BY LspAssumption DEF ClientMessage, Carries, Handler, Id
  <2>2. /\ Unsent(n) /\ input' = Append(input, m)
        /\ sent' = sent \cup {n}
        /\ UNCHANGED <<closed, before, cancelable, asked, replies, queueVars, pendingVars,
                       loopVars, handlerVars>>
      BY <1>2, <2>1 DEF SendNotification, ClientSends, Write, Unsent
  <2> HIDE DEF m
  <2>3. QED
      BY <2>1, <2>2, ClientAsks
<1>3. ASSUME NEW i \in Id, SendCancel(i)
      PROVE  IInv'
  <2> DEFINE m == [kind |-> "cancel", id |-> i]
  <2>1. i \in Request /\ cancelable' \subseteq Request /\ asked' \subseteq Handler
      BY <1>3 DEF SendCancel, IInv, Typed
  <2>2. m \in ClientMessage /\ m.kind \in {"cancel", "response"}
      BY <2>1 DEF ClientMessage
  <2>3. /\ input' = Append(input, m)
        /\ UNCHANGED <<closed, sent, replies, before, queueVars, pendingVars, loopVars,
                       handlerVars>>
      BY <1>3 DEF SendCancel, Write
  <2> HIDE DEF m
  <2>4. QED
      BY <2>1, <2>2, <2>3, ClientChats
<1>4. ASSUME NEW h \in Handler, Answer(h)
      PROVE  IInv'
  <2> DEFINE m == [kind |-> "response", id |-> h]
  <2>1. asked' \subseteq Handler /\ cancelable' \subseteq Request
      BY <1>4 DEF Answer, IInv, Typed
  <2>2. m \in ClientMessage /\ m.kind \in {"cancel", "response"}
      BY DEF ClientMessage
  <2>3. /\ input' = Append(input, m)
        /\ UNCHANGED <<closed, sent, replies, before, queueVars, pendingVars, loopVars,
                       handlerVars>>
      BY <1>4 DEF Answer, Write
  <2> HIDE DEF m
  <2>4. QED
      BY <2>1, <2>2, <2>3, ClientChats
<1>5. ASSUME Close, replies[Shutdown] > 0
      PROVE  IInv'
  <2> DEFINE m == [kind |-> "notification", id |-> Exit]
  <2>1. m \in ClientMessage /\ Carries(m, Exit) /\ Exit \in Handler /\ Exit \notin Id
      BY LspAssumption DEF ClientMessage, Carries, Handler, Id
  <2>2. /\ Unsent(Exit) /\ input' = Append(input, m) /\ closed' = TRUE
        /\ UNCHANGED <<sent, before, cancelable, asked, replies, queueVars, pendingVars,
                       loopVars, handlerVars>>
      BY <1>5 DEF Close, Write, Unsent
  <2> HIDE DEF m
  <2>3. QED
      BY <2>1, <2>2, ClientAsks
<1>6. ASSUME Close, ~(replies[Shutdown] > 0)
      PROVE  IInv'
  <2>1. /\ closed' = TRUE
        /\ UNCHANGED <<input, sent, cancelable, asked, replies, before, queueVars, pendingVars,
                       loopVars, handlerVars>>
      BY <1>6 DEF Close
  <2>2. Typed'
      BY <2>1 DEF IInv, Typed, queueVars, pendingVars, loopVars, handlerVars
  <2>3. OnceUnderWay'
      BY <2>1 DEF IInv, OnceUnderWay, Unsent, queueVars, handlerVars
  <2>4. OneResponse'
      BY <2>1 DEF IInv, OneResponse, Out, queueVars, handlerVars
  <2>5. CanceledHaveStarted' /\ TablesHoldWhatRuns'
      BY <2>1 DEF IInv, CanceledHaveStarted, TablesHoldWhatRuns, pendingVars, handlerVars
  <2>6. NotificationsAreKept' /\ AppliedOneByOne' /\ NothingOvertakes'
      BY <2>1 DEF IInv, NotificationsAreKept, AppliedOneByOne, NothingOvertakes, queueVars,
                  loopVars, handlerVars
  <2>7. RequestsSeeEarlierChanges'
      BY <2>1 DEF IInv, RequestsSeeEarlierChanges, handlerVars
  <2>8. QED
      BY <2>2, <2>3, <2>4, <2>5, <2>6, <2>7 DEF IInv
<1>7. QED
    BY <1>1, <1>2, <1>3, <1>4, <1>5, <1>6 DEF Client, Answers

-----------------------------------------------------------------------------
(***************************************************************************)
(* Steps of readLoop.                                                      *)
(***************************************************************************)

\* When the loop takes the first message, the others move up.
LEMMA HeadLeaves ==
    ASSUME IInv, input # <<>>
    PROVE  /\ input \in Seq(ClientMessage)
           /\ Head(input) \in ClientMessage /\ Tail(input) \in Seq(ClientMessage)
           /\ \A h : \A k \in Nat : At(Tail(input), k, h) <=> k # 0 /\ At(input, k + 1, h)
           /\ \A h : On(input, h) <=> Carries(Head(input), h) \/ On(Tail(input), h)
           /\ \A h \in Handler : Carries(Head(input), h) => ~On(Tail(input), h)
           /\ \A h \in Handler : \A k, l \in Nat :
                  At(Tail(input), k, h) /\ At(Tail(input), l, h) => k = l
           /\ \A r \in Request : \A n \in before[r] : \A k \in Nat :
                  At(Tail(input), k, r) =>
                      \/ On(requestQueue, n) \/ stage[n] # "none"
                      \/ Carries(Head(input), n)
                      \/ \E l \in Nat : l < k /\ At(Tail(input), l, n)
<1>1. input \in Seq(ClientMessage)
    BY DEF IInv, Typed
<1>2. Head(input) \in ClientMessage /\ Tail(input) \in Seq(ClientMessage)
    BY <1>1, HeadTailProperties
<1>3. \A h : \A k \in Nat : At(Tail(input), k, h) <=> k # 0 /\ At(input, k + 1, h)
    BY <1>1, AtTail
<1>4. \A h : On(input, h) <=> Carries(Head(input), h) \/ On(Tail(input), h)
    BY <1>1, AtTail
<1>5. \A h : Carries(Head(input), h) => At(input, 1, h)
    BY <1>1, AtTail
<1>6. \A h \in Handler : \A k, l \in Nat : At(input, k, h) /\ At(input, l, h) => k = l
    BY DEF IInv, OnceUnderWay
<1>7. ASSUME NEW h \in Handler, Carries(Head(input), h), NEW k \in Nat, At(Tail(input), k, h)
      PROVE  FALSE
  <2>1. k # 0 /\ At(input, k + 1, h) /\ At(input, 1, h) /\ k + 1 \in Nat
      BY <1>3, <1>5, <1>7
  <2>2. k + 1 = 1
      BY <1>6, <2>1
  <2>3. QED
      BY <2>1, <2>2
<1>8. ASSUME NEW h \in Handler, NEW k \in Nat, NEW l \in Nat,
             At(Tail(input), k, h), At(Tail(input), l, h)
      PROVE  k = l
  <2>1. k + 1 \in Nat /\ l + 1 \in Nat /\ At(input, k + 1, h) /\ At(input, l + 1, h)
      BY <1>3, <1>8
  <2>2. k + 1 = l + 1
      BY <1>6, <2>1
  <2>3. QED
      BY <2>2
<1>9. ASSUME NEW r \in Request, NEW n \in before[r], NEW k \in Nat, At(Tail(input), k, r)
      PROVE  \/ On(requestQueue, n) \/ stage[n] # "none"
             \/ Carries(Head(input), n)
             \/ \E l \in Nat : l < k /\ At(Tail(input), l, n)
  <2>1. k + 1 \in Nat /\ At(input, k + 1, r)
      BY <1>3, <1>9
  <2>2. ASSUME NEW l \in Nat, l < k + 1, At(input, l, n)
        PROVE  Carries(Head(input), n) \/ \E j \in Nat : j < k /\ At(Tail(input), j, n)
    <3>1. (l = 1 /\ Carries(Head(input), n)) \/ (l > 1 /\ At(Tail(input), l - 1, n))
      <4>1. l = 1 \/ l > 1
        <5>1. l # 0
            BY <1>1, <2>2, LenProperties DEF At
        <5>2. QED
            BY <5>1
      <4>2. l > 1 => l - 1 \in Nat /\ l - 1 # 0 /\ (l - 1) + 1 = l
          OBVIOUS
      <4>3. l = 1 => Carries(Head(input), n)
          BY <1>1, <2>2, AtTail
      <4>4. l > 1 => At(Tail(input), l - 1, n)
          BY <1>3, <2>2, <4>2
      <4>5. QED
          BY <4>1, <4>3, <4>4
    <3>2. l > 1 => l - 1 \in Nat /\ l - 1 < k
        BY <2>2
    <3>3. QED
        BY <3>1, <3>2
  <2>3. QED
      BY <2>1, <2>2 DEF IInv, NothingOvertakes
<1>10. QED
    BY <1>1, <1>2, <1>3, <1>4, <1>7, <1>8, <1>9 DEF On

\* The loop takes a message that is no notification, and handles it itself.
LEMMA HeadHandled ==
    ASSUME IInv, input # <<>>, input' = Tail(input),
           \A n \in Notification : ~Carries(Head(input), n),
           UNCHANGED <<sent, closed, before, requestQueue, stage, applied>>
    PROVE  OnceUnderWay' /\ NotificationsAreKept' /\ NothingOvertakes'
<1>1. \A h : On(input', h) => On(input, h)
    BY HeadLeaves
<1>2. \A h \in Handler : \A k, l \in Nat : At(input', k, h) /\ At(input', l, h) => k = l
    BY HeadLeaves
<1>3. OnceUnderWay'
    BY <1>1, <1>2 DEF IInv, OnceUnderWay, Unsent
<1>4. NotificationsAreKept'
    BY HeadLeaves DEF IInv, NotificationsAreKept
<1>5. \A r \in Request : before[r] \subseteq Notification
    BY DEF IInv, Typed, Id
<1>6. NothingOvertakes'
    BY <1>5, HeadLeaves DEF IInv, NothingOvertakes
<1>7. QED
    BY <1>3, <1>4, <1>6

\* Until the server is initialized, readLoop answers the requests itself.
LEMMA AfterBeforeInitialize ==
    ASSUME IInv, BeforeInitialize
    PROVE  IInv'
<1> DEFINE m == Head(input)
           i == m.id
           o == [kind |-> "response", id |-> i]
<1>1. /\ input # <<>> /\ m.kind = "request"
      /\ input' = Tail(input) /\ initialized' \in BOOLEAN
      /\ Len(outgoingQueue) < QueueSize
      /\ outgoingQueue' = Append(outgoingQueue, o)
      /\ UNCHANGED <<reading, clientVars, requestQueue, writing, pendingVars, dispatcher,
                     exiting, handlerVars>>
    BY DEF BeforeInitialize, Reads, AfterReply, sendResponse, HasRoom
<1>2. m \in ClientMessage
    BY <1>1, HeadLeaves
<1>3. i \in Id /\ i \in Handler /\ i # Exit /\ i \notin Notification
    BY <1>1, <1>2, LspAssumption DEF ClientMessage, Handler, Id
<1>4. \A h : Carries(m, h) <=> h = i
    BY <1>1 DEF Carries
<1>5. o \in ServerMessage /\ outgoingQueue \in Seq(ServerMessage)
    BY <1>3 DEF ServerMessage, IInv, Typed
<1>6. \A j \in Id : o = [kind |-> "response", id |-> j] <=> i = j
    OBVIOUS
<1> HIDE DEF m, i, o
<1>7. /\ UNCHANGED <<sent, closed, before, requestQueue, stage, applied, replies, seen,
                     dispatcher>>
    BY <1>1 DEF clientVars, handlerVars
<1>8. Typed'
  <2>1. input' \in Seq(ClientMessage)
      BY <1>1, HeadLeaves
  <2>2. outgoingQueue' \in Seq(ServerMessage) /\ Len(outgoingQueue') <= QueueSize
    <3>1. outgoingQueue' \in Seq(ServerMessage) /\ Len(outgoingQueue') = Len(outgoingQueue) + 1
        BY <1>1, <1>5, AppendProperties
    <3>2. Len(outgoingQueue) \in Nat
        BY <1>5, LenProperties
    <3>3. QED
        BY <1>1, <3>1, <3>2, LspAssumption
  <2>3. QED
      BY <1>1, <2>1, <2>2 DEF IInv, Typed, clientVars, pendingVars, handlerVars
<1>9. OnceUnderWay' /\ NotificationsAreKept' /\ NothingOvertakes'
    BY <1>1, <1>3, <1>4, <1>7, HeadHandled DEF m
<1>10. OneResponse'
  <2>1. /\ On(input, i) /\ ~On(Tail(input), i)
      BY <1>1, <1>3, <1>4, HeadLeaves DEF m
  <2>2. /\ ~Out(i) /\ replies[i] = 0 /\ stage[i] = "none" /\ ~On(requestQueue, i)
        /\ i \in sent
      BY <1>3, <2>1 DEF IInv, OnceUnderWay, OneResponse, Unsent
  <2>3. \A j \in Id :
            /\ \A k \in Nat : OutAt(outgoingQueue', k, j) <=>
                   OutAt(outgoingQueue, k, j) \/ (k = Len(outgoingQueue) + 1 /\ i = j)
            /\ OutOn(outgoingQueue', j) <=> OutOn(outgoingQueue, j) \/ i = j
      BY <1>1, <1>5, <1>6, OutAppend
  <2>4. \A h : On(input', h) => On(input, h)
      BY <1>1, HeadLeaves
  <2>5. \A k \in Nat : ~OutAt(outgoingQueue, k, i)
      BY <2>2 DEF Out, OutOn
  <2>6. ASSUME NEW j \in Id, i # j
        PROVE  /\ \A k, l \in Nat :
                      OutAt(outgoingQueue', k, j) /\ OutAt(outgoingQueue', l, j) => k = l
               /\ On(input', j) \/ On(requestQueue, j) \/ j \notin sent
                      \/ stage[j] \in {"start", "ask", "send", "await", "reply"}
                      => ~OutOn(outgoingQueue', j) /\ replies[j] = 0
               /\ OutOn(outgoingQueue', j) => replies[j] = 0
               /\ replies[j] <= 1
      BY <2>3, <2>4, <2>6 DEF IInv, OneResponse, Out
  <2>7. /\ \A k, l \in Nat : OutAt(outgoingQueue', k, i) /\ OutAt(outgoingQueue', l, i) => k = l
        /\ ~On(input', i) /\ ~On(requestQueue, i) /\ i \in sent
        /\ stage[i] = "none" /\ replies[i] = 0
      BY <1>1, <1>3, <2>1, <2>2, <2>3, <2>5
  <2>8. QED
      BY <1>7, <2>6, <2>7 DEF OneResponse, Out
<1>11. CanceledHaveStarted' /\ TablesHoldWhatRuns'
    BY <1>1, <1>7 DEF IInv, CanceledHaveStarted, TablesHoldWhatRuns, pendingVars
<1>12. AppliedOneByOne'
    BY <1>7 DEF IInv, AppliedOneByOne
<1>13. RequestsSeeEarlierChanges'
    BY <1>7 DEF IInv, RequestsSeeEarlierChanges
<1>14. QED
    BY <1>8, <1>9, <1>10, <1>11, <1>12, <1>13 DEF IInv

\* A response or a cancellation is read and changes only the tables.
LEMMA AfterTableMessage ==
    ASSUME IInv, ReadResponse \/ cancelRequest
    PROVE  IInv'
<1>1. /\ input # <<>> /\ input' = Tail(input)
      /\ Head(input).kind \in {"response", "cancel"}
      /\ UNCHANGED <<clientVars, queueVars, loopVars, handlerVars>>
    BY DEF ReadResponse, cancelRequest, Reads, loopVars
<1>2. \A h : ~Carries(Head(input), h)
    BY <1>1 DEF Carries
<1>3. UNCHANGED <<sent, closed, before, requestQueue, outgoingQueue, stage, applied, replies,
                  seen, dispatcher>>
    BY <1>1 DEF clientVars, queueVars, loopVars, handlerVars
<1>4. /\ pendingClientRequests' \subseteq Id /\ canceled' \subseteq Id
      /\ pendingServerRequests' \subseteq Handler /\ answered' \subseteq Handler
    BY DEF ReadResponse, cancelRequest, Forget, Waiting, IInv, Typed
<1>5. Typed'
  <2>1. input' \in Seq(ClientMessage)
      BY <1>1, HeadLeaves
  <2>2. QED
      BY <1>1, <1>4, <2>1 DEF IInv, Typed, clientVars, queueVars, loopVars, handlerVars
<1>6. OnceUnderWay' /\ NotificationsAreKept' /\ NothingOvertakes'
    BY <1>1, <1>2, <1>3, HeadHandled
<1>7. OneResponse'
    BY <1>1, <1>2, <1>3, HeadLeaves DEF IInv, OneResponse, Out
<1>8. CanceledHaveStarted' /\ TablesHoldWhatRuns'
  <2>1. CASE ReadResponse
    <3>1. UNCHANGED <<pendingClientRequests, canceled>>
        BY <2>1 DEF ReadResponse
    <3>2. CASE Waiting(Head(input).id)
      <4>1. /\ answered' = answered \cup {Head(input).id}
            /\ pendingServerRequests' = pendingServerRequests \ {Head(input).id}
            /\ Head(input).id \in pendingServerRequests
          BY <2>1, <3>2 DEF ReadResponse, Forget, Waiting
      <4>2. QED
          BY <1>3, <3>1, <4>1 DEF IInv, CanceledHaveStarted, TablesHoldWhatRuns
    <3>3. CASE ~Waiting(Head(input).id)
      <4>1. UNCHANGED <<answered, pendingServerRequests>>
          BY <2>1, <3>3 DEF ReadResponse
      <4>2. QED
          BY <1>3, <3>1, <4>1 DEF IInv, CanceledHaveStarted, TablesHoldWhatRuns
    <3>4. QED
        BY <3>2, <3>3
  <2>2. CASE cancelRequest
    <3>1. /\ canceled' = canceled \cup (pendingClientRequests \cap {Head(input).id})
          /\ pendingClientRequests' = pendingClientRequests \ {Head(input).id}
          /\ UNCHANGED <<pendingServerRequests, answered>>
        BY <2>2 DEF cancelRequest
    <3>2. QED
        BY <1>3, <3>1 DEF IInv, CanceledHaveStarted, TablesHoldWhatRuns
  <2>3. QED
      BY <2>1, <2>2
<1>9. AppliedOneByOne' /\ RequestsSeeEarlierChanges'
    BY <1>3 DEF IInv, AppliedOneByOne, RequestsSeeEarlierChanges
<1>10. QED
    BY <1>5, <1>6, <1>7, <1>8, <1>9 DEF IInv

\* A request or notification goes from the client's pipe to the queue.
LEMMA AfterQueueRequest ==
    ASSUME IInv, QueueRequest
    PROVE  IInv'
<1> DEFINE m == Head(input)
<1>1. /\ input # <<>> /\ m.kind \in {"request", "notification"}
      /\ Len(requestQueue) < QueueSize
      /\ requestQueue' = Append(requestQueue, m)
      /\ input' = Tail(input)
      /\ UNCHANGED <<reading, clientVars, outgoingQueue, writing, pendingVars, initialized,
                     dispatcher, exiting, handlerVars>>
    BY DEF QueueRequest, Reads, HasRoom
<1>2. m \in Queued
    BY <1>1, HeadLeaves DEF ClientMessage, Queued
<1>3. Carries(m, m.id) /\ m.id \in Handler /\ \A h : Carries(m, h) <=> h = m.id
    BY <1>1, <1>2 DEF Carries, Queued, Handler
<1>4. UNCHANGED <<sent, closed, before, outgoingQueue, stage, applied, replies, seen,
                  dispatcher>>
    BY <1>1 DEF clientVars, handlerVars
<1>5. requestQueue \in Seq(Queued) /\ Len(requestQueue) \in Nat
    BY LenProperties DEF IInv, Typed
<1> HIDE DEF m
<1>6. Typed'
  <2>1. input' \in Seq(ClientMessage)
      BY <1>1, HeadLeaves
  <2>2. requestQueue' \in Seq(Queued) /\ Len(requestQueue') <= QueueSize
    <3>1. requestQueue' \in Seq(Queued) /\ Len(requestQueue') = Len(requestQueue) + 1
        BY <1>1, <1>2, <1>5, AppendProperties
    <3>2. QED
        BY <1>1, <1>5, <3>1, LspAssumption
  <2>3. QED
      BY <1>1, <2>1, <2>2 DEF IInv, Typed, clientVars, pendingVars, handlerVars
<1>7. \A h : /\ \A k \in Nat : At(requestQueue', k, h) <=>
                    At(requestQueue, k, h) \/ (k = Len(requestQueue) + 1 /\ h = m.id)
             /\ On(requestQueue', h) <=> On(requestQueue, h) \/ h = m.id
    BY <1>1, <1>2, <1>3, <1>5, AtAppend
<1>8. /\ \A h : On(input, h) <=> h = m.id \/ On(input', h)
      /\ ~On(input', m.id)
      /\ \A h \in Handler : \A k, l \in Nat : At(input', k, h) /\ At(input', l, h) => k = l
    BY <1>1, <1>3, HeadLeaves DEF m
<1>9. ~On(requestQueue, m.id) /\ \A k \in Nat : ~At(requestQueue, k, m.id)
    BY <1>3, <1>8 DEF IInv, OnceUnderWay, On
<1>10. OnceUnderWay'
    BY <1>4, <1>7, <1>8, <1>9 DEF IInv, OnceUnderWay, Unsent
<1>11. OneResponse'
    BY <1>4, <1>7, <1>8 DEF IInv, OneResponse, Out
<1>12. CanceledHaveStarted' /\ TablesHoldWhatRuns'
    BY <1>1, <1>4 DEF IInv, CanceledHaveStarted, TablesHoldWhatRuns, pendingVars
<1>13. NotificationsAreKept'
    BY <1>4, <1>7, <1>8 DEF IInv, NotificationsAreKept
<1>14. NothingOvertakes'
  <2> SUFFICES ASSUME NEW r \in Request, NEW n \in before[r]
               PROVE  /\ n \in sent
                      /\ \A k \in Nat : At(input', k, r) =>
                             \/ On(requestQueue', n) \/ stage[n] # "none"
                             \/ \E l \in Nat : l < k /\ At(input', l, n)
                      /\ \A k \in Nat : At(requestQueue', k, r) =>
                             \/ stage[n] # "none"
                             \/ \E l \in Nat : l < k /\ At(requestQueue', l, n)
                      /\ stage[r] # "none" => n \in applied
      BY <1>4 DEF NothingOvertakes
  <2>1. n \in sent /\ (stage[r] # "none" => n \in applied)
      BY DEF IInv, NothingOvertakes
  <2>2. \A k \in Nat : At(input', k, r) =>
            \/ On(requestQueue', n) \/ stage[n] # "none"
            \/ \E l \in Nat : l < k /\ At(input', l, n)
    <3>1. \A k \in Nat : At(input', k, r) =>
              \/ On(requestQueue, n) \/ stage[n] # "none" \/ n = m.id
              \/ \E l \in Nat : l < k /\ At(input', l, n)
        BY <1>1, <1>3, HeadLeaves DEF m
    <3>2. QED
        BY <1>7, <3>1
  <2>3. ASSUME NEW k \in Nat, At(requestQueue', k, r), stage[n] = "none"
        PROVE  \E l \in Nat : l < k /\ At(requestQueue', l, n)
    <3>1. CASE At(requestQueue, k, r)
        BY <1>7, <2>3, <3>1 DEF IInv, NothingOvertakes
    <3>2. CASE k = Len(requestQueue) + 1 /\ r = m.id
      <4>1. At(input, 1, r)
          BY <1>1, <1>3, <3>2, HeadLeaves, AtTail DEF m
      <4>2. \A l \in Nat : At(input, l, n) => ~(l < 1)
        <5>1. Len(input) \in Nat
            BY HeadLeaves, <1>1, LenProperties
        <5>2. QED
            BY <5>1 DEF At
      <4>3. On(requestQueue, n)
          BY <2>3, <4>1, <4>2 DEF IInv, NothingOvertakes
      <4>4. PICK l \in Nat : At(requestQueue, l, n)
          BY <4>3 DEF On
      <4>5. l < Len(requestQueue) + 1
          BY <1>5, <4>4 DEF At
      <4>6. QED
          BY <1>7, <3>2, <4>4, <4>5
    <3>3. QED
        BY <1>7, <2>3, <3>1, <3>2
  <2>4. QED
      BY <2>1, <2>2, <2>3
<1>15. AppliedOneByOne' /\ RequestsSeeEarlierChanges'
    BY <1>4 DEF IInv, AppliedOneByOne, RequestsSeeEarlierChanges
<1>16. QED
    BY <1>6, <1>10, <1>11, <1>12, <1>13, <1>14, <1>15 DEF IInv

-----------------------------------------------------------------------------
(***************************************************************************)
(* Steps of dispatchLoop.                                                  *)
(***************************************************************************)

\* dispatchLoop takes a message and starts its handler.
LEMMA AfterDispatch ==
    ASSUME IInv, Dispatch
    PROVE  IInv'
<1> DEFINE m == Head(requestQueue)
           d == m.id
<1>1. /\ dispatcher = NoMessage /\ requestQueue # <<>>
      /\ pendingClientRequests' = pendingClientRequests \cup ({d} \cap Id)
      /\ stage' = [stage EXCEPT ![d] = "start"]
      /\ dispatcher' = IF d \in Notification THEN m ELSE NoMessage
      /\ requestQueue' = Tail(requestQueue)
      /\ UNCHANGED <<input, clientVars, outgoingQueue, writing, canceled, pendingServerRequests,
                     answered, reading, initialized, exiting, questions, mu, applied, seen>>
    BY DEF Dispatch, Register, isBlockingMethod
<1>2. requestQueue \in Seq(Queued) /\ Len(requestQueue) \in Nat /\ Len(requestQueue) <= QueueSize
    BY LenProperties DEF IInv, Typed
<1>3. /\ m \in Queued /\ Tail(requestQueue) \in Seq(Queued)
      /\ Len(Tail(requestQueue)) = Len(requestQueue) - 1
    BY <1>1, <1>2, HeadTailProperties
<1>4. d \in Handler /\ \A h : Carries(m, h) <=> h = d
    BY <1>3 DEF Carries, Queued, Handler
<1> HIDE DEF m, d
<1>5. UNCHANGED <<input, sent, closed, before, outgoingQueue, applied, replies, seen, canceled,
                  answered, pendingServerRequests>>
    BY <1>1 DEF clientVars
<1>6. stage'[d] = "start" /\ \A h \in Handler : h # d => stage'[h] = stage[h]
    BY <1>1, <1>4 DEF IInv, Typed
<1>7. \A h : \A k \in Nat : At(requestQueue', k, h) <=> k # 0 /\ At(requestQueue, k + 1, h)
    BY <1>1, <1>2, AtTail
<1>8. \A h : On(requestQueue, h) <=> h = d \/ On(requestQueue', h)
    BY <1>1, <1>2, <1>4, AtTail DEF m
<1>9. At(requestQueue, 1, d)
    BY <1>1, <1>2, <1>4, AtTail DEF m
<1>10. /\ stage[d] = "none" /\ ~Unsent(d) /\ ~On(input, d)
       /\ \A k \in Nat : ~At(input, k, d)
       /\ \A k \in Nat : At(requestQueue, k, d) => k = 1
    BY <1>4, <1>8, <1>9 DEF IInv, OnceUnderWay, On
<1>11. \A k \in Nat : ~At(requestQueue', k, d)
  <2>1. \A k \in Nat : k # 0 => k + 1 \in Nat /\ k + 1 # 1
      OBVIOUS
  <2>2. QED
      BY <1>7, <1>10, <2>1
<1>12. ~On(requestQueue', d)
    BY <1>11 DEF On
<1>13. Typed'
  <2>1. requestQueue' \in Seq(Queued) /\ Len(requestQueue') <= QueueSize
      BY <1>1, <1>2, <1>3, LspAssumption
  <2>2. /\ stage' \in [Handler -> Stage]
        /\ dispatcher' \in Queued \cup {NoMessage, Ended}
        /\ pendingClientRequests' \subseteq Id
      BY <1>1, <1>3 DEF IInv, Typed, Stage
  <2>3. QED
      BY <1>1, <2>1, <2>2 DEF IInv, Typed, clientVars
<1>14. OnceUnderWay'
  <2> SUFFICES ASSUME NEW h \in Handler
               PROVE  /\ \A k, l \in Nat : At(input, k, h) /\ At(input, l, h) => k = l
                      /\ \A k, l \in Nat :
                             At(requestQueue', k, h) /\ At(requestQueue', l, h) => k = l
                      /\ On(input, h) =>
                             ~On(requestQueue', h) /\ stage'[h] = "none" /\ ~Unsent(h)
                      /\ On(requestQueue', h) => stage'[h] = "none" /\ ~Unsent(h)
                      /\ stage'[h] # "none" => ~Unsent(h)
      BY <1>5 DEF OnceUnderWay, Unsent
  <2>1. \A k, l \in Nat : At(requestQueue', k, h) /\ At(requestQueue', l, h) => k = l
    <3>1. SUFFICES ASSUME NEW k \in Nat, NEW l \in Nat,
                          At(requestQueue', k, h), At(requestQueue', l, h)
                   PROVE  k = l
        OBVIOUS
    <3>2. k + 1 \in Nat /\ l + 1 \in Nat /\ At(requestQueue, k + 1, h) /\ At(requestQueue, l + 1, h)
        BY <1>7, <3>1
    <3>3. k + 1 = l + 1
        BY <3>2 DEF IInv, OnceUnderWay
    <3>4. QED
        BY <3>3
  <2>2. CASE h = d
      BY <1>10, <1>12, <2>1, <2>2 DEF IInv, OnceUnderWay
  <2>3. CASE h # d
      BY <1>6, <1>8, <2>1, <2>3 DEF IInv, OnceUnderWay
  <2>4. QED
      BY <2>2, <2>3
<1>15. OneResponse'
    BY <1>5, <1>6, <1>8, <1>10 DEF IInv, OneResponse, Out, Id, Handler
<1>16. CanceledHaveStarted' /\ TablesHoldWhatRuns'
  <2>1. d \notin canceled /\ d \notin answered
      BY <1>10 DEF IInv, CanceledHaveStarted
  <2>2. CanceledHaveStarted'
      BY <1>5, <1>6, <2>1 DEF IInv, Typed, CanceledHaveStarted, Id, Handler
  <2>3. TablesHoldWhatRuns'
      BY <1>1, <1>5, <1>6, <1>10, <2>1 DEF IInv, TablesHoldWhatRuns, Id, Handler
  <2>4. QED
      BY <2>2, <2>3
<1>17. NotificationsAreKept'
    BY <1>5, <1>6, <1>8 DEF IInv, NotificationsAreKept, Handler
<1>18. \A n \in Notification : stage[n] # "start" /\ (stage[n] # "none" => n \in applied)
  <2>1. dispatcher.id \notin Notification
      BY <1>1, LspAssumption DEF NoMessage
  <2>2. QED
      BY <2>1 DEF IInv, AppliedOneByOne
<1>19. AppliedOneByOne'
  <2>1. \A n \in Notification : stage'[n] = "start" => n = d
      BY <1>6, <1>18 DEF Handler
  <2>2. \A n \in Notification : stage'[n] \notin {"none", "start"} => n \in applied
      BY <1>6, <1>18 DEF Handler
  <2>3. d \in Notification => dispatcher'.id = d
      BY <1>1 DEF d
  <2>4. QED
      BY <1>5, <2>1, <2>2, <2>3 DEF AppliedOneByOne
<1>20. NothingOvertakes'
  <2> SUFFICES ASSUME NEW r \in Request, NEW n \in before[r]
               PROVE  /\ n \in sent
                      /\ \A k \in Nat : At(input, k, r) =>
                             \/ On(requestQueue', n) \/ stage'[n] # "none"
                             \/ \E l \in Nat : l < k /\ At(input, l, n)
                      /\ \A k \in Nat : At(requestQueue', k, r) =>
                             \/ stage'[n] # "none"
                             \/ \E l \in Nat : l < k /\ At(requestQueue', l, n)
                      /\ stage'[r] # "none" => n \in applied
      BY <1>5 DEF NothingOvertakes
  <2>1. n \in Notification /\ n \in Handler /\ r \in Handler
      BY DEF IInv, Typed, Id, Handler
  <2>2. /\ n \in sent
        /\ \A k \in Nat : At(input, k, r) =>
               \/ On(requestQueue, n) \/ stage[n] # "none"
               \/ \E l \in Nat : l < k /\ At(input, l, n)
        /\ \A k \in Nat : At(requestQueue, k, r) =>
               \/ stage[n] # "none"
               \/ \E l \in Nat : l < k /\ At(requestQueue, l, n)
        /\ stage[r] # "none" => n \in applied
      BY DEF IInv, NothingOvertakes
  <2>3. stage[n] # "none" => stage'[n] # "none"
      BY <1>6, <2>1
  <2>4. n = d => stage'[n] # "none"
      BY <1>6
  <2>5. \A k \in Nat : At(input, k, r) =>
            \/ On(requestQueue', n) \/ stage'[n] # "none"
            \/ \E l \in Nat : l < k /\ At(input, l, n)
      BY <1>8, <2>2, <2>3, <2>4
  <2>6. ASSUME NEW k \in Nat, At(requestQueue', k, r), stage'[n] = "none"
        PROVE  \E l \in Nat : l < k /\ At(requestQueue', l, n)
    <3>1. k + 1 \in Nat /\ At(requestQueue, k + 1, r)
        BY <1>7, <2>6
    <3>2. PICK l \in Nat : l < k + 1 /\ At(requestQueue, l, n)
        BY <2>2, <2>3, <2>6, <3>1
    <3>3. l # 0
        BY <1>2, <3>2 DEF At
    <3>4. l # 1
      <4>1. At(requestQueue, 1, n) => n = d
          BY <1>1, <1>2, <1>4, AtTail DEF m
      <4>2. QED
          BY <2>4, <2>6, <3>2, <4>1
    <3>5. l - 1 \in Nat /\ l - 1 # 0 /\ l - 1 < k /\ (l - 1) + 1 = l
        BY <3>2, <3>3, <3>4
    <3>6. At(requestQueue', l - 1, n)
        BY <1>7, <3>2, <3>5
    <3>7. QED
        BY <3>5, <3>6
  <2>7. stage'[r] # "none" => n \in applied
    <3>1. CASE r = d
      <4>1. \A l \in Nat : At(requestQueue, l, n) => ~(l < 1)
          BY <1>2 DEF At
      <4>2. stage[n] # "none"
          BY <1>9, <2>2, <3>1, <4>1
      <4>3. QED
          BY <1>18, <2>1, <4>2
    <3>2. CASE r # d
        BY <1>6, <2>1, <2>2, <3>2
    <3>3. QED
        BY <3>1, <3>2
  <2>8. QED
      BY <2>2, <2>5, <2>6, <2>7
<1>21. RequestsSeeEarlierChanges'
  <2>1. Request \subseteq Handler
      BY DEF Id, Handler
  <2>2. \A r \in Request : stage'[r] = "start" \/ stage'[r] = stage[r]
      BY <1>6, <2>1
  <2>3. QED
      BY <1>5, <2>2 DEF IInv, RequestsSeeEarlierChanges
<1>22. QED
    BY <1>13, <1>14, <1>15, <1>16, <1>17, <1>19, <1>20, <1>21 DEF IInv

-----------------------------------------------------------------------------
\* A loop ends, or dispatchLoop is through with a notification.
LEMMA AfterLoopStep ==
    ASSUME IInv,
           ReadEnd \/ DispatchNext \/ DispatchEnd \/ (WriteEnd /\ UNCHANGED outgoingQueue)
    PROVE  IInv'
<1>1. /\ UNCHANGED <<input, clientVars, requestQueue, outgoingQueue, pendingVars, initialized,
                     exiting, handlerVars>>
      /\ reading' \in BOOLEAN /\ writing' \in BOOLEAN
    BY DEF ReadEnd, DispatchNext, DispatchEnd, WriteEnd, queueVars, loopVars, IInv, Typed
<1>2. /\ dispatcher' \in Queued \cup {NoMessage, Ended}
      /\ \A n \in Notification : stage[n] = "start" => dispatcher'.id = n
  <2>1. CASE ReadEnd \/ WriteEnd
      BY <2>1 DEF ReadEnd, WriteEnd, loopVars, IInv, Typed, AppliedOneByOne
  <2>2. CASE DispatchNext
      BY <2>2 DEF DispatchNext, IInv, AppliedOneByOne
  <2>3. CASE DispatchEnd
      BY <2>3, LspAssumption DEF DispatchEnd, NoMessage, IInv, AppliedOneByOne
  <2>4. QED
      BY <2>1, <2>2, <2>3
<1>3. Typed'
    BY <1>1, <1>2 DEF IInv, Typed, clientVars, pendingVars, handlerVars
<1>4. OnceUnderWay' /\ NotificationsAreKept' /\ NothingOvertakes'
    BY <1>1 DEF IInv, OnceUnderWay, Unsent, NotificationsAreKept, NothingOvertakes, clientVars,
                handlerVars
<1>5. OneResponse'
    BY <1>1 DEF IInv, OneResponse, Out, clientVars, handlerVars
<1>6. CanceledHaveStarted' /\ TablesHoldWhatRuns'
    BY <1>1 DEF IInv, CanceledHaveStarted, TablesHoldWhatRuns, pendingVars, handlerVars
<1>7. AppliedOneByOne'
    BY <1>1, <1>2 DEF IInv, AppliedOneByOne, handlerVars
<1>8. RequestsSeeEarlierChanges'
    BY <1>1 DEF IInv, RequestsSeeEarlierChanges, clientVars, handlerVars
<1>9. QED
    BY <1>3, <1>4, <1>5, <1>6, <1>7, <1>8 DEF IInv

\* writeLoop takes the first message of the outgoing queue; a response to a request that it
\* writes is counted.
LEMMA HeadIsTaken ==
    ASSUME IInv, outgoingQueue # <<>>, outgoingQueue' = Tail(outgoingQueue),
           asked' \subseteq Handler, writing' \in BOOLEAN,
           \/ replies' = replies
           \/ \E i \in Id : /\ Head(outgoingQueue) = [kind |-> "response", id |-> i]
                            /\ replies' = [replies EXCEPT ![i] = @ + 1],
           UNCHANGED <<input, closed, sent, cancelable, before, requestQueue, pendingVars,
                       loopVars, handlerVars>>
    PROVE  IInv'
<1> DEFINE m == Head(outgoingQueue)
<1>1. UNCHANGED <<input, closed, sent, cancelable, before, requestQueue, pendingVars, loopVars,
                  handlerVars>>
    OBVIOUS
<1>2. outgoingQueue \in Seq(ServerMessage) /\ Len(outgoingQueue) \in Nat
    BY LenProperties DEF IInv, Typed
<1>3. /\ Tail(outgoingQueue) \in Seq(ServerMessage)
      /\ Len(Tail(outgoingQueue)) = Len(outgoingQueue) - 1
    BY <1>2, HeadTailProperties
<1>4. \A i \in Id : /\ m # [kind |-> "response", id |-> i] => replies'[i] = replies[i]
                    /\ replies'[i] \in {replies[i], replies[i] + 1}
  <2>1. CASE replies' = replies
      BY <2>1
  <2>2. ASSUME NEW j \in Id, m = [kind |-> "response", id |-> j],
               replies' = [replies EXCEPT ![j] = @ + 1]
        PROVE  \A i \in Id : /\ m # [kind |-> "response", id |-> i] => replies'[i] = replies[i]
                             /\ replies'[i] \in {replies[i], replies[i] + 1}
    <3> HIDE DEF m
    <3>1. QED
        BY <2>2 DEF IInv, Typed
  <2>3. QED
      BY <2>1, <2>2
<1> HIDE DEF m
<1>5. Typed'
  <2>1. /\ outgoingQueue' \in Seq(ServerMessage) /\ Len(outgoingQueue') <= QueueSize
      BY <1>2, <1>3, LspAssumption DEF IInv, Typed
  <2>2. replies' \in [Id -> Nat]
    <3>1. CASE replies' = replies
        BY <3>1 DEF IInv, Typed
    <3>2. ASSUME NEW i \in Id, replies' = [replies EXCEPT ![i] = @ + 1]
          PROVE  replies' \in [Id -> Nat]
        BY <3>2 DEF IInv, Typed
    <3>3. QED
        BY <3>1, <3>2
  <2>3. QED
      BY <1>1, <2>1, <2>2 DEF IInv, Typed, pendingVars, loopVars, handlerVars
<1>6. OnceUnderWay' /\ NotificationsAreKept' /\ NothingOvertakes'
    BY <1>1 DEF IInv, OnceUnderWay, Unsent, NotificationsAreKept, NothingOvertakes, handlerVars
<1>7. OneResponse'
  <2> SUFFICES ASSUME NEW i \in Id
               PROVE  /\ \A k, l \in Nat :
                             OutAt(outgoingQueue', k, i) /\ OutAt(outgoingQueue', l, i) => k = l
                      /\ On(input, i) \/ On(requestQueue, i) \/ i \notin sent
                             \/ stage[i] \in {"start", "ask", "send", "await", "reply"}
                             => ~OutOn(outgoingQueue', i) /\ replies'[i] = 0
                      /\ OutOn(outgoingQueue', i) => replies'[i] = 0
                      /\ replies'[i] <= 1
      BY <1>1 DEF OneResponse, Out, handlerVars
  <2>1. \A k \in Nat : OutAt(outgoingQueue', k, i) <=> k # 0 /\ OutAt(outgoingQueue, k + 1, i)
      BY <1>2, OutTail
  <2>2. \A k, l \in Nat : OutAt(outgoingQueue', k, i) /\ OutAt(outgoingQueue', l, i) => k = l
    <3>1. SUFFICES ASSUME NEW k \in Nat, NEW l \in Nat,
                          OutAt(outgoingQueue', k, i), OutAt(outgoingQueue', l, i)
                   PROVE  k = l
        OBVIOUS
    <3>2. /\ k + 1 \in Nat /\ l + 1 \in Nat
          /\ OutAt(outgoingQueue, k + 1, i) /\ OutAt(outgoingQueue, l + 1, i)
        BY <2>1, <3>1
    <3>3. k + 1 = l + 1
        BY <3>2 DEF IInv, OneResponse
    <3>4. QED
        BY <3>3
  <2>3. OutOn(outgoingQueue', i) => Out(i)
      BY <1>2, OutTail DEF Out
  <2>4. CASE m = [kind |-> "response", id |-> i]
    <3>1. OutAt(outgoingQueue, 1, i)
        BY <1>2, <2>4, OutTail DEF m
    <3>2. Out(i) /\ replies[i] = 0
        BY <3>1 DEF IInv, OneResponse, Out, OutOn
    <3>3. \A k \in Nat : ~OutAt(outgoingQueue', k, i)
      <4>1. SUFFICES ASSUME NEW k \in Nat, OutAt(outgoingQueue', k, i) PROVE FALSE
          OBVIOUS
      <4>2. k # 0 /\ k + 1 \in Nat /\ OutAt(outgoingQueue, k + 1, i)
          BY <2>1, <4>1
      <4>3. k + 1 = 1
          BY <3>1, <4>2 DEF IInv, OneResponse
      <4>4. QED
          BY <4>2, <4>3
    <3>4. replies'[i] \in {0, 1}
        BY <1>4, <3>2
    <3>5. QED
        BY <2>2, <3>2, <3>3, <3>4 DEF IInv, OneResponse, OutOn
  <2>5. CASE m # [kind |-> "response", id |-> i]
    <3>1. replies'[i] = replies[i]
        BY <1>4, <2>5
    <3>2. QED
        BY <2>2, <2>3, <3>1 DEF IInv, OneResponse
  <2>6. QED
      BY <2>4, <2>5
<1>8. CanceledHaveStarted' /\ TablesHoldWhatRuns'
    BY <1>1 DEF IInv, CanceledHaveStarted, TablesHoldWhatRuns, pendingVars, handlerVars
<1>9. AppliedOneByOne' /\ RequestsSeeEarlierChanges'
    BY <1>1 DEF IInv, AppliedOneByOne, RequestsSeeEarlierChanges, loopVars, handlerVars
<1>10. QED
    BY <1>5, <1>6, <1>7, <1>8, <1>9 DEF IInv

\* A message is written, or lost with the pipe; or writeLoop ends with another loop.
LEMMA AfterWriteLoop ==
    ASSUME IInv, WriteLoop
    PROVE  IInv'
<1>1. ASSUME WriteMessage PROVE IInv'
  <2> DEFINE m == Head(outgoingQueue)
  <2>1. /\ outgoingQueue # <<>> /\ outgoingQueue' = Tail(outgoingQueue)
        /\ asked' = IF m.kind = "request" /\ ~closed THEN asked \cup {m.id} ELSE asked
        /\ replies' = IF m.kind = "response" /\ m.id \in Id /\ ~closed
                      THEN [replies EXCEPT ![m.id] = @ + 1] ELSE replies
        /\ UNCHANGED <<input, closed, sent, cancelable, before, requestQueue, writing,
                       pendingVars, loopVars, handlerVars>>
      BY <1>1 DEF WriteMessage
  <2>2. m \in ServerMessage
      BY <2>1, HeadTailProperties DEF IInv, Typed
  <2>3. /\ m.kind = "request" => m.id \in Handler
        /\ m.kind = "response" => m = [kind |-> "response", id |-> m.id]
      BY <2>2 DEF ServerMessage
  <2>4. asked' \subseteq Handler /\ writing' \in BOOLEAN
      BY <2>1, <2>3 DEF IInv, Typed
  <2>5. \/ replies' = replies
        \/ \E i \in Id : /\ m = [kind |-> "response", id |-> i]
                         /\ replies' = [replies EXCEPT ![i] = @ + 1]
      BY <2>1, <2>3
  <2>6. QED
      BY <2>1, <2>4, <2>5, HeadIsTaken
<1>2. ASSUME WriteEnd, outgoingQueue # <<>>, outgoingQueue' = Tail(outgoingQueue) PROVE IInv'
  <2>1. /\ UNCHANGED <<input, clientVars, requestQueue, pendingVars, loopVars, handlerVars>>
        /\ writing' \in BOOLEAN
      BY <1>2 DEF WriteEnd
  <2>2. /\ UNCHANGED <<input, closed, sent, cancelable, before, requestQueue, pendingVars,
                       loopVars, handlerVars>>
        /\ replies' = replies /\ asked' \subseteq Handler
      BY <2>1 DEF clientVars, IInv, Typed
  <2>3. QED
      BY <1>2, <2>1, <2>2, HeadIsTaken
<1>3. ASSUME WriteEnd, UNCHANGED outgoingQueue PROVE IInv'
    BY <1>3, AfterLoopStep
<1>4. QED
    BY <1>1, <1>2, <1>3 DEF WriteLoop, WriteEnd

-----------------------------------------------------------------------------
(***************************************************************************)
(* Steps of the handlers: one handler that has started goes on.            *)
(***************************************************************************)

\* What every step of a handler leaves alone, whatever else it does.
LEMMA HandlerMoves ==
    ASSUME IInv, NEW h \in Handler, NEW to \in Stage \ {"none", "start"},
           stage[h] # "none",
           stage' = [stage EXCEPT ![h] = to],
           applied' = applied \/ (h \in Notification /\ applied' = applied \cup {h}),
           (h \in Notification /\ stage[h] = "start") => h \in applied',
           UNCHANGED <<input, clientVars, requestQueue, dispatcher>>
    PROVE  /\ stage' \in [Handler -> Stage]
           /\ stage'[h] = to /\ \A g \in Handler : g # h => stage'[g] = stage[g]
           /\ OnceUnderWay' /\ NotificationsAreKept' /\ AppliedOneByOne' /\ NothingOvertakes'
<1>1. /\ stage' \in [Handler -> Stage]
      /\ stage'[h] = to /\ \A g \in Handler : g # h => stage'[g] = stage[g]
    BY DEF IInv, Typed
<1>2. \A g \in Handler : stage'[g] = "none" <=> stage[g] = "none"
    BY <1>1
<1>3. Notification \subseteq Handler /\ Request \subseteq Handler
    BY DEF Handler, Id
<1>4. OnceUnderWay'
    BY <1>2 DEF IInv, OnceUnderWay, Unsent, clientVars
<1>5. NotificationsAreKept'
    BY <1>2, <1>3 DEF IInv, NotificationsAreKept, clientVars
<1>6. AppliedOneByOne'
  <2>1. \A n \in Notification : n # h => stage'[n] = stage[n]
      BY <1>1, <1>3
  <2>2. applied \subseteq applied'
      OBVIOUS
  <2>3. h \in Notification => h \in applied'
      BY <2>2 DEF IInv, AppliedOneByOne
  <2>4. QED
      BY <1>1, <2>1, <2>2, <2>3 DEF IInv, AppliedOneByOne
<1>7. NothingOvertakes'
  <2>1. \A r \in Request : before[r] \subseteq Handler
      BY <1>3 DEF IInv, Typed, Id
  <2>2. applied \subseteq applied'
      OBVIOUS
  <2>3. QED
      BY <1>2, <1>3, <2>1, <2>2 DEF IInv, NothingOvertakes, clientVars
<1>8. QED
    BY <1>1, <1>4, <1>5, <1>6, <1>7

\* A step that sends no response.
LEMMA HandlerIsSilent ==
    ASSUME IInv, NEW h \in Handler, NEW to \in Stage, stage[h] # "none",
           stage' = [stage EXCEPT ![h] = to],
           to \in {"start", "ask", "send", "await", "reply"} =>
               stage[h] \in {"start", "ask", "send", "await", "reply"},
           \/ outgoingQueue' = outgoingQueue
           \/ outgoingQueue' = Append(outgoingQueue, [kind |-> "request", id |-> h]),
           UNCHANGED <<input, clientVars, requestQueue>>
    PROVE  OneResponse'
<1>1. Id \subseteq Handler
    BY DEF Handler
<1>2. \A i \in Id : stage'[i] \in {"start", "ask", "send", "await", "reply"} =>
                        stage[i] \in {"start", "ask", "send", "await", "reply"}
    BY <1>1 DEF IInv, Typed
<1>3. \A i \in Id : /\ \A k \in Nat : OutAt(outgoingQueue', k, i) <=> OutAt(outgoingQueue, k, i)
                    /\ OutOn(outgoingQueue', i) <=> OutOn(outgoingQueue, i)
  <2>1. CASE outgoingQueue' = Append(outgoingQueue, [kind |-> "request", id |-> h])
    <3> DEFINE o == [kind |-> "request", id |-> h]
    <3>1. \A i \in Id : o # [kind |-> "response", id |-> i]
      <4>1. SUFFICES ASSUME NEW i \in Id, o = [kind |-> "response", id |-> i] PROVE FALSE
          OBVIOUS
      <4>2. o.kind = "request" /\ [kind |-> "response", id |-> i].kind = "response"
          OBVIOUS
      <4>3. QED
          BY <4>1, <4>2
    <3>2. o \in ServerMessage /\ outgoingQueue \in Seq(ServerMessage)
        BY DEF ServerMessage, IInv, Typed
    <3> HIDE DEF o
    <3>3. QED
        BY <2>1, <3>1, <3>2, OutAppend DEF o
  <2>2. QED
      BY <2>1
<1>4. QED
    BY <1>2, <1>3 DEF IInv, OneResponse, Out, clientVars

\* A notification is applied, a request looks.
LEMMA AfterApplyOrLook ==
    ASSUME IInv, AskersAreKnown, NEW h \in Handler,
           (h \in Notification /\ Apply(h)) \/ (h \in Request /\ Look(h))
    PROVE  IInv'
<1>1. /\ stage[h] = "start"
      /\ UNCHANGED <<input, clientVars, queueVars, pendingVars, loopVars>>
    BY DEF Apply, Look
<1>2. PICK to \in {"done", "ask", "reply"} :
          /\ stage' = [stage EXCEPT ![h] = to]
          /\ to = "reply" => h \in Request
          /\ to = "done" => h \in Notification
    BY DEF Apply, Look, Ask, Advance
<1>3. /\ h \in Notification => applied' = applied \cup {h} /\ seen' = seen
      /\ h \notin Notification => h \in Request /\ applied' = applied
                                  /\ seen' = [seen EXCEPT ![h] = applied]
      /\ mu' \in Handler \cup {Nobody}
    BY LspAssumption DEF Apply, Look, IInv, Typed
<1>4. UNCHANGED <<requestQueue, outgoingQueue, dispatcher, canceled, answered, replies, before>>
    BY <1>1 DEF queueVars, loopVars, pendingVars, clientVars
<1>5. /\ stage' \in [Handler -> Stage]
      /\ stage'[h] = to /\ \A g \in Handler : g # h => stage'[g] = stage[g]
      /\ OnceUnderWay' /\ NotificationsAreKept' /\ AppliedOneByOne' /\ NothingOvertakes'
    BY <1>1, <1>2, <1>3, <1>4, HandlerMoves DEF Stage
<1>6. Typed'
  <2>1. applied' \subseteq Notification /\ seen' \in [Id -> SUBSET Notification]
      BY <1>3 DEF IInv, Typed
  <2>2. questions' \in [Handler -> 0 .. MaxQuestions]
    <3>1. questions[h] = 0 /\ 1 \in 0 .. MaxQuestions
        BY <1>1, LspAssumption DEF AskersAreKnown
    <3>2. CASE questions' = questions
        BY <3>2 DEF IInv, Typed
    <3>3. CASE questions' = [questions EXCEPT ![h] = @ + 1]
        BY <3>1, <3>3 DEF IInv, Typed
    <3>4. QED
        BY <3>2, <3>3 DEF Apply, Look, Ask
  <2>3. QED
      BY <1>1, <1>3, <1>5, <2>1, <2>2
      DEF IInv, Typed, clientVars, queueVars, pendingVars, loopVars
<1>7. OneResponse'
  <2>1. h \in Notification => h \notin Id
      BY LspAssumption DEF Id
  <2>2. CASE to = "done"
    <3>1. \A i \in Id : i \in Handler /\ i # h
        BY <1>2, <2>1, <2>2 DEF Handler
    <3>2. QED
        BY <1>1, <1>4, <1>5, <3>1 DEF IInv, OneResponse, Out, clientVars
  <2>3. CASE to # "done"
      BY <1>1, <1>2, <1>4, <2>3, HandlerIsSilent DEF Stage
  <2>4. QED
      BY <2>2, <2>3
<1>8. CanceledHaveStarted'
  <2>1. h \notin answered
      BY <1>1 DEF IInv, CanceledHaveStarted
  <2>2. QED
      BY <1>1, <1>4, <1>5, <2>1 DEF IInv, Typed, CanceledHaveStarted, Handler
<1>9. TablesHoldWhatRuns'
  <2>1. h \in Notification => h \notin Id
      BY LspAssumption DEF Id
  <2>2. \A i \in Id : stage'[i] \in {"none", "done"} <=> stage[i] \in {"none", "done"}
      BY <1>1, <1>2, <1>5, <2>1 DEF Handler
  <2>3. \A g \in Handler : stage'[g] \in {"send", "await"} <=> stage[g] \in {"send", "await"}
      BY <1>1, <1>2, <1>5
  <2>4. QED
      BY <1>1, <2>2, <2>3 DEF IInv, TablesHoldWhatRuns, pendingVars
<1>10. RequestsSeeEarlierChanges'
  <2> SUFFICES ASSUME NEW r \in Request,
                      stage'[r] \in {"ask", "send", "await", "reply", "replied", "done"}
               PROVE  before[r] \subseteq seen'[r]
      BY <1>4 DEF RequestsSeeEarlierChanges
  <2>1. r \in Id /\ r \in Handler
      BY DEF Id, Handler
  <2>2. CASE r = h
    <3>1. r \notin Notification
        BY LspAssumption
    <3>2. seen'[r] = applied
        BY <1>3, <2>1, <2>2, <3>1 DEF IInv, Typed
    <3>3. before[r] \subseteq applied
        BY <1>1, <2>2 DEF IInv, NothingOvertakes
    <3>4. QED
        BY <3>2, <3>3
  <2>3. CASE r # h
    <3>1. stage'[r] = stage[r] /\ seen'[r] = seen[r]
        BY <1>3, <1>5, <2>1, <2>3 DEF IInv, Typed
    <3>2. QED
        BY <3>1 DEF IInv, RequestsSeeEarlierChanges
  <2>4. QED
      BY <2>2, <2>3
<1>11. QED
    BY <1>5, <1>6, <1>7, <1>8, <1>9, <1>10 DEF IInv

\* Shutdown, a second initialize, and exit.
LEMMA AfterControl ==
    ASSUME IInv, NEW h \in Handler,
           (h \in {Initialize, Shutdown} /\ Control(h)) \/ (h = Exit /\ Leave)
    PROVE  IInv'
<1> DEFINE to == IF h = Exit THEN "done" ELSE "reply"
<1>1. /\ stage[h] = "start" /\ stage' = [stage EXCEPT ![h] = to]
      /\ UNCHANGED <<input, clientVars, queueVars, pendingVars, reading, initialized,
                     dispatcher, questions, mu, applied, seen>>
      /\ exiting' \in BOOLEAN
    BY LspAssumption DEF Control, Leave, Advance, loopVars, IInv, Typed
<1>2. to \in {"done", "reply"} /\ (to = "done" => h = Exit)
    OBVIOUS
<1>3. h \notin Notification \cup Request /\ Exit \notin Id
    BY LspAssumption DEF Id
<1> HIDE DEF to
<1>4. UNCHANGED <<requestQueue, outgoingQueue, canceled, answered, replies, before>>
    BY <1>1 DEF queueVars, pendingVars, clientVars
<1>5. /\ stage' \in [Handler -> Stage]
      /\ stage'[h] = to /\ \A g \in Handler : g # h => stage'[g] = stage[g]
      /\ OnceUnderWay' /\ NotificationsAreKept' /\ AppliedOneByOne' /\ NothingOvertakes'
    BY <1>1, <1>2, <1>3, <1>4, HandlerMoves DEF Stage
<1>6. Typed'
    BY <1>1, <1>5 DEF IInv, Typed, clientVars, queueVars, pendingVars
<1>7. OneResponse'
    BY <1>1, <1>2, <1>4, HandlerIsSilent DEF Stage
<1>8. CanceledHaveStarted'
  <2>1. h \notin answered
      BY <1>1 DEF IInv, CanceledHaveStarted
  <2>2. \A g \in Handler : stage'[g] # "none" <=> stage[g] # "none"
      BY <1>1, <1>2, <1>5
  <2>3. QED
      BY <1>4, <1>5, <2>1, <2>2 DEF IInv, Typed, CanceledHaveStarted, Handler
<1>9. TablesHoldWhatRuns'
  <2>1. \A i \in Id : stage'[i] \in {"none", "done"} <=> stage[i] \in {"none", "done"}
      BY <1>1, <1>2, <1>3, <1>5 DEF Handler
  <2>2. \A g \in Handler : stage'[g] \in {"send", "await"} <=> stage[g] \in {"send", "await"}
      BY <1>1, <1>2, <1>5
  <2>3. QED
      BY <1>1, <2>1, <2>2 DEF IInv, TablesHoldWhatRuns, pendingVars
<1>10. RequestsSeeEarlierChanges'
  <2>1. \A r \in Request : stage'[r] = stage[r]
      BY <1>3, <1>5 DEF Id, Handler
  <2>2. QED
      BY <1>1, <1>4, <2>1 DEF IInv, RequestsSeeEarlierChanges
<1>11. QED
    BY <1>5, <1>6, <1>7, <1>8, <1>9, <1>10 DEF IInv

\* A handler makes the entry for the answer, ...
LEMMA AfterSendRequest ==
    ASSUME IInv, NEW h \in Handler, sendRequest(h)
    PROVE  IInv'
<1>1. /\ stage[h] = "ask"
      /\ pendingServerRequests' = pendingServerRequests \cup {h}
      /\ stage' = [stage EXCEPT ![h] = "send"]
      /\ UNCHANGED <<input, clientVars, queueVars, pendingClientRequests, canceled, answered,
                     loopVars, questions, mu, applied, seen>>
    BY DEF sendRequest, Advance
<1>2. UNCHANGED <<requestQueue, outgoingQueue, dispatcher, replies, before>>
    BY <1>1 DEF queueVars, loopVars, clientVars
<1>3. /\ stage' \in [Handler -> Stage]
      /\ stage'[h] = "send" /\ \A g \in Handler : g # h => stage'[g] = stage[g]
      /\ OnceUnderWay' /\ NotificationsAreKept' /\ AppliedOneByOne' /\ NothingOvertakes'
    BY <1>1, <1>2, HandlerMoves DEF Stage
<1>4. OneResponse'
    BY <1>1, <1>2, HandlerIsSilent DEF Stage
<1>5. Typed'
  <2>1. pendingServerRequests' \subseteq Handler
      BY <1>1 DEF IInv, Typed
  <2>2. QED
      BY <1>1, <1>3, <2>1 DEF IInv, Typed, clientVars, queueVars, loopVars
<1>6. h \notin answered
    BY <1>1 DEF IInv, CanceledHaveStarted
<1>7. CanceledHaveStarted'
    BY <1>1, <1>3, <1>6 DEF IInv, Typed, CanceledHaveStarted, Handler
<1>8. TablesHoldWhatRuns'
  <2>1. \A i \in Id : stage'[i] \in {"none", "done"} <=> stage[i] \in {"none", "done"}
      BY <1>1, <1>3 DEF Handler
  <2>2. QED
      BY <1>1, <1>3, <1>6, <2>1 DEF IInv, TablesHoldWhatRuns
<1>9. RequestsSeeEarlierChanges'
  <2>1. Request \subseteq Handler
      BY DEF Id, Handler
  <2>2. QED
      BY <1>1, <1>2, <1>3, <2>1 DEF IInv, RequestsSeeEarlierChanges
<1>10. QED
    BY <1>3, <1>4, <1>5, <1>7, <1>8, <1>9 DEF IInv

\* ... and asks the client when there is room.
LEMMA AfterSendQuestion ==
    ASSUME IInv, NEW h \in Handler, SendQuestion(h)
    PROVE  IInv'
<1> DEFINE o == [kind |-> "request", id |-> h]
<1>1. /\ stage[h] = "send" /\ Len(outgoingQueue) < QueueSize
      /\ outgoingQueue' = Append(outgoingQueue, o)
      /\ stage' = [stage EXCEPT ![h] = "await"]
      /\ UNCHANGED <<input, clientVars, requestQueue, writing, pendingVars, loopVars, questions,
                     mu, applied, seen>>
    BY DEF SendQuestion, HasRoom, Advance
<1>2. UNCHANGED <<dispatcher, replies, before, canceled, answered>>
    BY <1>1 DEF loopVars, clientVars, pendingVars
<1>3. /\ stage' \in [Handler -> Stage]
      /\ stage'[h] = "await" /\ \A g \in Handler : g # h => stage'[g] = stage[g]
      /\ OnceUnderWay' /\ NotificationsAreKept' /\ AppliedOneByOne' /\ NothingOvertakes'
    BY <1>1, <1>2, HandlerMoves DEF Stage
<1>4. OneResponse'
    BY <1>1, HandlerIsSilent DEF Stage
<1>5. outgoingQueue' \in Seq(ServerMessage) /\ Len(outgoingQueue') <= QueueSize
  <2>1. o \in ServerMessage /\ outgoingQueue \in Seq(ServerMessage)
      BY DEF ServerMessage, IInv, Typed
  <2> HIDE DEF o
  <2>2. /\ outgoingQueue' \in Seq(ServerMessage) /\ Len(outgoingQueue') = Len(outgoingQueue) + 1
        /\ Len(outgoingQueue) \in Nat
      BY <1>1, <2>1, AppendProperties, LenProperties
  <2>3. QED
      BY <1>1, <2>2, LspAssumption
<1>6. Typed'
    BY <1>1, <1>3, <1>5 DEF IInv, Typed, clientVars, pendingVars, loopVars
<1>7. CanceledHaveStarted'
    BY <1>1, <1>2, <1>3 DEF IInv, Typed, CanceledHaveStarted, Handler
<1>8. TablesHoldWhatRuns'
  <2>1. \A i \in Id : stage'[i] \in {"none", "done"} <=> stage[i] \in {"none", "done"}
      BY <1>1, <1>3 DEF Handler
  <2>2. \A g \in Handler : stage'[g] \in {"send", "await"} <=> stage[g] \in {"send", "await"}
      BY <1>1, <1>3
  <2>3. QED
      BY <1>1, <2>1, <2>2 DEF IInv, TablesHoldWhatRuns, pendingVars
<1>9. RequestsSeeEarlierChanges'
  <2>1. Request \subseteq Handler
      BY DEF Id, Handler
  <2>2. QED
      BY <1>1, <1>2, <1>3, <2>1 DEF IInv, RequestsSeeEarlierChanges
<1>10. QED
    BY <1>3, <1>4, <1>6, <1>7, <1>8, <1>9 DEF IInv

\* A handler goes on with the client's answer, maybe to the next question, or without it.
LEMMA AfterResume ==
    ASSUME IInv, AskersAreKnown, NEW h \in Handler, Proceed(h) \/ GiveUp(h)
    PROVE  IInv'
<1>1. /\ stage[h] = "await"
      /\ answered' = answered \ {h}
      /\ UNCHANGED <<input, clientVars, queueVars, pendingClientRequests, canceled, loopVars,
                     applied, seen>>
    BY DEF Proceed, GiveUp
<1>2. PICK to \in {"ask", "reply", "done"} :
          /\ stage' = [stage EXCEPT ![h] = to]
          /\ to = "done" => h \notin Request
  <2>1. h \in Request => mu = h
      BY <1>1 DEF AskersAreKnown
  <2>2. CASE GiveUp(h)
      BY <2>2 DEF GiveUp, Advance
  <2>3. CASE Proceed(h)
    <3>1. Resume(h)
        BY <2>3 DEF Proceed
    <3>2. CASE mu = h /\ Ask(h)
        BY <3>2 DEF Ask, Advance
    <3>3. CASE Advance(h, IF h \in Request THEN "reply" ELSE "done")
        BY <3>3 DEF Advance
    <3>4. CASE mu # h /\ \E s \in {"reply", "done"} : Advance(h, s)
        BY <2>1, <3>4 DEF Advance
    <3>5. QED
        BY <3>1, <3>2, <3>3, <3>4 DEF Resume
  <2>4. QED
      BY <2>2, <2>3
<1>3. mu' \in {mu, Nobody} /\ questions' \in [Handler -> 0 .. MaxQuestions]
  <2>1. CASE GiveUp(h)
      BY <2>1 DEF GiveUp, IInv, Typed
  <2>2. CASE Proceed(h)
    <3>1. mu' \in {mu, Nobody}
        BY <2>2 DEF Proceed, Resume
    <3>2. \/ questions' = questions
          \/ questions[h] < MaxQuestions /\ questions' = [questions EXCEPT ![h] = @ + 1]
        BY <2>2 DEF Proceed, Resume, Ask
    <3>3. questions[h] \in 0 .. MaxQuestions /\ MaxQuestions \in Nat
        BY LspAssumption DEF IInv, Typed
    <3>4. questions[h] < MaxQuestions => questions[h] + 1 \in 0 .. MaxQuestions
        BY <3>3
    <3>5. QED
        BY <3>1, <3>2, <3>4 DEF IInv, Typed
  <2>3. QED
      BY <2>1, <2>2
<1>4. pendingServerRequests' = pendingServerRequests \ {h}
  <2>1. CASE Proceed(h)
      BY <2>1 DEF Proceed, IInv, TablesHoldWhatRuns
  <2>2. CASE GiveUp(h)
      BY <2>2 DEF GiveUp, Forget
  <2>3. QED
      BY <2>1, <2>2
<1>5. UNCHANGED <<requestQueue, outgoingQueue, dispatcher, replies, before>>
    BY <1>1 DEF queueVars, loopVars, clientVars
<1>6. /\ stage' \in [Handler -> Stage]
      /\ stage'[h] = to /\ \A g \in Handler : g # h => stage'[g] = stage[g]
      /\ OnceUnderWay' /\ NotificationsAreKept' /\ AppliedOneByOne' /\ NothingOvertakes'
    BY <1>1, <1>2, <1>5, HandlerMoves DEF Stage
<1>7. Typed'
  <2>1. /\ pendingServerRequests' \subseteq Handler /\ answered' \subseteq Handler
        /\ mu' \in Handler \cup {Nobody}
      BY <1>1, <1>3, <1>4 DEF IInv, Typed
  <2>2. QED
      BY <1>1, <1>3, <1>6, <2>1 DEF IInv, Typed, clientVars, queueVars, loopVars
<1>8. OneResponse'
    BY <1>1, <1>2, <1>5, HandlerIsSilent DEF Stage
<1>9. CanceledHaveStarted'
    BY <1>1, <1>2, <1>6 DEF IInv, Typed, CanceledHaveStarted, Handler
<1>10. TablesHoldWhatRuns'
  <2>1. ASSUME h \in Id, to = "done" PROVE FALSE
      BY <1>1, <1>2, <2>1 DEF AskersAreKnown, Id
  <2>2. \A i \in Id : stage'[i] \in {"none", "done"} <=> stage[i] \in {"none", "done"}
      BY <1>1, <1>2, <1>6, <2>1 DEF Handler
  <2>3. pendingClientRequests' = {i \in Id : stage'[i] \notin {"none", "done"}} \ canceled'
      BY <1>1, <2>2 DEF IInv, TablesHoldWhatRuns
  <2>4. to \notin {"send", "await"}
      BY <1>2
  <2>5. pendingServerRequests' = {g \in Handler : stage'[g] \in {"send", "await"}} \ answered'
      BY <1>1, <1>4, <1>6, <2>4 DEF IInv, TablesHoldWhatRuns
  <2>6. QED
      BY <2>3, <2>5 DEF TablesHoldWhatRuns
<1>11. RequestsSeeEarlierChanges'
  <2>1. Request \subseteq Handler
      BY DEF Id, Handler
  <2>2. \A r \in Request :
            stage'[r] \in {"ask", "send", "await", "reply", "replied", "done"} =>
                stage[r] \in {"ask", "send", "await", "reply", "replied", "done"}
      BY <1>1, <1>6, <2>1
  <2>3. QED
      BY <1>1, <1>5, <2>2 DEF IInv, RequestsSeeEarlierChanges
<1>12. QED
    BY <1>6, <1>7, <1>8, <1>9, <1>10, <1>11 DEF IInv

\* The error of a notification is sent, which is the response to no request.
LEMMA AfterError ==
    ASSUME IInv, NEW n \in Notification, sendError(n)
    PROVE  IInv'
<1> DEFINE o == [kind |-> "response", id |-> Nobody]
<1>1. /\ stage[n] = "reply" /\ Len(outgoingQueue) < QueueSize
      /\ outgoingQueue' = Append(outgoingQueue, o)
      /\ stage' = [stage EXCEPT ![n] = "done"]
      /\ UNCHANGED <<input, clientVars, requestQueue, writing, pendingVars, loopVars, questions,
                     mu, applied, seen>>
    BY DEF sendError, sendResponse, HasRoom, Advance
<1>2. UNCHANGED <<dispatcher, replies, before, canceled, answered, sent>>
    BY <1>1 DEF loopVars, clientVars, pendingVars
<1>3. n \in Handler /\ n \notin Id /\ Nobody \notin Id
    BY LspAssumption DEF Handler, Id
<1>4. /\ stage' \in [Handler -> Stage]
      /\ stage'[n] = "done" /\ \A g \in Handler : g # n => stage'[g] = stage[g]
      /\ OnceUnderWay' /\ NotificationsAreKept' /\ AppliedOneByOne' /\ NothingOvertakes'
    BY <1>1, <1>2, <1>3, HandlerMoves DEF Stage
<1>5. o \in ServerMessage /\ outgoingQueue \in Seq(ServerMessage)
    BY DEF ServerMessage, IInv, Typed
<1>6. \A i \in Id : o # [kind |-> "response", id |-> i]
  <2>1. SUFFICES ASSUME NEW i \in Id, o = [kind |-> "response", id |-> i] PROVE FALSE
      OBVIOUS
  <2>2. o.id = Nobody /\ [kind |-> "response", id |-> i].id = i
      OBVIOUS
  <2>3. QED
      BY <1>3, <2>1, <2>2
<1> HIDE DEF o
<1>7. Typed'
  <2>1. /\ outgoingQueue' \in Seq(ServerMessage)
        /\ Len(outgoingQueue') = Len(outgoingQueue) + 1 /\ Len(outgoingQueue) \in Nat
      BY <1>1, <1>5, AppendProperties, LenProperties
  <2>2. Len(outgoingQueue') <= QueueSize
      BY <1>1, <2>1, LspAssumption
  <2>3. QED
      BY <1>1, <1>4, <2>1, <2>2 DEF IInv, Typed, clientVars, pendingVars, loopVars
<1>8. \A i \in Id : stage'[i] = stage[i]
    BY <1>3, <1>4 DEF Handler
<1>9. OneResponse'
  <2>1. \A i \in Id : /\ \A k \in Nat : OutAt(outgoingQueue', k, i) <=> OutAt(outgoingQueue, k, i)
                      /\ OutOn(outgoingQueue', i) <=> OutOn(outgoingQueue, i)
      BY <1>1, <1>5, <1>6, OutAppend
  <2>2. QED
      BY <1>1, <1>2, <1>8, <2>1 DEF IInv, OneResponse, Out
<1>10. CanceledHaveStarted'
    BY <1>1, <1>2, <1>4 DEF IInv, Typed, CanceledHaveStarted, Handler
<1>11. TablesHoldWhatRuns'
  <2>1. \A g \in Handler : stage'[g] \in {"send", "await"} <=> stage[g] \in {"send", "await"}
      BY <1>1, <1>4
  <2>2. QED
      BY <1>1, <1>8, <2>1 DEF IInv, TablesHoldWhatRuns, pendingVars
<1>12. RequestsSeeEarlierChanges'
    BY <1>1, <1>2, <1>8 DEF IInv, RequestsSeeEarlierChanges, Id
<1>13. QED
    BY <1>4, <1>7, <1>9, <1>10, <1>11, <1>12 DEF IInv

\* A response is sent, and the request leaves the table.
LEMMA AfterResult ==
    ASSUME IInv, NEW h \in Id, sendResult(h) \/ Finish(h)
    PROVE  IInv'
<1>0. h \in Handler
    BY DEF Handler
<1>1. ASSUME sendResult(h) PROVE IInv'
  <2> DEFINE o == [kind |-> "response", id |-> h]
  <2>1. /\ stage[h] = "reply" /\ Len(outgoingQueue) < QueueSize
        /\ outgoingQueue' = Append(outgoingQueue, o)
        /\ stage' = [stage EXCEPT ![h] = "replied"]
        /\ UNCHANGED <<input, clientVars, requestQueue, writing, pendingVars, loopVars,
                       questions, mu, applied, seen>>
      BY <1>1 DEF sendResult, sendResponse, HasRoom, Advance
  <2>2. UNCHANGED <<dispatcher, replies, before, canceled, answered, sent>>
      BY <2>1 DEF loopVars, clientVars, pendingVars
  <2>3. /\ stage' \in [Handler -> Stage]
        /\ stage'[h] = "replied" /\ \A g \in Handler : g # h => stage'[g] = stage[g]
        /\ OnceUnderWay' /\ NotificationsAreKept' /\ AppliedOneByOne' /\ NothingOvertakes'
      BY <1>0, <2>1, <2>2, HandlerMoves DEF Stage
  <2>4. o \in ServerMessage /\ outgoingQueue \in Seq(ServerMessage)
      BY DEF ServerMessage, IInv, Typed
  <2>5. \A i \in Id : o = [kind |-> "response", id |-> i] <=> h = i
      OBVIOUS
  <2> HIDE DEF o
  <2>6. Typed'
    <3>1. /\ outgoingQueue' \in Seq(ServerMessage)
          /\ Len(outgoingQueue') = Len(outgoingQueue) + 1 /\ Len(outgoingQueue) \in Nat
        BY <2>1, <2>4, AppendProperties, LenProperties
    <3>2. Len(outgoingQueue') <= QueueSize
        BY <2>1, <3>1, LspAssumption
    <3>3. QED
        BY <2>1, <2>3, <3>1, <3>2 DEF IInv, Typed, clientVars, pendingVars, loopVars
  <2>7. OneResponse'
    <3>1. /\ ~Out(h) /\ replies[h] = 0 /\ ~On(input, h) /\ ~On(requestQueue, h) /\ h \in sent
      <4>1. h # Exit
          BY LspAssumption DEF Id
      <4>2. QED
          BY <1>0, <2>1, <4>1 DEF IInv, OneResponse, OnceUnderWay, Unsent
    <3>2. \A i \in Id :
              /\ \A k \in Nat : OutAt(outgoingQueue', k, i) <=>
                     OutAt(outgoingQueue, k, i) \/ (k = Len(outgoingQueue) + 1 /\ h = i)
              /\ OutOn(outgoingQueue', i) <=> OutOn(outgoingQueue, i) \/ h = i
        BY <2>1, <2>4, <2>5, OutAppend
    <3>3. \A k \in Nat : ~OutAt(outgoingQueue, k, h)
        BY <3>1 DEF Out, OutOn
    <3>4. \A i \in Id : i # h => stage'[i] = stage[i]
        BY <2>3 DEF Handler
    <3>5. QED
        BY <2>1, <2>2, <2>3, <3>1, <3>2, <3>3, <3>4 DEF IInv, OneResponse, Out
  <2>8. CanceledHaveStarted'
      BY <2>1, <2>2, <2>3 DEF IInv, Typed, CanceledHaveStarted, Handler
  <2>9. TablesHoldWhatRuns'
    <3>1. \A i \in Id : stage'[i] \in {"none", "done"} <=> stage[i] \in {"none", "done"}
        BY <2>1, <2>3 DEF Handler
    <3>2. \A g \in Handler : stage'[g] \in {"send", "await"} <=> stage[g] \in {"send", "await"}
        BY <2>1, <2>3
    <3>3. QED
        BY <2>1, <3>1, <3>2 DEF IInv, TablesHoldWhatRuns, pendingVars
  <2>10. RequestsSeeEarlierChanges'
    <3>1. Request \subseteq Handler
        BY DEF Id, Handler
    <3>2. QED
        BY <2>1, <2>2, <2>3, <3>1 DEF IInv, RequestsSeeEarlierChanges
  <2>11. QED
      BY <2>3, <2>6, <2>7, <2>8, <2>9, <2>10 DEF IInv
<1>2. ASSUME Finish(h) PROVE IInv'
  <2>1. /\ stage[h] = "replied"
        /\ pendingClientRequests' = pendingClientRequests \ {h}
        /\ stage' = [stage EXCEPT ![h] = "done"]
        /\ UNCHANGED <<input, clientVars, queueVars, canceled, pendingServerRequests, answered,
                       loopVars, questions, mu, applied, seen>>
      BY <1>2 DEF Finish, Unregister, Advance
  <2>2. UNCHANGED <<requestQueue, outgoingQueue, dispatcher, replies, before>>
      BY <2>1 DEF queueVars, loopVars, clientVars
  <2>3. /\ stage' \in [Handler -> Stage]
        /\ stage'[h] = "done" /\ \A g \in Handler : g # h => stage'[g] = stage[g]
        /\ OnceUnderWay' /\ NotificationsAreKept' /\ AppliedOneByOne' /\ NothingOvertakes'
      BY <1>0, <2>1, <2>2, HandlerMoves DEF Stage
  <2>4. Typed'
    <3>1. pendingClientRequests' \subseteq Id
        BY <2>1 DEF IInv, Typed
    <3>2. QED
        BY <2>1, <2>3, <3>1 DEF IInv, Typed, clientVars, queueVars, loopVars
  <2>5. OneResponse'
      BY <1>0, <2>1, <2>2, HandlerIsSilent DEF Stage
  <2>6. CanceledHaveStarted'
      BY <2>1, <2>3 DEF IInv, Typed, CanceledHaveStarted, Handler
  <2>7. TablesHoldWhatRuns'
    <3>1. \A i \in Id : i # h => stage'[i] = stage[i]
        BY <2>3 DEF Handler
    <3>2. \A g \in Handler : stage'[g] \in {"send", "await"} <=> stage[g] \in {"send", "await"}
        BY <2>1, <2>3
    <3>3. QED
        BY <2>1, <2>3, <3>1, <3>2 DEF IInv, TablesHoldWhatRuns
  <2>8. RequestsSeeEarlierChanges'
    <3>1. Request \subseteq Handler
        BY DEF Id, Handler
    <3>2. QED
        BY <2>1, <2>2, <2>3, <3>1 DEF IInv, RequestsSeeEarlierChanges
  <2>9. QED
      BY <2>3, <2>4, <2>5, <2>6, <2>7, <2>8 DEF IInv
<1>3. QED
    BY <1>1, <1>2

\* What every step does to those who ask the client.
LEMMA AskersStayKnown ==
    ASSUME IInv, AskersAreKnown, [Next]_vars
    PROVE  AskersAreKnown'
<1> USE DEF AskersAreKnown
<1>0. /\ stage \in [Handler -> Stage] /\ questions \in [Handler -> 0 .. MaxQuestions]
      /\ {Initialize, Shutdown} \cup Request \subseteq Handler
      /\ {Initialize, Shutdown} \cap (Notification \cup Request \cup {Exit}) = {}
      /\ Nobody \notin Handler /\ Request \cap Notification = {} /\ Exit \notin Request
    BY LspAssumption DEF IInv, Typed, Handler, Id
<1>1. CASE UNCHANGED <<stage, questions, mu>>
    BY <1>1
<1>2. CASE Dispatch
  <2>1. UNCHANGED <<questions, mu>>
      BY <1>2 DEF Dispatch
  <2>2. PICK d : stage' = [stage EXCEPT ![d] = "start"] /\ stage[d] = "none" /\ d \in Handler
    <3> DEFINE m == Head(requestQueue)
    <3>1. requestQueue # <<>> /\ stage' = [stage EXCEPT ![m.id] = "start"]
        BY <1>2 DEF Dispatch
    <3>2. m \in Queued /\ requestQueue \in Seq(Queued)
        BY <3>1, HeadTailProperties DEF IInv, Typed
    <3>3. m.id \in Handler /\ Carries(m, m.id)
        BY <3>2 DEF Queued, Carries, Handler
    <3>4. On(requestQueue, m.id)
        BY <3>1, <3>2, <3>3, AtTail
    <3>5. stage[m.id] = "none"
        BY <3>3, <3>4 DEF IInv, OnceUnderWay
    <3>6. QED
        BY <3>1, <3>3, <3>5
  <2>3. QED
      BY <1>0, <2>1, <2>2
<1>3. ASSUME NEW h \in Handler, Handle(h) PROVE AskersAreKnown'
  <2>1. CASE h \in Notification /\ Apply(h)
    <3>1. /\ stage[h] = "start" /\ mu = Nobody
          /\ stage' \in {[stage EXCEPT ![h] = "done"], [stage EXCEPT ![h] = "ask"]}
          /\ questions' \in {questions, [questions EXCEPT ![h] = @ + 1]}
        BY <2>1 DEF Apply, Ask, Advance
    <3>2. /\ \A g \in Handler : g # h => stage'[g] = stage[g] /\ questions'[g] = questions[g]
          /\ stage'[h] \in {"done", "ask"}
        BY <1>0, <3>1
    <3>3. \A r \in Request : stage[r] \notin {"ask", "send", "await"}
        BY <1>0, <3>1
    <3>4. QED
        BY <1>0, <2>1, <3>2, <3>3
  <2>2. CASE h \in Request /\ Look(h)
    <3>1. /\ stage[h] = "start" /\ mu = Nobody
          /\ \/ stage' = [stage EXCEPT ![h] = "reply"] /\ questions' = questions
             \/ /\ stage' = [stage EXCEPT ![h] = "ask"] /\ mu' = h
                /\ questions' = [questions EXCEPT ![h] = @ + 1]
        BY <2>2 DEF Look, Ask, Advance
    <3>2. /\ \A g \in Handler : g # h => stage'[g] = stage[g] /\ questions'[g] = questions[g]
          /\ stage'[h] \in {"reply", "ask"} /\ (stage'[h] = "ask" => mu' = h)
        BY <1>0, <3>1
    <3>3. \A r \in Request : stage[r] \notin {"ask", "send", "await"}
        BY <1>0, <3>1
    <3>4. QED
        BY <1>0, <2>2, <3>2, <3>3
  <2>3. CASE Control(h) \/ sendResult(h) \/ Finish(h) \/ sendError(h) \/ (h = Exit /\ Leave)
    <3>1. /\ UNCHANGED <<questions, mu>>
          /\ \/ stage' = [stage EXCEPT ![h] = "reply"]
             \/ stage' = [stage EXCEPT ![h] = "replied"]
             \/ stage' = [stage EXCEPT ![h] = "done"]
        BY <2>3 DEF Control, sendResult, Finish, sendError, Leave, Advance
    <3>2. /\ \A g \in Handler : g # h => stage'[g] = stage[g]
          /\ stage'[h] \in {"reply", "replied", "done"}
        BY <1>0, <3>1
    <3>3. QED
        BY <1>0, <3>1, <3>2
  <2>4. CASE sendRequest(h) \/ SendQuestion(h)
    <3>1. /\ UNCHANGED <<questions, mu>> /\ stage[h] \in {"ask", "send"}
          /\ \/ stage' = [stage EXCEPT ![h] = "send"]
             \/ stage' = [stage EXCEPT ![h] = "await"]
        BY <2>4 DEF sendRequest, SendQuestion, Advance
    <3>2. /\ \A g \in Handler : g # h => stage'[g] = stage[g]
          /\ stage'[h] \in {"send", "await"}
        BY <1>0, <3>1
    <3>3. QED
        BY <1>0, <3>1, <3>2
  <2>5. CASE Proceed(h) \/ GiveUp(h)
    <3>1. /\ stage[h] = "await" /\ (mu' = mu \/ (mu = h /\ mu' = Nobody))
          /\ \/ /\ stage' = [stage EXCEPT ![h] = "ask"] /\ mu = h /\ mu' = mu
                /\ questions' = [questions EXCEPT ![h] = @ + 1]
             \/ /\ stage' \in {[stage EXCEPT ![h] = "reply"], [stage EXCEPT ![h] = "done"]}
                /\ questions' = questions
        BY <2>5 DEF Proceed, GiveUp, Resume, Ask, Advance
    <3>2. /\ \A g \in Handler : g # h => stage'[g] = stage[g] /\ questions'[g] = questions[g]
          /\ stage'[h] \in {"ask", "reply", "done"} /\ (stage'[h] = "ask" => mu = h /\ mu' = h)
        BY <1>0, <3>1
    <3>3. h \notin {Initialize, Shutdown}
        BY <3>1
    <3>4. \A r \in Request : r # h /\ stage[r] \in {"ask", "send", "await"} => mu' = r
        BY <3>1
    <3>5. QED
        BY <1>0, <3>2, <3>3, <3>4
  <2>6. QED
      BY <1>3, <2>1, <2>2, <2>3, <2>4, <2>5 DEF Handle
<1>4. CASE Client \/ Answers
    BY <1>1, <1>4 DEF Client, SendRequest, SendCancel, SendNotification, ClientSends, Close,
                      Answers, Answer, handlerVars
<1>5. CASE ReadLoop
    BY <1>1, <1>5 DEF ReadLoop, ReadEnd, BeforeInitialize, ReadResponse, cancelRequest,
                      QueueRequest, handlerVars
<1>6. CASE DispatchNext \/ DispatchEnd \/ WriteLoop
    BY <1>1, <1>6 DEF DispatchNext, DispatchEnd, WriteLoop, WriteMessage, WriteEnd, handlerVars
<1>7. CASE UNCHANGED vars
    BY <1>1, <1>7 DEF vars, handlerVars
<1>8. QED
    BY <1>2, <1>3, <1>4, <1>5, <1>6, <1>7 DEF Next, Server, DispatchLoop

-----------------------------------------------------------------------------
\* No step of the loops, the handlers or the client breaks the invariant.
LEMMA NextPreserves ==
    ASSUME IInv, AskersAreKnown, [Next]_vars
    PROVE  IInv'
<1>1. CASE Client \/ Answers
    BY <1>1, AfterClient
<1>2. CASE ReadLoop
    BY <1>2, AfterBeforeInitialize, AfterTableMessage, AfterQueueRequest, AfterLoopStep
    DEF ReadLoop
<1>3. CASE DispatchLoop
    BY <1>3, AfterDispatch, AfterLoopStep DEF DispatchLoop
<1>4. CASE WriteLoop
    BY <1>4, AfterWriteLoop
<1>5. ASSUME NEW h \in Handler, Handle(h) PROVE IInv'
    BY <1>5, AfterApplyOrLook, AfterControl, AfterSendRequest, AfterSendQuestion, AfterResume,
       AfterError, AfterResult
    DEF Handle
<1>6. CASE UNCHANGED vars
  <2>1. /\ UNCHANGED <<input, requestQueue, outgoingQueue, sent, closed, asked, cancelable,
                       replies, before, dispatcher, reading, initialized, exiting, writing>>
        /\ UNCHANGED <<pendingClientRequests, canceled, pendingServerRequests, answered, stage,
                       questions, mu, applied, seen>>
      BY <1>6 DEF vars, clientVars, queueVars, pendingVars, loopVars, handlerVars
  <2>2. Typed' /\ RequestsSeeEarlierChanges' /\ TablesHoldWhatRuns'
      BY <2>1 DEF IInv, Typed, RequestsSeeEarlierChanges, TablesHoldWhatRuns
  <2>3. OnceUnderWay' /\ OneResponse' /\ CanceledHaveStarted'
      BY <2>1 DEF IInv, OnceUnderWay, Unsent, OneResponse, Out, CanceledHaveStarted
  <2>4. NotificationsAreKept' /\ AppliedOneByOne' /\ NothingOvertakes'
      BY <2>1 DEF IInv, NotificationsAreKept, AppliedOneByOne, NothingOvertakes
  <2>5. QED
      BY <2>2, <2>3, <2>4 DEF IInv
<1>7. QED
    BY <1>1, <1>2, <1>3, <1>4, <1>5, <1>6 DEF Next, Server

\* The invariant in every behaviour, with the fact that keeps it: who asks the client.
LEMMA Invariance == Spec => [](IInv /\ AskersAreKnown)
<1>1. Init => IInv /\ AskersAreKnown
  <2>1. Init => AskersAreKnown
      BY DEF Init, AskersAreKnown, Handler, Id
  <2>2. QED
      BY <2>1, InitEstablishes
<1>2. IInv /\ AskersAreKnown /\ [Next]_vars => (IInv /\ AskersAreKnown)'
    BY NextPreserves, AskersStayKnown
<1>3. QED
    BY <1>1, <1>2, PTL DEF Spec

\* Every variable keeps its type, and no queue holds more than its capacity: a sender
\* waits while the channel it writes to is full.
THEOREM TypeCorrect == Spec => []TypeOK
<1>1. IInv => TypeOK
  <2> SUFFICES ASSUME IInv PROVE TypeOK
      OBVIOUS
  <2>1. /\ ClientMessage \subseteq Message /\ Queued \subseteq Message
        /\ ServerMessage \subseteq Message
        /\ {NoMessage, Ended} \subseteq Message
      BY DEF ClientMessage, Queued, ServerMessage, Message, NoMessage, Ended, Handler, Id
  <2>2. /\ input \in Seq(Message) /\ requestQueue \in Seq(Message)
        /\ outgoingQueue \in Seq(Message) /\ dispatcher \in Message
      BY <2>1 DEF IInv, Typed
  <2>3. QED
      BY <2>2 DEF IInv, Typed, TypeOK, Stage
<1>2. QED
    BY <1>1, Invariance, PTL

\* A request looks at the project only when every notification the client sent before
\* it has been applied, whatever the client sends in between, cancels or answers late.
THEOREM EarlierChangesAreSeen == Spec => []RequestsSeeEarlierChanges
<1>1. IInv => RequestsSeeEarlierChanges
    BY DEF IInv
<1>2. QED
    BY <1>1, Invariance, PTL

\* pendingClientRequests and pendingServerRequests hold exactly the requests that are
\* being handled and the questions that are open.
THEOREM TablesAreExact == Spec => []TablesHoldWhatRuns
<1>1. IInv => TablesHoldWhatRuns
    BY DEF IInv
<1>2. QED
    BY <1>1, Invariance, PTL

\* No request gets a second response, and none is written while another is queued.
THEOREM NoSecondAnswer == Spec => []AnsweredAtMostOnce
<1>1. IInv => AnsweredAtMostOnce
  <2> SUFFICES ASSUME IInv, NEW i \in Id
               PROVE  replies[i] + Cardinality({k \in 1 .. Len(outgoingQueue) :
                          outgoingQueue[k] = [kind |-> "response", id |-> i]}) <= 1
      BY DEF AnsweredAtMostOnce
  <2> DEFINE places == {k \in 1 .. Len(outgoingQueue) :
                            outgoingQueue[k] = [kind |-> "response", id |-> i]}
  <2>1. /\ \A k \in places : k \in Nat /\ OutAt(outgoingQueue, k, i)
        /\ replies[i] \in Nat /\ replies[i] <= 1
        /\ Out(i) => replies[i] = 0
        /\ \A k, l \in Nat : OutAt(outgoingQueue, k, i) /\ OutAt(outgoingQueue, l, i) => k = l
      BY DEF IInv, Typed, OneResponse, OutAt
  <2> HIDE DEF places
  <2>2. ASSUME places = {} PROVE replies[i] + Cardinality(places) <= 1
    <3>1. Cardinality(places) = 0
        BY <2>2, FS_EmptySet
    <3>2. QED
        BY <2>1, <3>1
  <2>3. ASSUME NEW k \in places PROVE replies[i] + Cardinality(places) <= 1
    <3>1. places = {k} /\ replies[i] = 0
        BY <2>1 DEF Out, OutOn
    <3>2. Cardinality(places) = 1
        BY <3>1, FS_Singleton
    <3>3. QED
        BY <3>1, <3>2
  <2>4. replies[i] + Cardinality(places) <= 1
      BY <2>2, <2>3, places = {} \/ \E k \in places : TRUE
  <2>5. QED
      BY <2>4 DEF places
<1>2. QED
    BY <1>1, Invariance, PTL
=============================================================================
