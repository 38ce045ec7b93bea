------------------------- MODULE RegistrationProofs -------------------------
(***************************************************************************)
(* Proofs about Registration, for every queue length and every bound on    *)
(* calls, connections and faults.                                          *)
(***************************************************************************)
EXTENDS Registration, TLAPS

USE SMTT(30)

Connection ==
    [by : Nat, task : {"idle", "busy", "closing", "done"}, chan : Seq(Nat), req : Seq(Nat),
     lost : BOOLEAN, wire : SUBSET Nat, replies : SUBSET Nat]

Execution == [call : Nat, conn : Nat]

Answers == {<< >>} \cup ({"reply", "timeout", "disconnected", "unknown"} \X Nat)

Client ==
    [call : Nat, kind : {"none", "create", "update", "verify", "other"},
     pc : {"idle", "connecting", "sending", "waiting"}, att : Nat, answer : Answers]

TypeOK ==
    /\ service \in {"none", "starting", "open", "gone"}
    /\ client \in Client
    /\ slot \in Nat /\ cached \in Nat
    /\ conns \in Seq(Connection)
    /\ log \in Seq(Execution)
    /\ received \subseteq 1 .. Len(log)

\* Request c was put on connection k, whether or not the server has executed it yet.
WasSent(c, k) ==
    c \in conns[k].wire \/ \E i \in 1 .. Len(log) : log[i] = [call |-> c, conn |-> k]

Queued(c, k) == \E i \in 1 .. Len(conns[k].chan) : conns[k].chan[i] = c

\* A queue holds requests of calls up to the current one, and that one only last.
QueueInOrder(k) ==
    \A i \in 1 .. Len(conns[k].chan) :
        /\ conns[k].chan[i] <= client.call
        /\ i < Len(conns[k].chan) => conns[k].chan[i] < client.call

ConnectionOK(k) ==
    /\ conns[k].task = "busy" => \E c \in Nat : conns[k].req = <<c>>
    /\ conns[k].task # "busy" => conns[k].req = << >>
    /\ QueueInOrder(k)
    /\ \A c \in conns[k].wire : c <= client.call
    /\ \A i \in conns[k].replies : i \in 1 .. Len(log)

LogOK ==
    \A i \in 1 .. Len(log) : log[i].call <= client.call /\ log[i].conn \in 1 .. Len(conns)

\* The connection of a call under way exists, and so does that of an open service.
Attached ==
    /\ client.pc \in {"sending", "waiting"} => client.att \in 1 .. Len(conns)
    /\ client.pc = "connecting" => client.att = None
    /\ service = "open" => slot \in 1 .. Len(conns)

AnswerOK ==
    /\ client.pc \in {"connecting", "sending"} => client.answer = << >>
    /\ client.pc = "waiting" =>
           \/ client.answer = << >>
           \/ \E error \in {"timeout", "unknown"} : client.answer = <<error, 0>>
           \/ client.answer = <<"disconnected", 0>> /\ conns[client.att].lost
           \/ \E i \in 1 .. Len(log) :
                  client.answer = <<"reply", i>> /\ log[i].call = client.call

\* The call's request is on no other connection, unless that one is lost.
SentHereOnly ==
    client.pc # "idle" => \A k \in 1 .. Len(conns) :
        WasSent(client.call, k) => k = client.att \/ conns[k].lost

NotYetQueued ==
    client.pc = "sending" =>
        /\ ~ WasSent(client.call, client.att)
        /\ \A i \in 1 .. Len(conns[client.att].chan) : conns[client.att].chan[i] < client.call

QueuedNotSent ==
    client.pc = "waiting" /\ Queued(client.call, client.att) => ~ WasSent(client.call, client.att)

\* A call without an answer whose request is no longer with the task lost it with
\* the connection, or before it was sent.
AbandonedOnLoss ==
    client.pc = "waiting" /\ client.answer = << >> =>
        \/ Queued(client.call, client.att) \/ conns[client.att].req = <<client.call>>
        \/ conns[client.att].lost \/ ~ WasSent(client.call, client.att)

\* What the current call causes is newer than all that was received before it.
NewerThanReceived ==
    client.pc # "idle" => \A i \in 1 .. Len(log) :
        log[i].call = client.call => \A r \in received : r < i

CacheNewest ==
    cached \in received \cup {0} /\ \A r \in received : r <= cached

IInv ==
    /\ TypeOK /\ \A k \in 1 .. Len(conns) : ConnectionOK(k)
    /\ LogOK /\ Attached /\ AnswerOK
    /\ SentHereOnly /\ NotYetQueued /\ QueuedNotSent /\ AbandonedOnLoss
    /\ NewerThanReceived /\ CacheNewest

-----------------------------------------------------------------------------

\* A step of the task, the network or the server on one connection.
LEMMA OneConnectionChanges ==
    ASSUME NEW s \in Seq(Connection), NEW k \in 1 .. Len(s), NEW v \in Connection
    PROVE  LET t == [s EXCEPT ![k] = v]
           IN  /\ t \in Seq(Connection) /\ Len(t) = Len(s) /\ t[k] = v
               /\ \A j \in 1 .. Len(s) : j # k => t[j] = s[j]
OBVIOUS

\* A connection is made.
LEMMA OneConnectionMore ==
    ASSUME NEW s \in Seq(Connection), NEW v \in Connection
    PROVE  LET t == Append(s, v)
           IN  /\ t \in Seq(Connection) /\ Len(t) = Len(s) + 1 /\ t[Len(s) + 1] = v
               /\ \A j \in 1 .. Len(s) : t[j] = s[j]
OBVIOUS

LEMMA NoRequests == << >> \in Seq(Nat)
OBVIOUS

LEMMA NoAnswerYet == << >> \in Answers
BY DEF Answers

\* Between calls there is nothing to know about a client but its number.
LEMMA NoCallIsIdle ==
    ASSUME NEW c \in Nat
    PROVE  /\ NoCall(c) \in Client /\ NoCall(c).pc = "idle" /\ NoCall(c).call = c
           /\ NoCall(c).answer = << >>
BY NoAnswerYet DEF NoCall, Client, None

LEMMA InitIInv == ASSUME Init PROVE IInv
<1>1. client = [call |-> 0, kind |-> "none", pc |-> "idle", att |-> 0, answer |-> << >>]
  BY Zenon DEF Init, NoCall, None
<1>2. client \in Client
  BY <1>1, NoAnswerYet DEF Client
<1>3. TypeOK
  BY <1>2 DEF Init, TypeOK, None
<1>4. conns = << >> /\ log = << >> /\ received = {} /\ cached = 0 /\ service = "none"
  BY DEF Init
<1>5. LogOK /\ Attached /\ AnswerOK /\ SentHereOnly /\ NotYetQueued /\ QueuedNotSent
      /\ AbandonedOnLoss /\ NewerThanReceived /\ CacheNewest
  BY <1>1, <1>4 DEF LogOK, Attached, AnswerOK, SentHereOnly, NotYetQueued, QueuedNotSent,
       AbandonedOnLoss, NewerThanReceived, CacheNewest, None
<1> QED BY <1>3, <1>4, <1>5 DEF IInv

\* What the types say of one connection and of one execution.
LEMMA Typed ==
    ASSUME TypeOK
    PROVE  /\ client.call \in Nat /\ client.att \in Nat /\ client.answer \in Answers
           /\ Len(conns) \in Nat /\ Len(log) \in Nat
           /\ \A k \in 1 .. Len(conns) :
                  /\ conns[k] \in Connection
                  /\ Len(conns[k].chan) \in Nat
                  /\ \A i \in 1 .. Len(conns[k].chan) : conns[k].chan[i] \in Nat
                  /\ \A c \in conns[k].wire : c \in Nat
           /\ \A i \in 1 .. Len(log) : log[i].call \in Nat /\ log[i].conn \in Nat
<1>1. client.call \in Nat /\ client.att \in Nat /\ client.answer \in Answers
  BY DEF TypeOK, Client
<1>2. Len(conns) \in Nat /\ Len(log) \in Nat
  BY DEF TypeOK
<1>3. \A i \in 1 .. Len(log) : log[i].call \in Nat /\ log[i].conn \in Nat
  <2>1. \A i \in 1 .. Len(log) : log[i] \in Execution
    BY DEF TypeOK
  <2> QED BY <2>1 DEF Execution
<1>4. \A k \in 1 .. Len(conns) : conns[k] \in Connection
  BY DEF TypeOK
<1>5. ASSUME NEW k \in 1 .. Len(conns)
      PROVE  /\ Len(conns[k].chan) \in Nat
             /\ \A i \in 1 .. Len(conns[k].chan) : conns[k].chan[i] \in Nat
             /\ \A c \in conns[k].wire : c \in Nat
  <2>1. conns[k].chan \in Seq(Nat) /\ conns[k].wire \in SUBSET Nat
    BY <1>4 DEF Connection
  <2> QED BY <2>1
<1> QED BY <1>1, <1>2, <1>3, <1>4, <1>5

\* A call begins: its number is one that no queue and no execution has.
LEMMA CallBegins ==
    ASSUME IInv, client' \in Client, client'.call = client.call + 1, client'.answer = << >>,
           UNCHANGED <<conns, log, received, cached, slot>>,
           service' \in {"none", "starting", "open", "gone"}, service' = "open" => service = "open",
           \/ client'.pc = "connecting" /\ client'.att = None
           \/ client'.pc = "sending" /\ client'.att \in 1 .. Len(conns)
    PROVE  IInv'
<1>4. conns' = conns /\ log' = log /\ received' = received /\ cached' = cached /\ slot' = slot
  OBVIOUS
<1>5. TypeOK'
  BY <1>4 DEF IInv, TypeOK
<1>6. ASSUME NEW k \in 1 .. Len(conns) PROVE ConnectionOK(k)'
  <2>1. ConnectionOK(k) /\ TypeOK
    BY DEF IInv
  <2>2. /\ client.call \in Nat /\ \A i \in 1 .. Len(conns[k].chan) : conns[k].chan[i] \in Nat
        /\ \A c \in conns[k].wire : c \in Nat
    BY <2>1, Typed
  <2> QED BY <1>4, <2>1, <2>2 DEF ConnectionOK, QueueInOrder
<1>7. LogOK'
  BY <1>4, Typed DEF IInv, LogOK
<1>8. \A k \in 1 .. Len(conns) : ~ WasSent(client.call + 1, k)
  BY Typed DEF IInv, LogOK, ConnectionOK, WasSent
<1>9. SentHereOnly'
  BY <1>4, <1>8 DEF SentHereOnly, WasSent
<1>10. NotYetQueued'
  BY <1>4, <1>8, Typed DEF IInv, NotYetQueued, WasSent, ConnectionOK, QueueInOrder
<1>11. Attached' /\ AnswerOK' /\ QueuedNotSent' /\ AbandonedOnLoss'
  BY <1>4 DEF IInv, Attached, AnswerOK, QueuedNotSent, AbandonedOnLoss
<1>12. NewerThanReceived' /\ CacheNewest'
  BY <1>4, Typed DEF IInv, LogOK, NewerThanReceived, CacheNewest
<1> QED BY <1>4, <1>5, <1>6, <1>7, <1>9, <1>10, <1>11, <1>12 DEF IInv

LEMMA BeginIInv ==
    ASSUME IInv, NEW kind \in {"update", "verify", "other"}, Begin(kind)
    PROVE  IInv'
<1>1. client' = [call |-> client.call + 1, kind |-> kind, pc |-> "sending", att |-> slot,
                 answer |-> << >>]
  BY Zenon DEF Begin, NoCall, None
<1>2. client'.call = client.call + 1 /\ client'.pc = "sending" /\ client'.att = slot
      /\ client'.answer = << >>
  BY <1>1
<1>3. client' \in Client
  BY <1>1, NoAnswerYet DEF Client, IInv, TypeOK
<1>4. /\ UNCHANGED <<conns, log, received, cached, slot>> /\ service' = service
      /\ slot \in 1 .. Len(conns)
  BY DEF Begin, Attached, IInv
<1>5. service \in {"none", "starting", "open", "gone"}
  BY DEF IInv, TypeOK
<1> QED BY <1>2, <1>3, <1>4, <1>5, CallBegins

LEMMA CreateIInv == ASSUME IInv, CreateOrResume PROVE IInv'
<1>1. client' = [call |-> client.call + 1, kind |-> "create", pc |-> "connecting", att |-> 0,
                 answer |-> << >>]
  BY Zenon DEF CreateOrResume, NoCall, None
<1>2. client'.call = client.call + 1 /\ client'.pc = "connecting" /\ client'.att = None
      /\ client'.answer = << >>
  BY <1>1 DEF None
<1>3. client' \in Client
  BY <1>1, NoAnswerYet DEF Client, IInv, TypeOK
<1>4. UNCHANGED <<conns, log, received, cached, slot>> /\ service' = "starting"
  BY DEF CreateOrResume
<1> QED BY <1>2, <1>3, <1>4, CallBegins

\* A call ends, with or without an answer.
LEMMA CallEnds ==
    ASSUME IInv, client' = NoCall(client.call), conns' = conns, log' = log,
           service' \in {"none", "starting", "open", "gone"}, slot' \in Nat, cached' \in Nat,
           received' \subseteq 1 .. Len(log), CacheNewest',
           service' = "open" => slot' \in 1 .. Len(conns)
    PROVE  IInv'
<1> USE DEF IInv, TypeOK
<1>1. client.call \in Nat /\ client' \in Client /\ client'.pc = "idle" /\ client'.call = client.call
  BY NoCallIsIdle, Zenon DEF Client
<1>2. TypeOK'
  BY <1>1
<1>3. \A k \in 1 .. Len(conns) : ConnectionOK(k)'
  BY <1>1 DEF ConnectionOK, QueueInOrder
<1>4. LogOK' /\ Attached' /\ AnswerOK'
  BY <1>1 DEF LogOK, Attached, AnswerOK
<1>5. SentHereOnly' /\ NotYetQueued' /\ QueuedNotSent' /\ AbandonedOnLoss' /\ NewerThanReceived'
  BY <1>1 DEF SentHereOnly, NotYetQueued, QueuedNotSent, AbandonedOnLoss, NewerThanReceived
<1> QED BY <1>2, <1>3, <1>4, <1>5

LEMMA FailsIInv == ASSUME IInv, Fails, UNCHANGED <<conns, log>> PROVE IInv'
<1>1. CacheNewest' /\ received' \subseteq 1 .. Len(log) /\ cached' \in Nat
  BY DEF IInv, TypeOK, CacheNewest, Fails
<1>2. service' \in {"none", "starting", "open", "gone"} /\ slot' \in Nat
      /\ (service' = "open" => slot' \in 1 .. Len(conns))
  BY DEF IInv, TypeOK, Attached, Fails, None
<1> QED BY <1>1, <1>2, CallEnds DEF Fails

\* Connection k becomes v without an effect on the call, the server or the wire.  The
\* task may leave the request of the current call behind only if the connection is
\* lost or the request was not sent.
GoesOn(k, v) ==
    /\ v.wire = conns[k].wire /\ v.replies = conns[k].replies
    /\ conns[k].lost => v.lost
    /\ v.task = "busy" => \E c \in Nat : v.req = <<c>>
    /\ v.task # "busy" => v.req = << >>
    /\ \A i \in 1 .. Len(v.chan) : \E j \in 1 .. Len(conns[k].chan) :
           v.chan[i] = conns[k].chan[j] /\ (i < Len(v.chan) => j < Len(conns[k].chan))
    /\ (/\ client.pc = "waiting" /\ client.att = k
        /\ Queued(client.call, k) \/ conns[k].req = <<client.call>>)
       => \/ v.lost \/ ~ WasSent(client.call, k) \/ v.req = <<client.call>>
          \/ \E i \in 1 .. Len(v.chan) : v.chan[i] = client.call

\* The task of a connection, or its loss, keeps the invariant.
LEMMA TaskMoves ==
    ASSUME IInv, NEW k \in 1 .. Len(conns), NEW v \in Connection,
           conns' = [conns EXCEPT ![k] = v],
           UNCHANGED <<client, service, slot, cached, log, received>>, GoesOn(k, v)
    PROVE  IInv'
<1> USE DEF GoesOn
<1>1. /\ conns' \in Seq(Connection) /\ Len(conns') = Len(conns) /\ conns'[k] = v
      /\ \A j \in 1 .. Len(conns) : j # k => conns'[j] = conns[j]
  BY OneConnectionChanges DEF IInv, TypeOK
<1>2. TypeOK'
  BY <1>1 DEF IInv, TypeOK
<1>3. \A c \in Nat, j \in 1 .. Len(conns) : WasSent(c, j)' <=> WasSent(c, j)
  BY <1>1 DEF WasSent
<1>4. \A j \in 1 .. Len(conns) : conns[j].lost => conns'[j].lost
  BY <1>1
<1>5. ASSUME NEW c \in Nat, NEW j \in 1 .. Len(conns), Queued(c, j)' PROVE Queued(c, j)
  <2>1. PICK i \in 1 .. Len(conns'[j].chan) : conns'[j].chan[i] = c
    BY <1>5 DEF Queued
  <2>2. CASE j # k
    BY <1>1, <2>1, <2>2 DEF Queued
  <2>3. CASE j = k
    <3>1. i \in 1 .. Len(v.chan) /\ v.chan[i] = c
      BY <1>1, <2>1, <2>3
    <3>2. PICK m \in 1 .. Len(conns[k].chan) : v.chan[i] = conns[k].chan[m]
      BY <3>1, Zenon
    <3> QED BY <2>3, <3>1, <3>2 DEF Queued
  <2> QED BY <2>2, <2>3
<1>6. ASSUME NEW j \in 1 .. Len(conns) PROVE ConnectionOK(j)'
  <2>1. CASE j # k
    BY <1>1, <2>1 DEF IInv, ConnectionOK, QueueInOrder
  <2>2. CASE j = k
    <3>1. ASSUME NEW i \in 1 .. Len(v.chan)
          PROVE  v.chan[i] <= client.call /\ (i < Len(v.chan) => v.chan[i] < client.call)
      BY DEF IInv, ConnectionOK, QueueInOrder
    <3>2. QueueInOrder(k)'
      BY <1>1, <3>1, Zenon DEF QueueInOrder
    <3> QED BY <1>1, <2>2, <3>2 DEF IInv, ConnectionOK
  <2> QED BY <2>1, <2>2
<1>7. LogOK' /\ Attached'
  BY <1>1 DEF IInv, LogOK, Attached
<1>8. AnswerOK'
  BY <1>4 DEF IInv, AnswerOK, Attached
<1>9. SentHereOnly'
  BY <1>1, <1>3, <1>4, Typed DEF IInv, SentHereOnly
<1>10. NotYetQueued'
  <2> SUFFICES ASSUME client.pc = "sending" PROVE NotYetQueued'
    BY DEF NotYetQueued
  <2>1. client.att \in 1 .. Len(conns) /\ client.call \in Nat
    BY Typed DEF IInv, Attached
  <2>2. ~ WasSent(client.call, client.att)'
    BY <1>3, <2>1 DEF IInv, NotYetQueued
  <2>3. \A i \in 1 .. Len(conns'[client.att].chan) : conns'[client.att].chan[i] < client.call
    <3>1. CASE client.att # k
      BY <1>1, <2>1, <3>1 DEF IInv, NotYetQueued
    <3>2. CASE client.att = k
      <4>1. \A j \in 1 .. Len(conns[k].chan) : conns[k].chan[j] < client.call
        BY <3>2 DEF IInv, NotYetQueued
      <4> QED BY <1>1, <3>2, <4>1
    <3> QED BY <3>1, <3>2, Zenon
  <2> QED BY <2>2, <2>3 DEF NotYetQueued
<1>11. QueuedNotSent' /\ AbandonedOnLoss'
  <2> SUFFICES ASSUME client.pc = "waiting" PROVE QueuedNotSent' /\ AbandonedOnLoss'
    BY DEF QueuedNotSent, AbandonedOnLoss
  <2>1. client.att \in 1 .. Len(conns) /\ client.call \in Nat
    BY Typed DEF IInv, Attached
  <2>2. QueuedNotSent'
    BY <1>3, <1>5, <2>1 DEF IInv, QueuedNotSent
  <2>3. AbandonedOnLoss'
    <3>1. CASE client.att # k
      BY <1>1, <1>3, <2>1, <3>1 DEF IInv, AbandonedOnLoss, Queued
    <3>2. CASE client.att = k
      BY <1>1, <1>3, <2>1, <3>2 DEF IInv, AbandonedOnLoss, Queued
    <3> QED BY <3>1, <3>2, Zenon
  <2> QED BY <2>2, <2>3
<1>12. NewerThanReceived' /\ CacheNewest'
  BY DEF IInv, NewerThanReceived, CacheNewest
<1> QED BY <1>1, <1>2, <1>6, <1>7, <1>8, <1>9, <1>10, <1>11, <1>12 DEF IInv

\* The first request of a queue is taken: what is left, position by position.
LEMMA TailOfQueue ==
    ASSUME NEW q \in Seq(Nat), q # << >>
    PROVE  /\ Head(q) = q[1] /\ Head(q) \in Nat /\ Tail(q) \in Seq(Nat) /\ Len(q) \in Nat \ {0}
           /\ Len(Tail(q)) = Len(q) - 1
           /\ \A i \in 1 .. Len(Tail(q)) : Tail(q)[i] = q[i + 1]
OBVIOUS

\* The request of a call that is gone is taken from the queue and dropped.
LEMMA PassOverIInv ==
    ASSUME IInv, NEW k \in 1 .. Len(conns), TakeRequest(k),
           ResponderClosed(Head(conns[k].chan), k)
    PROVE  IInv'
<1> DEFINE q == conns[k].chan
           v == [conns[k] EXCEPT !.chan = Tail(q)]
<1>1. conns[k] \in Connection
  BY Typed DEF IInv
<1>2. q \in Seq(Nat) /\ q # << >> /\ conns[k].task = "idle"
  BY <1>1 DEF Connection, TakeRequest
<1>3. v \in Connection
  BY <1>1, <1>2, TailOfQueue, Zenon DEF Connection
<1>4. conns' = [conns EXCEPT ![k] = v]
  BY DEF TakeRequest
<1>5. UNCHANGED <<client, service, slot, cached, log, received>>
  BY DEF TakeRequest, OnlyTask
<1>6. /\ v.wire = conns[k].wire /\ v.replies = conns[k].replies /\ v.lost = conns[k].lost
      /\ v.task = conns[k].task /\ v.req = conns[k].req /\ v.chan = Tail(q)
  BY <1>1 DEF Connection
<1>7. v.req = << >>
  BY <1>2, <1>6 DEF IInv, ConnectionOK
<1>8. ASSUME NEW i \in 1 .. Len(v.chan)
      PROVE  \E j \in 1 .. Len(q) : v.chan[i] = q[j] /\ (i < Len(v.chan) => j < Len(q))
  <2>1. i + 1 \in 1 .. Len(q) /\ v.chan[i] = q[i + 1]
    BY <1>2, <1>6, TailOfQueue
  <2>2. i < Len(v.chan) => i + 1 < Len(q)
    BY <1>2, <1>6, TailOfQueue
  <2> QED BY <2>1, <2>2
<1>9. ASSUME client.pc = "waiting", client.att = k, Queued(client.call, k)
      PROVE  \E i \in 1 .. Len(v.chan) : v.chan[i] = client.call
  <2>1. PICK j \in 1 .. Len(q) : q[j] = client.call
    BY <1>9 DEF Queued
  <2>2. j # 1
    BY <1>2, <1>9, <2>1, TailOfQueue DEF ResponderClosed
  <2>3. j - 1 \in 1 .. Len(Tail(q)) /\ Tail(q)[j - 1] = q[j]
    BY <1>2, <2>1, <2>2, TailOfQueue
  <2> QED BY <1>6, <2>1, <2>3
<1>10. conns[k].req # <<client.call>>
  BY <1>6, <1>7
<1>11. GoesOn(k, v)
  <2> HIDE DEF v
  <2> QED BY <1>2, <1>6, <1>7, <1>8, <1>9, <1>10 DEF GoesOn
<1> HIDE DEF v
<1> QED BY <1>3, <1>4, <1>5, <1>11, TaskMoves, Zenon

\* The task leaves the request of a call that is gone, ends, closes or is cut off.
LEMMA CallerGoneIInv == ASSUME IInv, NEW k \in 1 .. Len(conns), CallerGone(k) PROVE IInv'
<1> DEFINE v == [conns[k] EXCEPT !.task = "idle", !.req = << >>]
<1>1. conns[k] \in Connection
  BY Typed DEF IInv
<1>2. v \in Connection
  BY <1>1, NoRequests, Zenon DEF Connection
<1>3. conns' = [conns EXCEPT ![k] = v] /\ UNCHANGED <<client, service, slot, cached, log, received>>
  BY DEF CallerGone, Finished, OnlyTask
<1>4. /\ v.wire = conns[k].wire /\ v.replies = conns[k].replies /\ v.lost = conns[k].lost
      /\ v.task = "idle" /\ v.req = << >> /\ v.chan = conns[k].chan
  BY <1>1 DEF Connection
<1>5. ASSUME client.pc = "waiting", client.att = k PROVE conns[k].req # <<client.call>>
  BY <1>5 DEF CallerGone, ResponderClosed
<1>6. GoesOn(k, v)
  <2> HIDE DEF v
  <2> QED BY <1>4, <1>5 DEF GoesOn, Queued
<1> HIDE DEF v
<1> QED BY <1>2, <1>3, <1>6, TaskMoves, Zenon

LEMMA EndsIInv ==
    ASSUME IInv, NEW k \in 1 .. Len(conns), Disconnected(k) \/ DropIncoming(k)
    PROVE  IInv'
<1> DEFINE v == [conns[k] EXCEPT !.task = "done", !.chan = << >>, !.req = << >>]
<1>1. conns[k] \in Connection
  BY Typed DEF IInv
<1>2. v \in Connection
  BY <1>1, NoRequests, Zenon DEF Connection
<1>3. conns' = [conns EXCEPT ![k] = v] /\ UNCHANGED <<client, service, slot, cached, log, received>>
  BY DEF Disconnected, DropIncoming, Ends, OnlyTask
<1>4. /\ v.wire = conns[k].wire /\ v.replies = conns[k].replies /\ v.lost = conns[k].lost
      /\ v.task = "done" /\ v.req = << >> /\ v.chan = << >>
  BY <1>1 DEF Connection
<1>5. ASSUME client.pc = "waiting", client.att = k,
             Queued(client.call, k) \/ conns[k].req = <<client.call>>
      PROVE  v.lost \/ ~ WasSent(client.call, k)
  <2>1. CASE Disconnected(k)
    BY <1>4, <2>1 DEF Disconnected
  <2>2. CASE DropIncoming(k)
    <3>1. conns[k].req = << >>
      BY <2>2 DEF DropIncoming, IInv, ConnectionOK
    <3> QED BY <1>5, <3>1 DEF IInv, QueuedNotSent
  <2> QED BY <2>1, <2>2
<1>6. GoesOn(k, v)
  <2> HIDE DEF v
  <2> QED BY <1>4, <1>5 DEF GoesOn
<1> HIDE DEF v
<1> QED BY <1>2, <1>3, <1>6, TaskMoves, Zenon

LEMMA ClosingIInv ==
    ASSUME IInv, NEW k \in 1 .. Len(conns), InactivityTimeout(k) \/ SendersGone(k)
    PROVE  IInv'
<1> DEFINE v == [conns[k] EXCEPT !.task = "closing"]
<1>1. conns[k] \in Connection
  BY Typed DEF IInv
<1>2. v \in Connection
  BY <1>1, NoRequests, Zenon DEF Connection
<1>3. conns' = [conns EXCEPT ![k] = v] /\ UNCHANGED <<client, service, slot, cached, log, received>>
  BY DEF InactivityTimeout, SendersGone, OnlyTask
<1>4. /\ v.wire = conns[k].wire /\ v.replies = conns[k].replies /\ v.lost = conns[k].lost
      /\ v.task = "closing" /\ v.req = conns[k].req /\ v.chan = conns[k].chan
  BY <1>1 DEF Connection
<1>5. conns[k].req = << >>
  BY DEF IInv, ConnectionOK, InactivityTimeout, SendersGone
<1>6. GoesOn(k, v)
  <2> HIDE DEF v
  <2> QED BY <1>4, <1>5 DEF GoesOn, Queued
<1> HIDE DEF v
<1> QED BY <1>2, <1>3, <1>6, TaskMoves, Zenon

LEMMA LoseIInv == ASSUME IInv, NEW k \in 1 .. Len(conns), Lose(k) PROVE IInv'
<1> DEFINE v == [conns[k] EXCEPT !.lost = TRUE]
<1>1. conns[k] \in Connection
  BY Typed DEF IInv
<1>2. v \in Connection
  BY <1>1, NoRequests, Zenon DEF Connection
<1>3. conns' = [conns EXCEPT ![k] = v] /\ UNCHANGED <<client, service, slot, cached, log, received>>
  BY DEF Lose
<1>4. /\ v.wire = conns[k].wire /\ v.replies = conns[k].replies /\ v.lost
      /\ v.task = conns[k].task /\ v.req = conns[k].req /\ v.chan = conns[k].chan
  BY <1>1 DEF Connection
<1>5. /\ v.task = "busy" => \E c \in Nat : v.req = <<c>>
      /\ v.task # "busy" => v.req = << >>
  BY <1>4 DEF IInv, ConnectionOK
<1>6. GoesOn(k, v)
  <2> HIDE DEF v
  <2> QED BY <1>4, <1>5 DEF GoesOn
<1> HIDE DEF v
<1> QED BY <1>2, <1>3, <1>6, TaskMoves, Zenon

\* A queue whose head is the one that may only come last has nothing else.
LEMMA OnlyTheLast ==
    ASSUME NEW q \in Seq(Nat), q # << >>, NEW c \in Nat, Head(q) = c,
           \A i \in 1 .. Len(q) : i < Len(q) => q[i] < c
    PROVE  Tail(q) = << >>
<1>1. 1 \in 1 .. Len(q) /\ q[1] = c
  BY TailOfQueue
<1>2. ~ (1 < Len(q))
  BY <1>1
<1> QED BY <1>2, TailOfQueue

\* A request is sent: the queue held the current call's only at its end, so that none
\* is left.
LEMMA StartIInv ==
    ASSUME IInv, NEW k \in 1 .. Len(conns), TakeRequest(k),
           ~ ResponderClosed(Head(conns[k].chan), k)
    PROVE  IInv'
<1> DEFINE q == conns[k].chan
           c == client.call
           v == [conns[k] EXCEPT !.chan = Tail(@), !.task = "busy", !.req = <<Head(q)>>,
                                 !.wire = @ \cup {Head(q)}]
<1>1. conns[k] \in Connection /\ c \in Nat
  BY Typed DEF IInv
<1>2. q \in Seq(Nat) /\ q # << >> /\ conns[k].task = "idle"
  BY <1>1 DEF Connection, TakeRequest
<1>3. Head(q) = c /\ client.pc = "waiting" /\ client.att = k
  BY DEF ResponderClosed
<1>4. Tail(q) = << >>
  <2>1. \A i \in 1 .. Len(q) : i < Len(q) => q[i] < c
    BY DEF IInv, ConnectionOK, QueueInOrder
  <2> HIDE DEF q, c
  <2> QED BY <1>1, <1>2, <1>3, <2>1, OnlyTheLast, Zenon
<1>5. v \in Connection
  <2>1. <<Head(q)>> \in Seq(Nat) /\ Tail(q) \in Seq(Nat) /\ Head(q) \in Nat
    BY <1>2, TailOfQueue
  <2> QED BY <1>1, <2>1, Zenon DEF Connection
<1>6. conns' = [conns EXCEPT ![k] = v]
  BY DEF TakeRequest
<1>7. UNCHANGED <<client, service, slot, cached, log, received>>
  BY DEF TakeRequest, OnlyTask
<1>8. /\ v.wire = conns[k].wire \cup {c} /\ v.replies = conns[k].replies /\ v.lost = conns[k].lost
      /\ v.task = "busy" /\ v.req = <<c>> /\ v.chan = << >>
  BY <1>1, <1>3, <1>4, Zenon DEF Connection
<1> HIDE DEF v
<1>9. /\ conns' \in Seq(Connection) /\ Len(conns') = Len(conns) /\ conns'[k] = v
      /\ \A j \in 1 .. Len(conns) : j # k => conns'[j] = conns[j]
  BY <1>5, <1>6, OneConnectionChanges DEF IInv, TypeOK
<1>10. TypeOK'
  BY <1>7, <1>9 DEF IInv, TypeOK
<1>11. ASSUME NEW j \in 1 .. Len(conns) PROVE ConnectionOK(j)'
  <2>1. CASE j # k
    BY <1>7, <1>9, <2>1, Zenon DEF IInv, ConnectionOK, QueueInOrder
  <2>2. CASE j = k
    BY <1>1, <1>7, <1>8, <1>9, <2>2 DEF IInv, ConnectionOK, QueueInOrder
  <2> QED BY <2>1, <2>2
<1>12. LogOK' /\ Attached'
  BY <1>7, <1>9 DEF IInv, LogOK, Attached
<1>13. AnswerOK'
  BY <1>3, <1>7, <1>8, <1>9 DEF IInv, AnswerOK
<1>14. SentHereOnly'
  <2> SUFFICES ASSUME NEW j \in 1 .. Len(conns), j # k, WasSent(c, j)' PROVE conns'[j].lost
    BY <1>3, <1>7, <1>9 DEF SentHereOnly
  <2>1. WasSent(c, j)
    BY <1>7, <1>9 DEF WasSent
  <2> QED BY <1>3, <1>9, <2>1 DEF IInv, SentHereOnly
<1>15. NotYetQueued' /\ QueuedNotSent' /\ AbandonedOnLoss'
  <2>1. ~ Queued(c, k)'
    BY <1>8, <1>9 DEF Queued
  <2>2. conns'[k].req = <<c>>
    BY <1>8, <1>9
  <2> QED BY <1>3, <1>7, <2>1, <2>2 DEF NotYetQueued, QueuedNotSent, AbandonedOnLoss
<1>16. NewerThanReceived' /\ CacheNewest'
  BY <1>7 DEF IInv, NewerThanReceived, CacheNewest
<1> QED BY <1>9, <1>10, <1>11, <1>12, <1>13, <1>14, <1>15, <1>16 DEF IInv

\* The task answers the call that waits for it.
LEMMA RespondIInv ==
    ASSUME IInv, NEW k \in 1 .. Len(conns),
           NEW result \in {"reply", "timeout", "disconnected", "unknown"}, NEW i \in Nat,
           Respond(k, result, i), UNCHANGED <<service, slot, cached, log, received>>,
           result # "reply" => i = 0,
           result = "disconnected" => conns[k].lost,
           result = "reply" => i \in 1 .. Len(log) /\ conns[k].req = <<log[i].call>>
    PROVE  IInv'
<1> DEFINE v == [conns[k] EXCEPT !.task = "idle", !.req = << >>]
<1>1. conns[k] \in Connection
  BY Typed DEF IInv
<1>2. v \in Connection
  BY <1>1, NoRequests, Zenon DEF Connection
<1>3. conns' = [conns EXCEPT ![k] = v]
  BY DEF Respond, Finished
<1>4. /\ v.wire = conns[k].wire /\ v.replies = conns[k].replies /\ v.lost = conns[k].lost
      /\ v.task = "idle" /\ v.req = << >> /\ v.chan = conns[k].chan
  BY <1>1 DEF Connection
<1> HIDE DEF v
<1>5. /\ conns' \in Seq(Connection) /\ Len(conns') = Len(conns) /\ conns'[k] = v
      /\ \A j \in 1 .. Len(conns) : j # k => conns'[j] = conns[j]
  BY <1>2, <1>3, OneConnectionChanges DEF IInv, TypeOK
<1>6. client.pc = "waiting" /\ client.att = k /\ client.call = conns[k].req[1]
  BY DEF Respond, ResponderClosed
<1>7. /\ client' \in Client /\ client'.call = client.call /\ client'.pc = "waiting"
      /\ client'.att = k /\ client'.answer = <<result, i>>
  <2>1. <<result, i>> \in Answers
    BY DEF Answers
  <2> QED BY <1>6, <2>1, Zenon DEF Respond, IInv, TypeOK, Client
<1>8. TypeOK'
  BY <1>5, <1>7 DEF IInv, TypeOK
<1>9. \A j \in 1 .. Len(conns) : /\ conns'[j].wire = conns[j].wire /\ conns'[j].chan = conns[j].chan
                                /\ conns'[j].lost = conns[j].lost /\ conns'[j].replies = conns[j].replies
  BY <1>4, <1>5
<1>10. ASSUME NEW j \in 1 .. Len(conns) PROVE ConnectionOK(j)'
  <2>1. QueueInOrder(j)'
    BY <1>7, <1>9 DEF IInv, ConnectionOK, QueueInOrder
  <2>2. /\ conns'[j].task = "busy" => \E c \in Nat : conns'[j].req = <<c>>
        /\ conns'[j].task # "busy" => conns'[j].req = << >>
    BY <1>4, <1>5, Zenon DEF IInv, ConnectionOK
  <2> QED BY <1>7, <1>9, <2>1, <2>2, Zenon DEF IInv, ConnectionOK
<1>11. LogOK' /\ Attached'
  BY <1>5, <1>7 DEF IInv, LogOK, Attached
<1>12. AnswerOK'
  <2>1. CASE result = "reply"
    <3>1. i \in 1 .. Len(log) /\ log[i].call = client.call
      BY <1>6, <2>1
    <3> QED BY <1>7, <2>1, <3>1 DEF AnswerOK
  <2>2. CASE result = "disconnected"
    BY <1>6, <1>7, <1>9, <2>2 DEF AnswerOK
  <2>3. CASE result \in {"timeout", "unknown"}
    BY <1>7, <2>3 DEF AnswerOK
  <2> QED BY <2>1, <2>2, <2>3
<1>13. \A c \in Nat, j \in 1 .. Len(conns) : (WasSent(c, j)' <=> WasSent(c, j)) /\ (Queued(c, j)' <=> Queued(c, j))
  BY <1>9, Zenon DEF WasSent, Queued
<1>14. SentHereOnly' /\ QueuedNotSent'
  BY <1>5, <1>6, <1>7, <1>9, <1>13, Typed DEF IInv, SentHereOnly, QueuedNotSent
<1>15. NotYetQueued' /\ AbandonedOnLoss'
  BY <1>7 DEF NotYetQueued, AbandonedOnLoss
<1>16. NewerThanReceived' /\ CacheNewest'
  BY <1>6, <1>7 DEF IInv, NewerThanReceived, CacheNewest
<1> QED BY <1>5, <1>8, <1>10, <1>11, <1>12, <1>14, <1>15, <1>16 DEF IInv

\* A call queues its request on the connection it has.
LEMMA EnqueueIInv == ASSUME IInv, Enqueue PROVE IInv'
<1> DEFINE k == client.att
           c == client.call
           v == [conns[k] EXCEPT !.chan = Append(@, c)]
<1>1. k \in 1 .. Len(conns) /\ c \in Nat /\ client.pc = "sending"
  BY Typed DEF IInv, Attached, Enqueue
<1>2. conns[k] \in Connection
  BY <1>1, Typed DEF IInv
<1>3. conns[k].chan \in Seq(Nat)
  BY <1>2 DEF Connection
<1>4. /\ Append(conns[k].chan, c) \in Seq(Nat)
      /\ Len(Append(conns[k].chan, c)) = Len(conns[k].chan) + 1
      /\ Append(conns[k].chan, c)[Len(conns[k].chan) + 1] = c
      /\ \A i \in 1 .. Len(conns[k].chan) : Append(conns[k].chan, c)[i] = conns[k].chan[i]
  BY <1>1, <1>3
<1>5. v \in Connection
  BY <1>2, <1>4, Zenon DEF Connection
<1>6. conns' = [conns EXCEPT ![k] = v] /\ UNCHANGED <<service, slot, cached, log, received>>
  BY DEF Enqueue
<1>7. /\ v.wire = conns[k].wire /\ v.replies = conns[k].replies /\ v.lost = conns[k].lost
      /\ v.task = conns[k].task /\ v.req = conns[k].req /\ v.chan = Append(conns[k].chan, c)
  BY <1>2, Zenon DEF Connection
<1>8. /\ client' \in Client /\ client'.call = c /\ client'.pc = "waiting" /\ client'.att = k
      /\ client'.answer = client.answer
  BY Zenon DEF Enqueue, IInv, TypeOK, Client
<1> HIDE DEF v
<1>9. /\ conns' \in Seq(Connection) /\ Len(conns') = Len(conns) /\ conns'[k] = v
      /\ \A j \in 1 .. Len(conns) : j # k => conns'[j] = conns[j]
  BY <1>1, <1>5, <1>6, OneConnectionChanges DEF IInv, TypeOK
<1>10. TypeOK'
  BY <1>6, <1>8, <1>9 DEF IInv, TypeOK
<1>11. ~ WasSent(c, k) /\ \A i \in 1 .. Len(conns[k].chan) : conns[k].chan[i] < c
  BY <1>1 DEF IInv, NotYetQueued
<1>12. ASSUME NEW j \in 1 .. Len(conns) PROVE ConnectionOK(j)'
  <2>0. ConnectionOK(j)
    BY DEF IInv
  <2>1. CASE j # k
    BY <1>6, <1>8, <1>9, <2>0, <2>1, Zenon DEF ConnectionOK, QueueInOrder
  <2>2. CASE j = k
    <3>1. ASSUME NEW i \in 1 .. Len(v.chan)
          PROVE  v.chan[i] <= c /\ (i < Len(v.chan) => v.chan[i] < c)
      <4>1. CASE i = Len(conns[k].chan) + 1
        BY <1>1, <1>4, <1>7, <4>1
      <4>2. CASE i # Len(conns[k].chan) + 1
        <5>1. i \in 1 .. Len(conns[k].chan) /\ v.chan[i] = conns[k].chan[i]
          BY <1>3, <1>4, <1>7, <4>2
        <5>2. conns[k].chan[i] < c /\ conns[k].chan[i] \in Nat
          BY <1>3, <1>11, <5>1
        <5> QED BY <1>1, <5>1, <5>2
      <4> QED BY <4>1, <4>2
    <3>2. QueueInOrder(k)'
      BY <1>8, <1>9, <3>1 DEF QueueInOrder
    <3> QED BY <1>6, <1>7, <1>8, <1>9, <2>2, <3>2 DEF IInv, ConnectionOK
  <2> QED BY <2>1, <2>2
<1>13. LogOK' /\ Attached'
  BY <1>1, <1>6, <1>8, <1>9 DEF IInv, LogOK, Attached
<1>14. client.answer = << >>
  BY <1>1 DEF IInv, AnswerOK
<1>15. AnswerOK'
  BY <1>8, <1>14 DEF AnswerOK
<1>16. \A j \in 1 .. Len(conns) : /\ WasSent(c, j)' <=> WasSent(c, j)
                                 /\ conns'[j].lost = conns[j].lost
  <2>1. \A j \in 1 .. Len(conns) : conns'[j].wire = conns[j].wire /\ conns'[j].lost = conns[j].lost
    BY <1>7, <1>9
  <2> QED BY <1>6, <1>8, <2>1 DEF WasSent
<1>17. SentHereOnly'
  BY <1>1, <1>8, <1>9, <1>16 DEF IInv, SentHereOnly
<1>18. NotYetQueued' /\ QueuedNotSent' /\ AbandonedOnLoss'
  BY <1>1, <1>8, <1>11, <1>16 DEF NotYetQueued, QueuedNotSent, AbandonedOnLoss
<1>19. NewerThanReceived' /\ CacheNewest'
  BY <1>1, <1>6, <1>8 DEF IInv, NewerThanReceived, CacheNewest
<1> QED BY <1>9, <1>10, <1>12, <1>13, <1>15, <1>17, <1>18, <1>19 DEF IInv

\* A call that has no connection gets a new one, on which nothing was sent.
LEMMA ConnectedIInv == ASSUME IInv, Connected PROVE IInv'
<1> DEFINE v == NewConn(client.call)
<1>0. client.call \in Nat /\ Len(conns) \in Nat /\ client.pc = "connecting"
  BY Typed DEF IInv, Connected
<1>n. PICK n \in Nat : n = Len(conns) + 1
  BY <1>0
<1>1. client.call \in Nat /\ Len(conns) \in Nat /\ client.pc = "connecting" /\ n = Len(conns) + 1
  BY <1>0, <1>n
<1>2. v \in Connection
  BY <1>1, NoRequests DEF NewConn, Connection
<1>3. /\ v.wire = {} /\ v.replies = {} /\ v.task = "idle" /\ v.req = << >> /\ v.chan = << >>
  BY DEF NewConn
<1>4. conns' = Append(conns, v) /\ UNCHANGED <<service, cached, log, received>>
  BY DEF Connected
<1> HIDE DEF v
<1>5. /\ conns' \in Seq(Connection) /\ Len(conns') = n /\ conns'[n] = v
      /\ \A j \in 1 .. Len(conns) : conns'[j] = conns[j]
  BY <1>1, <1>2, <1>4, OneConnectionMore DEF IInv, TypeOK
<1>6. /\ client' \in Client /\ client'.call = client.call /\ client'.pc = "sending"
      /\ client'.att = n /\ client'.answer = client.answer
  <2>1. client \in Client /\ client' = [client EXCEPT !.pc = "sending", !.att = n]
    BY <1>1, <1>5 DEF Connected, IInv, TypeOK
  <2> QED BY <2>1, Zenon DEF Client
<1>7. slot' \in Nat /\ (slot \in 1 .. Len(conns) => slot' \in 1 .. n)
  BY <1>1, <1>5 DEF Connected, IInv, TypeOK, None
<1>8. TypeOK'
  BY <1>4, <1>5, <1>6, <1>7 DEF IInv, TypeOK
<1>9. \A j \in 1 .. n : j \in 1 .. Len(conns) \/ j = n
  BY <1>1
<1>10. ASSUME NEW j \in 1 .. n PROVE ConnectionOK(j)'
  <2>1. CASE j \in 1 .. Len(conns)
    BY <1>4, <1>5, <1>6, <2>1 DEF IInv, ConnectionOK, QueueInOrder
  <2>2. CASE j = n
    BY <1>3, <1>5, <2>2 DEF ConnectionOK, QueueInOrder
  <2> QED BY <1>9, <2>1, <2>2
<1>11. \A i \in 1 .. Len(log) : log[i].conn # n
  BY <1>1 DEF IInv, LogOK
<1>12. LogOK'
  BY <1>1, <1>4, <1>5, <1>6 DEF IInv, LogOK
<1>13. Attached'
  BY <1>1, <1>4, <1>5, <1>6, <1>7 DEF IInv, Attached
<1>14. AnswerOK'
  BY <1>1, <1>6 DEF IInv, AnswerOK
<1>15. ~ WasSent(client.call, n)'
  BY <1>3, <1>4, <1>5, <1>6, <1>11 DEF WasSent
<1>16. \A j \in 1 .. Len(conns) : WasSent(client.call, j)' <=> WasSent(client.call, j)
  BY <1>4, <1>5, <1>6 DEF WasSent
<1>17. SentHereOnly'
  <2> SUFFICES ASSUME NEW j \in 1 .. Len(conns), WasSent(client.call, j)'
               PROVE  conns'[j].lost
    BY <1>5, <1>6, <1>9 DEF SentHereOnly
  <2>1. client.att = 0
    BY <1>1 DEF IInv, Attached, None
  <2>2. j # client.att
    BY <2>1
  <2> QED BY <1>1, <1>5, <1>16, <2>2 DEF IInv, SentHereOnly
<1>18. NotYetQueued'
  BY <1>3, <1>5, <1>6, <1>15 DEF NotYetQueued
<1>19. QueuedNotSent' /\ AbandonedOnLoss'
  BY <1>6 DEF QueuedNotSent, AbandonedOnLoss
<1>20. NewerThanReceived' /\ CacheNewest'
  BY <1>1, <1>4, <1>6 DEF IInv, NewerThanReceived, CacheNewest
<1> QED BY <1>5, <1>8, <1>10, <1>12, <1>13, <1>14, <1>17, <1>18, <1>19, <1>20 DEF IInv

\* A request whose connection is lost is sent again; if it reached the wire the
\* connection is really lost, and not merely closed.
LEMMA ConnectionLostIInv == ASSUME IInv, ConnectionLost PROVE IInv'
<1> DEFINE k == client.att
<1>1. client.pc \in {"sending", "waiting"} /\ k \in 1 .. Len(conns) /\ client.call \in Nat
  BY Typed DEF IInv, ConnectionLost, Attached
<1>2. UNCHANGED <<service, slot, cached, conns, log, received>>
  BY DEF ConnectionLost
<1>3. /\ client' \in Client /\ client'.call = client.call /\ client'.pc = "connecting"
      /\ client'.att = None /\ client'.answer = << >>
  BY NoAnswerYet, Zenon DEF ConnectionLost, Retry, IInv, TypeOK, Client, None
<1>4. WasSent(client.call, k) => conns[k].lost
  <2>1. CASE client.pc = "sending"
    BY <2>1 DEF IInv, NotYetQueued
  <2>2. CASE client.pc = "waiting" /\ client.answer = << >>
    <3>1. client.call \notin Range(conns[k].chan) \cup Range(conns[k].req)
      BY <2>2 DEF ConnectionLost
    <3>2. ~ Queued(client.call, k)
      <4>1. conns[k].chan \in Seq(Nat)
        BY <1>1, Typed DEF IInv, Connection
      <4> QED BY <3>1, <4>1 DEF Queued, Range
    <3>3. conns[k].req # <<client.call>>
      BY <3>1 DEF Range
    <3> QED BY <2>2, <3>2, <3>3 DEF IInv, AbandonedOnLoss
  <2>3. CASE client.pc = "waiting" /\ client.answer = <<"disconnected", 0>>
    BY <2>3 DEF IInv, AnswerOK
  <2> QED BY <2>1, <2>2, <2>3 DEF ConnectionLost
<1>5. TypeOK'
  BY <1>2, <1>3 DEF IInv, TypeOK
<1>6. ASSUME NEW j \in 1 .. Len(conns) PROVE ConnectionOK(j)'
  BY <1>2, <1>3 DEF IInv, ConnectionOK, QueueInOrder
<1>7. LogOK' /\ Attached' /\ AnswerOK'
  BY <1>2, <1>3 DEF IInv, LogOK, Attached, AnswerOK
<1>8. SentHereOnly'
  BY <1>1, <1>2, <1>3, <1>4 DEF IInv, SentHereOnly, WasSent
<1>9. NotYetQueued' /\ QueuedNotSent' /\ AbandonedOnLoss'
  BY <1>3 DEF NotYetQueued, QueuedNotSent, AbandonedOnLoss
<1>10. NewerThanReceived' /\ CacheNewest'
  BY <1>1, <1>2, <1>3 DEF IInv, NewerThanReceived, CacheNewest
<1> QED BY <1>2, <1>5, <1>6, <1>7, <1>8, <1>9, <1>10, Zenon DEF IInv

\* The server executes what is on the wire: it was sent before and after.
LEMMA ExecuteIInv == ASSUME IInv, NEW k \in 1 .. Len(conns), Execute(k) PROVE IInv'
<1>0. TypeOK
  BY DEF IInv
<1>1. conns[k] \in Connection /\ client.call \in Nat /\ Len(log) \in Nat
  BY <1>0, Typed
<1>2. PICK c \in conns[k].wire :
          /\ log' = Append(log, [call |-> c, conn |-> k])
          /\ conns' = [conns EXCEPT ![k] =
                          [conns[k] EXCEPT
                             !.wire = @ \ {c},
                             !.replies = IF conns[k].lost THEN @ ELSE @ \cup {Len(log')}]]
  BY Zenon DEF Execute
<1>3. UNCHANGED <<service, client, slot, cached, received>>
  BY DEF Execute
<1> DEFINE v == [conns[k] EXCEPT !.wire = @ \ {c},
                                 !.replies = IF conns[k].lost THEN @ ELSE @ \cup {Len(log')}]
<1>4. c \in Nat /\ c <= client.call
  BY <1>1, Typed DEF IInv, ConnectionOK
<1>5. /\ log' \in Seq(Execution) /\ Len(log') = Len(log) + 1
      /\ log'[Len(log) + 1] = [call |-> c, conn |-> k]
      /\ \A i \in 1 .. Len(log) : log'[i] = log[i]
  <2>1. [call |-> c, conn |-> k] \in Execution
    BY <1>4 DEF Execution
  <2> QED BY <1>2, <2>1 DEF IInv, TypeOK
<1>6. v \in Connection
  <2>1. Len(log') \in Nat
    BY <1>1, <1>5
  <2>2. CASE conns[k].lost
    <3>1. v = [conns[k] EXCEPT !.wire = @ \ {c}]
      BY <1>1, <2>2, Zenon DEF Connection
    <3> QED BY <1>1, <3>1, Zenon DEF Connection
  <2>3. CASE ~ conns[k].lost
    <3>1. v = [conns[k] EXCEPT !.wire = @ \ {c}, !.replies = @ \cup {Len(log')}]
      BY <1>1, <2>3 DEF Connection
    <3> HIDE DEF v
    <3> QED BY <1>1, <2>1, <3>1, Zenon DEF Connection
  <2> QED BY <2>2, <2>3, Zenon
<1>7. /\ v.wire = conns[k].wire \ {c} /\ v.lost = conns[k].lost /\ v.task = conns[k].task
      /\ v.req = conns[k].req /\ v.chan = conns[k].chan
      /\ v.replies \subseteq conns[k].replies \cup {Len(log')}
  BY <1>1 DEF Connection
<1>8. conns' = [conns EXCEPT ![k] = v]
  BY <1>2
<1> HIDE DEF v
<1>9. /\ conns' \in Seq(Connection) /\ Len(conns') = Len(conns) /\ conns'[k] = v
      /\ \A j \in 1 .. Len(conns) : j # k => conns'[j] = conns[j]
  BY <1>6, <1>8, OneConnectionChanges DEF IInv, TypeOK
<1>10. TypeOK'
  <2>1. received \subseteq 1 .. Len(log')
    BY <1>1, <1>5 DEF IInv, TypeOK
  <2> QED BY <1>3, <1>5, <1>9, <2>1 DEF IInv, TypeOK
<1>11. \A j \in 1 .. Len(conns) :
           /\ conns'[j].task = conns[j].task /\ conns'[j].req = conns[j].req
           /\ conns'[j].chan = conns[j].chan /\ conns'[j].lost = conns[j].lost
           /\ conns'[j].wire \subseteq conns[j].wire
           /\ conns'[j].replies \subseteq conns[j].replies \cup {Len(log')}
  BY <1>7, <1>9
<1>12. ASSUME NEW j \in 1 .. Len(conns) PROVE ConnectionOK(j)'
  <2>1. ConnectionOK(j)
    BY DEF IInv
  <2>2. QueueInOrder(j)'
    BY <1>3, <1>11, <2>1, Zenon DEF ConnectionOK, QueueInOrder
  <2>a. \A i \in conns[j].replies : i \in 1 .. Len(log)
    BY <2>1 DEF ConnectionOK
  <2>b. 1 .. Len(log) \subseteq 1 .. Len(log') /\ Len(log') \in 1 .. Len(log')
    BY <1>1, <1>5
  <2>3. \A i \in conns'[j].replies : i \in 1 .. Len(log')
    BY <1>11, <2>a, <2>b, Zenon
  <2> QED BY <1>3, <1>11, <2>1, <2>2, <2>3 DEF ConnectionOK
<1>13. \A i \in 1 .. Len(log') : i \in 1 .. Len(log) \/ i = Len(log) + 1
  BY <1>1, <1>5
<1>14. LogOK'
  BY <1>3, <1>4, <1>5, <1>9, <1>13 DEF IInv, LogOK
<1>15. Attached' /\ AnswerOK'
  <2>1. Attached'
    BY <1>3, <1>9, Zenon DEF IInv, Attached
  <2>2. \A i \in 1 .. Len(log) : i \in 1 .. Len(log') /\ log'[i] = log[i]
    BY <1>1, <1>5
  <2>3. AnswerOK'
    <3>1. AnswerOK /\ Attached
      BY DEF IInv
    <3> QED BY <1>3, <1>11, <2>2, <3>1, Zenon DEF AnswerOK, Attached
  <2> QED BY <2>1, <2>3
<1>16. ASSUME NEW d \in Nat, NEW j \in 1 .. Len(conns) PROVE WasSent(d, j)' => WasSent(d, j)
  <2> SUFFICES ASSUME WasSent(d, j)' PROVE WasSent(d, j)
    OBVIOUS
  <2>1. CASE d \in conns'[j].wire
    BY <1>11, <2>1 DEF WasSent
  <2>2. CASE \E i \in 1 .. Len(log') : log'[i] = [call |-> d, conn |-> j]
    <3>1. PICK i \in 1 .. Len(log') : log'[i] = [call |-> d, conn |-> j]
      BY <2>2
    <3>2. CASE i \in 1 .. Len(log)
      BY <1>5, <3>1, <3>2, Zenon DEF WasSent
    <3>3. CASE i = Len(log) + 1
      <4>1. [call |-> d, conn |-> j] = [call |-> c, conn |-> k]
        BY <1>5, <3>1, <3>3
      <4>2. d = c /\ j = k
        BY <4>1
      <4> QED BY <4>2 DEF WasSent
    <3> QED BY <1>13, <3>2, <3>3
  <2> QED BY <2>1, <2>2 DEF WasSent
<1>17. \A d \in Nat, j \in 1 .. Len(conns) : Queued(d, j)' <=> Queued(d, j)
  BY <1>11 DEF Queued
<1>18. SentHereOnly'
  BY <1>1, <1>3, <1>9, <1>11, <1>16 DEF IInv, SentHereOnly
<1>19. NotYetQueued' /\ QueuedNotSent' /\ AbandonedOnLoss'
  <2> SUFFICES ASSUME client.pc \in {"sending", "waiting"}
               PROVE  NotYetQueued' /\ QueuedNotSent' /\ AbandonedOnLoss'
    BY <1>3 DEF NotYetQueued, QueuedNotSent, AbandonedOnLoss
  <2>1. client.att \in 1 .. Len(conns)
    BY DEF IInv, Attached
  <2>2. NotYetQueued /\ QueuedNotSent /\ AbandonedOnLoss
    BY DEF IInv
  <2>3. WasSent(client.call, client.att)' => WasSent(client.call, client.att)
    BY <1>1, <1>3, <1>16, <2>1
  <2>4. Queued(client.call, client.att)' <=> Queued(client.call, client.att)
    BY <1>1, <1>3, <1>17, <2>1
  <2>5. NotYetQueued'
    BY <1>3, <1>11, <2>1, <2>2, <2>3, Zenon DEF NotYetQueued
  <2>6. QueuedNotSent'
    BY <1>3, <2>2, <2>3, <2>4 DEF QueuedNotSent
  <2>7. AbandonedOnLoss'
    BY <1>3, <1>11, <2>1, <2>2, <2>3, <2>4 DEF AbandonedOnLoss
  <2> QED BY <2>5, <2>6, <2>7
<1>20. NewerThanReceived' /\ CacheNewest'
  <2>1. \A r \in received : r < Len(log) + 1
    BY <1>1 DEF IInv, TypeOK
  <2>2. NewerThanReceived /\ CacheNewest
    BY DEF IInv
  <2>3. NewerThanReceived'
    BY <1>3, <1>5, <1>13, <2>1, <2>2 DEF NewerThanReceived
  <2> QED BY <1>3, <2>2, <2>3 DEF CacheNewest
<1> QED BY <1>9, <1>10, <1>12, <1>14, <1>15, <1>18, <1>19, <1>20 DEF IInv

\* The session is taken from every answer that tells it.
LEMMA AnsweredIInv ==
    ASSUME IInv, NEW status \in {"ok", "failWithSession", "fail"}, Answered(status)
    PROVE  IInv'
<1>1. PICK i \in 1 .. Len(log) : client.answer = <<"reply", i>> /\ log[i].call = client.call
  BY DEF Answered, IInv, AnswerOK
<1>2. client.pc = "waiting" /\ client.att \in 1 .. Len(conns) /\ client.answer[2] = i
  BY <1>1 DEF Answered, IInv, Attached
<1>3. i \in Nat /\ \A r \in received : r < i
  BY <1>1, <1>2 DEF IInv, NewerThanReceived
<1>4. CarriesSession(client.kind, status) <=> TellsSession(client.kind, status)
  BY DEF Answered, CarriesSession, TellsSession
<1>5. CacheNewest' /\ cached' \in Nat /\ received' \subseteq 1 .. Len(log)
  <2>1. CASE TellsSession(client.kind, status)
    <3>1. cached' = i /\ received' = received \cup {i}
      BY <1>2, <1>4, <2>1 DEF Answered
    <3> QED BY <1>3, <3>1 DEF CacheNewest, IInv, TypeOK
  <2>2. CASE ~ TellsSession(client.kind, status)
    <3>1. cached' = cached /\ received' = received
      BY <1>4, <2>2 DEF Answered
    <3> QED BY <3>1 DEF CacheNewest, IInv, TypeOK
  <2> QED BY <2>1, <2>2
<1>6. service' \in {"none", "starting", "open", "gone"} /\ slot' \in Nat
      /\ (service' = "open" => slot' \in 1 .. Len(conns))
  BY <1>2 DEF Answered, None
<1>7. client' = NoCall(client.call) /\ conns' = conns /\ log' = log
  BY DEF Answered
<1> QED BY <1>5, <1>6, <1>7, CallEnds, Zenon

\* The answer of the server, or of a send that failed.
LEMMA AnswerIInv == ASSUME IInv, NEW k \in 1 .. Len(conns), Answer(k) PROVE IInv'
<1>1. PICK i \in conns[k].replies : conns[k].req = <<log[i].call>> /\ Respond(k, "reply", i)
  BY DEF Answer
<1>2. i \in Nat /\ i \in 1 .. Len(log)
  BY DEF IInv, ConnectionOK
<1>3. UNCHANGED <<service, slot, cached, log, received>>
  BY DEF Answer, OnlyTask
<1> QED BY <1>1, <1>2, <1>3, RespondIInv

LEMMA SendFailsIInv ==
    ASSUME IInv, NEW k \in 1 .. Len(conns), NEW error \in {"timeout", "disconnected", "unknown"},
           SendFails(k, error)
    PROVE  IInv'
<1>1. Respond(k, error, 0) /\ UNCHANGED <<service, slot, cached, log, received>>
      /\ (error = "disconnected" => conns[k].lost)
  BY DEF SendFails
<1> QED BY <1>1, RespondIInv

\* Of what the invariant speaks of, only the service changes, or nothing.
LEMMA ServiceIInv ==
    ASSUME IInv, UNCHANGED <<client, cached, conns, log, received>>,
           service' \in {"none", "starting", "open", "gone"}, slot' \in Nat,
           service' = "open" => slot' \in 1 .. Len(conns)
    PROVE  IInv'
<1>1. TypeOK'
  BY DEF IInv, TypeOK
<1>2. LogOK' /\ Attached' /\ AnswerOK'
  <2>1. LogOK /\ Attached /\ AnswerOK
    BY DEF IInv
  <2> QED BY <2>1 DEF LogOK, Attached, AnswerOK
<1>3. CacheNewest' /\ NewerThanReceived'
  BY DEF IInv, CacheNewest, NewerThanReceived
<1>4. \A k \in 1 .. Len(conns) : ConnectionOK(k)'
  <2>1. \A k \in 1 .. Len(conns) : ConnectionOK(k)
    BY DEF IInv
  <2> QED BY <2>1, Zenon DEF ConnectionOK, QueueInOrder
<1>5. SentHereOnly' /\ NotYetQueued'
  <2>1. SentHereOnly /\ NotYetQueued
    BY DEF IInv
  <2> QED BY <2>1 DEF SentHereOnly, NotYetQueued, WasSent
<1>6. QueuedNotSent' /\ AbandonedOnLoss'
  <2>1. QueuedNotSent /\ AbandonedOnLoss
    BY DEF IInv
  <2> QED BY <2>1 DEF QueuedNotSent, AbandonedOnLoss, WasSent, Queued
<1> QED BY <1>1, <1>2, <1>3, <1>4, <1>5, <1>6 DEF IInv

LEMMA UnchangedIInv ==
    ASSUME IInv, UNCHANGED <<service, client, slot, cached, conns, log, received>>
    PROVE  IInv'
<1>1. service \in {"none", "starting", "open", "gone"} /\ slot \in Nat
      /\ (service = "open" => slot \in 1 .. Len(conns))
  BY DEF IInv, TypeOK, Attached
<1> QED BY <1>1, ServiceIInv

LEMMA CallerIInv == ASSUME IInv, Caller PROVE IInv'
<1>1. CASE GivesUp
  BY <1>1, FailsIInv DEF GivesUp
<1>2. CASE \E status \in {"ok", "failWithSession", "fail"} : Answered(status)
  BY <1>2, AnsweredIInv
<1> QED BY <1>1, <1>2, EnqueueIInv, ConnectionLostIInv DEF Caller

LEMMA TaskIInv == ASSUME IInv, NEW k \in 1 .. Len(conns), Task(k) PROVE IInv'
<1>1. CASE TakeRequest(k)
  BY <1>1, PassOverIInv, StartIInv
<1>2. CASE CallerGone(k) \/ Answer(k)
  BY <1>2, CallerGoneIInv, AnswerIInv
<1>3. CASE Disconnected(k) \/ DropIncoming(k)
  BY <1>3, EndsIInv
<1>4. CASE InactivityTimeout(k) \/ SendersGone(k)
  BY <1>4, ClosingIInv
<1>5. CASE \E error \in {"timeout", "disconnected", "unknown"} : SendFails(k, error)
  BY <1>5, SendFailsIInv
<1> QED BY <1>1, <1>2, <1>3, <1>4, <1>5 DEF Task

LEMMA NextIInv == ASSUME IInv, [Next]_vars PROVE IInv'
<1>1. CASE \E kind \in {"update", "verify", "other"} : Begin(kind)
  BY <1>1, BeginIInv
<1>2. CASE CreateOrResume \/ DropCall \/ ConnectFatal
  BY <1>2, CreateIInv, FailsIInv DEF DropCall, ConnectFatal
<1>3. CASE DropService
  <2>1. UNCHANGED <<client, cached, conns, log, received>> /\ service' = "gone" /\ slot' = None
    BY <1>3 DEF DropService
  <2> QED BY <2>1, ServiceIInv DEF None
<1>4. CASE Connected \/ Caller
  BY <1>4, ConnectedIInv, CallerIInv
<1>5. CASE \E k \in Conns : Task(k) \/ Lose(k) \/ Execute(k)
  <2>1. Conns = 1 .. Len(conns)
    BY DEF Conns, IInv, TypeOK
  <2> QED BY <1>5, <2>1, TaskIInv, LoseIInv, ExecuteIInv
<1>6. CASE ConnectFails \/ UNCHANGED vars
  BY <1>6, UnchangedIInv DEF ConnectFails, vars
<1> QED BY <1>1, <1>2, <1>3, <1>4, <1>5, <1>6 DEF Next, ConnectEnds

-----------------------------------------------------------------------------

\* A request is executed again only because the connection that carried it is gone
\* (send_request's retry), for any number of calls, connections and failures.
THEOREM RepeatsAreAfterLoss == Spec => []RepeatsOnlyAfterLoss
<1>1. Init => IInv
  BY InitIInv
<1>2. IInv /\ [Next]_vars => IInv'
  BY NextIInv
<1>3. IInv => RepeatsOnlyAfterLoss
  <2> SUFFICES ASSUME IInv, client.pc # "idle", NEW i \in 1 .. Len(log),
                      log[i].call = client.call, log[i].conn # client.att
               PROVE  conns[log[i].conn].lost
    BY DEF RepeatsOnlyAfterLoss, IInv, TypeOK
  <2>1. log[i].conn \in 1 .. Len(conns) /\ log[i] \in Execution
    BY DEF IInv, LogOK, TypeOK
  <2>2. log[i] = [call |-> client.call, conn |-> log[i].conn]
    BY <2>1 DEF Execution
  <2>3. WasSent(client.call, log[i].conn)
    BY <2>2 DEF WasSent
  <2> QED BY <2>1, <2>3, Zenon DEF IInv, SentHereOnly
<1> QED BY <1>1, <1>2, <1>3, PTL DEF Spec

\* session_state is the newest session any answered call was told (update_session).
THEOREM CacheIsTheNewestReport == Spec => []CacheIsNewestReport
<1>1. Init => IInv
  BY InitIInv
<1>2. IInv /\ [Next]_vars => IInv'
  BY NextIInv
<1>3. IInv => CacheIsNewestReport
  <2> SUFFICES ASSUME IInv PROVE cached = Max(received \cup {0})
    BY DEF CacheIsNewestReport
  <2> DEFINE S == received \cup {0}
  <2>1. cached \in S /\ \A r \in S : cached >= r /\ r \in Nat
    BY DEF IInv, CacheNewest, TypeOK
  <2>2. \A x \in S : (\A y \in S : x >= y) => x = cached
    BY <2>1
  <2> HIDE DEF S
  <2>3. Max(S) = cached
    BY <2>1, <2>2 DEF Max
  <2> QED BY <2>3 DEF S
<1> QED BY <1>1, <1>2, <1>3, PTL DEF Spec
=============================================================================
