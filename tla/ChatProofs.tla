------------------------------ MODULE ChatProofs ------------------------------
(***************************************************************************)
(* WsConnection for every choice of the three timeouts, and ChatConnection *)
(* for every set of calls, channel size and number of request ids.         *)
(*                                                                         *)
(* The timers: deadlines are computed when a call begins and acted upon    *)
(* when it wakes, and Armed is what the armed timer still says about the   *)
(* ages at that time.                                                      *)
(*                                                                         *)
(* The connection: a request is in one place (the channel, the websocket   *)
(* or the table of those in flight) and its call has been told nothing     *)
(* while it is (OnePlace, Untold); ids are given out once (UniqueIds); and *)
(* the end of the task is told to the listener before it can be joined     *)
(* (Settled).  From these follow the three invariants of ChatConnection,   *)
(* and that each of its steps is a step of ChatService or none.            *)
(***************************************************************************)
EXTENDS ChatConnection, WsConnection, TLAPS

USE SMTT(30)

-----------------------------------------------------------------------------
(* The timers of the websocket                                             *)

\* What the kind of the armed timer implies while a call waits.
Armed ==
    phase = "waiting" =>
        /\ inactivity = "RemoteDisconnectedTimeout" =>
               probe >= 0 /\ timer = remote_idle_disconnect_timeout - silence
        /\ inactivity = "ConnectionIdle" => \/ timer >= local_idle_timeout - pinged
                                            \/ timer >= remote_idle_ping_timeout - pinged
        /\ probe = -1 => timer =< remote_idle_ping_timeout - silence

\* Until a ping is out, the silence is time waited, which the ping timeout limits,
\* and time the client took itself; later the same is true of the time before it.
Probing ==
    /\ phase = "new" => silence = 0
    /\ probe =< silence /\ delay =< silence
    /\ probe = -1 => silence =< pinged /\ silence - delay =< remote_idle_ping_timeout
    /\ probe >= 0 => silence - probe - delay =< remote_idle_ping_timeout

WsIInv == WsTypeOK /\ PingIsASend /\ Armed /\ Probing /\ NeverGivesUpUnprobed

\* A call arms its timer so that the invariant holds.
LEMMA WaitArms ==
    ASSUME NEW s \in 0 .. MaxAge, NEW p \in 0 .. MaxAge, NEW h \in 0 .. MaxSilence, s =< p,
           outgoing \in {"open", "closed"}, probe \in -1 .. h, delay \in 0 .. h,
           probe = -1 => h =< p /\ h - delay =< remote_idle_ping_timeout,
           probe >= 0 => h - probe - delay =< remote_idle_ping_timeout,
           Wait(s, p, h)
    PROVE  WsIInv'
<1> USE TimeoutAssumption DEF MaxAge
<1>1. /\ phase' = "waiting" /\ sent' = s /\ pinged' = p /\ silence' = h
      /\ probe' = probe /\ delay' = delay /\ outgoing' = outgoing
  BY DEF Wait, history
<1>2. WsTypeOK'
  BY <1>1 DEF WsTypeOK, Wait, RemoteIdle, RemoteDisconnected
<1>3. PingIsASend' /\ NeverGivesUpUnprobed'
  BY <1>1 DEF PingIsASend, NeverGivesUpUnprobed
<1>4. Armed'
  BY <1>1 DEF Armed, Wait, RemoteIdle, RemoteDisconnected
<1>5. Probing'
  BY <1>1 DEF Probing
<1> QED  BY <1>2, <1>3, <1>4, <1>5 DEF WsIInv

\* The invariant of handle_next_event's timers holds initially and is preserved
\* by every step.
THEOREM WsInvariant == WsSpec => []WsIInv
<1>1. WsInit => WsIInv
  BY TimeoutAssumption
  DEF WsInit, WsIInv, WsTypeOK, PingIsASend, Armed, Probing, NeverGivesUpUnprobed, MaxAge
<1>2. WsIInv /\ [WsNext]_wsVars => WsIInv'
  <2> SUFFICES ASSUME WsIInv, [WsNext]_wsVars PROVE WsIInv'
    OBVIOUS
  <2> USE TimeoutAssumption DEF MaxAge, history
  <2>1. CASE FirstCall \/ NextCall
    <3>1. CASE FirstCall
      <4>1. WsTypeOK /\ Probing /\ phase = "new" /\ Wait(0, 0, 0)
        BY <3>1 DEF FirstCall, WsIInv
      <4> QED  BY <4>1, WaitArms DEF WsTypeOK, Probing
    <3>2. CASE NextCall
      BY <3>2, WaitArms DEF NextCall, WsIInv, WsTypeOK, PingIsASend, Probing
    <3> QED  BY <2>1, <3>1, <3>2
  <2>2. CASE Received
    BY <2>2 DEF Received, Go, WsIInv, WsTypeOK, PingIsASend, Armed, Probing,
                NeverGivesUpUnprobed, FinishReasons
  <2>3. CASE ReceiveFails
    BY <2>3 DEF ReceiveFails, Go, ages, WsIInv, WsTypeOK, PingIsASend, Armed, Probing,
                NeverGivesUpUnprobed, FinishReasons
  <2>4. CASE RemoteDisconnectedTimeout
    <3>1. /\ phase = "waiting" /\ phase' = "ServerIdleTimeout"
          /\ inactivity = "RemoteDisconnectedTimeout" /\ timer =< 0
          /\ UNCHANGED <<sent, pinged, silence, timer, inactivity, outgoing, probe, delay>>
      BY <2>4 DEF RemoteDisconnectedTimeout, Go, ages, Due
    <3>2. probe >= 0 /\ silence >= remote_idle_disconnect_timeout
      BY <3>1 DEF WsIInv, WsTypeOK, Armed
    <3>3. NeverGivesUpUnprobed'
      BY <3>1, <3>2 DEF WsIInv, WsTypeOK, Probing, NeverGivesUpUnprobed
    <3>4. WsTypeOK' /\ PingIsASend' /\ Armed' /\ Probing'
      BY <3>1 DEF WsIInv, WsTypeOK, PingIsASend, Armed, Probing, FinishReasons
    <3> QED  BY <3>3, <3>4 DEF WsIInv
  <2>5. CASE ConnectionIdle \/ ToSend \/ OutgoingClosed
    BY <2>5 DEF ConnectionIdle, ToSend, OutgoingClosed, Go, ages, WsIInv, WsTypeOK, PingIsASend,
                Armed, Probing, NeverGivesUpUnprobed, FinishReasons
  <2>6. CASE PingSent
    BY <2>6 DEF PingSent, Written, WsIInv, WsTypeOK, PingIsASend, Armed, Probing,
                NeverGivesUpUnprobed
  <2>7. CASE MessageSent \/ MessageFailed \/ CloseSent \/ WriteFails
    BY <2>7 DEF MessageSent, MessageFailed, CloseSent, WriteFails, Written, WsIInv,
                WsTypeOK, PingIsASend, Armed, Probing, NeverGivesUpUnprobed, FinishReasons
  <2>8. CASE HangUp
    BY <2>8 DEF HangUp, ages, WsIInv, WsTypeOK, PingIsASend, Armed, Probing, NeverGivesUpUnprobed
  <2>9. CASE Tick
    <3>1. WsTypeOK'
      BY <2>9 DEF Tick, Older, Due, WsIInv, WsTypeOK, Probing
    <3>2. PingIsASend'
      BY <2>9 DEF Tick, Older, WsIInv, WsTypeOK, PingIsASend
    <3>3. Armed'
      BY <2>9 DEF Tick, Older, Due, WsIInv, WsTypeOK, Armed
    <3>4. Probing'
      BY <2>9 DEF Tick, Older, Due, WsIInv, WsTypeOK, Armed, Probing
    <3>5. NeverGivesUpUnprobed'
      BY <2>9 DEF Tick, NeverGivesUpUnprobed
    <3> QED  BY <3>1, <3>2, <3>3, <3>4, <3>5 DEF WsIInv
  <2>10. CASE ConnectionFinished \/ UNCHANGED wsVars
    BY <2>10 DEF ConnectionFinished, wsVars, ages, WsIInv, WsTypeOK, PingIsASend, Armed, Probing,
                 NeverGivesUpUnprobed
  <2> QED  BY <2>1, <2>2, <2>3, <2>4, <2>5, <2>6, <2>7, <2>8, <2>9, <2>10 DEF WsNext
<1> QED  BY <1>1, <1>2, PTL DEF WsSpec

\* A connection is declared dead only after a ping written since the server was last
\* heard, and with the time between the timeouts to answer it, less what the client
\* held the ping back, for all timeouts with the one for pings below the other.
THEOREM UnprobedNeverGivenUp == WsSpec => []NeverGivesUpUnprobed
<1>1. WsIInv => NeverGivesUpUnprobed
  BY DEF WsIInv
<1> QED  BY <1>1, WsInvariant, PTL

\* Pings are spaced by one of the idle timeouts, for all timeouts.
THEOREM PingsAreSpaced == WsSpec => PingsSpaced
<1>1. WsIInv /\ [WsNext]_wsVars
        => [ConnectionIdle => \/ pinged >= local_idle_timeout
                              \/ pinged >= remote_idle_ping_timeout]_wsVars
  BY TimeoutAssumption DEF WsIInv, WsTypeOK, Armed, ConnectionIdle, Go, Due, MaxAge
<1> QED  BY <1>1, WsInvariant, PTL DEF WsSpec, PingsSpaced

-----------------------------------------------------------------------------
(* The chat connection                                                     *)

Requests == [id : Ids, caller : Callers]
Places == {"idle", "queueing", "waiting", "joining", "holding", "ended", "cancelled"}
Tasks == {"reporting", "looping", "listening", "finishing", "exiting", "unwinding", "done"}
Ending == {"finishing", "exiting", "unwinding", "done"}
Events == {"ReceivedAlerts", "ReceivedMessage", "Finished"}
Outcomes == Replies \cup Results \cup {"SocketClosed"}

ChatTypeOK ==
    /\ state \in {"MaybeStillRunning", "SignaledToEnd", "Finished"}
    /\ pc \in [Sends -> Places] /\ outcome \in [Sends -> Outcomes]
    /\ reply \in [Sends -> Replies] /\ answerTo \in [Sends -> Callers]
    /\ request_rx \in Seq(Callers)
    /\ writing \in SUBSET Requests /\ outstanding \in SUBSET Requests
    /\ server \in SUBSET Requests
    /\ next_id \in Ids
    /\ task \in Tasks
    /\ listener \in {"set", "busy", "gone"} /\ heard \in Seq(Events)

\* What is settled once the task is past its loop.
Settled ==
    /\ state = "Finished" => task = "done"
    /\ task \in Ending => /\ h2 # "open" /\ writing = {}
                          /\ listener # "gone" => heard # << >> /\ heard[Len(heard)] = "Finished"
    /\ task \in {"exiting", "done"} => listener # "busy"

\* A request is in one place, and its channel is empty while its call waits for it.
OnePlace ==
    /\ \A i, j \in DOMAIN request_rx :
           request_rx[i] = request_rx[j] /\ request_rx[i] \in Sends => i = j
    /\ \A r, q \in outstanding : r.caller = q.caller /\ r.caller \in Sends => r = q
    /\ \A i \in DOMAIN request_rx : request_rx[i] \in Sends =>
           request_rx[i] \notin Writing \cup Awaited
    /\ \A w \in writing : w.caller \in Sends => w.caller \notin Awaited

\* The callers that have a request somewhere.
Placed == Range(request_rx) \cup Writing \cup Awaited

\* A call that has a request somewhere has begun, and has not been told anything.
Untold ==
    \A c \in Sends :
        /\ pc[c] \in {"idle", "queueing"} => reply[c] = "Empty" /\ c \notin Placed
        /\ pc[c] = "waiting" /\ c \in Placed => reply[c] = "Empty"

\* The ids given out reach from InitialId round to the next one.
Given(id, next) ==
    IF InitialId =< next THEN InitialId =< id /\ id < next
    ELSE InitialId =< id \/ id < next

\* No two requests have the same id.
UniqueIds ==
    /\ \A m \in server \cup writing : Given(m.id, next_id)
    /\ \A m, n \in server : m.id = n.id => m = n
    /\ \A v, w \in writing : v = w
    /\ \A m \in server, w \in writing : m.id # w.id
    /\ outstanding \subseteq server

ChatIInv ==
    ChatTypeOK /\ Settled /\ OnePlace /\ Untold /\ UniqueIds /\ OwnResponse /\ ReportsTheReason


\* What Append and Tail do to a sequence.
LEMMA Appended ==
    ASSUME NEW S, NEW s \in Seq(S), NEW e \in S
    PROVE  /\ Append(s, e) \in Seq(S)
           /\ Append(s, e) # << >>
           /\ Append(s, e)[Len(Append(s, e))] = e
           /\ \A i \in DOMAIN Append(s, e) : IF i \in DOMAIN s THEN Append(s, e)[i] = s[i]
                                             ELSE i = Len(s) + 1 /\ Append(s, e)[i] = e
OBVIOUS

LEMMA Shifted ==
    ASSUME NEW S, NEW s \in Seq(S), s # << >>
    PROVE  /\ Head(s) \in S /\ Tail(s) \in Seq(S)
           /\ 1 \in DOMAIN s /\ Head(s) = s[1]
           /\ \A i \in DOMAIN Tail(s) : i + 1 \in DOMAIN s /\ i + 1 # 1 /\ Tail(s)[i] = s[i + 1]
OBVIOUS

\* The listener is told one of the events.
LEMMA Announced ==
    ASSUME ChatTypeOK, NEW e \in Events, Announce(e)
    PROVE  /\ listener' \in {"set", "busy", "gone"} /\ heard' \in Seq(Events)
           /\ listener' # "gone" => heard' # << >> /\ heard'[Len(heard')] = e
BY Appended DEF ChatTypeOK, Announce

\* What Reply does to one caller's channel.
LEMMA Replied ==
    ASSUME ChatTypeOK, NEW them, NEW v \in Replies, Reply(them, v)
    PROVE  /\ reply' \in [Sends -> Replies]
           /\ \A c \in Sends : reply'[c] = IF c \in them /\ pc[c] = "waiting" THEN v ELSE reply[c]
BY DEF ChatTypeOK, Reply

\* What Finish does: the task is past its loop and the listener was told.
LEMMA FinishTells ==
    ASSUME ChatTypeOK, NEW r, Finish(r)
    PROVE  /\ task' = "finishing" /\ writing' = {} /\ h2' # "open"
           /\ listener' \in {"set", "busy", "gone"} /\ heard' \in Seq(Events)
           /\ listener' # "gone" => heard' # << >> /\ heard'[Len(heard')] = "Finished"
<1>1. "Finished" \in Events
  BY DEF Events
<1> QED  BY <1>1, Announced DEF Finish

\* The types are preserved by the steps of the callers ...
LEMMA TypeOfCallers ==
    ASSUME ChatTypeOK, NEW c \in Sends, Caller(c)
    PROVE  ChatTypeOK'
<1> USE DEF ChatTypeOK, channels, writes, inFlight, events
<1>1. CASE SendRequest(c)
  <2>1. pc' \in [Sends -> Places]
    BY <1>1, Zenon DEF SendRequest, End, Places
  <2>2. outcome' \in [Sends -> Outcomes]
    BY <1>1, Zenon DEF SendRequest, End, SendErrorOf, Outcomes, Results
  <2> QED  BY <1>1, <2>1, <2>2, Zenon DEF SendRequest
<1>2. CASE Enqueue(c)
  <2>1. c \in Callers
    BY DEF Callers
  <2>2. Append(request_rx, c) \in Seq(Callers)
    BY <2>1, Appended
  <2> QED  BY <1>2, <2>2, Zenon DEF Enqueue, Places
<1>3. CASE Await(c)
  BY <1>3 DEF Await, End, Outcomes, Places
<1>4. CASE JoinTask(c) \/ Cancel(c)
  BY <1>4, Zenon DEF JoinTask, Cancel, Places
<1>5. CASE TaskJoined(c)
  BY <1>5 DEF TaskJoined, End, SendErrorOf, Outcomes, Replies, Results, Places
<1> QED  BY <1>1, <1>2, <1>3, <1>4, <1>5, Zenon DEF Caller

\* ... and by all others.
LEMMA TypeOfOthers ==
    ASSUME ChatTypeOK, [Next]_vars, ~ \E c \in Sends : Caller(c)
    PROVE  ChatTypeOK'
<1> USE DEF ChatTypeOK, callers, channels, writes, inFlight, events
<1>1. CASE Disconnect \/ IsConnected \/ SendResponse \/ NetworkChange \/ UNCHANGED vars
  BY <1>1, Zenon DEF Disconnect, IsConnected, SendResponse, NetworkChange, vars
<1>2. CASE TakeRequest
  <2>1. request_rx' \in Seq(Callers) /\ Head(request_rx) \in Callers
    BY <1>2, Shifted DEF TakeRequest
  <2>2. writing' \in SUBSET Requests
    BY <1>2, <2>1 DEF TakeRequest, Request, Requests
  <2>3. next_id' \in Ids
    BY <1>2, ChatAssumption DEF TakeRequest, NextRequestId, Ids
  <2> QED  BY <1>2, <2>1, <2>2, <2>3 DEF TakeRequest
<1>3. CASE TakeResponse \/ Sent
  BY <1>3, Zenon DEF TakeResponse, Sent, RecordSend
<1>4. CASE SendFailed \/ ClientDisconnect \/ ConnectionEnds \/ H2Shutdown
  BY <1>4, FinishTells, Replied
  DEF SendFailed, ClientDisconnect, ConnectionEnds, H2Shutdown, Drop, Replies, Tasks
<1>5. CASE OutstandingRequestTimeout
  BY <1>5, FinishTells, Replied, Zenon DEF OutstandingRequestTimeout, Drop, Replies, Tasks
<1>6. ASSUME NEW m \in server, ReceivedResponse(m)
      PROVE  ChatTypeOK'
  <2>1. m.caller \in Callers
    BY <1>6 DEF Requests
  <2>2. PICK v \in {"Response", "InvalidResponse"} : FinishSend(m.id, v, m.caller)
    BY <1>6, Zenon DEF ReceivedResponse
  <2>3. reply' \in [Sends -> Replies]
    BY <2>2, Replied, Zenon DEF FinishSend, Replies
  <2>4. answerTo' \in [Sends -> Callers]
    BY <2>1, <2>2 DEF FinishSend
  <2>5. outstanding' \in SUBSET Requests
    BY <2>2 DEF FinishSend
  <2> QED  BY <1>6, <2>3, <2>4, <2>5 DEF ReceivedResponse
<1>7. CASE ReceivedRequest
  BY <1>7, Announced DEF ReceivedRequest, Events, Tasks
<1>8. CASE ListenerSteps \/ TaskReturns
  <2>1. CASE AlertsReported \/ ListenerHeardRequest \/ TaskReturns
    BY <2>1, Zenon DEF AlertsReported, ListenerHeardRequest, TaskReturns, ListenerReturns, Tasks
  <2>2. CASE ListenerHeardFinished \/ Unwound
    <3>1. reply' \in [Sends -> Replies]
      BY <2>2, Replied, Zenon DEF ListenerHeardFinished, Unwound, Drop, Replies
    <3>2. << >> \in Seq(Callers)
      OBVIOUS
    <3> QED  BY <2>2, <3>1, <3>2, Zenon DEF ListenerHeardFinished, Unwound, ListenerReturns, Tasks
  <2> QED  BY <1>8, <2>1, <2>2 DEF ListenerSteps
<1>9. CASE HandleNetworkChange
  BY <1>9, Appended DEF HandleNetworkChange, Callers
<1>10. CASE Panic
  BY <1>10, Announced, Replied DEF Panic, Events, Drop, Replies, Tasks
<1> QED
  BY <1>1, <1>2, <1>3, <1>4, <1>5, <1>6, <1>7, <1>8, <1>9, <1>10, Zenon DEF Next

\* What is settled when the task ends stays so.
LEMMA SettledStep ==
    ASSUME ChatTypeOK, Settled, [Next]_vars
    PROVE  Settled'
<1> USE DEF Settled, Ending, callers, channels, writes, inFlight, events
<1>1. CASE \E c \in Sends : Caller(c)
  BY <1>1, Zenon DEF Caller, SendRequest, Enqueue, Await, JoinTask, TaskJoined, Cancel
<1>2. CASE Disconnect \/ IsConnected \/ SendResponse \/ NetworkChange \/ UNCHANGED vars
  BY <1>2, Zenon DEF Disconnect, IsConnected, SendResponse, NetworkChange, vars
<1>3. CASE TakeRequest \/ TakeResponse \/ Sent \/ HandleNetworkChange
           \/ \E m \in server : ReceivedResponse(m)
  BY <1>3, Zenon
  DEF TakeRequest, TakeResponse, Sent, RecordSend, HandleNetworkChange, ReceivedResponse
<1>4. CASE SendFailed \/ ClientDisconnect \/ ConnectionEnds \/ H2Shutdown \/ Panic
  BY <1>4, FinishTells, Announced
  DEF SendFailed, ClientDisconnect, ConnectionEnds, H2Shutdown, Panic, Events
<1>5. CASE OutstandingRequestTimeout
  BY <1>5, FinishTells DEF OutstandingRequestTimeout
<1>6. CASE ReceivedRequest
  BY <1>6 DEF ReceivedRequest
<1>7. CASE ListenerSteps \/ TaskReturns
  BY <1>7, Zenon
  DEF ChatTypeOK, ListenerSteps, AlertsReported, ListenerHeardRequest, ListenerHeardFinished,
      Unwound, TaskReturns, ListenerReturns
<1> QED  BY <1>1, <1>2, <1>3, <1>4, <1>5, <1>6, <1>7, Zenon DEF Next

-----------------------------------------------------------------------------
(* The steps, by what they do to the requests                              *)

\* Steps that move no request, and steps that end the loop of the task.
Quiet ==
    \/ Disconnect \/ IsConnected \/ SendResponse \/ NetworkChange \/ TakeResponse
    \/ ReceivedRequest \/ AlertsReported \/ ListenerHeardRequest \/ TaskReturns
    \/ OutstandingRequestTimeout /\ task' = task
    \/ UNCHANGED vars

Breaks ==
    \/ SendFailed \/ ClientDisconnect \/ ConnectionEnds \/ H2Shutdown
    \/ OutstandingRequestTimeout /\ task' = "finishing"

requests == <<request_rx, writing, outstanding, server, next_id>>

LEMMA Steps ==
    ASSUME [Next]_vars
    PROVE  \/ \E c \in Sends : Caller(c)
           \/ Quiet \/ Breaks \/ TakeRequest \/ Sent \/ HandleNetworkChange
           \/ \E m \in server : ReceivedResponse(m)
           \/ ListenerHeardFinished \/ Unwound \/ Panic
<1>1. OutstandingRequestTimeout => task' = task \/ task' = "finishing"
  BY DEF OutstandingRequestTimeout, Finish
<1> QED  BY <1>1 DEF Next, Quiet, Breaks, ListenerSteps

LEMMA QuietFrame ==
    ASSUME Quiet
    PROVE  UNCHANGED <<pc, outcome, reply, answerTo, requests>>
BY Zenon
DEF Quiet, Disconnect, IsConnected, SendResponse, NetworkChange, TakeResponse, ReceivedRequest,
    AlertsReported, ListenerHeardRequest, TaskReturns, OutstandingRequestTimeout, Finish, vars,
    callers, channels, writes, inFlight, requests

LEMMA BreaksFrame ==
    ASSUME Breaks
    PROVE  /\ UNCHANGED <<state, pc, outcome, answerTo, request_rx, outstanding, server, next_id>>
           /\ task = "looping" /\ task' = "finishing" /\ writing' = {}
           /\ \/ reply' = reply
              \/ \E v \in {"Dropped", "StreamSendFailed"} : Reply(Writing, v)
BY Zenon DEF Breaks, SendFailed, ClientDisconnect, ConnectionEnds, H2Shutdown,
       OutstandingRequestTimeout, Finish, Drop, callers, channels, inFlight

LEMMA CallerFrame ==
    ASSUME NEW c \in Sends, Caller(c)
    PROVE  UNCHANGED <<reply, answerTo, writing, outstanding, server, next_id, task, result>>
BY Zenon
DEF Caller, SendRequest, Enqueue, Await, JoinTask, TaskJoined, Cancel, channels, writes, inFlight

-----------------------------------------------------------------------------
(* Request ids                                                             *)

\* The next id was not given out, and is given out with the others afterwards.
LEMMA FreshId ==
    ASSUME ChatTypeOK, IdsLeft
    PROVE  /\ ~ Given(next_id, next_id)
           /\ \A id \in Ids :
                  Given(id, next_id) \/ id = next_id => Given(id, NextRequestId(next_id))
BY ChatAssumption DEF ChatTypeOK, IdsLeft, NextRequestId, Given, Ids

\* Ids stay unique.
LEMMA UniqueIdsStep ==
    ASSUME ChatTypeOK, UniqueIds, [Next]_vars
    PROVE  UniqueIds'
<1>1. CASE (\E c \in Sends : Caller(c)) \/ Quiet
  BY <1>1, CallerFrame, QuietFrame DEF UniqueIds, requests
<1>2. CASE Breaks
  BY <1>2, BreaksFrame DEF UniqueIds
<1>3. CASE TakeRequest
  <2>1. PICK r : r = Request(next_id, Head(request_rx))
    OBVIOUS
  <2>2. writing' = {r} /\ server' = server /\ outstanding' = outstanding
    BY <1>3, <2>1 DEF TakeRequest
  <2>3. r.id = next_id /\ next_id' = NextRequestId(next_id) /\ IdsLeft
    BY <1>3, <2>1 DEF TakeRequest, Request
  <2>4. next_id \in Ids /\ \A m \in server : m.id \in Ids
    BY DEF ChatTypeOK, Requests
  <2>5. \A m \in server \cup {r} : Given(m.id, next_id')
    BY <2>3, <2>4, FreshId DEF UniqueIds
  <2>6. \A m \in server : m.id # r.id
    BY <2>3, FreshId DEF UniqueIds
  <2> QED  BY <2>2, <2>5, <2>6 DEF UniqueIds
<1>4. CASE Sent
  BY <1>4 DEF Sent, RecordSend, UniqueIds
<1>5. CASE HandleNetworkChange \/ \E m \in server : ReceivedResponse(m)
  <2>1. UNCHANGED <<writing, server, next_id>> /\ outstanding' \subseteq outstanding
    BY <1>5, Zenon DEF HandleNetworkChange, ReceivedResponse, FinishSend, writes, inFlight
  <2> QED  BY <2>1 DEF UniqueIds
<1>6. CASE ListenerHeardFinished \/ Unwound \/ Panic
  BY <1>6 DEF ListenerHeardFinished, Unwound, Panic, UniqueIds, writes, inFlight
<1> QED  BY <1>1, <1>2, <1>3, <1>4, <1>5, <1>6, Steps

\* A response is for the request it was made for: the one with its id.
LEMMA OwnResponseStep ==
    ASSUME ChatTypeOK, UniqueIds, OwnResponse, [Next]_vars
    PROVE  OwnResponse'
<1>1. CASE (\E c \in Sends : Caller(c)) \/ Quiet
  BY <1>1, CallerFrame, QuietFrame DEF OwnResponse
<1>2. CASE Breaks
  BY <1>2, BreaksFrame, Replied DEF OwnResponse, Replies
<1>3. CASE TakeRequest \/ Sent \/ HandleNetworkChange
  BY <1>3 DEF TakeRequest, Sent, RecordSend, HandleNetworkChange, OwnResponse, channels
<1>4. ASSUME NEW m \in server, ReceivedResponse(m)
      PROVE  OwnResponse'
  <2>1. PICK v \in {"Response", "InvalidResponse"} : FinishSend(m.id, v, m.caller)
    BY <1>4 DEF ReceivedResponse
  <2>2. \A c \in Sends : Request(m.id, c) \in outstanding => m.caller = c
    BY DEF UniqueIds, Request
  <2>3. ASSUME NEW c \in Sends, reply'[c] = "Response"
        PROVE  answerTo'[c] = c
    <3>1. CASE Request(m.id, c) \in outstanding
      BY <2>1, <2>2, <3>1, Zenon DEF FinishSend
    <3>2. CASE Request(m.id, c) \notin outstanding
      BY <2>1, <2>3, <3>2 DEF FinishSend, Reply, OwnResponse
    <3> QED  BY <3>1, <3>2, Zenon
  <2> QED  BY <2>3 DEF OwnResponse
<1>5. CASE ListenerHeardFinished \/ Unwound \/ Panic
  BY <1>5, Replied DEF ListenerHeardFinished, Unwound, Panic, Drop, OwnResponse, Replies
<1> QED  BY <1>1, <1>2, <1>3, <1>4, <1>5, Steps

\* A dropped call ends only when it has joined the task, whose result is final.
LEMMA ReportsTheReasonStep ==
    ASSUME ChatTypeOK, Settled, Untold, ReportsTheReason, [Next]_vars
    PROVE  ReportsTheReason'
<1>0. /\ pc \in [Sends -> Places] /\ outcome \in [Sends -> Outcomes]
      /\ state \in {"MaybeStillRunning", "SignaledToEnd", "Finished"}
  BY DEF ChatTypeOK
<1>1. task = "done" => UNCHANGED <<task, result>>
  BY Zenon
  DEF Next, Caller, SendRequest, Enqueue, Await, JoinTask, TaskJoined, Cancel, Disconnect,
      IsConnected, SendResponse, TakeRequest, TakeResponse, Sent, RecordSend, SendFailed,
      ClientDisconnect, ConnectionEnds, ReceivedResponse, ReceivedRequest, ListenerSteps,
      AlertsReported, ListenerHeardRequest, ListenerHeardFinished, Unwound, H2Shutdown,
      NetworkChange, HandleNetworkChange, OutstandingRequestTimeout, TaskReturns, Panic, vars
<1>2. ASSUME NEW d \in Sends, Caller(d)
      PROVE  ReportsTheReason'
  <2>1. CASE SendRequest(d)
    BY <1>0, <1>1, <2>1, Zenon DEF SendRequest, End, ReportsTheReason, Untold, channels
  <2>2. CASE Enqueue(d) \/ JoinTask(d) \/ Cancel(d)
    BY <1>0, <1>1, <2>2, Zenon DEF Enqueue, JoinTask, Cancel, ReportsTheReason, channels
  <2>3. CASE Await(d)
    BY <1>0, <1>1, <2>3 DEF Await, End, ReportsTheReason, channels
  <2>4. CASE TaskJoined(d)
    BY <1>0, <1>1, <2>4 DEF TaskJoined, End, ReportsTheReason, Settled, channels
  <2> QED  BY <1>2, <2>1, <2>2, <2>3, <2>4 DEF Caller
<1>3. CASE Quiet
  BY <1>1, <1>3, QuietFrame DEF ReportsTheReason
<1>4. CASE Breaks
  BY <1>1, <1>4, BreaksFrame DEF Reply, ReportsTheReason
<1>5. CASE TakeRequest \/ Sent \/ HandleNetworkChange
  BY <1>1, <1>5, Zenon
  DEF TakeRequest, Sent, RecordSend, HandleNetworkChange, ReportsTheReason, callers, channels
<1>6. CASE \/ \E m \in server : ReceivedResponse(m)
           \/ ListenerHeardFinished \/ Unwound \/ Panic
  BY <1>1, <1>6, Zenon
  DEF ReceivedResponse, FinishSend, ListenerHeardFinished, Unwound, Panic, Drop, Reply,
      ReportsTheReason, callers
<1> QED  BY <1>2, <1>3, <1>4, <1>5, <1>6, Steps

-----------------------------------------------------------------------------
(* Requests and their channels                                             *)

\* A request moves from one place to the next.
LEMMA OnePlaceStep ==
    ASSUME ChatTypeOK, OnePlace, Untold, UniqueIds, [Next]_vars
    PROVE  OnePlace'
<1> USE DEF Writing, Awaited
<1>1. ASSUME NEW d \in Sends, Caller(d)
      PROVE  OnePlace'
  <2>1. CASE request_rx' = request_rx
    <3>1. UNCHANGED <<writing, outstanding>>
      BY <1>1, CallerFrame, Zenon
    <3> QED  BY <2>1, <3>1, Zenon DEF OnePlace
  <2>2. CASE Enqueue(d) /\ request_rx' = Append(request_rx, d)
    <3>1. d \notin Range(request_rx) \cup Writing \cup Awaited
      <4>1. pc[d] = "queueing"
        BY <2>2, Zenon DEF Enqueue
      <4> QED  BY <4>1, Zenon DEF Untold, Placed
    <3>2. \A i \in DOMAIN request_rx' : \/ i \in DOMAIN request_rx /\ request_rx'[i] = request_rx[i]
                                        \/ i = Len(request_rx) + 1 /\ request_rx'[i] = d
      <4>1. d \in Callers /\ request_rx \in Seq(Callers)
        BY Zenon DEF Callers, ChatTypeOK
      <4> QED  BY <2>2, <4>1, Appended
    <3>3. \A i \in DOMAIN request_rx : request_rx[i] # d
      BY <3>1 DEF Range
    <3>4. UNCHANGED <<writing, outstanding>>
      BY <1>1, CallerFrame
    <3> QED  BY <3>1, <3>2, <3>3, <3>4 DEF OnePlace
  <2> QED
    BY <1>1, <2>1, <2>2, Zenon
    DEF Caller, SendRequest, Enqueue, Await, JoinTask, TaskJoined, Cancel, channels
<1>2. CASE Quiet
  BY <1>2, QuietFrame, Zenon DEF OnePlace, requests
<1>3. CASE Breaks
  BY <1>3, BreaksFrame, Zenon DEF OnePlace
<1>4. CASE TakeRequest
  <2>1. request_rx \in Seq(Callers) /\ request_rx # << >> /\ request_rx' = Tail(request_rx)
    BY <1>4 DEF TakeRequest, ChatTypeOK
  <2>2. /\ 1 \in DOMAIN request_rx /\ Head(request_rx) = request_rx[1]
        /\ \A i \in DOMAIN request_rx' : /\ i + 1 \in DOMAIN request_rx /\ i + 1 # 1
                                         /\ request_rx'[i] = request_rx[i + 1]
    BY <2>1, Shifted
  <2>3. DOMAIN request_rx' \subseteq Nat
    BY <2>1
  <2>4. (\A w \in writing' : w.caller = request_rx[1]) /\ outstanding' = outstanding
    BY <1>4, <2>2 DEF TakeRequest, Request
  <2> QED  BY <2>2, <2>3, <2>4 DEF OnePlace
<1>5. CASE Sent
  BY <1>5 DEF Sent, RecordSend, OnePlace, UniqueIds, channels
<1>6. CASE HandleNetworkChange
  <2>1. /\ UNCHANGED <<writing, outstanding>>
        /\ request_rx' = request_rx \/ request_rx' = Append(request_rx, Keepalive)
    BY <1>6, Zenon DEF HandleNetworkChange, writes, inFlight
  <2>2. CASE request_rx' = Append(request_rx, Keepalive)
    <3>1. Keepalive \in Callers /\ request_rx \in Seq(Callers)
      BY DEF Callers, ChatTypeOK
    <3>2. \A i \in DOMAIN request_rx' : \/ i \in DOMAIN request_rx /\ request_rx'[i] = request_rx[i]
                                        \/ request_rx'[i] = Keepalive
      BY <2>2, <3>1, Appended
    <3> QED  BY <2>1, <3>2, ChatAssumption DEF OnePlace
  <2> QED  BY <2>1, <2>2 DEF OnePlace
<1>7. CASE \E m \in server : ReceivedResponse(m)
  <2>1. UNCHANGED <<request_rx, writing>> /\ outstanding' \subseteq outstanding
    BY <1>7, Zenon DEF ReceivedResponse, FinishSend, writes
  <2> QED  BY <2>1, Zenon DEF OnePlace
<1>8. CASE ListenerHeardFinished \/ Unwound
  <2>1. outstanding' = {} /\ writing' = writing /\ (request_rx' = request_rx \/ request_rx' = << >>)
    BY <1>8, Zenon DEF ListenerHeardFinished, Unwound, writes
  <2> QED  BY <2>1 DEF OnePlace
<1>9. CASE Panic
  BY <1>9 DEF Panic, OnePlace, inFlight
<1> QED  BY <1>1, <1>2, <1>3, <1>4, <1>5, <1>6, <1>7, <1>8, <1>9, Steps

\* Nothing is told to a call whose request goes on.
LEMMA UntoldKept ==
    ASSUME ChatTypeOK, Untold, pc' = pc, NEW them, NEW v \in Replies, Reply(them, v),
           \A c \in Sends : c \in Placed' => c \in Placed /\ c \notin them
    PROVE  Untold'
BY Replied DEF Untold, ChatTypeOK

LEMMA UntoldStep ==
    ASSUME ChatTypeOK, Settled, OnePlace, Untold, [Next]_vars
    PROVE  Untold'
<1>1. ASSUME NEW d \in Sends, Caller(d)
      PROVE  Untold'
  <2>1. Placed' = Placed \/ (pc[d] = "queueing" /\ Placed' \subseteq Placed \cup {d})
    <3>1. UNCHANGED <<writing, outstanding>>
      BY <1>1, CallerFrame
    <3>2. CASE request_rx' = request_rx
      BY <3>1, <3>2, Zenon DEF Placed, Range, Writing, Awaited
    <3>3. CASE Enqueue(d) /\ request_rx' = Append(request_rx, d)
      <4>1. d \in Callers /\ request_rx \in Seq(Callers)
        BY DEF Callers, ChatTypeOK
      <4>2. Range(request_rx') \subseteq Range(request_rx) \cup {d}
        BY <3>3, <4>1, Appended DEF Range
      <4>3. pc[d] = "queueing"
        BY <3>3 DEF Enqueue
      <4> QED  BY <3>1, <4>2, <4>3 DEF Placed, Writing, Awaited
    <3> QED
      BY <1>1, <3>2, <3>3, Zenon
      DEF Caller, SendRequest, Enqueue, Await, JoinTask, TaskJoined, Cancel, channels
  <2>2. \A c \in Sends \ {d} : pc'[c] = pc[c]
    BY <1>1, Zenon
    DEF Caller, SendRequest, Enqueue, Await, JoinTask, TaskJoined, Cancel, End, ChatTypeOK
  <2>3. \/ pc[d] = "idle" /\ pc'[d] = "queueing"
        \/ pc[d] = "queueing" /\ pc'[d] = "waiting"
        \/ pc'[d] \notin {"idle", "queueing", "waiting"}
    BY <1>1, Zenon
    DEF Caller, SendRequest, Enqueue, Await, JoinTask, TaskJoined, Cancel, End, ChatTypeOK
  <2>4. reply' = reply
    BY <1>1, CallerFrame, Zenon
  <2> QED  BY <2>1, <2>2, <2>3, <2>4 DEF Untold
<1>2. CASE Quiet
  <2>1. UNCHANGED <<pc, reply, request_rx, writing, outstanding>>
    BY <1>2, QuietFrame DEF requests
  <2> QED  BY <2>1 DEF Untold, Placed, Range, Writing, Awaited
<1>3. CASE Breaks
  <2>1. UNCHANGED <<pc, request_rx, outstanding>> /\ writing' = {}
    BY <1>3, BreaksFrame, Zenon
  <2>2. \A c \in Sends : c \in Placed' => c \in Placed /\ c \notin Writing
    BY <2>1, Zenon DEF Placed, OnePlace, Range, Writing, Awaited
  <2>3. CASE reply' = reply
    BY <2>1, <2>2, <2>3 DEF Untold
  <2>4. ASSUME NEW v \in {"Dropped", "StreamSendFailed"}, Reply(Writing, v)
        PROVE  Untold'
    BY <2>1, <2>2, <2>4, UntoldKept, Zenon DEF Replies
  <2> QED  BY <1>3, <2>3, <2>4, BreaksFrame
<1>4. CASE TakeRequest
  <2>1. request_rx \in Seq(Callers) /\ request_rx # << >> /\ request_rx' = Tail(request_rx)
    BY <1>4 DEF TakeRequest, ChatTypeOK
  <2>2. Range(request_rx') \cup {Head(request_rx)} \subseteq Range(request_rx)
    BY <2>1, Shifted DEF Range
  <2>3. Writing' = {Head(request_rx)} /\ Awaited' = Awaited
    BY <1>4 DEF TakeRequest, Request, Writing, Awaited
  <2>4. Placed' \subseteq Placed
    BY <2>2, <2>3, Zenon DEF Placed
  <2> QED  BY <1>4, <2>4 DEF TakeRequest, Untold, callers
<1>5. CASE Sent
  <2>1. Placed' \subseteq Placed
    BY <1>5, Zenon DEF Sent, RecordSend, Placed, Range, Writing, Awaited, channels
  <2> QED  BY <1>5, <2>1, Zenon DEF Sent, RecordSend, Untold, callers, channels
<1>6. CASE HandleNetworkChange
  <2>1. Writing' = Writing /\ Awaited' = Awaited /\ pc' = pc /\ reply' = reply
    BY <1>6 DEF HandleNetworkChange, callers, writes, inFlight, Writing, Awaited
  <2>2. Range(request_rx') \subseteq Range(request_rx) \cup {Keepalive}
    <3>1. Keepalive \in Callers /\ request_rx \in Seq(Callers)
      BY DEF Callers, ChatTypeOK
    <3>2. Range(Append(request_rx, Keepalive)) \subseteq Range(request_rx) \cup {Keepalive}
      <4>1. \A i \in DOMAIN Append(request_rx, Keepalive) :
               \/ i \in DOMAIN request_rx /\ Append(request_rx, Keepalive)[i] = request_rx[i]
               \/ Append(request_rx, Keepalive)[i] = Keepalive
        BY <3>1, Appended
      <4> QED  BY <4>1, Zenon DEF Range
    <3> QED  BY <1>6, <3>2, Zenon DEF HandleNetworkChange
  <2> QED  BY <2>1, <2>2, ChatAssumption DEF Placed, Untold
<1>7. ASSUME NEW m \in server, ReceivedResponse(m)
      PROVE  Untold'
  <2>1. PICK v \in {"Response", "InvalidResponse"} : FinishSend(m.id, v, m.caller)
    BY <1>7 DEF ReceivedResponse
  <2>2. PICK them : them = {c \in Sends : Request(m.id, c) \in outstanding}
    BY Zenon
  <2>3. Reply(them, v) /\ outstanding' = {r \in outstanding : r.id # m.id}
    BY <2>1, <2>2, Zenon DEF FinishSend
  <2>4. UNCHANGED <<pc, request_rx, writing>>
    BY <1>7 DEF ReceivedResponse, callers, writes
  <2>5. ASSUME NEW c \in Sends, c \in Placed'
        PROVE  c \in Placed /\ c \notin them
    <3>1. c \in Placed
      BY <2>3, <2>4, <2>5, Zenon DEF Placed, Range, Writing, Awaited
    <3>2. ASSUME c \in them
          PROVE  FALSE
      <4>1. PICK r \in outstanding : r.id = m.id /\ r.caller = c
        BY <2>2, <3>2, Zenon DEF Request
      <4>2. c \notin Range(request_rx) \cup Writing
        BY <4>1 DEF OnePlace, Range, Writing, Awaited
      <4>3. c \notin Awaited'
        BY <2>3, <4>1 DEF OnePlace, Awaited
      <4> QED  BY <2>4, <2>5, <4>2, <4>3, Zenon DEF Placed, Range, Writing
    <3> QED  BY <3>1, <3>2, Zenon
  <2> QED  BY <2>3, <2>4, <2>5, UntoldKept DEF Replies
<1>8. CASE ListenerHeardFinished
  <2>1. Drop(Range(request_rx) \cup Awaited) /\ UNCHANGED <<pc, writing>>
    BY <1>8 DEF ListenerHeardFinished, callers, writes
  <2>2. Placed' = {}
    BY <1>8 DEF ListenerHeardFinished, Settled, Ending, Placed, Range, Writing, Awaited, writes
  <2> QED  BY <2>1, <2>2, UntoldKept DEF Drop, Replies
<1>9. CASE Unwound
  <2>1. Drop(Awaited) /\ UNCHANGED <<pc, writing, request_rx>> /\ outstanding' = {}
    BY <1>9 DEF Unwound, callers, writes
  <2>2. \A c \in Sends : c \in Placed' => c \in Placed /\ c \notin Awaited
    BY <2>1 DEF OnePlace, Placed, Range, Writing, Awaited
  <2> QED  BY <2>1, <2>2, UntoldKept DEF Drop, Replies
<1>10. CASE Panic
  <2>1. /\ Drop(Range(request_rx) \cup Writing) /\ UNCHANGED <<pc, outstanding>>
        /\ writing' = {} /\ request_rx' = << >>
    BY <1>10, Zenon DEF Panic, callers, inFlight
  <2>2. \A c \in Sends : c \in Placed' => c \in Placed /\ c \notin Range(request_rx) \cup Writing
    BY <2>1 DEF OnePlace, Placed, Range, Writing, Awaited
  <2> QED  BY <2>1, <2>2, UntoldKept DEF Drop, Replies
<1> QED  BY <1>1, <1>2, <1>3, <1>4, <1>5, <1>6, <1>7, <1>8, <1>9, <1>10, Steps, Zenon

-----------------------------------------------------------------------------
(* The invariants                                                          *)

\* The invariant of Chat and its task holds initially and is preserved by every
\* step of the callers, the task, the listener and the responders.
THEOREM ChatInvariant == Spec => []ChatIInv
<1>1. Init => ChatIInv
  <2> SUFFICES ASSUME Init PROVE ChatIInv
    OBVIOUS
  <2>1. ChatTypeOK
    BY ChatAssumption
    DEF Init, ChatTypeOK, Places, Outcomes, Results, Replies, Callers, Ids, Tasks, Events
  <2>2. Settled /\ OnePlace
    BY DEF Init, Settled, Ending, OnePlace
  <2>3. Untold /\ UniqueIds
    BY DEF Init, Untold, Placed, Range, Writing, Awaited, UniqueIds
  <2>4. OwnResponse /\ ReportsTheReason
    BY DEF Init, OwnResponse, ReportsTheReason
  <2> QED  BY <2>1, <2>2, <2>3, <2>4 DEF ChatIInv
<1>2. ChatIInv /\ [Next]_vars => ChatIInv'
  BY TypeOfCallers, TypeOfOthers, SettledStep, OnePlaceStep, UntoldStep, UniqueIdsStep,
     OwnResponseStep, ReportsTheReasonStep, Zenon
  DEF ChatIInv
<1> QED  BY <1>1, <1>2, PTL DEF Spec

\* A call of send never gets the response made for another request, for any
\* number of calls and any order of responses (record_send, finish_send).
THEOREM ResponsesAreOwn == Spec => []OwnResponse
<1>1. ChatIInv => OwnResponse
  BY DEF ChatIInv
<1> QED  BY <1>1, ChatInvariant, PTL

\* A call whose request the task dropped returns only once the task did, and
\* reports why it ended (get_task_finish_error, wait_for_task_to_finish).
THEOREM ReasonIsReported == Spec => []ReportsTheReason
<1>1. ChatIInv => ReportsTheReason
  BY DEF ChatIInv
<1> QED  BY <1>1, ChatInvariant, PTL

\* Whoever finds Chat::state finished can rely on the listener having handled
\* Finished, and on the HTTP/2 connection being closed (spawned_task_body).
THEOREM ListenerIsTold == Spec => []ToldBeforeJoined
<1>1. ChatIInv => ToldBeforeJoined
  BY DEF ChatIInv, ChatTypeOK, Settled, Ending, ToldBeforeJoined
<1> QED  BY <1>1, ChatInvariant, PTL

-----------------------------------------------------------------------------
(* The service                                                             *)

call == [c \in Sends |-> Verdict(c)]

\* The calls as the service sees them after a step.
LEMMA OneMoves ==
    ASSUME NEW c \in Sends, \A d \in Sends \ {c} : Verdict(d)' = Verdict(d)
    PROVE  call' = [call EXCEPT ![c] = Verdict(c)']
BY Zenon DEF call

LEMMA NoneMoves ==
    ASSUME \A d \in Sends : Verdict(d)' = Verdict(d)
    PROVE  call' = call
BY DEF call

\* How the service sees a step: nothing happens, one call moves, or the link does.
LEMMA ServiceStutters ==
    ASSUME \A d \in Sends : Verdict(d)' = Verdict(d), Link' = Link
    PROVE  [Service!Next]_(Service!vars)
BY NoneMoves DEF Service!vars, call

LEMMA ServiceMoves ==
    ASSUME NEW c \in Sends, \A d \in Sends \ {c} : Verdict(d)' = Verdict(d), Link' = Link,
           \/ Verdict(c)' = Verdict(c)
           \/ Verdict(c) = "idle" /\ Verdict(c)' = "pending"
           \/ Verdict(c) = "idle" /\ Verdict(c)' = "failed" /\ Link # "up"
           \/ Verdict(c) = "pending" /\ Verdict(c)' = "answered" /\ Link # "down"
           \/ Verdict(c) = "pending" /\ Verdict(c)' \in {"failed", "abandoned"}
    PROVE  [Service!Next]_(Service!vars)
<1>1. call' = [call EXCEPT ![c] = Verdict(c)'] /\ call[c] = Verdict(c)
  BY OneMoves DEF call
<1>2. CASE Verdict(c)' = Verdict(c)
  BY <1>2, ServiceStutters
<1>3. CASE Verdict(c)' # Verdict(c)
  BY <1>1, <1>3, Zenon
  DEF Service!Next, Service!Begin, Service!Refuse, Service!Answer, Service!Reject, Service!Lose,
      Service!Abandon, Service!Move, call
<1> QED  BY <1>2, <1>3, Zenon

LEMMA ServiceBreaks ==
    ASSUME Link # "down", Link' = "down",
           \/ \A d \in Sends : Verdict(d)' = Verdict(d)
           \/ \E c \in Sends : /\ \A d \in Sends \ {c} : Verdict(d)' = Verdict(d)
                               /\ Verdict(c) = "pending" /\ Verdict(c)' = "failed"
    PROVE  [Service!Next]_(Service!vars)
<1>1. CASE \A d \in Sends : Verdict(d)' = Verdict(d)
  BY <1>1, NoneMoves DEF Service!Next, Service!Break, call
<1>2. ASSUME NEW c \in Sends, \A d \in Sends \ {c} : Verdict(d)' = Verdict(d),
             Verdict(c) = "pending", Verdict(c)' = "failed"
      PROVE  [Service!Next]_(Service!vars)
  <2>1. call' = [call EXCEPT ![c] = "failed"] /\ call[c] = "pending"
    BY <1>2, OneMoves, Zenon DEF call
  <2> QED  BY <2>1, Zenon DEF Service!Next, Service!Break, call
<1> QED  BY <1>1, <1>2

\* The steps of a caller.
LEMMA CallerServed ==
    ASSUME ChatTypeOK, Settled, Untold, NEW c \in Sends, Caller(c)
    PROVE  [Service!Next]_(Service!vars)
<1>0. /\ pc \in [Sends -> Places] /\ reply \in [Sends -> Replies]
      /\ state \in {"MaybeStillRunning", "SignaledToEnd", "Finished"}
  BY DEF ChatTypeOK
<1>1. \A d \in Sends \ {c} : Verdict(d)' = Verdict(d)
  <2>1. \A d \in Sends \ {c} : pc'[d] = pc[d]
    BY <1>0, Zenon DEF Caller, SendRequest, Enqueue, Await, JoinTask, TaskJoined, Cancel, End
  <2> QED  BY <2>1, CallerFrame DEF Verdict
<1>2. reply' = reply /\ task' = task
  BY CallerFrame
<1>3. CASE SendRequest(c)
  <2>1. Link' = Link /\ Verdict(c) = "idle" /\ reply[c] = "Empty"
    BY <1>0, <1>2, <1>3 DEF SendRequest, Link, Verdict, Untold
  <2>2. CASE pc'[c] = "queueing"
    BY <1>0, <1>1, <1>2, <2>1, <2>2, ServiceMoves, Zenon DEF Verdict
  <2>3. CASE pc'[c] = "ended" /\ state # "MaybeStillRunning"
    <3>1. Link # "up"
      BY <1>0, <2>3 DEF Link, Settled
    <3> QED  BY <1>0, <1>1, <1>2, <2>1, <2>3, <3>1, ServiceMoves, Zenon DEF Verdict
  <2> QED  BY <1>0, <1>3, <2>2, <2>3, Zenon DEF SendRequest, End
<1>4. CASE Enqueue(c) \/ Await(c) \/ JoinTask(c)
  <2>1. Verdict(c)' = Verdict(c) /\ Link' = Link
    BY <1>0, <1>2, <1>4, Zenon DEF Enqueue, Await, JoinTask, End, Verdict, Link, Replies
  <2> QED  BY <1>1, <2>1, ServiceStutters
<1>5. CASE TaskJoined(c)
  <2>1. Link' = Link
    BY <1>0, <1>2, <1>5, Zenon DEF TaskJoined, Link, Settled
  <2>2. Verdict(c)' = Verdict(c) \/ (Verdict(c) = "pending" /\ Verdict(c)' = "failed")
    BY <1>0, <1>2, <1>5, Zenon DEF TaskJoined, End, Verdict
  <2> QED  BY <1>1, <2>1, <2>2, ServiceMoves, Zenon
<1>6. CASE Cancel(c)
  <2>1. Link' = Link
    BY <1>0, <1>2, <1>6, Zenon DEF Cancel, Link
  <2>2. Verdict(c)' = Verdict(c) \/ (Verdict(c) = "pending" /\ Verdict(c)' = "abandoned")
    BY <1>0, <1>2, <1>6, Zenon DEF Cancel, InProgress, Verdict
  <2> QED  BY <1>1, <2>1, <2>2, ServiceMoves, Zenon
<1> QED  BY <1>3, <1>4, <1>5, <1>6, Zenon DEF Caller

\* Nothing is taken back: a channel that is dropped was empty.
LEMMA DropKeepsVerdicts ==
    ASSUME ChatTypeOK, Untold, pc' = pc, NEW them, Drop(them),
           \A c \in Sends : c \in them => c \in Placed
    PROVE  \A d \in Sends : Verdict(d)' = Verdict(d)
<1>1. \A d \in Sends : reply'[d] = IF d \in them /\ pc[d] = "waiting" THEN "Dropped" ELSE reply[d]
  BY Replied DEF Drop, Replies
<1>2. \A d \in Sends : d \in them /\ pc[d] = "waiting" => reply[d] = "Empty"
  BY Zenon DEF Untold
<1> QED  BY <1>1, <1>2 DEF Verdict

\* The steps that move no request.
LEMMA QuietServed ==
    ASSUME ChatTypeOK, Quiet
    PROVE  [Service!Next]_(Service!vars)
<1>1. \A d \in Sends : Verdict(d)' = Verdict(d)
  BY QuietFrame DEF Verdict
<1>2. Link' = Link \/ (Link = "up" /\ Link' = "leaving")
  BY Zenon DEF ChatTypeOK, Tasks, Link, Quiet, Disconnect, IsConnected, SendResponse,
         NetworkChange, TakeResponse, ReceivedRequest, AlertsReported, ListenerHeardRequest,
         TaskReturns, OutstandingRequestTimeout, vars, callers
<1> QED  BY <1>1, <1>2, ServiceStutters, NoneMoves DEF Service!Next, Service!Leave, call

\* The steps that end the loop.
LEMMA BreaksServed ==
    ASSUME ChatTypeOK, Untold, UniqueIds, Breaks
    PROVE  [Service!Next]_(Service!vars)
<1>1. Link # "down" /\ Link' = "down" /\ pc' = pc
  BY BreaksFrame, Zenon DEF Link
<1>2. CASE reply' = reply
  BY <1>1, <1>2, ServiceBreaks, Zenon DEF Verdict
<1>3. CASE Reply(Writing, "Dropped")
  BY <1>1, <1>3, DropKeepsVerdicts, ServiceBreaks DEF Drop, Placed
<1>4. CASE Reply(Writing, "StreamSendFailed")
  <2>1. \A d \in Sends : reply'[d] = IF d \in Writing /\ pc[d] = "waiting"
                                     THEN "StreamSendFailed" ELSE reply[d]
    BY <1>4, Replied, Zenon DEF Replies
  <2>2. CASE \E c \in Sends : c \in Writing /\ pc[c] = "waiting"
    <3>1. PICK c \in Sends : c \in Writing /\ pc[c] = "waiting"
      BY <2>2, Zenon
    <3>2. \A d \in Sends \ {c} : d \notin Writing
      BY <3>1, Zenon DEF UniqueIds, Writing
    <3>3. \A d \in Sends \ {c} : Verdict(d)' = Verdict(d)
      BY <1>1, <2>1, <3>2, Zenon DEF Verdict
    <3>4. reply[c] = "Empty"
      BY <3>1 DEF Untold, Placed
    <3>5. Verdict(c) = "pending" /\ Verdict(c)' = "failed"
      BY <1>1, <2>1, <3>1, <3>4 DEF Verdict
    <3> QED  BY <1>1, <3>3, <3>5, ServiceBreaks
  <2>3. CASE ~ \E c \in Sends : c \in Writing /\ pc[c] = "waiting"
    BY <1>1, <2>1, <2>3, ServiceBreaks, Zenon DEF Verdict
  <2> QED  BY <2>2, <2>3, Zenon
<1> QED  BY <1>2, <1>3, <1>4, BreaksFrame, Zenon

\* A response is given to the one call it belongs to.
LEMMA ResponseServed ==
    ASSUME ChatTypeOK, Untold, UniqueIds, NEW m \in server, ReceivedResponse(m)
    PROVE  [Service!Next]_(Service!vars)
<1>1. PICK v \in {"Response", "InvalidResponse"} : FinishSend(m.id, v, m.caller)
  BY DEF ReceivedResponse
<1>2. PICK them : them = {c \in Sends : Request(m.id, c) \in outstanding}
  BY Zenon
<1>3. \A d \in Sends : reply'[d] = IF d \in them /\ pc[d] = "waiting" THEN v ELSE reply[d]
  <2>1. Reply(them, v)
    BY <1>1, <1>2, Zenon DEF FinishSend
  <2>2. v \in Replies
    BY DEF Replies
  <2> QED  BY <2>1, <2>2, Replied, Zenon
<1>4. pc' = pc /\ Link' = Link /\ Link # "down"
  BY Zenon DEF ReceivedResponse, Link, callers
<1>5. CASE \E c \in them : pc[c] = "waiting"
  <2>1. PICK c \in them : pc[c] = "waiting"
    BY <1>5
  <2>2. c \in Sends /\ Request(m.id, c) \in outstanding
    BY <1>2, Zenon
  <2>3. \A d \in them : d = c
    BY <1>2, <2>2 DEF UniqueIds, Request
  <2>4. \A d \in Sends \ {c} : Verdict(d)' = Verdict(d)
    BY <1>3, <1>4, <2>3, Zenon DEF Verdict
  <2>5. reply[c] = "Empty"
    BY <2>1, <2>2 DEF Untold, Placed, Awaited, Request
  <2>6. Verdict(c) = "pending" /\ Verdict(c)' \in {"answered", "failed"}
    BY <1>3, <1>4, <2>1, <2>2, <2>5, Zenon DEF Verdict
  <2> QED  BY <1>4, <2>2, <2>4, <2>6, ServiceMoves
<1>6. CASE ~ \E c \in them : pc[c] = "waiting"
  BY <1>3, <1>4, <1>6, ServiceStutters DEF Verdict
<1> QED  BY <1>5, <1>6

\* Every step is one of the service, or leaves it alone.
LEMMA StepServed ==
    ASSUME ChatTypeOK, Settled, Untold, UniqueIds, [Next]_vars
    PROVE  [Service!Next]_(Service!vars)
<1>1. CASE TakeRequest \/ Sent \/ HandleNetworkChange
  <2>1. pc' = pc /\ reply' = reply /\ Link' = Link
    BY <1>1, Zenon DEF TakeRequest, Sent, RecordSend, HandleNetworkChange, Link, callers, channels
  <2> QED  BY <2>1, ServiceStutters DEF Verdict
<1>2. CASE ListenerHeardFinished \/ Unwound
  <2>1. pc' = pc /\ Link' = Link
    BY <1>2 DEF ListenerHeardFinished, Unwound, Link, callers
  <2>2. Drop(Range(request_rx) \cup Awaited) \/ Drop(Awaited)
    BY <1>2 DEF ListenerHeardFinished, Unwound
  <2> QED  BY <2>1, <2>2, DropKeepsVerdicts, ServiceStutters, Zenon DEF Placed
<1>3. CASE Panic
  <2>1. pc' = pc /\ Link # "down" /\ Link' = "down" /\ Drop(Range(request_rx) \cup Writing)
    BY <1>3 DEF Panic, Link, callers
  <2> QED  BY <2>1, DropKeepsVerdicts, ServiceBreaks DEF Placed
<1> QED
  BY <1>1, <1>2, <1>3, Steps, CallerServed, QuietServed, BreaksServed, ResponseServed, Zenon

\* The chat connection of ws.rs implements the service of ChatService step by
\* step: one verdict per call of send, none but errors once the task is ending.
THEOREM ImplementsService == Spec => Service!Init /\ [][Service!Next]_(Service!vars)
<1>1. Init => Service!Init
  BY DEF Init, Service!Init, Verdict, Link
<1>2. ChatIInv /\ [Next]_vars => [Service!Next]_(Service!vars)
  BY StepServed DEF ChatIInv
<1> QED  BY <1>1, <1>2, ChatInvariant, PTL DEF Spec
===============================================================================
