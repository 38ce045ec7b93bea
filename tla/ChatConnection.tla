---------------------------- MODULE ChatConnection ----------------------------
(***************************************************************************)
(* The chat connection (net/src/chat/ws.rs): callers of Chat::send,        *)
(* Chat::disconnect and Chat::is_connected, the task behind them, the      *)
(* listener the task reports to, and the responders the listener is given. *)
(* Every .await of the callers and of the task ends a step; a caller may   *)
(* be cancelled at each of its own.  The lock on Chat::state is held       *)
(* across an .await in one place only, by a caller that joins the task.    *)
(*                                                                         *)
(* The websocket is seen through the events it hands to the task (see      *)
(* WsConnection for how it makes them): the server answers the requests it *)
(* got in any order, repeatedly or never.  Messages that change nothing    *)
(* (pings, undecodable ones, answers to unknown requests) are left out.    *)
(***************************************************************************)
EXTENDS Integers, Sequences, Functions

CONSTANTS
    Sends,               \* calls of Chat::send
    Keepalive,           \* the request the task sends itself
    REQUEST_CHANNEL_SIZE,  \* 1
    IdSpace,             \* number of request ids: 2^64
    InitialId,           \* Config::initial_request_id
    MaxPushes,           \* bounds on the requests of the server,
    MaxNetworkChanges,   \* the network changes
    MaxChecks            \* and the interface checks for one request

ASSUME ChatAssumption ==
    /\ IdSpace \in Nat \ {0} /\ InitialId \in 0 .. IdSpace - 1
    /\ Keepalive \notin Sends

VARIABLES
    state,        \* Chat::state
    lock,         \* the call that holds its lock across an await: << >> or <<c>>
    pc,           \* where each call of send_request is
    outcome,      \* what it returned
    reply,        \* what its oneshot channel holds
    answerTo,     \* the request that a response was made for
    request_rx,   \* requests queued for the task
    response_rx,  \* number of responses queued for the task
    sending,      \* what the websocket is writing: "nothing", "request" or "response"
    writing,      \* the request it is writing: a set of at most one
    next_id,      \* request_id
    outstanding,  \* outstanding_reqs: a set of requests, see Request
    oldest,       \* oldest_outstanding_req_sent_at: a set of at most one [id, checks]
    task,         \* where the task is
    result,       \* what it will return
    listener,     \* "set", "busy" or "gone" (it panicked)
    heard,        \* events the listener was called with
    responders,   \* responders the application still has
    server,       \* requests the server got
    network,      \* [seen: changes so far, pending: one not yet handled]
    h2            \* the shared HTTP/2 connection

callers == <<state, lock, pc, outcome>>
channels == <<reply, answerTo, request_rx, response_rx>>
writes == <<sending, writing>>
inFlight == <<next_id, outstanding, oldest>>
events == <<listener, heard, responders>>
vars == <<callers, channels, writes, inFlight, task, result, events, server, network, h2>>

Init ==
    /\ state = "MaybeStillRunning" /\ lock = << >>
    /\ pc = [c \in Sends |-> "idle"]
    /\ outcome = [c \in Sends |-> "none"]
    /\ reply = [c \in Sends |-> "Empty"]
    /\ answerTo = [c \in Sends |-> c]
    /\ request_rx = << >> /\ response_rx = 0
    /\ sending = "nothing" /\ writing = {} /\ next_id = InitialId
    /\ outstanding = {} /\ oldest = {}
    /\ task = "reporting" /\ result = "none"
    /\ listener = "busy" /\ heard = <<"ReceivedAlerts">> /\ responders = 0
    /\ server = {}
    /\ network = [seen |-> 0, pending |-> FALSE]
    /\ h2 \in {"absent", "open"}

-----------------------------------------------------------------------------
(* The channels                                                            *)

\* Calls that still have their clone of request_tx: it lives to the end of
\* send_request.
InProgress == {c \in Sends : pc[c] \in {"queueing", "waiting", "joining", "holding"}}

\* Some strong sender of requests is left.
RequestsOpen == state = "MaybeStillRunning" \/ InProgress # {}

\* The responders hold the other channel only weakly.
ResponsesOpen == state = "MaybeStillRunning"

\* The task has dropped the receiving ends of both channels.
ReceiversDropped == task \in {"exiting", "unwinding", "done"}

\* Put a value into the oneshot channels of a set of callers; nobody listens to
\* the channel of a cancelled call, or of a keepalive.
Reply(them, value) ==
    reply' = [c \in Sends |-> IF c \in them /\ pc[c] = "waiting" THEN value ELSE reply[c]]

\* Drop the sending ends of their channels.
Drop(them) == Reply(them, "Dropped")

Request(id, caller) == [id |-> id, caller |-> caller]

\* The caller whose request the websocket is writing.
Writing == {r.caller : r \in writing}

\* The callers whose requests are in flight.
Awaited == {r.caller : r \in outstanding}

-----------------------------------------------------------------------------
(* Chat::send, Chat::disconnect and Chat::is_connected                     *)

\* SendError::from(&TaskErrorState), and the error for a graceful end.
SendErrorOf(r) == IF r \in {"ConnectedElsewhere", "ConnectionInvalidated"} THEN r
                  ELSE "SocketClosed"

End(c, value) ==
    /\ pc' = [pc EXCEPT ![c] = "ended"]
    /\ outcome' = [outcome EXCEPT ![c] = value]

\* Faulty variant: a full channel is taken for a closed one (try_send).
SendRequestUnlessFull(c) ==
    /\ pc[c] = "idle" /\ lock = << >>
    /\ IF state = "MaybeStillRunning" /\ Len(request_rx) < REQUEST_CHANNEL_SIZE
       THEN pc' = [pc EXCEPT ![c] = "queueing"] /\ UNCHANGED outcome
       ELSE End(c, "SocketClosed")
    /\ UNCHANGED <<state, lock, channels, writes, inFlight, task, result, events, server,
                   network, h2>>

\* send_request up to the clone of request_tx.
SendRequest(c) ==
    /\ pc[c] = "idle" /\ lock = << >>
    /\ CASE state = "MaybeStillRunning" ->
              pc' = [pc EXCEPT ![c] = "queueing"] /\ UNCHANGED outcome
         [] state = "SignaledToEnd" -> End(c, "SocketClosed")
         [] state = "Finished" -> End(c, SendErrorOf(result))
    /\ UNCHANGED <<state, lock, channels, writes, inFlight, task, result, events, server,
                   network, h2>>

\* tx.send: waits for room, fails once the receiver is dropped.
Enqueue(c) ==
    /\ pc[c] = "queueing"
    /\ \/ /\ ~ ReceiversDropped /\ Len(request_rx) < REQUEST_CHANNEL_SIZE
          /\ request_rx' = Append(request_rx, c)
          /\ pc' = [pc EXCEPT ![c] = "waiting"]
       \/ /\ ReceiversDropped
          /\ pc' = [pc EXCEPT ![c] = "joining"]
          /\ UNCHANGED request_rx
    /\ UNCHANGED <<state, lock, outcome, reply, answerTo, response_rx, writes, inFlight, task,
                   result, events, server, network, h2>>

\* receiver.await.
Await(c) ==
    /\ pc[c] = "waiting" /\ reply[c] # "Empty"
    /\ IF reply[c] = "Dropped"
       THEN pc' = [pc EXCEPT ![c] = "joining"] /\ UNCHANGED outcome
       ELSE End(c, reply[c])
    /\ UNCHANGED <<state, lock, channels, writes, inFlight, task, result, events, server,
                   network, h2>>

\* get_task_finish_error: take the lock ...
JoinTask(c) ==
    /\ pc[c] = "joining" /\ lock = << >>
    /\ lock' = <<c>>
    /\ pc' = [pc EXCEPT ![c] = "holding"]
    /\ UNCHANGED <<state, outcome, channels, writes, inFlight, task, result, events, server,
                   network, h2>>

\* Faulty variant: the task is not waited for.
TaskJoinedEarly(c) ==
    /\ pc[c] = "holding"
    /\ state' = "Finished"
    /\ lock' = << >>
    /\ End(c, SendErrorOf(result))
    /\ UNCHANGED <<channels, writes, inFlight, task, result, events, server, network, h2>>

\* ... and keep it until the task has returned (wait_for_task_to_finish).
TaskJoined(c) ==
    /\ pc[c] = "holding"
    /\ state = "Finished" \/ task = "done"
    /\ state' = "Finished"
    /\ lock' = << >>
    /\ End(c, SendErrorOf(result))
    /\ UNCHANGED <<channels, writes, inFlight, task, result, events, server, network, h2>>

\* The application drops the future of a call.
Cancel(c) ==
    /\ c \in InProgress
    /\ pc' = [pc EXCEPT ![c] = "cancelled"]
    /\ lock' = IF lock = <<c>> THEN << >> ELSE lock
    /\ UNCHANGED <<state, outcome, channels, writes, inFlight, task, result, events, server,
                   network, h2>>

Disconnect ==
    /\ lock = << >> /\ state = "MaybeStillRunning"
    /\ state' = "SignaledToEnd"
    /\ UNCHANGED <<lock, pc, outcome, channels, writes, inFlight, task, result, events, server,
                   network, h2>>

\* is_connected, when it is the first to observe that the task has returned.
IsConnected ==
    /\ lock = << >> /\ state = "MaybeStillRunning" /\ task = "done"
    /\ state' = "Finished"
    /\ UNCHANGED <<lock, pc, outcome, channels, writes, inFlight, task, result, events, server,
                   network, h2>>

\* Responder::send_response: without effect once both ends are not there.
SendResponse ==
    /\ responders > 0
    /\ responders' = responders - 1
    /\ response_rx' = IF ResponsesOpen /\ ~ ReceiversDropped THEN response_rx + 1
                      ELSE response_rx
    /\ UNCHANGED <<callers, reply, answerTo, request_rx, writes, inFlight, task, result,
                   listener, heard, server, network, h2>>

-----------------------------------------------------------------------------
(* The task                                                                *)

\* Call the listener.  One that panicked was replaced by one that does nothing.
Announce(event) ==
    /\ listener' = IF listener = "gone" THEN "gone" ELSE "busy"
    /\ heard' = IF listener = "gone" THEN heard ELSE Append(heard, event)

\* The call returns or panics.
ListenerReturns == listener' \in IF listener = "gone" THEN {"gone"} ELSE {"set", "gone"}

\* Faulty variant: the shared HTTP/2 connection is left alone.
FinishWebsocketOnly(r) ==
    /\ task' = "finishing" /\ result' = r
    /\ sending' = "nothing" /\ writing' = {}
    /\ UNCHANGED h2
    /\ Announce("Finished")

\* handle_one_event returned Finished, or abandoned the event it waited for:
\* close the shared HTTP/2 connection and tell the listener.
Finish(r) ==
    /\ task' = "finishing" /\ result' = r
    /\ sending' = "nothing" /\ writing' = {}
    /\ h2' = IF h2 = "open" THEN "closed" ELSE h2
    /\ Announce("Finished")

AlertsReported ==
    /\ task = "reporting" /\ task' = "looping"
    /\ ListenerReturns
    /\ UNCHANGED <<callers, channels, writes, inFlight, result, heard, responders, server,
                   network, h2>>

\* Faulty variant: all requests are sent with one id.
SameRequestId(id) == id

\* request_id.wrapping_add(1).
NextRequestId(id) == IF id = IdSpace - 1 THEN 0 ELSE id + 1

\* Bound: a connection ends before it has used every request id.
IdsLeft == next_id # IF InitialId = 0 THEN IdSpace - 1 ELSE InitialId - 1

\* The websocket takes a request or a response from the merged channels.
TakeRequest ==
    /\ task = "looping" /\ sending = "nothing"
    /\ request_rx # << >> /\ IdsLeft
    /\ sending' = "request"
    /\ writing' = {Request(next_id, Head(request_rx))}
    /\ request_rx' = Tail(request_rx)
    /\ next_id' = NextRequestId(next_id)
    /\ UNCHANGED <<callers, reply, answerTo, response_rx, outstanding, oldest, task, result,
                   events, server, network, h2>>

TakeResponse ==
    /\ task = "looping" /\ sending = "nothing"
    /\ response_rx > 0
    /\ sending' = "response"
    /\ response_rx' = response_rx - 1
    /\ UNCHANGED <<callers, reply, answerTo, request_rx, writing, inFlight, task, result, events,
                   server, network, h2>>

\* InFlightRequests::record_send, which asserts that the id is new; a response is
\* not recorded.
RecordSend ==
    /\ \A w \in writing, r \in outstanding : r.id # w.id
    /\ outstanding' = outstanding \cup writing
    /\ oldest' = IF oldest = {} THEN {[id |-> w.id, checks |-> 0] : w \in writing} ELSE oldest

\* SentMessage.
Sent ==
    /\ task = "looping" /\ sending # "nothing"
    /\ RecordSend
    /\ server' = server \cup writing
    /\ sending' = "nothing" /\ writing' = {}
    /\ UNCHANGED <<callers, channels, next_id, task, result, events, network, h2>>

\* SendFailed: the connection ends, gracefully if the server had closed it.
SendFailed ==
    /\ task = "looping" /\ sending # "nothing"
    /\ \E r \in {"RemoteDisconnect", "SendFailed"} : Finish(r)
    /\ Reply(Writing, "StreamSendFailed")
    /\ UNCHANGED <<callers, answerTo, request_rx, response_rx, inFlight, responders, server,
                   network>>

\* ClientDisconnect: both channels are empty and nobody can fill them.
ClientDisconnect ==
    /\ task = "looping" /\ sending = "nothing"
    /\ request_rx = << >> /\ ~ RequestsOpen
    /\ response_rx = 0 /\ ~ ResponsesOpen
    /\ \E r \in {"LocalDisconnect", "SendFailed"} : Finish(r)
    /\ UNCHANGED <<callers, channels, inFlight, responders, server, network>>

\* The server closes the connection, or it breaks, or has been idle too long.
ConnectionEnds ==
    /\ task = "looping" /\ sending = "nothing"
    /\ \E r \in {"RemoteDisconnect", "ConnectedElsewhere", "ConnectionInvalidated", "Broken"} :
          Finish(r)
    /\ UNCHANGED <<callers, channels, inFlight, responders, server, network>>

\* InFlightRequests::finish_send, for a response the server made for a request.
FinishSend(id, value, request) ==
    LET finished == {c \in Sends : Request(id, c) \in outstanding} IN
    /\ outstanding' = {r \in outstanding : r.id # id}
    /\ oldest' = {o \in oldest : o.id # id}
    /\ Reply(finished, value)
    /\ answerTo' = [c \in Sends |-> IF c \in finished THEN request ELSE answerTo[c]]

\* A response to a request the server got, well-formed or not.
ReceivedResponse(m) ==
    /\ task = "looping" /\ sending = "nothing"
    /\ \E value \in {"Response", "InvalidResponse"} : FinishSend(m.id, value, m.caller)
    /\ UNCHANGED <<callers, request_rx, response_rx, writes, next_id, task, result, events,
                   server, network, h2>>

\* A request of the server: the task waits for the listener to return.
ReceivedRequest ==
    /\ task = "looping" /\ sending = "nothing"
    /\ Len(heard) <= MaxPushes
    /\ Announce("ReceivedMessage")
    /\ responders' = IF listener = "gone" THEN responders ELSE responders + 1
    /\ task' = "listening"
    /\ UNCHANGED <<callers, channels, writes, inFlight, result, server, network, h2>>

ListenerHeardRequest ==
    /\ task = "listening" /\ task' = "looping"
    /\ ListenerReturns
    /\ UNCHANGED <<callers, channels, writes, inFlight, result, heard, responders, server,
                   network, h2>>

\* wait_for_h2_shutdown: also while a message is being written.
H2Shutdown ==
    /\ task = "looping" /\ h2 = "open"
    /\ Finish("Broken")
    /\ Drop(Writing)
    /\ UNCHANGED <<callers, answerTo, request_rx, response_rx, inFlight, responders, server,
                   network>>

NetworkChange ==
    /\ network.seen < MaxNetworkChanges
    /\ network' = [seen |-> network.seen + 1, pending |-> TRUE]
    /\ UNCHANGED <<callers, channels, writes, inFlight, task, result, events, server, h2>>

\* handle_interruption for a network change, which is awaited only while no
\* request is watched: queue a keepalive if there is room.
HandleNetworkChange ==
    /\ task = "looping" /\ oldest = {}
    /\ network.pending
    /\ network' = [network EXCEPT !.pending = FALSE]
    /\ request_rx' = IF RequestsOpen /\ Len(request_rx) < REQUEST_CHANNEL_SIZE
                     THEN Append(request_rx, Keepalive) ELSE request_rx
    /\ UNCHANGED <<callers, reply, answerTo, response_rx, writes, inFlight, task, result,
                   events, server, h2>>

\* handle_interruption for the watched request: go on if the connection still
\* uses the default interface, else give it up.
OutstandingRequestTimeout ==
    /\ task = "looping" /\ oldest # {}
    /\ \/ /\ \A o \in oldest : o.checks < MaxChecks
          /\ oldest' = {[o EXCEPT !.checks = o.checks + 1] : o \in oldest}
          /\ UNCHANGED <<channels, writes, task, result, listener, heard, h2>>
       \/ /\ Finish("Broken")
          /\ Drop(Writing)
          /\ UNCHANGED <<answerTo, request_rx, response_rx, oldest>>
    /\ UNCHANGED <<callers, next_id, outstanding, responders, server, network>>

\* The end of spawned_task_body: the listener was told, then the websocket with
\* the receiving ends and the in-flight requests are dropped.
ListenerHeardFinished ==
    /\ task = "finishing" /\ task' = "exiting"
    /\ ListenerReturns
    /\ request_rx' = << >> /\ response_rx' = 0
    /\ outstanding' = {} /\ oldest' = {}
    /\ Drop(Range(request_rx) \cup Awaited)
    /\ UNCHANGED <<callers, answerTo, writes, next_id, result, heard, responders, server,
                   network, h2>>

TaskReturns ==
    /\ task = "exiting" /\ task' = "done"
    /\ UNCHANGED <<callers, channels, writes, inFlight, result, events, server, network, h2>>

\* A panic in the task: the websocket is dropped first, then the guards tell the
\* listener, then the in-flight requests are dropped.
Panic ==
    /\ task = "looping" /\ task' = "unwinding"
    /\ result' = "Panic"
    /\ sending' = "nothing" /\ writing' = {}
    /\ request_rx' = << >> /\ response_rx' = 0
    /\ Drop(Range(request_rx) \cup Writing)
    /\ h2' = IF h2 = "open" THEN "closed" ELSE h2
    /\ Announce("Finished")
    /\ UNCHANGED <<callers, answerTo, inFlight, responders, server, network>>

Unwound ==
    /\ task = "unwinding" /\ task' = "done"
    /\ ListenerReturns
    /\ outstanding' = {} /\ oldest' = {}
    /\ Drop(Awaited)
    /\ UNCHANGED <<callers, answerTo, request_rx, response_rx, writes, next_id, result, heard,
                   responders, server, network, h2>>
-----------------------------------------------------------------------------
Caller(c) == SendRequest(c) \/ Enqueue(c) \/ Await(c) \/ JoinTask(c) \/ TaskJoined(c) \/ Cancel(c)

ListenerSteps == AlertsReported \/ ListenerHeardRequest \/ ListenerHeardFinished \/ Unwound

Next ==
    \/ \E c \in Sends : Caller(c)
    \/ Disconnect \/ IsConnected \/ SendResponse
    \/ TakeRequest \/ TakeResponse \/ Sent \/ SendFailed
    \/ ClientDisconnect \/ ConnectionEnds
    \/ \E m \in server : ReceivedResponse(m)
    \/ ReceivedRequest \/ ListenerSteps
    \/ H2Shutdown \/ NetworkChange \/ HandleNetworkChange \/ OutstandingRequestTimeout
    \/ TaskReturns \/ Panic

Spec == Init /\ [][Next]_vars

-----------------------------------------------------------------------------
Callers == Sends \cup {Keepalive}
Ids == 0 .. IdSpace - 1
Results == {"none", "LocalDisconnect", "RemoteDisconnect", "ConnectedElsewhere",
            "ConnectionInvalidated", "SendFailed", "Broken", "Panic"}
Replies == {"Empty", "Dropped", "Response", "InvalidResponse", "StreamSendFailed"}

\* A call never gets the response made for another request, however the server
\* orders and repeats its responses (request ids, record_send, finish_send).
OwnResponse == \A c \in Sends : reply[c] = "Response" => answerTo[c] = c

\* Whoever sees that the task has ended can rely on the listener having
\* handled Finished, unless it panicked, and on the shared HTTP/2 connection being closed.
ToldBeforeJoined ==
    state = "Finished" =>
        /\ listener # "gone" => listener = "set" /\ heard[Len(heard)] = "Finished"
        /\ h2 # "open"

\* A call whose request is dropped with the connection returns only after the task
\* did, and reports why it ended.
ReportsTheReason ==
    \A c \in Sends :
        pc[c] = "ended" /\ reply[c] = "Dropped" => task = "done" /\ outcome[c] = SendErrorOf(result)

\* Where a call and the connection stand, as the callers see them.
Verdict(c) ==
    IF pc[c] = "idle" THEN "idle"
    ELSE IF reply[c] = "Response" THEN "answered"
    ELSE IF reply[c] \in {"InvalidResponse", "StreamSendFailed"} THEN "failed"
    ELSE IF pc[c] = "cancelled" THEN "abandoned"
    ELSE IF pc[c] = "ended" THEN "failed" ELSE "pending"
Link ==
    IF task \in {"finishing", "exiting", "unwinding", "done"} THEN "down"
    ELSE IF state = "SignaledToEnd" THEN "leaving" ELSE "up"

Service == INSTANCE ChatService WITH call <- [c \in Sends |-> Verdict(c)], link <- Link

\* The connection implements the service its callers may rely on.
ServiceSpec == Service!Spec
==============================================================================
