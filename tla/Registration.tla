---------------------------- MODULE Registration ----------------------------
(***************************************************************************)
(* The registration client (net/chat/src/registration.rs) and its lazy     *)
(* connection (registration/service.rs).  Calls borrow the service         *)
(* mutably, so there is one at a time, and any of them may be dropped      *)
(* half-way.  Each connection has a task with a queue of                   *)
(* MAX_PENDING_REQUESTS; a call that loses its connection makes a new one  *)
(* and sends its request again.  The session is abstracted to a version:   *)
(* the number of requests the server has executed.                         *)
(***************************************************************************)
EXTENDS Integers, Sequences, Functions, FiniteSetsExt

CONSTANTS
    MAX_PENDING_REQUESTS,
    MaxCalls, MaxConns,      \* bounds on calls and on connections made
    MaxFaults                \* bound on connections lost, connects that fail for good, and errors

ASSUME RegistrationAssumption ==
    /\ {MAX_PENDING_REQUESTS, MaxCalls, MaxConns} \subseteq Nat \ {0}
    /\ MaxFaults \in Nat

VARIABLES
    service,   \* "none", "starting" in create_session or resume_session, then "open", "gone"
    client,    \* the call: [call, kind, pc, att, answer]; att is the connection it uses
    slot,      \* the connection of RegistrationConnection::sender
    cached,    \* RegistrationService::session
    conns,     \* the connections made: [by, task, chan, req, lost, wire, replies]
    log,       \* what the server executed, in order: [call, conn]
    received,  \* the executions whose session some call took out of an answer
    faults

vars == <<service, client, slot, cached, conns, log, received, faults>>

None == 0
NoCall(c) == [call |-> c, kind |-> "none", pc |-> "idle", att |-> None, answer |-> << >>]
NewConn(c) == [by |-> c, task |-> "idle", chan |-> << >>, req |-> << >>, lost |-> FALSE,
               wire |-> {}, replies |-> {}]

Init ==
    /\ service = "none" /\ client = NoCall(0)
    /\ slot = None /\ cached = 0 /\ conns = << >> /\ log = << >>
    /\ received = {} /\ faults = 0

Conns == DOMAIN conns
Fault == faults < MaxFaults /\ faults' = faults + 1
HasSender(k) == k \in {slot, client.att}
ReceiverOpen(k) == conns[k].task # "done"
\* oneshot::Sender::is_closed for the responder of request c on connection k.
ResponderClosed(c, k) ==
    ~ (client.pc = "waiting" /\ client.call = c /\ client.att = k)

-----------------------------------------------------------------------------
(* The caller *)

\* A call ends without an answer.  create_session and resume_session then drop
\* the connection; otherwise the stored sender stays the one it was.
Fails ==
    /\ client' = NoCall(client.call)
    /\ IF service = "starting" THEN service' = "gone" /\ slot' = None
                               ELSE UNCHANGED <<service, slot>>
    /\ UNCHANGED <<cached, received>>

CreateOrResume ==
    /\ service = "none" /\ service' = "starting"
    /\ client' = [NoCall(client.call + 1) EXCEPT !.kind = "create", !.pc = "connecting"]
    /\ UNCHANGED <<slot, cached, conns, log, received, faults>>

Begin(kind) ==
    /\ service = "open" /\ client.pc = "idle" /\ client.call < MaxCalls
    /\ client' = [NoCall(client.call + 1) EXCEPT !.kind = kind, !.pc = "sending", !.att = slot]
    /\ UNCHANGED <<service, slot, cached, conns, log, received, faults>>

DropCall ==
    /\ client.pc # "idle" /\ Fails
    /\ UNCHANGED <<conns, log, faults>>

DropService ==
    /\ service = "open" /\ client.pc = "idle"
    /\ service' = "gone" /\ slot' = None
    /\ UNCHANGED <<client, cached, conns, log, received, faults>>

\* spawn_connected_chat, inside RegistrationConnection::connect or send_request.
Connected ==
    /\ client.pc = "connecting" /\ Len(conns) < MaxConns
    /\ conns' = Append(conns, NewConn(client.call))
    /\ client' = [client EXCEPT !.pc = "sending", !.att = Len(conns')]
    /\ slot' = IF slot = None THEN Len(conns') ELSE slot
    /\ UNCHANGED <<service, cached, log, received, faults>>

\* A retryable error: sleep and connect again, as often as it takes.
ConnectFails == client.pc = "connecting" /\ UNCHANGED vars

ConnectFatal ==
    /\ client.pc = "connecting" /\ Fault /\ Fails
    /\ UNCHANGED <<conns, log>>

Enqueue ==
    LET k == client.att
    IN  /\ client.pc = "sending" /\ ReceiverOpen(k)
        /\ Len(conns[k].chan) < MAX_PENDING_REQUESTS
        /\ conns' = [conns EXCEPT ![k].chan = Append(@, client.call)]
        /\ client' = [client EXCEPT !.pc = "waiting"]
        /\ UNCHANGED <<service, slot, cached, log, received, faults>>

\* Faulty variant: the retry uses the sender it was given again.
RetrySameSender == client' = [client EXCEPT !.pc = "sending", !.answer = << >>]

\* SendRequestError::ConnectionLost: around the loop of send_request, without a sender.
Retry == client' = [client EXCEPT !.pc = "connecting", !.att = None, !.answer = << >>]

ConnectionLost ==
    LET k == client.att
        inTask == client.call \in Range(conns[k].chan) \cup Range(conns[k].req)
    IN  /\ \/ client.pc = "sending" /\ ~ ReceiverOpen(k)
           \/ client.pc = "waiting" /\ client.answer = << >> /\ ~ inTask
           \/ client.pc = "waiting" /\ client.answer = <<"disconnected", 0>>
        /\ Retry
        /\ UNCHANGED <<service, slot, cached, conns, log, received, faults>>

\* Faulty variant: a request that timed out is sent again.
GivesUpRetries ==
    /\ client.pc = "waiting" /\ client.answer \in {<<"timeout", 0>>, <<"unknown", 0>>}
    /\ IF client.answer[1] = "timeout"
         THEN Retry /\ UNCHANGED <<service, slot, cached, received>> ELSE Fails
    /\ UNCHANGED <<conns, log, faults>>

GivesUp ==
    /\ client.pc = "waiting" /\ client.answer \in {<<"timeout", 0>>, <<"unknown", 0>>}
    /\ Fails
    /\ UNCHANGED <<conns, log, faults>>

\* The server's answers with a session: every success but those of register_account
\* and check_svr2_credentials, and some failures of the two verification endpoints.
TellsSession(kind, status) == status = "failWithSession" \/ (status = "ok" /\ kind # "other")

\* Faulty variant: a failure never updates the session.
CarriesSessionOk(kind, status) == kind # "other" /\ status = "ok"

\* The answers the session is taken from: successes, and the failures 409, 418 and 429
\* of the verification endpoints (RecoverSession, update_session).
CarriesSession(kind, status) ==
    \/ kind # "other" /\ status = "ok"
    \/ kind = "verify" /\ status = "failWithSession"

Answered(status) ==
    /\ client.pc = "waiting" /\ client.answer # << >> /\ client.answer[1] = "reply"
    /\ status = "failWithSession" => client.kind = "verify"
    /\ client' = NoCall(client.call)
    /\ IF CarriesSession(client.kind, status) THEN cached' = client.answer[2] ELSE UNCHANGED cached
    /\ received' = IF TellsSession(client.kind, status)
                     THEN received \cup {client.answer[2]} ELSE received
    /\ IF service = "starting" /\ status # "ok"
         THEN service' = "gone" /\ slot' = None
         ELSE service' = "open" /\ slot' = client.att
    /\ UNCHANGED <<conns, log, faults>>

-----------------------------------------------------------------------------
(* The task of a connection: spawned_task_body and start_request *)

OnlyTask == UNCHANGED <<service, slot, cached, log, received, faults>>

TakeRequest(k) ==
    LET c == Head(conns[k].chan)
    IN  /\ conns[k].task = "idle" /\ conns[k].chan # << >>
        /\ conns' = IF ResponderClosed(c, k)
                      THEN [conns EXCEPT ![k].chan = Tail(@)]
                      ELSE [conns EXCEPT ![k] =
                               [conns[k] EXCEPT !.chan = Tail(@), !.task = "busy", !.req = <<c>>,
                                                !.wire = @ \cup {c}]]
        /\ OnlyTask /\ UNCHANGED client

Finished(k) == conns' = [conns EXCEPT ![k] = [@ EXCEPT !.task = "idle", !.req = << >>]]

\* responder.closed(): the request is given up, and may yet be executed.
CallerGone(k) ==
    /\ conns[k].task = "busy" /\ ResponderClosed(conns[k].req[1], k)
    /\ Finished(k)
    /\ OnlyTask /\ UNCHANGED client

Respond(k, result, i) ==
    /\ conns[k].task = "busy" /\ ~ ResponderClosed(conns[k].req[1], k)
    /\ client' = [client EXCEPT !.answer = <<result, i>>]
    /\ Finished(k)

Answer(k) ==
    \E i \in conns[k].replies :
        /\ conns[k].req = <<log[i].call>>
        /\ Respond(k, "reply", i)
        /\ OnlyTask

\* chat.send fails: after REQUEST_TIMEOUT, because of invalid data or a websocket error.
SendFails(k, error) ==
    /\ error # "timeout" => Fault
    /\ error = "timeout" => UNCHANGED faults
    /\ error = "disconnected" => conns[k].lost
    /\ Respond(k, error, 0)
    /\ UNCHANGED <<service, slot, cached, log, received>>

Ends(k) ==
    conns' = [conns EXCEPT ![k] = [@ EXCEPT !.task = "done", !.chan = << >>, !.req = << >>]]

Disconnected(k) ==
    /\ conns[k].lost /\ conns[k].task \in {"idle", "busy"}
    /\ Ends(k)
    /\ OnlyTask /\ UNCHANGED client

\* The timeout looks at the queue once more before it fires; a request that is
\* queued after that goes down with the stream.  It is longer than a call that has
\* just connected takes to queue its request.
InactivityTimeout(k) ==
    /\ conns[k].task = "idle" /\ conns[k].chan = << >> /\ HasSender(k)
    /\ ~ (client.pc = "sending" /\ conns[k].by = client.call)
    /\ conns' = [conns EXCEPT ![k].task = "closing"]
    /\ OnlyTask /\ UNCHANGED client

SendersGone(k) ==
    /\ conns[k].task = "idle" /\ conns[k].chan = << >> /\ ~ HasSender(k)
    /\ conns' = [conns EXCEPT ![k].task = "closing"]
    /\ OnlyTask /\ UNCHANGED client

DropIncoming(k) ==
    /\ conns[k].task = "closing"
    /\ Ends(k)
    /\ OnlyTask /\ UNCHANGED client

-----------------------------------------------------------------------------
(* The network and the server *)

Lose(k) ==
    /\ ~ conns[k].lost /\ conns[k].task # "done" /\ Fault
    /\ conns' = [conns EXCEPT ![k].lost = TRUE]
    /\ UNCHANGED <<service, client, slot, cached, log, received>>

\* What was sent may be executed at any later time, or never; the reply needs the connection.
Execute(k) ==
    \E c \in conns[k].wire :
        /\ log' = Append(log, [call |-> c, conn |-> k])
        /\ conns' = [conns EXCEPT ![k] =
                        [conns[k] EXCEPT
                           !.wire = @ \ {c},
                           !.replies = IF conns[k].lost THEN @ ELSE @ \cup {Len(log')}]]
        /\ UNCHANGED <<service, client, slot, cached, received, faults>>

\* What ends a connect, and what the call does once it is connected.
ConnectEnds == Connected \/ ConnectFatal

Caller ==
    \/ Enqueue \/ ConnectionLost \/ GivesUp
    \/ \E status \in {"ok", "failWithSession", "fail"} : Answered(status)

Task(k) ==
    \/ TakeRequest(k) \/ CallerGone(k) \/ Answer(k) \/ Disconnected(k)
    \/ InactivityTimeout(k) \/ SendersGone(k) \/ DropIncoming(k)
    \/ \E error \in {"timeout", "disconnected", "unknown"} : SendFails(k, error)

Next ==
    \/ CreateOrResume \/ \E kind \in {"update", "verify", "other"} : Begin(kind)
    \/ DropCall \/ DropService \/ ConnectFails \/ ConnectEnds \/ Caller
    \/ \E k \in Conns : Task(k) \/ Lose(k) \/ Execute(k)

Spec == Init /\ [][Next]_vars

-----------------------------------------------------------------------------

\* A request is executed again only because the connection that carried it is
\* gone; a timeout or an error is returned instead (send_request).
RepeatsOnlyAfterLoss ==
    client.pc # "idle" => \A i \in DOMAIN log :
        log[i].call = client.call => log[i].conn = client.att \/ conns[log[i].conn].lost

\* session_state is the newest state any call was told, whatever was retried,
\* dropped or executed late in between, and failures that tell it included
\* (the comment of update_session).
CacheIsNewestReport == cached = Max(received \cup {0})

\* The call returns: a request that is queued while the inactivity timeout closes
\* the queue, or that waits behind a dropped call, is not forgotten.  The server need
\* not answer.  The network must give in: send_request and
\* connect retry without end, so a connect must not fail retryably for ever, and
\* connections must not be lost for ever (MaxFaults).
CallsReturn == []<>(client.pc = "idle")

=============================================================================
