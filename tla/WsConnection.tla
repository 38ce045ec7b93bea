----------------------------- MODULE WsConnection -----------------------------
(***************************************************************************)
(* One established websocket (net/infra/src/ws/connection.rs) and the      *)
(* timers of Connection::handle_next_event.  Instants are modelled by      *)
(* their age in ticks.  Time passes between calls, while a call waits and  *)
(* while a frame is written; a call that waits is woken at its timeout, and *)
(* when several branches of its select! are ready any of them is taken.    *)
(*                                                                         *)
(* Ages saturate at MaxAge.  That is exact: no deadline is later than the  *)
(* disconnect deadline by more than MaxSilence.                            *)
(***************************************************************************)
EXTENDS Integers

CONSTANTS
    local_idle_timeout,
    remote_idle_ping_timeout,
    remote_idle_disconnect_timeout,
    MaxSilence           \* bound on the silence of the server

MaxAge == local_idle_timeout + MaxSilence

\* "This should be longer than remote_idle_ping_timeout" (ws::Config).
ASSUME TimeoutAssumption ==
    /\ local_idle_timeout \in Nat \ {0}
    /\ remote_idle_ping_timeout \in Nat \ {0}
    /\ remote_idle_disconnect_timeout \in Nat
    /\ remote_idle_ping_timeout < remote_idle_disconnect_timeout
    /\ MaxSilence \in Nat
    /\ remote_idle_disconnect_timeout =< MaxSilence

VARIABLES
    phase,      \* "new", "waiting", "ping", "message", "close", "returned" or a finish reason
    sent,       \* age of last_sent_to_server
    pinged,     \* age of last_sent_ping_to_server
    silence,    \* age of last_heard_from_server
    timer,      \* ticks to earliest_timeout
    inactivity, \* inactivity_event
    outgoing,   \* whether outgoing_rx is "open" or "closed"
    probe,      \* history: age of the first ping written since the server was heard, or -1
    delay       \* history: ticks before that ping that the client spent writing or between calls

ages == <<sent, pinged, silence>>
history == <<probe, delay>>
wsVars == <<phase, ages, timer, inactivity, outgoing, history>>

FinishReasons == {"LocalDisconnect", "RemoteDisconnect", "AbnormalServerClose", "ReceiveError",
                  "UnexpectedConnectionClose", "PingFailed", "CloseFailed", "ServerIdleTimeout"}

WsInit ==
    /\ phase = "new" /\ sent = 0 /\ pinged = 0 /\ silence = 0
    /\ timer = 0 /\ inactivity = "ConnectionIdle"
    /\ outgoing = "open"
    /\ probe = -1 /\ delay = 0

-----------------------------------------------------------------------------
(* Connection::handle_next_event                                           *)

\* Ticks to the remote idle ping; the later of two instants has the lower age.
RemoteIdle(p, h) == remote_idle_ping_timeout - (IF p < h THEN p ELSE h)

\* Faulty variant: the connection is declared dead before it is pinged.
RemoteDisconnectedEarly(s, h) == remote_idle_ping_timeout - h - 1

\* Faulty variant: whatever was sent puts the deadline off, as if it were heard.
RemoteDisconnectedSinceSent(s, h) == remote_idle_disconnect_timeout - (IF s < h THEN s ELSE h)

\* Ticks to the time when the connection is declared dead.
RemoteDisconnected(s, h) == remote_idle_disconnect_timeout - h

\* Reset the timer to the earliest deadline; the first of equal ones is taken.
Wait(s, p, h) ==
    LET idle == IF RemoteIdle(p, h) < local_idle_timeout - s
                THEN RemoteIdle(p, h) ELSE local_idle_timeout - s
        dead == RemoteDisconnected(s, h)
    IN  /\ phase' = "waiting"
        /\ sent' = s /\ pinged' = p /\ silence' = h
        /\ IF dead < idle
           THEN timer' = dead /\ inactivity' = "RemoteDisconnectedTimeout"
           ELSE timer' = idle /\ inactivity' = "ConnectionIdle"
        /\ UNCHANGED <<outgoing, history>>

\* The first call takes the instants to be now, later ones use those recorded.
FirstCall == phase = "new" /\ Wait(0, 0, 0)

NextCall == phase = "returned" /\ Wait(sent, pinged, silence)

\* A branch of the select! is taken.
Go(p) == phase = "waiting" /\ phase' = p /\ UNCHANGED <<timer, inactivity, outgoing>>

\* A frame from the server: data, a ping or a pong go on, a close frame ends.
Received ==
    /\ \E p \in {"returned", "RemoteDisconnect", "AbnormalServerClose"} : Go(p)
    /\ silence' = 0 /\ probe' = -1 /\ delay' = 0
    /\ UNCHANGED <<sent, pinged>>

ReceiveFails ==
    /\ \E p \in {"ReceiveError", "UnexpectedConnectionClose"} : Go(p)
    /\ UNCHANGED <<ages, history>>

\* The timer and the ends of its two events.
Due == timer =< 0

RemoteDisconnectedTimeout ==
    /\ Due /\ inactivity = "RemoteDisconnectedTimeout"
    /\ Go("ServerIdleTimeout")
    /\ UNCHANGED <<ages, history>>

ConnectionIdle ==
    /\ Due /\ inactivity = "ConnectionIdle"
    /\ Go("ping")
    /\ UNCHANGED <<ages, history>>

ToSend == outgoing = "open" /\ Go("message") /\ UNCHANGED <<ages, history>>

OutgoingClosed == outgoing = "closed" /\ Go("close") /\ UNCHANGED <<ages, history>>

\* stream.send(..).await comes back.
Written(what, p) ==
    phase = what /\ phase' = p /\ UNCHANGED <<silence, timer, inactivity, outgoing, delay>>

PingSent ==
    /\ Written("ping", "returned")
    /\ sent' = 0 /\ pinged' = 0
    /\ probe' = IF probe = -1 THEN 0 ELSE probe

MessageSent == Written("message", "returned") /\ sent' = 0 /\ UNCHANGED <<pinged, probe>>

\* Failed messages are reported to the owner, who may go on or not.
MessageFailed == Written("message", "returned") /\ UNCHANGED <<sent, pinged, probe>>

CloseSent == Written("close", "LocalDisconnect") /\ UNCHANGED <<sent, pinged, probe>>

WriteFails ==
    /\ Written("ping", "PingFailed") \/ Written("close", "CloseFailed")
    /\ UNCHANGED <<sent, pinged, probe>>

-----------------------------------------------------------------------------
(* The surroundings                                                        *)

\* The owner hangs up.
HangUp ==
    /\ outgoing = "open" /\ outgoing' = "closed"
    /\ UNCHANGED <<phase, ages, timer, inactivity, history>>

Older(age) == IF age < MaxAge THEN age + 1 ELSE age

Tick ==
    /\ phase \in {"waiting", "ping", "message", "close", "returned"}
    /\ phase = "waiting" => ~ Due
    /\ silence < MaxSilence
    /\ sent' = Older(sent) /\ pinged' = Older(pinged) /\ silence' = silence + 1
    /\ timer' = IF phase = "waiting" THEN timer - 1 ELSE timer
    /\ probe' = IF probe = -1 THEN probe ELSE probe + 1
    /\ delay' = IF probe = -1 /\ phase # "waiting" THEN delay + 1 ELSE delay
    /\ UNCHANGED <<phase, inactivity, outgoing>>

ConnectionFinished == phase \in FinishReasons /\ UNCHANGED wsVars

WsNext ==
    \/ FirstCall \/ NextCall
    \/ Received \/ ReceiveFails
    \/ RemoteDisconnectedTimeout \/ ConnectionIdle
    \/ ToSend \/ OutgoingClosed
    \/ PingSent \/ MessageSent \/ MessageFailed \/ CloseSent \/ WriteFails
    \/ HangUp \/ Tick
    \/ ConnectionFinished

WsSpec == WsInit /\ [][WsNext]_wsVars

-----------------------------------------------------------------------------
(* Properties                                                              *)

WsTypeOK ==
    /\ phase \in {"new", "waiting", "ping", "message", "close", "returned"} \cup FinishReasons
    /\ sent \in 0 .. MaxAge /\ pinged \in 0 .. MaxAge /\ silence \in 0 .. MaxSilence
    /\ timer \in -MaxSilence .. local_idle_timeout
    /\ inactivity \in {"ConnectionIdle", "RemoteDisconnectedTimeout"}
    /\ outgoing \in {"open", "closed"}
    /\ probe \in -1 .. MaxSilence /\ delay \in 0 .. MaxSilence

\* "This is always <= last_sent_to_server", as the field last_sent_ping_to_server
\* says: no ping is younger than the last frame sent.
PingIsASend == sent =< pinged

\* The server is declared dead only after a ping written since it was last heard,
\* and it has had the time between the two timeouts to answer that ping, less what
\* the client itself held the ping back: time in which a write did not end, or the
\* owner did not call handle_next_event.  A client whose own writes eat up the whole
\* deadline still writes a ping first, but leaves no time for the answer.
NeverGivesUpUnprobed ==
    phase = "ServerIdleTimeout" =>
        /\ probe >= 0
        /\ probe + delay >= remote_idle_disconnect_timeout - remote_idle_ping_timeout

\* A server that falls silent for good is given up, or the connection ends for
\* another reason: no mix of pings, messages and late calls puts the deadline of
\* handle_next_event off for ever.
GivesUpOnSilence == []<>(silence = 0 \/ phase \in FinishReasons)

\* "Don't be too eager": pings are at least the shorter of the two idle timeouts
\* apart, also when the server is silent and messages are sent meanwhile.
PingsSpaced ==
    [][ConnectionIdle => \/ pinged >= local_idle_timeout
                         \/ pinged >= remote_idle_ping_timeout]_wsVars

=============================================================================
