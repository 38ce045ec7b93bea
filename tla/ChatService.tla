----------------------------- MODULE ChatService -----------------------------
(***************************************************************************)
(* What a chat connection promises the callers of Chat::send: a request    *)
(* gets at most one verdict, only a connection that is not down gives an   *)
(* answer, a request is refused or given up without an answer only when    *)
(* the connection is leaving or down, and no request outlives it.          *)
(***************************************************************************)
CONSTANTS Sends

VARIABLES
    call,    \* call[c]: where request c stands
    link     \* the connection: "up", "leaving" (asked to close) or "down"

vars == <<call, link>>

Init ==
    /\ call = [c \in Sends |-> "idle"]
    /\ link = "up"

Move(c, from, to) ==
    /\ call[c] = from
    /\ call' = [call EXCEPT ![c] = to]
    /\ UNCHANGED link

Begin(c) == Move(c, "idle", "pending")

Refuse(c) == link # "up" /\ Move(c, "idle", "failed")

Answer(c) == link # "down" /\ Move(c, "pending", "answered")

\* The server's answer cannot be used.
Reject(c) == link # "down" /\ Move(c, "pending", "failed")

Lose(c) == link = "down" /\ Move(c, "pending", "failed")

\* The caller stops waiting.
Abandon(c) == Move(c, "pending", "abandoned")

Leave ==
    /\ link = "up"
    /\ link' = "leaving"
    /\ UNCHANGED call

\* The request being written when the connection breaks fails with it.
Break ==
    /\ link # "down"
    /\ link' = "down"
    /\ \/ UNCHANGED call
       \/ \E c \in Sends : call[c] = "pending" /\ call' = [call EXCEPT ![c] = "failed"]

Next ==
    \/ \E c \in Sends :
          Begin(c) \/ Refuse(c) \/ Answer(c) \/ Reject(c) \/ Lose(c) \/ Abandon(c)
    \/ Leave
    \/ Break

Spec == Init /\ [][Next]_vars /\ \A c \in Sends : WF_vars(Lose(c))
==============================================================================
