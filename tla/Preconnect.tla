----------------------------- MODULE Preconnect -----------------------------
(***************************************************************************)
(* The connection PreconnectingFactory saves for later                     *)
(* (net/infra/src/route/connect/preconnect.rs), with the two that use it   *)
(* (net/src/connect_state.rs): preconnect_and_save, which saves one, and   *)
(* connect_ws, whose routes ask for it if the connection is authenticated. *)
(* An attempt is one call of connect_over; it waits for the inner          *)
(* connector between two looks at the saved connection, and is dropped     *)
(* when another attempt of the same connect wins.                          *)
(*                                                                         *)
(* Instants are kept as ages, which stop growing at MaxAge; past the       *)
(* timeout they no longer differ in anything the code does.                *)
(***************************************************************************)
EXTENDS Integers, FiniteSets

CONSTANTS
    Attempts, Routes, Connections,
    NoConnection,
    Timeout                        \* PreconnectingFactory::new's timeout

MaxAge == Timeout + 1
Ages == 0 .. MaxAge

VARIABLES
    saved,          \* [connection, route, established]; NoConnection in place of None
    attempt         \* per attempt: [at, route, kind, connection, finished]

vars == <<saved, attempt>>

\* A connection carries, unknown to the code, the route it was made for and how
\* long ago an attempt last came out with it.
MadeConnections == [id : Connections, madeFor : Routes, age : Ages]

ASSUME PreconnectAssumption ==
    /\ Timeout \in Nat \ {0}
    /\ Routes # {}
    /\ NoConnection \notin MadeConnections

\* "plain": should is false; "chat": should is true, for connect_ws;
\* "pre": should is true, for preconnect_and_save.
Kinds == {"plain", "chat", "pre"}
Should(kind) == kind # "plain"

SomeRoute == CHOOSE r \in Routes : TRUE
NothingSaved == [connection |-> NoConnection, route |-> SomeRoute, established |-> 0]
Idle ==
    [at |-> "idle", route |-> SomeRoute, kind |-> "plain", connection |-> NoConnection,
     finished |-> 0]

Init ==
    /\ saved = NothingSaved
    /\ attempt = [a \in Attempts |-> Idle]

HasSaved == saved.connection # NoConnection
Holds(a) == attempt[a].connection # NoConnection
InUse ==
    {attempt[a].connection.id : a \in {b \in Attempts : Holds(b)}}
      \cup (IF HasSaved THEN {saved.connection.id} ELSE {})

-----------------------------------------------------------------------------
(* PreconnectingConnector::connect_over                                    *)

\* Under the lock: drop it if it has expired, use it if it is for this route,
\* put it back otherwise.
TakeSaved(route) ==
    IF HasSaved /\ saved.established < Timeout /\ saved.route = route
    THEN [use |-> [saved.connection EXCEPT !.age = 0], left |-> NothingSaved]
    ELSE IF HasSaved /\ saved.established >= Timeout
    THEN [use |-> NoConnection, left |-> NothingSaved]
    ELSE [use |-> NoConnection, left |-> saved]

\* The attempt ends its connect; preconnect_and_save takes updates.finished_at
\* and goes on to save.
Won(kind) == IF kind = "pre" THEN "saving" ELSE "connected"

\* connect_over up to its await; using the saved connection ends it.
ConnectOver(a, route, kind) ==
    /\ attempt[a].at = "idle"
    /\ LET taken == IF Should(kind) THEN TakeSaved(route)
                    ELSE [use |-> NoConnection, left |-> saved] IN
       /\ saved' = taken.left
       /\ attempt' = [attempt EXCEPT ![a] =
                        [at |-> IF taken.use = NoConnection THEN "connecting" ELSE Won(kind),
                         route |-> route, kind |-> kind, connection |-> taken.use,
                         finished |-> 0]]

\* The inner connector has succeeded: whatever is saved by now is cleared.
Connected(a, c) ==
    /\ attempt[a].at = "connecting" /\ c \notin InUse
    /\ attempt' = [attempt EXCEPT ![a] =
                     [attempt[a] EXCEPT !.at = Won(attempt[a].kind),
                        !.connection = [id |-> c, madeFor |-> attempt[a].route, age |-> 0]]]
    /\ saved' = IF Should(attempt[a].kind) THEN NothingSaved ELSE saved

\* The inner connector fails, the future of connect_over is dropped with the
\* connection it may have, or connect_ws returns the connection to its caller.
Ends(a) ==
    /\ attempt[a].at \in {"connecting", "connected"}
    /\ attempt' = [attempt EXCEPT ![a] = Idle]
    /\ UNCHANGED saved

-----------------------------------------------------------------------------
(* preconnect_and_save                                                     *)

\* Faulty variant: the connection is stamped with the time at which it is saved.
SavePreconnectedNow(a) ==
    /\ attempt[a].at = "saving"
    /\ saved' = [connection |-> attempt[a].connection, route |-> attempt[a].route,
                 established |-> 0]
    /\ attempt' = [attempt EXCEPT ![a] = Idle]

\* save_preconnected, called with updates.finished_at.
SavePreconnected(a) ==
    /\ attempt[a].at = "saving"
    /\ saved' = IF HasSaved /\ saved.established < attempt[a].finished THEN saved
                ELSE [connection |-> attempt[a].connection, route |-> attempt[a].route,
                      established |-> attempt[a].finished]
    /\ attempt' = [attempt EXCEPT ![a] = Idle]

Older(n) == IF n < MaxAge THEN n + 1 ELSE n

OlderConnection(c) == IF c = NoConnection THEN c ELSE [c EXCEPT !.age = Older(@)]

\* finished_at is noted while the connect ends: it ages until it is saved.
Tick ==
    /\ saved' = IF HasSaved THEN [saved EXCEPT !.established = Older(@),
                                             !.connection = OlderConnection(@)]
                ELSE saved
    /\ attempt' = [a \in Attempts |->
                     IF attempt[a].at = "saving"
                     THEN [attempt[a] EXCEPT !.finished = Older(@),
                                             !.connection = OlderConnection(@)]
                     ELSE attempt[a]]

Next ==
    \/ \E a \in Attempts :
         \/ \E route \in Routes, kind \in Kinds : ConnectOver(a, route, kind)
         \/ \E c \in Connections : Connected(a, c)
         \/ Ends(a) \/ SavePreconnected(a)
    \/ Tick

Spec == Init /\ [][Next]_vars

-----------------------------------------------------------------------------
(* Properties                                                              *)

AttemptStates ==
    [at : {"idle", "connecting", "connected", "saving"}, route : Routes, kind : Kinds,
     connection : MadeConnections \cup {NoConnection}, finished : Ages]

TypeOK ==
    /\ saved \in [connection : MadeConnections \cup {NoConnection}, route : Routes,
                  established : Ages]
    /\ attempt \in [Attempts -> AttemptStates]

\* A connection is saved and used only for the route it was made for.
OwnRoute ==
    /\ HasSaved => saved.connection.madeFor = saved.route
    /\ \A a \in Attempts : Holds(a) => attempt[a].connection.madeFor = attempt[a].route

\* An attempt takes the saved connection.
Takes(a) ==
    /\ HasSaved /\ attempt[a].at = "idle"
    /\ attempt'[a].at \in {"connected", "saving"}

\* The saved connection is taken only by an attempt of the route it was made for,
\* and less than the timeout after a connect came out with it, however long
\* preconnect_and_save waited for the lock to save it and whatever other connects
\* did to the slot meanwhile.  (A preconnect that takes the saved connection and
\* saves it again counts as a connect that came out with it.)
TakenFreshForItsRoute ==
    [][\A a \in Attempts : Takes(a) =>
         /\ saved.connection.age < Timeout
         /\ saved.connection.madeFor = attempt'[a].route]_vars

\* A connection that is saved is replaced only by one that finished no earlier,
\* in whatever order preconnects get to save theirs.
NewestIsKept ==
    [][(HasSaved /\ HasSaved' /\ saved'.connection.id # saved.connection.id)
         => saved'.established <= saved.established]_vars

=============================================================================
