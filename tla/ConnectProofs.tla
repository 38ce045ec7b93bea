----------------------------- MODULE ConnectProofs -----------------------------
(***************************************************************************)
(* Preconnect for every set of attempts, routes and connections and every  *)
(* timeout, and ConnectState for every set of connects and routes and all  *)
(* cutoffs.                                                                *)
(*                                                                         *)
(* The saved connection needs an inductive invariant of its own (IInv):    *)
(* the stamp a connection is saved with is its age, from the end of its    *)
(* connect on, through the wait for the lock and in the slot.              *)
(* That failures are forgotten only for a cause needs little of the state  *)
(* in which a step begins, but one thing that no single step shows: a      *)
(* connect that reports late finished no later than now.                   *)
(***************************************************************************)
EXTENDS Preconnect, ConnectState, TLAPS

USE SMTT(30)

-----------------------------------------------------------------------------
(* The saved connection                                                    *)

\* The stamp of a connection is its age: in the slot, and while its preconnect
\* waits to save it.
Stamped ==
    /\ HasSaved => saved.connection.age = saved.established
    /\ \A a \in Attempts : attempt[a].at = "saving" =>
         Holds(a) /\ attempt[a].connection.age = attempt[a].finished

\* Until it has a connection an attempt has no time to save it with.
NotFinished ==
    \A a \in Attempts : attempt[a].at = "connecting" => attempt[a].finished = 0

IInv == TypeOK /\ Stamped /\ NotFinished /\ OwnRoute

\* An attempt may move and come by a connection.
LEMMA AttemptMoves ==
    ASSUME NEW x \in AttemptStates, NEW at \in {"connected", "saving"},
           NEW d \in MadeConnections
    PROVE  [x EXCEPT !.at = at, !.connection = d] \in AttemptStates
  BY Zenon DEF AttemptStates

LEMMA SomeRouteIsRoute == SomeRoute \in Routes
  BY PreconnectAssumption DEF SomeRoute

\* What connect_over finds under the lock: it takes the connection out of the
\* slot, or leaves the slot alone, or empties it.
LEMMA TakeSavedCases ==
    ASSUME NEW route
    PROVE  \/ /\ TakeSaved(route) = [use |-> [saved.connection EXCEPT !.age = 0],
                                     left |-> NothingSaved]
              /\ HasSaved /\ saved.established < Timeout /\ saved.route = route
           \/ TakeSaved(route) = [use |-> NoConnection, left |-> NothingSaved]
           \/ TakeSaved(route) = [use |-> NoConnection, left |-> saved]
  BY DEF TakeSaved

\* The connection that comes out of the slot.
LEMMA TakenIs ==
    ASSUME NEW d \in MadeConnections
    PROVE  /\ [d EXCEPT !.age = 0] \in MadeConnections
           /\ [d EXCEPT !.age = 0].age = 0 /\ [d EXCEPT !.age = 0].madeFor = d.madeFor
           /\ [d EXCEPT !.age = 0] # NoConnection
  BY PreconnectAssumption DEF MadeConnections, Ages, MaxAge

\* ConnectOver is one of two steps.
LEMMA ConnectOverCases ==
    ASSUME TypeOK, NEW a \in Attempts, NEW route \in Routes, NEW kind \in Kinds,
           ConnectOver(a, route, kind)
    PROVE  \/ /\ HasSaved /\ saved.established < Timeout /\ saved.route = route
              /\ saved' = NothingSaved
              /\ \E d \in MadeConnections :
                   /\ d.age = 0 /\ d.madeFor = saved.connection.madeFor
                   /\ attempt' = [attempt EXCEPT ![a] =
                        [at |-> Won(kind), route |-> route, kind |-> kind,
                         connection |-> d, finished |-> 0]]
           \/ /\ saved' \in {saved, NothingSaved}
              /\ attempt' = [attempt EXCEPT ![a] =
                     [at |-> "connecting", route |-> route, kind |-> kind,
                      connection |-> NoConnection, finished |-> 0]]
<1>1. CASE Should(kind)
  <2> DEFINE taken == TakeSaved(route)
             use == [saved.connection EXCEPT !.age = 0]
  <2>1. /\ saved' = taken.left
        /\ attempt' = [attempt EXCEPT ![a] =
               [at |-> IF taken.use = NoConnection THEN "connecting" ELSE Won(kind),
                route |-> route, kind |-> kind, connection |-> taken.use, finished |-> 0]]
    BY <1>1 DEF ConnectOver
  <2>2. \/ /\ taken.use = use /\ taken.left = NothingSaved
           /\ HasSaved /\ saved.established < Timeout /\ saved.route = route
        \/ taken.use = NoConnection /\ taken.left \in {saved, NothingSaved}
    BY TakeSavedCases
  <2>3. HasSaved => use \in MadeConnections /\ use.age = 0 /\ use # NoConnection
                    /\ use.madeFor = saved.connection.madeFor
    BY TakenIs DEF TypeOK, HasSaved
  <2> HIDE DEF taken, use
  <2>4. CASE taken.use = NoConnection /\ taken.left \in {saved, NothingSaved}
    BY <2>1, <2>4
  <2>5. CASE /\ taken.use = use /\ taken.left = NothingSaved
             /\ HasSaved /\ saved.established < Timeout /\ saved.route = route
    <3>1. attempt' = [attempt EXCEPT ![a] =
               [at |-> Won(kind), route |-> route, kind |-> kind, connection |-> use,
                finished |-> 0]]
      BY <2>1, <2>3, <2>5
    <3> QED  BY <2>1, <2>3, <2>5, <3>1, Zenon
  <2> QED  BY <2>2, <2>4, <2>5
<1>2. CASE ~ Should(kind)
  BY <1>2 DEF ConnectOver
<1> QED  BY <1>1, <1>2

\* The invariant of the slot of PreconnectingFactory holds initially and is
\* preserved by every step.
THEOREM PreconnectInvariant == Spec => []IInv
<1> USE PreconnectAssumption, SomeRouteIsRoute DEF MaxAge, Ages
<1>1. Init => IInv
  BY DEF Init, IInv, TypeOK, AttemptStates, Stamped, NotFinished, OwnRoute, NothingSaved,
         Idle, HasSaved, Holds, Kinds
<1>2. IInv /\ [Next]_vars => IInv'
  <2> SUFFICES ASSUME IInv, [Next]_vars PROVE IInv'
    OBVIOUS
  <2>1. ASSUME NEW a \in Attempts, NEW route \in Routes, NEW kind \in Kinds,
               ConnectOver(a, route, kind)
        PROVE  IInv'
    <3>1. CASE /\ saved' \in {saved, NothingSaved}
               /\ attempt' = [attempt EXCEPT ![a] =
                      [at |-> "connecting", route |-> route, kind |-> kind,
                       connection |-> NoConnection, finished |-> 0]]
      <4>1. TypeOK'
        BY <3>1 DEF IInv, TypeOK, AttemptStates, NothingSaved
      <4>2. Stamped' /\ NotFinished'
        BY <3>1 DEF IInv, TypeOK, AttemptStates, Stamped, NotFinished, Holds, HasSaved, NothingSaved
      <4>3. OwnRoute'
        BY <3>1 DEF IInv, TypeOK, AttemptStates, OwnRoute, Holds, HasSaved, NothingSaved
      <4> QED  BY <4>1, <4>2, <4>3 DEF IInv
    <3>2. CASE /\ HasSaved /\ saved.established < Timeout /\ saved.route = route
               /\ saved' = NothingSaved
               /\ \E d \in MadeConnections :
                    /\ d.age = 0 /\ d.madeFor = saved.connection.madeFor
                    /\ attempt' = [attempt EXCEPT ![a] =
                         [at |-> Won(kind), route |-> route, kind |-> kind,
                          connection |-> d, finished |-> 0]]
      <4>1. PICK d \in MadeConnections :
                    /\ d.age = 0 /\ d.madeFor = saved.connection.madeFor
                    /\ attempt' = [attempt EXCEPT ![a] =
                         [at |-> Won(kind), route |-> route, kind |-> kind,
                          connection |-> d, finished |-> 0]]
        BY <3>2, Zenon
      <4>2. d # NoConnection /\ d.madeFor = route /\ Won(kind) \in {"connected", "saving"}
        BY <3>2, <4>1 DEF IInv, OwnRoute, Won
      <4>3. TypeOK'
        BY <3>2, <4>1, <4>2 DEF IInv, TypeOK, AttemptStates, NothingSaved
      <4>4. Stamped' /\ NotFinished'
        BY <3>2, <4>1, <4>2 DEF IInv, TypeOK, AttemptStates, Stamped, NotFinished, Holds, HasSaved,
                                NothingSaved
      <4>5. OwnRoute'
        BY <3>2, <4>1, <4>2 DEF IInv, TypeOK, AttemptStates, OwnRoute, Holds, HasSaved, NothingSaved
      <4> QED  BY <4>3, <4>4, <4>5 DEF IInv
    <3> QED  BY <2>1, <3>1, <3>2, ConnectOverCases DEF IInv
  <2>2. ASSUME NEW a \in Attempts, NEW c \in Connections, Connected(a, c)
        PROVE  IInv'
    <3> DEFINE new == [id |-> c, madeFor |-> attempt[a].route, age |-> 0]
    <3>1. new \in MadeConnections /\ new.age = 0 /\ new.madeFor = attempt[a].route
      BY DEF MadeConnections, IInv, TypeOK, AttemptStates
    <3>2. PICK at \in {"connected", "saving"} : attempt' = [attempt EXCEPT ![a] =
               [attempt[a] EXCEPT !.at = at, !.connection = new]]
      <4>1. Won(attempt[a].kind) \in {"connected", "saving"}
        BY DEF Won
      <4> QED  BY <2>2, <4>1, Zenon DEF Connected
    <3>3. saved' \in {saved, NothingSaved} /\ attempt[a].at = "connecting"
      BY <2>2 DEF Connected
    <3> HIDE DEF new
    <3>4. attempt \in [Attempts -> AttemptStates] /\ attempt[a] \in AttemptStates
      BY DEF IInv, TypeOK
    <3>5. PICK x : x = [attempt[a] EXCEPT !.at = at, !.connection = new]
      BY Zenon
    <3>6. /\ x \in AttemptStates /\ x.at = at /\ x.connection = new
          /\ x.route = attempt[a].route /\ x.finished = attempt[a].finished
      <4>1. x \in AttemptStates
        BY <3>1, <3>2, <3>4, <3>5, AttemptMoves, Zenon
      <4> QED  BY <3>4, <3>5, <4>1 DEF AttemptStates
    <3>7. attempt' = [attempt EXCEPT ![a] = x] /\ new # NoConnection /\ x.finished = 0
      BY <3>1, <3>2, <3>3, <3>5, <3>6 DEF IInv, NotFinished
    <3>8. TypeOK'
      BY <3>3, <3>4, <3>6, <3>7 DEF IInv, TypeOK, NothingSaved
    <3>9. Stamped' /\ NotFinished'
      BY <3>1, <3>3, <3>4, <3>6, <3>7 DEF IInv, Stamped, NotFinished, Holds, HasSaved, NothingSaved
    <3>10. OwnRoute'
      BY <3>1, <3>3, <3>4, <3>6, <3>7 DEF IInv, OwnRoute, Holds, HasSaved, NothingSaved
    <3> QED  BY <3>8, <3>9, <3>10 DEF IInv
  <2>3. ASSUME NEW a \in Attempts, Ends(a)
        PROVE  IInv'
    <3>1. TypeOK'
      BY <2>3 DEF Ends, IInv, TypeOK, AttemptStates, Idle, Kinds
    <3>2. Stamped' /\ NotFinished' /\ OwnRoute'
      BY <2>3 DEF Ends, IInv, TypeOK, Stamped, NotFinished, OwnRoute, Holds, HasSaved, Idle
    <3> QED  BY <3>1, <3>2 DEF IInv
  <2>4. ASSUME NEW a \in Attempts, SavePreconnected(a)
        PROVE  IInv'
    <3>1. TypeOK'
      BY <2>4 DEF SavePreconnected, IInv, TypeOK, AttemptStates, Idle, Kinds
    <3>2. Stamped' /\ NotFinished' /\ OwnRoute'
      BY <2>4 DEF SavePreconnected, IInv, TypeOK, Stamped, NotFinished, OwnRoute, Holds, HasSaved, Idle
    <3> QED  BY <3>1, <3>2 DEF IInv
  <2>5. CASE Tick
    <3>1. \A d \in MadeConnections :
             /\ OlderConnection(d) \in MadeConnections /\ OlderConnection(d) # NoConnection
             /\ OlderConnection(d).madeFor = d.madeFor /\ OlderConnection(d).age = Older(d.age)
      BY DEF OlderConnection, MadeConnections, Older
    <3>2. \A n \in Ages : Older(n) \in Ages
      BY DEF Older
    <3>3. /\ saved' \in [connection : MadeConnections \cup {NoConnection}, route : Routes,
                         established : Ages]
          /\ HasSaved' => /\ saved'.connection.madeFor = saved'.route
                          /\ saved'.connection.age = saved'.established
      <4>1. CASE HasSaved
        <5>1. saved.connection \in MadeConnections /\ saved.established \in Ages
          BY <4>1 DEF IInv, TypeOK, HasSaved
        <5>2. saved' = [saved EXCEPT !.established = Older(saved.established),
                                     !.connection = OlderConnection(saved.connection)]
          BY <2>5, <4>1, Zenon DEF Tick
        <5>3. /\ saved'.established = Older(saved.established) /\ saved'.route = saved.route
              /\ saved'.connection = OlderConnection(saved.connection)
              /\ saved' = [connection |-> saved'.connection, route |-> saved'.route,
                           established |-> saved'.established]
          BY <5>2, Zenon DEF IInv, TypeOK
        <5>4. /\ saved.connection.age = saved.established /\ saved.route \in Routes
              /\ saved.connection.madeFor = saved.route
          BY <4>1 DEF IInv, Stamped, OwnRoute, TypeOK
        <5> QED  BY <3>1, <3>2, <5>1, <5>3, <5>4
      <4>2. CASE ~ HasSaved
        <5>1. saved' = saved
          BY <2>5, <4>2, Zenon DEF Tick
        <5> QED  BY <4>2, <5>1, Zenon DEF IInv, TypeOK, HasSaved
      <4> QED  BY <4>1, <4>2
    <3>4. ASSUME NEW a \in Attempts
          PROVE  /\ attempt'[a] \in AttemptStates /\ attempt'[a].at = attempt[a].at
                 /\ attempt[a].at = "saving" =>
                      Holds(a)' /\ attempt'[a].connection.age = attempt'[a].finished
                 /\ attempt[a].at # "saving" => attempt'[a] = attempt[a]
                 /\ Holds(a)' => attempt'[a].connection.madeFor = attempt'[a].route
      <4>1. attempt[a] \in AttemptStates
        BY DEF IInv, TypeOK
      <4>2. CASE attempt[a].at = "saving"
        <5>1. /\ attempt[a].connection \in MadeConnections /\ attempt[a].finished \in Ages
              /\ attempt[a].connection.age = attempt[a].finished
              /\ attempt[a].connection.madeFor = attempt[a].route
          BY <4>1, <4>2 DEF IInv, Stamped, OwnRoute, Holds, AttemptStates
        <5>2. attempt'[a] = [attempt[a] EXCEPT !.finished = Older(attempt[a].finished),
                                 !.connection = OlderConnection(attempt[a].connection)]
          BY <2>5, <4>2, Zenon DEF Tick
        <5>3. /\ attempt'[a].finished = Older(attempt[a].finished)
              /\ attempt'[a].connection = OlderConnection(attempt[a].connection)
              /\ attempt'[a].route = attempt[a].route /\ attempt'[a].at = attempt[a].at
          BY <4>1, <5>2, Zenon DEF AttemptStates
        <5>4. attempt'[a] \in AttemptStates
          BY <3>1, <3>2, <4>1, <5>1, <5>2, Zenon DEF AttemptStates
        <5>5. Holds(a)'
          BY <3>1, <5>1, <5>3, Zenon DEF Holds
        <5> QED  BY <3>1, <4>2, <5>1, <5>3, <5>4, <5>5
      <4>3. CASE attempt[a].at # "saving"
        <5>1. attempt'[a] = attempt[a]
          BY <2>5, <4>3, Zenon DEF Tick
        <5> QED  BY <4>1, <4>3, <5>1 DEF IInv, OwnRoute, Holds
      <4> QED  BY <4>2, <4>3
    <3>5. attempt' = [a \in Attempts |-> attempt'[a]]
      BY <2>5, Zenon DEF Tick
    <3>6. TypeOK'
      BY <3>3, <3>4, <3>5 DEF TypeOK
    <3>7. Stamped' /\ NotFinished'
      BY <3>3, <3>4 DEF IInv, Stamped, NotFinished
    <3>8. OwnRoute'
      BY <3>3, <3>4 DEF OwnRoute
    <3> QED  BY <3>6, <3>7, <3>8 DEF IInv
  <2>6. CASE UNCHANGED vars
    BY <2>6 DEF vars, IInv, TypeOK, Stamped, NotFinished, OwnRoute, Holds, HasSaved
  <2> QED  BY <2>1, <2>2, <2>3, <2>4, <2>5, <2>6 DEF Next
<1> QED  BY <1>1, <1>2, PTL DEF Spec

\* connect_over returns, and save_preconnected saves, a connection for the route
\* it was made for.
THEOREM ConnectionKeepsItsRoute == Spec => []OwnRoute
<1>1. IInv => OwnRoute
  BY DEF IInv
<1> QED  BY <1>1, PreconnectInvariant, PTL

\* connect_over takes the saved connection only for its own route and less than the
\* timeout after a connect came out with it.
THEOREM NeverTakesExpired == Spec => TakenFreshForItsRoute
<1>1. IInv /\ [Next]_vars
        => [\A a \in Attempts : Takes(a) =>
              /\ saved.connection.age < Timeout
              /\ saved.connection.madeFor = attempt'[a].route]_vars
  <2> SUFFICES ASSUME IInv, Next, NEW a \in Attempts, Takes(a)
               PROVE  /\ saved.connection.age < Timeout
                      /\ saved.connection.madeFor = attempt'[a].route
    OBVIOUS
  <2>1. /\ attempt \in [Attempts -> AttemptStates] /\ attempt[a].at = "idle" /\ HasSaved
        /\ attempt'[a].at \in {"connected", "saving"}
    BY DEF IInv, TypeOK, Takes
  <2>2. ASSUME NEW b \in Attempts, NEW route \in Routes, NEW kind \in Kinds,
               ConnectOver(b, route, kind)
        PROVE  /\ saved.connection.age < Timeout
               /\ saved.connection.madeFor = attempt'[a].route
    <3>1. a = b
      BY <2>1, <2>2 DEF ConnectOver
    <3>2. /\ saved.established < Timeout /\ saved.route = route
          /\ attempt'[a].route = route
      BY <2>1, <2>2, <3>1, ConnectOverCases DEF IInv
    <3> QED  BY <2>1, <3>2 DEF IInv, Stamped, OwnRoute
  <2>3. ASSUME NEW b \in Attempts, NEW x, attempt[b].at # "idle",
               attempt' = [attempt EXCEPT ![b] = x]
        PROVE  FALSE
    BY <2>1, <2>3
  <2>4. ASSUME NEW b \in Attempts, \/ \E c \in Connections : Connected(b, c)
                                   \/ Ends(b) \/ SavePreconnected(b)
        PROVE  FALSE
    <3>1. CASE \E c \in Connections : Connected(b, c)
      BY <2>3, <3>1, Zenon DEF Connected
    <3>2. CASE Ends(b)
      <4>1. attempt[b].at # "idle"
        BY <3>2 DEF Ends
      <4> QED  BY <2>3, <3>2, <4>1, Zenon DEF Ends
    <3>3. CASE SavePreconnected(b)
      BY <2>3, <3>3, Zenon DEF SavePreconnected
    <3> QED  BY <2>4, <3>1, <3>2, <3>3
  <2>5. ASSUME Tick
        PROVE  FALSE
    BY <2>1, <2>5, Zenon DEF Tick
  <2> QED  BY <2>2, <2>4, <2>5 DEF Next
<1> QED  BY <1>1, PreconnectInvariant, PTL DEF Spec, TakenFreshForItsRoute

\* save_preconnected replaces a saved connection only by one that finished no
\* earlier.
THEOREM NewestStays == Spec => NewestIsKept
<1>1. IInv /\ [Next]_vars
        => [(HasSaved /\ HasSaved' /\ saved'.connection.id # saved.connection.id)
              => saved'.established <= saved.established]_vars
  <2> SUFFICES ASSUME IInv, Next, HasSaved, HasSaved',
                      saved'.connection.id # saved.connection.id
               PROVE  saved'.established <= saved.established
    OBVIOUS
  <2>1. saved' # NothingSaved /\ saved' # saved
    BY DEF HasSaved, NothingSaved
  <2>2. ASSUME NEW a \in Attempts, NEW route \in Routes, NEW kind \in Kinds,
               ConnectOver(a, route, kind)
        PROVE  FALSE
    BY <2>1, <2>2, ConnectOverCases DEF IInv
  <2>3. ASSUME NEW a \in Attempts, NEW c \in Connections, Connected(a, c)
        PROVE  FALSE
    BY <2>1, <2>3 DEF Connected
  <2>4. ASSUME NEW a \in Attempts, Ends(a)
        PROVE  FALSE
    BY <2>1, <2>4 DEF Ends
  <2>5. ASSUME NEW a \in Attempts, SavePreconnected(a)
        PROVE  saved'.established <= saved.established
    BY <2>1, <2>5, PreconnectAssumption DEF SavePreconnected, IInv, TypeOK, AttemptStates,
                                            Ages, MaxAge
  <2>6. ASSUME Tick
        PROVE  FALSE
    <3>1. saved.connection \in MadeConnections
      BY DEF IInv, TypeOK, AttemptStates, HasSaved
    <3>2. saved'.connection = [saved.connection EXCEPT !.age = Older(@)]
      BY <2>6, Zenon DEF Tick, IInv, TypeOK, AttemptStates, HasSaved, OlderConnection
    <3> QED  BY <3>1, <3>2 DEF MadeConnections
  <2> QED  BY <2>2, <2>3, <2>4, <2>5, <2>6 DEF Next
<1> QED  BY <1>1, PreconnectInvariant, PTL DEF Spec, NewestIsKept

-----------------------------------------------------------------------------
(* The failure records                                                     *)

\* The types of the records and of the connects, and that a connect that
\* reports has finished in the past.
Progress ==
    [at : {"idle", "subscribed", "running", "finished"}, changed : BOOLEAN, snapshot : SUBSET Nat,
     reset : BOOLEAN, start : Nat, finished : Nat, wall : Nat]

StateInv ==
    /\ now \in Nat /\ slept \in Nat /\ notifier.cutoff \in Nat
    /\ \A r \in AllRoutes : records[r] # << >> =>
           records[r][1].started \in Nat /\ records[r][1].wall \in Nat
    /\ connect \in [Connects -> Progress]
    /\ \A c \in Connects : connect[c].finished =< now

\* One connect moves on.
LEMMA ConnectMoves ==
    ASSUME connect \in [Connects -> Progress], \A d \in Connects : connect[d].finished =< now,
           NEW c \in Connects, NEW x \in Progress, x.finished =< now,
           connect' = [connect EXCEPT ![c] = x]
    PROVE  connect' \in [Connects -> Progress] /\ \A d \in Connects : connect'[d].finished =< now
OBVIOUS

\* What is recorded of a failed attempt, and when a record goes.
LEMMA AppliedIs ==
    ASSUME NEW old, NEW outcome, NEW started, NEW wall
    PROVE  /\ Applied(old, outcome, started, wall) = << >> =>
                outcome = "ok" \/ (outcome = "untried" /\ old = << >>)
           /\ Applied(old, outcome, started, wall) # << >> =>
                \/ Applied(old, outcome, started, wall) = old
                \/ /\ Applied(old, outcome, started, wall)[1].started = started
                   /\ Applied(old, outcome, started, wall)[1].wall = wall
BY DEF Applied, Failure

LEMMA AgedOutIs ==
    ASSUME NEW old, NEW at \in Nat, old # << >>, old[1].started \in Nat
    PROVE  /\ AgedOut(old, at) = << >> => at - old[1].started >= AgeCutoff(old[1])
           /\ AgedOut(old, at) # << >> => AgedOut(old, at) = old
BY CutoffAssumption DEF AgedOut, Age, AgeCutoff

\* The records that a report leaves.
LEMMA Reported ==
    ASSUME StateInv, NEW c \in Connects, NEW o, NEW s, connect[c].at = "finished",
           s \in [AllRoutes -> connect[c].start .. connect[c].finished],
           records' = [r \in AllRoutes |-> Applied(AgedOut(records[r], connect[c].finished),
                                                 o[r], s[r], connect[c].wall)]
    PROVE  \A r \in AllRoutes :
             /\ records'[r] # << >> => records'[r][1].started \in Nat /\ records'[r][1].wall \in Nat
             /\ records[r] # << >> /\ records'[r] = << >> =>
                  o[r] = "ok" \/ now - records[r][1].started >= AgeCutoff(records[r][1])
<1> TAKE r \in AllRoutes
<1>1. /\ connect[c].finished \in Nat /\ connect[c].finished =< now /\ connect[c].wall \in Nat
      /\ connect[c].start \in Nat /\ now \in Nat
  BY DEF StateInv, Progress
<1>2. s[r] \in Nat
  BY <1>1
<1>3. PICK old : old = AgedOut(records[r], connect[c].finished)
  OBVIOUS
<1>4. records'[r] = Applied(old, o[r], s[r], connect[c].wall)
  BY <1>3
<1>5. CASE records[r] = << >>
  <2>1. old = << >>
    BY <1>3, <1>5, Zenon DEF AgedOut
  <2> QED  BY <1>1, <1>2, <1>4, <1>5, <2>1, AppliedIs
<1>6. CASE records[r] # << >>
  <2>1. records[r][1].started \in Nat /\ records[r][1].wall \in Nat
    BY <1>6 DEF StateInv
  <2>2. /\ old = << >> => connect[c].finished - records[r][1].started >= AgeCutoff(records[r][1])
        /\ old # << >> => old = records[r]
    BY <1>1, <1>3, <1>6, <2>1, AgedOutIs
  <2>3. AgeCutoff(records[r][1]) \in Nat
    BY CutoffAssumption DEF AgeCutoff
  <2>4. old = << >> => now - records[r][1].started >= AgeCutoff(records[r][1])
    BY <1>1, <2>1, <2>2, <2>3
  <2>5. records'[r] # << >> => records'[r][1].started \in Nat /\ records'[r][1].wall \in Nat
    BY <1>1, <1>2, <1>4, <2>1, <2>2, AppliedIs
  <2> QED  BY <1>4, <2>4, <2>5, AppliedIs
<1> QED  BY <1>5, <1>6

\* The invariant of the records of ConnectState holds initially and is preserved
\* by every step of connects, network changes and clocks.
THEOREM StateInvariant == StateSpec => []StateInv
<1>1. StateInit => StateInv
  BY DEF StateInit, StateInv, NoRecords, NotConnecting, Progress
<1>2. StateInv /\ [StateNext]_stateVars => StateInv'
  <2> SUFFICES ASSUME StateInv, [StateNext]_stateVars PROVE StateInv'
    OBVIOUS
  <2>1. ASSUME NEW c \in Connects, Subscribe(c) \/ WantsRecalculation(c)
        PROVE  StateInv'
    <3>1. PICK x \in Progress : x.finished =< now /\ connect' = [connect EXCEPT ![c] = x]
      <4>1. CASE Subscribe(c)
        <5>1. /\ [connect[c] EXCEPT !.at = "subscribed"] \in Progress
              /\ [connect[c] EXCEPT !.at = "subscribed"].finished =< now
          BY Zenon DEF StateInv, Progress
        <5>2. connect' = [connect EXCEPT ![c] = [connect[c] EXCEPT !.at = "subscribed"]]
          BY <4>1 DEF Subscribe
        <5> QED  BY <5>1, <5>2, Zenon
      <4>2. CASE WantsRecalculation(c)
        <5>1. /\ [connect[c] EXCEPT !.reset = TRUE, !.changed = FALSE] \in Progress
              /\ [connect[c] EXCEPT !.reset = TRUE, !.changed = FALSE].finished =< now
          BY Zenon DEF StateInv, Progress
        <5>2. connect' = [connect EXCEPT ![c] = [connect[c] EXCEPT !.reset = TRUE, !.changed = FALSE]]
          BY <4>2, Zenon DEF WantsRecalculation
        <5> QED  BY <5>1, <5>2, Zenon
      <4> QED  BY <2>1, <4>1, <4>2
    <3> QED  BY <2>1, <3>1, ConnectMoves DEF Subscribe, WantsRecalculation, StateInv
  <2>2. ASSUME NEW c \in Connects, PrepareSnapshot(c)
        PROVE  StateInv'
    <3>1. \A r \in AllRoutes : records'[r] # << >> => records'[r] = records[r]
      BY <2>2 DEF PrepareSnapshot, Awake
    <3>2. PICK S : S = {records'[r][1].started : r \in Failing(records')}
      BY Zenon
    <3>3. S \in SUBSET Nat
      BY <3>1, <3>2 DEF Failing, StateInv
    <3>4. PICK x \in Progress : x.finished =< now /\ connect' = [connect EXCEPT ![c] = x]
      <4>1. PICK x : x = [connect[c] EXCEPT !.at = "running", !.start = now, !.snapshot = S]
        OBVIOUS
      <4>2. x \in Progress /\ x.finished =< now
        BY <3>3, <4>1, Zenon DEF StateInv, Progress
      <4>3. connect' = [connect EXCEPT ![c] = x]
        BY <2>2, <3>2, <4>1, Zenon DEF PrepareSnapshot
      <4> QED  BY <4>2, <4>3, Zenon
    <3> QED  BY <2>2, <3>1, <3>4, ConnectMoves, Zenon DEF PrepareSnapshot, StateInv
  <2>3. ASSUME NEW c \in Connects, Finish(c) \/ TimesOut(c)
        PROVE  StateInv'
    <3>1. PICK x \in Progress : x.finished =< now /\ connect' = [connect EXCEPT ![c] = x]
      <4>1. CASE Finish(c)
        <5>1. PICK x : x = [NotConnecting EXCEPT !.at = "finished", !.start = connect[c].start,
                                                 !.finished = now, !.wall = now + slept]
          OBVIOUS
        <5>2. x = [at |-> "finished", changed |-> FALSE, snapshot |-> {}, reset |-> FALSE,
                   start |-> connect[c].start, finished |-> now, wall |-> now + slept]
          BY <5>1, Zenon DEF NotConnecting
        <5>3. connect[c].start \in Nat /\ now \in Nat /\ now + slept \in Nat
          BY DEF StateInv, Progress
        <5>4. x \in Progress /\ x.finished =< now
          BY <5>2, <5>3 DEF Progress
        <5> QED  BY <4>1, <5>1, <5>4, Zenon DEF Finish
      <4>2. CASE TimesOut(c)
        <5>1. NotConnecting \in Progress /\ NotConnecting.finished =< now
          BY DEF NotConnecting, StateInv, Progress
        <5> QED  BY <4>2, <5>1, Zenon DEF TimesOut
      <4> QED  BY <2>3, <4>1, <4>2
    <3> QED  BY <2>3, <3>1, ConnectMoves DEF Finish, TimesOut, StateInv
  <2>4. ASSUME NEW c \in Connects, NEW o \in PossibleOutcomes, NEW s \in StartTimes(c, o),
               \/ \E f \in ServiceOutcomes(o) : ApplyUpdates(c, o, s, f)
               \/ PreconnectApplies(c, o, s)
        PROVE  StateInv'
    <3>1. s \in [AllRoutes -> connect[c].start .. connect[c].finished]
      BY Zenon DEF StartTimes
    <3>2. \A r \in AllRoutes : records'[r] # << >> =>
             records'[r][1].started \in Nat /\ records'[r][1].wall \in Nat
      <4>1. PICK p : records' = [r \in AllRoutes |->
                         Applied(AgedOut(records[r], connect[c].finished),
                                 p[r], s[r], connect[c].wall)]
        BY <2>4 DEF ApplyUpdates, PreconnectApplies
      <4>2. connect[c].at = "finished"
        BY <2>4, Zenon DEF ApplyUpdates, PreconnectApplies
      <4> QED  BY <3>1, <4>1, <4>2, Reported
    <3>3. PICK x \in Progress : x.finished =< now /\ connect' = [connect EXCEPT ![c] = x]
      <4>1. NotConnecting \in Progress /\ NotConnecting.finished =< now
        BY DEF NotConnecting, StateInv, Progress
      <4>2. connect' = [connect EXCEPT ![c] = NotConnecting]
        BY <2>4 DEF ApplyUpdates, PreconnectApplies
      <4> QED  BY <4>1, <4>2, Zenon
    <3> QED  BY <2>4, <3>2, <3>3, ConnectMoves DEF ApplyUpdates, PreconnectApplies, StateInv
  <2>5. CASE OnNetworkChange \/ NetworkChanged
    BY <2>5 DEF OnNetworkChange, NetworkChanged, Reset, StateInv
  <2>6. CASE SendEvent
    <3>1. \A d \in Connects : /\ [connect[d] EXCEPT !.changed = TRUE] \in Progress
                              /\ [connect[d] EXCEPT !.changed = TRUE].finished =< now
      BY Zenon DEF StateInv, Progress
    <3> QED  BY <2>6, <3>1 DEF SendEvent, StateInv
  <2>7. CASE ClockTick \/ Suspend \/ UNCHANGED stateVars
    <3>1. \A d \in Connects : connect[d].finished \in Nat
      BY DEF StateInv, Progress
    <3> QED  BY <2>7, <3>1 DEF ClockTick, Suspend, stateVars, StateInv
  <2> QED  BY <2>1, <2>2, <2>3, <2>4, <2>5, <2>6, <2>7 DEF StateNext
<1> QED  BY <1>1, <1>2, PTL DEF StateSpec

\* apply_outcome_updates and reset forget a failure only for a cause (a success,
\* its age by one of the clocks, a network change), whatever the cutoffs, the
\* routes and the number of connects that overlap.
THEOREM FailuresForgottenForCause == StateSpec => ForgottenForCause
<1> DEFINE Cause(r) ==
             \/ now - records[r][1].started >= AgeCutoff(records[r][1])
             \/ now + slept - records[r][1].wall >= LongTermCutoff
             \/ NetworkChanged /\ records[r][1].started <= notifier.cutoff
             \/ Reports(LAMBDA o : o[r] = "ok")
             \/ \E c \in Connects, o \in PossibleOutcomes :
                  o[r] = "ok" /\ \E s \in StartTimes(c, o) : PreconnectApplies(c, o, s)
<1>1. ASSUME StateInv, StateNext, NEW r \in AllRoutes, records[r] # << >>, records'[r] = << >>
      PROVE  Cause(r)
  <2>1. records[r][1].started \in Nat /\ records[r][1].wall \in Nat
    BY <1>1 DEF StateInv
  <2>2. ASSUME NEW c \in Connects, PrepareSnapshot(c)
        PROVE  Cause(r)
    <3>1. Asleep(records[r])
      BY <1>1, <2>2 DEF PrepareSnapshot, Awake
    <3>2. now \in Nat /\ slept \in Nat /\ LongTermCutoff \in Nat
      BY <1>1, CutoffAssumption DEF StateInv
    <3>3. now + slept - records[r][1].wall >= LongTermCutoff
      BY <2>1, <3>1, <3>2 DEF Asleep
    <3> QED  BY <3>3
  <2>3. ASSUME NEW c \in Connects, NEW o \in PossibleOutcomes, NEW s \in StartTimes(c, o),
               NEW f \in ServiceOutcomes(o), ApplyUpdates(c, o, s, f)
        PROVE  Cause(r)
    <3>1. PICK p : p = ProcessOutcomes(o)
      OBVIOUS
    <3>2. s \in [AllRoutes -> connect[c].start .. connect[c].finished]
      BY DEF StartTimes
    <3>3. p[r] = "ok" \/ now - records[r][1].started >= AgeCutoff(records[r][1])
      <4>1. connect[c].at = "finished" /\
            records' = [q \in AllRoutes |-> Applied(AgedOut(records[q], connect[c].finished),
                                                  p[q], s[q], connect[c].wall)]
        BY <2>3, <3>1 DEF ApplyUpdates
      <4> QED  BY <1>1, <3>2, <4>1, Reported
    <3>4. p[r] = "ok" => o[r] = "ok"
      BY <3>1 DEF ProcessOutcomes
    <3>5. o[r] = "ok" => Reports(LAMBDA q : q[r] = "ok")
      BY <2>3, Zenon DEF Reports, ApplyUpdates
    <3> QED  BY <3>3, <3>4, <3>5
  <2>4. ASSUME NEW c \in Connects, NEW o \in PossibleOutcomes, NEW s \in StartTimes(c, o),
               PreconnectApplies(c, o, s)
        PROVE  Cause(r)
    <3>1. s \in [AllRoutes -> connect[c].start .. connect[c].finished]
      BY DEF StartTimes
    <3>2. o[r] = "ok" \/ now - records[r][1].started >= AgeCutoff(records[r][1])
      <4>1. connect[c].at = "finished" /\
            records' = [q \in AllRoutes |-> Applied(AgedOut(records[q], connect[c].finished),
                                                  o[q], s[q], connect[c].wall)]
        BY <2>4, Zenon DEF PreconnectApplies
      <4> QED  BY <1>1, <3>1, <4>1, Reported
    <3> QED  BY <2>4, <3>2
  <2>5. CASE NetworkChanged
    <3>1. ~ notifier.cutoff < records[r][1].started
      BY <1>1, <2>5 DEF NetworkChanged, Reset
    <3>2. records[r][1].started <= notifier.cutoff
      BY <1>1, <2>1, <3>1 DEF StateInv
    <3> QED  BY <2>5, <3>2
  <2>6. ASSUME records' = records
        PROVE  Cause(r)
    BY <1>1, <2>6
  <2> HIDE DEF Cause
  <2> QED
    BY <1>1, <2>2, <2>3, <2>4, <2>5, <2>6, Zenon
    DEF StateNext, Subscribe, WantsRecalculation, Finish, TimesOut, OnNetworkChange, SendEvent,
        ClockTick, Suspend
<1>2. StateInv /\ [StateNext]_stateVars
        => [\A r \in AllRoutes : (records[r] # << >> /\ records'[r] = << >>) => Cause(r)]_stateVars
  <2> HIDE DEF Cause
  <2> QED  BY <1>1
<1> QED  BY <1>2, StateInvariant, PTL DEF StateSpec, ForgottenForCause
================================================================================
