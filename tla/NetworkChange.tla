---------------------------- MODULE NetworkChange ----------------------------
(***************************************************************************)
(* ConnectState, watching when the failures it has recorded came to an     *)
(* end.  A record holds when its attempt began; that it ended, at the      *)
(* latest when its connect finished, is not kept.                          *)
(***************************************************************************)
EXTENDS ConnectState

VARIABLE completed    \* per route: when the attempt on record ended (history)

\* The connects that report in this step, and the routes a failure is noted of.
Reporting == {c \in Connects : connect[c].at = "finished" /\ connect'[c].at = "idle"}
Noted == {r \in AllRoutes : records'[r] # << >> /\ records'[r] # records[r]}

WatchInit == StateInit /\ completed = [r \in AllRoutes |-> 0]

\* An attempt ends after it began and no later than its connect.
WatchNext ==
    /\ StateNext
    /\ completed' \in [AllRoutes -> 0 .. now]
    /\ \A r \in AllRoutes :
         IF r \in Noted
         THEN \E c \in Reporting : completed'[r] \in records'[r][1].started .. connect[c].finished
         ELSE completed'[r] = completed[r]

WatchSpec == WatchInit /\ [][WatchNext]_<<stateVars, completed>>

-----------------------------------------------------------------------------
\* The doc comment of ConnectionOutcomes::reset: "Clear any outcomes from before the
\* cutoff.  Assumes those that completed after the cutoff are still relevant."  A
\* network change leaves alone what ended after it.
LaterOutcomesKept ==
    [][NetworkChanged =>
         \A r \in AllRoutes : (records[r] # << >> /\ completed[r] > notifier.cutoff)
                                => records'[r] = records[r]]_<<stateVars, completed>>

==============================================================================
