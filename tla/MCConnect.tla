------------------------------ MODULE MCConnect ------------------------------
(* The saved connection (Preconnect) and the failure records (ConnectState)  *)
(* share no state, and are explored one beside the other: a behaviour is     *)
(* about one of them, while the other stays as it began.                     *)
(*                                                                           *)
(* Connects are interchangeable; every property is one of states or of       *)
(* single steps.                                                             *)
EXTENDS Preconnect, ConnectState, TLC

\* Bound: connects do not overlap on a machine that has slept.
OneAfterSleep ==
    slept > 0 => Cardinality({c \in Connects : connect[c].at # "idle"}) <= 1

ConnectInit == Init /\ StateInit

ConnectNext ==
    \/ StateInit /\ Next /\ UNCHANGED stateVars
    \/ Init /\ StateNext /\ UNCHANGED vars /\ OneAfterSleep'

ConnectSpec == ConnectInit /\ [][ConnectNext]_<<vars, stateVars>>

ConnectSymmetry == Permutations(Connects)

=============================================================================
