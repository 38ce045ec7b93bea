------------------------------- MODULE MCRecords -------------------------------
(***************************************************************************)
(* What the client keeps from one call to the next, in instances that TLC  *)
(* checks: a behaviour is one of the session record (SessionArchive), of   *)
(* the sender key record (SenderKeys) or of the backup key and its         *)
(* enclaves (SvrB), and the others stay in their initial state.            *)
(***************************************************************************)
EXTENDS SessionArchive, SenderKeys, SvrB

RecordsInit == Init /\ SenderInit /\ SvrBInit

RecordsNext ==
    \/ SenderInit /\ SvrBInit /\ Next /\ UNCHANGED <<senderVars, svrbVars>>
    \/ Init /\ SvrBInit /\ SenderNext /\ UNCHANGED <<vars, svrbVars>>
    \/ Init /\ SenderInit /\ SvrBNext /\ UNCHANGED <<vars, senderVars>>

RecordsSpec == RecordsInit /\ [][RecordsNext]_<<vars, senderVars, svrbVars>>

\* Chain ids, and the enclaves after the first one, are only compared with each other.
RecordsSymmetry == Permutations(ChainIds) \cup LaterEnclaves

================================================================================
