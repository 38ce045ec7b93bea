------------------------------ MODULE MCRatchets ------------------------------
(***************************************************************************)
(* The instances of ReceiverChain and RatchetSession that TLC checks.  A   *)
(* behaviour is one of the single chain or one of the session; whichever   *)
(* does not move stays in its initial state.                               *)
(***************************************************************************)
EXTENDS ReceiverChain, RatchetSession

ChainStep(step) == step /\ SessionInit /\ UNCHANGED sessionVars

RatchetsInit == Init /\ SessionInit

RatchetsNext == ChainStep(Next) \/ (Init /\ SessionNext /\ UNCHANGED vars)

\* A network that keeps retrying: every message that can still change the
\* receiver's state is eventually handed to it.
RatchetsSpec ==
    /\ RatchetsInit /\ [][RatchetsNext]_<<vars, sessionVars>>
    /\ \A counter \in 0 .. (MaxSends - 1) :
           WF_vars(ChainStep(counter < sent /\ Receive(counter)))
===============================================================================
