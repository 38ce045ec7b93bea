----------------------------- MODULE OnceChannel -----------------------------
(***************************************************************************)
(* What an encrypted channel promises its application: the messages that   *)
(* come out are messages that went in, and none comes out twice.  Messages *)
(* may come out in any order, or not at all.                               *)
(***************************************************************************)
EXTENDS Sequences, Functions

VARIABLES
    in,     \* the set of messages sent
    out     \* the sequence of messages received

Init ==
    /\ in = {}
    /\ out = << >>

Send ==
    /\ \E m \in in' : m \notin in /\ in' = in \cup {m}
    /\ UNCHANGED out

Receive ==
    /\ \E m \in in : m \notin Range(out) /\ out' = Append(out, m)
    /\ UNCHANGED in

Next == Send \/ Receive

Spec == Init /\ [][Next]_<<in, out>>
==============================================================================
