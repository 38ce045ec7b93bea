---------------------------- MODULE TrialDecrypt -----------------------------
(***************************************************************************)
(* RatchetSession, watching the objects a decryption works on: the copy    *)
(* `state` that try_decrypt_from_record passes to try_decrypt_with_state,  *)
(* and the TripleRatchet made from it.  from_session_state moves the       *)
(* receiver chains and the SPQR state out of `state`; they come back only  *)
(* through apply_to_session_state, after a success.                        *)
(***************************************************************************)
EXTENDS RatchetSession

VARIABLE trial    \* the last decryption: its result, `state` before and after it,
                  \* and the contents of the TripleRatchet after it

\* `state` after TripleRatchet::from_session_state; no SPQR state is left in it.
Taken(state) ==
    [ratchet |-> [state.ratchet EXCEPT !.receiver_chains = << >>], pqr |-> PqrInitial]

TrialInit ==
    /\ SessionInit
    /\ trial = [result |-> "Ok", before |-> RecipientSession,
                after |-> RecipientSession, triple |-> RecipientSession]

TrialSend(p) == SendMessage(p) /\ UNCHANGED trial

TryDecryptWithState(p, n) ==
    /\ ReceiveMessage(p, n)
    /\ LET d == TryDecrypt(p, n) IN
       trial' = [result |-> d.result,
                 before |-> session[p],
                 after  |-> IF d.result = "Ok" THEN d.session ELSE Taken(session[p]),
                 triple |-> d.session]

TrialNext ==
    \/ \E p \in Party : TrialSend(p)
    \/ \E p \in Party, n \in DOMAIN messages : TryDecryptWithState(p, n)

TrialSpec == TrialInit /\ [][TrialNext]_<<sessionVars, trial>>

-----------------------------------------------------------------------------
\* The doc comment of try_decrypt_with_state: "On failure, `state` is unchanged."
StateUnchangedOnFailure == trial.result # "Ok" => trial.after = trial.before

==============================================================================
