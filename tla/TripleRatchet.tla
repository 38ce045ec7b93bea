---------------------------- MODULE TripleRatchet ----------------------------
(***************************************************************************)
(* rust/protocol/src/triple_ratchet.rs: the Double Ratchet combined with   *)
(* SPQR, as operators on sessions [ratchet, pqr].                          *)
(*                                                                         *)
(* SPQR is a library: send numbers the message it yields a key for, and    *)
(* recv yields the key for a number once, within the limits that           *)
(* spqr_chain_params gives it.  One of its epochs is modelled: it numbers  *)
(* all messages of a party, across the chains of the Double Ratchet.  A    *)
(* MAC is valid exactly when the key it is verified with is the key it was *)
(* made with.                                                              *)
(***************************************************************************)
EXTENDS DoubleRatchet

PqrInitial == [sent |-> 0, received |-> {}]

PqrSend(pqr) == [msg |-> pqr.sent, state |-> [pqr EXCEPT !.sent = @ + 1]]

\* The newest number a key was given out for, -1 if there is none.
PqrNewest(received) == Max(received \cup {-1})

\* max_jump and max_ooo_keys of spqr_chain_params, for a session with someone else.
PqrTooFar(received, msg) == msg - PqrNewest(received) > MAX_FORWARD_JUMPS

PqrTrimmed(received, msg) == PqrNewest(received) - msg > MAX_MESSAGE_KEYS

PqrRecv(pqr, msg) ==
    [ok    |-> /\ msg \notin pqr.received
               /\ ~ PqrTooFar(pqr.received, msg) /\ ~ PqrTrimmed(pqr.received, msg),
     state |-> [pqr EXCEPT !.received = @ \cup {msg}]]

MessageKey(chain, counter, pqr_msg) ==
    [seed |-> chain.seed, counter |-> counter, pqr |-> pqr_msg]

-----------------------------------------------------------------------------

\* ChainKey::next_chain_key on the sender chain.
NextSenderChain(ratchet) == [ratchet EXCEPT !.sender_chain.index = @ + 1]

\* OutgoingTripleRatchet::encrypt.
Encrypt(session) ==
    LET chain == session.ratchet.sender_chain
        send  == PqrSend(session.pqr)
    IN  [message |-> [ratchet_key |-> chain.ratchet_key,
                      counter     |-> chain.index,
                      pqr         |-> send.msg,
                      mac_key     |-> MessageKey(chain, chain.index, send.msg)],
         session |-> [ratchet |-> NextSenderChain(session.ratchet),
                      pqr     |-> send.state]]

\* The SPQR and MAC checks of TripleRatchet::decrypt, once the message key
\* has been taken from the receiver chain.
VerifyAndDecrypt(ratchet, pqr, chain, message) ==
    LET recv == PqrRecv(pqr, message.pqr)
        mine == MessageKey(chain, message.counter, message.pqr)
    IN  IF recv.ok /\ mine = message.mac_key
        THEN [result |-> "Ok", session |-> [ratchet |-> ratchet, pqr |-> recv.state]]
        ELSE [result |-> "InvalidMessage", session |-> [ratchet |-> ratchet, pqr |-> pqr]]

\* TripleRatchet::decrypt: the result and the session afterwards, which has
\* changed on some failures too (the caller then drops it).
Decrypt(session, message, max_forward_jumps, new_sender_key) ==
    LET ensured  == EnsureReceiverChain(session.ratchet, message.ratchet_key, new_sender_key)
        i        == FindReceiverChainIndex(ensured.receiver_chains, message.ratchet_key)
        chain    == ensured.receiver_chains[i]
        consumed == ConsumeMessageKey(chain, message.counter, max_forward_jumps)
        ratchet  == [ensured EXCEPT !.receiver_chains[i] = consumed.chain]
    IN  IF consumed.result # "Ok"
        THEN [result  |-> consumed.result,
              session |-> [ratchet |-> ensured, pqr |-> session.pqr]]
        ELSE VerifyAndDecrypt(ratchet, session.pqr, chain, message)
==============================================================================
