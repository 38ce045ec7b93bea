--------------------------- MODULE RatchetSession ----------------------------
(***************************************************************************)
(* Two parties with one Triple Ratchet session between them, right after   *)
(* the key agreement: the initiator can send, the recipient can send once  *)
(* it has decrypted a message.  The network may lose, delay, reorder and   *)
(* duplicate messages.  A decryption that fails leaves the stored session  *)
(* alone (try_decrypt_from_record works on a copy).                        *)
(*                                                                         *)
(* The n-th ratchet key pair of a party is <<party, n>>.  A pair generated *)
(* in a decryption that fails is dropped with the copy, so naming the next *)
(* one alike is harmless.                                                  *)
(***************************************************************************)
EXTENDS TripleRatchet

CONSTANTS
    Initiator, Recipient,    \* the two parties
    MaxSessionSends          \* bound on the messages sent by both together

ASSUME PartyAssumption == Initiator # Recipient

Party == {Initiator, Recipient}

Peer(p) == IF p = Initiator THEN Recipient ELSE Initiator

VARIABLES
    session,      \* the stored session of each party
    messages,     \* all messages sent so far, by number
    deliveries    \* how often each of them was decrypted

sessionVars == <<session, messages, deliveries>>

SharedSecret == << "pqxdh" >>

InitiatorSession ==
    LET ours   == <<Initiator, 1>>
        theirs == <<Recipient, 0>>
        root   == CreateChain(SharedSecret, DH(ours, theirs))
    IN  [ratchet |-> [root_key         |-> root,
                      previous_counter |-> 0,
                      sender_chain     |-> [ratchet_key |-> ours, seed |-> root, index |-> 0],
                      receiver_chains  |-> << [ratchet_key |-> theirs, seed |-> SharedSecret,
                                               index |-> 0, keys |-> << >>] >>],
         pqr     |-> PqrInitial]

RecipientSession ==
    [ratchet |-> [root_key         |-> SharedSecret,
                  previous_counter |-> 0,
                  sender_chain     |-> [ratchet_key |-> <<Recipient, 0>>,
                                        seed |-> SharedSecret, index |-> 0],
                  receiver_chains  |-> << >>],
     pqr     |-> PqrInitial]

SessionInit ==
    /\ session = [p \in Party |-> IF p = Initiator THEN InitiatorSession
                                                   ELSE RecipientSession]
    /\ messages = << >>
    /\ deliveries = << >>

-----------------------------------------------------------------------------
Generation(p) == session[p].ratchet.sender_chain.ratchet_key[2]

NewSenderKey(p) == <<p, Generation(p) + 1>>

\* The recipient's session is stored only after a decryption with it.
Established(p) == p = Initiator \/ session[p].ratchet.receiver_chains # << >>

SendMessage(p) ==
    /\ Len(messages) < MaxSessionSends
    /\ Established(p)
    /\ LET e == Encrypt(session[p]) IN
       /\ session' = [session EXCEPT ![p] = e.session]
       /\ messages' = Append(messages, [from |-> p, body |-> e.message])
    /\ deliveries' = Append(deliveries, 0)

TryDecrypt(p, n) ==
    Decrypt(session[p], messages[n].body, MAX_FORWARD_JUMPS, NewSenderKey(p))

\* Faulty variant: the copy replaces the session also when decryption failed.
CommitAlways(old, decrypted) == decrypted.session

\* The copy replaces the session only if decryption succeeded.
Commit(old, decrypted) ==
    IF decrypted.result = "Ok" THEN decrypted.session ELSE old

ReceiveMessage(p, n) ==
    /\ messages[n].from = Peer(p)
    /\ LET d == TryDecrypt(p, n) IN
       /\ session' = [session EXCEPT ![p] = Commit(@, d)]
       /\ deliveries' = IF d.result = "Ok" THEN [deliveries EXCEPT ![n] = @ + 1]
                                           ELSE deliveries
    /\ UNCHANGED messages

SessionNext ==
    \/ \E p \in Party : SendMessage(p)
    \/ \E p \in Party, n \in DOMAIN messages : ReceiveMessage(p, n)

SessionSpec == SessionInit /\ [][SessionNext]_sessionVars

-----------------------------------------------------------------------------

Prefix(s, t) == Len(s) <= Len(t) /\ \A i \in 1 .. Len(s) : s[i] = t[i]

\* The two root keys have had the same secrets mixed in, in the same order, and
\* one of them is exactly one half-step ahead (create_chain, the ratchet steps of
\* both parties and the rule that a failed decryption is not committed).
SessionRootsInStep ==
    LET r == [p \in Party |-> session[p].ratchet.root_key]
    IN  \E p \in Party : Len(r[p]) = Len(r[Peer(p)]) + 1 /\ Prefix(r[Peer(p)], r[p])

-----------------------------------------------------------------------------
\* Messages of the chain of message n that were decrypted.
DeliveredOfChain(n) ==
    {m \in DOMAIN messages : /\ messages[m].body.ratchet_key = messages[n].body.ratchet_key
                             /\ deliveries[m] > 0}

\* Index of that receiver chain as far as the deliveries tell.
ChainIndex(n) == Max({-1} \cup {messages[m].body.counter : m \in DeliveredOfChain(n)}) + 1

\* The newest ratchet key of its peer that a party has seen.
NewestSeen(p) ==
    LET chains == session[p].ratchet.receiver_chains
    IN  IF chains = << >> THEN 0 ELSE chains[Len(chains)].ratchet_key[2]

\* The chain was dropped: MAX_RECEIVER_CHAINS newer ones exist.
ChainDropped(p, n) ==
    NewestSeen(p) - messages[n].body.ratchet_key[2] >= MAX_RECEIVER_CHAINS

\* The key was dropped: more than MAX_MESSAGE_KEYS newer ones were skipped or used.
KeyDropped(n) == (ChainIndex(n) - 1) - messages[n].body.counter > MAX_MESSAGE_KEYS

TooFar(n) == messages[n].body.counter - ChainIndex(n) > MAX_FORWARD_JUMPS

\* The SPQR numbers of the messages decrypted so far from the sender of message n.
PqrDelivered(n) ==
    {messages[m].body.pqr : m \in {k \in DOMAIN messages :
                                     messages[k].from = messages[n].from /\ deliveries[k] > 0}}

\* Whatever was lost, reordered or redelivered, and however the two sides' ratchet
\* steps interleave: a message can be decrypted until it was decrypted, and then
\* never again.  Before that only five limits refuse it: its chain or its key was
\* dropped (trimming in add_receiver_chain and set_message_keys), it is too far
\* ahead on its chain, or SPQR has trimmed its key or finds it too far ahead.  (In
\* the one epoch of SPQR modelled its limits are met no later than the chain's own.)
DecryptableUntilDelivered ==
    \A n \in DOMAIN messages :
        LET p == Peer(messages[n].from)
            pqr == messages[n].body.pqr
        IN  TryDecrypt(p, n).result = "Ok" <=>
              /\ deliveries[n] = 0
              /\ ~ ChainDropped(p, n) /\ ~ KeyDropped(n) /\ ~ TooFar(n)
              /\ ~ PqrTrimmed(PqrDelivered(n), pqr) /\ ~ PqrTooFar(PqrDelivered(n), pqr)

==============================================================================
