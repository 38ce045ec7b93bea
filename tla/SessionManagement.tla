-------------------------- MODULE SessionManagement ---------------------------
(***************************************************************************)
(* Two parties that talk through session_management.rs and session.rs:     *)
(* either may start sessions from the other's pre-key bundle at any time,  *)
(* both encrypt and decrypt, archive sessions, and reinstall.  The network *)
(* loses, delays, reorders and duplicates messages.                        *)
(*                                                                         *)
(* A call loads what it needs, computes, and then performs its writes to   *)
(* the stores in a fixed order.  Calls for one address do not overlap (the *)
(* stores are borrowed mutably), but any write may fail or the process may *)
(* die: then the writes before it stay, and the call returns no result.    *)
(*                                                                         *)
(* The ratchet of a session is reduced to the number of messages sent and  *)
(* the counters received, which is what RatchetSession and ReceiverChain   *)
(* show it to amount to within its limits.  Both sides of a session derive *)
(* the same secret, named here by the base key of its initiator.           *)
(***************************************************************************)
EXTENDS SessionRecord, FiniteSets

CONSTANTS
    Alice, Bob,
    NoKey,                            \* no one-time pre-key; no known identity
    NoPreKey,                         \* a message that is not a pre-key message
    PreKeyIds,                        \* one-time pre-keys each party uploads
    MAX_UNACKNOWLEDGED_SESSION_AGE,   \* consts.rs: 30 days
    Bounds                            \* how many sessions are started, messages sent, writes
                                      \* fail, reinstallations and archive calls there are,
                                      \* and how much time passes: some of these combinations

\* The items of an unacknowledged session, and of a message sent in it.
PreKeyItems == [pre_key_id : PreKeyIds \cup {NoKey}, timestamp : Nat]
PreKeyParts == [id : PreKeyIds \cup {NoKey}]

Session ==
    [base : Nat, remote : Nat, pending : PreKeyItems \cup {NotPending},
     sent : Nat, received : SUBSET Nat]

ASSUME SessionAssumption ==
    /\ Alice # Bob
    /\ NoKey \notin PreKeyIds \cup Nat
    /\ NotPending \notin PreKeyItems /\ NoPreKey \notin PreKeyParts
    /\ NoSession \notin Session

Party == {Alice, Bob}

Peer(p) == IF p = Alice THEN Bob ELSE Alice

VARIABLES
    store,        \* the protocol store of each party
    identity,     \* the identity key of each party, a number of its own
    bundles,      \* one-time pre-keys of each party the server still has
    sent,         \* messages handed to the network
    delivered,    \* delivered[p]: messages whose plaintext p's application got
    established,  \* base keys of the sessions each party ever stored
    now,
    started,      \* number of sessions started, and the newest base key
    failures,     \* number of failed writes
    archives,     \* number of archive_current_state calls
    bound         \* the member of Bounds that limits this behaviour

vars == <<store, identity, bundles, sent, delivered, established,
          now, started, failures, archives, bound>>

\* Both parties' identities start with 1; a reinstallation makes the next one.
EmptyStore(keys) ==
    [record         |-> NewFresh,
     identity       |-> NoKey,      \* known_keys for the peer's address
     pre_keys       |-> keys,
     base_keys_seen |-> {}]

Init ==
    /\ store = [p \in Party |-> EmptyStore(PreKeyIds)]
    /\ identity = [p \in Party |-> 1]
    /\ bundles = [p \in Party |-> PreKeyIds]
    /\ sent = {}
    /\ delivered = [p \in Party |-> << >>]
    /\ established = [p \in Party |-> {}]
    /\ now = 0 /\ started = 0 /\ failures = 0 /\ archives = 0
    /\ bound \in Bounds

-----------------------------------------------------------------------------
(* The stores (storage/inmem.rs)                                           *)

IsTrustedIdentity(s, key) == s.identity \in {NoKey, key}

SaveIdentity(s, key) == [s EXCEPT !.identity = key]

\* Faulty variant: a base key may be used again.
KyberPreKeyUsableAlways(s, base) == TRUE

\* mark_kyber_pre_key_used succeeds only for a base key not seen before.
KyberPreKeyUsable(s, base) == base \notin s.base_keys_seen

MarkKyberPreKeyUsed(s, base) == [s EXCEPT !.base_keys_seen = @ \cup {base}]

RemovePreKey(s, id) == [s EXCEPT !.pre_keys = @ \ {id}]

StoreSession(s, record) == [s EXCEPT !.record = record]

-----------------------------------------------------------------------------
Sessions(record) ==
    Range(record.previous) \cup
        (IF record.current = NoSession THEN {} ELSE {record.current})

Bases(record) == {s.base : s \in Sessions(record)}

\* A call of p whose i-th write leaves the store writes[i] performs n writes.
Call(p, writes, n) ==
    /\ n \in 0 .. Len(writes)
    /\ store' = [store EXCEPT ![p] = IF n = 0 THEN @ ELSE writes[n]]
    /\ established' = [established EXCEPT ![p] = @ \cup Bases(store'[p].record)]
    /\ IF n = Len(writes) THEN UNCHANGED failures
       ELSE failures < bound.failures /\ failures' = failures + 1

\* Faulty variant: the result is handed out before the last write.
ReturnsEarly(writes, n) == n >= Len(writes) - 1

\* The call returns its result, not an error.
Returns(writes, n) == n = Len(writes)

\* The two writes that end process_prekey_bundle, message_encrypt and
\* message_decrypt_signal.
SaveIdentityThenSession(s, key, record) ==
    LET s1 == SaveIdentity(s, key) IN << s1, StoreSession(s1, record) >>

NewSession(base, remote, pending) ==
    [base |-> base, remote |-> remote, pending |-> pending, sent |-> 0, received |-> {}]

\* The one-time pre-keys the server may put into a bundle: none once it ran out.
BundleKeys(q) == IF bundles[q] = {} THEN {NoKey} ELSE bundles[q]

ProcessPreKeyBundle(p, id, n) ==
    LET q       == Peer(p)
        base    == started + 1
        session == NewSession(base, identity[q], [pre_key_id |-> id, timestamp |-> now])
        writes  == SaveIdentityThenSession(store[p], identity[q],
                       PromoteState(store[p].record, session))
    IN  /\ started < bound.sessions
        /\ IsTrustedIdentity(store[p], identity[q])
        /\ Call(p, writes, n)
        /\ started' = base
        /\ bundles' = [bundles EXCEPT ![q] = @ \ {id}]
        /\ UNCHANGED <<identity, sent, delivered, now, archives>>

Stale(state) ==
    state.pending # NotPending /\ state.pending.timestamp + MAX_UNACKNOWLEDGED_SESSION_AGE < now

\* The pre-key part of a message, if its session is unacknowledged.
Wrap(state) ==
    IF state.pending = NotPending THEN NoPreKey ELSE [id |-> state.pending.pre_key_id]

Ciphertext(p, state) ==
    [from |-> p, identity |-> identity[p], to |-> state.remote,
     text |-> Cardinality(sent) + 1, base |-> state.base,
     counter |-> state.sent, pre_key |-> Wrap(state)]

\* The state after the next chain key replaced the one the message used.
Advanced(state) == [state EXCEPT !.sent = @ + 1]

MessageEncrypt(p, n) ==
    LET record == store[p].record
        state  == record.current
        writes == SaveIdentityThenSession(store[p], state.remote,
                                          [record EXCEPT !.current = Advanced(state)])
    IN  /\ Cardinality(sent) < bound.messages
        /\ state # NoSession
        /\ ~ Stale(state)
        /\ IsTrustedIdentity(store[p], state.remote)
        /\ Call(p, writes, n)
        /\ sent' = IF Returns(writes, n) THEN sent \cup {Ciphertext(p, state)} ELSE sent
        /\ UNCHANGED <<identity, bundles, delivered, now, started, archives>>

-----------------------------------------------------------------------------
\* try_decrypt_with_state, reduced to counters: its error or success,
TryDecryptWithState(state, m) ==
    IF state.base # m.base THEN "InvalidMessage"
    ELSE IF m.counter \in state.received THEN "DuplicatedMessage" ELSE "Ok"

\* and the state it leaves behind when it succeeds.
Decrypted(state, m) ==
    ClearUnacknowledgedPreKeyMessage([state EXCEPT !.received = @ \cup {m.counter}])

\* Faulty variant: previous sessions are not tried.
TryDecryptCurrentOnly(record, m) ==
    IF record.current = NoSession THEN [result |-> "InvalidMessage", record |-> record]
    ELSE [result |-> TryDecryptWithState(record.current, m),
          record |-> [record EXCEPT !.current = Decrypted(@, m)]]

\* The record of a result other than Ok is not used.
TryDecryptFromRecord(record, m) ==
    LET current == IF record.current = NoSession THEN "InvalidMessage"
                   ELSE TryDecryptWithState(record.current, m)
        i == FirstIndex(record.previous,
                 LAMBDA s : TryDecryptWithState(s, m) # "InvalidMessage")
    IN  IF current # "InvalidMessage"
        THEN [result |-> current, record |-> [record EXCEPT !.current = Decrypted(@, m)]]
        ELSE IF m.pre_key # NoPreKey \/ i = 0
        THEN [result |-> "InvalidMessage", record |-> record]
        ELSE [result |-> TryDecryptWithState(record.previous[i], m),
              record |-> PromoteOldSession(record, i, Decrypted(record.previous[i], m))]

\* What message_decrypt_signal finds out before it writes.
DecryptSignal(p, m) ==
    LET d == TryDecryptFromRecord(store[p].record, m) IN
    IF d.result = "Ok" /\ ~ IsTrustedIdentity(store[p], d.record.current.remote)
    THEN [d EXCEPT !.result = "UntrustedIdentity"] ELSE d

\* process_prekey: the error or success, and the record it prepares.
ProcessPreKey(p, m) ==
    LET record   == store[p].record
        promoted == PromoteMatchingSession(record, m.base)
    IN  IF ~ IsTrustedIdentity(store[p], m.identity)
        THEN [result |-> "UntrustedIdentity", record |-> record]
        ELSE IF HasSession(record, m.base)
        THEN [result |-> IF promoted.current.remote = m.identity THEN "Ok" ELSE "InvalidMessage",
              record |-> promoted]
        ELSE [result |-> IF m.pre_key.id \in store[p].pre_keys \cup {NoKey}
                         THEN "Ok" ELSE "InvalidPreKeyId",
              record |-> PromoteState(record, NewSession(m.base, m.identity, NotPending))]

\* What message_decrypt_prekey finds out before it writes.  A session made from
\* the pre-keys of an earlier installation of p has another secret than m's.
DecryptPreKey(p, m) ==
    LET prepared == ProcessPreKey(p, m) IN
    IF prepared.result # "Ok" THEN prepared
    ELSE IF m.to # identity[p] THEN [prepared EXCEPT !.result = "InvalidMessage"]
    ELSE TryDecryptFromRecord(prepared.record, m)

-----------------------------------------------------------------------------
\* Faulty variant: the session is stored before the one-time pre-key is removed.
PreKeyWritesSessionFirst(s, m, record) ==
    LET s1 == SaveIdentity(s, m.identity)
        s2 == MarkKyberPreKeyUsed(s1, m.base)
        s3 == StoreSession(s2, record)
    IN  IF HasSession(s.record, m.base) THEN << s1, StoreSession(s1, record) >>
        ELSE << s1, s2, s3, RemovePreKey(s3, m.pre_key.id) >>

\* The writes of message_decrypt_prekey.  Removing NoKey removes nothing.
PreKeyWrites(s, m, record) ==
    LET s1 == SaveIdentity(s, m.identity)
        s2 == MarkKyberPreKeyUsed(s1, m.base)
        s3 == RemovePreKey(s2, m.pre_key.id)
    IN  IF HasSession(s.record, m.base) THEN << s1, StoreSession(s1, record) >>
        ELSE << s1, s2, s3, StoreSession(s3, record) >>

\* mark_kyber_pre_key_used refuses the base key of a new session.
BaseKeyReused(s, m) == ~ HasSession(s.record, m.base) /\ ~ KyberPreKeyUsable(s, m.base)

Deliver(p, m, writes, n) ==
    delivered' = IF Returns(writes, n) THEN [delivered EXCEPT ![p] = Append(@, m)]
                 ELSE delivered

\* Calls that return an error before their first write change nothing.
MessageDecryptSignal(p, m, n) ==
    LET d      == DecryptSignal(p, m)
        writes == SaveIdentityThenSession(store[p], d.record.current.remote, d.record)
    IN  /\ m.pre_key = NoPreKey
        /\ d.result = "Ok"
        /\ Call(p, writes, n)
        /\ Deliver(p, m, writes, n)
        /\ UNCHANGED <<identity, bundles, sent, now, started, archives>>

\* A reused base key is found out after the first write, which has no effect:
\* the identity was saved when the base key was first used.
MessageDecryptPreKey(p, m, n) ==
    LET d      == DecryptPreKey(p, m)
        writes == PreKeyWrites(store[p], m, d.record)
    IN  /\ m.pre_key # NoPreKey
        /\ d.result = "Ok"
        /\ ~ BaseKeyReused(store[p], m)
        /\ Call(p, writes, n)
        /\ Deliver(p, m, writes, n)
        /\ UNCHANGED <<identity, bundles, sent, now, started, archives>>

\* The application archives the current session and stores the record.
Archive(p) ==
    /\ archives < bound.archives
    /\ archives' = archives + 1
    /\ store[p].record.current # NoSession
    /\ Call(p, << StoreSession(store[p], ArchiveCurrentState(store[p].record)) >>, 1)
    /\ UNCHANGED <<identity, bundles, sent, delivered, now, started>>

\* The user of p accepts the changed identity of the peer.
AcceptIdentity(p) ==
    /\ store[p].identity \notin {NoKey, identity[Peer(p)]}
    /\ store' = [store EXCEPT ![p] = SaveIdentity(@, identity[Peer(p)])]
    /\ UNCHANGED <<identity, bundles, sent, delivered, established,
                   now, started, failures, archives>>

\* p loses its store and registers again with new keys.
Reinstall(p) ==
    /\ identity[Alice] + identity[Bob] < 2 + bound.reinstalls
    /\ identity' = [identity EXCEPT ![p] = @ + 1]
    /\ store' = [store EXCEPT ![p] = EmptyStore(PreKeyIds)]
    /\ bundles' = [bundles EXCEPT ![p] = PreKeyIds]
    /\ UNCHANGED <<sent, delivered, established, now, started, failures, archives>>

Tick ==
    /\ now < bound.time
    /\ now' = now + 1
    /\ UNCHANGED <<store, identity, bundles, sent, delivered, established,
                   started, failures, archives>>

Incoming(p) == {m \in sent : m.from = Peer(p)}

Step ==
    \/ \E p \in Party, n \in 0 .. 2 : \E id \in BundleKeys(Peer(p)) : ProcessPreKeyBundle(p, id, n)
    \/ \E p \in Party, n \in 0 .. 2 : MessageEncrypt(p, n)
    \/ \E p \in Party, n \in 0 .. 2 : \E m \in Incoming(p) : MessageDecryptSignal(p, m, n)
    \/ \E p \in Party, n \in 0 .. 4 : \E m \in Incoming(p) : MessageDecryptPreKey(p, m, n)
    \/ \E p \in Party : Archive(p)
    \/ \E p \in Party : AcceptIdentity(p)
    \/ \E p \in Party : Reinstall(p)
    \/ Tick

Next == Step /\ UNCHANGED bound

Spec == Init /\ [][Next]_vars

-----------------------------------------------------------------------------
\* No message is delivered twice: neither by redelivery, nor when its session
\* was dropped from the archive and its pre-key message arrives again, nor
\* when a store write fails.
AtMostOnce == \A p \in Party : IsInjective(delivered[p])

\* A counter of a session is never used for two messages, also when the write
\* that would have recorded its use failed.
NoKeyReuse ==
    \A m, k \in sent : m.from = k.from /\ m.base = k.base /\ m.counter = k.counter => m = k

\* Whoever holds the session of a pre-key message no longer holds the one-time
\* pre-key it was made with, even if a write failed half-way.
OneTimeKeyErased ==
    \A p \in Party : \A m \in Incoming(p) :
        /\ m.pre_key # NoPreKey
        /\ m.to = identity[p]
        /\ m.base \in Bases(store[p].record)
        => m.pre_key.id \notin store[p].pre_keys

-----------------------------------------------------------------------------
Decryption(p, m) ==
    IF m.pre_key = NoPreKey THEN DecryptSignal(p, m).result
    ELSE IF BaseKeyReused(store[p], m) THEN "InvalidMessage" ELSE DecryptPreKey(p, m).result

\* The session was pushed out of the archive.
Evicted(p, m) == m.base \in established[p] \ Bases(store[p].record)

\* A write failed after the pre-keys were used up and before the session was stored.
Interrupted(p, m) ==
    failures > 0 /\ m.base \in store[p].base_keys_seen \ established[p]

Reinstalled(p, m) == m.to # identity[p]

Distrusted(p, m) == ~ IsTrustedIdentity(store[p], m.identity)

\* With both sides starting, switching and archiving sessions in any order, a
\* message that was not delivered can be decrypted, unless its receiver gave
\* up the session, was interrupted, reinstalled, or distrusts the sender.
Retrievable ==
    \A p \in Party : \A m \in Incoming(p) :
        m \notin Range(delivered[p]) =>
            \/ Decryption(p, m) = "Ok"
            \/ Evicted(p, m) \/ Interrupted(p, m) \/ Reinstalled(p, m) \/ Distrusted(p, m)

==============================================================================
