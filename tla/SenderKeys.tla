------------------------------ MODULE SenderKeys ------------------------------
(***************************************************************************)
(* Group messages (group_cipher.rs, sender_keys.rs): one sender of one     *)
(* distribution, and one of its receivers.  The sender may start a new     *)
(* chain at any time.  Distribution messages and group messages travel     *)
(* independently and may be lost, delayed, reordered and duplicated.       *)
(*                                                                         *)
(* A chain is named by its signing key, which is generated with it.  Chain *)
(* ids are random numbers, so two chains may have the same one.            *)
(***************************************************************************)
EXTENDS Integers, Sequences, Functions, FiniteSetsExt

CONSTANTS
    MAX_FORWARD_JUMPS,        \* consts.rs: 25_000
    MAX_MESSAGE_KEYS,         \* consts.rs: 2000
    MAX_SENDER_KEY_STATES,    \* consts.rs: 5
    MAX_ITERATION,            \* u32::MAX
    ChainIds,
    MaxChains,                \* bounds on the chains started,
    MaxMessages,              \* the messages sent
    MaxDeliveries             \* and how often one is decrypted

ASSUME SenderKeyAssumption ==
    /\ MAX_FORWARD_JUMPS \in Nat
    /\ MAX_MESSAGE_KEYS \in Nat
    /\ MAX_SENDER_KEY_STATES \in Nat \ {0}
    /\ MAX_ITERATION \in Nat
    /\ MaxChains \in Nat

VARIABLES
    chains,       \* the chains started; the last one is the sender's current one
    active,       \* whether the sender still has it
    sent,         \* group messages sent
    sender_record,\* the receiver's SenderKeyRecord, newest state first
    since,        \* since[k]: iteration at which the receiver's state of chain k began
    deliveries,   \* how often each message was decrypted
    dropped       \* chains whose state the receiver once gave up

senderVars == <<chains, active, sent, sender_record, since, deliveries, dropped>>

SenderInit ==
    /\ chains = << >> /\ active = FALSE
    /\ sent = << >> /\ deliveries = << >>
    /\ sender_record = << >>
    /\ since = [k \in 1 .. MaxChains |-> 0]
    /\ dropped = {}

-----------------------------------------------------------------------------
(* The sender                                                              *)

\* create_sender_key_distribution_message without a stored sender key.
CreateSenderKey(id) ==
    /\ ~ active
    /\ Len(chains) < MaxChains
    /\ chains' = Append(chains, [chain_id |-> id, iteration |-> 0])
    /\ active' = TRUE
    /\ UNCHANGED <<sent, sender_record, since, deliveries, dropped>>

\* The distribution messages there may be: with a stored sender key, creating
\* one changes nothing and puts its present iteration into the message.
DistributionMessages ==
    UNION {{[chain_id |-> chains[k].chain_id, signing_key |-> k, iteration |-> i] :
                i \in 0 .. chains[k].iteration} : k \in 1 .. Len(chains)}

\* The application deletes its sender key, so that the next one is new.
Rotate ==
    /\ active
    /\ active' = FALSE
    /\ UNCHANGED <<chains, sent, sender_record, since, deliveries, dropped>>

\* SenderChainKey::next, when it does not overflow.
NextIteration(iteration) == iteration + 1

\* The last iteration cannot be used: there is no next chain key to store.
GroupEncrypt ==
    LET k == Len(chains) IN
    /\ active
    /\ Len(sent) < MaxMessages
    /\ chains[k].iteration < MAX_ITERATION
    /\ chains' = [chains EXCEPT ![k].iteration = NextIteration(@)]
    /\ sent' = Append(sent, [chain_id |-> chains[k].chain_id, signing_key |-> k,
                             iteration |-> chains[k].iteration])
    /\ deliveries' = Append(deliveries, 0)
    /\ UNCHANGED <<active, sender_record, since, dropped>>

-----------------------------------------------------------------------------
(* The receiver                                                            *)

WithoutPosition(s, i) == [j \in 1 .. Len(s) - 1 |-> s[IF j < i THEN j ELSE j + 1]]

\* Position of the first state with a chain id, 0 if there is none.
StateForChainId(states, id) ==
    LET found == {i \in 1 .. Len(states) : states[i].chain_id = id}
    IN  IF found = {} THEN 0 ELSE Min(found)

NewState(skdm) ==
    [chain_id |-> skdm.chain_id, signing_key |-> skdm.signing_key,
     iteration |-> skdm.iteration, keys |-> << >>]

\* remove_state and remove_states_with_chain_id.  Removing one state removes all
\* of that id: add_sender_key_state, the only operation that adds a state, leaves
\* one state with a chain id at most.
OtherStates(states, id) ==
    LET i == StateForChainId(states, id)
    IN  IF i = 0 THEN states ELSE WithoutPosition(states, i)

\* SenderKeyRecord::add_sender_key_state: a known chain keeps its state, another
\* chain with its id goes, and the oldest states go if there are too many.
AddSenderKeyState(states, skdm) ==
    LET i      == StateForChainId(states, skdm.chain_id)
        state  == IF i # 0 /\ states[i].signing_key = skdm.signing_key
                  THEN states[i] ELSE NewState(skdm)
        others == OtherStates(states, skdm.chain_id)
    IN  << state >> \o (IF Len(others) < MAX_SENDER_KEY_STATES THEN others
                        ELSE SubSeq(others, 1, MAX_SENDER_KEY_STATES - 1))

HeldChains(states) == {s.signing_key : s \in Range(states)}

ProcessSenderKeyDistributionMessage(skdm) ==
    /\ sender_record' = AddSenderKeyState(sender_record, skdm)
    /\ since' = IF skdm.signing_key \in HeldChains(sender_record) THEN since
                ELSE [since EXCEPT ![skdm.signing_key] = skdm.iteration]
    /\ dropped' = dropped \cup (HeldChains(sender_record) \ HeldChains(sender_record'))
    /\ UNCHANGED <<chains, active, sent, deliveries>>

\* Faulty variant: the newest keys are dropped.
AddSenderMessageKeysNewest(keys, from, to) ==
    LET all == keys \o [i \in 1 .. (to - from) |-> from + i - 1]
    IN  IF Len(all) <= MAX_MESSAGE_KEYS THEN all ELSE SubSeq(all, 1, MAX_MESSAGE_KEYS)

\* add_sender_message_key for the iterations from .. to - 1, oldest first.
AddSenderMessageKeys(keys, from, to) ==
    LET all == keys \o [i \in 1 .. (to - from) |-> from + i - 1]
    IN  IF Len(all) <= MAX_MESSAGE_KEYS THEN all
        ELSE SubSeq(all, Len(all) - MAX_MESSAGE_KEYS + 1, Len(all))

\* Faulty variant: a cached key stays cached when it is used.
RemoveSenderMessageKeyNot(keys, iteration) == keys

\* remove_sender_message_key, for an iteration whose key is cached.
RemoveSenderMessageKey(keys, iteration) ==
    WithoutPosition(keys, Min({i \in 1 .. Len(keys) : keys[i] = iteration}))

\* get_sender_key: the error or success, and the state it leaves.
GetSenderKey(state, iteration) ==
    IF state.iteration > iteration
    THEN IF iteration \in Range(state.keys)
         THEN [result |-> "Ok",
               state  |-> [state EXCEPT !.keys = RemoveSenderMessageKey(@, iteration)]]
         ELSE [result |-> "DuplicatedMessage", state |-> state]
    ELSE IF iteration - state.iteration > MAX_FORWARD_JUMPS
    THEN [result |-> "InvalidMessage", state |-> state]
    ELSE [result |-> IF iteration < MAX_ITERATION THEN "Ok" ELSE "InvalidState",
          state  |-> [state EXCEPT !.keys = AddSenderMessageKeys(@, state.iteration, iteration),
                                   !.iteration = NextIteration(iteration)]]

\* What group_decrypt finds out before it stores the record.
Decryption(m) ==
    LET i == StateForChainId(sender_record, m.chain_id) IN
    IF i = 0 THEN "NoSenderKeyState"
    ELSE IF sender_record[i].signing_key # m.signing_key THEN "SignatureValidationFailed"
    ELSE GetSenderKey(sender_record[i], m.iteration).result

\* A group_decrypt that fails stores nothing.
GroupDecrypt(n) ==
    LET m == sent[n]
        i == StateForChainId(sender_record, m.chain_id)
    IN  /\ deliveries[n] < MaxDeliveries
        /\ Decryption(m) = "Ok"
        /\ sender_record' = [sender_record EXCEPT ![i] = GetSenderKey(@, m.iteration).state]
        /\ deliveries' = [deliveries EXCEPT ![n] = @ + 1]
        /\ UNCHANGED <<chains, active, sent, since, dropped>>

SenderNext ==
    \/ \E id \in ChainIds : CreateSenderKey(id)
    \/ Rotate
    \/ GroupEncrypt
    \/ \E skdm \in DistributionMessages : ProcessSenderKeyDistributionMessage(skdm)
    \/ \E n \in 1 .. Len(sent) : GroupDecrypt(n)

SenderSpec == SenderInit /\ [][SenderNext]_senderVars

-----------------------------------------------------------------------------

\* A message is decrypted at most once, unless its chain was given up (too many
\* newer chains, or another one with its id) and distributed again.
SenderMessageOnce ==
    \A n \in 1 .. Len(sent) : deliveries[n] <= 1 \/ sent[n].signing_key \in dropped

\* An undelivered message of a chain the receiver holds can be decrypted, if it
\* was sent after the distribution message and no limit rules it out.
SenderKeysRetained ==
    \A n \in 1 .. Len(sent), s \in Range(sender_record) :
        /\ deliveries[n] = 0
        /\ sent[n].signing_key = s.signing_key
        /\ sent[n].iteration >= since[s.signing_key]
        /\ sent[n].iteration - s.iteration <= MAX_FORWARD_JUMPS
        /\ (s.iteration - 1) - sent[n].iteration <= MAX_MESSAGE_KEYS
        => Decryption(sent[n]) = "Ok"

==============================================================================
