---------------------------- MODULE DoubleRatchet ----------------------------
(***************************************************************************)
(* The Double Ratchet of rust/protocol/src/double_ratchet.rs as operators  *)
(* on ratchet states.                                                      *)
(*                                                                         *)
(* Keys are symbolic.  A key pair is one value, used both as the public    *)
(* and as the private key.  A root key is the sequence of the secrets that *)
(* were mixed into it, so two root keys are equal exactly when both sides  *)
(* mixed in the same secrets in the same order; DH(a, b) is the set        *)
(* {a, b}.  A chain key is the root key it was derived with (its "seed")   *)
(* and its index; the message key for a counter is that seed and counter.  *)
(***************************************************************************)
EXTENDS Integers, Sequences, FiniteSetsExt

CONSTANTS
    MAX_FORWARD_JUMPS,     \* consts.rs: 25_000
    MAX_MESSAGE_KEYS,      \* consts.rs: 2000
    MAX_RECEIVER_CHAINS    \* consts.rs: 5

ASSUME LimitsAssumption ==
    /\ MAX_FORWARD_JUMPS \in Nat
    /\ MAX_MESSAGE_KEYS \in Nat
    /\ MAX_RECEIVER_CHAINS \in Nat \ {0}

(***************************************************************************)
(* The cache of skipped message keys of one receiver chain: the counters   *)
(* of the keys, newest first.                                              *)
(***************************************************************************)

\* The counters from .. to-1, in the order insert(0) leaves them.
SkippedCounters(from, to) == [k \in 1 .. (to - from) |-> to - k]

\* Insert every skipped key at the front, dropping the last one whenever
\* the cache exceeds its limit.
StoreSkippedKeys(keys, from, to) ==
    LET all == SkippedCounters(from, to) \o keys
    IN  SubSeq(all, 1, IF Len(all) > MAX_MESSAGE_KEYS
                       THEN MAX_MESSAGE_KEYS ELSE Len(all))

\* The cache after the first of its keys for a counter was taken out.
TakeSkippedKey(keys, counter) ==
    LET position == Min({i \in 1 .. Len(keys) : keys[i] = counter})
    IN  [j \in 1 .. Len(keys) - 1 |-> keys[IF j < position THEN j ELSE j + 1]]

(***************************************************************************)
(* consume_message_key on the receiver chain a message belongs to.         *)
(***************************************************************************)
\* Faulty variant: the next counter counts as past.
IsPastOrNext(chain, counter) == chain.index >= counter

IsPast(chain, counter) == chain.index > counter

HasSkippedKey(chain, counter) ==
    \E i \in 1 .. Len(chain.keys) : chain.keys[i] = counter

TooFarAhead(chain, counter, max_forward_jumps) ==
    counter - chain.index > max_forward_jumps

\* Faulty variant: the key handed out is cached too.
AdvanceChainCacheUsed(chain, counter) ==
    [chain EXCEPT !.keys  = StoreSkippedKeys(@, chain.index, counter + 1),
                  !.index = counter + 1]

\* The chain advanced past the counter, the keys in between cached.
AdvanceChain(chain, counter) ==
    [chain EXCEPT !.keys  = StoreSkippedKeys(@, chain.index, counter),
                  !.index = counter + 1]

ConsumeMessageKey(chain, counter, max_forward_jumps) ==
    IF IsPast(chain, counter)
    THEN IF HasSkippedKey(chain, counter)
         THEN [result |-> "Ok",
               chain  |-> [chain EXCEPT !.keys = TakeSkippedKey(@, counter)]]
         ELSE [result |-> "DuplicatedMessage", chain |-> chain]
    ELSE IF TooFarAhead(chain, counter, max_forward_jumps)
         THEN [result |-> "InvalidMessage", chain |-> chain]
         ELSE [result |-> "Ok", chain |-> AdvanceChain(chain, counter)]

(***************************************************************************)
(* The DH ratchet.  A ratchet state is a record                            *)
(*   root_key, previous_counter,                                           *)
(*   sender_chain    [ratchet_key, seed, index],                           *)
(*   receiver_chains sequence of [ratchet_key, seed, index, keys].         *)
(***************************************************************************)
DH(ours, theirs) == {ours, theirs}

\* RootKey::create_chain: mixing a secret into a root key names both the new
\* root key and the chain key derived along with it.
CreateChain(root_key, secret) == Append(root_key, secret)

\* Position of the receiver chain for a remote ratchet key, 0 if there is none.
FindReceiverChainIndex(chains, their_ephemeral) ==
    LET found == {i \in 1 .. Len(chains) : chains[i].ratchet_key = their_ephemeral}
    IN  IF found = {} THEN 0 ELSE Min(found)

TrimReceiverChainsAll(chains) ==
    IF Len(chains) > MAX_RECEIVER_CHAINS - 1 THEN << chains[Len(chains)] >> ELSE chains

\* The oldest chains are dropped until the limit is met.
TrimReceiverChains(chains) ==
    IF Len(chains) > MAX_RECEIVER_CHAINS
    THEN SubSeq(chains, Len(chains) - MAX_RECEIVER_CHAINS + 1, Len(chains))
    ELSE chains

DhRatchetStep(ratchet, their_ephemeral, new_sender_key) ==
    LET new_root   == CreateChain(ratchet.root_key,
                          DH(ratchet.sender_chain.ratchet_key, their_ephemeral))
        final_root == CreateChain(new_root, DH(new_sender_key, their_ephemeral))
        last       == ratchet.sender_chain.index
    IN  [root_key         |-> final_root,
         previous_counter |-> IF last = 0 THEN 0 ELSE last - 1,
         sender_chain     |-> [ratchet_key |-> new_sender_key,
                               seed |-> final_root, index |-> 0],
         receiver_chains  |-> TrimReceiverChains(
             Append(ratchet.receiver_chains,
                    [ratchet_key |-> their_ephemeral, seed |-> new_root,
                     index |-> 0, keys |-> << >>]))]

EnsureReceiverChain(ratchet, their_ephemeral, new_sender_key) ==
    IF FindReceiverChainIndex(ratchet.receiver_chains, their_ephemeral) # 0
    THEN ratchet
    ELSE DhRatchetStep(ratchet, their_ephemeral, new_sender_key)
==============================================================================
