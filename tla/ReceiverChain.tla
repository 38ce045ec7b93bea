---------------------------- MODULE ReceiverChain ----------------------------
(***************************************************************************)
(* One sending chain and the receiver chain that follows it.               *)
(*                                                                         *)
(* The sender numbers its messages 0, 1, 2, ... (ChainKey::index).  The    *)
(* network may lose, delay, reorder and duplicate them: the receiver may   *)
(* be handed any message sent so far, any number of times.  Receiving runs *)
(* consume_message_key; on success the plaintext goes to the application.  *)
(***************************************************************************)
EXTENDS DoubleRatchet

CONSTANT MaxSends          \* bound on the messages the sender sends

ASSUME MaxSendsAssumption == MaxSends \in Nat

VARIABLES
    sent,         \* index of the sender chain: messages 0 .. sent-1 exist
    chain,        \* the receiver chain: next index and cached keys
    plaintexts,   \* counters handed to the application, in order
    rejected      \* counters answered with DuplicatedMessage or InvalidMessage

vars == <<sent, chain, plaintexts, rejected>>

Init ==
    /\ sent = 0
    /\ chain = [index |-> 0, keys |-> << >>]
    /\ plaintexts = << >>
    /\ rejected = [DuplicatedMessage |-> {}, InvalidMessage |-> {}]

\* The sender encrypts with its chain key and moves on to the next one.
Send ==
    /\ sent < MaxSends
    /\ sent' = sent + 1
    /\ UNCHANGED <<chain, plaintexts, rejected>>

\* Faulty variant: a message that was too far ahead once is refused for good.
ReceiveRefusedForGood(counter) ==
    LET res == IF counter \in rejected.InvalidMessage
                 THEN [result |-> "InvalidMessage", chain |-> chain]
                 ELSE ConsumeMessageKey(chain, counter, MAX_FORWARD_JUMPS) IN
    /\ chain' = res.chain
    /\ plaintexts' = IF res.result = "Ok" THEN Append(plaintexts, counter) ELSE plaintexts
    /\ rejected' = IF res.result = "Ok" THEN rejected
                   ELSE [rejected EXCEPT ![res.result] = @ \cup {counter}]
    /\ UNCHANGED sent

Receive(counter) ==
    LET res == ConsumeMessageKey(chain, counter, MAX_FORWARD_JUMPS) IN
    /\ chain' = res.chain
    /\ plaintexts' = IF res.result = "Ok" THEN Append(plaintexts, counter)
                                          ELSE plaintexts
    /\ rejected' = IF res.result = "Ok" THEN rejected
                   ELSE [rejected EXCEPT ![res.result] = @ \cup {counter}]
    /\ UNCHANGED sent

Next ==
    \/ Send
    \/ \E counter \in 0 .. (sent - 1) : Receive(counter)

Spec == Init /\ [][Next]_vars

-----------------------------------------------------------------------------
Delivered == Range(plaintexts)

CachedCounters == Range(chain.keys)

\* The counters whose message key the receiver can no longer produce
\* although it never used it.
LostCounters == (0 .. (chain.index - 1)) \ (Delivered \cup CachedCounters)

TypeOK ==
    /\ sent \in Nat
    /\ chain \in [index : Nat, keys : Seq(Nat)]
    /\ plaintexts \in Seq(Nat)
    /\ rejected \in [DuplicatedMessage : SUBSET Nat, InvalidMessage : SUBSET Nat]

\* No message is decrypted twice, whatever is redelivered and in which order:
\* consume_message_key removes the cached key it returns and moves the chain
\* past a key it derives.
AtMostOnce == \A i, j \in 1 .. Len(plaintexts) :
                  plaintexts[i] = plaintexts[j] => i = j

\* The cache never exceeds MAX_MESSAGE_KEYS, however far the chain jumps.
CacheBounded == Len(chain.keys) <= MAX_MESSAGE_KEYS

\* The message keys a stolen receiver state yields (those cached and those
\* from the chain index on) never include the key of a delivered message.
ForwardSecrecy ==
    \A c \in Delivered : c < chain.index /\ c \notin CachedCounters

\* Trimming the cache only gives up messages far behind: a message at most
\* MAX_MESSAGE_KEYS behind the last one the chain advanced to can always
\* still be decrypted.
WindowRetained ==
    \A c \in LostCounters : (chain.index - 1) - c > MAX_MESSAGE_KEYS

\* A message that was never decrypted is reported as a duplicate only after
\* MAX_MESSAGE_KEYS later keys have pushed its key out of the cache.
DuplicateMeansDelivered ==
    \A c \in rejected.DuplicatedMessage :
        c \in Delivered \/ (chain.index - 1) - c > MAX_MESSAGE_KEYS

\* A network that keeps retrying gets every message through that was not pushed
\* out of the cache, although MAX_FORWARD_JUMPS makes consume_message_key refuse
\* some of them at first.
EventuallyDelivered ==
    \A c \in 0 .. (MaxSends - 1) : c < sent ~> c \in Delivered \cup LostCounters

\* The chain implements the channel that delivers each message at most once.
Channel == INSTANCE OnceChannel WITH in <- 0 .. (sent - 1), out <- plaintexts

ImplementsOnceChannel == Channel!Spec
==============================================================================
