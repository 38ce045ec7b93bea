--------------------------- MODULE SenderKeysProofs ---------------------------
(***************************************************************************)
(* Proofs about SenderKeys, for every number of chains, messages and chain *)
(* ids and every value of the limits.                                      *)
(***************************************************************************)
EXTENDS SenderKeys, TLAPS

USE SMTT(30)

Chain == [chain_id : ChainIds, iteration : Nat]

Message == [chain_id : ChainIds, signing_key : Nat, iteration : Nat]

SenderState == [chain_id : ChainIds, signing_key : Nat, iteration : Nat, keys : Seq(Nat)]

SenderTypeOK ==
    /\ chains \in Seq(Chain) /\ Len(chains) <= MaxChains
    /\ active => Len(chains) # 0
    /\ sent \in Seq(Message)
    /\ deliveries \in Seq(Nat) /\ Len(deliveries) = Len(sent)
    /\ sender_record \in Seq(SenderState)
    /\ since \in [1 .. MaxChains -> Nat]

\* What is sent and what is held belongs to a chain of the sender, and a chain
\* uses no iteration twice.
OfChains ==
    /\ \A n \in 1 .. Len(sent) :
           /\ sent[n].signing_key \in 1 .. Len(chains)
           /\ sent[n].chain_id = chains[sent[n].signing_key].chain_id
           /\ sent[n].iteration < chains[sent[n].signing_key].iteration
           /\ sent[n].iteration < MAX_ITERATION
    /\ \A m, n \in 1 .. Len(sent) :
           sent[m].signing_key = sent[n].signing_key /\ sent[m].iteration = sent[n].iteration
           => m = n
    /\ \A i \in 1 .. Len(sender_record) :
           /\ sender_record[i].signing_key \in 1 .. Len(chains)
           /\ sender_record[i].chain_id = chains[sender_record[i].signing_key].chain_id
           /\ sender_record[i].iteration <= chains[sender_record[i].signing_key].iteration

OneStatePerId(states) ==
    \A i, j \in 1 .. Len(states) : states[i].chain_id = states[j].chain_id => i = j

\* Cached keys are sorted, and lie under a staircase that ends at the chain's
\* iteration: a key with d newer ones in the cache is more than d behind it.
KeysInOrder(keys, iteration) ==
    /\ \A i, j \in 1 .. Len(keys) : i < j => keys[i] < keys[j]
    /\ \A i \in 1 .. Len(keys) : keys[i] + (Len(keys) - i) < iteration

CachesInOrder ==
    \A i \in 1 .. Len(sender_record) :
        KeysInOrder(sender_record[i].keys, sender_record[i].iteration)

\* A message delivered by a chain that was never given up cannot be decrypted
\* again: it is behind the chain and its key is not cached.
DeliveredIsBehind ==
    \A n \in 1 .. Len(sent), i \in 1 .. Len(sender_record) :
        LET s == sender_record[i] IN
        /\ sent[n].signing_key = s.signing_key
        /\ deliveries[n] # 0
        /\ s.signing_key \notin dropped
        => sent[n].iteration < s.iteration /\ sent[n].iteration \notin Range(s.keys)

\* A message that was passed over is cached, unless it is too far behind.
PassedOverIsCached ==
    \A n \in 1 .. Len(sent), i \in 1 .. Len(sender_record) :
        LET s == sender_record[i] IN
        /\ sent[n].signing_key = s.signing_key
        /\ deliveries[n] = 0
        /\ since[s.signing_key] <= sent[n].iteration /\ sent[n].iteration < s.iteration
        /\ (s.iteration - 1) - sent[n].iteration <= MAX_MESSAGE_KEYS
        => sent[n].iteration \in Range(s.keys)

\* Nothing was delivered of a chain that never was in the record.
NotYetHeld ==
    \A n \in 1 .. Len(sent) :
        deliveries[n] # 0 => sent[n].signing_key \in dropped \cup HeldChains(sender_record)

SenderIInv ==
    /\ SenderTypeOK
    /\ OfChains
    /\ OneStatePerId(sender_record)
    /\ CachesInOrder
    /\ DeliveredIsBehind
    /\ PassedOverIsCached
    /\ NotYetHeld
    /\ SenderMessageOnce

-----------------------------------------------------------------------------
\* What Append does to a sequence.
LEMMA AppendIs ==
    ASSUME NEW S, NEW s \in Seq(S), NEW e \in S
    PROVE  /\ Append(s, e) \in Seq(S)
           /\ Len(Append(s, e)) = Len(s) + 1
           /\ Append(s, e)[Len(s) + 1] = e
           /\ \A i \in 1 .. Len(s) : Append(s, e)[i] = s[i]
           /\ \A i \in 1 .. Len(Append(s, e)) : i \in 1 .. Len(s) \/ i = Len(s) + 1
OBVIOUS

\* What concatenation and SubSeq do to sequences.
LEMMA ConcatIs ==
    ASSUME NEW s \in Seq(Nat), NEW t \in Seq(Nat)
    PROVE  /\ s \o t \in Seq(Nat)
           /\ Len(s \o t) = Len(s) + Len(t)
           /\ \A i \in 1 .. Len(s) : (s \o t)[i] = s[i]
           /\ \A i \in 1 .. Len(t) : (s \o t)[Len(s) + i] = t[i]
OBVIOUS

LEMMA SubSeqIs ==
    ASSUME NEW S, NEW s \in Seq(S), NEW a \in Nat, NEW b \in Nat, a <= b, b <= Len(s)
    PROVE  /\ SubSeq(s, a + 1, b) \in Seq(S)
           /\ Len(SubSeq(s, a + 1, b)) = b - a
           /\ \A i \in 1 .. b - a : SubSeq(s, a + 1, b)[i] = s[i + a]
OBVIOUS

\* The elements of the sequences have their types.
LEMMA ElementIs ==
    ASSUME NEW S, NEW s \in Seq(S), NEW i \in 1 .. Len(s)
    PROVE  s[i] \in S
OBVIOUS

LEMMA ElementTypes ==
    ASSUME SenderTypeOK
    PROVE  /\ Len(chains) \in Nat /\ Len(sent) \in Nat /\ Len(sender_record) \in Nat
           /\ \A k \in 1 .. Len(chains) : chains[k] \in Chain /\ chains[k].iteration \in Nat
           /\ \A n \in 1 .. Len(sent) : sent[n] \in Message /\ sent[n].iteration \in Nat
           /\ \A i \in 1 .. Len(sender_record) :
                 /\ sender_record[i] \in SenderState
                 /\ sender_record[i].iteration \in Nat /\ sender_record[i].keys \in Seq(Nat)
<1>1. /\ chains \in Seq(Chain) /\ sent \in Seq(Message) /\ sender_record \in Seq(SenderState)
  BY DEF SenderTypeOK
<1>2. /\ \A k \in 1 .. Len(chains) : chains[k] \in Chain
      /\ \A n \in 1 .. Len(sent) : sent[n] \in Message
      /\ \A i \in 1 .. Len(sender_record) : sender_record[i] \in SenderState
  BY <1>1, ElementIs
<1>3. /\ \A c \in Chain : c.iteration \in Nat
      /\ \A m \in Message : m.iteration \in Nat
      /\ \A t \in SenderState : t.iteration \in Nat /\ t.keys \in Seq(Nat)
  BY DEF Chain, Message, SenderState
<1> QED  BY <1>1, <1>2, <1>3

\* What WithoutPosition does to a sequence.
LEMMA WithoutPositionIs ==
    ASSUME NEW S, NEW s \in Seq(S), NEW p \in 1 .. Len(s)
    PROVE  LET t == WithoutPosition(s, p) IN
           /\ t \in Seq(S)
           /\ Len(t) = Len(s) - 1
           /\ \A i \in 1 .. Len(t) : t[i] = s[IF i < p THEN i ELSE i + 1]
<1> DEFINE n == Len(s) - 1
           At(i) == IF i < p THEN i ELSE i + 1
<1>1. n \in Nat /\ \A i \in 1 .. n : At(i) \in 1 .. Len(s)
  OBVIOUS
<1>2. \A i \in 1 .. n : s[At(i)] \in S
  BY <1>1
<1>3. WithoutPosition(s, p) = [i \in 1 .. n |-> s[At(i)]]
  BY DEF WithoutPosition
<1> HIDE DEF n, At
<1>4. WithoutPosition(s, p) \in Seq(S) /\ Len(WithoutPosition(s, p)) = n
  BY <1>1, <1>2, <1>3
<1>5. \A i \in 1 .. n : WithoutPosition(s, p)[i] = s[At(i)]
  BY <1>3
<1> QED  BY <1>4, <1>5 DEF n, At

\* The only element is the least.
LEMMA MinOfOne ==
    ASSUME NEW p \in Nat
    PROVE  Min({p}) = p
BY DEF Min

\* A key that moves up by at most one place in a shorter cache.
LEMMA LaterByOne ==
    ASSUME NEW key \in Nat, NEW len \in Nat, NEW was \in Nat, NEW is \in Nat, NEW x \in Nat,
           was <= is + 1, key + (len - was) < x
    PROVE  key + ((len - 1) - is) < x
OBVIOUS

\* A chain that has not moved on is not further ahead of a message.
LEMMA NotFurtherBehind ==
    ASSUME NEW x \in Nat, NEW y \in Nat, x <= y, NEW v \in Nat, NEW max \in Nat,
           (y - 1) - v <= max
    PROVE  (x - 1) - v <= max
OBVIOUS

\* A cached key is taken out of the cache (remove_sender_message_key).
LEMMA KeyRemoved ==
    ASSUME NEW keys \in Seq(Nat), NEW x \in Nat, KeysInOrder(keys, x), NEW it \in Range(keys)
    PROVE  LET t == RemoveSenderMessageKey(keys, it) IN
           /\ t \in Seq(Nat)
           /\ KeysInOrder(t, x)
           /\ \A v : v \in Range(t) <=> v \in Range(keys) /\ v # it
<1>1. DOMAIN keys = 1 .. Len(keys) /\ Len(keys) \in Nat
  OBVIOUS
<1>2. \A i \in 1 .. Len(keys) : keys[i] \in Nat
  OBVIOUS
<1>3. PICK p \in 1 .. Len(keys) : keys[p] = it
  BY <1>1 DEF Range
<1>4. \A i \in 1 .. Len(keys) : keys[i] = it => i = p
  <2> TAKE i \in 1 .. Len(keys)
  <2> HAVE keys[i] = it
  <2>1. (i < p => keys[i] < keys[p]) /\ (p < i => keys[p] < keys[i])
    BY <1>3, Zenon DEF KeysInOrder
  <2>2. it \in Nat /\ i \in Nat /\ p \in Nat
    BY <1>1, <1>2, <1>3
  <2> QED  BY <1>3, <2>1, <2>2
<1> DEFINE t == WithoutPosition(keys, p)
<1>6. RemoveSenderMessageKey(keys, it) = t
  <2>1. {i \in 1 .. Len(keys) : keys[i] = it} = {p}
    BY <1>3, <1>4
  <2> QED  BY <1>3, <2>1, MinOfOne DEF RemoveSenderMessageKey
<1>5. /\ t \in Seq(Nat) /\ Len(t) = Len(keys) - 1
      /\ \A i \in 1 .. Len(t) : t[i] = keys[IF i < p THEN i ELSE i + 1]
  BY <1>3, WithoutPositionIs
<1> HIDE DEF t
<1> DEFINE At(i) == IF i < p THEN i ELSE i + 1
<1>7. \A i \in 1 .. Len(t) :
         /\ At(i) \in 1 .. Len(keys) /\ At(i) # p /\ At(i) <= i + 1 /\ t[i] = keys[At(i)]
  BY <1>1, <1>3, <1>5
<1>8. \A i, j \in 1 .. Len(t) : i < j => At(i) < At(j)
  <2> TAKE i, j \in 1 .. Len(t)
  <2>1. i \in Nat /\ j \in Nat /\ p \in Nat
    BY <1>1, <1>3, <1>5
  <2> QED  BY <2>1
<1>9. \A j \in 1 .. Len(keys) : j # p => \E i \in 1 .. Len(t) : At(i) = j
  <2> TAKE j \in 1 .. Len(keys)
  <2> HAVE j # p
  <2>1. CASE j < p
    <3>1. j \in 1 .. Len(t) /\ At(j) = j
      BY <1>1, <1>3, <1>5, <2>1
    <3> QED  BY <3>1
  <2>2. CASE j > p
    <3>1. j - 1 \in 1 .. Len(t) /\ At(j - 1) = j
      BY <1>1, <1>3, <1>5, <2>2
    <3> QED  BY <3>1
  <2> QED  BY <1>1, <1>3, <2>1, <2>2
<1> HIDE DEF At
<1>10. KeysInOrder(t, x)
  <2>1. \A i, j \in 1 .. Len(t) : i < j => t[i] < t[j]
    <3> TAKE i, j \in 1 .. Len(t)
    <3> HAVE i < j
    <3>1. At(i) \in 1 .. Len(keys) /\ At(j) \in 1 .. Len(keys) /\ At(i) < At(j)
      BY <1>7, <1>8
    <3>2. keys[At(i)] < keys[At(j)]
      BY <3>1, Zenon DEF KeysInOrder
    <3> QED  BY <1>7, <3>2
  <2>2. ASSUME NEW i \in 1 .. Len(t)
        PROVE  t[i] + (Len(t) - i) < x
    <3>1. keys[At(i)] + (Len(keys) - At(i)) < x /\ keys[At(i)] \in Nat
      BY <1>2, <1>7 DEF KeysInOrder
    <3>2. /\ At(i) \in 1 .. Len(keys) /\ At(i) <= i + 1 /\ t[i] = keys[At(i)]
          /\ Len(t) = Len(keys) - 1
      BY <1>5, <1>7, Zenon
    <3>3. At(i) \in Nat /\ i \in Nat
      BY <1>1, <3>2
    <3> QED  BY <1>1, <3>1, <3>2, <3>3, LaterByOne, Zenon
  <2> QED  BY <2>1, <2>2 DEF KeysInOrder
<1>11. DOMAIN t = 1 .. Len(t)
  BY <1>5
<1>12. \A v \in Range(t) : v \in Range(keys) /\ v # it
  <2> TAKE v \in Range(t)
  <2>1. PICK i \in 1 .. Len(t) : v = t[i]
    BY <1>11 DEF Range
  <2>2. v = keys[At(i)] /\ At(i) \in 1 .. Len(keys) /\ At(i) # p
    BY <1>7, <2>1
  <2> QED  BY <1>1, <1>4, <2>2 DEF Range
<1>13. \A v \in Range(keys) : v # it => v \in Range(t)
  <2> TAKE v \in Range(keys)
  <2> HAVE v # it
  <2>1. PICK j \in 1 .. Len(keys) : keys[j] = v
    BY <1>1 DEF Range
  <2>2. PICK i \in 1 .. Len(t) : At(i) = j
    BY <1>3, <1>9, <2>1
  <2>3. i \in DOMAIN t /\ t[i] = v
    BY <1>7, <1>11, <2>1, <2>2
  <2> QED  BY <2>3 DEF Range
<1> QED  BY <1>5, <1>6, <1>10, <1>12, <1>13

\* The keys of the iterations x .. to - 1 are cached, and the cache is cut off at
\* its oldest keys (add_sender_message_key): only keys too far behind are lost.
LEMMA KeysAdded ==
    ASSUME NEW keys \in Seq(Nat), NEW x \in Nat, KeysInOrder(keys, x), NEW to \in Nat, x <= to
    PROVE  LET t == AddSenderMessageKeys(keys, x, to) IN
           /\ t \in Seq(Nat)
           /\ KeysInOrder(t, to + 1)
           /\ \A v \in Range(t) : v \in Range(keys) \/ v \in x .. to - 1
           /\ \A v \in Nat : (v \in Range(keys) \/ v \in x .. to - 1) /\ to - v <= MAX_MESSAGE_KEYS
                          => v \in Range(t)
<1> DEFINE n == Len(keys)
           d == to - x
           new == [i \in 1 .. d |-> x + i - 1]
           all == keys \o new
           t == AddSenderMessageKeys(keys, x, to)
<1>1. n \in Nat /\ d \in Nat /\ MAX_MESSAGE_KEYS \in Nat /\ DOMAIN keys = 1 .. n
  BY SenderKeyAssumption
<1>2. new \in Seq(Nat) /\ Len(new) = d /\ \A i \in 1 .. d : new[i] = x + i - 1
  <2>1. \A i \in 1 .. d : x + i - 1 \in Nat
    BY <1>1
  <2> HIDE DEF d
  <2> QED  BY <1>1, <2>1
<1> HIDE DEF new, d
<1>3. /\ all \in Seq(Nat) /\ Len(all) = n + d
      /\ \A i \in 1 .. n : all[i] = keys[i]
      /\ \A i \in 1 .. d : all[n + i] = new[i]
  <2> HIDE DEF n
  <2>1. Len(keys) = n /\ new \in Seq(Nat)
    BY <1>2 DEF n
  <2>2. all \in Seq(Nat)
    BY <2>1, ConcatIs, Zenon
  <2>3. Len(all) = Len(keys) + Len(new)
    BY <2>1, ConcatIs, Zenon
  <2>4. \A i \in 1 .. Len(keys) : all[i] = keys[i]
    BY <2>1, ConcatIs
  <2>5. \A i \in 1 .. Len(new) : all[Len(keys) + i] = new[i]
    BY <2>1, ConcatIs, Zenon
  <2> HIDE DEF all
  <2> QED  BY <1>2, <2>1, <2>2, <2>3, <2>4, <2>5
<1>4. t = IF Len(all) <= MAX_MESSAGE_KEYS THEN all
          ELSE SubSeq(all, Len(all) - MAX_MESSAGE_KEYS + 1, Len(all))
  BY DEF AddSenderMessageKeys, new, d
<1> HIDE DEF all, t
<1>5. \A i \in 1 .. n : keys[i] \in Nat
  OBVIOUS
<1> HIDE DEF n
<1>6. \A i \in 1 .. n + d : (i <= n /\ all[i] = keys[i]) \/ (i > n /\ all[i] = x + (i - n) - 1)
  <2> TAKE i \in 1 .. n + d
  <2>1. CASE i <= n
    BY <1>1, <1>3, <2>1
  <2>2. CASE i > n
    <3>1. i - n \in 1 .. d /\ n + (i - n) = i
      BY <1>1, <2>2
    <3>2. all[n + (i - n)] = x + (i - n) - 1
      BY <1>2, <1>3, <3>1
    <3> QED  BY <2>2, <3>1, <3>2
  <2> QED  BY <1>1, <2>1, <2>2
<1>7. \A i \in 1 .. n + d : all[i] \in Nat /\ all[i] + ((n + d) - i) < to
  <2> TAKE i \in 1 .. n + d
  <2>1. CASE i <= n /\ all[i] = keys[i]
    <3>1. i \in 1 .. n
      BY <1>1, <2>1
    <3>2. keys[i] \in Nat /\ keys[i] + (n - i) < x
      BY <1>5, <3>1, Zenon DEF KeysInOrder, n
    <3> QED  BY <1>1, <2>1, <3>2 DEF d
  <2>2. CASE i > n /\ all[i] = x + (i - n) - 1
    BY <1>1, <2>2 DEF d
  <2> QED  BY <1>6, <2>1, <2>2, Zenon
<1>8. \A i, j \in 1 .. n + d : i < j => all[i] < all[j]
  <2> TAKE i, j \in 1 .. n + d
  <2> HAVE i < j
  <2>1. i <= n => all[i] < x
    <3> HAVE i <= n
    <3>1. i \in 1 .. n /\ all[i] = keys[i] /\ all[i] \in Nat
      BY <1>1, <1>5, <1>6
    <3>2. keys[i] + (n - i) < x
      BY <3>1 DEF KeysInOrder, n
    <3> QED  BY <1>1, <3>1, <3>2
  <2>2. CASE j <= n
    <3>1. i \in 1 .. n /\ j \in 1 .. n /\ all[i] = keys[i] /\ all[j] = keys[j]
      BY <1>1, <1>6, <2>2
    <3> QED  BY <3>1 DEF KeysInOrder, n
  <2>3. CASE j > n
    BY <1>1, <1>5, <1>6, <2>1, <2>3
  <2> QED  BY <1>1, <2>2, <2>3
<1> DEFINE c == IF n + d <= MAX_MESSAGE_KEYS THEN 0 ELSE (n + d) - MAX_MESSAGE_KEYS
<1>9. /\ c \in 0 .. n + d
      /\ t \in Seq(Nat) /\ Len(t) = (n + d) - c
      /\ \A i \in 1 .. Len(t) : t[i] = all[i + c]
      /\ c # 0 => (n + d) - c = MAX_MESSAGE_KEYS
  <2>1. CASE n + d <= MAX_MESSAGE_KEYS
    <3>1. c = 0 /\ t = all
      BY <1>3, <1>4, <2>1
    <3> QED  BY <1>1, <1>3, <3>1
  <2>2. CASE ~ n + d <= MAX_MESSAGE_KEYS
    <3>1. c \in 1 .. n + d /\ c = (n + d) - MAX_MESSAGE_KEYS
      BY <1>1, <2>2
    <3>2. t = SubSeq(all, c + 1, n + d)
      BY <1>3, <1>4, <2>2, <3>1, Zenon
    <3> HIDE DEF c
    <3>3. /\ SubSeq(all, c + 1, n + d) \in Seq(Nat)
          /\ Len(SubSeq(all, c + 1, n + d)) = (n + d) - c
          /\ \A i \in 1 .. (n + d) - c : SubSeq(all, c + 1, n + d)[i] = all[i + c]
      BY <1>1, <1>3, <3>1, SubSeqIs
    <3> QED  BY <1>1, <3>1, <3>2, <3>3
  <2> QED  BY <2>1, <2>2
<1> HIDE DEF c
<1>10. KeysInOrder(t, to + 1)
  <2>1. \A i \in 1 .. Len(t) : i + c \in 1 .. n + d
    BY <1>1, <1>9
  <2>2. \A i, j \in 1 .. Len(t) : i < j => t[i] < t[j]
    BY <1>1, <1>8, <1>9, <2>1
  <2>3. \A i \in 1 .. Len(t) : t[i] + (Len(t) - i) < to + 1
    <3> TAKE i \in 1 .. Len(t)
    <3>1. /\ i + c \in 1 .. n + d /\ t[i] = all[i + c]
          /\ all[i + c] \in Nat /\ all[i + c] + ((n + d) - (i + c)) < to
      BY <1>7, <1>9, <2>1
    <3> QED  BY <1>1, <1>9, <3>1
  <2> QED  BY <2>2, <2>3 DEF KeysInOrder
<1>11. DOMAIN t = 1 .. Len(t)
  BY <1>9
<1>12. ASSUME NEW v \in Range(t)
       PROVE  v \in Range(keys) \/ v \in x .. to - 1
  <2>1. PICK i \in 1 .. Len(t) : v = t[i]
    BY <1>11 DEF Range
  <2>2. i + c \in 1 .. n + d /\ v = all[i + c]
    BY <1>1, <1>9, <2>1
  <2>3. PICK j \in 1 .. n + d : v = all[j]
    BY <2>2
  <2>4. CASE j <= n
    <3>1. j \in 1 .. n /\ v = keys[j]
      BY <1>1, <1>6, <2>3, <2>4
    <3> QED  BY <1>1, <3>1, Zenon DEF Range
  <2>5. CASE j > n
    BY <1>1, <1>6, <2>3, <2>5 DEF d
  <2> QED  BY <1>1, <2>4, <2>5
<1>13. ASSUME NEW v \in Nat, v \in Range(keys) \/ v \in x .. to - 1, to - v <= MAX_MESSAGE_KEYS
       PROVE  v \in Range(t)
  <2>1. PICK j \in 1 .. n + d : v = all[j]
    <3>1. CASE v \in Range(keys)
      <4>1. PICK j \in 1 .. n : v = keys[j]
        BY <1>1, <3>1 DEF Range
      <4> QED  BY <1>1, <1>3, <4>1
    <3>2. CASE v \in x .. to - 1
      <4>1. (v - x) + 1 \in 1 .. d /\ new[(v - x) + 1] = v
        BY <1>1, <1>2, <3>2 DEF d
      <4>2. n + ((v - x) + 1) \in 1 .. n + d /\ all[n + ((v - x) + 1)] = v
        BY <1>1, <1>3, <4>1
      <4> QED  BY <4>2
    <3> QED  BY <1>13, <3>1, <3>2
  <2>2. j > c
    <3>1. all[j] \in Nat /\ all[j] + ((n + d) - j) < to
      BY <1>7
    <3> QED  BY <1>1, <1>9, <1>13, <2>1, <3>1
  <2>3. j - c \in 1 .. Len(t) /\ (j - c) + c = j
    BY <1>1, <1>9, <2>2
  <2>4. t[j - c] = v
    BY <1>9, <2>1, <2>3
  <2> QED  BY <1>11, <2>3, <2>4 DEF Range
<1> QED  BY <1>9, <1>10, <1>12, <1>13 DEF t

\* The state of a chain is found by its id.
LEMMA FoundForId ==
    ASSUME NEW states \in Seq(SenderState), OneStatePerId(states), NEW id
    PROVE  LET i == StateForChainId(states, id) IN
           /\ i \in 0 .. Len(states)
           /\ i = 0 => \A j \in 1 .. Len(states) : states[j].chain_id # id
           /\ i # 0 => states[i].chain_id = id
           /\ \A j \in 1 .. Len(states) : states[j].chain_id = id => j = i
<1> DEFINE I == {i \in 1 .. Len(states) : states[i].chain_id = id}
<1>1. StateForChainId(states, id) = IF I = {} THEN 0 ELSE Min(I)
  BY DEF StateForChainId
<1>2. Len(states) \in Nat
  OBVIOUS
<1>3. CASE I = {}
  BY <1>1, <1>2, <1>3
<1>4. CASE I # {}
  <2>1. PICK k \in 1 .. Len(states) : states[k].chain_id = id
    BY <1>4
  <2>2. I = {k}
    BY <2>1 DEF OneStatePerId
  <2>3. StateForChainId(states, id) = k
    BY <1>1, <2>1, <2>2, MinOfOne
  <2> QED  BY <1>2, <2>1, <2>2, <2>3
<1> QED  BY <1>3, <1>4

\* add_sender_key_state: the record stays one with a state per id, and what is
\* in it was there before, or is the new state of a chain that had none.
LEMMA StateAdded ==
    ASSUME NEW states \in Seq(SenderState), OneStatePerId(states), NEW skdm \in Message
    PROVE  LET r == AddSenderKeyState(states, skdm) IN
           /\ r \in Seq(SenderState) /\ Len(r) # 0
           /\ OneStatePerId(r)
           /\ \A p \in 1 .. Len(r) :
                 \/ \E j \in 1 .. Len(states) : r[p] = states[j]
                 \/ /\ r[p] = NewState(skdm)
                    /\ \A j \in 1 .. Len(states) :
                          ~ (/\ states[j].chain_id = skdm.chain_id
                             /\ states[j].signing_key = skdm.signing_key)
<1> DEFINE id == skdm.chain_id
           i == StateForChainId(states, id)
           state == IF i # 0 /\ states[i].signing_key = skdm.signing_key
                    THEN states[i] ELSE NewState(skdm)
           others == OtherStates(states, id)
           rest == IF Len(others) < MAX_SENDER_KEY_STATES THEN others
                   ELSE SubSeq(others, 1, MAX_SENDER_KEY_STATES - 1)
           r == << state >> \o rest
<1>1. AddSenderKeyState(states, skdm) = r
  BY DEF AddSenderKeyState
<1>2. /\ i \in 0 .. Len(states) /\ Len(states) \in Nat
      /\ i # 0 => states[i].chain_id = id
      /\ \A j \in 1 .. Len(states) : states[j].chain_id = id => j = i
  BY FoundForId
<1>3. others = IF i = 0 THEN states ELSE WithoutPosition(states, i)
  BY DEF OtherStates
<1> HIDE DEF i, others
<1>4. NewState(skdm) \in SenderState /\ NewState(skdm).chain_id = id
  BY DEF NewState, SenderState, Message
<1>5. /\ state \in SenderState /\ state.chain_id = id
      /\ \/ \E j \in 1 .. Len(states) : state = states[j]
         \/ /\ state = NewState(skdm)
            /\ \A j \in 1 .. Len(states) :
                  ~ (/\ states[j].chain_id = skdm.chain_id
                     /\ states[j].signing_key = skdm.signing_key)
  <2>1. CASE i # 0 /\ states[i].signing_key = skdm.signing_key
    <3>1. state = states[i] /\ i \in 1 .. Len(states)
      BY <1>2, <2>1
    <3>2. states[i] \in SenderState
      BY <3>1
    <3> QED  BY <1>2, <2>1, <3>1, <3>2
  <2>2. CASE ~ (i # 0 /\ states[i].signing_key = skdm.signing_key)
    <3>1. state = NewState(skdm)
      BY <2>2
    <3>2. \A j \in 1 .. Len(states) :
            ~ (states[j].chain_id = id /\ states[j].signing_key = skdm.signing_key)
      BY <1>2, <2>2
    <3> QED  BY <1>4, <3>1, <3>2
  <2> QED  BY <2>1, <2>2
<1> HIDE DEF state
<1>6. /\ others \in Seq(SenderState)
      /\ \A p \in 1 .. Len(others) :
            \E j \in 1 .. Len(states) : others[p] = states[j] /\ states[j].chain_id # id
      /\ \A p, q \in 1 .. Len(others) : others[p].chain_id = others[q].chain_id => p = q
  <2>1. CASE i = 0
    <3>1. others = states
      BY <1>3, <2>1
    <3>2. \A j \in 1 .. Len(states) : states[j].chain_id # id
      BY <1>2, <2>1
    <3> QED  BY <3>1, <3>2 DEF OneStatePerId
  <2>2. CASE i # 0
    <3> DEFINE At(p) == IF p < i THEN p ELSE p + 1
    <3>1. i \in 1 .. Len(states)
      BY <1>2, <2>2
    <3>2. /\ others \in Seq(SenderState) /\ Len(others) = Len(states) - 1
          /\ \A p \in 1 .. Len(others) : others[p] = states[At(p)]
      BY <1>3, <2>2, <3>1, WithoutPositionIs
    <3>3. \A p \in 1 .. Len(others) : At(p) \in 1 .. Len(states) /\ At(p) # i
      BY <1>2, <3>1, <3>2
    <3>4. \A p, q \in 1 .. Len(others) : At(p) = At(q) => p = q
      BY <1>2, <3>1, <3>2
    <3> HIDE DEF At
    <3>5. \A p \in 1 .. Len(others) : states[At(p)].chain_id # id
      BY <1>2, <3>3
    <3>6. \A p, q \in 1 .. Len(others) : others[p].chain_id = others[q].chain_id => p = q
      BY <3>2, <3>3, <3>4 DEF OneStatePerId
    <3> QED  BY <3>2, <3>3, <3>5, <3>6, Zenon
  <2> QED  BY <2>1, <2>2
<1>7. /\ rest \in Seq(SenderState) /\ Len(rest) <= Len(others)
      /\ \A p \in 1 .. Len(rest) : rest[p] = others[p]
  <2>1. CASE Len(others) < MAX_SENDER_KEY_STATES
    <3>1. rest = others
      BY <2>1
    <3> HIDE DEF rest
    <3>2. Len(others) \in Nat
      BY <1>6
    <3> QED  BY <1>6, <3>1, <3>2
  <2>2. CASE ~ Len(others) < MAX_SENDER_KEY_STATES
    <3> DEFINE k == MAX_SENDER_KEY_STATES - 1
    <3>1. k \in Nat /\ k <= Len(others) /\ rest = SubSeq(others, 1, k)
      BY <1>6, <2>2, SenderKeyAssumption
    <3> HIDE DEF k, rest
    <3>2. /\ SubSeq(others, 1, k) \in Seq(SenderState) /\ Len(SubSeq(others, 1, k)) = k
          /\ \A p \in 1 .. k : SubSeq(others, 1, k)[p] = others[p]
      BY <1>6, <3>1
    <3> QED  BY <3>1, <3>2
  <2> QED  BY <2>1, <2>2
<1> HIDE DEF rest
<1>8. /\ r \in Seq(SenderState) /\ Len(r) = Len(rest) + 1 /\ Len(rest) \in Nat
      /\ r[1] = state
      /\ \A p \in 1 .. Len(rest) : r[p + 1] = rest[p]
  BY <1>5, <1>7
<1> HIDE DEF r
<1>9. \A p \in 1 .. Len(r) : p = 1 \/ (p - 1 \in 1 .. Len(others) /\ r[p] = others[p - 1])
  <2> TAKE p \in 1 .. Len(r)
  <2>1. CASE p # 1
    <3>1. p - 1 \in 1 .. Len(rest) /\ (p - 1) + 1 = p /\ Len(others) \in Nat
      BY <1>6, <1>8, <2>1
    <3>2. r[p] = rest[p - 1] /\ p - 1 \in 1 .. Len(others)
      BY <1>7, <1>8, <3>1
    <3> QED  BY <1>7, <3>1, <3>2
  <2> QED  BY <2>1
<1>10. \A p \in 1 .. Len(others) : others[p].chain_id # id
  BY <1>6
<1>11. OneStatePerId(r)
  <2> SUFFICES ASSUME NEW p \in 1 .. Len(r), NEW q \in 1 .. Len(r),
                      r[p].chain_id = r[q].chain_id
               PROVE  p = q
    BY DEF OneStatePerId
  <2>1. CASE p = 1 \/ q = 1
    <3>1. \A u \in 1 .. Len(r) : u # 1 => r[u].chain_id # id
      <4> TAKE u \in 1 .. Len(r)
      <4>1. u # 1 => u - 1 \in 1 .. Len(others) /\ r[u] = others[u - 1]
        BY <1>9
      <4> QED  BY <1>10, <4>1
    <3>2. r[1].chain_id = id
      BY <1>5, <1>8
    <3> QED  BY <2>1, <3>1, <3>2
  <2>2. CASE p # 1 /\ q # 1
    <3>1. p - 1 = q - 1
      <4>1. /\ p - 1 \in 1 .. Len(others) /\ r[p] = others[p - 1]
            /\ q - 1 \in 1 .. Len(others) /\ r[q] = others[q - 1]
        BY <1>9, <2>2
      <4> QED  BY <1>6, <4>1, Zenon
    <3> QED  BY <1>8, <3>1
  <2> QED  BY <2>1, <2>2
<1>12. \A p \in 1 .. Len(r) : p # 1 => \E j \in 1 .. Len(states) : r[p] = states[j]
  BY <1>6, <1>9
<1>13. Len(r) # 0
  BY <1>8
<1> HIDE DEF id
<1> QED  BY <1>1, <1>5, <1>8, <1>11, <1>12, <1>13

-----------------------------------------------------------------------------
\* A new chain: everything there is belongs to an earlier one.
LEMMA CreateSenderKeyKeeps ==
    ASSUME SenderIInv, NEW id \in ChainIds, CreateSenderKey(id)
    PROVE  SenderIInv'
<1> DEFINE c == [chain_id |-> id, iteration |-> 0]
<1>1. /\ chains' = Append(chains, c) /\ Len(chains) < MaxChains
      /\ sent' = sent /\ deliveries' = deliveries /\ sender_record' = sender_record
      /\ since' = since /\ dropped' = dropped
  BY DEF CreateSenderKey
<1>2. chains \in Seq(Chain) /\ Len(chains) \in Nat
  BY DEF SenderIInv, SenderTypeOK
<1>3. c \in Chain
  BY DEF Chain
<1> HIDE DEF c
<1>4. /\ chains' \in Seq(Chain)
      /\ Len(chains') = Len(chains) + 1
      /\ \A k \in 1 .. Len(chains) : chains'[k] = chains[k] /\ k \in 1 .. Len(chains')
  BY <1>1, <1>2, <1>3, AppendIs
<1>5. SenderTypeOK'
  BY <1>1, <1>2, <1>4, SenderKeyAssumption DEF SenderIInv, SenderTypeOK
<1>6. OfChains'
  BY <1>1, <1>4 DEF SenderIInv, OfChains
<1>7. /\ OneStatePerId(sender_record)' /\ CachesInOrder' /\ DeliveredIsBehind'
      /\ PassedOverIsCached' /\ NotYetHeld' /\ SenderMessageOnce'
  BY <1>1 DEF SenderIInv, OneStatePerId, CachesInOrder, DeliveredIsBehind, PassedOverIsCached,
              NotYetHeld, SenderMessageOnce
<1> QED  BY <1>5, <1>6, <1>7 DEF SenderIInv

\* A new message: no other one of its chain has its iteration, and no receiver's
\* state is past it.
LEMMA GroupEncryptKeeps ==
    ASSUME SenderIInv, GroupEncrypt
    PROVE  SenderIInv'
<1> DEFINE k == Len(chains)
           it == chains[k].iteration
           m == [chain_id |-> chains[k].chain_id, signing_key |-> k, iteration |-> it]
<1>1. /\ chains' = [chains EXCEPT ![k].iteration = it + 1]
      /\ sent' = Append(sent, m) /\ deliveries' = Append(deliveries, 0)
      /\ sender_record' = sender_record /\ since' = since /\ dropped' = dropped
      /\ active /\ active' = active /\ it < MAX_ITERATION
  BY DEF GroupEncrypt, NextIteration
<1>2. /\ chains \in Seq(Chain)
      /\ k \in 1 .. Len(chains) /\ Len(chains) \in Nat
      /\ sent \in Seq(Message) /\ deliveries \in Seq(Nat)
      /\ Len(sent) \in Nat /\ Len(deliveries) = Len(sent)
  BY <1>1 DEF SenderIInv, SenderTypeOK
<1>3. chains[k] \in Chain /\ it \in Nat
  BY <1>2, ElementTypes DEF SenderIInv
<1>4. it \in Nat /\ m \in Message
  BY <1>2, <1>3 DEF Message, Chain
<1>5. m.signing_key = k /\ m.iteration = it /\ m.chain_id = chains[k].chain_id
  OBVIOUS
<1> HIDE DEF m
<1>6. /\ chains' \in Seq(Chain) /\ Len(chains') = Len(chains)
      /\ chains'[k].chain_id = chains[k].chain_id /\ chains'[k].iteration = it + 1
      /\ \A j \in 1 .. Len(chains) : j # k => chains'[j] = chains[j]
  <2>1. [chains[k] EXCEPT !.iteration = it + 1] \in Chain
    BY <1>3, <1>4 DEF Chain
  <2>2. chains' = [chains EXCEPT ![k] = [chains[k] EXCEPT !.iteration = it + 1]]
    BY <1>1
  <2>3. /\ [chains[k] EXCEPT !.iteration = it + 1].iteration = it + 1
        /\ [chains[k] EXCEPT !.iteration = it + 1].chain_id = chains[k].chain_id
    BY <1>3
  <2> DEFINE e == [chains[k] EXCEPT !.iteration = it + 1]
  <2> HIDE DEF e
  <2>4. /\ [chains EXCEPT ![k] = e] \in Seq(Chain)
        /\ Len([chains EXCEPT ![k] = e]) = Len(chains)
        /\ [chains EXCEPT ![k] = e][k] = e
        /\ \A j \in 1 .. Len(chains) : j # k => [chains EXCEPT ![k] = e][j] = chains[j]
    <3>1. e \in Chain
      BY <2>1 DEF e
    <3> QED  BY <1>2, <3>1
  <2> QED  BY <2>2, <2>3, <2>4 DEF e
<1> DEFINE l == Len(sent)
<1>7. /\ sent' \in Seq(Message) /\ Len(sent') = l + 1
      /\ sent'[l + 1] = m /\ \A n \in 1 .. l : sent'[n] = sent[n]
      /\ deliveries' \in Seq(Nat) /\ Len(deliveries') = l + 1
      /\ deliveries'[l + 1] = 0 /\ \A n \in 1 .. l : deliveries'[n] = deliveries[n]
      /\ \A n \in 1 .. Len(sent') : n \in 1 .. l \/ n = l + 1
  BY <1>1, <1>2, <1>4, AppendIs
<1> HIDE DEF k, it, l
<1>8. SenderTypeOK'
  BY <1>1, <1>2, <1>6, <1>7 DEF SenderIInv, SenderTypeOK, k
<1>9. \A n \in 1 .. l : /\ sent[n].signing_key \in 1 .. Len(chains)
                        /\ sent[n].signing_key = k => sent[n].iteration < it
                        /\ sent[n].iteration \in Nat
  BY ElementTypes DEF SenderIInv, OfChains, it, l
<1>10. OfChains'
  <2>1. \A n \in 1 .. Len(sent') :
           /\ sent'[n].signing_key \in 1 .. Len(chains')
           /\ sent'[n].chain_id = chains'[sent'[n].signing_key].chain_id
           /\ sent'[n].iteration < chains'[sent'[n].signing_key].iteration
           /\ sent'[n].iteration < MAX_ITERATION
    <3> TAKE n \in 1 .. Len(sent')
    <3>1. CASE n = l + 1
      BY <1>1, <1>2, <1>4, <1>5, <1>6, <1>7, <3>1
    <3>2. CASE n \in 1 .. l
      <4>1. /\ sent[n].signing_key \in 1 .. Len(chains)
            /\ sent[n].chain_id = chains[sent[n].signing_key].chain_id
            /\ sent[n].iteration < chains[sent[n].signing_key].iteration
            /\ sent[n].iteration < MAX_ITERATION
        BY <3>2 DEF SenderIInv, OfChains, l
      <4>2. sent'[n] = sent[n]
        BY <1>7, <3>2
      <4>3. CASE sent[n].signing_key = k
        BY <1>4, <1>6, <1>9, <3>2, <4>1, <4>2, <4>3
      <4>4. CASE sent[n].signing_key # k
        BY <1>6, <4>1, <4>2, <4>4
      <4> QED  BY <4>3, <4>4
    <3> QED  BY <1>7, <3>1, <3>2
  <2>2. ASSUME NEW p \in 1 .. Len(sent'), NEW n \in 1 .. Len(sent'),
               sent'[p].signing_key = sent'[n].signing_key,
               sent'[p].iteration = sent'[n].iteration
        PROVE  p = n
    <3>1. CASE p \in 1 .. l /\ n \in 1 .. l
      <4>1. /\ p \in 1 .. Len(sent) /\ n \in 1 .. Len(sent)
            /\ sent'[p] = sent[p] /\ sent'[n] = sent[n]
        BY <1>7, <3>1 DEF l
      <4> QED  BY <2>2, <4>1 DEF SenderIInv, OfChains
    <3>2. CASE p = l + 1 /\ n \in 1 .. l
      BY <1>4, <1>5, <1>7, <1>9, <2>2, <3>2
    <3>3. CASE n = l + 1 /\ p \in 1 .. l
      BY <1>4, <1>5, <1>7, <1>9, <2>2, <3>3
    <3> QED  BY <1>7, <3>1, <3>2, <3>3
  <2>3. \A i \in 1 .. Len(sender_record') :
           /\ sender_record'[i].signing_key \in 1 .. Len(chains')
           /\ sender_record'[i].chain_id = chains'[sender_record'[i].signing_key].chain_id
           /\ sender_record'[i].iteration <= chains'[sender_record'[i].signing_key].iteration
    <3> TAKE i \in 1 .. Len(sender_record')
    <3>1. /\ sender_record[i].signing_key \in 1 .. Len(chains)
          /\ sender_record[i].chain_id = chains[sender_record[i].signing_key].chain_id
          /\ sender_record[i].iteration <= chains[sender_record[i].signing_key].iteration
      BY <1>1 DEF SenderIInv, OfChains
    <3>2. sender_record[i].iteration \in Nat
      BY <1>1, ElementTypes DEF SenderIInv
    <3> QED  BY <1>1, <1>4, <1>6, <3>1, <3>2 DEF it
  <2> QED  BY <2>1, <2>2, <2>3 DEF OfChains
<1>11. OneStatePerId(sender_record)' /\ CachesInOrder'
  BY <1>1 DEF SenderIInv, OneStatePerId, CachesInOrder
<1>12. DeliveredIsBehind'
  <2>1. sender_record' = sender_record /\ dropped' = dropped
    BY <1>1
  <2> SUFFICES ASSUME NEW n \in 1 .. Len(sent'), NEW i \in 1 .. Len(sender_record),
                      sent'[n].signing_key = sender_record[i].signing_key,
                      deliveries'[n] # 0, sender_record[i].signing_key \notin dropped
               PROVE  /\ sent'[n].iteration < sender_record[i].iteration
                      /\ sent'[n].iteration \notin Range(sender_record[i].keys)
    BY <2>1 DEF DeliveredIsBehind
  <2>2. n \in 1 .. Len(sent) /\ sent'[n] = sent[n] /\ deliveries[n] # 0
    BY <1>7 DEF l
  <2> QED  BY <2>2 DEF SenderIInv, DeliveredIsBehind
<1>13. PassedOverIsCached'
  <2>0. sender_record' = sender_record /\ since' = since
    BY <1>1
  <2> SUFFICES ASSUME NEW n \in 1 .. Len(sent'), NEW i \in 1 .. Len(sender_record),
                      sent'[n].signing_key = sender_record[i].signing_key,
                      deliveries'[n] = 0,
                      since[sender_record[i].signing_key] <= sent'[n].iteration,
                      sent'[n].iteration < sender_record[i].iteration,
                      (sender_record[i].iteration - 1) - sent'[n].iteration
                          <= MAX_MESSAGE_KEYS
               PROVE  sent'[n].iteration \in Range(sender_record[i].keys)
    BY <2>0 DEF PassedOverIsCached
  <2>1. CASE n \in 1 .. l
    BY <1>7, <2>1, Zenon DEF SenderIInv, PassedOverIsCached, l
  <2>2. CASE n = l + 1
    <3>1. sender_record[i].iteration <= it
      BY <1>5, <1>7, <2>2 DEF SenderIInv, OfChains, it
    <3>2. sender_record[i].iteration \in Nat
      BY ElementTypes DEF SenderIInv
    <3> QED  BY <1>4, <1>5, <1>7, <2>2, <3>1, <3>2
  <2> QED  BY <1>7, <2>1, <2>2
<1>14. NotYetHeld' /\ SenderMessageOnce'
  BY <1>1, <1>7 DEF SenderIInv, NotYetHeld, SenderMessageOnce, l
<1> QED  BY <1>8, <1>10, <1>11, <1>12, <1>13, <1>14 DEF SenderIInv

\* A distribution message: the chain keeps its state, or gets one that begins at
\* the message's iteration.
LEMMA ProcessDistributionKeeps ==
    ASSUME SenderIInv, NEW skdm \in DistributionMessages,
           ProcessSenderKeyDistributionMessage(skdm)
    PROVE  SenderIInv'
<1> DEFINE k == skdm.signing_key
           r == AddSenderKeyState(sender_record, skdm)
<1>1. /\ sender_record' = r
      /\ since' = IF k \in HeldChains(sender_record) THEN since
                  ELSE [since EXCEPT ![k] = skdm.iteration]
      /\ dropped' = dropped \cup (HeldChains(sender_record) \ HeldChains(r))
      /\ chains' = chains /\ active' = active /\ sent' = sent /\ deliveries' = deliveries
  BY DEF ProcessSenderKeyDistributionMessage
<1>2. /\ chains \in Seq(Chain) /\ Len(chains) <= MaxChains
      /\ Len(chains) \in Nat /\ MaxChains \in Nat
      /\ sender_record \in Seq(SenderState) /\ OneStatePerId(sender_record)
      /\ since \in [1 .. MaxChains -> Nat]
      /\ sent \in Seq(Message)
  BY SenderKeyAssumption DEF SenderIInv, SenderTypeOK
<1>3. /\ k \in 1 .. Len(chains) /\ skdm.chain_id = chains[k].chain_id
      /\ skdm.iteration \in Nat /\ skdm.iteration <= chains[k].iteration
      /\ skdm \in Message
  <2>1. PICK j \in 1 .. Len(chains) :
           \E i \in 0 .. chains[j].iteration :
              skdm = [chain_id |-> chains[j].chain_id, signing_key |-> j, iteration |-> i]
    BY DEF DistributionMessages
  <2>2. PICK i \in 0 .. chains[j].iteration :
           skdm = [chain_id |-> chains[j].chain_id, signing_key |-> j, iteration |-> i]
    BY <2>1
  <2>3. chains[j] \in Chain
    BY ElementTypes DEF SenderIInv
  <2> QED  BY <1>2, <2>2, <2>3 DEF Message, Chain
<1>4. /\ r \in Seq(SenderState)
      /\ OneStatePerId(r)
      /\ \A p \in 1 .. Len(r) :
            \/ \E j \in 1 .. Len(sender_record) : r[p] = sender_record[j]
            \/ /\ r[p] = NewState(skdm)
               /\ \A j \in 1 .. Len(sender_record) :
                     ~ (/\ sender_record[j].chain_id = skdm.chain_id
                        /\ sender_record[j].signing_key = skdm.signing_key)
  BY <1>2, <1>3, StateAdded, Zenon
<1> HIDE DEF r, k
<1>5. \A j \in 1 .. Len(sender_record) : sender_record[j].signing_key \in HeldChains(sender_record)
  BY <1>2 DEF HeldChains, Range
<1>6. \A p \in 1 .. Len(r) :
         \/ \E j \in 1 .. Len(sender_record) : r[p] = sender_record[j]
         \/ r[p] = NewState(skdm) /\ k \notin HeldChains(sender_record)
  <2> TAKE p \in 1 .. Len(r)
  <2>1. CASE /\ r[p] = NewState(skdm)
             /\ \A j \in 1 .. Len(sender_record) :
                   ~ (/\ sender_record[j].chain_id = skdm.chain_id
                      /\ sender_record[j].signing_key = skdm.signing_key)
    <3>1. SUFFICES ASSUME k \in HeldChains(sender_record)
                   PROVE  FALSE
      BY <2>1
    <3>2. PICK j \in 1 .. Len(sender_record) : sender_record[j].signing_key = k
      BY <1>2, <3>1 DEF HeldChains, Range
    <3>3. sender_record[j].chain_id = chains[k].chain_id
      BY <3>2 DEF SenderIInv, OfChains
    <3> QED  BY <1>3, <2>1, <3>2, <3>3 DEF k
  <2> QED  BY <1>4, <2>1
<1>7. /\ since' \in [1 .. MaxChains -> Nat]
      /\ k \notin HeldChains(sender_record) => since'[k] = skdm.iteration
      /\ \A j \in 1 .. Len(sender_record) :
            since'[sender_record[j].signing_key] = since[sender_record[j].signing_key]
  <2>1. k \in 1 .. MaxChains
    BY <1>2, <1>3
  <2>2. \A j \in 1 .. Len(sender_record) : sender_record[j].signing_key \in 1 .. MaxChains
    <3>1. MaxChains \in Nat /\ Len(chains) \in Nat /\ Len(chains) <= MaxChains
      BY <1>2, SenderKeyAssumption, Zenon DEF SenderIInv, SenderTypeOK
    <3>2. \A j \in 1 .. Len(sender_record) : sender_record[j].signing_key \in 1 .. Len(chains)
      BY DEF SenderIInv, OfChains
    <3> QED  BY <3>1, <3>2
  <2>3. CASE k \in HeldChains(sender_record)
    BY <1>1, <1>2, <2>3
  <2>4. CASE k \notin HeldChains(sender_record)
    <3>1. since' = [since EXCEPT ![k] = skdm.iteration]
      BY <1>1, <2>4
    <3>2. \A j \in 1 .. Len(sender_record) : sender_record[j].signing_key # k
      BY <1>5, <2>4
    <3> QED  BY <1>2, <1>3, <2>1, <2>2, <2>4, <3>1, <3>2, Zenon
  <2> QED  BY <2>3, <2>4
<1>8. /\ NewState(skdm).signing_key = k /\ NewState(skdm).chain_id = skdm.chain_id
      /\ NewState(skdm).iteration = skdm.iteration /\ NewState(skdm).keys = << >>
  BY DEF NewState, k
<1>9. SenderTypeOK'
  BY <1>1, <1>4, <1>7 DEF SenderIInv, SenderTypeOK
<1>10. OfChains'
  <2>1. \A p \in 1 .. Len(r) :
           /\ r[p].signing_key \in 1 .. Len(chains)
           /\ r[p].chain_id = chains[r[p].signing_key].chain_id
           /\ r[p].iteration <= chains[r[p].signing_key].iteration
    <3> TAKE p \in 1 .. Len(r)
    <3>1. CASE \E j \in 1 .. Len(sender_record) : r[p] = sender_record[j]
      BY <3>1 DEF SenderIInv, OfChains
    <3>2. CASE r[p] = NewState(skdm)
      BY <1>3, <1>8, <3>2
    <3> QED  BY <1>6, <3>1, <3>2
  <2> QED  BY <1>1, <2>1 DEF SenderIInv, OfChains
<1>11. OneStatePerId(sender_record)'
  BY <1>1, <1>4 DEF OneStatePerId
<1>12. CachesInOrder'
  <2>1. \A p \in 1 .. Len(r) : KeysInOrder(r[p].keys, r[p].iteration)
    <3> TAKE p \in 1 .. Len(r)
    <3>1. CASE \E j \in 1 .. Len(sender_record) : r[p] = sender_record[j]
      BY <3>1 DEF SenderIInv, CachesInOrder
    <3>2. CASE r[p] = NewState(skdm)
      BY <1>8, <3>2 DEF KeysInOrder
    <3> QED  BY <1>6, <3>1, <3>2
  <2> QED  BY <1>1, <2>1 DEF CachesInOrder
<1>13. DeliveredIsBehind'
  <2> SUFFICES ASSUME NEW n \in 1 .. Len(sent), NEW p \in 1 .. Len(r),
                      sent[n].signing_key = r[p].signing_key,
                      deliveries[n] # 0, r[p].signing_key \notin dropped'
               PROVE  /\ sent[n].iteration < r[p].iteration
                      /\ sent[n].iteration \notin Range(r[p].keys)
    BY <1>1, Zenon DEF DeliveredIsBehind
  <2>1. CASE \E j \in 1 .. Len(sender_record) : r[p] = sender_record[j]
    BY <1>1, <2>1, Zenon DEF SenderIInv, DeliveredIsBehind
  <2>2. CASE r[p] = NewState(skdm) /\ k \notin HeldChains(sender_record)
    BY <1>1, <1>8, <2>2, Zenon DEF SenderIInv, NotYetHeld
  <2> QED  BY <1>6, <2>1, <2>2, Zenon
<1>14. PassedOverIsCached'
  <2> SUFFICES ASSUME NEW n \in 1 .. Len(sent), NEW p \in 1 .. Len(r),
                      sent[n].signing_key = r[p].signing_key, deliveries[n] = 0,
                      since'[r[p].signing_key] <= sent[n].iteration,
                      sent[n].iteration < r[p].iteration,
                      (r[p].iteration - 1) - sent[n].iteration <= MAX_MESSAGE_KEYS
               PROVE  sent[n].iteration \in Range(r[p].keys)
    BY <1>1 DEF PassedOverIsCached
  <2>1. CASE \E j \in 1 .. Len(sender_record) : r[p] = sender_record[j]
    BY <1>7, <2>1, Zenon DEF SenderIInv, PassedOverIsCached
  <2>2. CASE r[p] = NewState(skdm) /\ k \notin HeldChains(sender_record)
    <3>1. sent[n].iteration \in Nat
      BY ElementTypes DEF SenderIInv
    <3> QED  BY <1>3, <1>7, <1>8, <2>2, <3>1
  <2> QED  BY <1>6, <2>1, <2>2
<1>15. NotYetHeld'
  BY <1>1 DEF SenderIInv, NotYetHeld
<1>16. SenderMessageOnce'
  BY <1>1, Zenon DEF SenderIInv, SenderMessageOnce
<1> QED  BY <1>9, <1>10, <1>11, <1>12, <1>13, <1>14, <1>15, <1>16 DEF SenderIInv

\* What get_sender_key makes of a state, when it yields the key for a message
\* of its chain.
LEMMA KeyTaken ==
    ASSUME NEW s \in SenderState, KeysInOrder(s.keys, s.iteration), NEW it \in Nat,
           GetSenderKey(s, it).result = "Ok"
    PROVE  LET t == GetSenderKey(s, it).state IN
           /\ t \in SenderState /\ t.chain_id = s.chain_id /\ t.signing_key = s.signing_key
           /\ KeysInOrder(t.keys, t.iteration)
           /\ t.iteration = IF it < s.iteration THEN s.iteration ELSE it + 1
           /\ it < t.iteration /\ it \notin Range(t.keys)
           /\ it \in Range(s.keys) \/ s.iteration <= it
           /\ \A v \in Nat : v < s.iteration /\ v \notin Range(s.keys) => v \notin Range(t.keys)
           /\ \A v \in Nat : /\ v # it /\ v < t.iteration
                             /\ (t.iteration - 1) - v <= MAX_MESSAGE_KEYS
                             /\ v \in Range(s.keys) \/ s.iteration <= v
                             => v \in Range(t.keys)
<1>1. s.keys \in Seq(Nat) /\ s.iteration \in Nat
  BY Zenon DEF SenderState
<1>2. CASE s.iteration > it
  <2> DEFINE keys == RemoveSenderMessageKey(s.keys, it)
             t == [s EXCEPT !.keys = keys]
  <2>1. it \in Range(s.keys) /\ GetSenderKey(s, it).state = t
    BY <1>2 DEF GetSenderKey
  <2>2. /\ keys \in Seq(Nat) /\ KeysInOrder(keys, s.iteration)
        /\ \A v : v \in Range(keys) <=> v \in Range(s.keys) /\ v # it
    BY <1>1, <2>1, KeyRemoved
  <2> HIDE DEF keys
  <2>3. /\ t \in SenderState /\ t.chain_id = s.chain_id /\ t.signing_key = s.signing_key
        /\ t.keys = keys /\ t.iteration = s.iteration
    <3>1. t \in SenderState
      BY <2>2, Zenon DEF SenderState
    <3>2. /\ t.chain_id = s.chain_id /\ t.signing_key = s.signing_key
          /\ t.keys = keys /\ t.iteration = s.iteration
      BY Zenon DEF SenderState
    <3> QED  BY <3>1, <3>2, Zenon
  <2> HIDE DEF t
  <2> QED  BY <1>1, <1>2, <2>1, <2>2, <2>3
<1>3. CASE ~ s.iteration > it
  <2> DEFINE keys == AddSenderMessageKeys(s.keys, s.iteration, it)
             t == [s EXCEPT !.keys = keys, !.iteration = it + 1]
  <2>1. GetSenderKey(s, it).state = t
    BY <1>3 DEF GetSenderKey, NextIteration
  <2>2. /\ keys \in Seq(Nat) /\ KeysInOrder(keys, it + 1)
        /\ \A v \in Range(keys) : v \in Range(s.keys) \/ v \in s.iteration .. it - 1
        /\ \A v \in Nat : /\ v \in Range(s.keys) \/ v \in s.iteration .. it - 1
                          /\ it - v <= MAX_MESSAGE_KEYS
                          => v \in Range(keys)
    <3>1. s.iteration <= it
      BY <1>1, <1>3
    <3> HIDE DEF keys
    <3> DEFINE ks == s.keys
               x == s.iteration
    <3>2. ks \in Seq(Nat) /\ x \in Nat /\ KeysInOrder(ks, x) /\ x <= it
      BY <1>1, <3>1
    <3>3. keys = AddSenderMessageKeys(ks, x, it)
      BY DEF keys
    <3> HIDE DEF ks, x
    <3>4. LET a == AddSenderMessageKeys(ks, x, it) IN
          /\ a \in Seq(Nat)
          /\ KeysInOrder(a, it + 1)
          /\ \A v \in Range(a) : v \in Range(ks) \/ v \in x .. it - 1
          /\ \A v \in Nat : (v \in Range(ks) \/ v \in x .. it - 1) /\ it - v <= MAX_MESSAGE_KEYS
                         => v \in Range(a)
      BY <3>2, KeysAdded, Zenon
    <3> QED  BY <3>3, <3>4 DEF ks, x
  <2> HIDE DEF keys
  <2>3. /\ t \in SenderState /\ t.chain_id = s.chain_id /\ t.signing_key = s.signing_key
        /\ t.keys = keys /\ t.iteration = it + 1
    <3> DEFINE next == it + 1
    <3>1. next \in Nat /\ keys \in Seq(Nat)
      BY <2>2
    <3> HIDE DEF next
    <3>2. t = [s EXCEPT !.keys = keys, !.iteration = next]
      BY DEF next
    <3>3. [s EXCEPT !.keys = keys, !.iteration = next] \in SenderState
      BY <3>1, Zenon DEF SenderState
    <3>4. /\ t.chain_id = s.chain_id /\ t.signing_key = s.signing_key
          /\ t.keys = keys /\ t.iteration = it + 1
      BY Zenon DEF SenderState
    <3> HIDE DEF t
    <3> QED  BY <3>2, <3>3, <3>4
  <2> HIDE DEF t
  <2>4. \A v \in Range(s.keys) : v \in Nat /\ v < s.iteration
    <3> TAKE v \in Range(s.keys)
    <3>1. PICK i \in DOMAIN s.keys : v = s.keys[i]
      BY Zenon DEF Range
    <3>2. i \in 1 .. Len(s.keys) /\ Len(s.keys) \in Nat /\ s.keys[i] \in Nat
      BY <1>1
    <3>3. s.keys[i] + (Len(s.keys) - i) < s.iteration
      BY <1>1, <3>2, Zenon DEF KeysInOrder
    <3> QED  BY <1>1, <3>1, <3>2, <3>3
  <2>5. it \notin Range(keys)
    BY <1>1, <1>3, <2>2, <2>4
  <2>6. \A v \in Nat : v < s.iteration /\ v \notin Range(s.keys) => v \notin Range(keys)
    BY <1>1, <2>2
  <2>7. \A v \in Nat : /\ v # it /\ v < it + 1 /\ it - v <= MAX_MESSAGE_KEYS
                       /\ v \in Range(s.keys) \/ s.iteration <= v
                       => v \in Range(keys)
    BY <1>1, <2>2
  <2>8. t.iteration - 1 = it
    BY <2>3
  <2> QED  BY <1>1, <1>3, <2>1, <2>2, <2>3, <2>5, <2>6, <2>7, <2>8
<1> QED  BY <1>1, <1>2, <1>3

\* A message is decrypted: its chain moves past it, or its key leaves the cache.
LEMMA GroupDecryptKeeps ==
    ASSUME SenderIInv, NEW n \in 1 .. Len(sent), GroupDecrypt(n)
    PROVE  SenderIInv'
<1> DEFINE m == sent[n]
           it == m.iteration
           i == StateForChainId(sender_record, m.chain_id)
           s == sender_record[i]
           t == GetSenderKey(s, it).state
<1>1. /\ Decryption(m) = "Ok"
      /\ sender_record' = [sender_record EXCEPT ![i] = t]
      /\ deliveries' = [deliveries EXCEPT ![n] = deliveries[n] + 1]
      /\ chains' = chains /\ active' = active /\ sent' = sent /\ since' = since
      /\ dropped' = dropped
  BY DEF GroupDecrypt
<1>2. /\ chains \in Seq(Chain)
      /\ sent \in Seq(Message) /\ m \in Message
      /\ deliveries \in Seq(Nat) /\ Len(deliveries) = Len(sent) /\ Len(sent) \in Nat
      /\ sender_record \in Seq(SenderState) /\ Len(sender_record) \in Nat
      /\ OneStatePerId(sender_record)
  BY DEF SenderIInv, SenderTypeOK
<1>3. /\ i \in 1 .. Len(sender_record)
      /\ s.signing_key = m.signing_key /\ s.chain_id = m.chain_id
      /\ GetSenderKey(s, it).result = "Ok"
  <2>1. /\ i # 0 /\ s.signing_key = m.signing_key
        /\ GetSenderKey(s, it).result = "Ok"
    BY <1>1 DEF Decryption
  <2>2. i \in 0 .. Len(sender_record) /\ (i # 0 => s.chain_id = m.chain_id)
    BY <1>2, FoundForId, Zenon
  <2> QED  BY <2>1, <2>2
<1>4. s \in SenderState /\ it \in Nat /\ s.iteration \in Nat
  BY <1>3, ElementTypes, Zenon DEF SenderIInv
<1>5. KeysInOrder(s.keys, s.iteration)
  BY <1>3, Zenon DEF SenderIInv, CachesInOrder
<1> HIDE DEF m, it, i, s
<1>6. /\ t \in SenderState /\ t.chain_id = s.chain_id /\ t.signing_key = s.signing_key
      /\ KeysInOrder(t.keys, t.iteration)
      /\ t.iteration = IF it < s.iteration THEN s.iteration ELSE it + 1
      /\ it < t.iteration /\ it \notin Range(t.keys)
      /\ it \in Range(s.keys) \/ s.iteration <= it
      /\ \A v \in Nat : v < s.iteration /\ v \notin Range(s.keys) => v \notin Range(t.keys)
      /\ \A v \in Nat : /\ v # it /\ v < t.iteration
                        /\ (t.iteration - 1) - v <= MAX_MESSAGE_KEYS
                        /\ v \in Range(s.keys) \/ s.iteration <= v
                        => v \in Range(t.keys)
  BY <1>3, <1>4, <1>5, KeyTaken, Zenon
<1> HIDE DEF t
<1>7. /\ sender_record' \in Seq(SenderState) /\ Len(sender_record') = Len(sender_record)
      /\ sender_record'[i] = t
      /\ \A j \in 1 .. Len(sender_record) : j # i => sender_record'[j] = sender_record[j]
  BY <1>1, <1>2, <1>3, <1>6
<1>8. /\ deliveries' \in Seq(Nat) /\ Len(deliveries') = Len(deliveries)
      /\ deliveries'[n] = deliveries[n] + 1 /\ deliveries[n] \in Nat
      /\ \A j \in 1 .. Len(sent) : j # n => deliveries'[j] = deliveries[j]
  <2>1. deliveries[n] \in Nat /\ n \in 1 .. Len(deliveries)
    BY <1>2
  <2> QED  BY <1>1, <1>2, <2>1
<1>9. \A j \in 1 .. Len(sender_record) :
         /\ sender_record'[j].signing_key = sender_record[j].signing_key
         /\ sender_record'[j].chain_id = sender_record[j].chain_id
  <2>1. sender_record[i].signing_key = t.signing_key /\ sender_record[i].chain_id = t.chain_id
    BY <1>6, Zenon DEF s
  <2> QED  BY <1>7, <2>1
<1>10. \A j \in 1 .. Len(sender_record) : sender_record[j].signing_key = m.signing_key => j = i
  <2> TAKE j \in 1 .. Len(sender_record)
  <2> HAVE sender_record[j].signing_key = m.signing_key
  <2>1. /\ sender_record[j].chain_id = chains[m.signing_key].chain_id
        /\ sender_record[i].chain_id = chains[sender_record[i].signing_key].chain_id
    BY <1>3 DEF SenderIInv, OfChains
  <2>2. sender_record[j].chain_id = sender_record[i].chain_id
    BY <1>3, <2>1 DEF s
  <2> QED  BY <1>2, <1>3, <2>2, Zenon DEF OneStatePerId
<1>11. m = sent[n] /\ it = sent[n].iteration /\ s = sender_record[i]
  BY DEF m, it, s
<1>12. \A j \in 1 .. Len(sent) : /\ sent[j].iteration \in Nat
                                 /\ sent[j].signing_key = m.signing_key /\ sent[j].iteration = it
                                    => j = n
  BY <1>11, ElementTypes DEF SenderIInv, OfChains
<1>13. HeldChains(sender_record') = HeldChains(sender_record)
  <2>1. /\ DOMAIN sender_record' = 1 .. Len(sender_record)
        /\ DOMAIN sender_record = 1 .. Len(sender_record)
    BY <1>2, <1>7
  <2> QED  BY <1>9, <2>1 DEF HeldChains, Range
<1>14. m.signing_key \in HeldChains(sender_record)
  BY <1>2, <1>3, <1>11 DEF HeldChains, Range
<1>15. SenderTypeOK'
  BY <1>1, <1>2, <1>7, <1>8, Zenon DEF SenderIInv, SenderTypeOK
<1>16. OfChains'
  <2>1. /\ it < chains[m.signing_key].iteration /\ chains[m.signing_key].iteration \in Nat
        /\ s.iteration <= chains[s.signing_key].iteration
    <3>1. m.signing_key \in 1 .. Len(chains)
      BY <1>11 DEF SenderIInv, OfChains
    <3>2. chains[m.signing_key].iteration \in Nat
      BY <3>1, ElementTypes DEF SenderIInv
    <3> QED  BY <1>3, <1>11, <3>2, Zenon DEF SenderIInv, OfChains
  <2>2. t.iteration <= chains[t.signing_key].iteration
    BY <1>3, <1>4, <1>6, <2>1
  <2>3. \A j \in 1 .. Len(sender_record') :
           /\ sender_record'[j].signing_key \in 1 .. Len(chains')
           /\ sender_record'[j].chain_id = chains'[sender_record'[j].signing_key].chain_id
           /\ sender_record'[j].iteration <= chains'[sender_record'[j].signing_key].iteration
    BY <1>1, <1>7, <1>9, <2>2 DEF SenderIInv, OfChains
  <2> QED  BY <1>1, <2>3 DEF SenderIInv, OfChains
<1>17. OneStatePerId(sender_record)'
  <2> SUFFICES ASSUME NEW p \in 1 .. Len(sender_record), NEW q \in 1 .. Len(sender_record),
                      sender_record'[p].chain_id = sender_record'[q].chain_id
               PROVE  p = q
    BY <1>7, Zenon DEF OneStatePerId
  <2>1. sender_record[p].chain_id = sender_record[q].chain_id
    BY <1>9
  <2> QED  BY <1>2, <2>1 DEF OneStatePerId
<1>18. CachesInOrder'
  BY <1>6, <1>7 DEF SenderIInv, CachesInOrder
<1>19. DeliveredIsBehind'
  <2> SUFFICES ASSUME NEW j \in 1 .. Len(sent), NEW p \in 1 .. Len(sender_record),
                      sent[j].signing_key = sender_record'[p].signing_key,
                      deliveries'[j] # 0, sender_record'[p].signing_key \notin dropped
               PROVE  /\ sent[j].iteration < sender_record'[p].iteration
                      /\ sent[j].iteration \notin Range(sender_record'[p].keys)
    BY <1>1, <1>7 DEF DeliveredIsBehind
  <2>1. CASE p # i
    <3>1. sender_record'[p] = sender_record[p] /\ j # n
      BY <1>7, <1>9, <1>10, <1>11, <2>1
    <3>2. deliveries[j] # 0
      BY <1>8, <3>1, Zenon
    <3> QED  BY <3>1, <3>2, Zenon DEF SenderIInv, DeliveredIsBehind
  <2>2. CASE p = i /\ j = n
    BY <1>6, <1>7, <1>11, <2>2, Zenon
  <2>3. CASE p = i /\ j # n
    <3>1. sent[j].iteration < s.iteration /\ sent[j].iteration \notin Range(s.keys)
      <4>1. sender_record'[p].signing_key = s.signing_key /\ deliveries[j] # 0
        BY <1>8, <1>9, <1>11, <2>3, Zenon
      <4> QED  BY <1>3, <1>11, <4>1, Zenon DEF SenderIInv, DeliveredIsBehind
    <3> QED  BY <1>4, <1>6, <1>7, <1>12, <2>3, <3>1
  <2> QED  BY <2>1, <2>2, <2>3, Zenon
<1>20. PassedOverIsCached'
  <2> SUFFICES ASSUME NEW j \in 1 .. Len(sent), NEW p \in 1 .. Len(sender_record),
                      sent[j].signing_key = sender_record'[p].signing_key,
                      deliveries'[j] = 0,
                      since[sender_record'[p].signing_key] <= sent[j].iteration,
                      sent[j].iteration < sender_record'[p].iteration,
                      (sender_record'[p].iteration - 1) - sent[j].iteration
                          <= MAX_MESSAGE_KEYS
               PROVE  sent[j].iteration \in Range(sender_record'[p].keys)
    BY <1>1, <1>7 DEF PassedOverIsCached
  <2>1. j # n /\ deliveries[j] = 0
    BY <1>8
  <2>2. CASE p # i
    <3>1. sender_record'[p] = sender_record[p]
      BY <1>7, <2>2
    <3> QED  BY <2>1, <3>1 DEF SenderIInv, PassedOverIsCached
  <2>3. CASE p = i
    <3>1. sent[j].signing_key = m.signing_key /\ sender_record'[p] = t
      BY <1>3, <1>6, <1>7, <2>3, Zenon
    <3>2. sent[j].iteration # it /\ sent[j].iteration \in Nat
      BY <1>12, <2>1, <3>1, Zenon
    <3>3. sent[j].iteration \in Range(s.keys) \/ s.iteration <= sent[j].iteration
      <4>1. SUFFICES ASSUME sent[j].iteration < s.iteration
                     PROVE  sent[j].iteration \in Range(s.keys)
        BY <1>4, <3>2
      <4>2. (s.iteration - 1) - sent[j].iteration <= MAX_MESSAGE_KEYS
        <5>1. t.iteration \in Nat /\ s.iteration <= t.iteration
          <6>1. t.iteration = IF it < s.iteration THEN s.iteration ELSE it + 1
            BY <1>6, Zenon
          <6> QED  BY <1>4, <6>1
        <5>2. (t.iteration - 1) - sent[j].iteration <= MAX_MESSAGE_KEYS
          BY <3>1, Zenon
        <5>3. MAX_MESSAGE_KEYS \in Nat
          BY SenderKeyAssumption
        <5> QED  BY <1>4, <3>2, <5>1, <5>2, <5>3, NotFurtherBehind, Zenon
      <4>3. /\ sent[j].signing_key = s.signing_key /\ since[s.signing_key] <= sent[j].iteration
            /\ deliveries[j] = 0
        BY <1>3, <1>6, <2>1, <3>1
      <4>4. /\ sent[j].signing_key = sender_record[i].signing_key /\ deliveries[j] = 0
            /\ since[sender_record[i].signing_key] <= sent[j].iteration
            /\ sent[j].iteration < sender_record[i].iteration
            /\ (sender_record[i].iteration - 1) - sent[j].iteration <= MAX_MESSAGE_KEYS
        BY <4>1, <4>2, <4>3, Zenon DEF s
      <4>5. sent[j].iteration \in Range(sender_record[i].keys)
        BY <1>3, <4>4 DEF SenderIInv, PassedOverIsCached
      <4> QED  BY <1>11, <4>5
    <3> QED  BY <1>6, <3>1, <3>2, <3>3, Zenon
  <2> QED  BY <2>2, <2>3
<1>21. NotYetHeld'
  BY <1>1, <1>8, <1>11, <1>13, <1>14 DEF SenderIInv, NotYetHeld
<1>22. SenderMessageOnce'
  <2>1. deliveries[n] = 0 \/ m.signing_key \in dropped
    <3> SUFFICES ASSUME deliveries[n] # 0, m.signing_key \notin dropped
                 PROVE  FALSE
      OBVIOUS
    <3>1. it < s.iteration /\ it \notin Range(s.keys)
      BY <1>3, <1>11, Zenon DEF SenderIInv, DeliveredIsBehind
    <3> QED  BY <1>4, <1>6, <3>1
  <2> QED  BY <1>1, <1>2, <1>8, <1>11, <2>1 DEF SenderIInv, SenderMessageOnce
<1> QED  BY <1>15, <1>16, <1>17, <1>18, <1>19, <1>20, <1>21, <1>22 DEF SenderIInv

\* The invariant holds initially and is preserved by every step.
THEOREM SenderInvariant == SenderSpec => []SenderIInv
<1>1. SenderInit => SenderIInv
  <2> HAVE SenderInit
  <2>1. SenderTypeOK
    BY SenderKeyAssumption DEF SenderInit, SenderTypeOK
  <2>2. OneStatePerId(sender_record) /\ CachesInOrder
    BY DEF SenderInit, OneStatePerId, CachesInOrder
  <2>3. OfChains
    BY DEF SenderInit, OfChains
  <2>4. DeliveredIsBehind /\ PassedOverIsCached
    BY DEF SenderInit, DeliveredIsBehind, PassedOverIsCached
  <2>5. NotYetHeld /\ SenderMessageOnce
    BY DEF SenderInit, NotYetHeld, SenderMessageOnce
  <2> QED  BY <2>1, <2>2, <2>3, <2>4, <2>5, Zenon DEF SenderIInv
<1>2. SenderIInv /\ [SenderNext]_senderVars => SenderIInv'
  <2> SUFFICES ASSUME SenderIInv, [SenderNext]_senderVars
               PROVE  SenderIInv'
    OBVIOUS
  <2>1. CASE Rotate \/ UNCHANGED senderVars
    <3>1. /\ chains' = chains /\ sent' = sent /\ deliveries' = deliveries
          /\ sender_record' = sender_record /\ since' = since /\ dropped' = dropped
          /\ active' => active
      BY <2>1 DEF Rotate, senderVars
    <3>2. SenderTypeOK'
      BY <3>1, Zenon DEF SenderIInv, SenderTypeOK
    <3>3. OfChains' /\ OneStatePerId(sender_record)' /\ CachesInOrder'
      BY <3>1, Zenon DEF SenderIInv, OfChains, OneStatePerId, CachesInOrder
    <3>4. DeliveredIsBehind'
      BY <3>1 DEF SenderIInv, DeliveredIsBehind
    <3>5. PassedOverIsCached'
      BY <3>1 DEF SenderIInv, PassedOverIsCached
    <3>6. NotYetHeld' /\ SenderMessageOnce'
      BY <3>1 DEF SenderIInv, NotYetHeld, SenderMessageOnce
    <3> QED  BY <3>2, <3>3, <3>4, <3>5, <3>6 DEF SenderIInv
  <2> QED  BY <2>1, CreateSenderKeyKeeps, GroupEncryptKeeps, ProcessDistributionKeeps,
              GroupDecryptKeeps DEF SenderNext
<1> QED  BY <1>1, <1>2, PTL DEF SenderSpec

\* A group message is decrypted at most once, unless the receiver gave up its
\* chain and was given it again: get_sender_key removes the cached key it returns
\* and moves the chain past a key it derives.
THEOREM GroupMessageOnce == SenderSpec => []SenderMessageOnce
<1>1. SenderIInv => SenderMessageOnce
  BY DEF SenderIInv
<1> QED  BY <1>1, SenderInvariant, PTL

\* A message of a chain the receiver holds can be decrypted once it arrives, if
\* it was sent after the distribution message and neither MAX_FORWARD_JUMPS nor
\* the trimming in add_sender_message_key rules it out.
THEOREM GroupMessagesRetained == SenderSpec => []SenderKeysRetained
<1>1. SenderIInv => SenderKeysRetained
  <2> SUFFICES ASSUME SenderIInv, NEW n \in 1 .. Len(sent), NEW s \in Range(sender_record),
                      deliveries[n] = 0,
                      sent[n].signing_key = s.signing_key,
                      sent[n].iteration >= since[s.signing_key],
                      sent[n].iteration - s.iteration <= MAX_FORWARD_JUMPS,
                      (s.iteration - 1) - sent[n].iteration <= MAX_MESSAGE_KEYS
               PROVE  Decryption(sent[n]) = "Ok"
    BY DEF SenderKeysRetained
  <2>1. /\ sender_record \in Seq(SenderState) /\ OneStatePerId(sender_record)
        /\ sent \in Seq(Message) /\ since \in [1 .. MaxChains -> Nat]
        /\ Len(chains) <= MaxChains /\ Len(chains) \in Nat /\ MaxChains \in Nat
    BY SenderKeyAssumption DEF SenderIInv, SenderTypeOK
  <2>2. PICK j \in 1 .. Len(sender_record) : s = sender_record[j]
    BY <2>1 DEF Range
  <2>3. s \in SenderState /\ s.iteration \in Nat /\ sent[n] \in Message /\ sent[n].iteration \in Nat
    BY <2>2, ElementTypes DEF SenderIInv
  <2>4. /\ s.chain_id = sent[n].chain_id /\ sent[n].iteration < MAX_ITERATION
        /\ s.signing_key \in 1 .. Len(chains)
    BY <2>2, Zenon DEF SenderIInv, OfChains
  <2>5. StateForChainId(sender_record, sent[n].chain_id) = j
    BY <2>1, <2>2, <2>4, FoundForId
  <2>6. since[s.signing_key] \in Nat
    BY <2>1, <2>4
  <2>7. GetSenderKey(s, sent[n].iteration).result = "Ok"
    <3>1. CASE s.iteration > sent[n].iteration
      <4>1. sent[n].iteration \in Range(s.keys)
        BY <2>2, <2>3, <2>6, <3>1, Zenon DEF SenderIInv, PassedOverIsCached
      <4> QED  BY <3>1, <4>1 DEF GetSenderKey
    <3>2. CASE ~ s.iteration > sent[n].iteration
      BY <2>3, <2>4, <3>2, SenderKeyAssumption DEF GetSenderKey
    <3> QED  BY <3>1, <3>2
  <2> QED  BY <2>2, <2>5, <2>7 DEF Decryption
<1> QED  BY <1>1, SenderInvariant, PTL

==============================================================================
