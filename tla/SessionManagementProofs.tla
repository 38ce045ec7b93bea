---------------------- MODULE SessionManagementProofs ----------------------
(***************************************************************************)
(* Proofs about SessionManagement, for every archive limit, every set of   *)
(* one-time pre-keys and every bound: the inductive invariant, what the    *)
(* operations on a record, a decryption and a series of writes do to one   *)
(* store, and that each step keeps the invariant.                          *)
(***************************************************************************)
EXTENDS SessionManagement, TLAPS

USE SMTT(30)

Record == [current : Session \cup {NoSession}, previous : Seq(Session)]

Store ==
    [record : Record, identity : Nat \cup {NoKey}, pre_keys : SUBSET PreKeyIds,
     base_keys_seen : SUBSET Nat]

Distinct(q) == \A i, j \in 1 .. Len(q) : q[i].base = q[j].base => i = j

\* A record has at most one session with a base key.
RecordOK(r) ==
    /\ r \in Record
    /\ Distinct(r.previous)
    /\ r.current # NoSession =>
           \A i \in 1 .. Len(r.previous) : r.previous[i].base # r.current.base

\* The sessions of t are the sessions of r, acknowledged or not.
Keeps(r, t) ==
    \A s \in Sessions(t) : \E x \in Sessions(r) :
        s = x \/ s = ClearUnacknowledgedPreKeyMessage(x)

\* t is a record with the current session u and sessions of r with other base keys.
Evolves(r, u, t) ==
    /\ RecordOK(t) /\ t.current = u
    /\ \A s \in Sessions(t) : s = u \/ \E x \in Sessions(r) :
           /\ x.base # u.base
           /\ s = x \/ s = ClearUnacknowledgedPreKeyMessage(x)

-----------------------------------------------------------------------------
(* The invariant                                                           *)

\* Where the session of a base key comes from: who started it, between which
\* installations, and with which one-time pre-key.  No variable holds this, but what
\* there is of the session at any time agrees with it.
Origin == [owner : Party, ids : [Party -> Nat], key : PreKeyIds \cup {NoKey}]

\* p is past the one time at which it could make a session with base key b.
Used(o, p, b) ==
    \/ o[b].owner = p
    \/ o[b].ids[p] # identity[p]
    \/ b \in store[p].base_keys_seen

\* The messages p's application got.
Got(p) == {delivered[p][i] : i \in 1 .. Len(delivered[p])}

SessionFits(o, p, s) ==
    /\ s.base \in 1 .. started
    /\ o[s.base].ids[p] = identity[p] /\ o[s.base].ids[Peer(p)] = s.remote
    /\ s.pending # NotPending => o[s.base].owner = p /\ s.pending.pre_key_id = o[s.base].key
    /\ o[s.base].owner # p =>
           s.base \in store[p].base_keys_seen /\ o[s.base].key \notin store[p].pre_keys
    /\ \A m \in sent : m.from = p /\ m.base = s.base => m.counter < s.sent
    /\ \A m \in Got(p) : m.base = s.base => m.counter \in s.received

MessageFits(o, m) ==
    /\ m.from \in Party /\ m.base \in 1 .. started /\ m.counter \in Nat
    /\ m.identity = o[m.base].ids[m.from] /\ m.to = o[m.base].ids[Peer(m.from)]
    /\ m.pre_key # NoPreKey => o[m.base].owner = m.from /\ m.pre_key.id = o[m.base].key
    /\ Used(o, m.from, m.base)

DeliveriesFit(o, p) == \A m \in Got(p) : m \in Incoming(p) /\ Used(o, p, m.base)

Fits(o) ==
    /\ \A b \in 1 .. started, p \in Party : o[b].ids[p] <= identity[p]
    /\ \A p \in Party : \A s \in Sessions(store[p].record) : SessionFits(o, p, s)
    /\ \A m \in sent : MessageFits(o, m)
    /\ \A p \in Party : DeliveriesFit(o, p)

TypeOK ==
    /\ store \in [Party -> Store]
    /\ \A p \in Party : RecordOK(store[p].record)
    /\ identity \in [Party -> Nat]
    /\ bundles \in [Party -> SUBSET PreKeyIds]
    /\ delivered \in [Party -> Seq(sent)]
    /\ now \in Nat /\ started \in Nat

IInv ==
    /\ TypeOK /\ NoKeyReuse /\ AtMostOnce
    /\ \E o \in [Nat -> Origin] : Fits(o)

-----------------------------------------------------------------------------
(* Sequences of sessions                                                   *)

\* q is made of elements of p, at other places of q from other places of p.
Picks(q, p) ==
    /\ q \in Seq(Session)
    /\ \E at \in [1 .. Len(q) -> 1 .. Len(p)] :
           /\ \A i \in 1 .. Len(q) : q[i] = p[at[i]]
           /\ \A i, j \in 1 .. Len(q) : at[i] = at[j] => i = j

LEMMA PicksKeep ==
    ASSUME NEW p \in Seq(Session), Distinct(p), NEW q, Picks(q, p)
    PROVE  /\ q \in Seq(Session) /\ Distinct(q)
           /\ \A i \in 1 .. Len(q) : \E j \in 1 .. Len(p) : q[i] = p[j]
<1>1. PICK at \in [1 .. Len(q) -> 1 .. Len(p)] :
          /\ \A i \in 1 .. Len(q) : q[i] = p[at[i]]
          /\ \A i, j \in 1 .. Len(q) : at[i] = at[j] => i = j
  BY DEF Picks
<1>2. \A i \in 1 .. Len(q) : at[i] \in 1 .. Len(p)
  BY <1>1
<1>3. Distinct(q)
  BY <1>1, <1>2 DEF Distinct
<1> QED BY <1>1, <1>2, <1>3 DEF Picks

LEMMA WithoutLastPicks ==
    ASSUME NEW p \in Seq(Session), Len(p) # 0
    PROVE  Picks(WithoutLast(p), p)
<1> DEFINE n == Len(p) - 1
           q == SubSeq(p, 1, n)
<1>1. n \in Nat /\ n <= Len(p) /\ WithoutLast(p) = q
  BY DEF WithoutLast
<1> HIDE DEF n
<1>2. q \in Seq(Session) /\ Len(q) = n /\ \A i \in 1 .. n : q[i] = p[i]
  BY <1>1
<1> HIDE DEF q
<1> DEFINE at == [i \in 1 .. Len(q) |-> i]
<1>3. at \in [1 .. Len(q) -> 1 .. Len(p)]
  BY <1>1, <1>2
<1>4. /\ \A i \in 1 .. Len(q) : q[i] = p[at[i]]
      /\ \A i, j \in 1 .. Len(q) : at[i] = at[j] => i = j
  BY <1>2
<1> HIDE DEF at
<1> QED BY <1>1, <1>2, <1>3, <1>4, Zenon DEF Picks

LEMMA WithoutAtPicks ==
    ASSUME NEW p \in Seq(Session), NEW k \in 1 .. Len(p)
    PROVE  /\ Picks(WithoutAt(p, k), p)
           /\ Distinct(p) =>
                  \A i \in 1 .. Len(WithoutAt(p, k)) : WithoutAt(p, k)[i].base # p[k].base
<1> DEFINE n == Len(p) - 1
           q == WithoutAt(p, k)
           At(i) == IF i < k THEN i ELSE i + 1
<1>1. Len(p) \in Nat /\ n \in Nat /\ n = Len(p) - 1 /\ k \in Nat
  OBVIOUS
<1>2. \A i \in 1 .. n : At(i) \in 1 .. Len(p) /\ At(i) # k
  BY <1>1
<1>3. q = [i \in 1 .. n |-> p[At(i)]]
  BY DEF WithoutAt
<1> HIDE DEF q, n
<1>4. \A i \in 1 .. n : p[At(i)] \in Session
  BY <1>1, <1>2
<1>5. q \in Seq(Session)
  BY <1>1, <1>3, <1>4
<1>6. Len(q) = n
  BY <1>1, <1>3
<1>7. \A i \in 1 .. n : At(i) \in 1 .. Len(p) /\ At(i) # k /\ q[i] = p[At(i)]
  BY <1>2, <1>3
<1>8. \A i, j \in 1 .. n : At(i) = At(j) => i = j
  BY <1>1
<1> DEFINE at == [i \in 1 .. Len(q) |-> At(i)]
<1> HIDE DEF At
<1>9. at \in [1 .. Len(q) -> 1 .. Len(p)]
  BY <1>6, <1>7
<1>10. /\ \A i \in 1 .. Len(q) : q[i] = p[at[i]]
       /\ \A i, j \in 1 .. Len(q) : at[i] = at[j] => i = j
  BY <1>6, <1>7, <1>8
<1> HIDE DEF at
<1>11. Picks(q, p)
  BY <1>5, <1>9, <1>10 DEF Picks
<1>12. Distinct(p) => \A i \in 1 .. Len(q) : q[i].base # p[k].base
  BY <1>6, <1>7 DEF Distinct
<1> QED BY <1>11, <1>12 DEF q

\* A session with a base key of its own in front of others.
LEMMA ConsDistinct ==
    ASSUME NEW p \in Seq(Session), Distinct(p), NEW s \in Session,
           \A i \in 1 .. Len(p) : p[i].base # s.base
    PROVE  /\ << s >> \o p \in Seq(Session) /\ Distinct(<< s >> \o p)
           /\ \A i \in 1 .. Len(<< s >> \o p) :
                  (<< s >> \o p)[i] = s \/ \E j \in 1 .. Len(p) : (<< s >> \o p)[i] = p[j]
<1> DEFINE q == << s >> \o p
<1>1. << s >> \in Seq(Session) /\ Len(<< s >>) = 1 /\ << s >>[1] = s /\ Len(p) \in Nat
  OBVIOUS
<1>2. /\ q \in Seq(Session) /\ Len(q) = Len(p) + 1 /\ q[1] = s
      /\ \A i \in 1 .. Len(p) : q[i + 1] = p[i]
  BY <1>1
<1> HIDE DEF q
<1>3. \A i \in 1 .. Len(q) : i = 1 \/ (i - 1 \in 1 .. Len(p) /\ q[i] = p[i - 1])
  <2> TAKE i \in 1 .. Len(q)
  <2>1. i = 1 \/ i - 1 \in 1 .. Len(p)
    BY <1>1, <1>2
  <2>2. i - 1 \in 1 .. Len(p) => q[(i - 1) + 1] = p[i - 1]
    BY <1>2
  <2>3. (i - 1) + 1 = i
    OBVIOUS
  <2> QED BY <2>1, <2>2, <2>3
<1>4. ASSUME NEW i \in 1 .. Len(q), NEW j \in 1 .. Len(q), q[i].base = q[j].base
      PROVE  i = j
  <2>1. CASE i = 1 /\ j = 1
    BY <2>1
  <2>2. CASE i # 1 /\ j # 1
    <3>1. i - 1 \in 1 .. Len(p) /\ j - 1 \in 1 .. Len(p) /\ p[i - 1].base = p[j - 1].base
      BY <1>3, <1>4, <2>2
    <3>2. i - 1 = j - 1
      BY <3>1 DEF Distinct
    <3> QED BY <3>2
  <2>3. CASE i = 1 /\ j # 1
    BY <1>2, <1>3, <1>4, <2>3, Zenon
  <2>4. CASE i # 1 /\ j = 1
    BY <1>2, <1>3, <1>4, <2>4, Zenon
  <2> QED BY <2>1, <2>2, <2>3, <2>4
<1> QED BY <1>2, <1>3, <1>4 DEF Distinct, q

-----------------------------------------------------------------------------
(* Records                                                                 *)

LEMMA SessionsOf ==
    ASSUME NEW r \in Record
    PROVE  /\ Sessions(r) \subseteq Session
           /\ \A s : s \in Sessions(r) <=>
                  \/ r.current # NoSession /\ s = r.current
                  \/ \E i \in 1 .. Len(r.previous) : s = r.previous[i]
<1>1. r.previous \in Seq(Session) /\ DOMAIN r.previous = 1 .. Len(r.previous)
      /\ \A i \in 1 .. Len(r.previous) : r.previous[i] \in Session
  BY DEF Record
<1>2. r.current = NoSession \/ r.current \in Session
  BY DEF Record
<1>3. Range(r.previous) = {r.previous[i] : i \in 1 .. Len(r.previous)}
  BY <1>1 DEF Range
<1> QED BY <1>1, <1>2, <1>3 DEF Sessions

LEMMA OneSessionEach ==
    ASSUME NEW r, RecordOK(r), NEW s \in Sessions(r), NEW t \in Sessions(r), s.base = t.base
    PROVE  s = t
<1>1. r \in Record
  BY DEF RecordOK
<1> QED BY <1>1, SessionsOf DEF RecordOK, Distinct

LEMMA ClearedSession ==
    ASSUME NEW s \in Session
    PROVE  LET c == ClearUnacknowledgedPreKeyMessage(s)
           IN  /\ c \in Session /\ c.base = s.base /\ c.remote = s.remote
               /\ c.pending = NotPending /\ c.sent = s.sent /\ c.received = s.received
BY DEF ClearUnacknowledgedPreKeyMessage, Session

LEMMA ArchiveKeeps ==
    ASSUME NEW r, RecordOK(r)
    PROVE  LET t == ArchiveCurrentState(r)
           IN  RecordOK(t) /\ t.current = NoSession /\ Keeps(r, t)
<1> DEFINE p == r.previous
           m == MakeRoom(p)
           s == ClearUnacknowledgedPreKeyMessage(r.current)
           t == ArchiveCurrentState(r)
<1>1. CASE r.current = NoSession
  BY <1>1 DEF ArchiveCurrentState, Keeps
<1>2. CASE r.current # NoSession
  <2>1. /\ r \in Record /\ r.current \in Session /\ p \in Seq(Session) /\ Len(p) \in Nat
        /\ Distinct(p) /\ \A i \in 1 .. Len(p) : p[i].base # r.current.base
    BY <1>2 DEF RecordOK, Record
  <2>2. /\ m \in Seq(Session) /\ Distinct(m)
        /\ \A i \in 1 .. Len(m) : \E j \in 1 .. Len(p) : m[i] = p[j]
    <3>1. CASE Len(p) >= ARCHIVED_STATES_MAX_LENGTH
      <4>1. Len(p) # 0 /\ m = WithoutLast(p)
        BY <2>1, <3>1, ArchiveLimitAssumption DEF MakeRoom
      <4>2. Picks(WithoutLast(p), p)
        BY <2>1, <4>1, WithoutLastPicks
      <4> QED BY <2>1, <4>1, <4>2, PicksKeep
    <3>2. CASE ~ (Len(p) >= ARCHIVED_STATES_MAX_LENGTH)
      BY <2>1, <3>2 DEF MakeRoom
    <3> QED BY <3>1, <3>2, Zenon
  <2>3. s \in Session /\ s.base = r.current.base
    BY <2>1, ClearedSession
  <2>4. t = [current |-> NoSession, previous |-> << s >> \o m]
    BY <1>2 DEF ArchiveCurrentState
  <2>5. s = ClearUnacknowledgedPreKeyMessage(r.current)
    OBVIOUS
  <2> HIDE DEF s, m, t
  <2>6. \A i \in 1 .. Len(m) : m[i].base # s.base
    BY <2>1, <2>2, <2>3
  <2>7. /\ << s >> \o m \in Seq(Session) /\ Distinct(<< s >> \o m)
        /\ \A i \in 1 .. Len(<< s >> \o m) :
               (<< s >> \o m)[i] = s \/ \E j \in 1 .. Len(m) : (<< s >> \o m)[i] = m[j]
    BY <2>2, <2>3, <2>6, ConsDistinct
  <2>8. t \in Record /\ t.current = NoSession /\ t.previous = << s >> \o m
    BY <2>4, <2>7 DEF Record
  <2>9. RecordOK(t)
    BY <2>7, <2>8 DEF RecordOK
  <2>10. ASSUME NEW x \in Sessions(t)
         PROVE  \E y \in Sessions(r) : x = y \/ x = ClearUnacknowledgedPreKeyMessage(y)
    <3>1. PICK i \in 1 .. Len(t.previous) : x = t.previous[i]
      BY <2>8, SessionsOf, Zenon
    <3>2. CASE x = s
      <4>1. r.current \in Sessions(r)
        BY <1>2, <2>1, SessionsOf
      <4> QED BY <2>5, <3>2, <4>1
    <3>3. CASE \E j \in 1 .. Len(m) : x = m[j]
      <4>1. PICK k \in 1 .. Len(p) : x = p[k]
        BY <2>2, <3>3
      <4>2. x \in Sessions(r)
        BY <2>1, <4>1, SessionsOf
      <4> QED BY <4>2
    <3> QED BY <2>7, <2>8, <3>1, <3>2, <3>3
  <2>11. Keeps(r, t)
    BY <2>10 DEF Keeps
  <2> QED BY <2>8, <2>9, <2>11 DEF t
<1> QED BY <1>1, <1>2

\* Making a session with a new base key current.
LEMMA PromoteEvolves ==
    ASSUME NEW r, RecordOK(r), NEW u \in Session, \A s \in Sessions(r) : s.base # u.base
    PROVE  Evolves(r, u, PromoteState(r, u))
<1> DEFINE a == ArchiveCurrentState(r)
           t == PromoteState(r, u)
<1>1. RecordOK(a) /\ a.current = NoSession /\ Keeps(r, a)
  BY ArchiveKeeps
<1>2. t = [a EXCEPT !.current = u]
  BY DEF PromoteState
<1> HIDE DEF a, t
<1>3. a \in Record /\ t \in Record /\ t.current = u /\ t.previous = a.previous
  BY <1>1, <1>2 DEF RecordOK, Record
<1>4. u # NoSession
  BY SessionAssumption
<1>5. \A i \in 1 .. Len(t.previous) : t.previous[i] \in Sessions(a)
  BY <1>3, SessionsOf
<1>6. \A s \in Sessions(a) : \E x \in Sessions(r) :
          /\ x.base # u.base /\ s.base = x.base
          /\ s = x \/ s = ClearUnacknowledgedPreKeyMessage(x)
  <2> TAKE s \in Sessions(a)
  <2>1. PICK x \in Sessions(r) : s = x \/ s = ClearUnacknowledgedPreKeyMessage(x)
    BY <1>1 DEF Keeps
  <2>2. x \in Session
    BY SessionsOf DEF RecordOK
  <2> QED BY <2>1, <2>2, ClearedSession
<1>7. RecordOK(t)
  BY <1>1, <1>3, <1>5, <1>6 DEF RecordOK
<1>8. \A s \in Sessions(t) : s = u \/ s \in Sessions(a)
  BY <1>3, <1>5, SessionsOf
<1> QED BY <1>3, <1>6, <1>7, <1>8 DEF Evolves, t

\* Promoting an archived session, changed or not.
LEMMA PromoteOldEvolves ==
    ASSUME NEW r, RecordOK(r), NEW i \in 1 .. Len(r.previous),
           NEW u \in Session, u.base = r.previous[i].base
    PROVE  Evolves(r, u, PromoteOldSession(r, i, u))
<1> DEFINE rest == WithoutAt(r.previous, i)
           v == [r EXCEPT !.previous = rest]
<1>1. r \in Record /\ r.previous \in Seq(Session) /\ Distinct(r.previous)
  BY DEF RecordOK, Record
<1>2. Picks(rest, r.previous) /\ \A j \in 1 .. Len(rest) : rest[j].base # u.base
  BY <1>1, WithoutAtPicks
<1>3. /\ rest \in Seq(Session) /\ Distinct(rest)
      /\ \A k \in 1 .. Len(rest) : \E j \in 1 .. Len(r.previous) : rest[k] = r.previous[j]
  BY <1>1, <1>2, PicksKeep
<1> HIDE DEF rest
<1>4. v \in Record /\ v.current = r.current /\ v.previous = rest
  BY <1>1, <1>3 DEF Record
<1>5. PromoteOldSession(r, i, u) = PromoteState(v, u)
  BY DEF PromoteOldSession, rest
<1> HIDE DEF v
<1>6. RecordOK(v)
  BY <1>3, <1>4, Zenon DEF RecordOK
<1>7. r.current # NoSession => r.current.base # u.base
  BY DEF RecordOK
<1>8. \A s \in Sessions(v) : s.base # u.base /\ s \in Sessions(r)
  <2> TAKE s \in Sessions(v)
  <2>1. CASE v.current # NoSession /\ s = v.current
    BY <1>1, <1>4, <1>7, <2>1, SessionsOf
  <2>2. CASE \E j \in 1 .. Len(v.previous) : s = v.previous[j]
    BY <1>1, <1>2, <1>3, <1>4, <2>2, SessionsOf
  <2> QED BY <1>4, <2>1, <2>2, SessionsOf
<1>9. Evolves(v, u, PromoteState(v, u))
  BY <1>6, <1>8, PromoteEvolves
<1> QED BY <1>5, <1>8, <1>9 DEF Evolves

\* Changing the current session.
LEMMA CurrentEvolves ==
    ASSUME NEW r, RecordOK(r), r.current # NoSession, NEW u \in Session, u.base = r.current.base
    PROVE  Evolves(r, u, [r EXCEPT !.current = u])
<1> DEFINE t == [r EXCEPT !.current = u]
<1>1. r \in Record /\ t \in Record /\ t.current = u /\ t.previous = r.previous
  BY DEF RecordOK, Record
<1> HIDE DEF t
<1>2. RecordOK(t)
  BY <1>1 DEF RecordOK
<1>3. \A i \in 1 .. Len(r.previous) : r.previous[i] \in Sessions(r) /\ r.previous[i].base # u.base
  BY <1>1, SessionsOf DEF RecordOK
<1>4. \A s \in Sessions(t) : s = u \/ (s \in Sessions(r) /\ s.base # u.base)
  BY <1>1, <1>3, SessionsOf
<1> QED BY <1>1, <1>2, <1>4 DEF Evolves, t

\* One change after another of the same session.
LEMMA EvolvesOn ==
    ASSUME NEW r, RecordOK(r), NEW u, NEW t, Evolves(r, u, t),
           NEW v, v.base = u.base, NEW w, Evolves(t, v, w)
    PROVE  Evolves(r, v, w)
<1>1. ASSUME NEW s \in Sessions(w), s # v
      PROVE  \E x \in Sessions(r) : /\ x.base # v.base
                                    /\ s = x \/ s = ClearUnacknowledgedPreKeyMessage(x)
  <2>1. PICK y \in Sessions(t) :
            y.base # v.base /\ (s = y \/ s = ClearUnacknowledgedPreKeyMessage(y))
    BY <1>1 DEF Evolves
  <2>2. y # u
    BY <2>1
  <2>3. PICK x \in Sessions(r) :
            x.base # u.base /\ (y = x \/ y = ClearUnacknowledgedPreKeyMessage(x))
    BY <2>2 DEF Evolves
  <2>4. x \in Session
    BY SessionsOf DEF RecordOK
  <2>5. ClearUnacknowledgedPreKeyMessage(ClearUnacknowledgedPreKeyMessage(x))
            = ClearUnacknowledgedPreKeyMessage(x)
    BY <2>4, Zenon DEF ClearUnacknowledgedPreKeyMessage, Session
  <2> QED BY <2>1, <2>3, <2>5
<1> QED BY <1>1 DEF Evolves

\* The first archived session with a base key is the only one.
LEMMA SelectBase ==
    ASSUME NEW p \in Seq(Session), Distinct(p), NEW b
    PROVE  LET I == {i \in 1 .. Len(p) : p[i].base = b}
           IN  I = {} \/ (Min(I) \in 1 .. Len(p) /\ p[Min(I)].base = b)
<1> DEFINE I == {i \in 1 .. Len(p) : p[i].base = b}
<1>1. CASE I # {}
  <2>1. PICK k \in 1 .. Len(p) : p[k].base = b
    BY <1>1
  <2>2. I = {k}
    BY <2>1 DEF Distinct
  <2>3. Min({k}) = k
    BY DEF Min
  <2> QED BY <2>1, <2>2, <2>3, Zenon
<1> QED BY <1>1

-----------------------------------------------------------------------------
(* Decryption                                                              *)

LEMMA DecryptedSession ==
    ASSUME NEW s \in Session, NEW m, m.counter \in Nat
    PROVE  LET d == Decrypted(s, m)
           IN  /\ d \in Session /\ d.base = s.base /\ d.remote = s.remote
               /\ d.pending = NotPending /\ d.sent = s.sent
               /\ d.received = s.received \cup {m.counter}
<1> DEFINE e == [s EXCEPT !.received = @ \cup {m.counter}]
<1>1. /\ e \in Session /\ e.base = s.base /\ e.remote = s.remote /\ e.sent = s.sent
      /\ e.received = s.received \cup {m.counter}
  BY DEF Session
<1>2. Decrypted(s, m) = ClearUnacknowledgedPreKeyMessage(e)
  BY DEF Decrypted
<1> HIDE DEF e
<1> QED BY <1>1, <1>2, ClearedSession

LEMMA TryDecryptOk ==
    ASSUME NEW s, NEW m
    PROVE  /\ TryDecryptWithState(s, m) = "Ok" <=> s.base = m.base /\ m.counter \notin s.received
           /\ TryDecryptWithState(s, m) # "InvalidMessage" <=> s.base = m.base
BY DEF TryDecryptWithState

\* What a successful try_decrypt_from_record did.
LEMMA TryDecryptGives ==
    ASSUME NEW r, RecordOK(r), NEW m, m.counter \in Nat,
           TryDecryptFromRecord(r, m).result = "Ok"
    PROVE  \E u \in Sessions(r) :
               /\ u.base = m.base /\ m.counter \notin u.received
               /\ Evolves(r, Decrypted(u, m), TryDecryptFromRecord(r, m).record)
               /\ m.pre_key # NoPreKey => u = r.current
<1> DEFINE p == r.previous
           current == IF r.current = NoSession THEN "InvalidMessage"
                      ELSE TryDecryptWithState(r.current, m)
           I == {i \in 1 .. Len(p) : p[i].base = m.base}
           k == IF I = {} THEN 0 ELSE Min(I)
<1>1. r \in Record /\ p \in Seq(Session) /\ Distinct(p)
  BY DEF RecordOK, Record
<1>2. FirstIndex(p, LAMBDA s : TryDecryptWithState(s, m) # "InvalidMessage") = k
  <2>1. I = {i \in 1 .. Len(p) : TryDecryptWithState(p[i], m) # "InvalidMessage"}
    BY TryDecryptOk
  <2> HIDE DEF I
  <2> QED BY <2>1 DEF FirstIndex
<1>3. CASE current # "InvalidMessage"
  <2>1. r.current # NoSession /\ current = TryDecryptWithState(r.current, m)
    BY <1>3
  <2>2. TryDecryptFromRecord(r, m) =
            [result |-> current, record |-> [r EXCEPT !.current = Decrypted(r.current, m)]]
    BY <1>3 DEF TryDecryptFromRecord
  <2> HIDE DEF current
  <2>3. r.current.base = m.base /\ m.counter \notin r.current.received
    BY <2>1, <2>2, TryDecryptOk
  <2>4. r.current \in Sessions(r) /\ r.current \in Session
    BY <1>1, <2>1, SessionsOf
  <2>5. Evolves(r, Decrypted(r.current, m), [r EXCEPT !.current = Decrypted(r.current, m)])
    BY <2>1, <2>4, DecryptedSession, CurrentEvolves
  <2>6. TryDecryptFromRecord(r, m).record = [r EXCEPT !.current = Decrypted(r.current, m)]
    BY <2>2
  <2> QED BY <2>3, <2>4, <2>5, <2>6
<1>4. CASE current = "InvalidMessage"
  <2>1. ~ (m.pre_key # NoPreKey \/ k = 0)
    <3> SUFFICES ASSUME m.pre_key # NoPreKey \/ k = 0 PROVE FALSE
      OBVIOUS
    <3> HIDE DEF k
    <3>1. TryDecryptFromRecord(r, m) = [result |-> "InvalidMessage", record |-> r]
      BY <1>2, <1>4 DEF TryDecryptFromRecord
    <3> QED BY <3>1
  <2>2. k \in 1 .. Len(p) /\ p[k].base = m.base
    <3>1. I # {} /\ k = Min(I)
      BY <2>1
    <3> QED BY <1>1, <3>1, SelectBase, Zenon
  <2> HIDE DEF k
  <2>3. TryDecryptFromRecord(r, m) =
            [result |-> TryDecryptWithState(p[k], m),
             record |-> PromoteOldSession(r, k, Decrypted(p[k], m))]
    BY <1>2, <1>4, <2>1 DEF TryDecryptFromRecord
  <2>4. m.counter \notin p[k].received
    BY <2>3, TryDecryptOk
  <2>5. p[k] \in Sessions(r) /\ p[k] \in Session
    BY <1>1, <2>2, SessionsOf
  <2>6. Evolves(r, Decrypted(p[k], m), PromoteOldSession(r, k, Decrypted(p[k], m)))
    BY <2>2, <2>5, DecryptedSession, PromoteOldEvolves
  <2> QED BY <2>1, <2>2, <2>3, <2>4, <2>5, <2>6
<1> QED BY <1>3, <1>4

\* Both results are records with these two fields.
LEMMA TryDecryptShape ==
    ASSUME NEW r, NEW m
    PROVE  LET d == TryDecryptFromRecord(r, m)
           IN  d = [result |-> d.result, record |-> d.record]
<1> DEFINE i == FirstIndex(r.previous, LAMBDA s : TryDecryptWithState(s, m) # "InvalidMessage")
<1> HIDE DEF i
<1> QED BY DEF TryDecryptFromRecord, i

LEMMA DecryptSignalGives ==
    ASSUME NEW p, RecordOK(store[p].record), NEW m, m.counter \in Nat,
           DecryptSignal(p, m).result = "Ok"
    PROVE  \E u \in Sessions(store[p].record) :
               /\ u.base = m.base /\ m.counter \notin u.received
               /\ Evolves(store[p].record, Decrypted(u, m), DecryptSignal(p, m).record)
<1> DEFINE d == TryDecryptFromRecord(store[p].record, m)
<1>1. d = [result |-> d.result, record |-> d.record]
  BY TryDecryptShape
<1>2. DecryptSignal(p, m) = d /\ d.result = "Ok"
  <2> HIDE DEF d
  <2>1. CASE d.result = "Ok" /\ ~ IsTrustedIdentity(store[p], d.record.current.remote)
    <3>1. DecryptSignal(p, m) = [d EXCEPT !.result = "UntrustedIdentity"]
      BY <2>1 DEF DecryptSignal, d
    <3>2. [d EXCEPT !.result = "UntrustedIdentity"].result = "UntrustedIdentity"
      BY <1>1
    <3> QED BY <3>1, <3>2
  <2>2. CASE ~ (d.result = "Ok" /\ ~ IsTrustedIdentity(store[p], d.record.current.remote))
    BY <2>2, Zenon DEF DecryptSignal, d
  <2> QED BY <2>1, <2>2
<1> QED BY <1>2, TryDecryptGives

LEMMA FindPreviousFinds ==
    ASSUME NEW r, RecordOK(r), NEW b
    PROVE  LET i == FindPrevious(r, b)
           IN  \/ i = 0 /\ \A j \in 1 .. Len(r.previous) : r.previous[j].base # b
               \/ i \in 1 .. Len(r.previous) /\ r.previous[i].base = b
<1> DEFINE p == r.previous
           I == {i \in 1 .. Len(p) : p[i].base = b}
<1>1. p \in Seq(Session) /\ Distinct(p)
  BY DEF RecordOK, Record
<1>2. FindPrevious(r, b) = IF I = {} THEN 0 ELSE Min(I)
  BY DEF FindPrevious, FirstIndex
<1>3. CASE I = {}
  BY <1>2, <1>3
<1>4. CASE I # {}
  <2>1. FindPrevious(r, b) = Min(I)
    BY <1>2, <1>4
  <2>2. Min(I) \in 1 .. Len(p) /\ p[Min(I)].base = b
    BY <1>1, <1>4, SelectBase, Zenon
  <2> QED BY <2>1, <2>2, Zenon
<1> QED BY <1>3, <1>4

LEMMA HasSessionIff ==
    ASSUME NEW r, RecordOK(r), NEW b
    PROVE  HasSession(r, b) <=> \E s \in Sessions(r) : s.base = b
<1>1. r \in Record
  BY DEF RecordOK
<1>2. FindPrevious(r, b) # 0 <=> \E j \in 1 .. Len(r.previous) : r.previous[j].base = b
  BY FindPreviousFinds
<1> QED BY <1>1, <1>2, SessionsOf DEF HasSession, IsCurrent

LEMMA PromoteMatchingEvolves ==
    ASSUME NEW r, RecordOK(r), NEW b, HasSession(r, b)
    PROVE  \E u \in Sessions(r) : u.base = b /\ Evolves(r, u, PromoteMatchingSession(r, b))
<1>1. r \in Record
  BY DEF RecordOK
<1>2. CASE IsCurrent(r, b)
  <2>1. r.current \in Sessions(r) /\ r.current \in Session /\ r.current.base = b
        /\ r.current # NoSession
    BY <1>1, <1>2, SessionsOf DEF IsCurrent
  <2>2. PromoteMatchingSession(r, b) = r
    BY <1>2 DEF PromoteMatchingSession
  <2>3. [r EXCEPT !.current = r.current] = r
    BY <1>1 DEF Record
  <2> QED BY <2>1, <2>2, <2>3, CurrentEvolves
<1>3. CASE ~ IsCurrent(r, b)
  <2> DEFINE i == FindPrevious(r, b)
  <2>1. i \in 1 .. Len(r.previous) /\ r.previous[i].base = b
    BY <1>3, FindPreviousFinds DEF HasSession
  <2> HIDE DEF i
  <2>2. i # 0
    BY <2>1
  <2>3. PromoteMatchingSession(r, b) = PromoteOldSession(r, i, r.previous[i])
    BY <1>3, <2>2 DEF PromoteMatchingSession, i
  <2>4. r.previous[i] \in Sessions(r) /\ r.previous[i] \in Session
    BY <1>1, <2>1, SessionsOf
  <2> QED BY <2>1, <2>3, <2>4, PromoteOldEvolves
<1> QED BY <1>2, <1>3

LEMMA NewSessionFields ==
    ASSUME NEW b \in Nat, NEW remote \in Nat, NEW pending \in PreKeyItems \cup {NotPending}
    PROVE  LET s == NewSession(b, remote, pending)
           IN  /\ s \in Session /\ s.base = b /\ s.remote = remote /\ s.pending = pending
               /\ s.sent = 0 /\ s.received = {}
BY DEF NewSession, Session

LEMMA DecryptPreKeyGives ==
    ASSUME NEW p, RecordOK(store[p].record), NEW m, m.counter \in Nat, m.base \in Nat,
           m.identity \in Nat, m.pre_key # NoPreKey, DecryptPreKey(p, m).result = "Ok"
    PROVE  LET r == store[p].record
               t == DecryptPreKey(p, m).record
               n == NewSession(m.base, m.identity, NotPending)
           IN  \/ \E u \in Sessions(r) :
                      /\ HasSession(r, m.base)
                      /\ u.base = m.base /\ m.counter \notin u.received
                      /\ Evolves(r, Decrypted(u, m), t)
               \/ /\ ~ HasSession(r, m.base) /\ m.to = identity[p]
                  /\ Evolves(r, Decrypted(n, m), t)
<1> DEFINE r == store[p].record
           t == DecryptPreKey(p, m).record
           n == NewSession(m.base, m.identity, NotPending)
           q == ProcessPreKey(p, m)
<1>1. q = [result |-> q.result, record |-> q.record]
  BY Zenon DEF ProcessPreKey
<1>2. /\ q.result = "Ok" /\ m.to = identity[p]
      /\ DecryptPreKey(p, m) = TryDecryptFromRecord(q.record, m)
  <2> HIDE DEF q
  <2>1. CASE q.result # "Ok"
    BY <2>1 DEF DecryptPreKey, q
  <2>2. CASE q.result = "Ok" /\ m.to # identity[p]
    <3>1. DecryptPreKey(p, m) = [q EXCEPT !.result = "InvalidMessage"]
      BY <2>2 DEF DecryptPreKey, q
    <3>2. [q EXCEPT !.result = "InvalidMessage"].result = "InvalidMessage"
      BY <1>1
    <3> QED BY <3>1, <3>2
  <2>3. CASE q.result = "Ok" /\ m.to = identity[p]
    BY <2>3 DEF DecryptPreKey, q
  <2> QED BY <2>1, <2>2, <2>3
<1>3. IsTrustedIdentity(store[p], m.identity)
  <2> SUFFICES ASSUME ~ IsTrustedIdentity(store[p], m.identity) PROVE FALSE
    OBVIOUS
  <2>1. q = [result |-> "UntrustedIdentity", record |-> r]
    BY Zenon DEF ProcessPreKey
  <2> HIDE DEF q
  <2> QED BY <1>2, <2>1
<1>4. CASE HasSession(r, m.base)
  <2>1. q.record = PromoteMatchingSession(r, m.base)
    BY <1>3, <1>4 DEF ProcessPreKey
  <2>2. PICK u \in Sessions(r) : u.base = m.base /\ Evolves(r, u, q.record)
    BY <1>4, <2>1, PromoteMatchingEvolves
  <2> HIDE DEF q
  <2>3. RecordOK(q.record) /\ q.record.current = u /\ u \in Session
    BY <2>2, SessionsOf, Zenon DEF Evolves, RecordOK
  <2>4. m.counter \notin u.received /\ Evolves(q.record, Decrypted(u, m), t)
    BY <1>2, <2>3, TryDecryptGives
  <2>5. Evolves(r, Decrypted(u, m), t)
    BY <2>2, <2>3, <2>4, EvolvesOn, DecryptedSession
  <2> QED BY <1>4, <2>2, <2>4, <2>5
<1>5. CASE ~ HasSession(r, m.base)
  <2>1. q.record = PromoteState(r, n)
    BY <1>3, <1>5 DEF ProcessPreKey
  <2>2. n \in Session /\ n.base = m.base
    BY NewSessionFields
  <2> HIDE DEF q, n
  <2>3. Evolves(r, n, q.record)
    BY <1>5, <2>1, <2>2, HasSessionIff, PromoteEvolves
  <2>4. RecordOK(q.record) /\ q.record.current = n
    BY <2>3, Zenon DEF Evolves
  <2>5. Evolves(q.record, Decrypted(n, m), t)
    BY <1>2, <2>4, TryDecryptGives
  <2>6. Evolves(r, Decrypted(n, m), t)
    BY <2>2, <2>3, <2>5, EvolvesOn, DecryptedSession
  <2> QED BY <1>2, <1>5, <2>6 DEF n
<1> QED BY <1>4, <1>5, Zenon

-----------------------------------------------------------------------------
(* Steps of a party                                                        *)

LEMMA PeerFacts ==
    ASSUME NEW p \in Party
    PROVE  /\ Peer(p) \in Party /\ Peer(p) # p /\ Peer(Peer(p)) = p
           /\ \A q \in Party : q = p \/ q = Peer(p)
BY SessionAssumption DEF Party, Peer

\* A call of two writes.
LEMMA CallTwo ==
    ASSUME NEW p \in Party, store \in [Party -> Store], NEW w1, NEW w2, NEW n \in 0 .. 2,
           Call(p, <<w1, w2>>, n)
    PROVE  /\ store' = [store EXCEPT ![p] = store'[p]]
           /\ n = 2 => store'[p] = w2 /\ Returns(<<w1, w2>>, n)
           /\ n # 2 => store'[p] \in {store[p], w1} /\ ~ Returns(<<w1, w2>>, n)
<1>1. store' = [store EXCEPT ![p] = IF n = 0 THEN store[p] ELSE <<w1, w2>>[n]]
  BY DEF Call
<1>2. store'[p] = IF n = 0 THEN store[p] ELSE <<w1, w2>>[n]
  BY <1>1
<1>3. Len(<<w1, w2>>) = 2 /\ (n = 0 \/ n = 1 \/ n = 2)
  OBVIOUS
<1> QED BY <1>1, <1>2, <1>3 DEF Returns

\* A call of four writes.
LEMMA CallFour ==
    ASSUME NEW p \in Party, store \in [Party -> Store], NEW w1, NEW w2, NEW w3, NEW w4,
           NEW n \in 0 .. 4, Call(p, <<w1, w2, w3, w4>>, n)
    PROVE  /\ store' = [store EXCEPT ![p] = store'[p]]
           /\ n = 4 => store'[p] = w4 /\ Returns(<<w1, w2, w3, w4>>, n)
           /\ n # 4 => store'[p] \in {store[p], w1, w2, w3} /\ ~ Returns(<<w1, w2, w3, w4>>, n)
<1>1. store' = [store EXCEPT ![p] = IF n = 0 THEN store[p] ELSE <<w1, w2, w3, w4>>[n]]
  BY DEF Call
<1>2. store'[p] = IF n = 0 THEN store[p] ELSE <<w1, w2, w3, w4>>[n]
  BY <1>1
<1>3. Len(<<w1, w2, w3, w4>>) = 4 /\ (n = 0 \/ n = 1 \/ n = 2 \/ n = 3 \/ n = 4)
  OBVIOUS
<1> QED BY <1>1, <1>2, <1>3 DEF Returns

\* Base keys are seen for good, and one-time pre-keys gone for good.
Later(s, w) ==
    /\ w \in Store /\ RecordOK(w.record)
    /\ s.base_keys_seen \subseteq w.base_keys_seen /\ w.pre_keys \subseteq s.pre_keys

\* p changes its store.
StepOf(p) ==
    /\ store' = [store EXCEPT ![p] = store'[p]] /\ Later(store[p], store'[p])
    /\ identity' = identity
    /\ started' \in Nat /\ started <= started'
    /\ sent \subseteq sent' /\ \A m \in sent' : m \in sent \/ m.from = p
    /\ delivered' = [delivered EXCEPT ![p] = delivered'[p]]

LEMMA StoreTypes ==
    ASSUME TypeOK
    PROVE  \A p \in Party :
               /\ store[p] \in Store /\ RecordOK(store[p].record) /\ store[p].record \in Record
               /\ identity[p] \in Nat /\ delivered[p] \in Seq(sent)
               /\ Sessions(store[p].record) \subseteq Session
<1> SUFFICES ASSUME NEW p \in Party
             PROVE  /\ store[p] \in Store /\ RecordOK(store[p].record) /\ store[p].record \in Record
                    /\ identity[p] \in Nat /\ delivered[p] \in Seq(sent)
                    /\ Sessions(store[p].record) \subseteq Session
  OBVIOUS
<1>1. store[p] \in Store /\ RecordOK(store[p].record) /\ identity[p] \in Nat
      /\ delivered[p] \in Seq(sent)
  BY DEF TypeOK
<1>2. store[p].record \in Record
  BY <1>1 DEF RecordOK
<1> QED BY <1>1, <1>2, SessionsOf

\* What a step of p has to establish: the rest stays.
LEMMA StepFits ==
    ASSUME TypeOK, NEW o \in [Nat -> Origin], Fits(o), NEW p \in Party, StepOf(p),
           \A b \in 1 .. started', q \in Party : o[b].ids[q] <= identity[q],
           \A s \in Sessions(store'[p].record) : SessionFits(o, p, s)',
           \A m \in sent' : m \notin sent => MessageFits(o, m)',
           DeliveriesFit(o, p)'
    PROVE  Fits(o)'
<1> DEFINE q == Peer(p)
<1>1. q \in Party /\ q # p /\ \A x \in Party : x = p \/ x = q
  BY PeerFacts, Zenon
<1>2. /\ store'[q] = store[q] /\ delivered'[q] = delivered[q] /\ identity' = identity
      /\ store[p].base_keys_seen \subseteq store'[p].base_keys_seen
  BY <1>1, Zenon DEF TypeOK, StepOf, Later
<1> HIDE DEF q
<1>3. \A x \in Party, b \in Nat : Used(o, x, b) => Used(o, x, b)'
  BY <1>1, <1>2 DEF Used
<1>4. \A b \in 1 .. started : b \in 1 .. started' /\ b \in Nat
  BY DEF TypeOK, StepOf
<1>5. \A m \in sent : MessageFits(o, m)'
  <2> TAKE m \in sent
  <2>1. MessageFits(o, m)
    BY Zenon DEF Fits
  <2> QED BY <1>3, <1>4, <2>1, Zenon DEF MessageFits
<1>6. \A m \in sent' : MessageFits(o, m)'
  BY <1>5
<1>7. Got(q)' = Got(q)
  BY <1>2 DEF Got
<1>8. \A s \in Sessions(store[q].record) : SessionFits(o, q, s)'
  <2> TAKE s \in Sessions(store[q].record)
  <2>1. SessionFits(o, q, s)
    BY <1>1, Zenon DEF Fits
  <2>2. \A m \in sent' : m.from = q => m \in sent
    BY <1>1 DEF StepOf
  <2> QED BY <1>2, <1>4, <1>7, <2>1, <2>2, Zenon DEF SessionFits
<1>9. \A x \in Party : \A s \in Sessions(store'[x].record) : SessionFits(o, x, s)'
  BY <1>1, <1>2, <1>8
<1>10. DeliveriesFit(o, q)'
  <2>1. DeliveriesFit(o, q)
    BY <1>1 DEF Fits
  <2>2. \A m \in Got(q) : m \in sent /\ m.base \in Nat
    <3> TAKE m \in Got(q)
    <3>1. m \in sent
      BY <2>1 DEF DeliveriesFit, Incoming
    <3>2. MessageFits(o, m)
      BY <3>1 DEF Fits
    <3> QED BY <1>4, <3>1, <3>2, Zenon DEF MessageFits
  <2> QED BY <1>1, <1>3, <1>7, <2>1, <2>2, Zenon DEF DeliveriesFit, Incoming, StepOf
<1>11. \A x \in Party : DeliveriesFit(o, x)'
  BY <1>1, <1>10
<1> QED BY <1>2, <1>6, <1>9, <1>11, Zenon DEF Fits

\* A session the step is not about fits as before, acknowledged or not.
LEMMA OldSessionFits ==
    ASSUME TypeOK, NEW o \in [Nat -> Origin], Fits(o), NEW p \in Party, StepOf(p),
           NEW x \in Sessions(store[p].record), NEW s,
           s = x \/ s = ClearUnacknowledgedPreKeyMessage(x),
           \A m \in sent' : m \in sent \/ m.base # x.base,
           \A m \in Got(p)' : m \in Got(p) \/ m.base # x.base
    PROVE  SessionFits(o, p, s)'
<1>1. x \in Session /\ SessionFits(o, p, x)
  BY StoreTypes DEF Fits
<1>2. /\ s.base = x.base /\ s.remote = x.remote /\ s.sent = x.sent /\ s.received = x.received
      /\ s.pending \in {x.pending, NotPending}
  BY <1>1, ClearedSession
<1>3. \A b \in 1 .. started : b \in 1 .. started'
  BY DEF TypeOK, StepOf
<1>4. identity' = identity
      /\ store[p].base_keys_seen \subseteq store'[p].base_keys_seen
      /\ store'[p].pre_keys \subseteq store[p].pre_keys
  BY Zenon DEF StepOf, Later
<1> QED BY <1>1, <1>2, <1>3, <1>4, Zenon DEF SessionFits

\* A step that sends and delivers nothing and makes no session.
LEMMA QuietFits ==
    ASSUME TypeOK, NEW o \in [Nat -> Origin], Fits(o), NEW p \in Party, StepOf(p),
           UNCHANGED <<sent, delivered>>,
           \A b \in 1 .. started', q \in Party : o[b].ids[q] <= identity[q],
           Keeps(store[p].record, store'[p].record)
    PROVE  Fits(o)'
<1>1. Got(p)' = Got(p)
  BY DEF Got
<1>2. \A s \in Sessions(store'[p].record) : SessionFits(o, p, s)'
  BY <1>1, OldSessionFits, Zenon DEF Keeps
<1>3. DeliveriesFit(o, p)'
  <2>1. DeliveriesFit(o, p)
    BY DEF Fits
  <2>2. \A b : Used(o, p, b) => Used(o, p, b)'
    BY DEF Used, StepOf, Later
  <2> QED BY <1>1, <2>1, <2>2 DEF DeliveriesFit, Incoming
<1> QED BY <1>2, <1>3, StepFits

-----------------------------------------------------------------------------
(* The writes                                                              *)

LEMMA SaveIdentityLater ==
    ASSUME NEW s \in Store, RecordOK(s.record), NEW key \in Nat
    PROVE  LET w == SaveIdentity(s, key)
           IN  /\ Later(s, w) /\ w.record = s.record
               /\ w.base_keys_seen = s.base_keys_seen /\ w.pre_keys = s.pre_keys
BY DEF SaveIdentity, Store, Later

LEMMA MarkLater ==
    ASSUME NEW s \in Store, RecordOK(s.record), NEW b \in Nat
    PROVE  LET w == MarkKyberPreKeyUsed(s, b)
           IN  /\ Later(s, w) /\ w.record = s.record
               /\ w.base_keys_seen = s.base_keys_seen \cup {b} /\ w.pre_keys = s.pre_keys
BY DEF MarkKyberPreKeyUsed, Store, Later

LEMMA RemoveLater ==
    ASSUME NEW s \in Store, RecordOK(s.record), NEW id
    PROVE  LET w == RemovePreKey(s, id)
           IN  /\ Later(s, w) /\ w.record = s.record
               /\ w.base_keys_seen = s.base_keys_seen /\ w.pre_keys = s.pre_keys \ {id}
BY DEF RemovePreKey, Store, Later

LEMMA StoreSessionLater ==
    ASSUME NEW s \in Store, NEW r, RecordOK(r)
    PROVE  LET w == StoreSession(s, r)
           IN  /\ Later(s, w) /\ w.record = r
               /\ w.base_keys_seen = s.base_keys_seen /\ w.pre_keys = s.pre_keys
<1>1. r \in Record
  BY DEF RecordOK
<1> QED BY <1>1 DEF StoreSession, Store, Later

\* The two writes that end most calls.
LEMMA TwoWrites ==
    ASSUME NEW s \in Store, RecordOK(s.record), NEW key \in Nat, NEW r, RecordOK(r)
    PROVE  \E w1, w2 :
               /\ SaveIdentityThenSession(s, key, r) = <<w1, w2>>
               /\ Later(s, w1) /\ w1.record = s.record
               /\ Later(s, w2) /\ w2.record = r
               /\ w2.base_keys_seen = s.base_keys_seen /\ w2.pre_keys = s.pre_keys
<1> DEFINE w1 == SaveIdentity(s, key)
           w2 == StoreSession(w1, r)
<1>1. /\ Later(s, w1) /\ w1.record = s.record /\ w1 \in Store
      /\ w1.base_keys_seen = s.base_keys_seen /\ w1.pre_keys = s.pre_keys
  BY SaveIdentityLater DEF Later
<1>2. SaveIdentityThenSession(s, key, r) = <<w1, w2>>
  BY DEF SaveIdentityThenSession
<1> HIDE DEF w1
<1>3. /\ Later(w1, w2) /\ w2.record = r
      /\ w2.base_keys_seen = w1.base_keys_seen /\ w2.pre_keys = w1.pre_keys
  BY <1>1, StoreSessionLater
<1> HIDE DEF w2
<1>4. Later(s, w2)
  BY <1>1, <1>3 DEF Later
<1> QED BY <1>1, <1>2, <1>3, <1>4

\* The four writes of a call that makes a session.
WritesOf(s, key, b, id, r, w1, w2, w3, w4) ==
    /\ w1 = SaveIdentity(s, key) /\ w2 = MarkKyberPreKeyUsed(w1, b)
    /\ w3 = RemovePreKey(w2, id) /\ w4 = StoreSession(w3, r)

LEMMA FourWrites ==
    ASSUME NEW s \in Store, RecordOK(s.record), NEW key \in Nat, NEW b \in Nat, NEW id,
           NEW r, RecordOK(r), NEW w1, NEW w2, NEW w3, NEW w4,
           WritesOf(s, key, b, id, r, w1, w2, w3, w4)
    PROVE  /\ Later(s, w1) /\ w1.record = s.record
           /\ Later(s, w2) /\ w2.record = s.record
           /\ Later(s, w3) /\ w3.record = s.record
           /\ Later(s, w4) /\ w4.record = r
           /\ b \in w4.base_keys_seen /\ id \notin w4.pre_keys
<1>1. /\ Later(s, w1) /\ w1.record = s.record
      /\ w1.base_keys_seen = s.base_keys_seen /\ w1.pre_keys = s.pre_keys
  BY SaveIdentityLater DEF WritesOf
<1>2. w1 \in Store
  BY <1>1 DEF Later
<1>3. /\ Later(w1, w2) /\ w2.record = w1.record
      /\ w2.base_keys_seen = w1.base_keys_seen \cup {b} /\ w2.pre_keys = w1.pre_keys
  BY <1>1, <1>2, MarkLater DEF WritesOf
<1>4. w2 \in Store
  BY <1>3, Zenon DEF Later
<1>5. /\ Later(w2, w3) /\ w3.record = w2.record
      /\ w3.base_keys_seen = w2.base_keys_seen /\ w3.pre_keys = w2.pre_keys \ {id}
  BY <1>1, <1>3, <1>4, RemoveLater DEF WritesOf
<1>6. w3 \in Store
  BY <1>5, Zenon DEF Later
<1>7. /\ Later(w3, w4) /\ w4.record = r
      /\ w4.base_keys_seen = w3.base_keys_seen /\ w4.pre_keys = w3.pre_keys
  BY <1>6, StoreSessionLater DEF WritesOf
<1>8. Later(s, w2) /\ Later(s, w3) /\ Later(s, w4)
  BY <1>1, <1>3, <1>5, <1>7, Zenon DEF Later
<1>9. /\ w2.record = s.record /\ w3.record = s.record
      /\ b \in w4.base_keys_seen /\ id \notin w4.pre_keys
  BY <1>1, <1>3, <1>5, <1>7
<1> QED BY <1>1, <1>7, <1>8, <1>9, Zenon

-----------------------------------------------------------------------------
(* Steps                                                                   *)

LEMMA SeqOfMore ==
    ASSUME NEW S, NEW T, S \subseteq T, NEW q \in Seq(S)
    PROVE  q \in Seq(T)
OBVIOUS

LEMMA TypeStep ==
    ASSUME TypeOK, NEW p \in Party, StepOf(p), bundles' \in [Party -> SUBSET PreKeyIds],
           now' \in Nat, delivered'[p] \in Seq(sent')
    PROVE  TypeOK'
<1>1. store' \in [Party -> Store] /\ \A q \in Party : RecordOK(store'[q].record)
  BY Zenon DEF TypeOK, StepOf, Later
<1>2. \A q \in Party : delivered'[q] \in Seq(sent')
  <2> TAKE q \in Party
  <2>1. CASE q # p
    <3>1. delivered'[q] = delivered[q] /\ delivered[q] \in Seq(sent) /\ sent \subseteq sent'
      BY <2>1 DEF TypeOK, StepOf
    <3> QED BY <3>1, SeqOfMore
  <2> QED BY <2>1
<1>3. delivered' \in [Party -> Seq(sent')]
  BY <1>2 DEF TypeOK, StepOf
<1> QED BY <1>1, <1>3 DEF TypeOK, StepOf

LEMMA KeepsItself == \A r : Keeps(r, r)
BY DEF Keeps

LEMMA ItselfLater == ASSUME IInv, NEW p \in Party PROVE Later(store[p], store[p])
<1>1. store[p] \in Store /\ RecordOK(store[p].record)
  BY StoreTypes DEF IInv
<1> QED BY <1>1 DEF Later

LEMMA EmptyStoreOK ==
    LET e == EmptyStore(PreKeyIds)
    IN  /\ e \in Store /\ RecordOK(e.record) /\ Sessions(e.record) = {}
        /\ e.pre_keys = PreKeyIds /\ e.base_keys_seen = {}
<1> DEFINE e == EmptyStore(PreKeyIds)
<1>1. << >> \in Seq(Session) /\ Len(<< >>) = 0
  OBVIOUS
<1>2. NewFresh \in Record /\ NewFresh.current = NoSession /\ NewFresh.previous = << >>
  BY <1>1 DEF NewFresh, Record
<1>3. RecordOK(NewFresh)
  BY <1>1, <1>2 DEF RecordOK, Distinct
<1>4. Sessions(NewFresh) = {}
  BY <1>1, <1>2, SessionsOf
<1>5. e = [record |-> NewFresh, identity |-> NoKey, pre_keys |-> PreKeyIds, base_keys_seen |-> {}]
  BY DEF EmptyStore
<1>6. e \in Store /\ e.record = NewFresh /\ e.pre_keys = PreKeyIds /\ e.base_keys_seen = {}
  BY <1>2, <1>5 DEF Store
<1> QED BY <1>3, <1>4, <1>6

\* The origin of a base key that is not in use yet is open.
LEMMA Reorigin ==
    ASSUME TypeOK, NEW o \in [Nat -> Origin], Fits(o), NEW v \in Origin
    PROVE  LET n == [o EXCEPT ![started + 1] = v]
           IN  n \in [Nat -> Origin] /\ n[started + 1] = v /\ Fits(n)
<1> DEFINE n == [o EXCEPT ![started + 1] = v]
<1>1. started \in Nat /\ started + 1 \in Nat
  BY DEF TypeOK
<1>2. /\ n \in [Nat -> Origin] /\ n[started + 1] = v
      /\ \A b \in 1 .. started : n[b] = o[b]
  BY <1>1
<1> HIDE DEF n
<1>3. \A b \in 1 .. started, p \in Party : Used(o, p, b) => Used(n, p, b)
  BY <1>2 DEF Used
<1>4. \A p \in Party : \A s \in Sessions(store[p].record) : SessionFits(n, p, s)
  <2> TAKE p \in Party
  <2> TAKE s \in Sessions(store[p].record)
  <2>1. SessionFits(o, p, s)
    BY DEF Fits
  <2> QED BY <1>2, <2>1, Zenon DEF SessionFits
<1>5. \A m \in sent : MessageFits(o, m) /\ MessageFits(n, m)
  <2> TAKE m \in sent
  <2>1. MessageFits(o, m)
    BY DEF Fits
  <2> QED BY <1>2, <1>3, <2>1, Zenon DEF MessageFits
<1>6. \A p \in Party : DeliveriesFit(n, p)
  <2> TAKE p \in Party
  <2>1. DeliveriesFit(o, p)
    BY DEF Fits
  <2>2. \A m \in Got(p) : m.base \in 1 .. started
    BY <1>5, <2>1, Zenon DEF DeliveriesFit, Incoming, MessageFits
  <2> QED BY <1>3, <2>1, <2>2 DEF DeliveriesFit
<1>7. \A b \in 1 .. started, p \in Party : n[b].ids[p] <= identity[p]
  BY <1>2 DEF Fits
<1>8. Fits(n)
  BY <1>4, <1>5, <1>6, <1>7, Zenon DEF Fits
<1> QED BY <1>2, <1>8 DEF n

-----------------------------------------------------------------------------
(* A message that is sent, and one that is received                        *)

\* The message p sends with its session state, which becomes u.
Sends(p, state, u, message) ==
    /\ u \in Session /\ state \in Session
    /\ u.base = state.base /\ u.remote = state.remote /\ u.pending = state.pending
    /\ u.sent = state.sent + 1 /\ u.received = state.received
    /\ message.from = p /\ message.identity = identity[p] /\ message.to = state.remote
    /\ message.base = state.base /\ message.counter = state.sent
    /\ message.pre_key = Wrap(state)

\* The session whose counter was used fits with the message that used it.
LEMMA SenderFits ==
    ASSUME TypeOK, NEW o \in [Nat -> Origin], Fits(o), NEW p \in Party, StepOf(p),
           NEW state, SessionFits(o, p, state), NEW u, NEW message, Sends(p, state, u, message),
           sent' = sent \cup {message}, UNCHANGED <<delivered, started>>
    PROVE  SessionFits(o, p, u)'
<1>1. /\ u.base = state.base /\ u.remote = state.remote /\ u.pending = state.pending
      /\ u.sent = state.sent + 1 /\ u.received = state.received /\ state.sent \in Nat
      /\ message.counter = state.sent
  BY DEF Sends, Session
<1>2. identity' = identity /\ Later(store[p], store'[p])
  BY DEF StepOf
<1>3. /\ u.base \in 1 .. started' /\ o[u.base].ids[p] = identity'[p]
      /\ o[u.base].ids[Peer(p)] = u.remote
      /\ u.pending # NotPending => o[u.base].owner = p /\ u.pending.pre_key_id = o[u.base].key
  BY <1>1, <1>2, Zenon DEF SessionFits
<1>4. o[u.base].owner # p =>
          u.base \in store'[p].base_keys_seen /\ o[u.base].key \notin store'[p].pre_keys
  BY <1>1, <1>2, Zenon DEF SessionFits, Later
<1>5. ASSUME NEW m \in sent', m.from = p, m.base = u.base PROVE m.counter < u.sent
  <2>1. CASE m = message
    BY <1>1, <2>1
  <2>2. CASE m \in sent
    <3>1. m.counter \in Nat
      BY <2>2, Zenon DEF Fits, MessageFits
    <3>2. m.counter < state.sent
      BY <1>1, <1>5, <2>2, Zenon DEF SessionFits
    <3> QED BY <1>1, <3>1, <3>2
  <2> QED BY <2>1, <2>2
<1>6. \A m \in Got(p)' : m.base = u.base => m.counter \in u.received
  BY <1>1, Zenon DEF SessionFits, Got
<1> QED BY <1>3, <1>4, <1>5, <1>6, Zenon DEF SessionFits

\* The message fits, and no message before it has its counter.
LEMMA SentFits ==
    ASSUME NEW o \in [Nat -> Origin], Fits(o), NEW p \in Party, StepOf(p), started' = started,
           NEW state, SessionFits(o, p, state), NEW u, NEW message, Sends(p, state, u, message)
    PROVE  /\ MessageFits(o, message)'
           /\ \A m \in sent : m.from = p /\ m.base = message.base => m.counter # message.counter
<1>1. /\ message.from = p /\ message.identity = identity[p] /\ message.to = state.remote
      /\ message.base = state.base /\ message.counter = state.sent
      /\ message.pre_key = Wrap(state) /\ state.sent \in Nat
  BY DEF Sends, Session
<1>2. /\ message.from \in Party /\ message.base \in 1 .. started' /\ message.counter \in Nat
      /\ message.identity = o[message.base].ids[message.from]
      /\ message.to = o[message.base].ids[Peer(message.from)]
  BY <1>1, Zenon DEF SessionFits
<1>3. message.pre_key # NoPreKey =>
          o[message.base].owner = message.from /\ message.pre_key.id = o[message.base].key
  <2> SUFFICES ASSUME message.pre_key # NoPreKey
               PROVE  o[message.base].owner = p /\ message.pre_key.id = o[message.base].key
    BY <1>1
  <2>1. state.pending # NotPending /\ message.pre_key = [id |-> state.pending.pre_key_id]
    BY <1>1 DEF Wrap
  <2>2. o[state.base].owner = p /\ state.pending.pre_key_id = o[state.base].key
    BY <2>1, Zenon DEF SessionFits
  <2> QED BY <1>1, <2>1, <2>2
<1>4. Used(o, p, state.base)'
  BY Zenon DEF SessionFits, Used, StepOf, Later
<1>5. MessageFits(o, message)'
  BY <1>1, <1>2, <1>3, <1>4, Zenon DEF MessageFits
<1>6. \A m \in sent : m.from = p /\ m.base = state.base => m.counter < state.sent
  BY DEF SessionFits
<1>7. \A m \in sent : m.counter \in Nat
  BY DEF Fits, MessageFits
<1> QED BY <1>1, <1>5, <1>6, <1>7

\* p may decrypt with the session u what it has not decrypted with it.
Ready(o, p, u) ==
    /\ u \in Session /\ u.base \in 1 .. started
    /\ o[u.base].ids[p] = identity[p] /\ o[u.base].ids[Peer(p)] = u.remote
    /\ o[u.base].owner # p =>
           u.base \in store'[p].base_keys_seen /\ o[u.base].key \notin store'[p].pre_keys
    /\ \A m \in sent : m.from = p /\ m.base = u.base => m.counter < u.sent
    /\ \A m \in Got(p) : m.base = u.base => m.counter \in u.received

LEMMA OldReady ==
    ASSUME TypeOK, NEW o \in [Nat -> Origin], Fits(o), NEW p \in Party,
           NEW u \in Sessions(store[p].record), Later(store[p], store'[p])
    PROVE  Ready(o, p, u)
<1>1. u \in Session /\ SessionFits(o, p, u)
  BY StoreTypes DEF Fits
<1>2. o[u.base].owner # p =>
          u.base \in store'[p].base_keys_seen /\ o[u.base].key \notin store'[p].pre_keys
  BY <1>1, Zenon DEF SessionFits, Later
<1> QED BY <1>1, <1>2, Zenon DEF SessionFits, Ready

\* A base key that was not seen has no message of the session's receiver, and no
\* message of the session was received.
LEMMA NewReady ==
    ASSUME TypeOK, NEW o \in [Nat -> Origin], Fits(o), NEW p \in Party,
           NEW m \in Incoming(p), m.pre_key # NoPreKey, m.to = identity[p],
           m.base \notin store[p].base_keys_seen, m.base \in store'[p].base_keys_seen,
           m.pre_key.id \notin store'[p].pre_keys
    PROVE  Ready(o, p, NewSession(m.base, m.identity, NotPending))
<1> DEFINE u == NewSession(m.base, m.identity, NotPending)
<1>1. /\ Peer(p) \in Party /\ Peer(p) # p /\ Peer(Peer(p)) = p
      /\ m \in sent /\ m.from = Peer(p) /\ MessageFits(o, m)
  BY PeerFacts DEF Fits, Incoming
<1>2. /\ m.base \in 1 .. started /\ o[m.base].owner = m.from /\ o[m.base].key = m.pre_key.id
      /\ o[m.base].ids[p] = identity[p] /\ o[m.base].ids[Peer(p)] = m.identity
  BY <1>1, Zenon DEF MessageFits
<1>3. started \in Nat /\ m.base \in Nat
  BY <1>2 DEF TypeOK
<1>4. m.identity \in Nat
  <2>1. o[m.base] \in Origin
    BY <1>3
  <2>2. o[m.base].ids \in [Party -> Nat]
    BY <2>1, Zenon DEF Origin
  <2> QED BY <1>1, <1>2, <2>2, Zenon
<1>5. /\ u \in Session /\ u.base = m.base /\ u.remote = m.identity /\ u.sent = 0
      /\ u.received = {}
  BY <1>3, <1>4, NewSessionFields
<1>6. ~ Used(o, p, m.base)
  BY <1>1, <1>2, Zenon DEF Used
<1>7. \A k \in sent : ~ (k.from = p /\ k.base = m.base)
  BY <1>6, Zenon DEF Fits, MessageFits
<1>8. \A k \in Got(p) : k.base # m.base
  BY <1>6 DEF Fits, DeliveriesFit
<1> HIDE DEF u
<1>9. Ready(o, p, u)
  BY <1>2, <1>5, <1>7, <1>8, Zenon DEF Ready
<1> QED BY <1>9, Zenon DEF u

LEMMA AppendOnce ==
    ASSUME NEW S, NEW q \in Seq(S), NEW m \in S, IsInjective(q),
           m \notin {q[i] : i \in 1 .. Len(q)}
    PROVE  /\ Append(q, m) \in Seq(S) /\ IsInjective(Append(q, m))
           /\ {Append(q, m)[i] : i \in 1 .. Len(Append(q, m))} =
                  {q[i] : i \in 1 .. Len(q)} \cup {m}
<1> DEFINE a == Append(q, m)
           l == Len(q) + 1
<1>1. /\ a \in Seq(S) /\ Len(a) = l /\ l \in Nat \ {0} /\ a[l] = m
      /\ \A i \in 1 .. Len(q) : a[i] = q[i]
  OBVIOUS
<1>2. DOMAIN a = 1 .. l /\ DOMAIN q = 1 .. Len(q)
  BY <1>1
<1>3. \A i \in 1 .. l : i \in 1 .. Len(q) \/ i = l
  OBVIOUS
<1>4. \A i \in 1 .. Len(q) : i \in 1 .. l
  OBVIOUS
<1> HIDE DEF a, l
<1>5. IsInjective(a)
  BY <1>1, <1>2, <1>3 DEF IsInjective
<1>6. {a[i] : i \in 1 .. l} = {q[i] : i \in 1 .. Len(q)} \cup {m}
  BY <1>1, <1>3, <1>4
<1> QED BY <1>1, <1>5, <1>6, Zenon DEF a


\* p has not received m, which it decrypts with the session u.
Receives(o, p, m, u) == Ready(o, p, u) /\ u.base = m.base /\ m.counter \notin u.received

Writes(p) == store' = [store EXCEPT ![p] = store'[p]] /\ Later(store[p], store'[p])

LEMMA DeliveredOnce ==
    ASSUME TypeOK, AtMostOnce, NEW o, NEW p \in Party, NEW m \in Incoming(p), NEW u,
           Receives(o, p, m, u), delivered' = [delivered EXCEPT ![p] = Append(@, m)]
    PROVE  /\ delivered'[p] \in Seq(sent) /\ IsInjective(delivered'[p])
           /\ Got(p)' = Got(p) \cup {m}
           /\ delivered' = [delivered EXCEPT ![p] = delivered'[p]]
<1>1. delivered'[p] = Append(delivered[p], m) /\ m \in sent
  BY DEF TypeOK, Incoming
<1>2. delivered[p] \in Seq(sent) /\ IsInjective(delivered[p])
  BY Zenon DEF TypeOK, AtMostOnce
<1>3. m \notin {delivered[p][i] : i \in 1 .. Len(delivered[p])}
  BY Zenon DEF Got, Receives, Ready
<1>4. /\ delivered'[p] \in Seq(sent) /\ IsInjective(delivered'[p])
      /\ {delivered'[p][i] : i \in 1 .. Len(delivered'[p])} =
             {delivered[p][i] : i \in 1 .. Len(delivered[p])} \cup {m}
  BY <1>1, <1>2, <1>3, AppendOnce
<1>5. Got(p)' = Got(p) \cup {m}
  BY <1>4, Zenon DEF Got
<1> QED BY <1>1, <1>4, <1>5, Zenon

\* The session that received m fits with the delivery of m.
LEMMA ReceiverFits ==
    ASSUME NEW o, Fits(o), NEW p \in Party, NEW m \in Incoming(p), NEW u, Receives(o, p, m, u),
           NEW v, v = Decrypted(u, m), Got(p)' = Got(p) \cup {m},
           UNCHANGED <<identity, sent, started>>
    PROVE  SessionFits(o, p, v)' /\ v.base = m.base
<1>1. m.counter \in Nat /\ u \in Session /\ u.base = m.base
  <2>1. MessageFits(o, m)
    BY Zenon DEF Fits, Incoming
  <2> QED BY <2>1, Zenon DEF MessageFits, Receives, Ready
<1>2. /\ v \in Session /\ v.base = u.base /\ v.remote = u.remote /\ v.pending = NotPending
      /\ v.sent = u.sent /\ v.received = u.received \cup {m.counter}
  BY <1>1, DecryptedSession
<1>3. /\ v.base \in 1 .. started' /\ o[v.base].ids[p] = identity'[p]
      /\ o[v.base].ids[Peer(p)] = v.remote
      /\ o[v.base].owner # p =>
             v.base \in store'[p].base_keys_seen /\ o[v.base].key \notin store'[p].pre_keys
      /\ \A k \in sent' : k.from = p /\ k.base = v.base => k.counter < v.sent
  BY <1>2, Zenon DEF Receives, Ready
<1>4. \A k \in Got(p)' : k.base = v.base => k.counter \in v.received
  BY <1>2, Zenon DEF Receives, Ready
<1> QED BY <1>1, <1>2, <1>3, <1>4, Zenon DEF SessionFits

-----------------------------------------------------------------------------
(* Each step keeps the invariant                                           *)

\* A step of p that changes nothing but its store and keeps its sessions.
LEMMA QuietIInv ==
    ASSUME IInv, NEW p \in Party, StepOf(p), UNCHANGED <<sent, delivered, started>>,
           bundles' \in [Party -> SUBSET PreKeyIds], now' \in Nat,
           Keeps(store[p].record, store'[p].record)
    PROVE  IInv'
<1>1. PICK o \in [Nat -> Origin] : Fits(o)
  BY DEF IInv
<1>2. TypeOK
  BY DEF IInv
<1>3. TypeOK'
  BY <1>2, StoreTypes, TypeStep
<1>4. \A b \in 1 .. started', q \in Party : o[b].ids[q] <= identity[q]
  BY <1>1 DEF Fits
<1>5. Fits(o)'
  BY <1>1, <1>2, <1>4, QuietFits, Zenon
<1>6. NoKeyReuse' /\ AtMostOnce'
  BY DEF IInv, NoKeyReuse, AtMostOnce
<1> QED BY <1>3, <1>5, <1>6, Zenon DEF IInv

LEMMA UnchangedIInv ==
    ASSUME IInv, UNCHANGED <<store, identity, sent, delivered, started>>,
           bundles' \in [Party -> SUBSET PreKeyIds], now' \in Nat
    PROVE  IInv'
<1>1. Alice \in Party /\ TypeOK
  BY DEF Party, IInv
<1>2. store[Alice] \in Store /\ RecordOK(store[Alice].record)
  BY <1>1, StoreTypes
<1>3. /\ store' = [store EXCEPT ![Alice] = store'[Alice]]
      /\ delivered' = [delivered EXCEPT ![Alice] = delivered'[Alice]]
  BY <1>1 DEF TypeOK
<1>4. StepOf(Alice)
  BY <1>1, <1>2, <1>3 DEF StepOf, Later, TypeOK
<1>5. Keeps(store[Alice].record, store'[Alice].record)
  BY KeepsItself
<1> QED BY <1>1, <1>4, <1>5, QuietIInv

LEMMA TickIInv == ASSUME IInv, Tick PROVE IInv'
<1>1. now' \in Nat /\ bundles' \in [Party -> SUBSET PreKeyIds]
  BY DEF IInv, TypeOK, Tick
<1> QED BY <1>1, UnchangedIInv DEF Tick

\* The store of p becomes w, a later one, and nothing else changes.
LEMMA WriteIInv ==
    ASSUME IInv, NEW p \in Party, store' = [store EXCEPT ![p] = store'[p]],
           Later(store[p], store'[p]), Keeps(store[p].record, store'[p].record),
           UNCHANGED <<identity, bundles, sent, delivered, now, started>>
    PROVE  IInv'
<1>1. TypeOK
  BY DEF IInv
<1>2. bundles' \in [Party -> SUBSET PreKeyIds] /\ now' \in Nat /\ started \in Nat
  BY <1>1 DEF TypeOK
<1>3. delivered' = [delivered EXCEPT ![p] = delivered'[p]]
  BY <1>1 DEF TypeOK
<1>4. StepOf(p)
  BY <1>2, <1>3 DEF StepOf
<1> QED BY <1>2, <1>4, QuietIInv

LEMMA ArchiveIInv == ASSUME IInv, NEW p \in Party, Archive(p) PROVE IInv'
<1> DEFINE r == ArchiveCurrentState(store[p].record)
           w == StoreSession(store[p], r)
<1>1. store[p] \in Store /\ RecordOK(store[p].record) /\ store \in [Party -> Store]
  BY StoreTypes DEF IInv, TypeOK
<1>2. RecordOK(r) /\ Keeps(store[p].record, r)
  BY <1>1, ArchiveKeeps
<1> HIDE DEF r
<1>3. Later(store[p], w) /\ w.record = r
  BY <1>1, <1>2, StoreSessionLater
<1>4. store' = [store EXCEPT ![p] = w]
  BY DEF Archive, Call, r
<1> HIDE DEF w
<1>5. store'[p] = w /\ store' = [store EXCEPT ![p] = store'[p]]
  BY <1>1, <1>4
<1>6. UNCHANGED <<identity, bundles, sent, delivered, now, started>>
  BY DEF Archive
<1> QED BY <1>2, <1>3, <1>5, <1>6, WriteIInv

LEMMA AcceptIdentityIInv == ASSUME IInv, NEW p \in Party, AcceptIdentity(p) PROVE IInv'
<1> DEFINE w == SaveIdentity(store[p], identity[Peer(p)])
<1>1. store[p] \in Store /\ RecordOK(store[p].record) /\ store \in [Party -> Store]
      /\ identity[Peer(p)] \in Nat
  BY StoreTypes, PeerFacts, Zenon DEF IInv, TypeOK
<1>2. Later(store[p], w) /\ w.record = store[p].record
  BY <1>1, SaveIdentityLater
<1>3. store' = [store EXCEPT ![p] = w]
  BY DEF AcceptIdentity
<1> HIDE DEF w
<1>4. store'[p] = w /\ store' = [store EXCEPT ![p] = store'[p]]
  BY <1>1, <1>3
<1>5. UNCHANGED <<identity, bundles, sent, delivered, now, started>>
  BY DEF AcceptIdentity
<1> QED BY <1>2, <1>4, <1>5, WriteIInv, KeepsItself

\* p starts again with an empty store: what it did before was with another identity.
LEMMA InitIInv == ASSUME Init PROVE IInv
<1>1. /\ store = [p \in Party |-> EmptyStore(PreKeyIds)] /\ identity = [p \in Party |-> 1]
      /\ bundles = [p \in Party |-> PreKeyIds] /\ sent = {} /\ started = 0 /\ now = 0
      /\ delivered = [p \in Party |-> << >>]
  BY DEF Init
<1>2. delivered \in [Party -> Seq(sent)]
  <2>1. << >> \in Seq(sent)
    OBVIOUS
  <2> QED BY <1>1, <2>1
<1>3. store \in [Party -> Store] /\ \A p \in Party : RecordOK(store[p].record)
  BY <1>1, EmptyStoreOK
<1>4. TypeOK
  BY <1>1, <1>2, <1>3 DEF TypeOK
<1>5. NoKeyReuse
  BY <1>1 DEF NoKeyReuse
<1>6. AtMostOnce
  BY <1>1 DEF AtMostOnce, IsInjective
<1> DEFINE o == [b \in Nat |-> [owner |-> Alice, ids |-> [p \in Party |-> 1], key |-> NoKey]]
<1>7. o \in [Nat -> Origin]
  <2>1. Alice \in Party /\ [p \in Party |-> 1] \in [Party -> Nat]
    BY DEF Party
  <2> QED BY <2>1 DEF Origin
<1> HIDE DEF o
<1>8. \A p \in Party : Sessions(store[p].record) = {} /\ Got(p) = {}
  BY <1>1, EmptyStoreOK DEF Got
<1>9. Fits(o)
  BY <1>1, <1>8 DEF Fits, DeliveriesFit
<1> QED BY <1>4, <1>5, <1>6, <1>7, <1>9, Zenon DEF IInv

LEMMA ReinstallIInv == ASSUME IInv, NEW p \in Party, Reinstall(p) PROVE IInv'
<1> DEFINE e == EmptyStore(PreKeyIds)
           q == Peer(p)
<1>1. PICK o \in [Nat -> Origin] : Fits(o)
  BY DEF IInv
<1>2. TypeOK
  BY DEF IInv
<1>3. /\ e \in Store /\ RecordOK(e.record) /\ Sessions(e.record) = {}
  BY EmptyStoreOK
<1>4. q \in Party /\ q # p /\ \A x \in Party : x = p \/ x = q
  BY PeerFacts
<1>5. /\ store' = [store EXCEPT ![p] = e] /\ identity' = [identity EXCEPT ![p] = @ + 1]
      /\ bundles' = [bundles EXCEPT ![p] = PreKeyIds]
      /\ UNCHANGED <<sent, delivered, now, started>>
  BY DEF Reinstall
<1> HIDE DEF e, q
<1>6. TypeOK'
  BY <1>2, <1>3, <1>5 DEF TypeOK
<1>7. /\ store'[p] = e /\ store'[q] = store[q] /\ identity'[p] = identity[p] + 1
      /\ identity'[q] = identity[q] /\ identity[p] \in Nat
  BY <1>2, <1>4, <1>5 DEF TypeOK
<1>8. \A b \in 1 .. started, x \in Party : o[b].ids[x] \in Nat /\ o[b].ids[x] <= identity[x]
  <2>1. \A b \in 1 .. started : o[b] \in Origin
    BY <1>2 DEF TypeOK
  <2> QED BY <1>1, <2>1, Zenon DEF Origin, Fits
<1>9. \A b \in 1 .. started, x \in Party : Used(o, x, b) => Used(o, x, b)'
  <2> TAKE b \in 1 .. started, x \in Party
  <2>1. CASE x = p
    <3>1. o[b].ids[p] # identity'[p]
      BY <1>7, <1>8
    <3> QED BY <2>1, <3>1 DEF Used
  <2>2. CASE x = q
    BY <1>7, <2>2 DEF Used
  <2> QED BY <1>4, <2>1, <2>2
<1>10. \A b \in 1 .. started, x \in Party : o[b].ids[x] <= identity'[x]
  BY <1>4, <1>7, <1>8
<1>11. \A x \in Party : \A s \in Sessions(store'[x].record) : SessionFits(o, x, s)'
  <2>1. \A s \in Sessions(store[q].record) : SessionFits(o, q, s)'
    <3> TAKE s \in Sessions(store[q].record)
    <3>1. SessionFits(o, q, s)
      BY <1>1, <1>4 DEF Fits
    <3>2. Got(q)' = Got(q)
      BY <1>5 DEF Got
    <3> QED BY <1>5, <1>7, <3>1, <3>2, Zenon DEF SessionFits
  <2> QED BY <1>3, <1>4, <1>7, <2>1
<1>12. \A m \in sent : MessageFits(o, m)'
  <2> TAKE m \in sent
  <2>1. MessageFits(o, m)
    BY <1>1 DEF Fits
  <2> QED BY <1>5, <1>9, <2>1, Zenon DEF MessageFits
<1>13. \A x \in Party : DeliveriesFit(o, x)'
  <2> TAKE x \in Party
  <2>1. DeliveriesFit(o, x) /\ Got(x)' = Got(x)
    BY <1>1, <1>5 DEF Fits, Got
  <2>2. \A m \in Got(x) : m \in sent /\ m.base \in 1 .. started
    BY <1>1, <2>1, Zenon DEF DeliveriesFit, Incoming, Fits, MessageFits
  <2> QED BY <1>5, <1>9, <2>1, <2>2 DEF DeliveriesFit, Incoming
<1>14. Fits(o)'
  BY <1>5, <1>10, <1>11, <1>12, <1>13, Zenon DEF Fits
<1>15. NoKeyReuse' /\ AtMostOnce'
  BY <1>5 DEF IInv, NoKeyReuse, AtMostOnce
<1> QED BY <1>6, <1>14, <1>15, Zenon DEF IInv

LEMMA ProcessPreKeyBundleIInv ==
    ASSUME IInv, NEW p \in Party, NEW n \in 0 .. 2, NEW id \in BundleKeys(Peer(p)),
           ProcessPreKeyBundle(p, id, n)
    PROVE  IInv'
<1> DEFINE q == Peer(p)
           b == started + 1
           r == store[p].record
           v == [owner |-> p, ids |-> identity, key |-> id]
<1>1. PICK a \in [Nat -> Origin] : Fits(a)
  BY DEF IInv
<1>2. TypeOK
  BY DEF IInv
<1>3. /\ q \in Party /\ store[p] \in Store /\ RecordOK(r) /\ identity[q] \in Nat
      /\ store \in [Party -> Store]
  BY <1>2, StoreTypes, PeerFacts, Zenon DEF TypeOK
<1>4. started \in Nat /\ b \in Nat /\ now \in Nat /\ id \in PreKeyIds \cup {NoKey}
  BY <1>2, <1>3 DEF TypeOK, BundleKeys
<1>5. v \in Origin
  BY <1>2, <1>4 DEF Origin, TypeOK
<1>6. PICK o \in [Nat -> Origin] : o[b] = v /\ Fits(o)
  BY <1>1, <1>2, <1>5, Reorigin, Zenon
<1>7. o[b].owner = p /\ o[b].ids = identity /\ o[b].key = id
  BY <1>6
<1> HIDE DEF v
<1>8. [pre_key_id |-> id, timestamp |-> now] \in PreKeyItems
  BY <1>4 DEF PreKeyItems
<1>9. PICK u : u = NewSession(b, identity[q], [pre_key_id |-> id, timestamp |-> now])
  BY Zenon
<1>10. /\ u \in Session /\ u.base = b /\ u.remote = identity[q] /\ u.sent = 0 /\ u.received = {}
       /\ u.pending.pre_key_id = id
  BY <1>3, <1>4, <1>8, <1>9, NewSessionFields
<1>11. \A s \in Sessions(r) : s.base # b
  <2>1. \A s \in Sessions(r) : s.base \in 1 .. started
    BY <1>6, Zenon DEF Fits, SessionFits
  <2> QED BY <1>4, <2>1
<1>12. Evolves(r, u, PromoteState(r, u))
  BY <1>3, <1>10, <1>11, PromoteEvolves
<1>13. PICK w1, w2 :
           /\ SaveIdentityThenSession(store[p], identity[q], PromoteState(r, u)) = <<w1, w2>>
           /\ Later(store[p], w1) /\ w1.record = r
           /\ Later(store[p], w2) /\ w2.record = PromoteState(r, u)
  BY <1>3, <1>12, TwoWrites DEF Evolves
<1>14. /\ Call(p, <<w1, w2>>, n) /\ started' = b
       /\ bundles' = [bundles EXCEPT ![q] = @ \ {id}]
       /\ UNCHANGED <<identity, sent, delivered, now>>
  BY <1>13, <1>9, Zenon DEF ProcessPreKeyBundle
<1>15. /\ store' = [store EXCEPT ![p] = store'[p]]
       /\ (n = 2 => store'[p] = w2) /\ (n # 2 => store'[p] \in {store[p], w1})
  BY <1>3, <1>14, CallTwo
<1>16. Later(store[p], store'[p])
  BY <1>13, <1>15, ItselfLater, Zenon
<1>17. delivered' = [delivered EXCEPT ![p] = delivered'[p]] /\ delivered'[p] \in Seq(sent')
  BY <1>2, <1>14 DEF TypeOK
<1>18. bundles' \in [Party -> SUBSET PreKeyIds]
  BY <1>2, <1>14, Zenon DEF TypeOK
<1>19. StepOf(p)
  BY <1>4, <1>14, <1>15, <1>16, <1>17 DEF StepOf
<1>20. TypeOK'
  <2>1. now' \in Nat
    BY <1>2, <1>14 DEF TypeOK
  <2> QED BY <1>2, <1>17, <1>18, <1>19, <2>1, TypeStep, Zenon
<1>21. \A c \in 1 .. started', x \in Party : o[c].ids[x] <= identity[x]
  <2> TAKE c \in 1 .. started', x \in Party
  <2>1. c \in 1 .. started \/ c = b
    BY <1>4, <1>14
  <2>2. identity[x] <= identity[x]
    BY <1>2, StoreTypes
  <2> QED BY <1>6, <1>7, <2>1, <2>2, Zenon DEF Fits
<1>22. Fits(o)'
  <2>1. CASE n # 2
    <3>1. store'[p].record = r
      BY <1>13, <1>15, <2>1, Zenon
    <3> QED BY <1>2, <1>6, <1>14, <1>19, <1>21, <3>1, QuietFits, KeepsItself, Zenon
  <2>2. CASE n = 2
    <3>1. Evolves(r, u, store'[p].record)
      BY <1>12, <1>13, <1>15, <2>2, Zenon
    <3>2. Got(p)' = Got(p) /\ sent' = sent
      BY <1>14, Zenon DEF Got
    <3>3. \A m \in sent : m.base # b
      BY <1>4, <1>6 DEF Fits, MessageFits
    <3>4. \A m \in Got(p) : m \in sent
      BY <1>6 DEF Fits, DeliveriesFit, Incoming
    <3>5. SessionFits(o, p, u)'
      <4>1. b \in 1 .. started'
        BY <1>4, <1>14
      <4> QED BY <1>7, <1>10, <1>14, <3>2, <3>3, <3>4, <4>1, Zenon DEF SessionFits
    <3>6. \A s \in Sessions(store'[p].record) : SessionFits(o, p, s)'
      <4> TAKE s \in Sessions(store'[p].record)
      <4>1. CASE s = u
        BY <3>5, <4>1
      <4>2. CASE s # u
        <5>1. PICK x \in Sessions(r) : s = x \/ s = ClearUnacknowledgedPreKeyMessage(x)
          BY <3>1, <4>2 DEF Evolves
        <5> QED BY <1>2, <1>6, <1>19, <3>2, <5>1, OldSessionFits, Zenon
      <4> QED BY <4>1, <4>2, Zenon
    <3>7. DeliveriesFit(o, p)'
      <4>1. DeliveriesFit(o, p)
        BY <1>6 DEF Fits
      <4>2. \A c : Used(o, p, c) => Used(o, p, c)'
        BY <1>14, <1>16, Zenon DEF Used, Later
      <4> QED BY <3>2, <4>1, <4>2 DEF DeliveriesFit, Incoming
    <3> QED BY <1>2, <1>6, <1>19, <1>21, <3>2, <3>6, <3>7, StepFits, Zenon
  <2> QED BY <2>1, <2>2, Zenon
<1>23. NoKeyReuse' /\ AtMostOnce'
  BY <1>14 DEF IInv, NoKeyReuse, AtMostOnce
<1> QED BY <1>20, <1>22, <1>23, Zenon DEF IInv

LEMMA SendIInv ==
    ASSUME IInv, NEW p \in Party, StepOf(p), NEW state \in Sessions(store[p].record), NEW u,
           NEW message, Sends(p, state, u, message), sent' = sent \cup {message},
           Evolves(store[p].record, u, store'[p].record),
           UNCHANGED <<bundles, delivered, now, started>>
    PROVE  IInv'
<1>1. PICK o \in [Nat -> Origin] : Fits(o)
  BY DEF IInv
<1>2. TypeOK
  BY DEF IInv
<1>3. /\ delivered[p] \in Seq(sent) /\ started \in Nat
      /\ bundles' \in [Party -> SUBSET PreKeyIds] /\ now' \in Nat
  BY <1>2, Zenon DEF TypeOK
<1>4. TypeOK'
  <2>1. delivered'[p] \in Seq(sent')
    BY <1>3, SeqOfMore, Zenon
  <2> QED BY <1>2, <1>3, <2>1, TypeStep, Zenon
<1>5. SessionFits(o, p, state)
  BY <1>1, Zenon DEF Fits
<1>6. Got(p)' = Got(p)
  BY Zenon DEF Got
<1>7. u.base = message.base
  BY DEF Sends
<1>8. SessionFits(o, p, u)'
  BY <1>1, <1>2, <1>5, SenderFits
<1>9. \A s \in Sessions(store'[p].record) : SessionFits(o, p, s)'
  <2> TAKE s \in Sessions(store'[p].record)
  <2>1. CASE s = u
    BY <1>8, <2>1
  <2>2. CASE s # u
    <3>1. PICK x \in Sessions(store[p].record) :
              x.base # u.base /\ (s = x \/ s = ClearUnacknowledgedPreKeyMessage(x))
      BY <2>2, Zenon DEF Evolves
    <3>2. \A m \in sent' : m \in sent \/ m.base # x.base
      BY <1>7, <3>1, Zenon
    <3> QED BY <1>1, <1>2, <1>6, <3>1, <3>2, OldSessionFits, Zenon
  <2> QED BY <2>1, <2>2, Zenon
<1>10. DeliveriesFit(o, p)'
  <2>1. DeliveriesFit(o, p)
    BY <1>1 DEF Fits
  <2>2. \A c : Used(o, p, c) => Used(o, p, c)'
    BY Zenon DEF Used, StepOf, Later
  <2> QED BY <1>6, <2>1, <2>2 DEF DeliveriesFit, Incoming
<1>11. /\ MessageFits(o, message)'
       /\ \A m \in sent : m.from = p /\ m.base = message.base => m.counter # message.counter
  BY <1>1, <1>5, SentFits
<1>12. Fits(o)'
  <2>1. \A b \in 1 .. started', x \in Party : o[b].ids[x] <= identity[x]
    BY <1>1, Zenon DEF Fits
  <2>2. \A m \in sent' : m \notin sent => MessageFits(o, m)'
    BY <1>11, Zenon
  <2> QED BY <1>1, <1>2, <1>9, <1>10, <2>1, <2>2, StepFits, Zenon
<1>13. NoKeyReuse'
  <2>1. NoKeyReuse /\ message.from = p
    BY DEF IInv, Sends
  <2> QED BY <1>11, <2>1 DEF NoKeyReuse
<1>14. AtMostOnce'
  BY DEF IInv, AtMostOnce
<1> QED BY <1>4, <1>12, <1>13, <1>14, Zenon DEF IInv

\* What is sent is sent after the state is stored that counts it.
LEMMA MessageEncryptIInv ==
    ASSUME IInv, NEW p \in Party, NEW n \in 0 .. 2, MessageEncrypt(p, n)
    PROVE  IInv'
<1> DEFINE r == store[p].record
           state == r.current
           u == Advanced(state)
           t == [r EXCEPT !.current = u]
           message == Ciphertext(p, state)
<1>1. /\ state # NoSession /\ UNCHANGED <<identity, bundles, delivered, now, started>>
      /\ Call(p, SaveIdentityThenSession(store[p], state.remote, t), n)
      /\ sent' = IF Returns(SaveIdentityThenSession(store[p], state.remote, t), n)
                 THEN sent \cup {message} ELSE sent
  BY Zenon DEF MessageEncrypt
<1>2. TypeOK
  BY DEF IInv
<1>3. store[p] \in Store /\ RecordOK(r) /\ r \in Record /\ store \in [Party -> Store]
  BY <1>2, StoreTypes DEF TypeOK
<1>4. state \in Session /\ state \in Sessions(r)
  BY <1>1, <1>3, SessionsOf, Zenon DEF Record
<1>5. Sends(p, state, u, message)
  BY <1>4 DEF Sends, Session, Advanced, Ciphertext
<1> HIDE DEF message, u
<1>6. state.remote \in Nat /\ u \in Session /\ u.base = state.base /\ message.from = p
  <2>1. state.remote \in Nat
    BY <1>4, Zenon DEF Session
  <2> HIDE DEF state
  <2> QED BY <1>5, <2>1 DEF Sends
<1>7. Evolves(r, u, t) /\ RecordOK(t)
  BY <1>1, <1>3, <1>6, CurrentEvolves DEF Evolves
<1> HIDE DEF t
<1>8. PICK w1, w2 :
          /\ SaveIdentityThenSession(store[p], state.remote, t) = <<w1, w2>>
          /\ Later(store[p], w1) /\ w1.record = r
          /\ Later(store[p], w2) /\ w2.record = t
  <2> HIDE DEF state
  <2> QED BY <1>3, <1>6, <1>7, TwoWrites
<1>9. /\ Call(p, <<w1, w2>>, n)
      /\ sent' = IF Returns(<<w1, w2>>, n) THEN sent \cup {message} ELSE sent
  BY <1>1, <1>8, Zenon
<1>10. /\ store' = [store EXCEPT ![p] = store'[p]]
       /\ (n = 2 => store'[p] = w2 /\ Returns(<<w1, w2>>, n))
       /\ (n # 2 => store'[p] \in {store[p], w1} /\ ~ Returns(<<w1, w2>>, n))
  BY <1>3, <1>9, CallTwo, Zenon
<1>11. CASE n # 2
  <2>1. Later(store[p], store'[p]) /\ store'[p].record = r /\ sent' = sent
    BY <1>8, <1>9, <1>10, <1>11, ItselfLater, Zenon
  <2> QED BY <1>1, <1>10, <2>1, WriteIInv, KeepsItself, Zenon
<1>12. CASE n = 2
  <2>1. Later(store[p], store'[p]) /\ store'[p].record = t /\ sent' = sent \cup {message}
    BY <1>8, <1>9, <1>10, <1>12, Zenon
  <2>2. delivered' = [delivered EXCEPT ![p] = delivered'[p]] /\ started \in Nat
    BY <1>1, <1>2, Zenon DEF TypeOK
  <2>3. StepOf(p)
    BY <1>1, <1>6, <1>10, <2>1, <2>2 DEF StepOf
  <2>4. Evolves(r, u, store'[p].record)
    BY <1>7, <2>1
  <2> QED BY <1>1, <1>4, <1>5, <2>1, <2>3, <2>4, SendIInv, Zenon
<1> QED BY <1>11, <1>12, Zenon

-----------------------------------------------------------------------------
(* Decryption                                                              *)

\* A call that hands out the plaintext of m has stored that m was received.
LEMMA DeliverIInv ==
    ASSUME IInv, NEW o \in [Nat -> Origin], Fits(o), NEW p \in Party, NEW m \in Incoming(p),
           NEW u, Receives(o, p, m, u), Writes(p),
           Evolves(store[p].record, Decrypted(u, m), store'[p].record),
           delivered' = [delivered EXCEPT ![p] = Append(@, m)],
           UNCHANGED <<identity, bundles, sent, now, started>>
    PROVE  IInv'
<1>1. TypeOK /\ AtMostOnce
  BY DEF IInv
<1>2. /\ delivered'[p] \in Seq(sent) /\ IsInjective(delivered'[p])
      /\ Got(p)' = Got(p) \cup {m}
      /\ delivered' = [delivered EXCEPT ![p] = delivered'[p]]
  BY <1>1, DeliveredOnce, Zenon
<1>3. /\ started' \in Nat /\ started <= started' /\ now' \in Nat
      /\ bundles' \in [Party -> SUBSET PreKeyIds]
  BY <1>1 DEF TypeOK
<1>4. StepOf(p) /\ TypeOK'
  <2>1. StepOf(p)
    BY <1>2, <1>3, Zenon DEF StepOf, Writes
  <2> QED BY <1>1, <1>2, <1>3, <2>1, TypeStep, Zenon
<1>5. PICK v : v = Decrypted(u, m)
  BY Zenon
<1>6. SessionFits(o, p, v)' /\ v.base = m.base
  BY <1>2, <1>5, ReceiverFits
<1>7. \A s \in Sessions(store'[p].record) : SessionFits(o, p, s)'
  <2> TAKE s \in Sessions(store'[p].record)
  <2>1. CASE s = v
    BY <1>6, <2>1, Zenon
  <2>2. CASE s # v
    <3>1. PICK x \in Sessions(store[p].record) :
              x.base # v.base /\ (s = x \/ s = ClearUnacknowledgedPreKeyMessage(x))
      BY <1>5, <2>2, Zenon DEF Evolves
    <3>2. \A k \in Got(p)' : k \in Got(p) \/ k.base # x.base
      BY <1>2, <1>6, <3>1, Zenon
    <3> QED BY <1>1, <1>4, <3>1, <3>2, OldSessionFits, Zenon
  <2> QED BY <2>1, <2>2, Zenon
<1>8. DeliveriesFit(o, p)'
  <2>1. DeliveriesFit(o, p)
    BY Zenon DEF Fits
  <2>2. \A c : Used(o, p, c) => Used(o, p, c)'
    BY Zenon DEF Used, Writes, Later
  <2>3. Used(o, p, m.base)'
    BY Zenon DEF Used, Receives, Ready
  <2> QED BY <1>2, <2>1, <2>2, <2>3, Zenon DEF DeliveriesFit, Incoming
<1>9. Fits(o)'
  <2>1. \A b \in 1 .. started', x \in Party : o[b].ids[x] <= identity[x]
    BY Zenon DEF Fits
  <2> QED BY <1>1, <1>4, <1>7, <1>8, <2>1, StepFits, Zenon
<1>10. AtMostOnce'
  <2>1. \A q \in Party : q # p => delivered'[q] = delivered[q]
    BY <1>1 DEF TypeOK
  <2> QED BY <1>1, <1>2, <2>1, Zenon DEF AtMostOnce
<1>11. NoKeyReuse'
  BY Zenon DEF IInv, NoKeyReuse
<1> QED BY <1>4, <1>9, <1>10, <1>11, Zenon DEF IInv

\* What a call delivers whose writes are w.
Delivers(p, m, w, n) ==
    /\ Call(p, w, n)
    /\ delivered' = IF Returns(w, n) THEN [delivered EXCEPT ![p] = Append(@, m)] ELSE delivered
    /\ UNCHANGED <<identity, bundles, sent, now, started>>

\* A decryption with a session p has.
LEMMA DecryptIInv ==
    ASSUME IInv, NEW o \in [Nat -> Origin], Fits(o), NEW p \in Party, NEW m \in Incoming(p),
           NEW u \in Sessions(store[p].record), u.base = m.base, m.counter \notin u.received,
           NEW t, Evolves(store[p].record, Decrypted(u, m), t), NEW key \in Nat, NEW n,
           Delivers(p, m, SaveIdentityThenSession(store[p], key, t), n)
    PROVE  IInv'
<1>1. TypeOK
  BY DEF IInv
<1>2. /\ store[p] \in Store /\ RecordOK(store[p].record) /\ store \in [Party -> Store]
      /\ RecordOK(t)
  BY <1>1, StoreTypes, Zenon DEF TypeOK, Evolves
<1>3. PICK w1, w2 :
          /\ SaveIdentityThenSession(store[p], key, t) = <<w1, w2>>
          /\ Later(store[p], w1) /\ w1.record = store[p].record
          /\ Later(store[p], w2) /\ w2.record = t
  BY <1>2, TwoWrites
<1>4. Delivers(p, m, <<w1, w2>>, n)
  BY <1>3, Zenon
<1>5. n \in 0 .. 2 /\ Call(p, <<w1, w2>>, n)
  <2>1. n \in 0 .. Len(<<w1, w2>>) /\ Call(p, <<w1, w2>>, n)
    BY <1>4, Zenon DEF Delivers, Call
  <2> QED BY <2>1
<1>6. /\ store' = [store EXCEPT ![p] = store'[p]]
      /\ (n = 2 => store'[p] = w2 /\ Returns(<<w1, w2>>, n))
      /\ (n # 2 => store'[p] \in {store[p], w1} /\ ~ Returns(<<w1, w2>>, n))
  BY <1>2, <1>5, CallTwo
<1>7. UNCHANGED <<identity, bundles, sent, now, started>>
  BY <1>4, Zenon DEF Delivers
<1>8. CASE n # 2
  <2>1. delivered' = delivered
    BY <1>4, <1>6, <1>8, Zenon DEF Delivers
  <2>2. Later(store[p], store'[p]) /\ store'[p].record = store[p].record
    BY <1>3, <1>6, <1>8, ItselfLater, Zenon
  <2> QED BY <1>6, <1>7, <2>1, <2>2, WriteIInv, KeepsItself, Zenon
<1>9. CASE n = 2
  <2>1. delivered' = [delivered EXCEPT ![p] = Append(@, m)]
    BY <1>4, <1>6, <1>9, Zenon DEF Delivers
  <2>2. Later(store[p], store'[p]) /\ store'[p].record = t
    BY <1>3, <1>6, <1>9, Zenon
  <2>3. Receives(o, p, m, u)
    BY <1>1, <2>2, OldReady, Zenon DEF Receives
  <2>4. Writes(p)
    BY <1>6, <2>2, Zenon DEF Writes
  <2> QED BY <1>7, <2>1, <2>2, <2>3, <2>4, DeliverIInv, Zenon
<1> QED BY <1>8, <1>9, Zenon

LEMMA MessageDecryptSignalIInv ==
    ASSUME IInv, NEW p \in Party, NEW n \in 0 .. 2, NEW m \in Incoming(p),
           MessageDecryptSignal(p, m, n)
    PROVE  IInv'
<1> DEFINE r == store[p].record
           d == DecryptSignal(p, m)
<1>1. PICK o \in [Nat -> Origin] : Fits(o)
  BY DEF IInv
<1>2. RecordOK(r) /\ Sessions(r) \subseteq Session
  BY StoreTypes DEF IInv
<1>3. m.counter \in Nat
  BY <1>1, Zenon DEF Fits, MessageFits, Incoming
<1>4. d.result = "Ok"
  BY DEF MessageDecryptSignal
<1>5. PICK u \in Sessions(r) :
          /\ u.base = m.base /\ m.counter \notin u.received
          /\ Evolves(r, Decrypted(u, m), d.record)
  BY <1>2, <1>3, <1>4, DecryptSignalGives, Zenon
<1>6. d.record.current.remote \in Nat
  <2>1. d.record.current = Decrypted(u, m)
    BY <1>5 DEF Evolves
  <2>2. Decrypted(u, m).remote = u.remote
    BY <1>2, <1>3, <1>5, DecryptedSession, Zenon
  <2>3. u.remote \in Nat
    BY <1>2, <1>5 DEF Session
  <2> QED BY <2>1, <2>2, <2>3
<1>7. Delivers(p, m, SaveIdentityThenSession(store[p], d.record.current.remote, d.record), n)
  BY Zenon DEF MessageDecryptSignal, Deliver, Delivers
<1> QED BY <1>1, <1>5, <1>6, <1>7, DecryptIInv, Zenon

\* The message m makes a session of p.
Makes(p, m) ==
    /\ m.pre_key # NoPreKey /\ m.to = identity[p]
    /\ m.base \in Nat \ store[p].base_keys_seen /\ m.identity \in Nat

\* What is known of the writes of a call in which m makes the session of t.
Stores(s, m, t, w1, w2, w3, w4) ==
    /\ \A w \in {w1, w2, w3} : Later(s, w) /\ w.record = s.record
    /\ Later(s, w4) /\ w4.record = t
    /\ m.base \in w4.base_keys_seen /\ m.pre_key.id \notin w4.pre_keys

\* A decryption with the session that the message's base key makes.
LEMMA NewDecryptIInv ==
    ASSUME IInv, NEW o \in [Nat -> Origin], Fits(o), NEW p \in Party, NEW m \in Incoming(p),
           Makes(p, m), NEW u, u = NewSession(m.base, m.identity, NotPending),
           NEW t, Evolves(store[p].record, Decrypted(u, m), t),
           NEW w1, NEW w2, NEW w3, NEW w4, Stores(store[p], m, t, w1, w2, w3, w4),
           NEW n, Delivers(p, m, <<w1, w2, w3, w4>>, n)
    PROVE  IInv'
<1>1. TypeOK /\ store \in [Party -> Store]
  BY Zenon DEF IInv, TypeOK
<1>2. n \in 0 .. 4 /\ Call(p, <<w1, w2, w3, w4>>, n)
  <2>1. n \in 0 .. Len(<<w1, w2, w3, w4>>) /\ Call(p, <<w1, w2, w3, w4>>, n)
    BY Zenon DEF Delivers, Call
  <2> QED BY <2>1
<1>3. /\ store' = [store EXCEPT ![p] = store'[p]]
      /\ (n = 4 => store'[p] = w4 /\ Returns(<<w1, w2, w3, w4>>, n))
      /\ (n # 4 => store'[p] \in {store[p], w1, w2, w3} /\ ~ Returns(<<w1, w2, w3, w4>>, n))
  BY <1>1, <1>2, CallFour, Zenon
<1>4. UNCHANGED <<identity, bundles, sent, now, started>>
  BY Zenon DEF Delivers
<1>5. CASE n # 4
  <2>1. delivered' = delivered
    BY <1>3, <1>5, Zenon DEF Delivers
  <2>2. Later(store[p], store'[p]) /\ store'[p].record = store[p].record
    BY <1>3, <1>5, ItselfLater, Zenon DEF Stores
  <2> QED BY <1>3, <1>4, <2>1, <2>2, WriteIInv, KeepsItself, Zenon
<1>6. CASE n = 4
  <2>1. delivered' = [delivered EXCEPT ![p] = Append(@, m)]
    BY <1>3, <1>6, Zenon DEF Delivers
  <2>2. /\ Later(store[p], store'[p]) /\ store'[p].record = t
        /\ m.base \in store'[p].base_keys_seen /\ m.pre_key.id \notin store'[p].pre_keys
    BY <1>3, <1>6, Zenon DEF Stores
  <2>3. u.base = m.base /\ m.counter \notin u.received
    BY DEF NewSession
  <2>4. Ready(o, p, u)
    BY <1>1, <2>2, NewReady, Zenon DEF Makes
  <2>5. Receives(o, p, m, u) /\ Writes(p)
    BY <1>3, <2>2, <2>3, <2>4, Zenon DEF Receives, Writes
  <2> QED BY <1>4, <2>1, <2>2, <2>5, DeliverIInv, Zenon
<1> QED BY <1>5, <1>6, Zenon

LEMMA MessageDecryptPreKeyIInv ==
    ASSUME IInv, NEW p \in Party, NEW n \in 0 .. 4, NEW m \in Incoming(p),
           MessageDecryptPreKey(p, m, n)
    PROVE  IInv'
<1> DEFINE r == store[p].record
           d == DecryptPreKey(p, m)
           u == NewSession(m.base, m.identity, NotPending)
<1>1. PICK o \in [Nat -> Origin] : Fits(o)
  BY DEF IInv
<1>2. TypeOK
  BY DEF IInv
<1>3. store[p] \in Store /\ RecordOK(r)
  BY <1>2, StoreTypes
<1>4. m.counter \in Nat /\ m.base \in Nat /\ m.identity \in Nat
  <2>1. MessageFits(o, m)
    BY <1>1 DEF Fits, Incoming
  <2>2. m.counter \in Nat /\ m.base \in Nat /\ m.from \in Party
    BY <1>2, <2>1 DEF MessageFits, TypeOK
  <2>3. o[m.base] \in Origin
    BY <1>1, <2>2
  <2>4. o[m.base].ids \in [Party -> Nat]
    BY <2>3, Zenon DEF Origin
  <2> QED BY <2>1, <2>2, <2>4, Zenon DEF MessageFits
<1>5. m.pre_key # NoPreKey /\ d.result = "Ok"
  BY DEF MessageDecryptPreKey
<1>6. Delivers(p, m, PreKeyWrites(store[p], m, d.record), n)
  BY DEF MessageDecryptPreKey, Deliver, Delivers
<1>7. \/ \E x \in Sessions(r) :
             /\ HasSession(r, m.base) /\ x.base = m.base /\ m.counter \notin x.received
             /\ Evolves(r, Decrypted(x, m), d.record)
      \/ ~ HasSession(r, m.base) /\ m.to = identity[p] /\ Evolves(r, Decrypted(u, m), d.record)
  BY <1>3, <1>4, <1>5, DecryptPreKeyGives, Zenon
<1>8. CASE HasSession(r, m.base)
  <2>1. PreKeyWrites(store[p], m, d.record) =
            SaveIdentityThenSession(store[p], m.identity, d.record)
    BY <1>8 DEF PreKeyWrites, SaveIdentityThenSession
  <2> HIDE DEF d
  <2>2. PICK x \in Sessions(r) :
            /\ x.base = m.base /\ m.counter \notin x.received
            /\ Evolves(r, Decrypted(x, m), d.record)
    BY <1>7, <1>8
  <2>3. Delivers(p, m, SaveIdentityThenSession(store[p], m.identity, d.record), n)
    BY <1>6, <2>1
  <2> QED BY <1>1, <1>4, <2>2, <2>3, DecryptIInv, Zenon
<1>9. CASE ~ HasSession(r, m.base)
  <2>1. PICK w1, w2, w3, w4 :
            WritesOf(store[p], m.identity, m.base, m.pre_key.id, d.record, w1, w2, w3, w4)
    BY Zenon DEF WritesOf
  <2>2. PreKeyWrites(store[p], m, d.record) = <<w1, w2, w3, w4>>
    BY <1>9, <2>1, Zenon DEF PreKeyWrites, WritesOf
  <2>3. m.base \notin store[p].base_keys_seen
    BY <1>9 DEF MessageDecryptPreKey, BaseKeyReused, KyberPreKeyUsable
  <2> HIDE DEF d
  <2>4. m.to = identity[p] /\ Evolves(r, Decrypted(u, m), d.record)
    BY <1>7, <1>9, Zenon
  <2>5. RecordOK(d.record)
    BY <2>4, Zenon DEF Evolves
  <2>6. Stores(store[p], m, d.record, w1, w2, w3, w4)
    <3>1. /\ Later(store[p], w1) /\ w1.record = r
          /\ Later(store[p], w2) /\ w2.record = r
          /\ Later(store[p], w3) /\ w3.record = r
          /\ Later(store[p], w4) /\ w4.record = d.record
          /\ m.base \in w4.base_keys_seen /\ m.pre_key.id \notin w4.pre_keys
      BY <1>3, <1>4, <2>1, <2>5, FourWrites
    <3> QED BY <3>1, Zenon DEF Stores
  <2>7. Delivers(p, m, <<w1, w2, w3, w4>>, n)
    BY <1>6, <2>2, Zenon
  <2>8. Makes(p, m)
    BY <1>4, <1>5, <2>3, <2>4 DEF Makes
  <2> QED BY <1>1, <2>4, <2>6, <2>7, <2>8, NewDecryptIInv, Zenon
<1> QED BY <1>8, <1>9, Zenon

-----------------------------------------------------------------------------
LEMMA NextIInv == ASSUME IInv, [Next]_vars PROVE IInv'
<1>1. ASSUME UNCHANGED vars PROVE IInv'
  <2>1. bundles' \in [Party -> SUBSET PreKeyIds] /\ now' \in Nat
    BY <1>1 DEF vars, IInv, TypeOK
  <2> QED BY <1>1, <2>1, UnchangedIInv DEF vars
<1>2. ASSUME Step PROVE IInv'
  <2>1. ASSUME NEW p \in Party, NEW n \in 0 .. 2, NEW id \in BundleKeys(Peer(p)),
               ProcessPreKeyBundle(p, id, n) PROVE IInv'
    BY <2>1, ProcessPreKeyBundleIInv
  <2>2. ASSUME NEW p \in Party, NEW n \in 0 .. 2, MessageEncrypt(p, n) PROVE IInv'
    BY <2>2, MessageEncryptIInv
  <2>3. ASSUME NEW p \in Party, NEW n \in 0 .. 2, NEW m \in Incoming(p),
               MessageDecryptSignal(p, m, n) PROVE IInv'
    BY <2>3, MessageDecryptSignalIInv
  <2>4. ASSUME NEW p \in Party, NEW n \in 0 .. 4, NEW m \in Incoming(p),
               MessageDecryptPreKey(p, m, n) PROVE IInv'
    BY <2>4, MessageDecryptPreKeyIInv
  <2>5. ASSUME NEW p \in Party, Archive(p) PROVE IInv'
    BY <2>5, ArchiveIInv
  <2>6. ASSUME NEW p \in Party, AcceptIdentity(p) PROVE IInv'
    BY <2>6, AcceptIdentityIInv
  <2>7. ASSUME NEW p \in Party, Reinstall(p) PROVE IInv'
    BY <2>7, ReinstallIInv
  <2>8. ASSUME Tick PROVE IInv'
    BY <2>8, TickIInv
  <2> QED BY <1>2, <2>1, <2>2, <2>3, <2>4, <2>5, <2>6, <2>7, <2>8, Zenon DEF Step
<1> QED BY <1>1, <1>2 DEF Next

LEMMA Invariance == Spec => []IInv
<1>1. Init => IInv
  BY InitIInv
<1>2. IInv /\ [Next]_vars => IInv'
  BY NextIInv
<1> QED BY <1>1, <1>2, PTL DEF Spec

\* No message is delivered to the application twice, for every number of sessions,
\* messages, failing writes, reinstallations and archive calls, and every archive
\* limit: message_decrypt_prekey refuses a base key it has seen, and stores what it
\* received before it returns the plaintext.
THEOREM DeliveredAtMostOnce == Spec => []AtMostOnce
<1>1. IInv => AtMostOnce
  BY DEF IInv
<1> QED BY <1>1, Invariance, PTL

\* No two messages of a sender have the same base key and counter, so that
\* message_encrypt uses no message key twice, also after a failed write.
THEOREM KeysUsedOnce == Spec => []NoKeyReuse
<1>1. IInv => NoKeyReuse
  BY DEF IInv
<1> QED BY <1>1, Invariance, PTL

\* The one-time pre-key is removed before the session made with it is stored, so
\* that no failed write of message_decrypt_prekey leaves both.
THEOREM OneTimeKeyIsErased == Spec => []OneTimeKeyErased
<1>1. IInv => OneTimeKeyErased
  <2> SUFFICES ASSUME IInv, NEW p \in Party, NEW m \in Incoming(p), m.pre_key # NoPreKey,
                      m.base \in Bases(store[p].record)
               PROVE  m.pre_key.id \notin store[p].pre_keys
    BY DEF OneTimeKeyErased
  <2>1. PICK o \in [Nat -> Origin] : Fits(o)
    BY DEF IInv
  <2>2. PICK s \in Sessions(store[p].record) : s.base = m.base
    BY Zenon DEF Bases
  <2>3. SessionFits(o, p, s)
    BY <2>1 DEF Fits
  <2>4. MessageFits(o, m) /\ m.from = Peer(p) /\ Peer(p) # p
    BY <2>1, PeerFacts DEF Fits, Incoming
  <2>5. o[m.base].owner # p /\ m.pre_key.id = o[m.base].key
    BY <2>4, Zenon DEF MessageFits
  <2> QED BY <2>2, <2>3, <2>5, Zenon DEF SessionFits
<1> QED BY <1>1, Invariance, PTL
=============================================================================
