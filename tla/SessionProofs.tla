----------------------------- MODULE SessionProofs -----------------------------
(***************************************************************************)
(* Proofs about the sessions of one record and about one session:          *)
(* SessionArchive, for every archive limit and every set of base keys, and *)
(* RatchetSession, for every value of the limits and any number of         *)
(* messages.                                                               *)
(*                                                                         *)
(* That the two root keys of a session stay one step apart needs with      *)
(* which root key each message that may still arrive was authenticated     *)
(* (RootsInv).                                                             *)
(***************************************************************************)
EXTENDS SessionArchive, RatchetSession, TLAPS

USE SMTT(30)

-----------------------------------------------------------------------------
(* The archive of a session record                                         *)


\* The base keys of a sequence of sessions.
BasesOf(p) == {p[i].base : i \in 1 .. Len(p)}

\* A sequence of sessions that may be the archive, but for its length.
GoodSeq(p) ==
    /\ p \in Seq(State)
    /\ \A i \in 1 .. Len(p) : p[i].pending = NotPending
    /\ \A i, j \in 1 .. Len(p) : p[i].base = p[j].base => i = j

\* The base key of the current session, as a set.
CurrentBase(r) == IF r.current = NoSession THEN {} ELSE {r.current.base}

GoodRecord(r) ==
    /\ r \in [current : State \cup {NoSession}, previous : Seq(State)]
    /\ GoodSeq(r.previous)
    /\ Len(r.previous) <= ARCHIVED_STATES_MAX_LENGTH
    /\ CurrentBase(r) \cap BasesOf(r.previous) = {}

\* The inductive invariant.  The last conjunct is needed for new sessions: a
\* base key that was never used is not the base key of a session held.
IInv ==
    /\ GoodRecord(record)
    /\ ours \subseteq BaseKeys /\ theirs \subseteq BaseKeys
    /\ CurrentBase(record) \cup BasesOf(record.previous) \subseteq ours \cup theirs

-----------------------------------------------------------------------------
\* Dropping the last session of an archive keeps it good.
LEMMA WithoutLastGood ==
    ASSUME NEW p, GoodSeq(p), Len(p) # 0
    PROVE  /\ GoodSeq(WithoutLast(p))
           /\ Len(WithoutLast(p)) = Len(p) - 1
           /\ BasesOf(WithoutLast(p)) \subseteq BasesOf(p)
<1> DEFINE n == Len(p) - 1
<1>1. p \in Seq(State) /\ Len(p) \in Nat /\ n \in Nat /\ n <= Len(p) /\ n = Len(p) - 1
  BY DEF GoodSeq
<1> HIDE DEF n
<1>2. WithoutLast(p) = SubSeq(p, 1, n)
  BY <1>1 DEF WithoutLast
<1>3. /\ SubSeq(p, 1, n) \in Seq(State)
      /\ Len(SubSeq(p, 1, n)) = n
      /\ \A i \in 1 .. n : SubSeq(p, 1, n)[i] = p[i]
  BY <1>1
<1>4. /\ WithoutLast(p) \in Seq(State) /\ Len(WithoutLast(p)) = n
      /\ \A i \in 1 .. n : i \in 1 .. Len(p) /\ WithoutLast(p)[i] = p[i]
  BY <1>1, <1>2, <1>3
<1>5. GoodSeq(WithoutLast(p))
  BY <1>4, Zenon DEF GoodSeq
<1>6. BasesOf(WithoutLast(p)) \subseteq BasesOf(p)
  BY <1>4 DEF BasesOf
<1> QED BY <1>1, <1>4, <1>5, <1>6

\* Putting an acknowledged session with a new base key in front keeps it good.
LEMMA ConsGood ==
    ASSUME NEW p, GoodSeq(p), NEW s \in State, s.pending = NotPending, s.base \notin BasesOf(p)
    PROVE  /\ GoodSeq(<< s >> \o p)
           /\ Len(<< s >> \o p) = Len(p) + 1
           /\ BasesOf(<< s >> \o p) = {s.base} \cup BasesOf(p)
<1> DEFINE q == << s >> \o p
<1>1. p \in Seq(State) /\ Len(p) \in Nat
  BY DEF GoodSeq
<1>2. << s >> \in Seq(State) /\ Len(<< s >>) = 1 /\ << s >>[1] = s
  OBVIOUS
<1>3. /\ q \in Seq(State)
      /\ Len(q) = Len(p) + 1
      /\ q[1] = s
      /\ \A i \in 1 .. Len(p) : q[i + 1] = p[i]
  BY <1>1, <1>2
<1> HIDE DEF q
<1>4. \A i \in 1 .. Len(q) : i = 1 \/ (i - 1 \in 1 .. Len(p) /\ q[i] = p[i - 1])
  <2> TAKE i \in 1 .. Len(q)
  <2>1. i = 1 \/ i - 1 \in 1 .. Len(p)
    BY <1>1, <1>3
  <2>2. i - 1 \in 1 .. Len(p) => q[(i - 1) + 1] = p[i - 1]
    BY <1>3
  <2>3. (i - 1) + 1 = i
    OBVIOUS
  <2> QED BY <2>1, <2>2, <2>3
<1>5. \A i \in 1 .. Len(q) : q[i].pending = NotPending
  <2>1. \A i \in 1 .. Len(p) : p[i].pending = NotPending
    BY Zenon DEF GoodSeq
  <2> QED BY <1>3, <1>4, <2>1, Zenon
<1>6. \A i \in 1 .. Len(p) : p[i].base # s.base
  BY DEF BasesOf
<1>7. ASSUME NEW i \in 1 .. Len(q), NEW j \in 1 .. Len(q), q[i].base = q[j].base
      PROVE  i = j
  <2>1. CASE i = 1 /\ j = 1
    BY <2>1
  <2>2. CASE i # 1 /\ j # 1
    <3>1. i - 1 \in 1 .. Len(p) /\ j - 1 \in 1 .. Len(p) /\ p[i - 1].base = p[j - 1].base
      BY <1>4, <1>7, <2>2
    <3>2. i - 1 = j - 1
      BY <3>1 DEF GoodSeq
    <3> QED BY <3>2
  <2>3. CASE i = 1 /\ j # 1
    BY <1>3, <1>4, <1>6, <1>7, <2>3, Zenon
  <2>4. CASE i # 1 /\ j = 1
    BY <1>3, <1>4, <1>6, <1>7, <2>4
  <2> QED BY <2>1, <2>2, <2>3, <2>4
<1>8. BasesOf(q) = {s.base} \cup BasesOf(p)
  <2>1. \A b \in BasesOf(q) : b \in {s.base} \cup BasesOf(p)
    BY <1>3, <1>4 DEF BasesOf
  <2>2. s.base \in BasesOf(q)
    <3>1. 1 \in 1 .. Len(q)
      BY <1>1, <1>3
    <3> QED BY <1>3, <3>1 DEF BasesOf
  <2>3. \A b \in BasesOf(p) : b \in BasesOf(q)
    <3> TAKE b \in BasesOf(p)
    <3>1. PICK i \in 1 .. Len(p) : b = p[i].base
      BY DEF BasesOf
    <3>2. i + 1 \in 1 .. Len(q) /\ q[i + 1] = p[i]
      BY <1>1, <1>3
    <3> QED BY <3>1, <3>2 DEF BasesOf
  <2> QED BY <2>1, <2>2, <2>3
<1> QED BY <1>3, <1>5, <1>7, <1>8 DEF GoodSeq, q

\* Taking a session out of an archive keeps it good.
LEMMA WithoutAtGood ==
    ASSUME NEW p, GoodSeq(p), NEW k \in 1 .. Len(p)
    PROVE  /\ GoodSeq(WithoutAt(p, k))
           /\ Len(WithoutAt(p, k)) = Len(p) - 1
           /\ BasesOf(WithoutAt(p, k)) \subseteq BasesOf(p) \ {p[k].base}
<1> DEFINE n == Len(p) - 1
           q == WithoutAt(p, k)
           At(i) == IF i < k THEN i ELSE i + 1
<1>1. p \in Seq(State) /\ Len(p) \in Nat /\ n \in Nat /\ n = Len(p) - 1 /\ k \in Nat
  BY DEF GoodSeq
<1>2. \A i \in 1 .. n : At(i) \in 1 .. Len(p) /\ At(i) # k
  BY <1>1
<1>3. q = [i \in 1 .. n |-> p[At(i)]]
  BY DEF WithoutAt
<1> HIDE DEF q, n
<1>4. \A i \in 1 .. n : p[At(i)] \in State
  BY <1>1, <1>2
<1>5. q \in Seq(State)
  BY <1>1, <1>3, <1>4
<1>6. Len(q) = n
  BY <1>1, <1>3
<1>7. \A i \in 1 .. n : At(i) \in 1 .. Len(p) /\ At(i) # k /\ q[i] = p[At(i)]
  BY <1>2, <1>3
<1>8. \A i, j \in 1 .. n : At(i) = At(j) => i = j
  BY <1>1
<1> HIDE DEF At
<1>9. GoodSeq(q)
  <2>1. \A i \in 1 .. n : q[i].pending = NotPending
    BY <1>7 DEF GoodSeq
  <2>2. ASSUME NEW i \in 1 .. n, NEW j \in 1 .. n, q[i].base = q[j].base
        PROVE  i = j
    <3>1. p[At(i)].base = p[At(j)].base
      BY <1>7, <2>2
    <3>2. At(i) = At(j)
      BY <1>7, <3>1 DEF GoodSeq
    <3> QED BY <1>8, <3>2
  <2> QED BY <1>5, <1>6, <2>1, <2>2 DEF GoodSeq
<1>10. BasesOf(q) \subseteq BasesOf(p) \ {p[k].base}
  <2> SUFFICES ASSUME NEW i \in 1 .. n
               PROVE  q[i].base \in BasesOf(p) /\ q[i].base # p[k].base
    BY <1>6, Zenon DEF BasesOf
  <2>1. q[i].base = p[At(i)].base /\ At(i) \in 1 .. Len(p) /\ At(i) # k
    BY <1>7
  <2> QED BY <2>1 DEF GoodSeq, BasesOf
<1> QED BY <1>1, <1>6, <1>9, <1>10 DEF q

-----------------------------------------------------------------------------
\* Archiving the current session keeps the record good.
LEMMA ArchiveGood ==
    ASSUME NEW r, GoodRecord(r)
    PROVE  LET t == ArchiveCurrentState(r)
           IN  /\ GoodRecord(t)
               /\ t.current = NoSession
               /\ BasesOf(t.previous) \subseteq CurrentBase(r) \cup BasesOf(r.previous)
<1> DEFINE t == ArchiveCurrentState(r)
           p == r.previous
           m == MakeRoom(p)
           s == ClearUnacknowledgedPreKeyMessage(r.current)
<1>1. CASE r.current = NoSession
  BY <1>1 DEF ArchiveCurrentState
<1>2. CASE r.current # NoSession
  <2>1. r.current \in State /\ GoodSeq(p) /\ Len(p) \in Nat /\ Len(p) <= ARCHIVED_STATES_MAX_LENGTH
        /\ r.current.base \notin BasesOf(p)
    BY <1>2 DEF GoodRecord, GoodSeq, CurrentBase
  <2>2. s \in State /\ s.pending = NotPending /\ s.base = r.current.base
    BY <2>1 DEF State, ClearUnacknowledgedPreKeyMessage
  <2>3. GoodSeq(m) /\ Len(m) + 1 <= ARCHIVED_STATES_MAX_LENGTH /\ BasesOf(m) \subseteq BasesOf(p)
    <3>1. CASE Len(p) >= ARCHIVED_STATES_MAX_LENGTH
      <4>1. Len(p) # 0
        BY <2>1, <3>1, ArchiveLimitAssumption
      <4>2. m = WithoutLast(p)
        BY <3>1 DEF MakeRoom
      <4>3. /\ GoodSeq(WithoutLast(p)) /\ Len(WithoutLast(p)) = Len(p) - 1
            /\ BasesOf(WithoutLast(p)) \subseteq BasesOf(p)
        BY <2>1, <4>1, WithoutLastGood
      <4> QED BY <2>1, <4>2, <4>3, ArchiveLimitAssumption
    <3>2. CASE ~ (Len(p) >= ARCHIVED_STATES_MAX_LENGTH)
      <4>1. m = p
        BY <3>2 DEF MakeRoom
      <4> QED BY <2>1, <3>2, <4>1, ArchiveLimitAssumption
    <3> QED BY <3>1, <3>2
  <2>4. t = [current |-> NoSession, previous |-> << s >> \o m]
    BY <1>2 DEF ArchiveCurrentState
  <2> HIDE DEF s, m, p, t
  <2>5. s.base \notin BasesOf(m)
    BY <2>1, <2>2, <2>3
  <2>6. /\ GoodSeq(<< s >> \o m)
        /\ Len(<< s >> \o m) = Len(m) + 1
        /\ BasesOf(<< s >> \o m) = {s.base} \cup BasesOf(m)
    BY <2>2, <2>3, <2>5, ConsGood
  <2>7. t.current = NoSession /\ t.previous = << s >> \o m
    BY <2>4
  <2>8. t \in [current : State \cup {NoSession}, previous : Seq(State)]
    BY <2>4, <2>6 DEF GoodSeq
  <2>9. GoodRecord(t)
    <3>1. CurrentBase(t) = {}
      BY <2>7 DEF CurrentBase
    <3>2. Len(t.previous) <= ARCHIVED_STATES_MAX_LENGTH
      BY <2>3, <2>6, <2>7
    <3> QED BY <2>6, <2>7, <2>8, <3>1, <3>2 DEF GoodRecord
  <2>10. BasesOf(t.previous) \subseteq CurrentBase(r) \cup BasesOf(r.previous)
    BY <1>2, <2>2, <2>3, <2>6, <2>7 DEF CurrentBase, p
  <2> QED BY <2>7, <2>9, <2>10 DEF t
<1> QED BY <1>1, <1>2

\* Making a session with a new base key current keeps the record good.
LEMMA PromoteGood ==
    ASSUME NEW r, GoodRecord(r), NEW new \in State,
           new.base \notin CurrentBase(r) \cup BasesOf(r.previous)
    PROVE  LET t == PromoteState(r, new)
           IN  /\ GoodRecord(t)
               /\ t.current = new
               /\ BasesOf(t.previous) \subseteq CurrentBase(r) \cup BasesOf(r.previous)
<1> DEFINE u == ArchiveCurrentState(r)
           t == PromoteState(r, new)
<1>1. GoodRecord(u) /\ BasesOf(u.previous) \subseteq CurrentBase(r) \cup BasesOf(r.previous)
  BY ArchiveGood
<1>2. t = [u EXCEPT !.current = new]
  BY DEF PromoteState
<1> HIDE DEF u, t
<1>3. /\ t \in [current : State \cup {NoSession}, previous : Seq(State)]
      /\ t.current = new /\ t.previous = u.previous
  BY <1>1, <1>2 DEF GoodRecord
<1>4. CurrentBase(t) = {new.base}
  BY <1>3, NoSessionAssumption DEF CurrentBase
<1>5. new.base \notin BasesOf(t.previous)
  BY <1>1, <1>3
<1>6. GoodRecord(t)
  BY <1>1, <1>3, <1>4, <1>5 DEF GoodRecord
<1> QED BY <1>1, <1>3, <1>6 DEF t

\* Promoting an archived session, possibly changed but with its base key.
LEMMA PromoteOldGood ==
    ASSUME NEW r, GoodRecord(r), NEW i \in 1 .. Len(r.previous),
           NEW updated \in State, updated.base = r.previous[i].base
    PROVE  LET t == PromoteOldSession(r, i, updated)
           IN  /\ GoodRecord(t)
               /\ t.current = updated
               /\ CurrentBase(t) \cup BasesOf(t.previous)
                      \subseteq CurrentBase(r) \cup BasesOf(r.previous)
<1> DEFINE rest == WithoutAt(r.previous, i)
           u == [r EXCEPT !.previous = rest]
           t == PromoteOldSession(r, i, updated)
<1>1. /\ GoodSeq(rest) /\ Len(rest) = Len(r.previous) - 1
      /\ BasesOf(rest) \subseteq BasesOf(r.previous) \ {r.previous[i].base}
  BY WithoutAtGood DEF GoodRecord
<1>2. t = PromoteState(u, updated)
  BY DEF PromoteOldSession
<1>3. updated.base \in BasesOf(r.previous)
  BY DEF BasesOf
<1>4. updated.base \notin CurrentBase(r)
  BY <1>3 DEF GoodRecord
<1> HIDE DEF rest, t
<1>5. /\ u \in [current : State \cup {NoSession}, previous : Seq(State)]
      /\ u.current = r.current /\ u.previous = rest
  BY <1>1 DEF GoodRecord, GoodSeq
<1> HIDE DEF u
<1>6. CurrentBase(u) = CurrentBase(r)
  BY <1>5 DEF CurrentBase
<1>7. Len(u.previous) <= ARCHIVED_STATES_MAX_LENGTH
  BY <1>1, <1>5, ArchiveLimitAssumption DEF GoodRecord, GoodSeq
<1>8. GoodRecord(u)
  BY <1>1, <1>5, <1>6, <1>7 DEF GoodRecord
<1>9. updated.base \notin CurrentBase(u) \cup BasesOf(u.previous)
  BY <1>1, <1>4, <1>5, <1>6
<1>10. /\ GoodRecord(t) /\ t.current = updated
       /\ BasesOf(t.previous) \subseteq CurrentBase(u) \cup BasesOf(u.previous)
  BY <1>2, <1>8, <1>9, PromoteGood
<1>11. CurrentBase(t) = {updated.base}
  BY <1>10, NoSessionAssumption DEF CurrentBase
<1> QED BY <1>1, <1>3, <1>5, <1>6, <1>10, <1>11 DEF t

-----------------------------------------------------------------------------
\* FindPrevious finds the archived session with a base key if there is one.
LEMMA FindPreviousFinds ==
    ASSUME NEW r, GoodRecord(r), NEW base
    PROVE  LET i == FindPrevious(r, base)
           IN  \/ i = 0 /\ base \notin BasesOf(r.previous)
               \/ i \in 1 .. Len(r.previous) /\ r.previous[i].base = base
<1> DEFINE p == r.previous
           I == {i \in 1 .. Len(p) : p[i].base = base}
<1>1. GoodSeq(p) /\ Len(p) \in Nat
  BY DEF GoodRecord, GoodSeq
<1>2. FindPrevious(r, base) = IF I = {} THEN 0 ELSE Min(I)
  BY DEF FindPrevious, FirstIndex
<1>3. CASE I = {}
  BY <1>2, <1>3 DEF BasesOf
<1>4. CASE I # {}
  <2>1. PICK k \in 1 .. Len(p) : p[k].base = base
    BY <1>4
  <2>2. I = {k}
    BY <1>1, <2>1 DEF GoodSeq
  <2>3. Min({k}) = k
    BY <1>1 DEF Min
  <2>4. FindPrevious(r, base) = k
    BY <1>2, <2>2, <2>3, Zenon
  <2> QED BY <2>1, <2>4
<1> QED BY <1>3, <1>4

\* Acknowledging the current session keeps the record good.
LEMMA AcknowledgeGood ==
    ASSUME NEW r, GoodRecord(r), r.current # NoSession
    PROVE  LET t == [r EXCEPT !.current = ClearUnacknowledgedPreKeyMessage(@)]
           IN  /\ GoodRecord(t)
               /\ CurrentBase(t) = CurrentBase(r)
               /\ t.previous = r.previous
<1> DEFINE s == ClearUnacknowledgedPreKeyMessage(r.current)
           t == [r EXCEPT !.current = s]
<1>1. r.current \in State /\ r \in [current : State \cup {NoSession}, previous : Seq(State)]
  BY DEF GoodRecord
<1>2. s \in State /\ s.base = r.current.base
  BY <1>1 DEF State, ClearUnacknowledgedPreKeyMessage
<1> HIDE DEF s
<1>3. /\ t \in [current : State \cup {NoSession}, previous : Seq(State)]
      /\ t.current = s /\ t.previous = r.previous
  BY <1>1, <1>2
<1> HIDE DEF t
<1>4. CurrentBase(t) = CurrentBase(r)
  BY <1>2, <1>3, NoSessionAssumption DEF CurrentBase
<1>5. GoodRecord(t)
  BY <1>3, <1>4 DEF GoodRecord
<1> QED BY <1>3, <1>4, <1>5 DEF t, s

\* If promote_matching_session finds a session, that session is current
\* afterwards and no base key is added.
LEMMA PromoteMatchingGood ==
    ASSUME NEW r, GoodRecord(r), NEW base, HasSession(r, base)
    PROVE  LET t == PromoteMatchingSession(r, base)
           IN  /\ GoodRecord(t)
               /\ t.current # NoSession
               /\ CurrentBase(t) \cup BasesOf(t.previous)
                      \subseteq CurrentBase(r) \cup BasesOf(r.previous)
<1> DEFINE t == PromoteMatchingSession(r, base)
           k == FindPrevious(r, base)
<1>1. CASE IsCurrent(r, base)
  BY <1>1 DEF PromoteMatchingSession, IsCurrent
<1>2. CASE ~ IsCurrent(r, base)
  <2>1. k # 0
    BY <1>2 DEF HasSession
  <2>2. k \in 1 .. Len(r.previous)
    BY <2>1, FindPreviousFinds
  <2>3. t = PromoteOldSession(r, k, r.previous[k])
    BY <1>2, <2>1 DEF PromoteMatchingSession
  <2> HIDE DEF t, k
  <2>4. r.previous[k] \in State
    BY <2>2 DEF GoodRecord
  <2>5. /\ GoodRecord(t) /\ t.current = r.previous[k]
        /\ CurrentBase(t) \cup BasesOf(t.previous) \subseteq CurrentBase(r) \cup BasesOf(r.previous)
    BY <2>2, <2>3, <2>4, PromoteOldGood
  <2>6. t.current # NoSession
    BY <2>4, <2>5, NoSessionAssumption
  <2> QED BY <2>5, <2>6 DEF t
<1> QED BY <1>1, <1>2

-----------------------------------------------------------------------------
LEMMA InitIInv == Init => IInv
<1> SUFFICES ASSUME Init PROVE IInv
  OBVIOUS
<1>1. record.current = NoSession /\ record.previous = << >>
      /\ record \in [current : State \cup {NoSession}, previous : Seq(State)]
  BY DEF Init, NewFresh
<1>2. CurrentBase(record) = {} /\ BasesOf(record.previous) = {} /\ GoodSeq(record.previous)
  BY <1>1 DEF CurrentBase, BasesOf, GoodSeq
<1>3. GoodRecord(record)
  BY <1>1, <1>2, ArchiveLimitAssumption DEF GoodRecord
<1> QED BY <1>2, <1>3 DEF Init, IInv

LEMMA NextIInv == IInv /\ [Next]_vars => IInv'
<1> SUFFICES ASSUME IInv, [Next]_vars PROVE IInv'
  OBVIOUS
<1> DEFINE Bases(r) == CurrentBase(r) \cup BasesOf(r.previous)
<1> USE DEF IInv
<1>1. ASSUME NEW base \in BaseKeys, ProcessPreKeyBundle(base)
      PROVE  IInv'
  <2> DEFINE new == [base |-> base, pending |-> Pending]
  <2>1. new \in State /\ new.base = base
    BY DEF State
  <2>2. base \notin Bases(record) /\ record' = PromoteState(record, new)
        /\ ours' = ours \cup {base} /\ theirs' = theirs
    BY <1>1 DEF ProcessPreKeyBundle
  <2> HIDE DEF new
  <2>3. /\ GoodRecord(record') /\ record'.current = new
        /\ BasesOf(record'.previous) \subseteq Bases(record)
    BY <2>1, <2>2, PromoteGood
  <2>4. CurrentBase(record') = {base}
    BY <2>1, <2>3, NoSessionAssumption DEF CurrentBase
  <2> QED BY <1>1, <2>2, <2>3, <2>4
<1>2. ASSUME NEW base \in BaseKeys, DecryptPreKey(base)
      PROVE  IInv'
  <2> DEFINE new == [base |-> base, pending |-> NotPending]
             promoted == IF HasSession(record, base) THEN PromoteMatchingSession(record, base)
                         ELSE PromoteState(record, new)
  <2>1. new \in State /\ new.base = base
    BY DEF State
  <2>2. record' = [promoted EXCEPT !.current = ClearUnacknowledgedPreKeyMessage(@)]
        /\ ours' = ours /\ theirs' = theirs \cup {base}
    BY <1>2 DEF DecryptPreKey
  <2>3. GoodRecord(promoted) /\ promoted.current # NoSession
        /\ Bases(promoted) \subseteq Bases(record) \cup {base}
    <3>1. CASE HasSession(record, base)
      BY <3>1, PromoteMatchingGood
    <3>2. CASE ~ HasSession(record, base)
      <4>1. base \notin BasesOf(record.previous)
        BY <3>2, FindPreviousFinds DEF HasSession
      <4>2. base \notin CurrentBase(record)
        BY <3>2 DEF HasSession, IsCurrent, CurrentBase
      <4>3. promoted = PromoteState(record, new)
        BY <3>2
      <4> HIDE DEF promoted, new
      <4>4. GoodRecord(promoted) /\ promoted.current = new
            /\ BasesOf(promoted.previous) \subseteq Bases(record)
        BY <2>1, <4>1, <4>2, <4>3, PromoteGood
      <4>5. new # NoSession /\ CurrentBase(promoted) = {base}
        BY <2>1, <4>4, NoSessionAssumption DEF CurrentBase
      <4> QED BY <4>4, <4>5
    <3> QED BY <3>1, <3>2
  <2> HIDE DEF promoted
  <2>4. GoodRecord(record') /\ CurrentBase(record') = CurrentBase(promoted)
        /\ record'.previous = promoted.previous
    BY <2>2, <2>3, AcknowledgeGood
  <2> QED BY <1>2, <2>2, <2>3, <2>4
<1>3. ASSUME DecryptWithCurrent
      PROVE  IInv'
  <2>1. GoodRecord(record') /\ CurrentBase(record') = CurrentBase(record)
        /\ record'.previous = record.previous
    BY <1>3, AcknowledgeGood DEF DecryptWithCurrent
  <2> QED BY <1>3, <2>1 DEF DecryptWithCurrent
<1>4. ASSUME NEW i \in 1 .. Len(record.previous), DecryptWithPrevious(i)
      PROVE  IInv'
  <2> DEFINE s == ClearUnacknowledgedPreKeyMessage(record.previous[i])
  <2>1. record.previous[i] \in State
    BY DEF GoodRecord
  <2>2. s \in State /\ s.base = record.previous[i].base
    BY <2>1 DEF State, ClearUnacknowledgedPreKeyMessage
  <2>3. record' = PromoteOldSession(record, i, s) /\ ours' = ours /\ theirs' = theirs
    BY <1>4 DEF DecryptWithPrevious
  <2> HIDE DEF s
  <2>4. GoodRecord(record') /\ Bases(record') \subseteq Bases(record)
    BY <2>2, <2>3, PromoteOldGood
  <2> QED BY <2>3, <2>4
<1>5. ASSUME Archive
      PROVE  IInv'
  <2>1. record' = ArchiveCurrentState(record) /\ ours' = ours /\ theirs' = theirs
    BY <1>5 DEF Archive
  <2>2. GoodRecord(record') /\ record'.current = NoSession
        /\ BasesOf(record'.previous) \subseteq Bases(record)
    BY <2>1, ArchiveGood
  <2>3. CurrentBase(record') = {}
    BY <2>2 DEF CurrentBase
  <2> QED BY <2>1, <2>2, <2>3
<1>6. ASSUME UNCHANGED vars
      PROVE  IInv'
  BY <1>6 DEF vars
<1> QED BY <1>1, <1>2, <1>3, <1>4, <1>5, <1>6 DEF Next

\* IInv holds in every reachable state.
THEOREM Invariance == Spec => []IInv
BY InitIInv, NextIInv, PTL DEF Spec

\* The record stays a record of sessions whatever sequence of operations the
\* library performs on it.
THEOREM TypeCorrect == Spec => []TypeOK
<1>1. IInv => TypeOK
  BY DEF IInv, GoodRecord, TypeOK
<1> QED BY <1>1, Invariance, PTL

\* archive_current_state_inner never lets the archive exceed its limit.
THEOREM ArchiveStaysBounded == Spec => []ArchiveBounded
<1>1. IInv => ArchiveBounded
  BY DEF IInv, GoodRecord, ArchiveBounded
<1> QED BY <1>1, Invariance, PTL

\* A session taken from the archive has no pre-key items to wrap messages with.
THEOREM ArchiveIsAcknowledged == Spec => []ArchivedNotPending
<1>1. IInv => ArchivedNotPending
  BY DEF IInv, GoodRecord, GoodSeq, ArchivedNotPending
<1> QED BY <1>1, Invariance, PTL

\* promote_matching_session and promote_old_session never leave two sessions
\* with one base key in the record.
THEOREM BaseKeysStayDistinct == Spec => []BaseKeysDistinct
<1>1. IInv => BaseKeysDistinct
  <2> SUFFICES ASSUME IInv PROVE BaseKeysDistinct
    OBVIOUS
  <2>1. \A i, j \in 1 .. Len(record.previous) :
            record.previous[i].base = record.previous[j].base => i = j
    BY DEF IInv, GoodRecord, GoodSeq
  <2>2. ASSUME NEW i \in 1 .. Len(record.previous)
        PROVE  ~ IsCurrent(record, record.previous[i].base)
    <3>1. record.previous[i].base \in BasesOf(record.previous)
      BY DEF BasesOf
    <3>2. record.previous[i].base \notin CurrentBase(record)
      BY <3>1 DEF IInv, GoodRecord
    <3> QED BY <3>2 DEF IsCurrent, CurrentBase
  <2> QED BY <2>1, <2>2 DEF BaseKeysDistinct
<1> QED BY <1>1, Invariance, PTL

-----------------------------------------------------------------------------
(* The sessions used last                                                  *)

Keys(r) == CurrentBase(r) \cup BasesOf(r.previous)

CurrentCount(r) == IF r.current = NoSession THEN 0 ELSE 1

Count(r) == Len(r.previous) + CurrentCount(r)

\* Every session of p was used after the ones behind it, if B[b] is what was used
\* before b.
Falling(p, B) == \A i, j \in 1 .. Len(p) : i < j => p[j].base \in B[p[i].base]

InOrder(r, B) ==
    /\ \A c \in CurrentBase(r) : BasesOf(r.previous) \subseteq B[c]
    /\ Falling(r.previous, B)

\* With n more sessions r is full, if one of the base keys T is missing, and every
\* session of r was used after the missing ones.
Keeps(r, T, B, n) ==
    \A gone \in T \ Keys(r) :
        /\ Count(r) + n >= ARCHIVED_STATES_MAX_LENGTH
        /\ \A b \in Keys(r) : gone \in B[b]

LEMMA KeysTyped ==
    ASSUME NEW r, GoodRecord(r)
    PROVE  /\ Keys(r) \subseteq BaseKeys
           /\ Count(r) \in Nat /\ Len(r.previous) \in Nat /\ CurrentCount(r) \in Nat
<1>1. /\ r.previous \in Seq(State) /\ Len(r.previous) \in Nat
      /\ r.current = NoSession \/ r.current \in State
  BY DEF GoodRecord, GoodSeq
<1>2. \A s \in State : s.base \in BaseKeys
  BY DEF State
<1>3. \A i \in 1 .. Len(r.previous) : r.previous[i] \in State
  BY <1>1
<1>4. BasesOf(r.previous) \subseteq BaseKeys
  BY <1>2, <1>3 DEF BasesOf
<1>5. CurrentBase(r) \subseteq BaseKeys
  BY <1>1, <1>2 DEF CurrentBase
<1>6. CurrentCount(r) \in Nat
  BY DEF CurrentCount
<1> QED BY <1>1, <1>4, <1>5, <1>6 DEF Keys, Count

LEMMA RecentIs ==
    GoodRecord(record) =>
        (HoldsMostRecent <=>
             InOrder(record, before) /\ Keeps(record, ours \cup theirs, before, 0))
<1> SUFFICES ASSUME GoodRecord(record)
             PROVE  HoldsMostRecent <=>
                        InOrder(record, before) /\ Keeps(record, ours \cup theirs, before, 0)
  OBVIOUS
<1>1. Held = Keys(record)
  BY DEF Held, Keys, CurrentBase, BasesOf
<1>2. HeldCount = Count(record)
  BY DEF HeldCount, Count, CurrentCount
<1>3. (record.current # NoSession =>
          \A i \in 1 .. Len(record.previous) :
              record.previous[i].base \in before[record.current.base])
      <=> \A c \in CurrentBase(record) : BasesOf(record.previous) \subseteq before[c]
  BY DEF CurrentBase, BasesOf
<1>4. Count(record) \in Nat
  BY KeysTyped
<1> QED BY <1>1, <1>2, <1>3, <1>4 DEF HoldsMostRecent, InOrder, Falling, Keeps

LEMMA ConsFalling ==
    ASSUME NEW p, GoodSeq(p), NEW s \in State, NEW B, Falling(p, B), BasesOf(p) \subseteq B[s.base]
    PROVE  Falling(<< s >> \o p, B)
<1> DEFINE q == << s >> \o p
<1>1. p \in Seq(State) /\ Len(p) \in Nat
  BY DEF GoodSeq
<1>2. << s >> \in Seq(State) /\ Len(<< s >>) = 1 /\ << s >>[1] = s
  OBVIOUS
<1>3. Len(q) = Len(p) + 1 /\ q[1] = s /\ \A i \in 1 .. Len(p) : q[i + 1] = p[i]
  BY <1>1, <1>2
<1> HIDE DEF q
<1>4. \A i \in 1 .. Len(q) : i = 1 \/ (i - 1 \in 1 .. Len(p) /\ q[i] = p[i - 1])
  <2> TAKE i \in 1 .. Len(q)
  <2>1. i = 1 \/ i - 1 \in 1 .. Len(p)
    BY <1>1, <1>3
  <2>2. i - 1 \in 1 .. Len(p) => q[(i - 1) + 1] = p[i - 1]
    BY <1>3
  <2>3. (i - 1) + 1 = i
    OBVIOUS
  <2> QED BY <2>1, <2>2, <2>3
<1>5. ASSUME NEW i \in 1 .. Len(q), NEW j \in 1 .. Len(q), i < j
      PROVE  q[j].base \in B[q[i].base]
  <2>1. j - 1 \in 1 .. Len(p) /\ q[j] = p[j - 1]
    BY <1>4, <1>5
  <2>2. CASE i = 1
    <3>1. p[j - 1].base \in BasesOf(p)
      BY <2>1 DEF BasesOf
    <3> QED BY <1>3, <2>1, <2>2, <3>1, Zenon
  <2>3. CASE i # 1
    <3>1. i - 1 \in 1 .. Len(p) /\ q[i] = p[i - 1] /\ i - 1 < j - 1
      BY <1>4, <1>5, <2>3
    <3> QED BY <2>1, <3>1, Zenon DEF Falling
  <2> QED BY <2>2, <2>3
<1> QED BY <1>5 DEF Falling, q

\* What MakeRoom gives up was used before everything it keeps.
LEMMA MakeRoomDrops ==
    ASSUME NEW p, GoodSeq(p), NEW B, Falling(p, B), Len(p) <= ARCHIVED_STATES_MAX_LENGTH
    PROVE  LET m == MakeRoom(p)
           IN  /\ Falling(m, B)
               /\ \/ m = p
                  \/ /\ Len(m) + 1 = ARCHIVED_STATES_MAX_LENGTH
                     /\ \A x \in BasesOf(p) \ BasesOf(m), b \in BasesOf(m) : x \in B[b]
<1> DEFINE m == MakeRoom(p)
           n == Len(p) - 1
<1>1. p \in Seq(State) /\ Len(p) \in Nat
  BY DEF GoodSeq
<1>2. CASE Len(p) >= ARCHIVED_STATES_MAX_LENGTH
  <2>1. Len(p) = ARCHIVED_STATES_MAX_LENGTH /\ Len(p) # 0 /\ n \in Nat
    BY <1>1, <1>2, ArchiveLimitAssumption
  <2>2. m = SubSeq(p, 1, n)
    BY <1>2 DEF MakeRoom, WithoutLast
  <2>3. Len(m) = n /\ \A i \in 1 .. n : m[i] = p[i] /\ i \in 1 .. Len(p) /\ i < Len(p)
    BY <1>1, <2>1, <2>2
  <2>4. n + 1 = ARCHIVED_STATES_MAX_LENGTH /\ \A i \in 1 .. Len(p) : i \in 1 .. n \/ i = Len(p)
    BY <1>1, <2>1
  <2> HIDE DEF m, n
  <2>5. Falling(m, B)
    BY <2>3 DEF Falling
  <2>6. ASSUME NEW x \in BasesOf(p) \ BasesOf(m), NEW b \in BasesOf(m)
        PROVE  x \in B[b]
    <3>1. PICK i \in 1 .. n : b = m[i].base
      BY <2>3 DEF BasesOf
    <3>2. PICK j \in 1 .. Len(p) : x = p[j].base
      BY DEF BasesOf
    <3>3. j = Len(p)
      <4>1. j \in 1 .. n => x \in BasesOf(m)
        BY <2>3, <3>2 DEF BasesOf
      <4> QED BY <2>4, <4>1
    <3> QED BY <2>3, <3>1, <3>2, <3>3 DEF Falling
  <2> QED BY <2>3, <2>4, <2>5, <2>6 DEF m
<1>3. CASE ~ (Len(p) >= ARCHIVED_STATES_MAX_LENGTH)
  BY <1>3 DEF MakeRoom
<1> QED BY <1>2, <1>3

\* Archiving the current session gives up the one used longest ago, if any, and
\* only if the archive is full then.
LEMMA ArchiveDrops ==
    ASSUME NEW r, GoodRecord(r), NEW B, InOrder(r, B)
    PROVE  LET t == ArchiveCurrentState(r)
           IN  /\ InOrder(t, B) /\ Keys(t) \subseteq Keys(r)
               /\ Count(t) >= Count(r) \/ Count(t) >= ARCHIVED_STATES_MAX_LENGTH
               /\ Keeps(t, Keys(r), B, 0)
<1> DEFINE t == ArchiveCurrentState(r)
           p == r.previous
           m == MakeRoom(p)
           s == ClearUnacknowledgedPreKeyMessage(r.current)
<1>1. CASE r.current = NoSession
  <2>1. t = r /\ Len(p) \in Nat
    BY <1>1 DEF ArchiveCurrentState, GoodRecord, GoodSeq
  <2>2. Count(r) \in Nat
    BY KeysTyped
  <2>3. Count(t) >= Count(r) /\ Keys(t) = Keys(r) /\ InOrder(t, B)
    BY <2>1, <2>2
  <2> QED BY <2>3 DEF Keeps
<1>2. CASE r.current # NoSession
  <2>1. /\ r.current \in State /\ GoodSeq(p) /\ Len(p) \in Nat
        /\ Len(p) <= ARCHIVED_STATES_MAX_LENGTH /\ CurrentBase(r) = {r.current.base}
    BY <1>2 DEF GoodRecord, GoodSeq, CurrentBase
  <2>2. s \in State /\ s.base = r.current.base
    BY <2>1 DEF State, ClearUnacknowledgedPreKeyMessage
  <2>3. t = [current |-> NoSession, previous |-> << s >> \o m]
    BY <1>2 DEF ArchiveCurrentState
  <2>4. /\ Falling(m, B)
        /\ \/ m = p
           \/ /\ Len(m) + 1 = ARCHIVED_STATES_MAX_LENGTH
              /\ \A x \in BasesOf(p) \ BasesOf(m), b \in BasesOf(m) : x \in B[b]
    BY <2>1, MakeRoomDrops DEF InOrder
  <2>5. GoodSeq(m) /\ BasesOf(m) \subseteq BasesOf(p) /\ Len(m) \in Nat
    <3>1. CASE Len(p) >= ARCHIVED_STATES_MAX_LENGTH
      <4>1. Len(p) # 0 /\ m = WithoutLast(p)
        BY <2>1, <3>1, ArchiveLimitAssumption DEF MakeRoom
      <4>2. GoodSeq(WithoutLast(p)) /\ BasesOf(WithoutLast(p)) \subseteq BasesOf(p)
        BY <2>1, <4>1, WithoutLastGood
      <4> QED BY <4>1, <4>2 DEF GoodSeq
    <3>2. CASE ~ (Len(p) >= ARCHIVED_STATES_MAX_LENGTH)
      BY <2>1, <3>2 DEF MakeRoom
    <3> QED BY <3>1, <3>2
  <2> HIDE DEF s, m, p, t
  <2>6. BasesOf(p) \subseteq B[s.base] /\ Keys(r) = {s.base} \cup BasesOf(p)
    BY <2>1, <2>2 DEF InOrder, Keys, p
  <2>7. Falling(<< s >> \o m, B)
    BY <2>2, <2>4, <2>5, <2>6, ConsFalling
  <2>8. t.current = NoSession /\ t.previous = << s >> \o m /\ CurrentBase(t) = {}
    BY <2>3 DEF CurrentBase
  <2>9. Len(<< s >> \o m) = Len(m) + 1 /\ BasesOf(<< s >> \o m) = {s.base} \cup BasesOf(m)
    <3>1. s.base \notin BasesOf(m) /\ s.pending = NotPending
      BY <2>1, <2>2, <2>5 DEF GoodRecord, p, s, State, ClearUnacknowledgedPreKeyMessage
    <3> QED BY <2>2, <2>5, <3>1, ConsGood
  <2>10. Keys(t) = {s.base} \cup BasesOf(m) /\ Count(t) = Len(m) + 1
    BY <2>5, <2>8, <2>9 DEF Keys, Count, CurrentCount
  <2>11. InOrder(t, B)
    BY <2>7, <2>8 DEF InOrder
  <2>12. CASE m = p
    <3>1. Keys(t) = Keys(r)
      BY <2>6, <2>10, <2>12
    <3>2. Count(t) = Count(r)
      BY <1>2, <2>10, <2>12, Zenon DEF Count, CurrentCount, p
    <3>3. Count(t) \in Nat
      BY <2>5, <2>10
    <3> QED BY <2>11, <3>1, <3>2, <3>3 DEF Keeps, t
  <2>13. CASE /\ Len(m) + 1 = ARCHIVED_STATES_MAX_LENGTH
              /\ \A x \in BasesOf(p) \ BasesOf(m), b \in BasesOf(m) : x \in B[b]
    <3>1. Keys(t) \subseteq Keys(r)
      BY <2>5, <2>6, <2>10, Zenon
    <3>2. Count(t) = ARCHIVED_STATES_MAX_LENGTH /\ Count(t) \in Nat /\ Count(t) + 0 = Count(t)
      BY <2>5, <2>10, <2>13
    <3>3. \A gone \in Keys(r) \ Keys(t), b \in Keys(t) : gone \in B[b]
      BY <2>6, <2>10, <2>13
    <3>4. Count(t) >= ARCHIVED_STATES_MAX_LENGTH
      BY <3>2
    <3> QED BY <2>11, <3>1, <3>2, <3>3, <3>4, Zenon DEF Keeps, t
  <2> QED BY <2>4, <2>12, <2>13
<1> QED BY <1>1, <1>2

\* What Touch makes of B when the base keys T were used.
Touched(B, T, base) ==
    [b \in BaseKeys |-> IF b = base THEN T \ {base} ELSE B[b] \ {base}]

LEMMA TouchedFalling ==
    ASSUME NEW p \in Seq(State), NEW B, Falling(p, B), NEW T, NEW base, base \notin BasesOf(p)
    PROVE  Falling(p, Touched(B, T, base))
<1> SUFFICES ASSUME NEW i \in 1 .. Len(p), NEW j \in 1 .. Len(p), i < j
             PROVE  p[j].base \in Touched(B, T, base)[p[i].base]
  BY DEF Falling
<1>1. p[i] \in State /\ p[i].base # base /\ p[j].base # base
  BY DEF BasesOf
<1>2. p[j].base \in B[p[i].base]
  BY DEF Falling
<1>3. p[i].base \in BaseKeys
  BY <1>1 DEF State
<1> QED BY <1>1, <1>2, <1>3 DEF Touched

\* A record to which a session with the base key of new is added.
LEMMA PromoteRecent ==
    ASSUME NEW r, GoodRecord(r), NEW new \in State, new.base \notin Keys(r),
           NEW B, InOrder(r, B), NEW T, Keys(r) \subseteq T,
           Keeps(r, T \ {new.base}, B, 1)
    PROVE  LET t == PromoteState(r, new)
               C == Touched(B, T, new.base)
           IN  InOrder(t, C) /\ Keeps(t, T \cup {new.base}, C, 0)
<1> DEFINE u == ArchiveCurrentState(r)
           t == PromoteState(r, new)
           base == new.base
           C == Touched(B, T, base)
           MAX == ARCHIVED_STATES_MAX_LENGTH
<1>1. GoodRecord(u) /\ u.current = NoSession
  BY ArchiveGood
<1>2. /\ InOrder(u, B) /\ Keys(u) \subseteq Keys(r)
      /\ Count(u) >= Count(r) \/ Count(u) >= MAX
      /\ Keeps(u, Keys(r), B, 0)
  BY ArchiveDrops
<1>3. t = [u EXCEPT !.current = new]
  BY DEF PromoteState
<1> HIDE DEF u, t
<1>4. t.current = new /\ t.previous = u.previous /\ new # NoSession
  BY <1>1, <1>3, NoSessionAssumption DEF GoodRecord
<1>5. CurrentBase(t) = {base} /\ CurrentBase(u) = {}
  BY <1>1, <1>4 DEF CurrentBase
<1>6. Keys(u) = BasesOf(u.previous) /\ Keys(t) = {base} \cup Keys(u) /\ Count(t) = Count(u) + 1
  BY <1>1, <1>4, <1>5, KeysTyped DEF Keys, Count, CurrentCount
<1>7. /\ Count(u) \in Nat /\ Count(r) \in Nat /\ MAX \in Nat
      /\ Keys(u) \subseteq BaseKeys /\ base \in BaseKeys
  BY <1>1, KeysTyped, ArchiveLimitAssumption DEF State
<1>8. base \notin Keys(u) /\ Keys(u) \subseteq T
  BY <1>2
<1>9. C[base] = T \ {base} /\ \A b \in Keys(u) : C[b] = B[b] \ {base}
  BY <1>7, <1>8, Zenon DEF Touched
<1>10. InOrder(t, C)
  <2>1. Falling(t.previous, C)
    BY <1>1, <1>2, <1>4, <1>6, <1>8, TouchedFalling, Zenon DEF InOrder, GoodRecord
  <2>2. BasesOf(t.previous) \subseteq C[base]
    BY <1>4, <1>6, <1>8, <1>9
  <2> QED BY <1>5, <2>1, <2>2, Zenon DEF InOrder
<1>11. ASSUME NEW gone \in (T \cup {base}) \ Keys(t)
       PROVE  Count(t) >= MAX /\ \A b \in Keys(t) : gone \in C[b]
  <2>1. gone \in T /\ gone # base /\ gone \notin Keys(u)
    BY <1>6, Zenon
  <2>2. Count(t) >= MAX /\ \A b \in Keys(u) : gone \in B[b]
    <3>1. CASE gone \in Keys(r)
      <4>1. Count(u) + 0 >= MAX /\ \A b \in Keys(u) : gone \in B[b]
        BY <1>2, <2>1, <3>1, Zenon DEF Keeps
      <4> QED BY <1>6, <1>7, <4>1
    <3>2. CASE gone \notin Keys(r)
      <4>1. Count(r) + 1 >= MAX /\ \A b \in Keys(r) : gone \in B[b]
        BY <2>1, <3>2, Zenon DEF Keeps
      <4>2. Count(t) >= MAX
        BY <1>2, <1>6, <1>7, <4>1
      <4> QED BY <1>2, <4>1, <4>2, Zenon
    <3> QED BY <3>1, <3>2, Zenon
  <2>3. \A b \in Keys(t) : gone \in C[b]
    BY <1>6, <1>9, <2>1, <2>2
  <2> QED BY <2>2, <2>3
<1>12. Count(t) + 0 = Count(t)
  BY <1>6, <1>7
<1>13. Keeps(t, T \cup {base}, C, 0)
  BY <1>11, <1>12 DEF Keeps
<1> QED BY <1>10, <1>13 DEF t

\* The session that is current is used again.
LEMMA TouchRecent ==
    ASSUME NEW r, GoodRecord(r), NEW base, CurrentBase(r) = {base}, NEW B, InOrder(r, B),
           NEW T, Keys(r) \subseteq T, Keeps(r, T, B, 0)
    PROVE  InOrder(r, Touched(B, T, base)) /\ Keeps(r, T \cup {base}, Touched(B, T, base), 0)
<1> DEFINE C == Touched(B, T, base)
<1>1. base \notin BasesOf(r.previous) /\ r.previous \in Seq(State)
  BY DEF GoodRecord
<1>2. Keys(r) = {base} \cup BasesOf(r.previous) /\ Keys(r) \subseteq BaseKeys
  BY KeysTyped, Zenon DEF Keys
<1>3. C[base] = T \ {base} /\ \A b \in BasesOf(r.previous) : C[b] = B[b] \ {base}
  BY <1>1, <1>2 DEF Touched
<1>4. Falling(r.previous, C)
  BY <1>1, TouchedFalling DEF InOrder
<1> HIDE DEF C
<1>5. InOrder(r, C)
  BY <1>1, <1>2, <1>3, <1>4 DEF InOrder
<1>6. Keeps(r, T \cup {base}, C, 0)
  BY <1>2, <1>3 DEF Keeps
<1> QED BY <1>5, <1>6 DEF C

LEMMA PromoteOldRecent ==
    ASSUME NEW r, GoodRecord(r), NEW i \in 1 .. Len(r.previous),
           NEW updated \in State, updated.base = r.previous[i].base,
           NEW B, InOrder(r, B), NEW T, Keys(r) \subseteq T, Keeps(r, T, B, 0)
    PROVE  LET t == PromoteOldSession(r, i, updated)
               C == Touched(B, T, updated.base)
           IN  InOrder(t, C) /\ Keeps(t, T \cup {updated.base}, C, 0)
<1> DEFINE p == r.previous
           rest == WithoutAt(p, i)
           u == [r EXCEPT !.previous = rest]
           base == updated.base
           At(j) == IF j < i THEN j ELSE j + 1
<1>1. /\ GoodSeq(p) /\ p \in Seq(State) /\ Len(p) \in Nat /\ i \in Nat
      /\ GoodSeq(rest) /\ Len(rest) = Len(p) - 1
      /\ BasesOf(rest) \subseteq BasesOf(p) \ {base}
  <2>1. GoodSeq(p)
    BY DEF GoodRecord
  <2>2. p \in Seq(State) /\ Len(p) \in Nat /\ i \in Nat
    BY <2>1 DEF GoodSeq
  <2> HIDE DEF p, rest
  <2>3. /\ GoodSeq(WithoutAt(p, i)) /\ Len(WithoutAt(p, i)) = Len(p) - 1
        /\ BasesOf(WithoutAt(p, i)) \subseteq BasesOf(p) \ {p[i].base}
    BY <2>1, WithoutAtGood, Zenon DEF p
  <2> QED BY <2>1, <2>2, <2>3, Zenon DEF p, rest
<1>2. rest = [j \in 1 .. Len(p) - 1 |-> p[At(j)]]
  BY DEF WithoutAt
<1>3. PromoteOldSession(r, i, updated) = PromoteState(u, updated)
  BY Zenon DEF PromoteOldSession
<1>4. \A j \in 1 .. Len(rest) : rest[j] = p[At(j)] /\ At(j) \in 1 .. Len(p)
  BY <1>1, <1>2
<1>5. \A j, k \in 1 .. Len(rest) : j < k => At(j) < At(k)
  BY <1>1
<1> HIDE DEF rest
<1>6. Falling(rest, B)
  <2> SUFFICES ASSUME NEW j \in 1 .. Len(rest), NEW k \in 1 .. Len(rest), j < k
               PROVE  rest[k].base \in B[rest[j].base]
    BY Zenon DEF Falling
  <2>1. At(j) \in 1 .. Len(p) /\ At(k) \in 1 .. Len(p) /\ At(j) < At(k)
    BY <1>4, <1>5, Zenon
  <2>2. rest[k] = p[At(k)] /\ rest[j] = p[At(j)]
    BY <1>4, Zenon
  <2> HIDE DEF At
  <2> QED BY <2>1, <2>2, Zenon DEF InOrder, Falling
<1>7. BasesOf(rest) = BasesOf(p) \ {base}
  <2> SUFFICES ASSUME NEW b \in BasesOf(p), b # base PROVE b \in BasesOf(rest)
    BY <1>1
  <2>1. PICK k \in 1 .. Len(p) : b = p[k].base
    BY DEF BasesOf
  <2>2. k # i
    BY <2>1, Zenon
  <2> DEFINE j == IF k < i THEN k ELSE k - 1
  <2>3. j \in 1 .. Len(rest) /\ At(j) = k
    BY <1>1, <2>2
  <2>4. rest[j] = p[k]
    BY <1>4, <2>3, Zenon
  <2> HIDE DEF j
  <2> QED BY <2>1, <2>3, <2>4, Zenon DEF BasesOf
<1> HIDE DEF At
<1>8. /\ u \in [current : State \cup {NoSession}, previous : Seq(State)]
      /\ u.current = r.current /\ u.previous = rest
  BY <1>1 DEF GoodRecord, GoodSeq
<1> HIDE DEF u
<1>9. CurrentBase(u) = CurrentBase(r) /\ base \in BasesOf(p) /\ base \notin CurrentBase(r)
  BY <1>8, Zenon DEF CurrentBase, GoodRecord, BasesOf
<1>10. GoodRecord(u)
  <2>1. Len(rest) <= ARCHIVED_STATES_MAX_LENGTH
    BY <1>1, ArchiveLimitAssumption DEF GoodRecord
  <2> QED BY <1>1, <1>8, <1>9, <2>1, Zenon DEF GoodRecord
<1>11. Keys(u) = Keys(r) \ {base} /\ Count(u) + 1 = Count(r) /\ Count(r) + 0 = Count(r)
  <2>1. CurrentCount(u) = CurrentCount(r) /\ CurrentCount(r) \in Nat
    BY <1>8 DEF CurrentCount
  <2>2. Count(u) = Len(rest) + CurrentCount(r) /\ Count(r) = Len(p) + CurrentCount(r)
    BY <1>8, <2>1, Zenon DEF Count
  <2>3. (Len(p) - 1 + CurrentCount(r)) + 1 = Len(p) + CurrentCount(r)
    BY <1>1, <2>1
  <2>4. Count(u) + 1 = Count(r) /\ Count(r) + 0 = Count(r)
    BY <1>1, <2>1, <2>2, <2>3
  <2> QED BY <1>7, <1>8, <1>9, <2>4, Zenon DEF Keys
<1>12. InOrder(u, B)
  BY <1>1, <1>6, <1>8, <1>9, Zenon DEF InOrder
<1>13. Keeps(u, T \ {base}, B, 1)
  BY <1>11 DEF Keeps
<1>14. base \notin Keys(u) /\ Keys(u) \subseteq T
  BY <1>11
<1> QED BY <1>3, <1>10, <1>12, <1>13, <1>14, PromoteRecent, Zenon

\* Acknowledging the current session changes no base key.
LEMMA SameKeysRecent ==
    ASSUME NEW r, NEW t, CurrentBase(t) = CurrentBase(r), t.previous = r.previous,
           r.current # NoSession, t.current # NoSession, NEW B, NEW T
    PROVE  InOrder(r, B) /\ Keeps(r, T, B, 0) => InOrder(t, B) /\ Keeps(t, T, B, 0)
<1>1. Keys(t) = Keys(r) /\ Count(t) = Count(r)
  BY DEF Keys, Count, CurrentCount
<1> QED BY <1>1 DEF InOrder, Keeps

\* The record has the sessions used last, and it is known what was used.
RInv == IInv /\ HoldsMostRecent

LEMMA InitRInv == Init => RInv
<1> SUFFICES ASSUME Init PROVE RInv
  OBVIOUS
<1>1. IInv
  BY InitIInv
<1>2. record.current = NoSession /\ Len(record.previous) = 0 /\ ours \cup theirs = {}
  BY DEF Init, NewFresh
<1>3. HoldsMostRecent
  BY <1>2 DEF HoldsMostRecent
<1> QED BY <1>1, <1>3 DEF RInv

LEMMA NextRInv == RInv /\ [Next]_vars => RInv'
<1> SUFFICES ASSUME RInv, [Next]_vars PROVE RInv'
  OBVIOUS
<1> DEFINE T == ours \cup theirs
           Recent(r, S, B) == InOrder(r, B) /\ Keeps(r, S, B, 0)
<1>1. IInv /\ IInv' /\ GoodRecord(record) /\ GoodRecord(record')
  BY NextIInv DEF RInv, IInv
<1>2. InOrder(record, before) /\ Keeps(record, T, before, 0) /\ Keys(record) \subseteq T
  BY <1>1, RecentIs DEF RInv, IInv, Keys
<1>3. /\ Count(record) \in Nat
      /\ \A x : Keeps(record, T, before, 0) => Keeps(record, T \ {x}, before, 1)
  <2>1. Count(record) \in Nat
    BY <1>1, KeysTyped
  <2>2. ARCHIVED_STATES_MAX_LENGTH \in Nat
    BY ArchiveLimitAssumption
  <2>3. Count(record) + 0 >= ARCHIVED_STATES_MAX_LENGTH
            => Count(record) + 1 >= ARCHIVED_STATES_MAX_LENGTH
    BY <2>1, <2>2
  <2> QED BY <2>1, <2>3 DEF Keeps
<1>4. SUFFICES Recent(record', T', before')
  <2>1. GoodRecord(record)' =>
            (HoldsMostRecent' <=>
                 (InOrder(record, before) /\ Keeps(record, ours \cup theirs, before, 0))')
    BY RecentIs, PTL
  <2> QED BY <1>1, <2>1 DEF RInv
<1>5. ASSUME NEW base \in BaseKeys, ProcessPreKeyBundle(base)
      PROVE  Recent(record', T', before')
  <2> DEFINE new == [base |-> base, pending |-> Pending]
  <2>1. new \in State /\ new.base = base
    BY DEF State
  <2>2. /\ base \notin T /\ record' = PromoteState(record, new) /\ T' = T \cup {base}
        /\ before' = Touched(before, T, base)
    BY <1>5 DEF ProcessPreKeyBundle, Touch, Touched
  <2> HIDE DEF new
  <2>3. base \notin Keys(record)
    BY <1>2, <2>2
  <2> QED BY <1>1, <1>2, <1>3, <2>1, <2>2, <2>3, PromoteRecent, Zenon
<1>6. ASSUME NEW base \in BaseKeys, DecryptPreKey(base)
      PROVE  Recent(record', T', before')
  <2> DEFINE new == [base |-> base, pending |-> NotPending]
             promoted == IF HasSession(record, base) THEN PromoteMatchingSession(record, base)
                         ELSE PromoteState(record, new)
             C == Touched(before, T, base)
             k == FindPrevious(record, base)
  <2>1. new \in State /\ new.base = base
    BY DEF State
  <2>2. /\ record' = [promoted EXCEPT !.current = ClearUnacknowledgedPreKeyMessage(@)]
        /\ T' = T \cup {base} /\ before' = C
    BY <1>6 DEF DecryptPreKey, Touch, Touched
  <2>3. GoodRecord(promoted) /\ promoted.current # NoSession /\ Recent(promoted, T', C)
    <3>4. /\ HasSession(record, base) => promoted = PromoteMatchingSession(record, base)
          /\ ~ HasSession(record, base) => promoted = PromoteState(record, new)
      BY Zenon
    <3> HIDE DEF promoted, new, C, k
    <3>1. CASE IsCurrent(record, base)
      <4>1. promoted = record
        <5>1. HasSession(record, base)
          BY <3>1, Zenon DEF HasSession
        <5>2. PromoteMatchingSession(record, base) = record
          BY <3>1, Zenon DEF PromoteMatchingSession
        <5> QED BY <3>4, <5>1, <5>2, Zenon
      <4>2. record.current # NoSession /\ CurrentBase(record) = {base}
        BY <3>1, Zenon DEF IsCurrent, CurrentBase
      <4>3. Recent(record, T \cup {base}, C)
        BY <1>1, <1>2, <4>2, TouchRecent, Zenon DEF C
      <4> QED BY <1>1, <2>2, <4>1, <4>2, <4>3, Zenon
    <3>2. CASE ~ IsCurrent(record, base) /\ HasSession(record, base)
      <4>1. k # 0
        BY <3>2, Zenon DEF HasSession, k
      <4>2. k \in 1 .. Len(record.previous) /\ record.previous[k].base = base
        BY <1>1, <4>1, FindPreviousFinds DEF k
      <4>3. promoted = PromoteOldSession(record, k, record.previous[k])
        BY <3>2, <3>4, <4>1, Zenon DEF PromoteMatchingSession, k
      <4>4. record.previous[k] \in State
        BY <1>1, <4>2 DEF GoodRecord
      <4>5. GoodRecord(promoted) /\ promoted.current = record.previous[k]
        BY <1>1, <4>2, <4>3, <4>4, PromoteOldGood
      <4>6. Recent(promoted, T', C)
        BY <1>1, <1>2, <2>2, <4>2, <4>3, <4>4, PromoteOldRecent, Zenon DEF C
      <4>7. record.previous[k] # NoSession
        BY <4>4, NoSessionAssumption
      <4> QED BY <4>5, <4>6, <4>7, Zenon
    <3>3. CASE ~ HasSession(record, base)
      <4>1. base \notin BasesOf(record.previous)
        BY <1>1, <3>3, FindPreviousFinds DEF HasSession
      <4>2. base \notin CurrentBase(record)
        BY <3>3, Zenon DEF HasSession, IsCurrent, CurrentBase
      <4>3. promoted = PromoteState(record, new)
        BY <3>3, <3>4, Zenon
      <4>4. GoodRecord(promoted) /\ promoted.current = new
        BY <1>1, <2>1, <4>1, <4>2, <4>3, PromoteGood
      <4>5. base \notin Keys(record)
        BY <4>1, <4>2 DEF Keys
      <4>6. Recent(promoted, T', C)
        BY <1>1, <1>2, <1>3, <2>1, <2>2, <4>3, <4>5, PromoteRecent, Zenon DEF C
      <4> QED BY <2>1, <4>4, <4>6, NoSessionAssumption, Zenon
    <3> QED BY <3>1, <3>2, <3>3
  <2> HIDE DEF promoted
  <2>4. /\ CurrentBase(record') = CurrentBase(promoted) /\ record'.previous = promoted.previous
    BY <2>2, <2>3, AcknowledgeGood, Zenon
  <2>5. record'.current # NoSession
    BY <2>3, <2>4 DEF CurrentBase
  <2> QED BY <2>2, <2>3, <2>4, <2>5, SameKeysRecent, Zenon
<1>7. ASSUME DecryptWithCurrent
      PROVE  Recent(record', T', before')
  <2>1. /\ record' = [record EXCEPT !.current = ClearUnacknowledgedPreKeyMessage(@)]
        /\ record.current # NoSession /\ T' = T /\ before' = before
    BY <1>7 DEF DecryptWithCurrent
  <2>2. CurrentBase(record') = CurrentBase(record) /\ record'.previous = record.previous
    BY <1>1, <2>1, AcknowledgeGood
  <2>3. record'.current # NoSession
    BY <2>1, <2>2 DEF CurrentBase
  <2> QED BY <1>2, <2>1, <2>2, <2>3, SameKeysRecent, Zenon
<1>8. ASSUME NEW i \in 1 .. Len(record.previous), DecryptWithPrevious(i)
      PROVE  Recent(record', T', before')
  <2> DEFINE s == ClearUnacknowledgedPreKeyMessage(record.previous[i])
  <2>1. record.previous[i] \in State
    BY <1>1 DEF GoodRecord
  <2>2. s \in State /\ s.base = record.previous[i].base
    BY <2>1 DEF State, ClearUnacknowledgedPreKeyMessage
  <2>3. s.base \in T
    BY <1>2, <2>2 DEF Keys, BasesOf
  <2>4. /\ record' = PromoteOldSession(record, i, s) /\ T' = T
        /\ before' = Touched(before, T, s.base)
    BY <1>8, <2>2 DEF DecryptWithPrevious, Touch, Touched
  <2> HIDE DEF s
  <2>5. T \cup {s.base} = T
    BY <2>3
  <2> QED BY <1>1, <1>2, <2>2, <2>4, <2>5, PromoteOldRecent, Zenon
<1>9. ASSUME Archive
      PROVE  Recent(record', T', before')
  <2>1. record' = ArchiveCurrentState(record) /\ T' = T /\ before' = before
    BY <1>9 DEF Archive
  <2>2. /\ InOrder(record', before) /\ Keys(record') \subseteq Keys(record)
        /\ Count(record') >= Count(record) \/ Count(record') >= ARCHIVED_STATES_MAX_LENGTH
        /\ Keeps(record', Keys(record), before, 0)
    BY <1>1, <1>2, <2>1, ArchiveDrops
  <2>3. Count(record') \in Nat /\ ARCHIVED_STATES_MAX_LENGTH \in Nat
    BY <1>1, KeysTyped, ArchiveLimitAssumption
  <2>4. ASSUME NEW gone \in T \ Keys(record')
        PROVE  /\ Count(record') + 0 >= ARCHIVED_STATES_MAX_LENGTH
               /\ \A b \in Keys(record') : gone \in before[b]
    <3>1. CASE gone \in Keys(record)
      BY <2>2, <2>4, <3>1 DEF Keeps
    <3>2. CASE gone \notin Keys(record)
      <4>1. /\ Count(record) + 0 >= ARCHIVED_STATES_MAX_LENGTH
            /\ \A b \in Keys(record) : gone \in before[b]
        BY <1>2, <2>4, <3>2 DEF Keeps
      <4>2. Count(record') + 0 >= ARCHIVED_STATES_MAX_LENGTH
        BY <1>3, <2>2, <2>3, <4>1
      <4> QED BY <2>2, <4>1, <4>2
    <3> QED BY <3>1, <3>2
  <2> QED BY <2>1, <2>2, <2>4 DEF Keeps
<1>10. ASSUME UNCHANGED vars
       PROVE  Recent(record', T', before')
  <2>1. record' = record /\ T' = T /\ before' = before
    BY <1>10 DEF vars
  <2> QED BY <1>2, <2>1
<1> QED BY <1>5, <1>6, <1>7, <1>8, <1>9, <1>10 DEF Next

\* archive_current_state_inner gives up the session that was used longest ago, and
\* only when ARCHIVED_STATES_MAX_LENGTH others were used since: for every limit, and
\* however sessions are started, promoted and archived.
THEOREM MostRecentAreHeld == Spec => []HoldsMostRecent
<1>1. RInv => HoldsMostRecent
  BY DEF RInv
<1> QED BY <1>1, InitRInv, NextRInv, PTL DEF Spec

-----------------------------------------------------------------------------
(* The root keys of a session                                              *)

RatchetKeys == Party \X Nat

\* What may be mixed into a root key.
Secrets == {"pqxdh"} \cup SUBSET RatchetKeys

SenderChains == [ratchet_key : RatchetKeys, seed : Seq(Secrets), index : Nat]

ReceiverChains ==
    [ratchet_key : RatchetKeys, seed : Seq(Secrets), index : Nat, keys : Seq(Nat)]

Ratchets ==
    [root_key : Seq(Secrets), previous_counter : Nat, sender_chain : SenderChains,
     receiver_chains : Seq(ReceiverChains)]

Pqrs == [sent : Nat, received : SUBSET Nat]

MacKeys == [seed : Seq(Secrets), counter : Nat, pqr : Nat]

Bodies == [ratchet_key : RatchetKeys, counter : Nat, pqr : Nat, mac_key : MacKeys]

\* No two receiver chains are for one ratchet key.
DistinctChains(cs) ==
    \A i, j \in 1 .. Len(cs) : cs[i].ratchet_key = cs[j].ratchet_key => i = j

\* The chain that is being sent on was derived with the root key; a message was
\* authenticated with what was the root key of its sender then.
RootsInv ==
    /\ session \in [Party -> [ratchet : Ratchets, pqr : Pqrs]]
    /\ messages \in Seq([from : Party, body : Bodies])
    /\ \A p \in Party :
         /\ session[p].ratchet.sender_chain.seed = session[p].ratchet.root_key
         /\ DistinctChains(session[p].ratchet.receiver_chains)
    /\ \A n \in 1 .. Len(messages) :
         Prefix(messages[n].body.mac_key.seed, session[messages[n].from].ratchet.root_key)
    /\ SessionRootsInStep

\* The fields of sessions, ratchets, chains and messages.
LEMMA SessionFields ==
    ASSUME NEW st \in [ratchet : Ratchets, pqr : Pqrs]
    PROVE  st.ratchet \in Ratchets /\ st.pqr \in Pqrs
BY Zenon

LEMMA RatchetFields ==
    ASSUME NEW r \in Ratchets
    PROVE  /\ r.root_key \in Seq(Secrets) /\ r.sender_chain \in SenderChains
           /\ r.receiver_chains \in Seq(ReceiverChains)
BY DEF Ratchets

LEMMA SenderFields ==
    ASSUME NEW sc \in SenderChains
    PROVE  sc.ratchet_key \in RatchetKeys /\ sc.seed \in Seq(Secrets) /\ sc.index \in Nat
BY DEF SenderChains

LEMMA BodyFields ==
    ASSUME NEW body \in Bodies
    PROVE  /\ body.ratchet_key \in RatchetKeys /\ body.counter \in Nat /\ body.pqr \in Nat
           /\ body.mac_key.seed \in Seq(Secrets)
BY DEF Bodies, MacKeys

\* What two ratchet keys agree on may be mixed into a root key.
LEMMA SecretOfKeys ==
    ASSUME NEW a \in RatchetKeys, NEW b \in RatchetKeys
    PROVE  DH(a, b) \in Secrets
BY DEF DH, Secrets

LEMMA ElementOf ==
    ASSUME NEW T, NEW s \in Seq(T), NEW i \in 1 .. Len(s)
    PROVE  s[i] \in T
OBVIOUS

\* The concatenation of two sequences of counters.
LEMMA ConcatCounters ==
    ASSUME NEW s \in Seq(Nat), NEW t \in Seq(Nat)
    PROVE  /\ s \o t \in Seq(Nat)
           /\ Len(s \o t) = Len(s) + Len(t)
           /\ \A i \in 1 .. (Len(s) + Len(t)) :
                  (s \o t)[i] = IF i <= Len(s) THEN s[i] ELSE t[i - Len(s)]
OBVIOUS

\* Taking a key and advancing leave a receiver chain.
LEMMA TakeType ==
    ASSUME NEW cached \in Seq(Nat), NEW c, \E i \in 1 .. Len(cached) : cached[i] = c
    PROVE  TakeSkippedKey(cached, c) \in Seq(Nat)
<1> DEFINE position == Min({i \in 1 .. Len(cached) : cached[i] = c})
           t == [j \in 1 .. Len(cached) - 1 |-> cached[IF j < position THEN j ELSE j + 1]]
<1>1. TakeSkippedKey(cached, c) = t
  BY Zenon DEF TakeSkippedKey
<1>2. Len(cached) - 1 \in Nat
  OBVIOUS
<1> HIDE DEF position
<1>3. ASSUME NEW j \in 1 .. Len(cached) - 1
      PROVE  cached[IF j < position THEN j ELSE j + 1] \in Nat
  <2> DEFINE k == IF j < position THEN j ELSE j + 1
  <2>1. k \in 1 .. Len(cached)
    BY <1>2
  <2> HIDE DEF k
  <2>2. cached[k] \in Nat
    BY <2>1
  <2> QED  BY <2>2 DEF k
<1>4. t \in Seq(Nat)
  BY <1>2, <1>3
<1> QED  BY <1>1, <1>4

LEMMA StoreType ==
    ASSUME NEW cached \in Seq(Nat), NEW from \in Nat, NEW to \in Nat, from <= to
    PROVE  StoreSkippedKeys(cached, from, to) \in Seq(Nat)
<1> DEFINE all == SkippedCounters(from, to) \o cached
           m == IF Len(all) > MAX_MESSAGE_KEYS THEN MAX_MESSAGE_KEYS ELSE Len(all)
<1>1. SkippedCounters(from, to) \in Seq(Nat)
  <2>1. \A i \in 1 .. (to - from) : to - i \in Nat
    OBVIOUS
  <2> QED  BY <2>1 DEF SkippedCounters
<1>2. all \in Seq(Nat)
  BY <1>1, ConcatCounters, Zenon
<1>3. StoreSkippedKeys(cached, from, to) = SubSeq(all, 1, m)
  BY DEF StoreSkippedKeys
<1> HIDE DEF all
<1>4. m \in Nat /\ m <= Len(all)
  BY <1>2, LimitsAssumption
<1> HIDE DEF m
<1> QED  BY <1>2, <1>3, <1>4

\* What consume_message_key leaves is a receiver chain for the same key.
LEMMA ConsumeType ==
    ASSUME NEW ch \in ReceiverChains, NEW c \in Nat, NEW jumps
    PROVE  /\ ConsumeMessageKey(ch, c, jumps).chain \in ReceiverChains
           /\ ConsumeMessageKey(ch, c, jumps).chain.ratchet_key = ch.ratchet_key
<1>1. ch.index \in Nat /\ ch.keys \in Seq(Nat)
  BY DEF ReceiverChains
<1>2. CASE IsPast(ch, c) /\ HasSkippedKey(ch, c)
  <2> DEFINE t == TakeSkippedKey(ch.keys, c)
  <2>1. t \in Seq(Nat)
    BY <1>1, <1>2, TakeType, Zenon DEF HasSkippedKey
  <2>2. ConsumeMessageKey(ch, c, jumps).chain = [ch EXCEPT !.keys = t]
    BY <1>2, Zenon DEF ConsumeMessageKey
  <2> HIDE DEF t
  <2> QED  BY <2>1, <2>2, Zenon DEF ReceiverChains
<1>3. CASE ~ IsPast(ch, c) /\ ~ TooFarAhead(ch, c, jumps)
  <2> DEFINE t == StoreSkippedKeys(ch.keys, ch.index, c)
             n == c + 1
  <2>1. t \in Seq(Nat) /\ n \in Nat
    <3>1. ch.index <= c
      BY <1>1, <1>3 DEF IsPast
    <3>2. t \in Seq(Nat)
      BY <1>1, <3>1, StoreType, Zenon
    <3> QED  BY <3>2
  <2>2. ConsumeMessageKey(ch, c, jumps).chain = [ch EXCEPT !.keys = t, !.index = n]
    BY <1>3, Zenon DEF ConsumeMessageKey, AdvanceChain
  <2> HIDE DEF t, n
  <2> QED  BY <2>1, <2>2, Zenon DEF ReceiverChains
<1>4. CASE \/ IsPast(ch, c) /\ ~ HasSkippedKey(ch, c)
           \/ ~ IsPast(ch, c) /\ TooFarAhead(ch, c, jumps)
  <2>1. ConsumeMessageKey(ch, c, jumps).chain = ch
    BY <1>4, Zenon DEF ConsumeMessageKey
  <2> QED  BY <2>1
<1> QED  BY <1>2, <1>3, <1>4

\* The receiver chain for a ratchet key, if there is one.
LEMMA FindCases ==
    ASSUME NEW cs \in Seq(ReceiverChains), DistinctChains(cs), NEW k
    PROVE  \/ /\ FindReceiverChainIndex(cs, k) = 0
              /\ \A i \in 1 .. Len(cs) : cs[i].ratchet_key # k
           \/ /\ FindReceiverChainIndex(cs, k) \in 1 .. Len(cs)
              /\ cs[FindReceiverChainIndex(cs, k)].ratchet_key = k
<1> DEFINE found == {i \in 1 .. Len(cs) : cs[i].ratchet_key = k}
<1>1. FindReceiverChainIndex(cs, k) = IF found = {} THEN 0 ELSE Min(found)
  BY Zenon DEF FindReceiverChainIndex
<1>2. CASE found = {}
  BY <1>1, <1>2
<1>3. CASE found # {}
  <2>1. PICK i \in 1 .. Len(cs) : cs[i].ratchet_key = k
    BY <1>3
  <2>2. found = {i}
    BY <2>1 DEF DistinctChains
  <2>3. Min({i}) = i
    BY DEF Min
  <2>4. FindReceiverChainIndex(cs, k) = i
    BY <1>1, <1>3, <2>2, <2>3, Zenon
  <2> QED  BY <2>1, <2>4
<1> QED  BY <1>2, <1>3

\* add_receiver_chain: the new chain is the one that is found afterwards.
LEMMA NewChainIsFound ==
    ASSUME NEW cs \in Seq(ReceiverChains), DistinctChains(cs), NEW new \in ReceiverChains,
           FindReceiverChainIndex(cs, new.ratchet_key) = 0
    PROVE  LET t == TrimReceiverChains(Append(cs, new))
               i == FindReceiverChainIndex(t, new.ratchet_key)
           IN  /\ t \in Seq(ReceiverChains) /\ DistinctChains(t)
               /\ i \in 1 .. Len(t) /\ t[i] = new
<1> DEFINE all == Append(cs, new)
           t == TrimReceiverChains(all)
           i == FindReceiverChainIndex(t, new.ratchet_key)
<1>1. /\ all \in Seq(ReceiverChains) /\ Len(all) = Len(cs) + 1 /\ all[Len(all)] = new
      /\ \A j \in 1 .. Len(cs) : all[j] = cs[j]
  OBVIOUS
<1>2. \A j \in 1 .. Len(cs) : cs[j].ratchet_key # new.ratchet_key
  <2> DEFINE k == FindReceiverChainIndex(cs, new.ratchet_key)
  <2>1. \/ k = 0 /\ \A j \in 1 .. Len(cs) : cs[j].ratchet_key # new.ratchet_key
        \/ k \in 1 .. Len(cs)
    BY FindCases, Zenon
  <2>2. k = 0
    OBVIOUS
  <2> HIDE DEF k
  <2> QED  BY <2>1, <2>2
<1> HIDE DEF all
<1>3. DistinctChains(all)
  <2> SUFFICES ASSUME NEW a \in 1 .. Len(all), NEW b \in 1 .. Len(all),
                      all[a].ratchet_key = all[b].ratchet_key
               PROVE  a = b
    BY DEF DistinctChains
  <2>1. \A j \in 1 .. Len(all) : j \in 1 .. Len(cs) \/ j = Len(all)
    BY <1>1
  <2> QED  BY <1>1, <1>2, <2>1 DEF DistinctChains
<1>4. /\ t \in Seq(ReceiverChains) /\ Len(t) >= 1
      /\ \E n \in Nat : Len(t) + n = Len(all) /\ \A j \in 1 .. Len(t) : t[j] = all[j + n]
  <2>1. CASE Len(all) > MAX_RECEIVER_CHAINS
    <3> DEFINE n == Len(all) - MAX_RECEIVER_CHAINS
    <3>1. n \in Nat /\ n < Len(all) /\ t = SubSeq(all, n + 1, Len(all))
      BY <1>1, <2>1, LimitsAssumption DEF TrimReceiverChains
    <3> HIDE DEF n, t
    <3>2. /\ t \in Seq(ReceiverChains) /\ Len(t) + n = Len(all)
          /\ \A j \in 1 .. Len(t) : t[j] = all[j + n]
      BY <1>1, <3>1
    <3> QED  BY <1>1, <3>1, <3>2
  <2>2. CASE ~ (Len(all) > MAX_RECEIVER_CHAINS)
    <3>1. t = all
      BY <2>2 DEF TrimReceiverChains
    <3> HIDE DEF t
    <3>2. Len(t) + 0 = Len(all) /\ \A j \in 1 .. Len(t) : t[j] = all[j + 0]
      BY <1>1, <3>1
    <3> QED  BY <1>1, <3>1, <3>2
  <2> QED  BY <2>1, <2>2
<1> HIDE DEF t
<1>5. PICK n \in Nat : Len(t) + n = Len(all) /\ \A j \in 1 .. Len(t) : t[j] = all[j + n]
  BY <1>4
<1>6. DistinctChains(t)
  <2> SUFFICES ASSUME NEW a \in 1 .. Len(t), NEW b \in 1 .. Len(t),
                      t[a].ratchet_key = t[b].ratchet_key
               PROVE  a = b
    BY DEF DistinctChains
  <2>1. a + n \in 1 .. Len(all) /\ b + n \in 1 .. Len(all)
    BY <1>4, <1>5
  <2>2. all[a + n].ratchet_key = all[b + n].ratchet_key
    BY <1>5
  <2>3. a + n = b + n
    BY <1>3, <2>1, <2>2 DEF DistinctChains
  <2> QED  BY <2>3
<1>7. Len(t) \in 1 .. Len(t) /\ t[Len(t)] = new
  <2>1. Len(t) \in 1 .. Len(t)
    BY <1>4
  <2>2. t[Len(t)] = all[Len(t) + n]
    BY <1>5, <2>1, Zenon
  <2> QED  BY <1>1, <1>5, <2>1, <2>2, Zenon
<1>8. i \in 1 .. Len(t) /\ t[i].ratchet_key = new.ratchet_key
  <2>1. \/ i = 0 /\ \A j \in 1 .. Len(t) : t[j].ratchet_key # new.ratchet_key
        \/ i \in 1 .. Len(t) /\ t[i].ratchet_key = new.ratchet_key
    BY <1>4, <1>6, FindCases, Zenon
  <2> QED  BY <1>7, <2>1
<1>9. i = Len(t)
  <2> HIDE DEF i
  <2> QED  BY <1>6, <1>7, <1>8 DEF DistinctChains
<1> QED  BY <1>4, <1>6, <1>7, <1>8, <1>9 DEF t, all

\* Mixing the secret of two ratchet keys into a root key.
LEMMA CreateChainType ==
    ASSUME NEW root \in Seq(Secrets), NEW a \in RatchetKeys, NEW b \in RatchetKeys
    PROVE  CreateChain(root, DH(a, b)) \in Seq(Secrets)
<1>1. DH(a, b) \in Secrets
  BY SecretOfKeys, Zenon
<1> QED  BY <1>1 DEF CreateChain

\* A ratchet step: the root key has two secrets more, the receiver chain was
\* derived with the first, the sender chain with both.
LEMMA DhStep ==
    ASSUME NEW r \in Ratchets, DistinctChains(r.receiver_chains),
           NEW remote \in RatchetKeys, NEW mine \in RatchetKeys,
           FindReceiverChainIndex(r.receiver_chains, remote) = 0
    PROVE  LET d == DhRatchetStep(r, remote, mine)
               i == FindReceiverChainIndex(d.receiver_chains, remote)
               new == CreateChain(r.root_key, DH(r.sender_chain.ratchet_key, remote))
           IN  /\ d \in Ratchets /\ DistinctChains(d.receiver_chains)
               /\ d.sender_chain.seed = d.root_key
               /\ i \in 1 .. Len(d.receiver_chains) /\ d.receiver_chains[i].seed = new
               /\ d.root_key = CreateChain(new, DH(mine, remote))
<1> DEFINE d == DhRatchetStep(r, remote, mine)
           new == CreateChain(r.root_key, DH(r.sender_chain.ratchet_key, remote))
           final == CreateChain(new, DH(mine, remote))
           ch == [ratchet_key |-> remote, seed |-> new, index |-> 0, keys |-> << >>]
           t == TrimReceiverChains(Append(r.receiver_chains, ch))
           last == r.sender_chain.index
           pc == IF last = 0 THEN 0 ELSE last - 1
           sc == [ratchet_key |-> mine, seed |-> final, index |-> 0]
<1>1. /\ r.root_key \in Seq(Secrets) /\ r.sender_chain.ratchet_key \in RatchetKeys
      /\ last \in Nat /\ r.receiver_chains \in Seq(ReceiverChains)
  BY RatchetFields, SenderFields, Zenon
<1>2. d = [root_key |-> final, previous_counter |-> pc, sender_chain |-> sc,
           receiver_chains |-> t]
  BY Zenon DEF DhRatchetStep
<1>3. new \in Seq(Secrets)
  BY <1>1, CreateChainType, Zenon
<1>4. final \in Seq(Secrets)
  BY <1>3, CreateChainType, Zenon
<1> HIDE DEF new, final
<1>5. ch \in ReceiverChains /\ ch.ratchet_key = remote /\ ch.seed = new
  BY <1>3 DEF ReceiverChains
<1>6. pc \in Nat
  BY <1>1
<1>7. sc \in SenderChains /\ sc.seed = final
  BY <1>4 DEF SenderChains
<1> HIDE DEF ch, pc, sc
<1>8. /\ t \in Seq(ReceiverChains) /\ DistinctChains(t)
      /\ FindReceiverChainIndex(t, remote) \in 1 .. Len(t)
      /\ t[FindReceiverChainIndex(t, remote)] = ch
  BY <1>1, <1>5, NewChainIsFound, Zenon
<1> HIDE DEF t
<1>9. d \in Ratchets
  <2> HIDE DEF d
  <2> QED  BY <1>2, <1>4, <1>6, <1>7, <1>8, Zenon DEF Ratchets
<1>10. d.root_key = final /\ d.sender_chain = sc /\ d.receiver_chains = t
  BY <1>2
<1> HIDE DEF d
<1> QED  BY <1>5, <1>7, <1>8, <1>9, <1>10, Zenon DEF d, new, final

\* EnsureReceiverChain returns the ratchet it was given, which has the chain, or
\* it makes a ratchet step.
Ensured(r, remote, mine, after) ==
    LET cs == after.receiver_chains
        i  == FindReceiverChainIndex(cs, remote)
    IN  /\ after \in Ratchets /\ DistinctChains(cs) /\ i \in 1 .. Len(cs)
        /\ \/ after = r
           \/ /\ after.sender_chain.seed = after.root_key
              /\ cs[i].seed = CreateChain(r.root_key, DH(r.sender_chain.ratchet_key, remote))
              /\ after.root_key = CreateChain(cs[i].seed, DH(mine, remote))

LEMMA EnsureCases ==
    ASSUME NEW r \in Ratchets, DistinctChains(r.receiver_chains),
           NEW remote \in RatchetKeys, NEW mine \in RatchetKeys
    PROVE  Ensured(r, remote, mine, EnsureReceiverChain(r, remote, mine))
<1>1. CASE FindReceiverChainIndex(r.receiver_chains, remote) = 0
  <2> DEFINE d == DhRatchetStep(r, remote, mine)
             k == FindReceiverChainIndex(d.receiver_chains, remote)
             new == CreateChain(r.root_key, DH(r.sender_chain.ratchet_key, remote))
  <2>1. EnsureReceiverChain(r, remote, mine) = d
    BY <1>1, Zenon DEF EnsureReceiverChain
  <2>2. /\ d \in Ratchets /\ DistinctChains(d.receiver_chains)
        /\ d.sender_chain.seed = d.root_key
        /\ k \in 1 .. Len(d.receiver_chains) /\ d.receiver_chains[k].seed = new
        /\ d.root_key = CreateChain(new, DH(mine, remote))
    BY <1>1, DhStep
  <2> HIDE DEF d
  <2> QED  BY <2>1, <2>2, Zenon DEF Ensured
<1>2. CASE FindReceiverChainIndex(r.receiver_chains, remote) # 0
  <2>1. EnsureReceiverChain(r, remote, mine) = r
    BY <1>2, Zenon DEF EnsureReceiverChain
  <2>2. r.receiver_chains \in Seq(ReceiverChains)
    BY RatchetFields, Zenon
  <2>3. FindReceiverChainIndex(r.receiver_chains, remote) \in 1 .. Len(r.receiver_chains)
    BY <1>2, <2>2, FindCases, Zenon
  <2> QED  BY <2>1, <2>3, Zenon DEF Ensured
<1> QED  BY <1>1, <1>2

\* Replacing a receiver chain by one for the same ratchet key.
SameRoot(r, final) ==
    /\ final \in Ratchets /\ DistinctChains(final.receiver_chains)
    /\ final.root_key = r.root_key /\ final.sender_chain = r.sender_chain

LEMMA ReplaceChain ==
    ASSUME NEW r \in Ratchets, DistinctChains(r.receiver_chains),
           NEW i \in 1 .. Len(r.receiver_chains), NEW ch \in ReceiverChains,
           ch.ratchet_key = r.receiver_chains[i].ratchet_key,
           NEW final, final = [r EXCEPT !.receiver_chains[i] = ch]
    PROVE  SameRoot(r, final)
<1> DEFINE cs == r.receiver_chains
           cs2 == [cs EXCEPT ![i] = ch]
<1>1. cs \in Seq(ReceiverChains)
  BY RatchetFields, Zenon
<1>2. final = [r EXCEPT !.receiver_chains = cs2]
  BY DEF Ratchets
<1> HIDE DEF cs
<1>3. cs2 \in Seq(ReceiverChains)
  BY <1>1 DEF cs
<1>4. Len(cs2) = Len(cs) /\ \A j \in 1 .. Len(cs) : cs2[j].ratchet_key = cs[j].ratchet_key
  BY <1>1 DEF cs
<1>5. DistinctChains(cs) /\ DistinctChains(cs2)
  <2> HIDE DEF cs2
  <2>1. DistinctChains(cs)
    BY DEF cs
  <2> QED  BY <1>4, <2>1 DEF DistinctChains
<1> HIDE DEF cs2
<1>6. final \in Ratchets
  BY <1>2, <1>3, Zenon DEF Ratchets
<1>7. /\ final.receiver_chains = cs2 /\ final.root_key = r.root_key
      /\ final.sender_chain = r.sender_chain
  BY <1>2, Zenon DEF Ratchets
<1> QED  BY <1>5, <1>6, <1>7, Zenon DEF SameRoot

\* recv of SPQR leaves an SPQR state.
LEMMA RecvType ==
    ASSUME NEW pqr \in Pqrs, NEW msg \in Nat
    PROVE  PqrRecv(pqr, msg).state \in Pqrs
BY DEF PqrRecv, Pqrs

\* What a successful decryption of body makes of the session st: it kept the root
\* key, or it made a ratchet step, and then the message was authenticated with the
\* first half of that step.
Decrypted(st, body, after) ==
    /\ after \in [ratchet : Ratchets, pqr : Pqrs]
    /\ DistinctChains(after.ratchet.receiver_chains)
    /\ \/ /\ after.ratchet.root_key = st.ratchet.root_key
          /\ after.ratchet.sender_chain = st.ratchet.sender_chain
       \/ /\ after.ratchet.sender_chain.seed = after.ratchet.root_key
          /\ \E x \in Secrets : Append(st.ratchet.root_key, x) = body.mac_key.seed
          /\ \E y \in Secrets : after.ratchet.root_key = Append(body.mac_key.seed, y)

LEMMA DecryptCases ==
    ASSUME NEW st \in [ratchet : Ratchets, pqr : Pqrs],
           DistinctChains(st.ratchet.receiver_chains),
           NEW body \in Bodies, NEW jumps, NEW mine \in RatchetKeys,
           Decrypt(st, body, jumps, mine).result = "Ok"
    PROVE  Decrypted(st, body, Decrypt(st, body, jumps, mine).session)
<1>1. PICK r, remote : r = st.ratchet /\ remote = body.ratchet_key
  BY Zenon
<1>2. /\ r \in Ratchets /\ st.pqr \in Pqrs /\ remote \in RatchetKeys /\ body.counter \in Nat
      /\ body.pqr \in Nat /\ r.sender_chain.ratchet_key \in RatchetKeys
      /\ DistinctChains(r.receiver_chains)
  BY <1>1, SessionFields, RatchetFields, SenderFields, BodyFields, Zenon
<1>3. PICK ensured : ensured = EnsureReceiverChain(r, remote, mine)
  BY Zenon
<1>4. PICK i : i = FindReceiverChainIndex(ensured.receiver_chains, remote)
  BY Zenon
<1>5. PICK ch : ch = ensured.receiver_chains[i]
  BY Zenon
<1>6. PICK used : used = ConsumeMessageKey(ch, body.counter, jumps).chain
  BY Zenon
<1>7. PICK final : final = [ensured EXCEPT !.receiver_chains[i] = used]
  BY Zenon
<1>8. PICK after : after = Decrypt(st, body, jumps, mine).session
  BY Zenon
<1>9. /\ ch.seed = body.mac_key.seed
      /\ after = [ratchet |-> final, pqr |-> PqrRecv(st.pqr, body.pqr).state]
  <2>1. /\ MessageKey(ch, body.counter, body.pqr) = body.mac_key
        /\ Decrypt(st, body, jumps, mine).session =
             [ratchet |-> final, pqr |-> PqrRecv(st.pqr, body.pqr).state]
    BY <1>1, <1>3, <1>4, <1>5, <1>6, <1>7, Zenon DEF Decrypt, VerifyAndDecrypt
  <2>2. MessageKey(ch, body.counter, body.pqr).seed = ch.seed
    BY DEF MessageKey
  <2> QED  BY <1>8, <2>1, <2>2, Zenon
<1>10. /\ ensured \in Ratchets /\ DistinctChains(ensured.receiver_chains)
       /\ i \in 1 .. Len(ensured.receiver_chains)
       /\ \/ ensured = r
          \/ /\ ensured.sender_chain.seed = ensured.root_key
             /\ ch.seed = CreateChain(r.root_key, DH(r.sender_chain.ratchet_key, remote))
             /\ ensured.root_key = CreateChain(ch.seed, DH(mine, remote))
  <2>1. Ensured(r, remote, mine, ensured)
    BY <1>2, <1>3, EnsureCases, Zenon
  <2> QED  BY <1>4, <1>5, <2>1, Zenon DEF Ensured
<1>11. ch \in ReceiverChains
  BY <1>5, <1>10, RatchetFields, ElementOf, Zenon
<1>12. used \in ReceiverChains /\ used.ratchet_key = ensured.receiver_chains[i].ratchet_key
  <2>1. body.counter \in Nat
    BY <1>2, Zenon
  <2>2. /\ ConsumeMessageKey(ch, body.counter, jumps).chain \in ReceiverChains
        /\ ConsumeMessageKey(ch, body.counter, jumps).chain.ratchet_key = ch.ratchet_key
    BY <1>11, <2>1, ConsumeType, Zenon
  <2> QED  BY <1>5, <1>6, <2>2, Zenon
<1>13. SameRoot(ensured, final)
  <2>1. /\ ensured \in Ratchets /\ DistinctChains(ensured.receiver_chains)
        /\ i \in 1 .. Len(ensured.receiver_chains)
    BY <1>10, Zenon
  <2> QED  BY <1>7, <1>12, <2>1, ReplaceChain, Zenon
<1>14. /\ after \in [ratchet : Ratchets, pqr : Pqrs] /\ after.ratchet = final
  <2>1. PqrRecv(st.pqr, body.pqr).state \in Pqrs
    BY <1>2, RecvType, Zenon
  <2> QED  BY <1>9, <1>13, <2>1, Zenon DEF SameRoot
<1>15. DH(r.sender_chain.ratchet_key, remote) \in Secrets /\ DH(mine, remote) \in Secrets
  BY <1>2, SecretOfKeys, Zenon
<1>16. CASE ensured = r
  <2>1. final.root_key = st.ratchet.root_key /\ final.sender_chain = st.ratchet.sender_chain
    BY <1>1, <1>13, <1>16, Zenon DEF SameRoot
  <2> QED  BY <1>8, <1>13, <1>14, <2>1, Zenon DEF Decrypted, SameRoot
<1>17. CASE /\ ensured.sender_chain.seed = ensured.root_key
            /\ ch.seed = CreateChain(r.root_key, DH(r.sender_chain.ratchet_key, remote))
            /\ ensured.root_key = CreateChain(ch.seed, DH(mine, remote))
  <2>1. /\ final.sender_chain.seed = final.root_key
        /\ \E x \in Secrets : Append(st.ratchet.root_key, x) = body.mac_key.seed
        /\ \E y \in Secrets : final.root_key = Append(body.mac_key.seed, y)
    BY <1>1, <1>9, <1>13, <1>15, <1>17, Zenon DEF CreateChain, SameRoot
  <2> QED  BY <1>8, <1>13, <1>14, <2>1, Zenon DEF Decrypted, SameRoot
<1> QED  BY <1>10, <1>16, <1>17, Zenon

StepAhead(a, b, c) ==
    /\ Len(c) = Len(b) + 1 /\ Prefix(b, c)
    /\ \A s \in Seq(Secrets) : Prefix(s, a) => Prefix(s, c)

\* The ratchet step of the party that was behind puts it ahead: a is its root key
\* before and c its root key after the step, b the other's.
LEMMA StepInStep ==
    ASSUME NEW a \in Seq(Secrets), NEW b \in Seq(Secrets), NEW x \in Secrets, NEW y \in Secrets,
           NEW seed \in Seq(Secrets), NEW c, seed = Append(a, x), c = Append(seed, y),
           Prefix(seed, b), Len(a) = Len(b) + 1 \/ Len(b) = Len(a) + 1
    PROVE  StepAhead(a, b, c)
<1>1. /\ Len(seed) = Len(a) + 1 /\ Len(c) = Len(seed) + 1
      /\ \A i \in 1 .. Len(a) : seed[i] = a[i]
      /\ \A i \in 1 .. Len(seed) : c[i] = seed[i]
  OBVIOUS
<1>2. Len(a) \in Nat /\ Len(b) \in Nat
  OBVIOUS
<1>3. Len(b) = Len(seed) /\ \A i \in 1 .. Len(seed) : seed[i] = b[i]
  BY <1>1, <1>2 DEF Prefix
<1>4. Len(c) = Len(b) + 1 /\ Prefix(b, c)
  BY <1>1, <1>2, <1>3 DEF Prefix
<1>5. ASSUME NEW s \in Seq(Secrets), Prefix(s, a)
      PROVE  Prefix(s, c)
  <2>1. Len(s) \in Nat /\ Len(s) <= Len(a) /\ \A i \in 1 .. Len(s) : s[i] = a[i]
    BY <1>5 DEF Prefix
  <2>2. \A i \in 1 .. Len(s) : i \in 1 .. Len(a) /\ i \in 1 .. Len(seed)
    BY <1>1, <1>2, <2>1
  <2>3. \A i \in 1 .. Len(s) : s[i] = c[i]
    BY <1>1, <2>1, <2>2
  <2> QED  BY <1>1, <1>2, <2>1, <2>3 DEF Prefix
<1> QED  BY <1>4, <1>5, Zenon DEF StepAhead

\* The two roots are in step whichever party is asked.
LEMMA InStepIs ==
    ASSUME session \in [Party -> [ratchet : Ratchets, pqr : Pqrs]], NEW p \in Party
    PROVE  LET a == session[p].ratchet.root_key
               b == session[Peer(p)].ratchet.root_key
           IN  /\ Peer(p) \in Party /\ Peer(p) # p /\ Peer(Peer(p)) = p
               /\ SessionRootsInStep <=> \/ Len(a) = Len(b) + 1 /\ Prefix(b, a)
                                         \/ Len(b) = Len(a) + 1 /\ Prefix(a, b)
<1>1. Peer(p) \in Party /\ Peer(p) # p /\ Peer(Peer(p)) = p /\ Party = {p, Peer(p)}
  BY PartyAssumption DEF Party, Peer
<1> QED  BY <1>1, Zenon DEF SessionRootsInStep

\* The key agreement leaves the initiator one step ahead.
LEMMA RootsInit == SessionInit => RootsInv
<1> SUFFICES ASSUME SessionInit
             PROVE  RootsInv
  OBVIOUS
<1> DEFINE mine == <<Initiator, 1>>
           remote == <<Recipient, 0>>
           root == CreateChain(SharedSecret, DH(mine, remote))
           ch == [ratchet_key |-> remote, seed |-> SharedSecret, index |-> 0, keys |-> << >>]
<1>1. mine \in RatchetKeys /\ remote \in RatchetKeys
  BY DEF RatchetKeys, Party
<1>2. SharedSecret \in Seq(Secrets) /\ Len(SharedSecret) = 1
  BY DEF SharedSecret, Secrets
<1>3. root \in Seq(Secrets)
  BY <1>1, <1>2, CreateChainType, Zenon
<1>4. Len(root) = 2 /\ root[1] = SharedSecret[1]
  <2>1. DH(mine, remote) \in Secrets
    BY <1>1, SecretOfKeys, Zenon
  <2>2. ASSUME NEW t \in Seq(Secrets), NEW x \in Secrets, Len(t) = 1
        PROVE  Len(Append(t, x)) = 2 /\ Append(t, x)[1] = t[1]
    <3>1. /\ Len(Append(t, x)) = Len(t) + 1
          /\ \A i \in 1 .. Len(t) : Append(t, x)[i] = t[i]
      OBVIOUS
    <3> QED  BY <2>2, <3>1
  <2> QED  BY <1>2, <2>1, <2>2, Zenon DEF CreateChain
<1> HIDE DEF root
<1>5. ch \in ReceiverChains
  BY <1>1, <1>2 DEF ReceiverChains
<1> HIDE DEF ch
<1>6. << ch >> \in Seq(ReceiverChains) /\ DistinctChains(<< ch >>)
  BY <1>5 DEF DistinctChains
<1>7. << >> \in Seq(ReceiverChains) /\ DistinctChains(<< >>)
  BY DEF DistinctChains
<1>8. PqrInitial \in Pqrs
  BY Zenon DEF PqrInitial, Pqrs
<1> DEFINE si == [ratchet_key |-> mine, seed |-> root, index |-> 0]
           sr == [ratchet_key |-> remote, seed |-> SharedSecret, index |-> 0]
<1>9. si \in SenderChains /\ sr \in SenderChains /\ si.seed = root /\ sr.seed = SharedSecret
  BY <1>1, <1>2, <1>3 DEF SenderChains
<1> HIDE DEF si, sr
<1>10. /\ InitiatorSession = [ratchet |-> [root_key |-> root, previous_counter |-> 0,
                                          sender_chain |-> si, receiver_chains |-> << ch >>],
                             pqr |-> PqrInitial]
       /\ RecipientSession = [ratchet |-> [root_key |-> SharedSecret, previous_counter |-> 0,
                                          sender_chain |-> sr, receiver_chains |-> << >>],
                             pqr |-> PqrInitial]
  BY Zenon DEF InitiatorSession, RecipientSession, root, ch, si, sr
<1>11. /\ InitiatorSession \in [ratchet : Ratchets, pqr : Pqrs]
       /\ RecipientSession \in [ratchet : Ratchets, pqr : Pqrs]
  <2> HIDE DEF mine, remote
  <2> QED  BY <1>2, <1>3, <1>6, <1>7, <1>8, <1>9, <1>10, Zenon DEF Ratchets
<1>12. /\ InitiatorSession.ratchet.root_key = root
       /\ InitiatorSession.ratchet.sender_chain.seed = root
       /\ DistinctChains(InitiatorSession.ratchet.receiver_chains)
       /\ RecipientSession.ratchet.root_key = SharedSecret
       /\ RecipientSession.ratchet.sender_chain.seed = SharedSecret
       /\ DistinctChains(RecipientSession.ratchet.receiver_chains)
  BY <1>6, <1>7, <1>9, <1>10, Zenon
<1>13. /\ session \in [Party -> [ratchet : Ratchets, pqr : Pqrs]]
       /\ session[Initiator] = InitiatorSession /\ session[Recipient] = RecipientSession
       /\ messages = << >>
  BY <1>11, PartyAssumption, Zenon DEF SessionInit, Party
<1>14. SessionRootsInStep
  <2>1. Peer(Initiator) = Recipient /\ Initiator \in Party
    BY DEF Peer, Party
  <2>2. Prefix(SharedSecret, root) /\ Len(root) = Len(SharedSecret) + 1
    BY <1>2, <1>4 DEF Prefix
  <2> QED  BY <1>12, <1>13, <2>1, <2>2, InStepIs
<1> QED  BY <1>12, <1>13, <1>14 DEF RootsInv, Party

\* Only the session of one party changes, and what it and the messages need to
\* keep of the root keys.
LEMMA RootsStep ==
    ASSUME RootsInv, NEW p \in Party, NEW new \in [ratchet : Ratchets, pqr : Pqrs],
           session' = [session EXCEPT ![p] = new],
           new.ratchet.sender_chain.seed = new.ratchet.root_key,
           DistinctChains(new.ratchet.receiver_chains),
           messages' \in Seq([from : Party, body : Bodies]),
           \A n \in 1 .. Len(messages') :
               Prefix(messages'[n].body.mac_key.seed, session'[messages'[n].from].ratchet.root_key),
           SessionRootsInStep'
    PROVE  RootsInv'
<1>1. session' \in [Party -> [ratchet : Ratchets, pqr : Pqrs]]
  BY Zenon DEF RootsInv
<1>2. ASSUME NEW q \in Party
      PROVE  /\ session'[q].ratchet.sender_chain.seed = session'[q].ratchet.root_key
             /\ DistinctChains(session'[q].ratchet.receiver_chains)
  <2>1. CASE q = p
    <3>1. session'[q] = new
      BY <2>1, Zenon DEF RootsInv
    <3> QED  BY <3>1, Zenon
  <2>2. CASE q # p
    <3>1. session'[q] = session[q]
      BY <2>2, Zenon DEF RootsInv
    <3> QED  BY <3>1, Zenon DEF RootsInv
  <2> QED  BY <2>1, <2>2
<1> QED  BY <1>1, <1>2, Zenon DEF RootsInv

\* encrypt advances the sender chain and nothing else of the ratchet, and
\* authenticates with the chain.
LEMMA EncryptType ==
    ASSUME NEW st \in [ratchet : Ratchets, pqr : Pqrs]
    PROVE  LET e == Encrypt(st)
           IN  /\ e.session \in [ratchet : Ratchets, pqr : Pqrs]
               /\ e.session.ratchet.root_key = st.ratchet.root_key
               /\ e.session.ratchet.sender_chain.seed = st.ratchet.sender_chain.seed
               /\ e.session.ratchet.receiver_chains = st.ratchet.receiver_chains
               /\ e.message \in Bodies
               /\ e.message.mac_key.seed = st.ratchet.sender_chain.seed
<1> DEFINE sc == st.ratchet.sender_chain
           next == NextSenderChain(st.ratchet)
           send == PqrSend(st.pqr)
           key == MessageKey(sc, sc.index, send.msg)
<1>1. st.ratchet \in Ratchets /\ sc \in SenderChains /\ st.pqr \in Pqrs
  BY SessionFields, RatchetFields, Zenon
<1>2. /\ sc.ratchet_key \in RatchetKeys /\ sc.seed \in Seq(Secrets) /\ sc.index \in Nat
  BY <1>1, SenderFields, Zenon
<1>3. send.msg \in Nat /\ send.state \in Pqrs
  BY <1>1 DEF Pqrs, PqrSend
<1>4. [sc EXCEPT !.index = @ + 1] \in SenderChains /\ [sc EXCEPT !.index = @ + 1].seed = sc.seed
  BY <1>1 DEF SenderChains
<1>5. next = [st.ratchet EXCEPT !.sender_chain = [sc EXCEPT !.index = @ + 1]]
  BY <1>1, Zenon DEF NextSenderChain
<1>6. /\ next \in Ratchets /\ next.root_key = st.ratchet.root_key
      /\ next.sender_chain.seed = sc.seed
      /\ next.receiver_chains = st.ratchet.receiver_chains
  <2> DEFINE adv == [sc EXCEPT !.index = @ + 1]
  <2>1. adv \in SenderChains /\ adv.seed = sc.seed /\ next = [st.ratchet EXCEPT !.sender_chain = adv]
    BY <1>4, <1>5, Zenon
  <2> HIDE DEF next, adv
  <2>2. next \in Ratchets
    BY <1>1, <2>1, Zenon DEF Ratchets
  <2>3. /\ next.root_key = st.ratchet.root_key /\ next.sender_chain = adv
        /\ next.receiver_chains = st.ratchet.receiver_chains
    BY <1>1, <2>1, Zenon DEF Ratchets
  <2> QED  BY <2>1, <2>2, <2>3, Zenon
<1>7. key \in MacKeys /\ key.seed = sc.seed
  BY <1>2, <1>3 DEF MessageKey, MacKeys
<1>8. /\ Encrypt(st).session = [ratchet |-> next, pqr |-> send.state]
      /\ Encrypt(st).message = [ratchet_key |-> sc.ratchet_key, counter |-> sc.index,
                                pqr |-> send.msg, mac_key |-> key]
  BY Zenon DEF Encrypt
<1> HIDE DEF next, send, key
<1>9. Encrypt(st).message \in Bodies /\ Encrypt(st).message.mac_key.seed = sc.seed
  BY <1>2, <1>3, <1>7, <1>8 DEF Bodies
<1>10. /\ Encrypt(st).session \in [ratchet : Ratchets, pqr : Pqrs]
       /\ Encrypt(st).session.ratchet = next
  BY <1>3, <1>6, <1>8
<1> QED  BY <1>6, <1>9, <1>10, Zenon

\* Sending authenticates with the root key of now and leaves it alone.
LEMMA SendRoots ==
    ASSUME RootsInv, NEW p \in Party, SendMessage(p)
    PROVE  RootsInv'
<1> DEFINE e == Encrypt(session[p])
           msg == [from |-> p, body |-> e.message]
<1>1. session[p] \in [ratchet : Ratchets, pqr : Pqrs]
  BY Zenon DEF RootsInv
<1>2. /\ e.session \in [ratchet : Ratchets, pqr : Pqrs]
      /\ e.session.ratchet.root_key = session[p].ratchet.root_key
      /\ e.session.ratchet.sender_chain.seed = session[p].ratchet.sender_chain.seed
      /\ e.session.ratchet.receiver_chains = session[p].ratchet.receiver_chains
      /\ e.message \in Bodies
      /\ e.message.mac_key.seed = session[p].ratchet.sender_chain.seed
  BY <1>1, EncryptType, Zenon
<1>3. session' = [session EXCEPT ![p] = e.session] /\ messages' = Append(messages, msg)
  BY Zenon DEF SendMessage
<1> HIDE DEF e
<1>4. \A q \in Party : session'[q].ratchet.root_key = session[q].ratchet.root_key
  BY <1>2, <1>3, Zenon DEF RootsInv
<1>5. msg \in [from : Party, body : Bodies] /\ msg.from = p /\ msg.body = e.message
  BY <1>2
<1> HIDE DEF msg
<1>6. /\ messages \in Seq([from : Party, body : Bodies])
      /\ messages' \in Seq([from : Party, body : Bodies]) /\ Len(messages') = Len(messages) + 1
      /\ messages'[Len(messages) + 1] = msg
      /\ \A n \in 1 .. Len(messages) : messages'[n] = messages[n] /\ messages[n].from \in Party
  <2> DEFINE Sent == [from : Party, body : Bodies]
  <2>1. messages \in Seq(Sent)
    BY Zenon DEF RootsInv
  <2>2. msg \in Sent /\ \A m \in Sent : m.from \in Party
    BY <1>5, Zenon
  <2> HIDE DEF Sent
  <2>3. \A n \in 1 .. Len(messages) : messages[n] \in Sent
    BY <2>1
  <2>4. /\ messages' \in Seq(Sent) /\ Len(messages') = Len(messages) + 1
        /\ messages'[Len(messages) + 1] = msg
        /\ \A n \in 1 .. Len(messages) : messages'[n] = messages[n]
    BY <1>3, <2>1, <2>2
  <2> QED  BY <2>1, <2>2, <2>3, <2>4, Zenon DEF Sent
<1>7. ASSUME NEW n \in 1 .. Len(messages')
      PROVE  Prefix(messages'[n].body.mac_key.seed, session'[messages'[n].from].ratchet.root_key)
  <2>1. n \in 1 .. Len(messages) \/ n = Len(messages) + 1
    BY <1>6
  <2>2. CASE n \in 1 .. Len(messages)
    <3>1. messages'[n] = messages[n] /\ messages[n].from \in Party
      BY <1>6, <2>2, Zenon
    <3>2. Prefix(messages[n].body.mac_key.seed, session[messages[n].from].ratchet.root_key)
      BY <2>2, ZenonT(30) DEF RootsInv
    <3> QED  BY <1>4, <3>1, <3>2, Zenon
  <2>3. CASE n = Len(messages) + 1
    <3>1. messages'[n].body.mac_key.seed = session[p].ratchet.root_key /\ messages'[n].from = p
      BY <1>2, <1>5, <1>6, <2>3, Zenon DEF RootsInv
    <3>2. session[p].ratchet.root_key \in Seq(Secrets)
      BY <1>1, SessionFields, RatchetFields, Zenon
    <3>3. Prefix(session[p].ratchet.root_key, session[p].ratchet.root_key)
      BY <3>2 DEF Prefix
    <3> QED  BY <1>4, <3>1, <3>3, Zenon
  <2> QED  BY <2>1, <2>2, <2>3
<1>8. SessionRootsInStep'
  <2>1. \A q \in Party : Peer(q) \in Party
    BY DEF Party, Peer
  <2> QED  BY <1>4, <2>1, Zenon DEF RootsInv, SessionRootsInStep
<1>9. e.session.ratchet.sender_chain.seed = e.session.ratchet.root_key
      /\ DistinctChains(e.session.ratchet.receiver_chains)
  BY <1>2, Zenon DEF RootsInv
<1> QED  BY <1>2, <1>3, <1>6, <1>7, <1>8, <1>9, RootsStep, Zenon

\* Receiving leaves the root key alone, or the message was authenticated with the
\* peer's root key of now, which is the one this party's ratchet step reaches first.
LEMMA ReceiveRoots ==
    ASSUME RootsInv, NEW p \in Party, NEW n \in DOMAIN messages, ReceiveMessage(p, n)
    PROVE  RootsInv'
<1> DEFINE d == TryDecrypt(p, n)
           q == Peer(p)
           body == messages[n].body
           a == session[p].ratchet.root_key
           b == session[q].ratchet.root_key
           new == d.session
           Sent == [from : Party, body : Bodies]
<1>1. /\ session[p] \in [ratchet : Ratchets, pqr : Pqrs]
      /\ session[q] \in [ratchet : Ratchets, pqr : Pqrs]
      /\ session \in [Party -> [ratchet : Ratchets, pqr : Pqrs]]
      /\ q \in Party /\ q # p /\ Party = {p, q}
      /\ SessionRootsInStep
  <2>1. q \in Party /\ q # p /\ Party = {p, q}
    BY PartyAssumption DEF Party, Peer
  <2> QED  BY <2>1, Zenon DEF RootsInv
<1>2. messages' = messages /\ messages \in Seq(Sent) /\ n \in 1 .. Len(messages)
  <2>1. messages' = messages /\ messages \in Seq(Sent)
    BY Zenon DEF RootsInv, ReceiveMessage
  <2> HIDE DEF Sent
  <2> QED  BY <2>1
<1>3. /\ \A k \in 1 .. Len(messages) :
           /\ messages[k].from \in Party /\ messages[k].body \in Bodies
           /\ messages[k].body.mac_key.seed \in Seq(Secrets)
           /\ Prefix(messages[k].body.mac_key.seed, session[messages[k].from].ratchet.root_key)
  <2>1. \A m \in Sent : m.from \in Party /\ m.body \in Bodies
    BY Zenon
  <2>2. \A y \in Bodies : y.mac_key.seed \in Seq(Secrets)
    BY BodyFields, Zenon
  <2> HIDE DEF Sent
  <2>3. \A k \in 1 .. Len(messages) : messages[k] \in Sent
    BY <1>2
  <2> QED  BY <2>1, <2>2, <2>3, Zenon DEF RootsInv
<1>4. messages[n].from = q /\ session' = [session EXCEPT ![p] = Commit(session[p], d)]
  BY Zenon DEF ReceiveMessage
<1>5. a \in Seq(Secrets) /\ b \in Seq(Secrets)
  BY <1>1, SessionFields, RatchetFields, Zenon
<1>6. CASE d.result # "Ok"
  <2>1. session' = [session EXCEPT ![p] = session[p]]
    BY <1>4, <1>6, Zenon DEF Commit
  <2>2. session' = session
    BY <1>1, <2>1, Zenon
  <2> QED  BY <1>2, <2>2, Zenon DEF RootsInv, SessionRootsInStep
<1>7. CASE d.result = "Ok"
  <2>1. session' = [session EXCEPT ![p] = new]
    BY <1>4, <1>7, Zenon DEF Commit
  <2>2. NewSenderKey(p) \in RatchetKeys
    <3>1. session[p].ratchet.sender_chain.ratchet_key \in Party \X Nat
      BY <1>1, SessionFields, RatchetFields, SenderFields, Zenon DEF RatchetKeys
    <3>2. session[p].ratchet.sender_chain.ratchet_key[2] + 1 \in Nat
      BY <3>1
    <3> QED  BY <3>2, Zenon DEF NewSenderKey, Generation, RatchetKeys
  <2>3. /\ new \in [ratchet : Ratchets, pqr : Pqrs]
        /\ DistinctChains(new.ratchet.receiver_chains)
        /\ \/ /\ new.ratchet.root_key = a
              /\ new.ratchet.sender_chain = session[p].ratchet.sender_chain
           \/ /\ new.ratchet.sender_chain.seed = new.ratchet.root_key
              /\ \E x \in Secrets : Append(a, x) = body.mac_key.seed
              /\ \E y \in Secrets : new.ratchet.root_key = Append(body.mac_key.seed, y)
    <3>1. DistinctChains(session[p].ratchet.receiver_chains) /\ body \in Bodies
      BY <1>2, <1>3, Zenon DEF RootsInv
    <3> DEFINE st == session[p]
               mine == NewSenderKey(p)
               r == Decrypt(st, body, MAX_FORWARD_JUMPS, mine)
    <3>2. d = r
      BY Zenon DEF TryDecrypt
    <3>3. st \in [ratchet : Ratchets, pqr : Pqrs] /\ r.result = "Ok"
      BY <1>1, <1>7, <3>2, Zenon
    <3> HIDE DEF d, body, st, mine
    <3>4. DistinctChains(st.ratchet.receiver_chains) /\ mine \in RatchetKeys
      BY <2>2, <3>1, Zenon DEF st, mine
    <3>5. Decrypted(st, body, r.session)
      BY <3>1, <3>3, <3>4, DecryptCases, Zenon
    <3> HIDE DEF r
    <3> QED  BY <3>2, <3>5, Zenon DEF st, Decrypted
  <2> HIDE DEF d
  <2>4. /\ session'[p] = new /\ session'[q] = session[q]
        /\ session' \in [Party -> [ratchet : Ratchets, pqr : Pqrs]]
    BY <1>1, <2>1, <2>3, Zenon
  <2> DEFINE c == new.ratchet.root_key
  <2>5. ASSUME new.ratchet.sender_chain.seed = c,
               \A s \in Seq(Secrets) : Prefix(s, a) => Prefix(s, c),
               \/ Len(c) = Len(b) + 1 /\ Prefix(b, c)
               \/ Len(b) = Len(c) + 1 /\ Prefix(c, b)
        PROVE  RootsInv'
    <3>1. SessionRootsInStep'
      <4>1. Peer(q) = p
        BY <1>1, PartyAssumption DEF Party, Peer
      <4> QED  BY <1>1, <2>4, <2>5, <4>1, Zenon DEF SessionRootsInStep
    <3>2. ASSUME NEW k \in 1 .. Len(messages)
          PROVE  Prefix(messages[k].body.mac_key.seed,
                        session'[messages[k].from].ratchet.root_key)
      BY <1>1, <1>3, <2>4, <2>5, Zenon
    <3> QED  BY <1>2, <2>1, <2>3, <2>5, <3>1, <3>2, RootsStep, Zenon
  <2>6. \/ Len(a) = Len(b) + 1 /\ Prefix(b, a)
        \/ Len(b) = Len(a) + 1 /\ Prefix(a, b)
    BY <1>1, InStepIs, Zenon
  <2>7. CASE c = a /\ new.ratchet.sender_chain = session[p].ratchet.sender_chain
    BY <2>5, <2>6, <2>7, Zenon DEF RootsInv
  <2>8. CASE /\ new.ratchet.sender_chain.seed = c
             /\ \E x \in Secrets : Append(a, x) = body.mac_key.seed
             /\ \E y \in Secrets : c = Append(body.mac_key.seed, y)
    <3> DEFINE seed == body.mac_key.seed
    <3>1. seed \in Seq(Secrets) /\ Prefix(seed, b)
      BY <1>2, <1>3, <1>4, Zenon
    <3> HIDE DEF a, b, c, body, seed
    <3>2. PICK x \in Secrets : seed = Append(a, x)
      BY <2>8, Zenon DEF seed
    <3>3. PICK y \in Secrets : c = Append(seed, y)
      BY <2>8, Zenon DEF seed
    <3>4. /\ Len(c) = Len(b) + 1 /\ Prefix(b, c)
          /\ \A s \in Seq(Secrets) : Prefix(s, a) => Prefix(s, c)
      <4>1. a \in Seq(Secrets) /\ b \in Seq(Secrets) /\ (Len(a) = Len(b) + 1 \/ Len(b) = Len(a) + 1)
        BY <1>5, <2>6, Zenon DEF a, b
      <4>2. StepAhead(a, b, c)
        BY <3>1, <3>2, <3>3, <4>1, StepInStep, Zenon
      <4> QED  BY <4>2, Zenon DEF StepAhead
    <3> QED  BY <2>5, <2>8, <3>4, Zenon
  <2> QED  BY <2>3, <2>7, <2>8, Zenon
<1> QED  BY <1>6, <1>7, Zenon

\* The invariant of a session of two parties.
THEOREM RootsInvariant == SessionSpec => []RootsInv
<1>1. ASSUME RootsInv, [SessionNext]_sessionVars
      PROVE  RootsInv'
  <2>1. CASE \E p \in Party : SendMessage(p)
    BY <1>1, <2>1, SendRoots, Zenon
  <2>2. CASE \E p \in Party, n \in DOMAIN messages : ReceiveMessage(p, n)
    BY <1>1, <2>2, ReceiveRoots, Zenon
  <2>3. CASE UNCHANGED sessionVars
    BY <1>1, <2>3, Zenon DEF sessionVars, RootsInv, SessionRootsInStep
  <2> QED  BY <1>1, <2>1, <2>2, <2>3, Zenon DEF SessionNext
<1> QED  BY <1>1, RootsInit, PTL DEF SessionSpec

\* However messages are lost, reordered and redelivered, and for every limit on
\* chains, keys and jumps: the root keys of the two parties have had the same
\* secrets mixed in and one party is exactly one ratchet step ahead (create_chain,
\* get_or_create_receiver_chain and the copy that try_decrypt_from_record commits).
THEOREM RootsStayInStep == SessionSpec => []SessionRootsInStep
<1>1. RootsInv => SessionRootsInStep
  BY Zenon DEF RootsInv
<1> QED  BY <1>1, RootsInvariant, PTL

================================================================================
