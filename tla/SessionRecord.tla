---------------------------- MODULE SessionRecord ----------------------------
(***************************************************************************)
(* SessionRecord of rust/protocol/src/state/session.rs: the current session *)
(* with one remote address and the archived previous ones, newest first.   *)
(*                                                                         *)
(* A session state is a record with at least the fields                    *)
(*   base      the base key of its initiator (alice_base_key)              *)
(*   pending   the unacknowledged pre-key items, NotPending once cleared.  *)
(* All sessions have the one version the library creates.                  *)
(***************************************************************************)
EXTENDS Integers, Sequences, Functions, FiniteSetsExt

CONSTANTS
    ARCHIVED_STATES_MAX_LENGTH,   \* consts.rs: 40
    NoSession,                    \* current_session is None
    NotPending                    \* pending_pre_key is None

ASSUME ArchiveLimitAssumption == ARCHIVED_STATES_MAX_LENGTH \in Nat \ {0}

WithoutLast(s) == SubSeq(s, 1, Len(s) - 1)

WithoutAt(s, i) == [j \in 1 .. Len(s) - 1 |-> s[IF j < i THEN j ELSE j + 1]]

\* Position of the first element that passes Test, 0 if there is none.
FirstIndex(s, Test(_)) ==
    LET I == {i \in 1 .. Len(s) : Test(s[i])} IN IF I = {} THEN 0 ELSE Min(I)

NewFresh == [current |-> NoSession, previous |-> << >>]

ClearUnacknowledgedPreKeyMessage(state) == [state EXCEPT !.pending = NotPending]

MakeRoomNewest(previous) ==
    IF Len(previous) >= ARCHIVED_STATES_MAX_LENGTH THEN Tail(previous) ELSE previous

MakeRoom(previous) ==
    IF Len(previous) >= ARCHIVED_STATES_MAX_LENGTH THEN WithoutLast(previous) ELSE previous

ArchiveCurrentStateAsIs(record) ==
    IF record.current = NoSession THEN record
    ELSE [current  |-> NoSession,
          previous |-> << record.current >> \o MakeRoom(record.previous)]

ArchiveCurrentState(record) ==
    IF record.current = NoSession THEN record
    ELSE [current  |-> NoSession,
          previous |-> << ClearUnacknowledgedPreKeyMessage(record.current) >>
                           \o MakeRoom(record.previous)]

PromoteState(record, new_state) ==
    [ArchiveCurrentState(record) EXCEPT !.current = new_state]

PromoteOldSession(record, i, updated) ==
    PromoteState([record EXCEPT !.previous = WithoutAt(@, i)], updated)

\* Position of the archived session with a base key, 0 if there is none.
FindPrevious(record, base) ==
    FirstIndex(record.previous, LAMBDA s : s.base = base)

IsCurrent(record, base) == record.current # NoSession /\ record.current.base = base

\* Faulty variant: only the current session is looked at.
HasSessionCurrentOnly(record, base) == IsCurrent(record, base)

\* The result of promote_matching_session.
HasSession(record, base) == IsCurrent(record, base) \/ FindPrevious(record, base) # 0

\* The record after promote_matching_session.
PromoteMatchingSession(record, base) ==
    LET i == FindPrevious(record, base) IN
    IF IsCurrent(record, base) \/ i = 0 THEN record
    ELSE PromoteOldSession(record, i, record.previous[i])
==============================================================================
