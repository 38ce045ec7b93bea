--------------------------- MODULE SessionArchive ----------------------------
(***************************************************************************)
(* One SessionRecord under every sequence of the operations the library    *)
(* performs on it: sessions started by us, sessions started by the peer's  *)
(* pre-key messages (also repeated ones), messages that decrypt with the   *)
(* current or an archived session, and archive_current_state.              *)
(***************************************************************************)
EXTENDS SessionRecord

CONSTANTS
    BaseKeys,       \* base keys of both parties
    Pending         \* pre-key items of a session that is not acknowledged

ASSUME PendingAssumption == Pending # NotPending

State == [base : BaseKeys, pending : {Pending, NotPending}]

ASSUME NoSessionAssumption == NoSession \notin State

VARIABLES
    record,     \* the session record
    ours,       \* base keys we started sessions with
    theirs,     \* base keys the peer started sessions with
    before      \* before[b]: base keys whose session was last made current before b's

vars == <<record, ours, theirs, before>>

Init ==
    /\ record = NewFresh
    /\ ours = {} /\ theirs = {}
    /\ before = [b \in BaseKeys |-> {}]

\* The base key's session becomes the most recently used one.
Touch(base) ==
    before' = [b \in BaseKeys |-> IF b = base THEN (ours \cup theirs) \ {base}
                                 ELSE before[b] \ {base}]

\* process_prekey_bundle: a new session under a newly generated base key.
ProcessPreKeyBundle(base) ==
    /\ base \notin ours \cup theirs
    /\ record' = PromoteState(record, [base |-> base, pending |-> Pending])
    /\ ours' = ours \cup {base}
    /\ Touch(base)
    /\ UNCHANGED theirs

\* message_decrypt_prekey, when the message decrypts: the session with its
\* base key becomes the current one, and is created if there is none.
DecryptPreKey(base) ==
    /\ base \notin ours
    /\ LET promoted == IF HasSession(record, base) THEN PromoteMatchingSession(record, base)
                       ELSE PromoteState(record, [base |-> base, pending |-> NotPending])
       IN  record' = [promoted EXCEPT !.current = ClearUnacknowledgedPreKeyMessage(@)]
    /\ theirs' = theirs \cup {base}
    /\ Touch(base)
    /\ UNCHANGED ours

\* message_decrypt_signal with the current session.
DecryptWithCurrent ==
    /\ record.current # NoSession
    /\ record' = [record EXCEPT !.current = ClearUnacknowledgedPreKeyMessage(@)]
    /\ UNCHANGED <<ours, theirs, before>>

\* message_decrypt_signal with a previous session, which is promoted.
DecryptWithPrevious(i) ==
    /\ record' = PromoteOldSession(record, i,
                     ClearUnacknowledgedPreKeyMessage(record.previous[i]))
    /\ Touch(record.previous[i].base)
    /\ UNCHANGED <<ours, theirs>>

Archive ==
    /\ record' = ArchiveCurrentState(record)
    /\ UNCHANGED <<ours, theirs, before>>

Next ==
    \/ \E base \in BaseKeys : ProcessPreKeyBundle(base)
    \/ \E base \in BaseKeys : DecryptPreKey(base)
    \/ DecryptWithCurrent
    \/ \E i \in 1 .. Len(record.previous) : DecryptWithPrevious(i)
    \/ Archive

Spec == Init /\ [][Next]_vars

-----------------------------------------------------------------------------
TypeOK ==
    /\ record \in [current : State \cup {NoSession}, previous : Seq(State)]
    /\ ours \subseteq BaseKeys /\ theirs \subseteq BaseKeys

\* The archive never exceeds its limit.
ArchiveBounded == Len(record.previous) <= ARCHIVED_STATES_MAX_LENGTH

\* An archived session is never unacknowledged, so a session that is promoted
\* again never makes message_encrypt wrap a message with stale pre-key items.
ArchivedNotPending ==
    \A i \in 1 .. Len(record.previous) : record.previous[i].pending = NotPending

\* No two sessions of the record have the same base key, however often
\* pre-key messages are repeated and sessions promoted.
BaseKeysDistinct ==
    /\ \A i, j \in 1 .. Len(record.previous) :
           record.previous[i].base = record.previous[j].base => i = j
    /\ \A i \in 1 .. Len(record.previous) : ~ IsCurrent(record, record.previous[i].base)

\* The base keys of the record's sessions, and how many sessions it has.
Held ==
    {record.previous[i].base : i \in 1 .. Len(record.previous)} \cup
        (IF record.current = NoSession THEN {} ELSE {record.current.base})

HeldCount == Len(record.previous) + (IF record.current = NoSession THEN 0 ELSE 1)

\* The record holds the sessions used last, in the order of their use, and
\* never gives up one of the ARCHIVED_STATES_MAX_LENGTH used last.
HoldsMostRecent ==
    /\ record.current # NoSession =>
           \A i \in 1 .. Len(record.previous) :
               record.previous[i].base \in before[record.current.base]
    /\ \A i, j \in 1 .. Len(record.previous) :
           i < j => record.previous[j].base \in before[record.previous[i].base]
    /\ \A gone \in (ours \cup theirs) \ Held :
           /\ HeldCount >= ARCHIVED_STATES_MAX_LENGTH
           /\ \A b \in Held : gone \in before[b]
==============================================================================
