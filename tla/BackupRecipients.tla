-------------------------- MODULE BackupRecipients --------------------------
(***************************************************************************)
(* Recipients of a backup (message-backup: backup/recipient.rs, the lookup *)
(* and the references of backup.rs).  A backup b is built by one of two    *)
(* methods.  ValidateOnly keeps the minimal data of a recipient and refers *)
(* to it by its id.  Store keeps it in an Arc, here an index of b.heap,    *)
(* which is also the reference.                                            *)
(*                                                                         *)
(* Options are sequences of length 0 or 1.  A name is <<letters, case>>.   *)
(* What a conversion checks in one field alone (lengths, enum values,      *)
(* timestamps) is the Boolean "fields".                                    *)
(***************************************************************************)
EXTENDS Integers, Sequences, SequencesExt, FiniteSets

CONSTANT MY_STORY_UUID

IsSome(x) == x # << >>
Distinct(seq) == IsInjective(seq)

to_ascii_lowercase(username) == [k \in DOMAIN username |-> <<username[k][1], "lower">>]

-----------------------------------------------------------------------------
(* References *)

as_ref(b, data) == IF b.method = "Store" THEN b.heap[data].minimal ELSE data
recipient_reference(b, id) == IF b.method = "Store" THEN b.recipients[id] ELSE id

\* Faulty variant: the data is compared, not the Arc.
is_same_referenceData(b, left, right) ==
    IF b.method = "Store" THEN b.heap[left].minimal = b.heap[right].minimal ELSE left = right

\* Arc::ptr_eq, or equal ids.
is_same_reference(b, left, right) == left = right

\* lookup_pair
Known(b, id) == id \in DOMAIN b.recipients
minimal(b, id) == as_ref(b, b.recipients[id])

-----------------------------------------------------------------------------
(* Kinds *)

ChatKinds == {"Contact", "Group", "Self", "ReleaseNotes"}

\* ChatRecipientKind::try_from, for the kinds that can have a chat.
ChatRecipientKind(data) ==
    [kind |-> data.kind, has_aci |-> data.kind = "Contact" /\ IsSome(data.aci)]

is_individual(chat) == chat.kind \in {"Contact", "Self"}
is_contact_with_aci(k) == k.kind = "Contact" /\ k.has_aci

\* ChatItemAuthorKind
AuthorKind(data) ==
    [kind |-> data.kind,
     has_aci |-> data.kind = "Contact" /\ IsSome(data.aci),
     has_e164 |-> data.kind = "Contact" /\ IsSome(data.e164)]

is_valid_sender_account(a) == a.kind = "Self" \/ (a.kind = "Contact" /\ (a.has_aci \/ a.has_e164))

IsAccount(data) == data.kind \in {"Contact", "Self"}
HasAciOrE164(data) == IsSome(data.aci) \/ IsSome(data.e164)

-----------------------------------------------------------------------------
(* Conversions *)

\* proto::Contact
contact(c) ==
    /\ c.fields
    /\ c.blockedAt => c.blocked
    /\ IsSome(c.aci) \/ IsSome(c.pni) \/ IsSome(c.e164)
    /\ c.identity # "DEFAULT" => c.identityKey

\* Members of a distribution list: contacts that can be sent to.
ListMember(b, id) ==
    /\ Known(b, id)
    /\ LET data == minimal(b, id)
       IN  data.kind = "Contact" /\ (IsSome(data.aci) \/ IsSome(data.pni))

\* proto::DistributionListItem
distribution_list(b, d) ==
    /\ d.fields
    /\ \/ d.privacy = "DELETED" /\ d.id # MY_STORY_UUID
       \/ /\ Distinct(d.members)
          /\ \A k \in DOMAIN d.members : ListMember(b, d.members[k])
          /\ \/ d.privacy = "ONLY_WITH"
             \/ d.privacy = "ALL_EXCEPT" /\ d.id = MY_STORY_UUID /\ d.members # << >>
             \/ d.privacy = "ALL" /\ d.id = MY_STORY_UUID /\ d.members = << >>

\* proto::Recipient
destination(b, d) ==
    \/ d.kind = "Contact" /\ contact(d)
    \/ d.kind = "DistributionList" /\ distribution_list(b, d)
    \/ d.kind \in {"Group", "CallLink"} /\ d.fields
    \/ d.kind \in {"Self", "ReleaseNotes"}

\* The identifiers, with the name as ContactData has it.
MinimalRecipientData(d) ==
    CASE d.kind = "Contact" ->
            [kind |-> "Contact", aci |-> d.aci, pni |-> d.pni, e164 |-> d.e164,
             username |-> to_ascii_lowercase(d.username)]
      [] d.kind \in {"Group", "DistributionList", "CallLink"} -> [kind |-> d.kind, id |-> d.id]
      [] OTHER -> [kind |-> d.kind]

-----------------------------------------------------------------------------
(* Completion *)

Identifiers == {"username", "e164", "aci", "pni"}

\* insert_or_error finds the key taken.
SameRecipient(x, y) ==
    /\ x.kind = y.kind
    /\ CASE x.kind = "Contact" -> \E key \in Identifiers : IsSome(x[key]) /\ x[key] = y[key]
         [] x.kind \in {"Self", "ReleaseNotes"} -> TRUE
         [] OTHER -> x.id = y.id

check_for_duplicate_recipients(b) ==
    /\ \A i, j \in DOMAIN b.recipients : i # j => ~ SameRecipient(minimal(b, i), minimal(b, j))
    /\ \E i \in DOMAIN b.recipients : minimal(b, i).kind = "Self"

=============================================================================
