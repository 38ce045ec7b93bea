--------------------------- MODULE BackupChatItems ---------------------------
(***************************************************************************)
(* What a chat item must satisfy (message-backup: backup/chat.rs and the   *)
(* message kinds under backup/chat).  An item is converted against the     *)
(* recipients already read, then checked against the chat it is for.       *)
(*                                                                         *)
(*   item     [author, direction, read, sends, message, revisions,         *)
(*             start, expires, fields]                                     *)
(*   message  [type, update, quote, reactions, options, multiple, people,  *)
(*             attachment, fields]                                         *)
(*                                                                         *)
(* type is the converted one: a standard message with one voice attachment *)
(* is a "Voice".  people are the ids a message names besides these: the    *)
(* admin of an AdminDeleted, the author of a PinMessage, the ringer and    *)
(* starter of a GroupCall.                                                 *)
(***************************************************************************)
EXTENDS BackupRecipients

\* MAX_REMOTE_BACKUP_DISAPPEARING_MESSAGE_TIME, in the model's unit of time.
CONSTANT Day

-----------------------------------------------------------------------------
(* People a message names *)

quote_author(b, id) ==
    /\ Known(b, id)
    /\ LET data == minimal(b, id)
       IN  \/ data.kind = "Contact" /\ HasAciOrE164(data)
           \/ data.kind \in {"Self", "ReleaseNotes"}

reaction_author(b, id) ==
    /\ Known(b, id)
    /\ LET data == minimal(b, id)
       IN  data.kind = "Self" \/ (data.kind = "Contact" /\ HasAciOrE164(data))

poll_voter(b, id) == Known(b, id) /\ IsAccount(minimal(b, id))
pin_author(b, id) == Known(b, id) /\ IsAccount(minimal(b, id))
deleting_admin(b, id) == Known(b, id) /\ IsAccount(minimal(b, id))

call_member(b, id) ==
    /\ Known(b, id)
    /\ LET data == minimal(b, id)
       IN  data.kind = "Self" \/ (data.kind = "Contact" /\ IsSome(data.aci))

send_recipient(b, id) == Known(b, id) /\ IsAccount(minimal(b, id))

-----------------------------------------------------------------------------
(* Messages *)

\* At most one reaction per author.
reaction_set(b, ids) == Distinct(ids) /\ \A k \in DOMAIN ids : reaction_author(b, ids[k])

Voters(m) == FlattenSeq(m.options)

\* A voter votes once for an option, and once in all unless the poll allows more.
poll(b, m) ==
    /\ Len(m.options) >= 2
    /\ \A k \in DOMAIN m.options : Distinct(m.options[k])
    /\ \A k \in DOMAIN Voters(m) : poll_voter(b, Voters(m)[k])
    /\ m.multiple \/ Distinct(Voters(m))

update_message(b, m) ==
    CASE m.update = "PinMessage" -> \A k \in DOMAIN m.people : pin_author(b, m.people[k])
      [] m.update = "GroupCall" -> \A k \in DOMAIN m.people : call_member(b, m.people[k])
      [] OTHER -> TRUE

message(b, m) ==
    /\ m.fields
    /\ \A k \in DOMAIN m.quote : quote_author(b, m.quote[k])
    /\ reaction_set(b, m.reactions)
    /\ CASE m.type = "Poll" -> poll(b, m)
         [] m.type = "AdminDeleted" -> \A k \in DOMAIN m.people : deleting_admin(b, m.people[k])
         [] m.type = "Update" -> update_message(b, m)
         [] OTHER -> TRUE

-----------------------------------------------------------------------------
(* Authors *)

\* The pairs of author and direction that are accepted.
author_direction(data, direction) ==
    \/ data.kind = "Self" /\ direction \in {"Outgoing", "Directionless"}
    \/ data.kind = "ReleaseNotes" /\ direction \in {"Incoming", "Directionless"}
    \/ /\ data.kind = "Contact"
       /\ \/ direction = "Incoming" /\ HasAciOrE164(data)
          \/ direction = "Directionless"

\* UpdateMessage::validate_author
update_author(update, a) ==
    CASE update \in {"JoinedSignal", "EndSession", "ChatSessionRefresh", "IdentityUpdate",
                     "SessionSwitchover"} -> a.kind # "ReleaseNotes"
      [] update \in {"PaymentActivationRequest", "PaymentsActivated", "ThreadMerge"} ->
            a.kind = "Self" \/ is_contact_with_aci(a)
      [] update \in {"ReportedSpam", "Blocked", "Unblocked", "MessageRequestAccepted"} -> a.kind = "Self"
      [] update = "ReleaseChannelDonationRequest" -> a.kind = "ReleaseNotes"
      [] OTHER -> is_valid_sender_account(a)

\* UpdateMessage::validate_chat_recipient
update_chat(update, chat) ==
    CASE update \in {"JoinedSignal", "EndSession", "ChatSessionRefresh", "PaymentActivationRequest",
                     "PaymentsActivated", "ExpirationTimerChange", "IndividualCall"} -> is_individual(chat)
      [] update \in {"GroupChange", "GroupCall"} -> chat.kind = "Group"
      [] update \in {"ThreadMerge", "SessionSwitchover"} -> is_contact_with_aci(chat)
      [] update = "ReleaseChannelDonationRequest" -> chat.kind = "ReleaseNotes"
      [] update \in {"Blocked", "Unblocked"} -> TRUE
      [] OTHER -> chat.kind # "ReleaseNotes"

-----------------------------------------------------------------------------
(* Expiration *)

\* The timer of an item whose start is not recorded should be running.
should_have_started(i) ==
    \/ i.direction = "Incoming" /\ i.read
    \/ /\ i.direction = "Outgoing"
       /\ \A k \in DOMAIN i.sends : i.sends[k].status \notin {"Failed", "Pending"}

expiration(b, i) ==
    \/ ~ IsSome(i.start) /\ ~ IsSome(i.expires)
    \/ /\ ~ IsSome(i.start) /\ IsSome(i.expires)
       /\ ~ should_have_started(i)
       /\ b.purpose # "TakeoutExport"
       /\ b.purpose = "RemoteBackup" => i.expires[1] >= Day
    \/ /\ IsSome(i.start) /\ IsSome(i.expires)
       /\ b.purpose # "TakeoutExport"
       /\ i.start[1] + i.expires[1] >= b.time + (IF b.purpose = "RemoteBackup" THEN Day ELSE 0)

-----------------------------------------------------------------------------
(* Items *)

\* proto::ChatItem, without its revisions.
chat_item_alone(b, i) ==
    /\ i.fields
    /\ \A k \in DOMAIN i.sends : send_recipient(b, i.sends[k].to)
    /\ Known(b, i.author)
    /\ author_direction(minimal(b, i.author), i.direction)
    /\ message(b, i.message)
    /\ i.direction = "Directionless" <=> i.message.type = "Update"
    /\ i.message.type = "Update" => update_author(i.message.update, AuthorKind(minimal(b, i.author)))
    /\ b.purpose = "TakeoutExport" /\ i.message.type = "ViewOnce" => ~ i.message.attachment
    /\ expiration(b, i)

\* Faulty variant: a revision may be of another message type.
revisionAnyType(i, r) ==
    r.author = i.author /\ r.direction = i.direction /\ r.revisions = << >>

revision(i, r) ==
    /\ r.author = i.author
    /\ r.direction = i.direction
    /\ r.message.type = i.message.type
    /\ r.revisions = << >>

chat_item(b, i) ==
    /\ chat_item_alone(b, i)
    /\ i.revisions # << >> => i.message.type \in {"Standard", "DirectStoryReply"}
    /\ \A k \in DOMAIN i.revisions : revision(i, i.revisions[k]) /\ chat_item_alone(b, i.revisions[k])

\* ChatItemData::validate_chat_recipient.  chat is a ChatData of b.
validate_chat_recipient(b, i, chat) ==
    /\ CASE minimal(b, i.author).kind = "Contact" ->
                \/ chat.kind.kind = "Group"
                \/ /\ chat.kind.kind = "Contact"
                   /\ is_same_reference(b, recipient_reference(b, i.author), chat.recipient)
         [] minimal(b, i.author).kind = "ReleaseNotes" -> chat.kind.kind = "ReleaseNotes"
         [] OTHER -> TRUE
    /\ CASE i.message.type = "Update" -> update_chat(i.message.update, chat.kind)
         [] i.message.type \in {"PaymentNotification", "DirectStoryReply"} -> is_contact_with_aci(chat.kind)
         [] i.message.type = "Poll" -> chat.kind.kind # "ReleaseNotes"
         [] i.message.type = "AdminDeleted" -> chat.kind.kind = "Group"
         [] OTHER -> TRUE

-----------------------------------------------------------------------------
(* Every id an item names, itself and its revisions. *)

Named(i) ==
    {i.author} \cup {i.sends[k].to : k \in DOMAIN i.sends}
      \cup ToSet(i.message.quote) \cup ToSet(i.message.reactions)
      \cup ToSet(Voters(i.message)) \cup ToSet(i.message.people)

References(i) == Named(i) \cup UNION {Named(i.revisions[k]) : k \in DOMAIN i.revisions}

=============================================================================
