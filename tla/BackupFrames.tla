---------------------------- MODULE BackupFrames ----------------------------
(***************************************************************************)
(* A backup read frame by frame (message-backup: backup.rs), by the two    *)
(* methods at once: v only validates, s stores.  After the frames of a     *)
(* prefix come any of a set of frames in any order, at most so many of     *)
(* them accepted; a refused frame is passed over, as the caller of the     *)
(* online validator may do.                                                *)
(***************************************************************************)
EXTENDS BackupBuilder, Folds

CONSTANTS
    Inputs,     \* set of [prefix: sequence of frames, frames: set of frames, max: Nat]
    Purpose, BackupTime

VARIABLES
    v,          \* PartialBackup<ValidateOnly>
    s,          \* PartialBackup<Store>
    n,          \* frames accepted after the prefix
    result,     \* "open", then what CompletedBackup::try_from said
    input       \* the frames of this backup

vars == <<v, s, n, result, input>>

\* The builder after the frames of the prefix.
Fed(b) == FoldLeft(LAMBDA acc, f : add_frame(acc, f).b, b, input.prefix)

Init ==
    /\ input \in Inputs
    /\ v = Fed(new("ValidateOnly", Purpose, BackupTime))
    /\ s = Fed(new("Store", Purpose, BackupTime))
    /\ n = 0
    /\ result = "open"

\* add_frame_item on a frame of the kind.
AddFrame(kind) ==
    /\ result = "open"
    /\ n < input.max
    /\ \E f \in input.frames :
          /\ f.kind = kind
          /\ LET checked == add_frame(v, f)
                 stored == add_frame(s, f)
             IN  /\ v' = checked.b
                 /\ s' = stored.b
                 /\ n' = IF stored.ok THEN n + 1 ELSE n
    /\ UNCHANGED <<result, input>>

AddAccountData == AddFrame("Account")
AddRecipient == AddFrame("Recipient")
AddChat == AddFrame("Chat")
AddChatItem == AddFrame("ChatItem")
AddAdHocCall == AddFrame("AdHocCall")
AddStickerPack == AddFrame("StickerPack")
AddNotificationProfile == AddFrame("NotificationProfile")
AddChatFolder == AddFrame("ChatFolder")
AddEmpty == AddFrame("Empty")

Finish ==
    /\ result = "open"
    /\ result' = IF complete(s) THEN "complete" ELSE "refused"
    /\ UNCHANGED <<v, s, n, input>>

Next ==
    \/ AddAccountData \/ AddRecipient \/ AddChat \/ AddChatItem \/ AddAdHocCall
    \/ AddStickerPack \/ AddNotificationProfile \/ AddChatFolder \/ AddEmpty
    \/ Finish

Spec == Init /\ [][Next]_vars

-----------------------------------------------------------------------------

\* The two methods are one validator: whatever was read, and whatever was
\* refused on the way, they accept the same next frames and agree on whether
\* the backup is complete (backup.rs, ReferencedTypes for Store and ValidateOnly).
MethodsAgree ==
    /\ \A f \in input.frames : add_frame(v, f).ok = add_frame(s, f).ok
    /\ complete(v) = complete(s)

\* The id that the validator keeps and the Arc that the store keeps are the same
\* recipient to the end: no later frame changes what an id stands for
\* (backup.rs, add_recipient and recipient_reference).
ReferencesCorrespond ==
    LET same(id, arc) == id \in DOMAIN s.recipients /\ s.recipients[id] = arc
    IN  /\ DOMAIN v.chats = DOMAIN s.chats
        /\ \A c \in DOMAIN s.chats :
              /\ same(v.chats[c].recipient, s.chats[c].recipient)
              /\ \A k \in DOMAIN s.chats[c].items : \A id \in DOMAIN s.chats[c].items[k].refs :
                    same(id, s.chats[c].items[k].refs[id])
        /\ \A k \in DOMAIN s.pinned : same(v.pinned[k].recipient, s.pinned[k].recipient)
        /\ \A k \in DOMAIN s.profiles : \A m \in DOMAIN s.profiles[k].members :
              same(v.profiles[k].members[m], s.profiles[k].members[m])
        /\ \A k \in DOMAIN s.folders : \A m \in DOMAIN s.folders[k].included :
              same(v.folders[k].included[m], s.folders[k].included[m])

\* A revision is never checked against the chat, and fits it all the same
\* (chat.rs, the conversion of the revisions and validate_chat_recipient).
RevisionsFitTheChat ==
    \A c \in DOMAIN s.chats : \A k \in DOMAIN s.chats[c].items :
        LET i == s.chats[c].items[k].item
        IN  \A r \in ToSet(i.revisions) : validate_chat_recipient(s, r, s.chats[c])
=============================================================================
