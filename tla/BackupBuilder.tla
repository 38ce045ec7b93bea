---------------------------- MODULE BackupBuilder ----------------------------
(***************************************************************************)
(* PartialBackup and CompletedBackup (message-backup: backup.rs).          *)
(*                                                                         *)
(* Every add_X(b, f) gives the builder after the frame f and whether it    *)
(* was accepted.  The caller may go on after a frame that was refused.     *)
(* A frame is a record with its kind, "item" for the payload of a chat     *)
(* item, and the fields the checks look at.                                *)
(***************************************************************************)
EXTENDS BackupChatItems, TLC

\* PartialBackup::new
new(method, purpose, time) ==
    [method |-> method, purpose |-> purpose, time |-> time, account |-> << >>,
     recipients |-> << >>, heap |-> << >>, chats |-> << >>, pinned |-> << >>, count |-> 0,
     calls |-> << >>, packs |-> {}, profiles |-> << >>, folders |-> << >>]

accept(b) == [ok |-> TRUE, b |-> b]
refuse(b) == [ok |-> FALSE, b |-> b]

\* What a list of the method keeps: Store everything, ValidateOnly nothing.
extend(b, list, x) == IF b.method = "Store" THEN Append(list, x) ELSE list

References_of(b, ids) == [k \in DOMAIN ids |-> recipient_reference(b, ids[k])]

-----------------------------------------------------------------------------

\* The custom colors, and the color of a style against them.
custom_colors(colors) == 0 \notin ToSet(colors) /\ Distinct(colors)
bubble_color(style, colors) == ToSet(style) \subseteq colors

\* f.style is the color of the default chat style, if it is a custom one.
account_settings(f) == custom_colors(f.colors) /\ bubble_color(f.style, ToSet(f.colors))

add_account_data(b, f) ==
    IF b.account = << >> /\ f.fields /\ account_settings(f)
    THEN accept([b EXCEPT !.account = <<ToSet(f.colors)>>])
    ELSE refuse(b)

\* Lookup<CustomColorId>
CustomColors(b) == IF b.account = << >> THEN {} ELSE b.account[1]

\* What the store keeps of a destination: references in the place of ids.
stored_destination(b, d) ==
    IF d.kind = "DistributionList"
    THEN [d EXCEPT !.members = References_of(b, @)]
    ELSE d

\* Faulty variant: a second recipient with an id replaces the first.
add_recipientReplaces(b, f) ==
    IF f.id # 0 /\ destination(b, f.destination)
    THEN accept(IF b.method = "Store"
                THEN [b EXCEPT !.heap = Append(@, [minimal |-> MinimalRecipientData(f.destination),
                                                   destination |-> stored_destination(b, f.destination)]),
                               !.recipients = (f.id :> Len(b.heap) + 1) @@ @]
                ELSE [b EXCEPT !.recipients = (f.id :> MinimalRecipientData(f.destination)) @@ @])
    ELSE refuse(b)

add_recipient(b, f) ==
    IF /\ f.id # 0
       /\ destination(b, f.destination)
       /\ f.id \notin DOMAIN b.recipients
    THEN accept(IF b.method = "Store"
                THEN [b EXCEPT !.heap = Append(@, [minimal |-> MinimalRecipientData(f.destination),
                                                   destination |-> stored_destination(b, f.destination)]),
                               !.recipients = (f.id :> Len(b.heap) + 1) @@ @]
                ELSE [b EXCEPT !.recipients = (f.id :> MinimalRecipientData(f.destination)) @@ @])
    ELSE refuse(b)

-----------------------------------------------------------------------------

notify_settings(kind, f) ==
    IF kind = "Group" THEN ~ (f.dontMentions /\ f.mentions = <<TRUE>>)
    ELSE f.mentions = << >> /\ f.replies = << >>

\* proto::Chat
chat(b, f) ==
    /\ Known(b, f.recipient)
    /\ minimal(b, f.recipient).kind \in ChatKinds
    /\ notify_settings(minimal(b, f.recipient).kind, f)
    /\ \A k \in DOMAIN b.pinned : f.pin # <<b.pinned[k].order>>
    /\ bubble_color(f.style, CustomColors(b))
    /\ f.fields
    /\ f.timer => f.timerVersion # 0

ChatData(b, f) ==
    [recipient |-> recipient_reference(b, f.recipient),
     kind |-> ChatRecipientKind(minimal(b, f.recipient)), pin |-> f.pin, items |-> << >>]

Pins(b, f) ==
    [k \in DOMAIN f.pin |-> [order |-> f.pin[k], recipient |-> recipient_reference(b, f.recipient)]]

\* The pin is taken only when the id is new.
ChatsData_add_chat(b, f) ==
    IF f.id \in DOMAIN b.chats THEN refuse(b)
    ELSE accept([b EXCEPT !.pinned = @ \o Pins(b, f), !.chats = (f.id :> ChatData(b, f)) @@ @])

add_chat(b, f) == IF f.id # 0 /\ chat(b, f) THEN ChatsData_add_chat(b, f) ELSE refuse(b)

ChatItemData(b, i, index) ==
    [item |-> i, index |-> index, refs |-> [id \in References(i) |-> recipient_reference(b, id)]]

ChatsData_add_chat_item(b, f) ==
    IF f.chat \in DOMAIN b.chats /\ validate_chat_recipient(b, f.item, b.chats[f.chat])
    THEN accept([b EXCEPT !.count = @ + 1,
                          !.chats[f.chat].items = extend(b, @, ChatItemData(b, f.item, b.count))])
    ELSE refuse(b)

add_chat_item(b, f) == IF chat_item(b, f.item) THEN ChatsData_add_chat_item(b, f) ELSE refuse(b)

-----------------------------------------------------------------------------

\* proto::AdHocCall
ad_hoc_call(b, f) == f.fields /\ Known(b, f.recipient) /\ minimal(b, f.recipient).kind = "CallLink"

add_ad_hoc_call(b, f) ==
    IF ad_hoc_call(b, f)
    THEN accept([b EXCEPT !.calls = extend(b, @, [id |-> f.id, recipient |-> recipient_reference(b, f.recipient)])])
    ELSE refuse(b)

add_sticker_pack(b, f) ==
    IF f.fields /\ f.id \notin b.packs THEN accept([b EXCEPT !.packs = @ \cup {f.id}]) ELSE refuse(b)

\* proto::NotificationProfile
notification_profile(b, f) ==
    /\ f.fields
    /\ Distinct(f.members)
    /\ \A id \in ToSet(f.members) : Known(b, id) /\ minimal(b, id).kind \in {"Contact", "Group"}

add_notification_profile(b, f) ==
    IF notification_profile(b, f)
    THEN accept([b EXCEPT !.profiles =
                    Append(@, [created |-> f.created, members |-> References_of(b, f.members)])])
    ELSE refuse(b)

\* The folder of all chats has no members of its own.
validate_all_chat_folder(f) == f.fields /\ f.included = << >> /\ f.excluded = << >>

\* proto::ChatFolder
chat_folder(b, f) ==
    \/ f.type = "ALL" /\ validate_all_chat_folder(f)
    \/ /\ f.type = "CUSTOM"
       /\ f.fields
       /\ Distinct(f.included \o f.excluded)
       /\ \A id \in ToSet(f.included \o f.excluded) : Known(b, id) /\ minimal(b, id).kind \in ChatKinds

add_chat_folder(b, f) ==
    IF chat_folder(b, f)
    THEN accept([b EXCEPT !.folders =
                    Append(@, [type |-> f.type, included |-> References_of(b, f.included),
                               excluded |-> References_of(b, f.excluded)])])
    ELSE refuse(b)

-----------------------------------------------------------------------------

\* A frame with no item, "Empty", is refused.
add_frame(b, f) ==
    CASE f.kind = "Account" -> add_account_data(b, f)
      [] f.kind = "Recipient" -> add_recipient(b, f)
      [] f.kind = "Chat" -> add_chat(b, f)
      [] f.kind = "ChatItem" -> add_chat_item(b, f)
      [] f.kind = "AdHocCall" -> add_ad_hoc_call(b, f)
      [] f.kind = "StickerPack" -> add_sticker_pack(b, f)
      [] f.kind = "NotificationProfile" -> add_notification_profile(b, f)
      [] f.kind = "ChatFolder" -> add_chat_folder(b, f)
      [] f.kind = "Empty" -> refuse(b)

\* CompletedBackup::try_from
complete(b) ==
    /\ b.account # << >>
    /\ b.folders # << >> => Cardinality({k \in DOMAIN b.folders : b.folders[k].type = "ALL"}) = 1
    /\ check_for_duplicate_recipients(b)

=============================================================================
