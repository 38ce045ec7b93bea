--------------------------- MODULE MCBackupFrames ---------------------------
(* Frames for the runs of BackupFrames. *)
EXTENDS BackupFrames

CONSTANTS a1, a2, p1, e1, u1, k1, myStory

Person == [kind |-> "Contact", aci |-> << >>, pni |-> << >>, e164 |-> << >>, username |-> << >>,
           blocked |-> FALSE, blockedAt |-> FALSE, identity |-> "DEFAULT", identityKey |-> FALSE,
           fields |-> TRUE]
Self == [kind |-> "Self"]
ReleaseNotes == [kind |-> "ReleaseNotes"]
Keyed(kind) == [kind |-> kind, id |-> k1, fields |-> TRUE]
Stories(id, privacy, members) ==
    [kind |-> "DistributionList", id |-> id, privacy |-> privacy, members |-> members, fields |-> TRUE]

Account(colors, style) == [kind |-> "Account", colors |-> colors, style |-> style, fields |-> TRUE]
Recipient(id, destination_) == [kind |-> "Recipient", id |-> id, destination |-> destination_]
Chat(id, recipient, pin) ==
    [kind |-> "Chat", id |-> id, recipient |-> recipient, pin |-> pin, style |-> << >>,
     dontMentions |-> FALSE, mentions |-> << >>, replies |-> << >>, timer |-> FALSE, timerVersion |-> 0,
     fields |-> TRUE]
Folder(type, included, excluded) ==
    [kind |-> "ChatFolder", type |-> type, included |-> included, excluded |-> excluded, fields |-> TRUE]
Profile(members) == [kind |-> "NotificationProfile", created |-> 1, members |-> members, fields |-> TRUE]
Call(recipient) == [kind |-> "AdHocCall", id |-> 1, recipient |-> recipient, fields |-> TRUE]
Pack(ok) == [kind |-> "StickerPack", id |-> 1, fields |-> ok]
Empty == [kind |-> "Empty"]

-----------------------------------------------------------------------------
(* Recipients, and everything that refers to them. *)

Destinations ==
    {[Person EXCEPT !.aci = <<a1>>, !.username = <<<<u1, "Mixed">>>>],
     [Person EXCEPT !.aci = <<a2>>, !.username = <<<<u1, "lower">>>>],
     [Person EXCEPT !.pni = <<p1>>, !.identity = "VERIFIED", !.identityKey = TRUE],
     [Person EXCEPT !.e164 = <<e1>>, !.pni = <<p1>>],
     Person, Self, Keyed("Group"), Keyed("CallLink"),
     Stories(myStory, "ALL_EXCEPT", <<1>>)}

RecipientFrames ==
    {Recipient(id, d) : id \in {1, 2}, d \in Destinations}
      \cup {Recipient(3, Self), Recipient(3, ReleaseNotes), Recipient(0, Self),
            Recipient(3, [Person EXCEPT !.aci = <<a1>>, !.blockedAt = TRUE]),
            Recipient(3, [Person EXCEPT !.aci = <<a1>>, !.identity = "VERIFIED"]),
            Recipient(3, Stories(k1, "ONLY_WITH", <<1, 2>>)), Recipient(3, Stories(myStory, "ALL", << >>)),
            Recipient(3, Stories(k1, "ALL", << >>)), Recipient(3, Stories(myStory, "DELETED", << >>)),
            Recipient(3, Stories(k1, "DELETED", << >>)),
            Account(<<1>>, <<1>>), Account(<<0>>, << >>), Account(<< >>, <<1>>),
            Chat(1, 1, <<1>>), Chat(1, 2, <<2>>), Chat(2, 2, <<1>>),
            [Chat(2, 1, << >>) EXCEPT !.style = <<1>>], [Chat(2, 1, << >>) EXCEPT !.mentions = <<TRUE>>],
            [Chat(2, 1, << >>) EXCEPT !.timer = TRUE],
            Folder("ALL", << >>, << >>), Folder("CUSTOM", <<1>>, <<2>>), Folder("CUSTOM", <<1>>, <<1>>),
            Profile(<<1, 2>>), Profile(<<1, 1>>), Call(1), Pack(TRUE), Pack(FALSE), Empty}

-----------------------------------------------------------------------------
(* Chat items.  7 is a contact that repeats the data of 2. *)

Alice == [Person EXCEPT !.aci = <<a1>>, !.e164 = <<e1>>]

ChatPrefix ==
    <<Account(<<1>>, <<1>>), Recipient(1, Self), Recipient(2, Alice),
      Recipient(3, [Person EXCEPT !.e164 = <<e1>>]), Recipient(4, [Person EXCEPT !.pni = <<p1>>]),
      Recipient(5, Keyed("Group")), Recipient(6, ReleaseNotes), Recipient(7, Alice),
      Chat(1, 2, <<1>>), Chat(2, 5, << >>), Chat(3, 6, << >>), Chat(4, 1, << >>)>>

Text == [type |-> "Standard", update |-> "", quote |-> << >>, reactions |-> << >>, options |-> << >>,
         multiple |-> FALSE, people |-> << >>, attachment |-> FALSE, fields |-> TRUE]
Of(type) == [Text EXCEPT !.type = type]
Update(update, people) == [Text EXCEPT !.type = "Update", !.update = update, !.people = people]
Votes(options, multiple) == [Text EXCEPT !.type = "Poll", !.options = options, !.multiple = multiple]

Item(author, direction, m) ==
    [author |-> author, direction |-> direction, read |-> FALSE, sends |-> << >>, message |-> m,
     revisions |-> << >>, start |-> << >>, expires |-> << >>, fields |-> TRUE]
Edited(i, r) == [i EXCEPT !.revisions = <<r>>]
In(c, i) == [kind |-> "ChatItem", chat |-> c, item |-> i]

Updates ==
    {Update(u, << >>) : u \in {"JoinedSignal", "ThreadMerge", "ReportedSpam", "ReleaseChannelDonationRequest",
                               "ProfileChange", "GroupChange", "IndividualCall", "Blocked"}}
      \cup {Update("GroupCall", <<1, 2>>), Update("GroupCall", <<3>>), Update("PinMessage", <<4>>),
            Update("PinMessage", <<5>>)}

Messages ==
    {Text, Of("Voice"), Of("PaymentNotification"), Of("DirectStoryReply"), Of("ViewOnce"),
     [Of("AdminDeleted") EXCEPT !.people = <<4>>], [Text EXCEPT !.quote = <<6>>],
     [Text EXCEPT !.quote = <<4>>], [Text EXCEPT !.reactions = <<1, 3>>], [Text EXCEPT !.reactions = <<1, 1>>],
     Votes(<< <<1, 2>>, <<4>> >>, FALSE), Votes(<< <<1>>, <<1>> >>, FALSE), Votes(<< <<1>>, <<1>> >>, TRUE),
     Votes(<< <<1>> >>, FALSE), Votes(<< <<6>>, << >> >>, FALSE)}

Sent(author) == Item(author, IF author = 1 THEN "Outgoing" ELSE "Incoming", Text)
Reply(author) == [Sent(author) EXCEPT !.message = Of("DirectStoryReply")]

ChatFrames ==
    {In(c, Item(a, "Directionless", m)) : c \in {1, 2, 3}, a \in {1, 2, 6}, m \in Updates}
      \cup {In(c, [Sent(a) EXCEPT !.message = m]) : c \in {1, 2}, a \in {1, 2, 7}, m \in Messages}
      \cup {In(c, Edited(i, r)) : c \in {1, 2}, i \in {Sent(1), Reply(1), Sent(2)},
                                  r \in {Sent(1), Reply(1), Sent(2), Edited(Sent(1), Sent(1))}}
      \cup {In(1, Edited([Sent(1) EXCEPT !.message = Of("Voice")], Sent(1))), In(1, Item(1, "Incoming", Text)),
            In(1, Item(2, "Outgoing", Text)), In(9, Sent(1)), In(1, Sent(9)), In(1, Item(1, "Directionless", Text)),
            In(1, [Sent(1) EXCEPT !.sends = <<[to |-> 2, status |-> "Sent"]>>]),
            In(1, [Sent(1) EXCEPT !.sends = <<[to |-> 5, status |-> "Sent"]>>]),
            In(1, Sent(4)), In(3, Sent(6)), In(2, Sent(6)), In(4, Sent(2)), In(4, Sent(1)), In(3, Reply(1)),
            In(1, Item(4, "Directionless", Update("ProfileChange", << >>))), Chat(1, 2, <<2>>), Chat(5, 3, <<1>>), Chat(5, 3, <<2>>), Chat(6, 2, << >>),
            Recipient(2, [Person EXCEPT !.pni = <<p1>>])}
-----------------------------------------------------------------------------

MCInputs ==
    {[prefix |-> << >>, frames |-> RecipientFrames, max |-> 4],
     [prefix |-> ChatPrefix, frames |-> ChatFrames, max |-> 2]}
=============================================================================
