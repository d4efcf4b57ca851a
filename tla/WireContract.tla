---------------------------- MODULE WireContract ----------------------------
(***************************************************************************)
(* What the server writes and what the client's decoders (src/frontend/src  *)
(* /dto) make of it.  A value is told apart by its kind only; a shape is    *)
(* what a decoder takes of each field it reads, and a payload may hold more *)
(* fields.  One field that is refused refuses the whole answer, a list with *)
(* all its items, and a frame of a socket goes to the first shape that      *)
(* takes it.                                                                *)
(***************************************************************************)
EXTENDS Integers, Sequences, FiniteSets, TLC

CONSTANTS Rooms, MaxUnread
WireAssumption == MaxUnread \in Nat \ {0} /\ IsFiniteSet(Rooms)

VARIABLES shape,   \* what the server means to send
          payload, \* what it writes
          taken,   \* what the client takes it for
          shown,   \* the decoded fields
          unread,  \* the unread counts of an inbox frame
          kept     \* what the client makes of them
wireVars == <<shape, payload, taken, shown, unread, kept>>

Text == {"text"}
AnyText == {"text", "blank"}
Number == {"number"}
Flag == {"flag"}
Id == {"number", "text"}
Nothing == {"null", "absent"}
Optional(S) == S \cup {"absent"}
Nullish(S) == S \cup Nothing

-----------------------------------------------------------------------------
\* dto/http/chat.ts: what is taken ...
Face == [profileImage |-> Nullish(AnyText), avatarCrop |-> Nullish({"object"})]
Known == [publicRef |-> Text, username |-> AnyText, displayName |-> Optional(AnyText)]
Peer == Face @@ [lastSeen |-> Nullish(AnyText), bio |-> Nullish(AnyText), username |-> Text] @@ Known
Room == [name |-> AnyText, kind |-> Text, avatarUrl |-> Nullish(AnyText),
         avatarCrop |-> Nullish({"object"}), peer |-> Nullish({"object"}),
         created |-> Optional(Flag), createdBy |-> Nullish(AnyText)]
Reply == [id |-> Number, publicRef |-> Nullish(AnyText), username |-> AnyText \cup {"null"},
          displayName |-> Nullish(AnyText), content |-> AnyText]
Attachment == [id |-> Number, originalFilename |-> AnyText, contentType |-> AnyText,
               fileSize |-> Number, url |-> Nullish(AnyText), thumbnailUrl |-> Nullish(AnyText),
               width |-> Nullish(Number), height |-> Nullish(Number)]
Message == [id |-> Number, username |-> Text, content |-> AnyText, profilePic |-> Nullish(AnyText),
            avatarCrop |-> Nullish({"object"}), createdAt |-> AnyText, editedAt |-> Nullish(AnyText),
            isDeleted |-> Optional(Flag), replyTo |-> Nullish({"object"}),
            attachments |-> Optional({"list"}), reactions |-> Optional({"list"})] @@ Known
Page == [limit |-> Number, hasMore |-> Flag, nextBefore |-> Number \cup {"null"}]
Resolved == [targetKind |-> Text, roomId |-> Id, roomKind |-> Text, resolvedTarget |-> Text,
             peer |-> Optional({"object"}), room |-> Optional({"object"})]
DirectChat == [roomId |-> Id, peer |-> {"object"}, lastMessage |-> AnyText,
               lastMessageAt |-> Nullish(AnyText)]
Edited == [id |-> Number, content |-> AnyText, editedAt |-> AnyText]
Reacted == [messageId |-> Number, emoji |-> AnyText, userId |-> Number] @@ Known
Found == [id |-> Number, content |-> AnyText, createdAt |-> AnyText, highlight |-> Nullish(AnyText)] @@ Known
Uploaded == [id |-> Number, content |-> AnyText, publicRef |-> Optional(AnyText),
             username |-> Optional(AnyText), displayName |-> Optional(AnyText),
             profilePic |-> Nullish(AnyText), createdAt |-> Optional(AnyText),
             replyTo |-> Nullish({"object"}), attachments |-> {"list"}]
RoomAttachment == [messageId |-> Number, createdAt |-> AnyText] @@ Known @@ Attachment
ReadState == [roomId |-> Id, lastReadMessageId |-> Number \cup {"null"}, lastReadAt |-> Nullish(AnyText)]
Reader == Face @@ [userId |-> Number, username |-> Text, readAt |-> AnyText] @@ Known
Readers == [roomKind |-> Text, messageId |-> Number, readAt |-> Nullish(AnyText),
            readers |-> Optional({"list"})]
FoundGroup == [roomId |-> Id, name |-> AnyText, description |-> Optional(AnyText), publicRef |-> Text,
               roomTarget |-> Optional(Text), memberCount |-> Optional(Number),
               isPublic |-> Optional(Flag)]
FoundMessage == [id |-> Number, content |-> AnyText, createdAt |-> AnyText, roomId |-> Id,
                 roomName |-> Optional(AnyText), roomKind |-> Optional(Text),
                 roomTarget |-> Nullish(AnyText)] @@ Known

\* ... and what the server writes.  An author whose account is gone leaves the
\* name his message was stored with.
PeerSent == [userId : Number, publicRef : Text, username : Text, displayName : Text,
             profileImage : {"text", "null"}, avatarCrop : {"object", "null"},
             lastSeen : {"text", "null"}, bio : AnyText]
RoomSent == [roomId : Number, name : AnyText, kind : Text, created : Flag, createdBy : {"text", "null"},
             peer : {"object", "null"}, avatarUrl : {"text", "null"}, avatarCrop : {"object", "null"}]
ReplySent ==
    [id : Number, publicRef : {"text", "null"}, username : Text, displayName : Text, content : AnyText]
       \cup [id : Number, publicRef : {"null"}, username : {"null"}, displayName : {"null"}, content : Text]
AttachmentSent == [id : Number, originalFilename : Text, contentType : Text, fileSize : Number,
                   url : {"text", "null"}, thumbnailUrl : {"text", "null"},
                   width : {"number", "null"}, height : {"number", "null"}]
MessageSent == [id : Number, publicRef : Text, username : Text, displayName : Text, content : AnyText,
                profilePic : {"text", "null"}, avatarCrop : {"object", "null"}, createdAt : Text,
                editedAt : {"text", "null"}, isDeleted : Flag, replyTo : {"object", "null"},
                attachments : {"list"}, reactions : {"list"}]
PageSent == [limit : Number, hasMore : Flag, nextBefore : {"number", "null"}]
ResolvedSent == [targetKind : Text, roomId : Number, roomKind : Text, resolvedTarget : Text]
                   \cup [targetKind : Text, roomId : Number, roomKind : Text, resolvedTarget : Text,
                         peer : {"object"}]
                   \cup [targetKind : Text, roomId : Number, roomKind : Text, resolvedTarget : Text,
                         room : {"object"}]
DirectChatSent == [roomId : Number, peer : {"object"}, lastMessage : AnyText,
                   lastMessageAt : {"text", "null"}]
EditedSent == [id : Number, content : Text, editedAt : Text]
ReactedSent == [messageId : Number, emoji : Text, userId : Number, publicRef : Text, username : Text,
                displayName : Text]
FoundSent == [id : Number, publicRef : Text, username : Text, displayName : Text, content : Text,
              createdAt : Text, highlight : {"text", "null"}]
UploadedSent == [id : Number, content : AnyText, publicRef : Text, username : Text, displayName : Text,
                 profilePic : {"text", "null"}, createdAt : Text, replyTo : {"object", "null"},
                 attachments : {"list"}]
RoomAttachmentSent == [id : Number, originalFilename : Text, contentType : Text, fileSize : Number,
                       url : {"text", "null"}, thumbnailUrl : {"text", "null"},
                       width : {"number", "null"}, height : {"number", "null"}, messageId : Number,
                       createdAt : Text, publicRef : Text, username : Text, displayName : Text]
ReadStateSent == [roomId : Number, lastReadMessageId : {"number", "null"}, lastReadAt : {"text", "null"}]
ReaderSent == [userId : Number, publicRef : Text, username : Text, displayName : Text,
               profileImage : {"text", "null"}, avatarCrop : {"object", "null"}, readAt : Text]
ReadersSent == [roomKind : Text, messageId : Number, readAt : {"text", "null"}, readers : {"list"}]
FoundGroupSent == [roomId : Number, name : Text, description : AnyText, publicRef : Text,
                   roomTarget : Text, memberCount : Number, isPublic : Flag]
FoundMessageSent == [id : Number, publicRef : Text, username : Text, displayName : Text, content : Text,
                     createdAt : Text, roomId : Number, roomName : AnyText, roomKind : Text,
                     roomTarget : {"text", "null"}]

-----------------------------------------------------------------------------
\* dto/http/auth.ts
User == Face @@ [name |-> Optional(AnyText), handle |-> Nullish(AnyText), publicRef |-> Optional(AnyText),
                 publicId |-> Optional(AnyText), isSuperuser |-> Optional(Flag),
                 email |-> Optional(AnyText), bio |-> Optional(AnyText),
                 lastSeen |-> Nullish(AnyText), registeredAt |-> Nullish(AnyText)]
Session == [authenticated |-> Flag, user |-> {"object", "null"}, wsAuthToken |-> Nullish(Text),
            twoFactorRequired |-> Optional(Flag)]
GuestSession == [ok |-> Flag, wsAuthToken |-> Nullish(Text)]
Security == [email |-> Nullish(AnyText), emailVerified |-> Optional(Flag), hasPassword |-> Flag,
             oauthProviders |-> Optional({"list"}), twoFactorEnabled |-> Flag,
             twoFactorEnabledAt |-> Nullish(AnyText)]
TwoFactorSetup == [manualKey |-> Text, otpauthUri |-> Text, qrSvg |-> Text]

UserSent == [name : AnyText, handle : {"text", "null"}, publicId : Text, publicRef : Text,
             isSuperuser : Flag, email : AnyText, profileImage : {"text", "null"},
             avatarCrop : {"object", "null"}, bio : AnyText, lastSeen : {"text", "null"},
             registeredAt : {"text", "null"}]
SessionSent == [authenticated : Flag, user : {"object", "null"}, wsAuthToken : {"text", "null"}]
                  \cup [authenticated : Flag, user : {"null"}, wsAuthToken : {"null"},
                        twoFactorRequired : Flag]
GuestSessionSent == [ok : Flag, wsAuthToken : Text]
SecuritySent == [email : {"text", "null"}, emailVerified : Flag, hasPassword : Flag,
                 oauthProviders : {"list"}, twoFactorEnabled : Flag, twoFactorEnabledAt : {"text", "null"}]
TwoFactorSetupSent == [manualKey : Text, otpauthUri : Text, qrSvg : Text]

\* dto/http/groups.ts
ListedGroup == [roomId |-> Id, name |-> AnyText, description |-> Optional(AnyText),
                username |-> Nullish(AnyText), publicId |-> Nullish(AnyText),
                publicRef |-> Nullish(AnyText), memberCount |-> Optional(Number),
                avatarUrl |-> Nullish(AnyText), avatarCrop |-> Nullish({"object"})]
Group == ListedGroup @@ [isPublic |-> Optional(Flag), slowModeSeconds |-> Optional(Number),
                         joinApprovalRequired |-> Optional(Flag), createdBy |-> Nullish(AnyText)]
Member == Face @@ [userId |-> Number, username |-> AnyText, displayName |-> Optional(AnyText),
                   publicRef |-> Optional(AnyText), nickname |-> Nullish(AnyText),
                   roles |-> Optional({"list"}), joinedAt |-> AnyText, isMuted |-> Optional(Flag),
                   isSelf |-> Optional(Flag)]
Invite == [code |-> AnyText, name |-> Optional(AnyText), createdBy |-> Nullish(AnyText),
           expiresAt |-> Nullish(AnyText), maxUses |-> Optional(Number), useCount |-> Optional(Number),
           isRevoked |-> Optional(Flag), isExpired |-> Optional(Flag), createdAt |-> AnyText]
InvitePreview == [code |-> AnyText, groupId |-> Id, groupPublicRef |-> Optional(AnyText),
                  groupName |-> AnyText, groupDescription |-> Optional(AnyText),
                  memberCount |-> Optional(Number), isPublic |-> Optional(Flag)]
JoinRequest == [id |-> Number, userId |-> Number, username |-> AnyText,
                displayName |-> Optional(AnyText), publicRef |-> Optional(AnyText),
                message |-> Optional(AnyText), createdAt |-> AnyText]
Pin == [messageId |-> Number, content |-> Optional(AnyText), author |-> Nullish(AnyText),
        pinnedBy |-> Nullish(AnyText), pinnedAt |-> AnyText, createdAt |-> Optional(AnyText)]
Banned == [userId |-> Number, username |-> AnyText, displayName |-> Optional(AnyText),
           publicRef |-> Optional(AnyText), reason |-> Optional(AnyText), bannedBy |-> Nullish(AnyText)]

ListedGroupSent == [roomId : Number, name : Text, description : AnyText, username : {"text", "null"},
                    publicId : Text, publicRef : Text, memberCount : Number,
                    avatarUrl : {"text", "null"}, avatarCrop : {"object", "null"}]
GroupSent == [roomId : Number, name : Text, description : AnyText, isPublic : Flag,
              username : {"text", "null"}, publicId : Text, publicRef : Text, memberCount : Number,
              slowModeSeconds : Number, joinApprovalRequired : Flag, createdBy : {"text", "null"},
              avatarUrl : {"text", "null"}, avatarCrop : {"object", "null"}]
MemberSent == [userId : Number, username : Text, displayName : Text, publicRef : Text,
               nickname : {"text", "null"}, profileImage : {"text", "null"},
               avatarCrop : {"object", "null"}, roles : {"list"}, joinedAt : Text, isMuted : Flag,
               isSelf : Flag]
InviteSent == [code : Text, name : AnyText, createdBy : {"text", "null"}, expiresAt : {"text", "null"},
               maxUses : Number, useCount : Number, isRevoked : Flag, isExpired : Flag, createdAt : Text]
InvitePreviewSent == [code : Text, groupId : Number, groupPublicRef : Text, groupName : Text,
                      groupDescription : AnyText, memberCount : Number, isPublic : Flag]
JoinRequestSent == [id : Number, userId : Number, username : Text, message : AnyText, createdAt : Text]
PinSent == [messageId : Number, content : AnyText, author : Text, pinnedBy : {"text", "null"},
            pinnedAt : Text, createdAt : Text]
BannedSent == [userId : Number, username : Text, displayName : Text, publicRef : Text,
               reason : AnyText, bannedBy : {"text", "null"}]

\* dto/http/friends.ts and dto/http/roles.ts
Friend == Face @@ [id |-> Number] @@ Known
Friendship == [id |-> Number, user |-> {"object"}, created_at |-> AnyText]
Asked == [id |-> Number, user |-> Optional({"object"}), created_at |-> Optional(AnyText)]
Blocked == [id |-> Number, status |-> AnyText]
Role == [id |-> Number, name |-> AnyText, color |-> Optional(AnyText), position |-> Optional(Number),
         permissions |-> Optional(Number), isDefault |-> Optional(Flag), is_default |-> Optional(Flag),
         createdAt |-> Optional(AnyText), created_at |-> Optional(AnyText)]
MemberRoles == [userId |-> Number, username |-> AnyText, roleIds |-> {"list"}, roles |-> {"list"},
                isBanned |-> Optional(Flag), is_banned |-> Optional(Flag),
                joinedAt |-> Optional(AnyText), joined_at |-> Optional(AnyText)]
Override == [id |-> Number, targetRoleId |-> Nullish(Number), targetUserId |-> Nullish(Number),
             allow |-> Optional(Number), deny |-> Optional(Number)]
MyPermissions == [permissions |-> Number, roles |-> Optional({"list"}), isMember |-> Optional(Flag),
                  isBanned |-> Optional(Flag), canJoin |-> Optional(Flag)]

FriendSent == [id : Number, publicRef : Text, username : Text, displayName : Text,
               profileImage : {"text", "null"}, avatarCrop : {"object", "null"}]
FriendshipSent == [id : Number, user : {"object"}, created_at : Text]
BlockedSent == [id : Number, status : Text]
RoleSent == [id : Number, name : Text, color : Text, position : Number, permissions : Number,
             is_default : Flag, created_at : Text]
MemberRolesSent == [userId : Number, username : Text, roleIds : {"list"}, roles : {"list"},
                    is_banned : Flag, joined_at : Text]
OverrideSent == [id : Number, targetRoleId : {"number", "null"}, targetUserId : {"number", "null"},
                 allow : Number, deny : Number]
MyPermissionsSent == [permissions : Number, isMember : Flag, isBanned : Flag, canJoin : Flag]

-----------------------------------------------------------------------------
\* dto/ws: the frames.  A tag is a kind of its own, so that two frames differ by it.
Limited == [error |-> {"rate_limited"}, clientMessageId |-> Nullish(AnyText)]
TooLong == [error |-> {"message_too_long"}, clientMessageId |-> Nullish(AnyText)]
Forbidden == [error |-> {"forbidden"}, clientMessageId |-> Nullish(AnyText)]
SlowMode == [error |-> {"slow_mode"}, clientMessageId |-> Optional(AnyText)]
Typing == [type |-> {"typing"}, roomId |-> Optional(Id), userId |-> Number] @@ Known
Edit == [type |-> {"message_edit"}, messageId |-> Number, roomId |-> Optional(Id),
         content |-> AnyText, editedAt |-> AnyText, editedBy |-> AnyText]
Delete == [type |-> {"message_delete"}, messageId |-> Number, roomId |-> Optional(Id),
           deletedBy |-> AnyText]
Reaction(tag) == [type |-> {tag}, messageId |-> Number, roomId |-> Optional(Id), emoji |-> AnyText,
                  userId |-> Number] @@ Known
Receipt == [type |-> {"read_receipt"}, userId |-> Number, lastReadMessageId |-> Number,
            lastReadAt |-> Nullish(AnyText), roomId |-> Id] @@ Known
ChatMessage == [message |-> AnyText, username |-> Text, profile_pic |-> Nullish(AnyText),
                avatar_crop |-> Nullish({"object"}), roomId |-> Optional(Id), id |-> Optional(Number),
                clientMessageId |-> Nullish(AnyText), createdAt |-> Optional(AnyText),
                replyTo |-> Nullish({"object"}), attachments |-> Optional({"list"})] @@ Known
InboxItem == [roomId |-> Number, peer |-> {"object"}, lastMessage |-> Optional(AnyText),
              lastMessageAt |-> Optional(AnyText)]
UnreadFrame(tag) == [type |-> {tag}, unread |-> Optional({"object"})]
ItemFrame == UnreadFrame("direct_inbox_item") @@ [item |-> Optional({"object"})]
Ack == UnreadFrame("direct_mark_read_ack") @@ [roomId |-> Optional(Id)]
InboxError == [type |-> {"error"}, code |-> Optional(AnyText)]
Online == Face @@ [publicRef |-> Text, username |-> Text]
Ping == [type |-> {"ping"}]
State == [online |-> Optional({"list"}), guests |-> Optional(Id)]

RefusalSent(why) == [error : {why}] \cup [error : {why}, clientMessageId : Text]
TypingSent == [type : {"typing"}, roomId : {"number"}, publicRef : Text, username : Text,
               displayName : Text, userId : Number]
EditSent == [type : {"message_edit"}, messageId : Number, roomId : Number, content : Text,
             editedAt : Text, editedByRef : Text, editedBy : Text]
DeleteSent == [type : {"message_delete"}, messageId : Number, roomId : Number, deletedByRef : Text,
               deletedBy : Text]
ReactionSent(tag) == [type : {tag}, messageId : Number, roomId : Number, emoji : Text, userId : Number,
                      publicRef : Text, username : Text, displayName : Text]
ReceiptSent == [type : {"read_receipt"}, userId : Number, publicRef : Text, username : Text,
                displayName : Text, lastReadMessageId : Number, lastReadAt : {"text", "null"},
                roomId : Number]
ChatMessageSent == [message : AnyText, publicRef : Text, username : Text, displayName : Text,
                    profile_pic : {"text", "null"}, avatar_crop : {"object", "null"},
                    roomId : Number, id : Number, clientMessageId : {"text", "null"},
                    createdAt : Text, replyTo : {"object", "null"}, attachments : {"list"}]
InboxItemSent == [roomId : Number, peer : {"object"}, lastMessage : AnyText, lastMessageAt : Text]
InboxPeerSent == [publicRef : Text, username : Text, displayName : Text,
                  profileImage : {"text", "null"}, avatarCrop : {"object", "null"}]
UnreadSent(tag) == [type : {tag}, unread : {"object"}]
ItemFrameSent == [type : {"direct_inbox_item"}, item : {"object"}, unread : {"object"}]
AckSent == [type : {"direct_mark_read_ack"}, roomId : Number, unread : {"object"}]
OnlineSent == [publicRef : Text, username : Text, profileImage : {"text", "null"},
               avatarCrop : {"object", "null"}]
StateSent == [guests : Number] \cup [online : {"list"}, guests : Number]

-----------------------------------------------------------------------------
\* What each decoder takes, by name.
Takes ==
    [peer |-> Peer, room |-> Room, reply |-> Reply, attachment |-> Attachment, message |-> Message,
     page |-> Page, resolved |-> Resolved, directChat |-> DirectChat, edited |-> Edited,
     reacted |-> Reacted, found |-> Found, uploaded |-> Uploaded, roomAttachment |-> RoomAttachment,
     readState |-> ReadState, reader |-> Reader, readers |-> Readers, foundGroup |-> FoundGroup,
     foundMessage |-> FoundMessage, user |-> User, session |-> Session, guest |-> GuestSession,
     security |-> Security, setup |-> TwoFactorSetup, listed |-> ListedGroup, group |-> Group,
     member |-> Member, invite |-> Invite, preview |-> InvitePreview, request |-> JoinRequest,
     pin |-> Pin, banned |-> Banned, friend |-> Friend, friendship |-> Friendship, asked |-> Asked,
     blocked |-> Blocked, role |-> Role, memberRoles |-> MemberRoles, override |-> Override,
     mine |-> MyPermissions, inboxItem |-> InboxItem, inboxPeer |-> Known @@ Face @@ [username |-> Text],
     online |-> Online,
     rate_limited |-> Limited, message_too_long |-> TooLong, forbidden |-> Forbidden,
     slow_mode |-> SlowMode, typing |-> Typing, message_edit |-> Edit, message_delete |-> Delete,
     reaction_add |-> Reaction("reaction_add"), reaction_remove |-> Reaction("reaction_remove"),
     read_receipt |-> Receipt, chat_message |-> ChatMessage,
     direct_unread_state |-> UnreadFrame("direct_unread_state"), direct_inbox_item |-> ItemFrame,
     direct_mark_read_ack |-> Ack, room_unread_state |-> UnreadFrame("room_unread_state"),
     error |-> InboxError, ping |-> Ping, state |-> State]

\* What the server writes, by the same names; it sends neither rate_limited nor
\* slow_mode to a chat.
Sent ==
    [peer |-> PeerSent, room |-> RoomSent, reply |-> ReplySent, attachment |-> AttachmentSent,
     message |-> MessageSent, page |-> PageSent, resolved |-> ResolvedSent,
     directChat |-> DirectChatSent, edited |-> EditedSent, reacted |-> ReactedSent,
     found |-> FoundSent, uploaded |-> UploadedSent, roomAttachment |-> RoomAttachmentSent,
     readState |-> ReadStateSent, reader |-> ReaderSent, readers |-> ReadersSent,
     foundGroup |-> FoundGroupSent, foundMessage |-> FoundMessageSent, user |-> UserSent,
     session |-> SessionSent, guest |-> GuestSessionSent, security |-> SecuritySent,
     setup |-> TwoFactorSetupSent, listed |-> ListedGroupSent, group |-> GroupSent,
     member |-> MemberSent, invite |-> InviteSent, preview |-> InvitePreviewSent,
     request |-> JoinRequestSent, pin |-> PinSent, banned |-> BannedSent, friend |-> FriendSent,
     friendship |-> FriendshipSent, asked |-> FriendshipSent, blocked |-> BlockedSent,
     role |-> RoleSent, memberRoles |-> MemberRolesSent, override |-> OverrideSent,
     mine |-> MyPermissionsSent, inboxItem |-> InboxItemSent, inboxPeer |-> InboxPeerSent,
     online |-> OnlineSent,
     message_too_long |-> RefusalSent("message_too_long"), forbidden |-> RefusalSent("forbidden"),
     typing |-> TypingSent, message_edit |-> EditSent, message_delete |-> DeleteSent,
     reaction_add |-> ReactionSent("reaction_add"), reaction_remove |-> ReactionSent("reaction_remove"),
     read_receipt |-> ReceiptSent, chat_message |-> ChatMessageSent,
     direct_unread_state |-> UnreadSent("direct_unread_state"), direct_inbox_item |-> ItemFrameSent,
     direct_mark_read_ack |-> AckSent, room_unread_state |-> UnreadSent("room_unread_state"),
     error |-> [type : {"error"}, code : Text], ping |-> [type : {"ping"}], state |-> StateSent]

\* The order in which a socket's decoder tries its shapes.
Chat == <<"rate_limited", "message_too_long", "forbidden", "slow_mode", "typing", "message_edit",
          "message_delete", "reaction_add", "reaction_remove", "read_receipt", "chat_message">>
Inbox == <<"direct_unread_state", "direct_inbox_item", "direct_mark_read_ack", "room_unread_state",
           "error">>
Presence == <<"ping", "state">>
Members(seq) == {seq[i] : i \in DOMAIN seq}
Order(s) == IF s \in Members(Chat) THEN Chat
            ELSE IF s \in Members(Inbox) THEN Inbox
            ELSE IF s \in Members(Presence) THEN Presence ELSE <<s>>

Field(p, f) == IF f \in DOMAIN p THEN p[f] ELSE "absent"
Accepts(s, p) == \A f \in DOMAIN Takes[s] : Field(p, f) \in Takes[s][f]

Decoded_Fault(p, order) ==
    LET takers == {i \in DOMAIN order : Accepts(order[i], p)}
    IN IF takers = {} THEN "unknown" ELSE order[CHOOSE i \in takers : \A j \in takers : i >= j]
\* The first shape that takes the payload; "unknown" (a socket) or a refusal (HTTP).
Decoded(p, order) ==
    LET takers == {i \in DOMAIN order : Accepts(order[i], p)}
    IN IF takers = {} THEN "unknown" ELSE order[CHOOSE i \in takers : \A j \in takers : i <= j]

-----------------------------------------------------------------------------
\* The fields a name or an address falls back to: what is missing is skipped, and
\* where the code trims, so is what is empty.
First(p, fields, Missing) ==
    LET there == {i \in DOMAIN fields : Field(p, fields[i]) \notin Missing}
    IN IF there = {} THEN "null" ELSE Field(p, fields[CHOOSE i \in there : \A j \in there : i <= j])
NameFrom(p) == First(p, <<"displayName", "nickname", "username">>, Nothing)
\* a bug: the address is the handle, which an account need not have
AddressFrom_Fault(s, p) ==
    IF s \in {"user", "listed", "group"} THEN First(p, <<"handle", "username">>, Nothing)
    ELSE Field(p, "publicRef")
AddressFrom(s, p) ==
    IF s \in {"user", "listed", "group"}
    THEN First(p, <<"publicRef", "handle", "publicId">>, Nothing \cup {"blank"})
    ELSE IF s \in {"member", "request", "banned"} THEN First(p, <<"publicRef", "username">>, Nothing)
    ELSE Field(p, "publicRef")

NormalizeUnread_Fault(u) == [r \in u.roomIds |-> 1]
\* Unread counts travel as a record whose keys are room ids and, for an older
\* server, as a list of ids only; a count that is not positive is no count.
NormalizeUnread(u) ==
    LET counted == {r \in DOMAIN u.counts : u.counts[r] > 0}
    IN IF counted # {} THEN [r \in counted |-> u.counts[r]] ELSE [r \in u.roomIds |-> 1]

UnreadFrames == {"direct_unread_state", "direct_inbox_item", "direct_mark_read_ack",
                 "room_unread_state"}
CountsOf(R) == [R -> 1..MaxUnread]
UnreadsSent == UNION {[roomIds : {R}, counts : CountsOf(R)] : R \in SUBSET Rooms}
                 \cup [roomIds : SUBSET Rooms, counts : {<<>>}]

-----------------------------------------------------------------------------
Init ==
    /\ shape \in DOMAIN Sent
    /\ payload \in Sent[shape]
    /\ unread \in IF shape \in UnreadFrames THEN UnreadsSent ELSE {[roomIds |-> {}, counts |-> <<>>]}
    /\ taken = "none" /\ shown = [name |-> "none", address |-> "none"] /\ kept = <<>>

\* decodeOrThrow, safeDecode and the mapping of what they return
Receive ==
    /\ taken = "none"
    /\ taken' = Decoded(payload, Order(shape))
    /\ shown' = [name |-> NameFrom(payload), address |-> AddressFrom(shape, payload)]
    /\ kept' = NormalizeUnread(unread)
    /\ UNCHANGED <<shape, payload, unread>>

Next == Receive
Spec == Init /\ [][Next]_wireVars

WireTypeOK ==
    /\ unread.roomIds \subseteq Rooms /\ DOMAIN kept \subseteq Rooms
    /\ \A r \in DOMAIN kept : kept[r] \in 1..MaxUnread

\* Everything the server writes is taken for what it is: no decoder refuses it,
\* no frame of a socket is claimed by a shape tried earlier, and unread counts
\* arrive as they were counted, or as one per room from a server that only names
\* the rooms (decodeOrThrow, decodeChatWsEvent, decodeDirectInboxWsEvent,
\* decodePresenceWsEvent, normalizeUnread).
Understood ==
    taken # "none" =>
        /\ taken = shape
        /\ shape \in UnreadFrames =>
              kept = IF unread.counts = <<>> THEN [r \in unread.roomIds |-> 1] ELSE unread.counts

\* Whoever has a name on the server is shown with one and can be addressed, and so
\* can every group: no fallback of the mappers ends in an empty or missing field
\* (mapUserProfile, mapPeer, mapMessage, resolveRoomTarget, decodeGroupMembersResponse).
NamesAreShown ==
    taken # "none" =>
        /\ (Field(payload, "username") = "text" /\ "displayName" \in DOMAIN Takes[shape])
              => shown.name = "text"
        /\ (shape \in {"user", "listed", "group", "member", "request", "banned"}
              \/ ("publicRef" \in DOMAIN Takes[shape] /\ Field(payload, "publicRef") = "text"))
              => shown.address = "text"
=============================================================================
