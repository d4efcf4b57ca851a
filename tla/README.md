# Verification of the Devil messenger

Devil is a messenger: a Django backend with Channels WebSockets (`src/backend`) and a
React single-page application (`src/frontend`). This directory holds TLA+ models of the
parts of it whose correctness depends on the order in which things happen, the TLC runs
that check them on small instances, and TLAPS proofs of what matters most for every
value of the constants.

    tlc -workers 2 -config ReadState.cfg ReadState           # one run
    tlapm ReadStateProofs.tla                                 # one module's proofs

`PROJECT.json` lists the runs, the seeded fault behind every checked property, the lines
of source each definition translates, the hazards, the finding and the theorems.

Contents: 1 how the program runs; 2 the inventory; 3 the models; 4 the runs, their
bounds and what they show; 5 where the code and its promises disagree; 6 the proofs;
7 what is only model-checked; 8 what is not modelled.

## 1. How the program runs

Facts about the deployment that every model relies on:

- **One server process** (daphne, `backend/entrypoint.sh:7`) with Redis as cache and
  channel layer and PostgreSQL (or SQLite) as database. There is no `ATOMIC_REQUESTS`:
  a transaction is only where the code opens one. PostgreSQL runs at READ COMMITTED.
- **WebSocket consumers** are coroutines on one event loop. A consumer handles its
  messages one after the other, and `disconnect` after the last of them, also when
  `connect` refused the socket. Consumers interleave at every `await`.
- **Synchronous code of consumers** goes through thread-sensitive `sync_to_async` and so
  runs on one shared thread: each such function is atomic with respect to the others.
- **HTTP requests** run on threads of their own, concurrent with one another and with
  the consumers' thread. A read-modify-write of a cache entry in a request is two steps.
- A process that dies loses its coroutines and sockets. The cache, the channel layer and
  the database survive.
- **The browser** runs one callback at a time. React renders after the state changes of a
  callback and then runs the effects whose dependencies changed, with the values of that
  render: between a change and its effects other callbacks may run. What is in a ref is
  seen at once. Timers, answers and frames come in any order that their sources allow.

## 2. Inventory

For each component: the state it keeps, its operations, what is hard about it, and what
makes it correct. Section 3 says which definitions stand for which code.

### Server

| Component | State and operations | Hard | Correct when | Module |
|---|---|---|---|---|
| **Messages and read state** `chat/services.py`, `messages/models.py` | messages, a cursor per user and room, exact receipts; send, delete, mark_read, first visit, counts | requests overlap; ids are ordered by insertion, visible by commit; deletions move cursors | reading is never undone, receipts and counts agree | ReadState |
| **Delivery pipeline** `chat/delivery.py` | two queues and two worker tasks per connection; enqueue, publish, side effects, flush, cancellation | workers start and end between awaits; failure of one step; a cancelled disconnect | in order, once, nothing lost | MessageRelay, ChatDelivery |
| **Direct inbox** `direct_inbox/` | unread counts per room, the active room with a TTL; ping, set_active_room, mark_read, watchdog | cache written by consumers, deliveries and request threads; TTL against idle timeout | badges exact; a room is active only while somebody looks | DirectInbox |
| **Presence** `presence/consumers.py` | count of connections, last seen, grace; connect, touch, disconnect, broadcast with its cleaning | refused connects, sleep, crash, three clocks | who is there is listed, who is gone is not | Presence |
| **Group membership** `groups/application/` | rows, member_count, join requests, invites, owner role; join, invite, leave, kick, ban, approve, transfer | reads before transactions; a counter beside the rows | counter exact, limit kept, bans hold, one owner | GroupMembership |
| **Chat consumer** `chat/consumers.py` | active room and group of a socket; set_active_room, message, revocation | permission checked before an await, used after it | a socket hears the room it may read | - |
| **Attachment uploads** `chat/attachment_uploads.py` | upload rows, files on disk; append, finalise, abort, expire | files are not transactional | the attachment is the file, once | (client's view: AttachmentUpload) |
| Unread snapshots, chat API, group settings and pins, roles, rooms, friends, rate limiter, accounts, tickets, audit log, media, metrics, deployment | rows, files, counters | one transaction or one row each | | section 8 |

### Browser

| Component | State and operations | Hard | Correct when | Module |
|---|---|---|---|---|
| **Read tracking** `useChatRoomPageReadState.ts`, `RoomReadStateProvider.tsx`, `readTracker.ts` | position, divider, cursor, pending read; viewport, debounce, flush, answers, snapshots | effects after renders; answers of an earlier visit; reload and crash | nothing is read that was not seen, nothing seen is forgotten | UnreadProjection, RoomReading |
| **Message list** `useChatRoom.ts`, `optimisticMessages.ts`, `useChatRoomPageRealtime.ts` | the list; pages, events, optimistic sends, edits, removals, reactions | echo, broadcast and page in any order; failures taken back | each message once; the list becomes the server's | ChatTimeline |
| **Inbox** `DirectInboxProvider.tsx`, `ConversationListProvider.tsx` | counts and pending reads; two kinds of snapshots, mark read, list over HTTP | snapshots against own reads, clocks | no badge returns, none stays away | InboxClient |
| **Reconnecting socket** `useReconnectingWebSocket.ts`, `ChatRealtimeProvider.tsx` | socket, retry timer, notice, bound room | timers, browser events and callbacks of old sockets | never stranded, honest, bound to the room shown | ReconnectingSocket |
| **Upload client** `uploadAttachments.ts` | sessions and offsets; chunk, sync, retry, finalise, remove, cancel | lost and late answers, timers, cancel | every byte once, in order | AttachmentUpload |
| **Composer** `useChatRoomPageComposer.ts`, `MessageInput.tsx` | draft, reply, edit, files, uploads | an upload that ends while the user goes on; the browser edits what React rendered | what is sent has one meaning | MessageComposer, DraftEditor, EmojiText |
| **Session and passwords** `useAuth.ts`, `App.tsx`, `AuthForm.tsx` | user, token, two-factor modal; login, code, logout, update | calls overlap and remounts | the page shows the session there is | SignIn |
| **Caches** `sw.ts`, `cacheManager.ts`, `ChatController.ts` | copies by key and user; drop, share | a copy outlives the change it should reflect | copies are current | ClientCache |
| **Lookups, panels, settings, people** | an answer on its way and what it is for | the question has changed when the answer comes | what is shown answers what is asked | PageLookups, GroupPanel, Settings, People, OnlineList, Shell |
| **Decoders** `dto/` | none | the server writes null, a new kind, one field more | what the server writes is understood | WireContract |
| **What a room shows** | timeline, receipts, typing, menus, notices, pictures, emoji, place of the list | timers, fingers, history, layout under the reader | see section 4 | RoomScreen, RoomNotices, MessageBubble, ImageStage, PictureLayout, MediaViewer, Stickers, ListAnchor |

How they interact when a message is sent: the composer shows it at once and sends a
frame; the chat consumer checks the permission, saves the message (read state), echoes it
and hands it to the delivery pipeline; the publish worker sends it to the room's group,
so that every other consumer forwards it; the side-effect worker then updates each
recipient's direct inbox (unread, or read at once if he has the room active) and pushes
the snapshots. The message list of every open page merges echo, broadcast and history;
the inbox client merges the snapshots with what the user has just read. The page reports
what was seen through `mark_read`, on a socket or over HTTP, which moves the cursor in
the read state and clears the room in the inbox. Presence and membership decide beside
this path who is listed and who may be in the group.

## 3. The models

One module per component; a module with a `.cfg` of its name is its own instance, the
`MC...` modules put several components together or name model values, and the `...Proofs`
modules hold theorems. Common conventions:

- Constants are declared with their assumption (`ReadStateAssumption`, ...), as weak as
  the code allows; every bound is a constant (`MaxId`, `MaxDeliveries`, `MaxVisits`, ...).
- Variables listed after the word *History* are written by actions and read only by
  properties: no guard mentions them. Several record that a fault or a known race has
  happened (`raced`, `crashed`, `trouble`, `stale`, `dodged`, `overruled`), so that a
  property can say exactly how far the guarantee of the code goes.
- Definitions named `..._Fault` are seeded faults: a plausible mistake in the definition
  after them. Replacing that definition by its fault makes the property named with it in
  `PROJECT.json` fail under the same configuration.

### Server

**ReadState.** `status` and `author` are the rows of `Message` (not inserted, inserted in
an open transaction, visible, deleted), `cursor[u]` is `MessageReadState`, `receipts` the
rows of `MessageReadReceipt`, `req[w]` the request a thread serves, between two
statements. `SaveMessage` is the autocommitted insert of the chat consumer; `InsertOpen`,
`CommitOpen` and `RollbackOpen` that of `finalize_attachment_uploads`, whose transaction
stays open while files are moved; `Delete` is `delete_message` with receipts CASCADE and
cursors SET_NULL. `mark_read` is `MarkReadCheck` (outside the transaction),
`MarkReadLock`, `MarkReadCommit` with the deferred key checks, `MarkReadReject` and
`MarkReadRetry`; `Visit...` is `ensure_public_read_state_on_first_visit`.

**MessageRelay, ChatDelivery.** `MessageRelay` is the abstract promise of a connection:
each delivery is published and then has its effects, both in the order of saving; it may
fail at either stage; the connection closes only when nothing is left. `ChatDelivery` is
`chat/delivery.py`: `enqueue`, a worker's turn between two awaits (`PublishDone`,
`PublishFailed`, `SideEffectsDone`, ...), `flush()` as the loop of `FlushTurn`, and the
server cancelling a disconnect that takes too long (`Kill`), which travels through
`gather` into the workers: a cancelled worker drops what it holds, and its `finally`
starts a new one if the queue is not empty. A created task starts on the next turn of the
loop, before `flush()` can resume. The branch of `flush()` that restarts the worker of a
queue without one is left out, and `QueuesAreServed` shows it is dead code.

**DirectInbox.** `counts` and `active` are the two cache entries of `state.py`; `age` is
the time since `active` was written. `DeliverIncoming` and `DeliverOwn` are what the side
effects of a delivery do to them. A tab's consumer takes a message (`Receive`), awaits
the lookups, and then does its cache work in one step (`HandlePing`, `HandleSetActive`,
...); `HttpRead` and `HttpWrite` are the two halves of a `mark_read` request on its own
thread. `Tick` passes time, `Crash` ends the process and keeps the cache.

**Presence.** `entry` is the cache entry of one user, or of one guest session: the
counter, the age of `last_seen` and the rest of the grace. A connection goes through
`Accept` or `Reject`, `Join`, `Announce`, `Ping` with its touch, `Close`, `Leave`
(subtracted, also after a refusal) and `Announce` again; every broadcast cleans what is
no longer alive. `Doze` makes a client stop pinging, `IdleWatchdog` closes a silent one.

**GroupMembership.** `rows` are the membership rows (with their ids: a request that has
read a row writes to the row with that id), `owners` the rows with the owner role,
`count` is `Room.member_count`. `Start` is what a request reads before it opens its
transaction; the commit actions are the transactions. `join_via_invite` has two steps,
because the invite is locked and checked before the room is, and `transfer_ownership`
two, because the owners it lists are not locked.

### The room in the browser

**UnreadProjection** has the pure operators of `RoomReadStateProvider` and `readTracker`
(what a snapshot, an answer, a local read makes of a room's entry), called by
**RoomReading** and **InboxClient**. `RoomReading` is one tab on one room: every effect of
`useChatRoomPageReadState` is a step that runs after the render with the values of that
render (`due` holds the effects to run), `Viewport` frames, the debounce timer, the flush
of a hidden page, `posts` and `answers` of `mark_read` per visit, the beacon of a page
that is left, `sessionStorage`, reload and crash. `InboxClient` has both kinds of unread
snapshots, the reads that hide them, the list over HTTP and the conversation list that
applies the room counts again when it changes.

**ChatTimeline** is the list of an open room: pages (`useChatRoom`), events
(`useChatRoomPageRealtime`) and the optimistic sends, edits, removals and reactions of
the composer on the same list. A text is a version number.

**ReconnectingSocket**: what each callback makes of the client is an operator
(`AfterOpen`, `AfterClose`, ...); the room side is what the provider sends
(`set_active_room`), what the server has read of it and what the last render showed.
**AttachmentUpload** is one call of `uploadAttachments`; a request is lost, refused,
answered, or given up and still on its way (`stray`). **MessageComposer**, **RoomNotices**
(the queue of notices and the four effects of the room page), **RoomScreen** (timeline,
receipts, typing), **MessageBubble** (menu, mouse, fingers), **DraftEditor** over
**EmojiText** (React's nodes and the browser's, over a string in which an emoji is one
character), **ImageStage**, **PictureLayout** (collage and crop arithmetic),
**MediaViewer** (the viewer over the browser's history, the swipe, the player),
**Stickers** (catalogue, task queue, virtual grid) and **ListAnchor** follow their files.

### The pages around it

**SignIn** (each call waits for its CSRF token, is sent, handled, answered, in any order
with the others), **ClientCache** (copies in the service worker, requests that share an
answer), **PageLookups** (five lookups with their guards), **GroupPanel**, **Settings**,
**WireContract** (every answer and frame by the kinds of its fields), **People**,
**OnlineList** and **Shell**.

## 4. The runs

| Run | Instance | Shows |
|---|---|---|
| `read_state` | an author who moderates and a reader, two requests, two ids, two tries; slow commits | `ReadStateHolds`: cursors and receipts point at messages that exist, receipts are earned, agree with the counts and have no gap but late commits; `ReadStaysRead` |
| `delivery` | one connection, four deliveries, cancellation; beside it two requests on the read state | `DeliveryHolds`: order, accounting, what `flush()` and a cancelled disconnect mean; `ImplementsRelay`; `EverythingEnds`: deliveries settle, `flush()` and requests end |
| `inbox` | two rooms, two tabs, one request thread, TTL 2, idle 2, crashes | `InboxHolds`: badges exact until a request's write is outdated, who may hold a room active and for how long; leaving never takes another tab's room |
| `presence` | two sockets, TTL 4, grace 1, touch 3, ping gap 2, idle 4 | `NobodyStaysOnline`: counter covered by connections, gone after grace and after the TTL across crashes; `ConnectedIsShown` |
| `membership` | founder and two users, two requests, limit 2, one use of the invite, three row ids | `MembershipHolds`: counter, limit, owner and bans as long as requests act on rows as they read them; `InviteIsRespected` always |
| `membership_banned` | one request at a time | the disagreement of section 5 |
| `reading` | one visit, three messages, one of them the reader's own; failures, snapshots, reload, crash | `Earned`: the server is told of nothing unseen; `ReadIsHeld`: a page holds what it read until the server knows; `NoBadgeOfNothing` |
| `reading_live` | two visits, two messages loaded one at a time | `Settles`: history is loaded until the unread messages are there and the list is positioned |
| `room` | a list with one message of history and one more; an inbox with a dialog and a group | `ListHolds`: each message once, the reader's last click wins; `Converges`; `BadgesHold`: no badge comes back without a message, a new message shows |
| `connection` | six machines, below | `ConnectionHolds`, `UploadHolds`, `PageIsHonest` (the composer's one meaning, a notice said once, no name that does not type), `EverythingEnds` |
| `pages` | nineteen machines | `SessionHolds`, `PagesHold`, `WireHolds`, `StepsHold` |
| `display` | sixteen machines | `RoomIsShown`, `PicturesHold`, `EmojiHold`, `StepsHold` |

Every run also checks the type invariants of its modules.

**Runs of several machines.** `room`, `connection`, `pages` and `display` check machines
that share no variable in one run: the initial state chooses one, which moves while the
others rest in a state in which none of their fair steps is possible. The states of the
run are the sum of the machines' states, not their product, and a property of one machine
is checked in all of its behaviours. `MCRoom` names the parts of `ListHolds` and so on.

**Why these bounds are enough to be interesting.** Races here need two actors and one
object, and two of each are there: two requests with a third party deleting
(`read_state`), two tabs and a request thread on two rooms (`inbox`), two moderators or
two joins on one row (`membership`). Two message ids let one message be open while a
later one is read. Four deliveries let both workers hold one while both queues are not
empty. Three row ids let a row be deleted and inserted again under a request that read the
first; `MaxCount = 3` is one more than the sockets, so that a counter that runs ahead
shows. Times keep their order: the touch interval (30 s) is below the TTL (40 s), pings
are shorter still, the idle timeout (90 s) is the longest; the presence run takes the
tightest values for which the touches keep up, `TouchInterval + PingGap = TTL + 1`. In
the browser a late answer needs one question before and one after it: every lookup has
two subjects and two or three requests. The upload has a file of two chunks, the second
shorter, a file of one, and one recovery attempt, so that a chunk is sent, lost, synced
and sent again. The reading run's own message in the middle makes the arithmetic over
foreign messages differ from that over ids.

**Why the bounds do not hide anything.** A bound in a guard only stops new input (a new
message, row, connection, visit, click). Handling what is under way is never blocked by
one, except that `GroupMembership` lets a request whose insert would need one id more
only be aborted, which any request may be.

**Fairness.** `delivery`: weak fairness of both workers and of `flush()`, because the
event loop runs every ready task and a call to the channel layer or the database returns
or raises; strong fairness of a thread's next step in `ReadState`, because PostgreSQL
gives a row lock to its waiters in turn. Nobody is obliged to send. `reading_live`: weak
fairness of the effects that are due, of the frame that positions the list and of the
answer to a history request. `connection`: weak fairness throughout: timers fire, sockets
open or fail, requests without a timer end, and those with one are ended by it; the frames
of those who type are bounded. The other runs check safety only and assume none; `Converges` speaks of states in which nothing is under way.

**Deadlock** is checked in `inbox`, `presence` and `membership`. In the other runs the
system may stop when the input of the instance is used up.

**Symmetry** is used for threads, tabs and rooms that no definition distinguishes, in
`inbox` and `membership`, which check safety only.

## 5. Where the code and its promises disagree

The run `membership_banned` is one: `test_invite_api.py:126` requires that a banned user
stays out, and `leave_group` deletes a banned user's row and the ban with it. TLC shows it
in four requests.

The modules also state other claims of comments and tests that the code does not keep.
They are no property of a passing run; adding one to the module's configuration makes TLC
print its counterexample.

| Claim | Where it is made | How it fails |
|---|---|---|
| `ReadState!OldMessagesStayRead` | `services.py:432`: at the first visit old messages do not count as unread | the cursor is SET_NULL when its message is deleted (`models.py:219`), and then they do |
| `ReadState!RangeHasReceipts` | `services.py:379`: exact receipts for what came into the range | a message that commits after a later one was read is behind the cursor |
| `DirectInbox!MarkReadKeepsOthers` | `test_direct_inbox.py:55` | a request thread writes back counts that have changed (`state.py:219`) |
| `DirectInbox!ActiveRoomGetsNoUnread` | `test_consumers_direct_inbox.py:174` | the active entry is one per user: a second tab takes the first one's place |
| `GroupMembership!SentMeansPending` | `member_service.py:170` tells that the request was sent | by an exception that rolls it back |
| `RoomReading!BadgeIsRight` | `DirectInboxProvider.test.tsx:697` | a snapshot that has caught up is lessened again by the local read |
| `RoomReading!StaysWhereReaderIs` | `ChatRoomPage.test.tsx:3147` | the effect sees where the reader is now, not where he was when the message came |
| `MessageComposer!CancelStops` | `ChatRoomPage.test.tsx:1864` | an earlier upload's `finally` clears the controller of the one shown (`useChatRoomPageComposer.ts:219`) |
| `SignIn!SignedOutStaysOut` | `useAuth.test.ts:294` | the answer of a profile save sent before brings the user back (`useAuth.ts:210`) |
| `ClientCache!ClearedMeansCleared` | `cacheManager.ts:72` | a request under way is joined and stored after the caches are cleared |
| `PictureLayout!TilesFit` | the collage's box (`attachmentLayout.ts:403, 450`) | two tall pictures (`<<1, 6>>`) pass it |

The conditional properties are the other side of these: `UnreadIsExact` says that the
race in `state.py` is the only way for a badge to be wrong, `ReceiptsHaveNoGap` that late
commits are the only gap, `CountIsExact` and `BanHolds` that a banned user who leaves and
writes on outdated rows are the only ways to a wrong counter or a lost ban.

Limits met while reading, which the models contain and no property forbids:

- *Read tracking*: a history page that fails while the count drops leaves the room without
  a position (hence `fails > 0` in `Settles`); an earlier visit's answer clears the stored
  pending read of the newer one; a refused `mark_read` is sent again only when something
  asks for it; a failing load of history is repeated at once.
- *Message list*: an event handled while a page is under way is overwritten by it; a
  reaction already in the page is counted twice; nothing is fetched again after a
  reconnect; a lost frame leaves its message pending for ever; a failed removal can bring
  back a message that is gone.
- *Inbox*: a read while the socket is down is hidden and never sent; the answer of
  `refresh` replaces the list unconditionally, after a logout too; the clocks of server
  and browser are compared (`DirectInboxProvider.tsx:141`, the constant `Skew`).
- *Upload*: creation and sync have no timer; a creation cancelled after the server made
  the session leaves an orphan; a finalisation that was given up may still post.
- *Composer*: the end of an upload empties files and text of whatever is being written.
- *Pages*: `GroupPanel` shows and saves the fields of the room shown before when a load
  fails; a settings text typed while saving is overwritten by the answer; `ChatSearch`,
  `InvitePreviewPage`, `refresh`, `fetchData` and `useFriends` take late answers;
  `forgetLastDirectRef` runs before the inbox has arrived; the wire has messages the
  server never sends (`rate_limited`, `slow_mode`).
- *On the screen*: a click within 420 ms of a tap is swallowed; thirteen and more pictures
  get no tile; two requests to close the viewer go back twice; hiding and showing a
  sticker while its task waits leaves it blank; a "connection lost" notice outlives the
  page that would take it away.

## 6. The proofs

`ReadStateProofs`, `ChatDeliveryProofs`, `InboxProofs`, `GroupMembershipProofs`,
`RoomReadingProofs`, `ConnectionProofs`, `PagesProofs` (whose last part is about
`Presence`, the server's side of who is online) and `DisplayProofs` prove, from the named assumptions on the constants alone, the properties of the runs listed in `PROJECT.json`
for every value of the constants. The argument is the same in each: an inductive
invariant, the lemma that the initial states satisfy it, one lemma per part of it or per
action that keeps it, and the theorems from `[]` of the invariant with PTL.

| Module | What the invariant adds to the properties, and why |
|---|---|
| ReadState | `IdsInOrder` and `RequestsUseIds`: a request never names an id that will still be handed out; `OneMarker`: the row lock; `MarkersKnow`: what a transaction under the lock has read (cursor, ids to receipt) is still so when it commits, except for deletions, which the key checks catch; `ReceiptsBelowCursor`, from which `ReceiptMeansRead` follows |
| ChatDelivery | `PublishOrder`: the publish queue is the interval after the last delivery taken; `SideOrder`: effects, delivery in hand, side-effect queue follow one another and all were published; `TasksHold`: a worker runs exactly when it holds something, and `flush()` waits only for those; `Accounted`: each delivery is in one place |
| DirectInbox | `HandlersAreFresh`: a handler runs for a connected tab just heard; `SilenceIsBounded`: the owner of the active entry has not been silent for longer than the entry is old; `OwnerIsConnected` |
| Room: badges | `TabInv`: per room, what the last event on its way will leave in the client (`DialogsTold`, `RoomsTold`) is what the server has, so that nothing under way means nothing outdated; a badge shown, or taken away, has its cause in one of the two snapshots, in a read of what is listed, or in a reapplication that is due (`SnapshotsHold`). Timestamps of the server and of the client's reads are compared within `Skew` |
| Room: list | `TimeInv`: an id and a client key name one message wherever they are: in the list, in the page under way, in events, in frames, in what a taken-back removal puts back (`KeysApart`, `PageOnce`, `Removed`); from it `Once`, that no echo, page or undone removal adds a second copy. `Clicks`: a reaction's request under way is for what was intended, and its answer tells what the room has |
| Presence | `AbsentIsEmpty`, `RoomToJoin` (the bound leaves room for those joining), `EntryIsOld` and `GraceRunsOut`: what a user leaves behind is as old as the absence; `Exact`: until the first refusal, sleep or crash the counter is the number of joined connections and the entry is no older than the last touch of each; `MissingSinceTouch`: who is awake and not in the list has not touched for as long as he is missing |
| GroupMembership | `IdsAreFresh`: an id is one row's, so "the row I read" is well defined; `WorkFits`: what a request has read fits what it does; `InviteIsLocked`: the invite in use is valid and in one request's hands. `CountIsExact` is the part on which `LimitHolds` rests |
| RoomReading | every place through which a cursor passes (entry, tracker, pending reads of each visit, frames, posts, answers, beacons, snapshots, storage) is bounded by what was read at first or was on the screen; for `ReadIsHeld`, also that an answer that confirms a read names no more than the server has; for the badge, `Announced`: the last count on its way, or the one told last, is the server's; for the types, that the message a projection chooses exists (`NthFromAbove`, by well-founded descent) |
| Connection: socket | `EventsAreTrue`, `Honest`, `Told`, `Followed`: a client that has lost its connection has a notice of it or an event on its way that will; what was sent last is the binding |
| Connection: upload | what each request may carry, in flight or given up: a chunk has the bytes after its offset and no more than the file; an answer is no more than the server has; a file that the loop has passed is known to be whole |
| Connection: composer | the files of the draft and of every upload fit the limit, so that what an aborted upload gives back fits too |
| Connection: notices | `InOrder`: the ids of the stack rise with the counter, so that a ref names one card and `filter` drops one; `RefsHold`: an open notice of the loss or of the problem is the one the page's ref names, and no ref names one that is over |
| Connection: typing and session | what the sweep of one map has seen fresh the other has not swept yet, so that no name outlives its owner's typing; a login was made for a user |
| Pages: session | `StepInv`: a call that runs alone is the only one, and its answer tells the session as it is (`TrueAnswer`); a page that has learned the session shows it until an answer comes that changes what it shows. `AccountInv`: the server keeps what was last typed twice, trimmed by a registration. `SecurityInv`: one key is asked for at a time, and its answer names the key the server holds, until it holds none; while answers come in order the section is behind by the one under way at most. `OnlineInv`: one guest session at most is awaited |
| Pages: answers | `LookupsInv`: the request whose answer is wanted carries the question; `CacheInv`: a copy that nothing was dropped behind has what the page was told, of the page's user, and so has the answer of a request of the current epoch; `PanelInv`: while one room only is loaded and acted upon the panel has it or its group is on the way; `RelationInv`: every load on its way sees those I acted upon last as the server has them; `FilesInv`: the files held are a run of numbers, down to the one the next page is asked before |
| Pages: what is kept | `ImagesInv`, `AvatarInv`: the image in the crop dialog is not the one shown, and what a save under way carries is the file or a later file is known; `MemoryInv`: the chat opened last is listed and stored; `BorderInv`, `PortraitInv`: what the handlers of a gesture have seen is the state as it is; `MenuInv`: whatever came since, there is a place for a menu of the least size |
| Pages: steps | a relation loaded, or on its way, is of the person shown unless foreign; the drawer needs a narrow screen; an open panel has a content |
| Display: emoji | `WaitedForIsCalled`, `CallsAreLoading`: who waits for a picture has a call, and a call has a load under way; `CachedAgree`: a pack that is loaded lists the emoji that are. `InQueue`, `Live`: of the tasks for one animation the last alone may be wanted, and it is of the source shown. `GridInv`: without a frame to come, what was drawn is what is seen; that the rows drawn reach what is seen is arithmetic with quotients (`GridDraws`) |
| Display: steps | `AnchorInv`: the snapshot is always that of the list and the scroll position as they are, so that the difference it restores is the one the change of the list made (`Restores`). `CropInv`: an area lies in the picture that is loaded and shown; then the four roundings between the area and the cut are followed along one side (`RoundedIs`, `CutAlong`), and the bound on the two sides together is linear (`SourceIs`) |

`RelayIsImplemented` is the safety half of the refinement, for any number of deliveries:
the initial state maps to the relay's, and every step of the pipeline to a step of
`MessageRelay` or to a stutter.

The proofs cover more than the runs: both values of `Public` and `SlowCommits` in
ReadState, both kinds of user in Presence, any sizes, times and limits, rooms of any
length, any number of visits, files of any size; in `PagesProofs` any number of requests
under way; rooms, messages, texts, events and reads of any number in the run `room`. The
machines of `MCConnection`, `MCPages`, `MCDisplay` and `MCRoom` share no variable, so that each
invariant is proved alone, from its own machine's steps. `ChatTimeline` selects from its
lists with `Kept`, by the set of places that stay, and not with `SelectSeq`: the provers
cannot instantiate an operator that takes an operator, and what `Kept` leaves in which
order is proved from the set (`KeptIs`). For the same reason the height of a list in
`ListAnchor` is the number of its lines, a cardinality, and not a sum, and `Stickers` takes
its last canvas away by its place. A snapshot and the counts of the rooms are sent
together when the inbox connects, so the types need room for two events (`MaxEvents >= 2`).

What came out of them: `ConnectedIsOnline` needs a touch interval that is not zero (a
touch in the tick of the last one would be skipped), and `BackWithNextTouch` needs pings
not rarer than the idle timeout allows (`PingGap <= IdleTimeout + 1`); the code's settings
satisfy both. And `CodeFitsTheKey` had been too strong: the code with which a dialog
switches two-factor off may be handled after that dialog was closed and a new key was set
up and confirmed. The server then holds no key and the next code is refused. The property
says so, and the `pages` run has the five requests it takes.

## 7. What is only model-checked

- *Liveness*: `EverythingEnds` of both runs, `Settles`, and the fairness half of
  `ImplementsRelay`: the prover does not reason about ENABLED.
- `Converges`: that the list becomes the server's when everything has arrived relates
  three in-flight representations of every message (events, pages, undone changes); TLC
  checks it on the run `room`, whose other three properties are proved.
- *Data computed by folds and selections* (the timeline of RoomScreen, texts, the
  collage): what a recursive definition computes for every input needs an induction over
  data that none of the provers can instantiate.
- `WireHolds`: the decoders are tables of finite sets that TLC checks in full; a proof would
  say it again shape by shape. The types of `pages` are left to TLC with it.
- In the run `display`, `RoomIsShown` and `PicturesHold`, which rest on such folds in the
  timeline, the texts, the collage and the viewer's gallery, and the types. Its `EmojiHold`
  and `StepsHold` are proved.

## 8. What is not modelled, and why

In the modelled components:

- *ReadState*: edits, reactions, files of deleted messages; other rooms (cursors of
  different rooms share nothing); the lock order of the database, for which the retry of
  an OperationalError stands.
- *ChatDelivery*: what is sent, the payload of side effects (`DirectInbox` has them), the
  authoritative unread push.
- *DirectInbox*: the order in which the events of two senders reach one client; the
  30-day TTL of the unread entry (no connected client outlives it).
- *Presence*: the rename of an entry stored under a user name, the lists on their way to
  clients, the heartbeat, the one-hour timeout of the cache key as a whole.
- *GroupMembership*: mutes, listings, the expiry time and the creation limit of invites,
  permissions that change while a request runs, the superuser, and the broadcast that
  ends the sockets of removed members.
- *Read tracking, message list, inbox*: the jump to a message of a link, guests (they
  read nothing), pixels, messages with files in the list, an edit that overtakes the
  publication of its message, the errors of requests that change nothing.
- *Upload*: the server's files and rows; `AttachmentUpload` has what the client relies on.
- *Composer and what is shown*: the picker's placement, paste of rich text, rendering,
  canvas and file encoding, full-screen controls, wording of labels and errors.
- *Session*: Google sign-in. *Caches*: precached assets and media. *Decoders*: lengths,
  formats of dates, texts. *Lookups*: the unguarded ones of section 5.

Other components: the chat consumer's groups and revocation; the files and transactions
of server-side uploads; unread snapshots (no state); the chat API, group settings, pins,
roles, rooms, rate limiter, accounts and tickets (one transaction or one row, or pure
functions of rows with unit tests); the friends' two rows under overlapping requests;
audit log, media, metrics, deployment and tools (I/O and configuration). `ProfilePage.tsx`,
`googleIdentity.ts` and `useGroupDetails.ts` are not used by the application.
