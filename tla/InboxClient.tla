----------------------------- MODULE InboxClient -----------------------------
(***************************************************************************)
(* The badges of the conversation list in one tab: DirectInboxProvider,    *)
(* which applies the inbox socket's two kinds of snapshots (the unread     *)
(* dialogs of the cache, the unread rooms of the database), hides what the *)
(* user has just marked read, and loads the list of dialogs over HTTP;     *)
(* ConversationListProvider, which applies the snapshot of the rooms again *)
(* whenever its own list changes; and the rooms' entries of                *)
(* RoomReadStateProvider that both write.                                  *)
(*                                                                         *)
(* A page that has initialised a room's entry is RoomReading's.  Message   *)
(* times are the values of one clock; a request's failure changes nothing. *)
(***************************************************************************)
EXTENDS UnreadProjection, Sequences

CONSTANTS Dialogs,   \* direct rooms
          Groups,    \* group rooms
          Skew,      \* how far the client's clock is ahead of the server's
          MaxTime,   \* messages published (bound)
          MaxEvents,   \* events on their way (bound)
          MaxFrames, \* frames on their way (bound)
          MaxMarks   \* dialogs marked read and pages fetched (bound)

InboxAssumption ==
    /\ Dialogs \cap Groups = {} /\ "none" \notin Dialogs
    /\ {Skew, MaxTime, MaxEvents, MaxFrames, MaxMarks} \subseteq Nat
    /\ MaxEvents >= 2

VARIABLES
    now,        \* the clock
    last,       \* server: when the last message of a room was published
    cached,     \* server: unread dialogs in the cache, per dialog
    stored,     \* server: unread messages in the database, per room
    active,     \* server: the active dialog of the connection
    events,     \* events on their way to the tab
    commands,   \* frames on their way to the server
    connected,  \* the socket is open, as the tab knows
    items,      \* per dialog the time of its last message, 0 when not listed
    counts,     \* unreadCounts
    latest,     \* latestDirectUnreadStateRef, with known = FALSE when null
    hidden,     \* pendingMarkReadAtRef, 0 when there is none
    roomCounts, \* roomUnreadCounts
    entries,    \* the rooms' entries of RoomReadStateProvider
    groups,     \* knownServerRoomIds
    request,      \* the dialog list on its way, with its answer
    effects,    \* effects of the last render that have not run
    activeRef,  \* activeRoomRef
    marks       \* history: marked and fetched so far

back == <<last, cached, stored, active>>
inbox == <<items, counts, latest, hidden, roomCounts>>
vars == <<now, back, events, commands, connected, inbox, entries, groups,
          request, effects, activeRef, marks>>

Rooms == Dialogs \cup Groups
None(S) == [r \in S |-> 0]

-----------------------------------------------------------------------------
(* The snapshots *)

\* applyServerUnreadSnapshot over the rooms of a scope and those counted.
ApplySnapshot(scope, snapshot) ==
    [r \in Rooms |->
        LET count == IF r \in DOMAIN snapshot THEN snapshot[r] ELSE 0
        IN  IF r \in scope \/ count > 0
            THEN ApplyServerSnapshot(entries[r], count) ELSE entries[r]]

Fresh(r, item, marked) ==
    (IF r = item.room THEN item.time ELSE items[r]) > marked[r]

NoItem == [room |-> "none", time |-> 0]

StillHidden_Fault(state, item, marked) ==
    [r \in Dialogs |-> IF state[r] = 0 THEN 0 ELSE marked[r]]

\* A dialog marked read stays hidden until it is acknowledged, a newer
\* message is known, or the server no longer counts it.
StillHidden(state, item, marked) ==
    [r \in Dialogs |-> IF Fresh(r, item, marked) \/ state[r] = 0
                       THEN 0 ELSE marked[r]]

ApplyUnreadState(state, item, ack) ==
    LET marked == [r \in Dialogs |-> IF r = ack THEN 0 ELSE hidden[r]]
        kept   == StillHidden(state, item, marked)
        shown  == [r \in Dialogs |-> IF kept[r] > 0 THEN 0 ELSE state[r]]
        scope  == {r \in Dialogs :
                      items[r] > 0 \/ state[r] > 0 \/ kept[r] > 0}
    IN  /\ latest' = [known |-> TRUE, state |-> state]
        /\ hidden' = kept /\ counts' = shown
        /\ entries' = ApplySnapshot(scope, shown)

ApplyRoomState_Fault(snapshot) ==
    /\ roomCounts' = snapshot /\ entries' = ApplySnapshot({}, snapshot)

\* Without a scope: every room that has an entry.
ApplyRoomState(snapshot) ==
    /\ roomCounts' = snapshot
    /\ entries' = ApplySnapshot({r \in Rooms : entries[r] # EmptyEntry},
                                snapshot)

-----------------------------------------------------------------------------
(* The tab *)

ChatListChanges == effects' = effects \cup {"reapply"}

HandleUnreadState(event) ==
    /\ event.kind = "state" /\ ApplyUnreadState(event.state, NoItem, "none")
    /\ UNCHANGED <<items, roomCounts, effects>>

HandleItem(event) ==
    /\ event.kind = "item"
    /\ items' = [items EXCEPT ![event.item.room] = event.item.time]
    /\ ApplyUnreadState(event.state, event.item, "none")
    /\ ChatListChanges /\ UNCHANGED roomCounts

HandleAck(event) ==
    /\ event.kind = "ack" /\ ApplyUnreadState(event.state, NoItem, event.room)
    /\ UNCHANGED <<items, roomCounts, effects>>

HandleRoomState(event) ==
    /\ event.kind = "rooms" /\ ApplyRoomState(event.state)
    /\ effects' = effects \cup {"rooms"}
    /\ UNCHANGED <<items, counts, latest, hidden>>

HandleMessage ==
    /\ events # <<>> /\ events' = Tail(events)
    /\ LET event == Head(events)
       IN  \/ HandleUnreadState(event) \/ HandleItem(event)
           \/ HandleAck(event) \/ HandleRoomState(event)
    /\ UNCHANGED <<now, back, commands, connected, groups, request, activeRef,
                   marks>>

\* The last raw state is applied again when the list of dialogs changed.
Reapply ==
    /\ "reapply" \in effects
    /\ IF latest.known
       THEN ApplyUnreadState(latest.state, NoItem, "none")
       ELSE UNCHANGED <<counts, latest, hidden, entries>>
    /\ effects' = effects \ {"reapply"}
    /\ UNCHANGED <<now, back, events, commands, connected, items, roomCounts,
                   groups, request, activeRef, marks>>

\* The conversation list applies its copy of the rooms' snapshot.
ApplyRooms ==
    /\ "rooms" \in effects
    /\ entries' = ApplySnapshot(groups, roomCounts)
    /\ effects' = effects \ {"rooms"}
    /\ UNCHANGED <<now, back, events, commands, connected, inbox, groups,
                   request, activeRef, marks>>

\* fetchData of the conversation list brings a new list of groups.
GroupsArrive(found) ==
    /\ found # groups /\ groups' = found
    /\ effects' = effects \cup {"rooms"}
    /\ UNCHANGED <<now, back, events, commands, connected, inbox, entries,
                   request, activeRef, marks>>

Refresh ==
    /\ request.stage = "none" /\ marks < MaxMarks /\ marks' = marks + 1
    /\ request' = [stage |-> "sent", items |-> None(Dialogs)]
    /\ UNCHANGED <<now, back, events, commands, connected, inbox, entries,
                   groups, effects, activeRef>>

\* The answer replaces the list, whatever came over the socket meanwhile.
ItemsArrive ==
    /\ request.stage = "answered" /\ items' = request.items
    /\ request' = [request EXCEPT !.stage = "none"] /\ ChatListChanges
    /\ UNCHANGED <<now, back, events, commands, connected, counts, latest,
                   hidden, roomCounts, entries, groups, activeRef, marks>>

Send(frame) ==
    commands' = IF connected THEN Append(commands, frame) ELSE commands

\* Off line the dialog is hidden too, and nothing is ever sent.
MarkRead(r) ==
    /\ marks < MaxMarks /\ marks' = marks + 1 /\ Len(commands) < MaxFrames
    /\ hidden' = [hidden EXCEPT ![r] = now + Skew]
    /\ counts' = [counts EXCEPT ![r] = 0]
    /\ entries' = [entries EXCEPT ![r] = MarkRoomFullyRead(@)]
    /\ Send([kind |-> "mark_read", room |-> r])
    /\ UNCHANGED <<now, back, events, connected, items, latest, roomCounts,
                   groups, request, effects, activeRef>>

SetActiveRoom(r) ==
    /\ r # activeRef /\ activeRef' = r /\ Len(commands) < MaxFrames
    /\ Send([kind |-> "set_active_room", room |-> r])
    /\ UNCHANGED <<now, back, events, connected, inbox, entries, groups,
                   request, effects, marks>>

Badge(r) ==
    IF r \in Dialogs /\ items[r] = 0 THEN 0
    ELSE RoomUnreadCount(entries[r],
             IF r \in Dialogs /\ counts[r] > 0 THEN counts[r]
             ELSE roomCounts[r])

-----------------------------------------------------------------------------
(* The server, and the connection *)

Pushes(pushed) ==
    /\ events' = IF connected THEN events \o pushed ELSE events
    /\ Len(events') <= MaxEvents

RoomState == [kind |-> "rooms", state |-> stored]

\* A message of somebody else; in the active dialog it is read at once.
Publish(r) ==
    /\ now < MaxTime /\ now' = now + 1 /\ last' = [last EXCEPT ![r] = now']
    /\ stored' = [stored EXCEPT ![r] = IF r = active THEN 0 ELSE @ + 1]
    /\ cached' = IF r \in Groups THEN cached
                 ELSE [cached EXCEPT ![r] = IF r = active THEN 0 ELSE @ + 1]
    /\ Pushes((IF r \in Groups THEN <<>>
               ELSE <<[kind |-> "item", state |-> cached',
                       item |-> [room |-> r, time |-> now']]>>)
              \o <<RoomState'>>)
    /\ UNCHANGED <<active, commands, connected, inbox, entries, groups, request,
                   effects, activeRef, marks>>

\* mark_read over HTTP, by the page of the room or another device.
ReadOnServer(r) ==
    /\ stored[r] > 0 /\ stored' = [stored EXCEPT ![r] = 0]
    /\ Pushes(<<RoomState'>>)
    /\ UNCHANGED <<now, last, cached, active, commands, connected, inbox,
                   entries, groups, request, effects, activeRef, marks>>

MarkReadArrives(frame) ==
    /\ frame.kind = "mark_read"
    /\ cached' = [cached EXCEPT ![frame.room] = 0]
    /\ Pushes(<<[kind |-> "ack", room |-> frame.room, state |-> cached']>>)
    /\ UNCHANGED active

\* Making a dialog active reads it.
ActiveRoomArrives(frame) ==
    /\ frame.kind = "set_active_room" /\ active' = frame.room
    /\ cached' = IF frame.room = "none" THEN cached
                 ELSE [cached EXCEPT ![frame.room] = 0]
    /\ Pushes(IF frame.room = "none" THEN <<>>
              ELSE <<[kind |-> "state", state |-> cached']>>)

ServerReceives ==
    /\ commands # <<>> /\ commands' = Tail(commands)
    /\ MarkReadArrives(Head(commands)) \/ ActiveRoomArrives(Head(commands))
    /\ UNCHANGED <<now, last, stored, connected, inbox, entries, groups,
                   request, effects, activeRef, marks>>

ServerAnswers ==
    /\ request.stage = "sent"
    /\ request' = [stage |-> "answered", items |-> [r \in Dialogs |-> last[r]]]
    /\ UNCHANGED <<now, back, events, commands, connected, inbox, entries,
                   groups, effects, activeRef, marks>>

Disconnect ==
    /\ connected /\ connected' = FALSE
    /\ events' = <<>> /\ commands' = <<>> /\ active' = "none"
    /\ UNCHANGED <<now, last, cached, stored, inbox, entries, groups, request,
                   effects, activeRef, marks>>

\* The consumer sends both snapshots; the tab names its active room again.
Connect ==
    /\ ~connected /\ connected' = TRUE
    /\ events' = <<[kind |-> "state", state |-> cached], RoomState>>
    /\ commands' = <<[kind |-> "set_active_room", room |-> activeRef]>>
    /\ UNCHANGED <<now, back, inbox, entries, groups, request, effects,
                   activeRef, marks>>

-----------------------------------------------------------------------------

\* resetRooms and the cleared state of a tab without a user.
Init ==
    /\ now = 0 /\ last = None(Rooms) /\ cached = None(Dialogs)
    /\ stored = None(Rooms) /\ active = "none" /\ events = <<>>
    /\ commands = <<>> /\ connected = FALSE /\ items = None(Dialogs)
    /\ counts = None(Dialogs)
    /\ latest = [known |-> FALSE, state |-> None(Dialogs)]
    /\ hidden = None(Dialogs) /\ roomCounts = None(Rooms)
    /\ entries = [r \in Rooms |-> EmptyEntry] /\ groups = {}
    /\ request = [stage |-> "none", items |-> None(Dialogs)] /\ effects = {}
    /\ activeRef = "none" /\ marks = 0

Next ==
    \/ HandleMessage \/ Reapply \/ ApplyRooms \/ Refresh \/ ItemsArrive
    \/ \E found \in SUBSET Groups : GroupsArrive(found)
    \/ \E r \in Dialogs : MarkRead(r)
    \/ \E r \in Dialogs \cup {"none"} : SetActiveRoom(r)
    \/ \E r \in Rooms : Publish(r) \/ ReadOnServer(r)
    \/ ServerReceives \/ ServerAnswers \/ Connect \/ Disconnect

Spec == Init /\ [][Next]_vars

-----------------------------------------------------------------------------
TypeOK ==
    /\ now \in 0..MaxTime /\ active \in Dialogs \cup {"none"}
    /\ \A r \in Rooms : {last[r], stored[r], roomCounts[r]} \subseteq 0..MaxTime
    /\ \A r \in Dialogs : {items[r], counts[r], cached[r]} \subseteq 0..MaxTime
    /\ \A r \in Dialogs : hidden[r] \in 0..(MaxTime + Skew)
    /\ Len(events) <= MaxEvents /\ connected \in BOOLEAN
    /\ groups \subseteq Groups /\ effects \subseteq {"reapply", "rooms"}

CaughtUp ==
    connected /\ events = <<>> /\ commands = <<>> /\ effects = {}

(* When everything has arrived, a room without unread messages has no      *)
(* badge, whichever snapshot spoke last.                                   *)
NoGhostBadge ==
    CaughtUp => \A r \in Rooms : Badge(r) > 0 =>
        stored[r] > 0 \/ (r \in Dialogs /\ cached[r] > 0)

(* When everything has arrived, a dialog whose last message is listed,     *)
(* newer than the user's last look at it and unread for both of the        *)
(* server's accounts has a badge: what marking it read hides is never a    *)
(* message that came later.                                                *)
NewMessageShows ==
    CaughtUp => \A r \in Dialogs :
        cached[r] > 0 /\ stored[r] > 0 /\ items[r] = last[r]
            /\ last[r] > hidden[r] => Badge(r) > 0
=============================================================================
