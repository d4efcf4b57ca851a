----------------------------- MODULE RoomReading -----------------------------
(***************************************************************************)
(* One browser tab reading one chat room: the page's read state (scroll    *)
(* position, unread divider, read cursor, debounced and flushed mark_read) *)
(* on top of the room's entry in RoomReadStateProvider, against the        *)
(* server's cursor, its answers and the unread snapshots it pushes over    *)
(* the inbox socket.                                                       *)
(*                                                                         *)
(* React runs a component's effects after the render that follows a state  *)
(* change: a handler adds the effects whose dependencies it changed to     *)
(* "due", and Commit runs them, with the values of that render, at any     *)
(* later moment.  What the refs of a page remember belongs to a visit: an  *)
(* answer to a request of an earlier visit works on that visit's refs.     *)
(***************************************************************************)
EXTENDS UnreadProjection, Sequences

CONSTANTS MaxId,      \* messages the room can get (bound)
          Loaded,     \* messages a page of history holds
          MaxVisits,  \* times the room is opened (bound)
          MaxFails,   \* requests that fail (bound)
          MaxPushes,  \* unread snapshots in flight (bound)
          FirstRead,  \* where the cursor stands at first
          FirstCount  \* messages the room holds at first

ASSUME ReadingAssumption ==
    /\ {MaxId, Loaded, MaxVisits, MaxFails, MaxPushes} \subseteq Nat
    /\ Loaded > 0 /\ FirstRead \in 0..MaxId /\ FirstCount \in FirstRead..MaxId

VARIABLES
    published,   \* messages 1..published are stored by the server
    cursor,      \* the user's read cursor on the server
    snapshots,   \* unread counts on their way to the tab
    posts,       \* mark_read requests on their way to the server
    answers,     \* their answers on their way back
    beacons,     \* reads sent while the page went away: nobody waits for them
    fails,       \* requests that failed so far
    entry,       \* the room's entry in RoomReadStateProvider
    stored,      \* the pending read in sessionStorage
    visit,       \* number of the current visit
    mounted,     \* the room page is on the screen
    page,        \* state and refs of the page
    pending,     \* pendingReadFlushRef of every visit
    lastSent,    \* lastReadSentRef of every visit
    due,         \* effects waiting for the next commit
    seen         \* last message that has been inside the viewport (history)

server == <<published, cursor>>
wire   == <<snapshots, posts, answers, beacons, fails>>
vars   == <<published, cursor, snapshots, posts, answers, beacons, fails,
            entry, stored, visit, mounted, page, pending, lastSent, due, seen>>

Ids    == 1..MaxId
Cursors == 0..MaxId
Effects == {"initialize", "localRead", "place", "mark", "sync", "append",
            "render"}

\* A page: the server's cursor it was loaded with, the loaded messages, a
\* page of history on its way and whether its arrival will shift the list,
\* the tracker's progress, the debounced mark_read, the initial positioning,
\* the divider, the last message above the viewport's lower edge, the refs
\* isAtBottom and pendingBottomStickyRead, a programmatic scroll to the end
\* under way and the frame that will look at the viewport.  "came" is a
\* history: the reader was at the bottom when the newest message arrived.
Page == [base : Cursors, low : 1..MaxId + 1, high : Cursors,
         loading : BOOLEAN, prepending : BOOLEAN,
         progress : Cursors, timer : Cursors,
         phase : {"pending", "positioning", "settled"},
         target : {"none", "unread", "bottom"}, anchor : Cursors,
         edge : Cursors, bottom : BOOLEAN, sticky : BOOLEAN,
         scrolling : BOOLEAN, frame : BOOLEAN, came : BOOLEAN]

NewPage(base, low, high) ==
    [base |-> base, low |-> low, high |-> high,
     loading |-> FALSE, prepending |-> FALSE, progress |-> 0, timer |-> 0,
     phase |-> "pending", target |-> "none", anchor |-> 0, edge |-> 0,
     bottom |-> TRUE, sticky |-> FALSE, scrolling |-> FALSE, frame |-> FALSE,
     came |-> TRUE]

NoPage == NewPage(0, 1, 0)

-----------------------------------------------------------------------------
(* Values a render derives *)

List       == page.low..page.high
HasMore    == page.low > 1
Tracked    == Larger(Larger(page.base, pending[visit]), page.progress)
LocalRead  == Larger(Tracked, entry.local)
Stats      == UnreadStats(List, Tracked)
LocalUnread  == IF entry.initialized THEN entry.unread ELSE Stats.count
LoadedUnread == IF entry.initialized THEN entry.loadedUnread ELSE Stats.count
FirstShown   == IF entry.initialized THEN entry.first ELSE Stats.first
HistoryPending == LocalUnread > LoadedUnread /\ HasMore
Enabled    == page.phase = "settled"

\* Only the latest foreign message is unread.
StartsAtBottom ==
    /\ LocalUnread > 0 /\ FirstShown # 0
    /\ FirstShown \in Foreign(List)
    /\ \A m \in Foreign(List) : m <= FirstShown

\* What the server counts as unread, and what it pushes after a change.
UnreadOf(last, read) == Cardinality({m \in Foreign(1..last) : m > read})

CanPush == Len(snapshots) < MaxPushes

-----------------------------------------------------------------------------
(* The pending read and mark_read *)

\* persistPendingRead: the ref, the provider and the session's storage.
\* The three operators give their next values; nothing moves back.
Persist(id) ==
    IF id > pending[visit]
    THEN /\ pending' = [pending EXCEPT ![visit] = id]
         /\ stored' = id
    ELSE UNCHANGED <<pending, stored>>

PersistEntry(e, id) ==
    IF id > pending[visit] THEN SetPendingMarkRead(e, id) ELSE e

\* sendMarkReadIfNeeded, after persistPendingRead(id).
Send(id) ==
    IF id >= 1 /\ id > lastSent[visit]
    THEN /\ lastSent' = [lastSent EXCEPT ![visit] = id]
         /\ posts' = posts \cup {[visit |-> visit, id |-> id]}
    ELSE UNCHANGED <<lastSent, posts>>

\* The effects that see a change of the entry or of the tracker's cursor.
Woken(before, after, progressed) ==
    {"render"} \cup (IF after.local # before.local \/ progressed
                     THEN {"localRead", "mark"} ELSE {})
               \cup (IF progressed THEN {"place"} ELSE {})


-----------------------------------------------------------------------------
(* The server *)

Init ==
    /\ published = FirstCount /\ cursor = FirstRead
    /\ snapshots = <<UnreadOf(FirstCount, FirstRead)>>
    /\ posts = {} /\ answers = {} /\ beacons = {} /\ fails = 0
    /\ entry = EmptyEntry /\ stored = 0
    /\ visit = 0 /\ mounted = FALSE /\ page = NoPage
    /\ pending = [v \in 1..MaxVisits |-> 0]
    /\ lastSent = [v \in 1..MaxVisits |-> 0]
    /\ due = {} /\ seen = 0

tab == <<entry, stored, visit, mounted, page, pending, lastSent, due, seen>>

\* A message is stored and every member gets his unread counts.
Publish ==
    /\ published < MaxId /\ CanPush
    /\ published' = published + 1
    /\ snapshots' = Append(snapshots, UnreadOf(published + 1, cursor))
    /\ UNCHANGED <<cursor, posts, answers, beacons, fails, tab>>

\* mark_read over HTTP: the cursor never moves back, and the new counts
\* leave before the answer does.
ReadOnServer(id) ==
    /\ CanPush
    /\ cursor' = Larger(cursor, id)
    /\ snapshots' = Append(snapshots, UnreadOf(published, Larger(cursor, id)))

MarkRead(post) ==
    /\ ReadOnServer(post.id)
    /\ posts' = posts \ {post}
    /\ answers' = answers \cup {[visit |-> post.visit, id |-> post.id,
                                 ok |-> TRUE]}
    /\ UNCHANGED <<published, beacons, fails, tab>>

\* read_state_busy, a lost connection, an expired session.
MarkReadFails(post) ==
    /\ fails < MaxFails /\ fails' = fails + 1
    /\ posts' = posts \ {post}
    /\ answers' = answers \cup {[visit |-> post.visit, id |-> post.id,
                                 ok |-> FALSE]}
    /\ UNCHANGED <<server, snapshots, beacons, tab>>

BeaconArrives(id) ==
    /\ ReadOnServer(id)
    /\ beacons' = beacons \ {id}
    /\ UNCHANGED <<published, posts, answers, fails, tab>>

BeaconIsLost(id) ==
    /\ beacons' = beacons \ {id}
    /\ UNCHANGED <<server, snapshots, posts, answers, fails, tab>>

-----------------------------------------------------------------------------
(* What reaches the tab *)

\* room_unread_state on the inbox socket: a new authoritative version.
SnapshotArrives ==
    /\ snapshots # <<>>
    /\ snapshots' = Tail(snapshots)
    /\ entry' = ApplyServerSnapshot(entry, Head(snapshots))
    /\ due' = IF mounted THEN due \cup {"initialize", "render"} ELSE due
    /\ UNCHANGED <<server, posts, answers, beacons, fails, stored, visit,
                   mounted, page, pending, lastSent, seen>>

ReadConfirmed_Fault(answer) ==
    LET v == answer.visit
        after == AcknowledgeServerRead(SetPendingMarkRead(entry, 0), answer.id)
    IN  /\ answer.ok
        /\ answers' = answers \ {answer}
        /\ pending' = [pending EXCEPT ![v] = 0]
        /\ entry' = after /\ stored' = 0
        /\ due' = IF mounted
                  THEN due \cup Woken(entry, after, v = visit) ELSE due
        /\ UNCHANGED <<server, snapshots, posts, beacons, fails, visit,
                       mounted, page, lastSent, seen>>

\* The request succeeded: clearPendingRead(id) on the refs of its visit.
ReadConfirmed(answer) ==
    LET v == answer.visit
        after == AcknowledgeServerRead(SetPendingMarkRead(entry, 0), answer.id)
    IN  /\ answer.ok
        /\ answers' = answers \ {answer}
        /\ IF answer.id >= pending[v]
           THEN /\ pending' = [pending EXCEPT ![v] = 0]
                /\ entry' = after /\ stored' = 0
                /\ due' = IF mounted
                          THEN due \cup Woken(entry, after, v = visit) ELSE due
           ELSE UNCHANGED <<pending, entry, stored, due>>
        /\ UNCHANGED <<server, snapshots, posts, beacons, fails, visit,
                       mounted, page, lastSent, seen>>

\* It failed: the same id may be sent again, by whatever asks next.
ReadRefused(answer) ==
    LET v == answer.visit
    IN  /\ ~answer.ok
        /\ answers' = answers \ {answer}
        /\ lastSent' = IF lastSent[v] = answer.id
                       THEN [lastSent EXCEPT ![v] = answer.id - 1]
                       ELSE lastSent
        /\ UNCHANGED <<server, snapshots, posts, beacons, fails, entry, stored,
                       visit, mounted, page, pending, due, seen>>

\* The next message over the room's socket.  A foreign one that finds the
\* reader at the bottom will pull the list down; otherwise it places the
\* divider, unless there is one.
MessageArrives ==
    LET id      == page.high + 1
        foreign == id \notin OwnMessages
        divides == foreign /\ ~page.bottom /\ page.anchor = 0
    IN  /\ mounted /\ page.high < published
        /\ page' = [page EXCEPT !.high = id, !.came = page.bottom,
                       !.sticky = @ \/ (foreign /\ page.bottom),
                       !.anchor = IF divides THEN id ELSE @]
        /\ entry' = IF divides THEN SetRoomDivider(entry, id) ELSE entry
        /\ due' = due \cup {"initialize", "localRead", "place", "append",
                            "render"}
        /\ UNCHANGED <<server, wire, stored, visit, mounted, pending, lastSent,
                       seen>>

HistoryArrives_Fault ==
    /\ mounted /\ page.loading
    /\ page' = [page EXCEPT !.loading = FALSE, !.prepending = FALSE,
                            !.low = page.low - Loaded]
    /\ due' = due \cup {"initialize", "localRead", "place", "render"}
    /\ UNCHANGED <<server, wire, entry, stored, visit, mounted, pending,
                   lastSent, seen>>

HistoryArrives ==
    /\ mounted /\ page.loading
    /\ page' = [page EXCEPT !.loading = FALSE, !.prepending = FALSE,
                            !.low = Larger(1, page.low - Loaded)]
    /\ due' = due \cup {"initialize", "localRead", "place", "render"}
    /\ UNCHANGED <<server, wire, entry, stored, visit, mounted, pending,
                   lastSent, seen>>

HistoryFails ==
    /\ mounted /\ page.loading
    /\ fails < MaxFails /\ fails' = fails + 1
    /\ page' = [page EXCEPT !.loading = FALSE]
    /\ due' = due \cup {"render"}
    /\ UNCHANGED <<server, snapshots, posts, answers, beacons, entry, stored,
                   visit, mounted, pending, lastSent, seen>>

-----------------------------------------------------------------------------
(* The page *)

\* The room is opened and its first page of messages is there.
Open ==
    /\ ~mounted /\ visit < MaxVisits
    /\ visit' = visit + 1 /\ mounted' = TRUE
    /\ page' = NewPage(cursor, Larger(1, published - Loaded + 1), published)
    /\ pending' = [pending EXCEPT ![visit + 1] = stored]
    /\ due' = {"initialize", "localRead", "place", "render"}
    /\ UNCHANGED <<server, wire, entry, stored, lastSent, seen>>

\* Effects of one render, with the values of that render.
Unplaced == page.phase = "pending" /\ page.target = "none"
LoadsHistory == HistoryPending /\ Unplaced /\ ~page.loading
ChoosesTarget == ~HistoryPending /\ Unplaced
DividesFirst == ChoosesTarget /\ LocalUnread > 0 /\ FirstShown # 0

Target ==
    IF ~ChoosesTarget THEN page.target
    ELSE IF DividesFirst /\ ~StartsAtBottom THEN "unread" ELSE "bottom"

MarksLater ==
    "mark" \in due /\ Enabled /\ LocalRead >= 1 /\ LocalRead > page.base

Appends == "append" \in due /\ Enabled
SticksToBottom == Appends /\ ~page.prepending /\ (page.sticky \/ page.bottom)

\* The entry's updates are queued one after the other; everything else sees
\* the render's values.
Commit ==
    LET projected == IF "initialize" \in due
                     THEN InitializeRoom(entry, List, page.base,
                                         pending[visit])
                     ELSE entry
        applied   == IF "localRead" \in due /\ LocalRead >= 1
                     THEN ApplyLocalRead(projected, List, LocalRead)
                     ELSE projected
        clears    == LocalUnread = 0 /\ page.anchor # 0
        places    == /\ "place" \in due /\ page.phase = "pending"
                     /\ Target # "none"
        looks     == "sync" \in due /\ Enabled /\ ~page.scrolling
    IN  /\ mounted /\ due # {}
        /\ entry' = IF clears THEN SetRoomDivider(applied, 0) ELSE applied
        /\ page' = [page EXCEPT
               !.anchor  = IF DividesFirst THEN FirstShown
                           ELSE IF clears THEN 0 ELSE @,
               !.loading = @ \/ LoadsHistory,
               !.target  = Target,
               !.phase   = IF places THEN "positioning" ELSE @,
               !.frame   = @ \/ looks,
               !.timer   = IF MarksLater THEN LocalRead ELSE @,
               !.prepending = @ /\ ~Appends,
               !.sticky  = @ /\ ~(Appends /\ ~page.prepending),
               !.scrolling = @ \/ SticksToBottom]
        /\ due' = IF entry' = entry THEN {} ELSE Woken(entry, entry', FALSE)
        /\ UNCHANGED <<server, wire, stored, visit, mounted, pending, lastSent,
                       seen>>

Positioned_Fault == \* the list is placed, the phase is not
    /\ mounted /\ page.phase = "positioning"
    /\ page' = [page EXCEPT !.edge = page.high, !.bottom = TRUE]
    /\ due' = due \cup {"sync", "mark", "place", "render"}
    /\ UNCHANGED <<server, wire, entry, stored, visit, mounted, pending, lastSent,
                   seen>>

\* The first positioning: the unread message in the middle of the viewport,
\* or the end of the list.
Positioned ==
    LET unread == page.target = "unread" /\ page.anchor # 0
    IN  /\ mounted /\ page.phase = "positioning"
        /\ \E edge \in IF unread /\ page.anchor \in List
                       THEN page.anchor..page.high ELSE {page.high} :
              page' = [page EXCEPT !.phase = "settled", !.edge = edge,
                                   !.bottom = (edge = page.high)]
        /\ entry' = IF unread THEN SetRoomDivider(entry, page.anchor)
                    ELSE entry
        /\ due' = due \cup {"sync", "mark", "place", "render"}
        /\ UNCHANGED <<server, wire, stored, visit, mounted, pending, lastSent,
                       seen>>

\* handleScroll; near the top it asks for older messages.
Scroll(edge, wantsHistory) ==
    LET divides == /\ edge # page.high /\ page.anchor = 0
                   /\ LocalUnread > 0 /\ FirstShown # 0
    IN  /\ mounted /\ Enabled /\ ~page.scrolling /\ edge # page.edge
        /\ wantsHistory => edge = page.low /\ HasMore /\ ~page.loading
        /\ page' = [page EXCEPT
               !.edge = edge, !.bottom = (edge = page.high), !.frame = TRUE,
               !.anchor = IF divides THEN FirstShown ELSE @,
               !.loading = @ \/ wantsHistory,
               !.prepending = @ \/ wantsHistory]
        /\ entry' = IF divides THEN SetRoomDivider(entry, FirstShown)
                    ELSE entry
        /\ due' = due \cup {"render"}
        /\ UNCHANGED <<server, wire, stored, visit, mounted, pending, lastSent,
                       seen>>

ScrollToBottom ==
    /\ mounted /\ ~page.scrolling /\ page.edge # page.high
    /\ page' = [page EXCEPT !.scrolling = TRUE, !.bottom = TRUE]
    /\ UNCHANGED <<server, wire, entry, stored, visit, mounted, pending,
                   lastSent, due, seen>>

\* applyViewportReadNow with the viewport's lower edge at a message.
ViewportRead(edge) ==
    LET next == IF Enabled
                THEN NextLastRead(List, Tracked, {m \in List : m <= edge})
                ELSE Tracked
        counts == next > 0 /\ next <= page.high
        kept == PersistEntry(entry, next)
        after == IF counts THEN ApplyLocalRead(kept, List, next) ELSE kept
    IN  /\ page' = [page EXCEPT !.progress = IF next > Tracked THEN next ELSE @,
                                !.edge = edge, !.frame = FALSE,
                                !.scrolling = FALSE, !.bottom = (edge = page.high)]
        /\ Persist(next)
        /\ entry' = after
        /\ IF counts THEN Send(next) ELSE UNCHANGED <<lastSent, posts>>
        /\ due' = due \cup Woken(entry, after,
                                 Larger(next, pending[visit]) # Tracked)
        /\ seen' = IF Enabled THEN Larger(seen, edge) ELSE seen
        /\ UNCHANGED <<server, snapshots, answers, beacons, fails, visit,
                       mounted>>

\* The frame a scroll or the positioning asked for.
FrameRuns == mounted /\ page.frame /\ ~page.scrolling /\ ViewportRead(page.edge)

\* A scroll to the end is over.
ScrollEnds == mounted /\ page.scrolling /\ ViewportRead(page.high)

\* The debounced mark_read.
TimerFires ==
    /\ mounted /\ page.timer # 0
    /\ page' = [page EXCEPT !.timer = 0]
    /\ Persist(page.timer) /\ Send(page.timer)
    /\ entry' = PersistEntry(entry, page.timer)
    /\ due' = due \cup {"render"}
    /\ UNCHANGED <<server, snapshots, answers, beacons, fails, visit, mounted,
                   seen>>

\* flushPendingRead when the document is hidden or goes away.
Flushes(id) == mounted /\ id >= 1 /\ id > page.base

FlushCandidate == Larger(pending[visit], LocalRead)

Hide ==
    /\ mounted /\ Flushes(FlushCandidate)
    /\ Persist(FlushCandidate)
    /\ entry' = PersistEntry(entry, FlushCandidate)
    /\ beacons' = beacons \cup {FlushCandidate}
    /\ due' = due \cup {"render"}
    /\ UNCHANGED <<server, snapshots, posts, answers, fails, visit, mounted,
                   page, lastSent, seen>>

\* The room is left: the pending read is sent unless it was already.
Leave ==
    /\ mounted /\ mounted' = FALSE
    /\ page' = NoPage /\ due' = {}
    /\ IF pending[visit] > page.base THEN Send(pending[visit])
       ELSE UNCHANGED <<lastSent, posts>>
    /\ UNCHANGED <<server, snapshots, answers, beacons, fails, entry, stored,
                   visit, pending, seen>>

\* The tab is reloaded or dies: only sessionStorage stays.  A request under
\* way may still reach the server, nobody hears the answer, and the new
\* inbox socket starts with a fresh snapshot.
Restart(flushed) ==
    /\ beacons' = beacons \cup {post.id : post \in posts} \cup flushed
    /\ posts' = {} /\ answers' = {}
    /\ snapshots' = <<UnreadOf(published, cursor)>>
    /\ entry' = EmptyEntry /\ mounted' = FALSE /\ page' = NoPage
    /\ due' = {}
    /\ UNCHANGED <<server, fails, visit, lastSent, seen>>

Reload ==
    /\ mounted
    /\ IF Flushes(FlushCandidate)
       THEN Persist(FlushCandidate) /\ Restart({FlushCandidate})
       ELSE UNCHANGED <<pending, stored>> /\ Restart({})

Crash == mounted /\ UNCHANGED <<pending, stored>> /\ Restart({})

-----------------------------------------------------------------------------

Tab ==
    \/ Open \/ Commit \/ Positioned \/ ScrollToBottom \/ FrameRuns
    \/ ScrollEnds \/ TimerFires \/ Hide \/ Leave \/ Reload \/ Crash
    \/ \E edge \in List, wants \in BOOLEAN : Scroll(edge, wants)

Arrivals ==
    \/ SnapshotArrives \/ MessageArrives \/ HistoryArrives \/ HistoryFails
    \/ \E answer \in answers : ReadConfirmed(answer) \/ ReadRefused(answer)

Next ==
    \/ Publish \/ Tab \/ Arrivals
    \/ \E post \in posts : MarkRead(post) \/ MarkReadFails(post)
    \/ \E id \in beacons : BeaconArrives(id) \/ BeaconIsLost(id)

\* React runs effects, the browser its frames; a page of history is answered
\* unless the request fails.
Fairness ==
    WF_vars(Commit) /\ WF_vars(Positioned) /\ WF_vars(HistoryArrives)

Spec == Init /\ [][Next]_vars /\ Fairness

-----------------------------------------------------------------------------
(* Every variable stays in its range; a page never asks for history before *)
(* the first message.                                                      *)
TypeOK ==
    /\ published \in Cursors /\ cursor \in Cursors
    /\ \A i \in DOMAIN snapshots : snapshots[i] \in Cursors
    /\ posts \subseteq [visit : 1..MaxVisits, id : Ids]
    /\ answers \subseteq [visit : 1..MaxVisits, id : Ids, ok : BOOLEAN]
    /\ beacons \subseteq Ids /\ fails \in 0..MaxFails
    /\ entry \in [initialized : BOOLEAN, server : Cursors, local : Cursors,
                  first : Cursors, unread : Cursors, loadedUnread : Cursors,
                  divider : Cursors, pending : Cursors,
                  authoritative : Cursors \cup {NoCount}]
    /\ stored \in Cursors /\ visit \in 0..MaxVisits /\ mounted \in BOOLEAN
    /\ page \in Page
    /\ pending \in [1..MaxVisits -> Cursors]
    /\ lastSent \in [1..MaxVisits -> Cursors]
    /\ due \subseteq Effects /\ seen \in Cursors
    /\ mounted => visit > 0

(* The server's cursor never passes a message that was not inside the      *)
(* viewport of a positioned list: no debounced, retried, flushed or stored *)
(* read reports more than the user has seen.                               *)
Earned == cursor <= Larger(FirstRead, seen)

(* A page that has seen further than the server knows holds the read to    *)
(* send it when it is left, whatever answers of this or an earlier visit   *)
(* arrive in between.                                                      *)
ReadIsHeld == mounted => page.progress <= Larger(cursor, pending[visit])

\* Nothing is on its way and no effect, frame or timer waits.
Quiet ==
    /\ mounted /\ Enabled /\ page.high = published
    /\ snapshots = <<>> /\ posts = {} /\ answers = {} /\ beacons = {}
    /\ due = {} /\ ~page.frame /\ ~page.scrolling /\ page.timer = 0

(* Once everything has arrived a room without unread messages shows no     *)
(* badge, however snapshots, answers and reads were interleaved.           *)
NoBadgeOfNothing ==
    Quiet /\ UnreadOf(published, cursor) = 0 => entry.unread = 0

(* Once everything has arrived the badge counts the messages that were not *)
(* read: a snapshot that catches up with a local read must not be lessened *)
(* by that read again.                                                     *)
BadgeIsRight == Quiet => entry.unread = UnreadOf(published, LocalRead)

(* The list jumps to its end for a new message only when the reader was at *)
(* the end as it arrived (or asked for it).                                *)
StaysWhereReaderIs ==
    [][~page.scrolling /\ page'.scrolling /\ ~page'.bottom => page.came]_vars

(* A room that opens with more unread messages than its first page holds   *)
(* loads its history and is positioned, and only then counts reads; a page *)
(* of history that fails may leave it without a position.                  *)
Settles == mounted ~> (Enabled \/ ~mounted \/ fails > 0)
=============================================================================
