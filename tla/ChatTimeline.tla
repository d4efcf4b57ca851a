---------------------------- MODULE ChatTimeline ----------------------------
(***************************************************************************)
(* The messages of an open room in one client: the pages useChatRoom loads *)
(* over HTTP, the events useChatRoomPageRealtime applies from the socket,  *)
(* and the optimistic sends, edits, removals and reactions of              *)
(* useChatRoomPageComposer.  All write the same list, in any order, while  *)
(* others change the room.                                                 *)
(*                                                                         *)
(* The server is modelled by its answers and the events it broadcasts; it  *)
(* broadcasts a message when it stores it.  A text is a version number.    *)
(***************************************************************************)
EXTENDS Naturals, Sequences, FiniteSets, SequencesExt

CONSTANTS History,     \* messages stored before the page opens: 1..History
          MaxId,       \* messages stored at all (bound)
          MaxText,     \* texts given by edits (bound)
          MaxWire,     \* events on their way (bound)
          MaxMoves,    \* what the users and the network start (bound)
          PageSize,    \* PAGE_SIZE
          Keys         \* clientMessageId of the messages the user sends

TimelineAssumption ==
    /\ {History, MaxText, MaxWire, MaxMoves} \subseteq Nat
    /\ {MaxId, PageSize} \subseteq Nat \ {0} /\ History <= MaxId
    /\ "none" \notin Keys

VARIABLES
    room,      \* server: the messages
    texts,     \* server: versions given out
    wire,      \* events on their way to the client
    frames,    \* keys of the sent frames on their way to the server
    joined,    \* the client gets the room's events
    list,      \* the client's messages
    more,      \* hasMore and nextBefore
    fetch,     \* the request for a page that is not outdated
    edit,      \* the edit request
    removal,   \* the removal request
    reaction,  \* pendingReactionOperations, one per message
    moves,     \* history: what was started
    wanted,    \* history: the reaction the user asked for last
    drifted    \* history: why the list may differ from the room

server == <<room, texts>>
net == <<wire, frames, joined>>
requests == <<fetch, edit, removal, reaction>>
vars == <<server, net, list, more, requests, moves, wanted,
          drifted>>

Ids == 1..MaxId
Persons == {"me", "other"}
Absent == [state |-> "none", text |-> 0, key |-> "none", likes |-> {}]
There(id) == room[id].state = "there"

NoFetch == [kind |-> "none", before |-> 0, page |-> <<>>, answered |-> FALSE]
\* What a failure restores is stale once the message or the list changed.
NoEdit == [id |-> 0, old |-> 0, text |-> 0, state |-> "none", stale |-> FALSE]
NoRemoval == [id |-> 0, at |-> 0, entry |-> <<>>, state |-> "none",
              stale |-> FALSE]
NoReaction == [active |-> FALSE, intended |-> FALSE, requested |-> FALSE,
               answer |-> "none"]

-----------------------------------------------------------------------------
(* Lists of messages *)

\* A message as the server sends it in a page; pages carry no client key.
Stored(id) ==
    [id |-> id, key |-> "none", pending |-> FALSE, text |-> room[id].text,
     count |-> Cardinality(room[id].likes), mine |-> "me" \in room[id].likes]

Arrived_Fault(event) ==
    [id |-> event.id, key |-> event.key, pending |-> event.key # "none",
     text |-> event.text, count |-> 0, mine |-> FALSE]

\* An event's message, without reactions.
Arrived(event) ==
    [id |-> event.id, key |-> event.key, pending |-> FALSE,
     text |-> event.text, count |-> 0, mine |-> FALSE]

Optimistic(key) ==
    [id |-> 0, key |-> key, pending |-> TRUE, text |-> 0, count |-> 0,
     mine |-> FALSE]

\* The numbers of a set in their order, and the entries of a list at them:
\* SetToSortSeq and SelectSeq without the operator they take.
Nth(S, k) == CHOOSE i \in S : Cardinality({j \in S : j <= i}) = k
InOrder(S) == [k \in 1..Cardinality(S) |-> Nth(S, k)]
Kept(l, S) == [k \in 1..Cardinality(S) |-> l[Nth(S, k)]]

Has(l, id) == \E i \in DOMAIN l : l[i].id = id
Place(l, id) == CHOOSE i \in DOMAIN l : l[i].id = id
Without(l, id) == Kept(l, {i \in DOMAIN l : l[i].id # id})
Change(l, id, With(_)) ==
    [i \in DOMAIN l |-> IF l[i].id = id THEN With(l[i]) ELSE l[i]]

\* Of messages with the same id the first is kept.
Dedupe(l) ==
    Kept(l, {i \in DOMAIN l :
                \/ l[i].pending
                \/ \A j \in 1..(i - 1) : l[j].pending \/ l[j].id # l[i].id})

RemoveOptimistic(l, key) ==
    Kept(l, {i \in DOMAIN l : ~(l[i].key = key /\ l[i].pending)})

Reconcile_Fault(l, message) ==
    IF Has(l, message.id) THEN l ELSE Append(l, message)

\* The optimistic message of the key becomes the server's, or goes when that is
\* there already; a message that is there is not added again.
Reconcile(l, message) ==
    LET mine == {i \in DOMAIN l : l[i].key = message.key}
        seen == {i \in DOMAIN l : l[i].id = message.id}
    IN  IF message.key # "none" /\ mine # {}
        THEN Kept([i \in DOMAIN l |-> IF i \in mine THEN message ELSE l[i]],
                  IF seen = {} THEN DOMAIN l ELSE (DOMAIN l \ mine) \cup seen)
        ELSE IF seen # {} THEN l ELSE Append(l, message)

-----------------------------------------------------------------------------
(* The server *)

\* Who is not in the room's group misses the event.
Emit(events) ==
    IF joined
    THEN /\ Len(wire) + Len(events) <= MaxWire /\ wire' = wire \o events
         /\ UNCHANGED drifted
    ELSE UNCHANGED wire /\ drifted' = TRUE

NextId == CHOOSE id \in Ids : /\ room[id].state = "none"
                              /\ \A j \in 1..(id - 1) : room[j].state # "none"

Message(id, key) ==
    [kind |-> "message", id |-> id, key |-> key, text |-> 0]

Store(key) ==
    /\ room[MaxId].state = "none"
    /\ room' = [room EXCEPT ![NextId] = [Absent EXCEPT !.state = "there",
                                                       !.key = key]]

OtherPosts ==
    /\ Store("none") /\ Emit(<<Message(NextId, "none")>>)
    /\ UNCHANGED <<texts, frames, joined, list, more, requests, wanted>>

\* The sender gets an echo and the room's event.
FrameIsStored ==
    /\ frames # <<>> /\ frames' = Tail(frames) /\ Store(Head(frames))
    /\ Emit(<<Message(NextId, Head(frames)), Message(NextId, Head(frames))>>)
    /\ UNCHANGED <<texts, joined, list, more, requests, wanted>>

\* rate_limited, message_too_long, forbidden or slow_mode.
FrameIsRejected ==
    /\ frames # <<>> /\ frames' = Tail(frames)
    /\ Emit(<<[kind |-> "rejected", key |-> Head(frames)]>>)
    /\ UNCHANGED <<server, joined, list, more, requests, wanted>>

EditOnServer(id, text) ==
    /\ room' = [room EXCEPT ![id].text = text]
    /\ Emit(<<[kind |-> "edit", id |-> id, text |-> text]>>)

RemoveOnServer(id) ==
    /\ room' = [room EXCEPT ![id] = [@ EXCEPT !.state = "gone",
                                              !.likes = {}]]
    /\ Emit(<<[kind |-> "delete", id |-> id]>>)

\* Only a reaction that is new or was there is broadcast.
ReactOnServer(id, who, on) ==
    IF (who \in room[id].likes) = on THEN UNCHANGED <<room, wire, drifted>>
    ELSE /\ room' = [room EXCEPT ![id].likes = IF on THEN @ \cup {who}
                                               ELSE @ \ {who}]
         /\ Emit(<<[kind |-> IF on THEN "add" ELSE "remove", id |-> id,
                    me |-> who = "me"]>>)

OtherEdits(id) ==
    /\ There(id) /\ texts < MaxText /\ texts' = texts + 1
    /\ EditOnServer(id, texts + 1)
    /\ UNCHANGED <<frames, joined, list, more, requests, wanted>>

OtherRemoves(id) ==
    /\ There(id) /\ RemoveOnServer(id)
    /\ UNCHANGED <<texts, frames, joined, list, more, requests, wanted>>

OtherReacts(id) ==
    /\ There(id) /\ ReactOnServer(id, "other", "other" \notin room[id].likes)
    /\ UNCHANGED <<texts, frames, joined, list, more, requests, wanted>>

-----------------------------------------------------------------------------
(* Pages: loadInitial, loadMore *)

\* The newest messages before the cursor; before = 0 asks for the newest.
PageBefore(before) ==
    LET ids == {id \in Ids : There(id) /\ (before = 0 \/ id < before)}
        kept == {id \in ids : Cardinality({j \in ids : j >= id}) <= PageSize}
    IN  InOrder(kept)

\* A new request outdates the one before: its answer is ignored.
LoadInitial ==
    /\ fetch' = [NoFetch EXCEPT !.kind = "load"] /\ list' = <<>>
    /\ more' = [has |-> TRUE, next |-> 0]
    /\ removal' = [removal EXCEPT !.stale = @ \/ removal.state # "none"]
    /\ UNCHANGED <<server, net, edit, reaction, wanted, drifted>>

LoadMore ==
    /\ fetch.kind # "more" /\ more.has
    /\ IF more.next = 0
       THEN more' = [more EXCEPT !.has = FALSE] /\ UNCHANGED fetch
       ELSE /\ fetch' = [NoFetch EXCEPT !.kind = "more",
                                        !.before = more.next]
            /\ UNCHANGED more
    /\ UNCHANGED <<server, net, list, edit, removal, reaction, wanted, drifted>>

\* The page is read while an event that it already contains is under way.
ReactionUnderWay ==
    \E i \in DOMAIN wire : wire[i].kind \in {"add", "remove"}

PageIsRead ==
    /\ fetch.kind # "none" /\ ~fetch.answered
    /\ LET ids == PageBefore(fetch.before)
       IN  fetch' = [fetch EXCEPT !.answered = TRUE,
                        !.page = [i \in DOMAIN ids |-> Stored(ids[i])]]
    /\ drifted' = (drifted \/ ReactionUnderWay)
    /\ UNCHANGED <<server, net, list, more, edit, removal, reaction, wanted>>

PageArrives ==
    /\ fetch.kind # "none" /\ fetch.answered /\ fetch' = NoFetch
    /\ list' = IF fetch.kind = "load" THEN fetch.page
               ELSE Dedupe(fetch.page \o list)
    /\ more' = [has |-> \E id \in Ids : /\ There(id) /\ fetch.page # <<>>
                                        /\ id < fetch.page[1].id,
                next |-> IF fetch.page = <<>> THEN 0 ELSE fetch.page[1].id]
    /\ UNCHANGED <<server, net, edit, removal, reaction, wanted, drifted>>

PageFails ==
    /\ fetch.kind # "none" /\ fetch' = NoFetch
    /\ drifted' = (drifted \/ fetch.kind = "load")
    /\ UNCHANGED <<server, net, list, more, edit, removal, reaction, wanted>>

-----------------------------------------------------------------------------
(* Events: handleMessage *)

Apply(event) ==
    \/ event.kind = "message" /\ list' = Reconcile(list, Arrived(event))
    \/ event.kind = "rejected" /\ list' = RemoveOptimistic(list, event.key)
    \/ /\ event.kind = "edit"
       /\ list' = Change(list, event.id,
                         LAMBDA m : [m EXCEPT !.text = event.text])
    \/ event.kind = "delete" /\ list' = Without(list, event.id)
    \/ /\ event.kind = "add"
       /\ list' = Change(list, event.id,
                         LAMBDA m : [m EXCEPT !.count = @ + 1,
                                              !.mine = @ \/ event.me])
    \/ /\ event.kind = "remove"
       /\ list' = Change(list, event.id,
                         LAMBDA m : IF m.count <= 1
                                    THEN [m EXCEPT !.count = 0, !.mine = FALSE]
                                    ELSE [m EXCEPT !.count = @ - 1,
                                                   !.mine = @ /\ ~event.me])

About(event, id) == event.kind # "rejected" /\ event.id = id

\* An event handled while a page that lacks it is under way is lost.
HandleMessage ==
    /\ wire # <<>> /\ wire' = Tail(wire) /\ Apply(Head(wire))
    /\ edit' = [edit EXCEPT !.stale = @ \/ About(Head(wire), edit.id)]
    /\ removal' = [removal EXCEPT !.stale = @ \/ About(Head(wire), removal.id)]
    /\ drifted' = (drifted \/ fetch.answered)
    /\ UNCHANGED <<server, frames, joined, more, fetch, reaction, wanted>>

\* The connection breaks; what was under way is lost.  Joining again loads
\* nothing.
Break ==
    /\ joined /\ joined' = FALSE /\ wire' = <<>> /\ frames' = <<>>
    /\ drifted' = (drifted \/ wire # <<>> \/ frames # <<>>)
    /\ UNCHANGED <<server, list, more, requests, wanted>>

Join ==
    /\ ~joined /\ joined' = TRUE
    /\ UNCHANGED <<server, wire, frames, list, more, requests, wanted, drifted>>

-----------------------------------------------------------------------------
(* The user *)

\* The composer is not there while the room loads.
SendText(key) ==
    /\ joined /\ fetch.kind # "load"
    /\ \A id \in Ids : room[id].key # key
    /\ \A i \in DOMAIN frames : frames[i] # key
    /\ \A i \in DOMAIN list : list[i].key # key
    /\ frames' = Append(frames, key) /\ list' = Append(list, Optimistic(key))
    /\ UNCHANGED <<server, wire, joined, more, requests, wanted, drifted>>

Entry(id) == list[Place(list, id)]

\* handleEdit remembers the text that a failure restores.
HandleEdit(id) ==
    /\ edit.state = "none" /\ Has(list, id)
    /\ edit' = [NoEdit EXCEPT !.id = id, !.old = Entry(id).text,
                              !.state = "open"]
    /\ UNCHANGED <<server, net, list, more, fetch, removal, reaction, wanted,
                   drifted>>

CancelEdit ==
    /\ edit.state = "open" /\ edit' = NoEdit
    /\ UNCHANGED <<server, net, list, more, fetch, removal, reaction, wanted,
                   drifted>>

SendEdit ==
    /\ edit.state = "open" /\ joined /\ texts < MaxText /\ texts' = texts + 1
    /\ edit' = [edit EXCEPT !.text = texts + 1, !.state = "sent"]
    /\ list' = Change(list, edit.id, LAMBDA m : [m EXCEPT !.text = texts + 1])
    /\ UNCHANGED <<room, net, more, fetch, removal, reaction, wanted, drifted>>

\* Done, refused, lost on the way there, or lost on the way back.
EditIsServed ==
    /\ edit.state = "sent" /\ There(edit.id)
    /\ EditOnServer(edit.id, edit.text)
    /\ edit' = [edit EXCEPT !.state = "done"]
    /\ UNCHANGED <<texts, frames, joined, list, more, fetch, removal, reaction,
                   wanted>>

EditIsRefused ==
    /\ edit.state = "sent" /\ edit' = [edit EXCEPT !.state = "failed"]
    /\ UNCHANGED <<server, net, list, more, fetch, removal, reaction, wanted,
                   drifted>>

EditAnswerIsLost ==
    /\ edit.state = "done"
    /\ edit' = [edit EXCEPT !.state = "failed", !.stale = TRUE]
    /\ UNCHANGED <<server, net, list, more, fetch, removal, reaction, wanted,
                   drifted>>

Undone_Fault(l) == l
Undone(l) == Change(l, edit.id, LAMBDA m : [m EXCEPT !.text = edit.old])

EditIsAnswered ==
    /\ edit.state \in {"done", "failed"} /\ edit' = NoEdit
    /\ list' = IF edit.state = "failed" THEN Undone(list) ELSE list
    /\ drifted' = (drifted \/ (edit.state = "failed" /\ edit.stale))
    /\ UNCHANGED <<server, net, more, fetch, removal, reaction, wanted>>

\* The dialog of handleDelete remembers the message as it is.
HandleDelete(id) ==
    /\ removal.state = "none" /\ Has(list, id)
    /\ removal' = [NoRemoval EXCEPT !.id = id, !.entry = Entry(id),
                      !.state = "open",
                      !.stale = edit.id = id /\ edit.state # "open"]
    /\ UNCHANGED <<server, net, list, more, fetch, edit, reaction, wanted,
                   drifted>>

CloseDialog ==
    /\ removal.state = "open" /\ removal' = NoRemoval
    /\ UNCHANGED <<server, net, list, more, fetch, edit, reaction, wanted,
                   drifted>>

ConfirmDelete ==
    /\ removal.state = "open"
    /\ removal' = [removal EXCEPT !.state = "sent",
                      !.at = IF Has(list, removal.id)
                             THEN Place(list, removal.id) ELSE 0]
    /\ list' = Without(list, removal.id)
    /\ UNCHANGED <<server, net, more, fetch, edit, reaction, wanted, drifted>>

RemovalIsServed ==
    /\ removal.state = "sent" /\ There(removal.id)
    /\ RemoveOnServer(removal.id)
    /\ removal' = [removal EXCEPT !.state = "done"]
    /\ UNCHANGED <<texts, frames, joined, list, more, fetch, edit, reaction,
                   wanted>>

\* A message that is gone already is not found.
RemovalIsRefused ==
    /\ removal.state = "sent"
    /\ removal' = [removal EXCEPT !.state = "failed",
                                  !.stale = @ \/ ~There(removal.id)]
    /\ UNCHANGED <<server, net, list, more, fetch, edit, reaction, wanted,
                   drifted>>

RemovalAnswerIsLost ==
    /\ removal.state = "done"
    /\ removal' = [removal EXCEPT !.state = "failed", !.stale = TRUE]
    /\ UNCHANGED <<server, net, list, more, fetch, edit, reaction, wanted,
                   drifted>>

Restored(l) ==
    IF Has(l, removal.id) THEN l
    ELSE InsertAt(l, IF removal.at \in 1..Len(l) THEN removal.at ELSE Len(l) + 1,
                  removal.entry)

RemovalIsAnswered ==
    /\ removal.state \in {"done", "failed"} /\ removal' = NoRemoval
    /\ list' = IF removal.state = "failed" THEN Restored(list) ELSE list
    /\ drifted' = (drifted \/ (removal.state = "failed" /\ removal.stale))
    /\ UNCHANGED <<server, net, more, fetch, edit, reaction, wanted>>

\* A click while a request is under way only changes what is intended.
HandleReact(id) ==
    LET op   == reaction[id]
        next == ~(IF op.active THEN op.intended ELSE Entry(id).mine)
    IN  /\ Has(list, id)
        /\ reaction' = [reaction EXCEPT ![id] =
                           IF op.active THEN [op EXCEPT !.intended = next]
                           ELSE [active |-> TRUE, intended |-> next,
                                 requested |-> next, answer |-> "none"]]
        /\ wanted' = [wanted EXCEPT ![id] = {next}]
        /\ UNCHANGED <<server, net, list, more, fetch, edit, removal, drifted>>

ReactionIsServed(id) ==
    /\ reaction[id].active /\ reaction[id].answer = "none" /\ There(id)
    /\ ReactOnServer(id, "me", reaction[id].requested)
    /\ reaction' = [reaction EXCEPT ![id].answer = "done"]
    /\ UNCHANGED <<texts, frames, joined, list, more, fetch, edit, removal,
                   wanted>>

\* The request, or its answer, is lost: the operation and what was intended
\* since are dropped.
ReactionFails(id) ==
    /\ reaction[id].active
    /\ reaction' = [reaction EXCEPT ![id] = NoReaction]
    /\ wanted' = [wanted EXCEPT ![id] = {}]
    /\ UNCHANGED <<server, net, list, more, fetch, edit, removal, drifted>>

Settled_Fault(op) == NoReaction
Settled(op) ==
    IF op.intended = op.requested THEN NoReaction
    ELSE [op EXCEPT !.requested = op.intended, !.answer = "none"]

ReactionIsAnswered(id) ==
    /\ reaction[id].active /\ reaction[id].answer = "done"
    /\ reaction' = [reaction EXCEPT ![id] = Settled(@)]
    /\ UNCHANGED <<server, net, list, more, fetch, edit, removal, wanted, drifted>>

-----------------------------------------------------------------------------

Init ==
    /\ room = [id \in Ids |-> IF id <= History
                              THEN [Absent EXCEPT !.state = "there"] ELSE Absent]
    /\ texts = 0 /\ wire = <<>> /\ frames = <<>> /\ joined = TRUE
    /\ list = <<>> /\ more = [has |-> TRUE, next |-> 0]
    /\ fetch = [NoFetch EXCEPT !.kind = "load"]
    /\ edit = NoEdit /\ removal = NoRemoval
    /\ reaction = [id \in Ids |-> NoReaction]
    /\ moves = 0 /\ wanted = [id \in Ids |-> {}] /\ drifted = FALSE

\* What a user, somebody else or the network starts.
Others ==
    \/ OtherPosts
    \/ \E id \in Ids : OtherEdits(id) \/ OtherRemoves(id) \/ OtherReacts(id)

User ==
    \/ LoadInitial \/ LoadMore \/ \E key \in Keys : SendText(key)
    \/ \E id \in Ids : HandleEdit(id) \/ HandleDelete(id) \/ HandleReact(id)

\* What follows from it.
Pages == PageIsRead \/ PageArrives \/ PageFails

Socket == HandleMessage \/ Join \/ FrameIsStored \/ FrameIsRejected

Edits ==
    \/ CancelEdit \/ SendEdit \/ EditIsServed \/ EditIsRefused
    \/ EditAnswerIsLost \/ EditIsAnswered

Removals ==
    \/ CloseDialog \/ ConfirmDelete \/ RemovalIsServed \/ RemovalIsRefused
    \/ RemovalAnswerIsLost \/ RemovalIsAnswered

Reactions ==
    \E id \in Ids : \/ ReactionIsServed(id) \/ ReactionFails(id)
                    \/ ReactionIsAnswered(id)

Next ==
    \/ /\ moves < MaxMoves /\ moves' = moves + 1
       /\ Others \/ User \/ Break
    \/ /\ UNCHANGED moves
       /\ Pages \/ Socket \/ Edits \/ Removals \/ Reactions

Spec == Init /\ [][Next]_vars

-----------------------------------------------------------------------------
TypeOK ==
    /\ \A id \in Ids : /\ room[id].state \in {"none", "there", "gone"}
                       /\ room[id].text \in 0..MaxText
                       /\ room[id].likes \subseteq Persons
    /\ Len(wire) <= MaxWire /\ joined \in BOOLEAN
    /\ \A i \in DOMAIN list : /\ list[i].id \in 0..MaxId
                              /\ list[i].pending = (list[i].id = 0)
                              /\ list[i].text \in 0..MaxText
    /\ more.has \in BOOLEAN /\ more.next \in 0..MaxId

(* A message is in the list once, and never both as sent and as being      *)
(* sent, in whatever order the echo, the event, pages and undone removals  *)
(* arrive.                                                                 *)
ShownOnce ==
    \A i, j \in DOMAIN list : i # j =>
        /\ list[i].id # list[j].id \/ list[i].pending
        /\ list[i].key # list[j].key \/ list[i].key = "none"

\* Nothing is under way.
Quiet ==
    /\ wire = <<>> /\ frames = <<>> /\ fetch.kind = "none" /\ joined
    /\ edit.state = "none" /\ removal.state = "none"
    /\ \A id \in Ids : ~reaction[id].active

(* When nothing is under way, the list is what the server has from its     *)
(* oldest message on: the same messages, texts and reactions, nothing      *)
(* still being sent.  (Except after the losses that drifted records.)      *)
Converges ==
    Quiet /\ ~drifted =>
        LET shown == {list[i].id : i \in DOMAIN list}
        IN  /\ \A i \in DOMAIN list :
                  /\ ~list[i].pending /\ There(list[i].id)
                  /\ list[i].text = room[list[i].id].text
                  /\ list[i].count = Cardinality(room[list[i].id].likes)
                  /\ list[i].mine = ("me" \in room[list[i].id].likes)
            /\ \A id \in Ids : There(id) /\ (\E j \in shown : j <= id) =>
                  id \in shown

(* Rapid clicks on a reaction end with the state the user asked for last.  *)
LastClickWins ==
    \A id \in Ids : ~reaction[id].active /\ There(id) /\ wanted[id] # {} =>
        wanted[id] = {"me" \in room[id].likes}
=============================================================================
