-------------------------- MODULE UnreadProjection --------------------------
(***************************************************************************)
(* What the web client knows about the unread messages of one room, and    *)
(* how every source of information changes it: the room's entry of         *)
(* RoomReadStateProvider, the read tracker's arithmetic over the loaded    *)
(* messages, and the store of local overrides.  The operators are pure;    *)
(* RoomReading and InboxClient call them from their handlers.              *)
(*                                                                         *)
(* A message is its id, a loaded list is the set of its ids (the list is   *)
(* in the order of ids), 0 stands for a missing cursor or message and      *)
(* NoCount for an authoritative count the server has not sent yet.         *)
(***************************************************************************)
EXTENDS Integers, FiniteSets

CONSTANT OwnMessages  \* ids of the messages the current user wrote

ASSUME OwnAssumption == OwnMessages \subseteq Nat

NoCount == -1

Larger(a, b) == IF a >= b THEN a ELSE b

Foreign(messages) == messages \ OwnMessages

ForeignAfter(messages, cursor) == {m \in Foreign(messages) : m > cursor}

-----------------------------------------------------------------------------
(* The read tracker *)

NextLastRead_Fault(messages, previous, visible) ==
    LET passed == ForeignAfter(messages, previous)
    IN  IF passed = {} THEN previous
        ELSE CHOOSE m \in passed : \A other \in passed : other <= m

\* The foreign messages of the list whose lower edge is inside the viewport
\* move the cursor to the last of them; it never moves back.
NextLastRead(messages, previous, visible) ==
    LET passed == ForeignAfter(messages, previous) \cap visible
    IN  IF passed = {} THEN previous
        ELSE CHOOSE m \in passed : \A other \in passed : other <= m

\* The oldest foreign message past the cursor, or 0.
FirstUnread(messages, cursor) ==
    LET unread == ForeignAfter(messages, cursor)
    IN  IF unread = {} THEN 0
        ELSE CHOOSE m \in unread : \A other \in unread : m <= other

UnreadStats(messages, cursor) ==
    [first |-> FirstUnread(messages, cursor),
     count |-> Cardinality(ForeignAfter(messages, cursor))]

-----------------------------------------------------------------------------
(* The room's entry in the provider *)

EmptyEntry ==
    [initialized |-> FALSE, server |-> 0, local |-> 0, first |-> 0,
     unread |-> 0, loadedUnread |-> 0, divider |-> 0, pending |-> 0,
     authoritative |-> NoCount]

\* What was read locally since the cursor the server is known to have.
ReadAfterBaseline(messages, server, local) ==
    Cardinality({m \in Foreign(messages) : server < m /\ m <= local})

\* The authoritative count wins over the loaded list, less what was read
\* locally since; the list only says where the first unread message is.
ProjectUnread(messages, server, local, authoritative) ==
    LET loaded == ForeignAfter(messages, local)
        size   == Cardinality(loaded)
        count  == IF authoritative = NoCount THEN size
                  ELSE Larger(0, authoritative
                                 - ReadAfterBaseline(messages, server, local))
        nth    == IF count <= size THEN count ELSE size
    IN  [unread |-> count, loadedUnread |-> size,
         first |-> IF loaded = {} \/ count < 1 THEN 0
                   ELSE CHOOSE m \in loaded :
                           Cardinality({x \in loaded : x >= m}) = nth]

\* initializeRoom and refreshRoomMessages.
InitializeRoom(entry, messages, serverCursor, pendingCursor) ==
    LET server  == Larger(entry.server, serverCursor)
        pending == Larger(pendingCursor, entry.pending)
        local   == Larger(Larger(server, entry.local), pending)
        seen    == ProjectUnread(messages, server, local, entry.authoritative)
        next    == [entry EXCEPT
                       !.initialized = TRUE, !.server = server,
                       !.local = local, !.pending = pending,
                       !.first = seen.first, !.unread = seen.unread,
                       !.loadedUnread = seen.loadedUnread]
    IN  IF next = entry THEN entry  \* the divider alone changes nothing
        ELSE [next EXCEPT !.divider = IF seen.unread = 0 THEN 0
                                      ELSE IF @ # 0 THEN @ ELSE seen.first]

ApplyLocalRead(entry, messages, cursor) ==
    IF cursor <= entry.local THEN entry
    ELSE LET seen == ProjectUnread(messages, entry.server, cursor,
                                   entry.authoritative)
         IN  [entry EXCEPT
                !.initialized = TRUE, !.local = cursor, !.first = seen.first,
                !.unread = seen.unread, !.loadedUnread = seen.loadedUnread,
                !.divider = IF seen.unread > 0 THEN @ ELSE 0]

ApplyServerSnapshot_Fault(entry, count) ==
    LET keepLocal == /\ entry.initialized
                     /\ entry.local > entry.server
                     /\ count > entry.unread
        shown     == IF keepLocal THEN entry.unread ELSE count
    IN  [entry EXCEPT
            !.authoritative = IF entry.initialized THEN @ ELSE count,
            !.unread  = IF entry.initialized THEN shown ELSE @]

\* A snapshot of the server's counts.  An initialised room that has read
\* further than the server knows keeps a lower count of its own.
ApplyServerSnapshot(entry, count) ==
    LET keepLocal == /\ entry.initialized
                     /\ entry.local > entry.server
                     /\ count > entry.unread
        shown     == IF keepLocal THEN entry.unread ELSE count
        settled   == entry.initialized /\ shown < 1
    IN  [entry EXCEPT
            !.authoritative = count,
            !.unread  = IF entry.initialized THEN shown ELSE @,
            !.first   = IF settled THEN 0 ELSE @,
            !.divider = IF settled THEN 0 ELSE @]

SetPendingMarkRead(entry, cursor) == [entry EXCEPT !.pending = cursor]

SetRoomDivider(entry, message) == [entry EXCEPT !.divider = message]

\* The answer to mark_read: the cursors move, the counts are not projected
\* again.
AcknowledgeServerRead(entry, cursor) ==
    IF cursor < 1 THEN entry
    ELSE LET server == Larger(entry.server, cursor)
         IN  [entry EXCEPT !.server = server,
                           !.local = Larger(@, server), !.pending = 0]

MarkRoomFullyRead(entry) ==
    [entry EXCEPT !.authoritative = 0, !.unread = 0, !.loadedUnread = 0,
                  !.first = 0, !.divider = 0, !.pending = 0]

\* The badge of a room: its own count once initialised, else the server's,
\* else what the caller has.
RoomUnreadCount(entry, fallback) ==
    IF entry.initialized THEN entry.unread
    ELSE IF entry.authoritative # NoCount THEN entry.authoritative
    ELSE fallback

=============================================================================
