--------------------------- MODULE RoomReadingProofs ---------------------------
(***************************************************************************)
(* No read is reported that was not earned: RoomReading's invariant Earned *)
(* for every room, number of visits and page size, and any interleaving of *)
(* timers, frames, flushes, answers, snapshots, reloads and crashes.       *)
(*                                                                         *)
(* Every place a cursor passes through, on the server, on the wire, in the *)
(* provider's entry, in the page and in sessionStorage, is bounded by the  *)
(* last message that has been inside the viewport (or by what was read     *)
(* before).  This is inductive; Earned is its part about the server.       *)
(*                                                                         *)
(* Then: what was seen is held until the server knows it, every variable   *)
(* stays in its range, and a room without unread messages has no badge.    *)
(***************************************************************************)
EXTENDS RoomReading, FiniteSetTheorems, SequenceTheorems, WellFoundedInduction, TLAPS

Bound == Larger(FirstRead, seen)

\* The fields of an entry and of a page that hold a cursor.
EntryShape(e) == {"server", "local", "pending"} \subseteq DOMAIN e
EntryBelow(e, b) ==
  EntryShape(e) /\ e.server \in 0..b /\ e.local \in 0..b /\ e.pending \in 0..b

PageShape(p) ==
  {"base", "progress", "timer", "low", "high", "edge"} \subseteq DOMAIN p
PageBelow(p, b) ==
  /\ PageShape(p)
  /\ p.base \in 0..b /\ p.progress \in 0..b /\ p.timer \in 0..b
  /\ p.low \in Int /\ p.high \in Int /\ p.edge \in Int

VisitNumbers == visit \in 0..MaxVisits /\ (mounted => visit > 0)
StoredBelow == stored \in 0..Bound /\ pending \in [1..MaxVisits -> 0..Bound]
SentBelow ==
  /\ \A post \in posts : post.id \in 0..Bound
  /\ \A answer \in answers : answer.id \in 0..Bound
  /\ beacons \subseteq 0..Bound

IInv ==
  /\ published \in Nat /\ seen \in Nat /\ VisitNumbers
  /\ cursor \in 0..Bound
  /\ EntryBelow(entry, Bound) /\ PageBelow(page, Bound)
  /\ StoredBelow /\ SentBelow

------------------------------------------------------------------------------
(* The operators                                                           *)

\* Among integers that do not exceed a number there is a largest.
LEMMA Largest ==
  ASSUME NEW high \in Int, NEW S, S # {}, \A m \in S : m \in Int /\ m <= high
  PROVE  \E m \in S : \A other \in S : other <= m
<1> DEFINE T == {n \in Nat : high - n \in S}
<1>1. T \subseteq Nat
  OBVIOUS
<1>2. T # {}
  <2>1. PICK m \in S : TRUE
    OBVIOUS
  <2>2. high - m \in Nat /\ high - (high - m) = m
    BY <2>1
  <2>3. high - m \in T
    BY <2>1, <2>2
  <2> QED BY <2>3
<1>3. \E x \in T : \A y \in T : ~(<<y, x>> \in OpToRel(<, Nat))
  <2> HIDE DEF T
  <2> QED BY <1>1, <1>2, NatLessThanWellFounded, WFMin
<1>4. PICK x \in T : \A y \in T : ~(y < x)
  <2>1. PICK x \in T : \A y \in T : ~(<<y, x>> \in OpToRel(<, Nat))
    BY <1>3
  <2>2. ASSUME NEW y \in T, y < x PROVE FALSE
    <3>1. <<y, x>> \in OpToRel(<, Nat)
      BY <2>2 DEF OpToRel
    <3> QED BY <3>1, <2>1
  <2> QED BY <2>1, <2>2
<1>5. ASSUME NEW other \in S PROVE other <= high - x
  <2>1. other \in Int /\ high - other \in Nat /\ high - (high - other) = other
    OBVIOUS
  <2>2. high - other \in T
    BY <2>1
  <2>3. ~(high - other < x) /\ x \in Nat
    BY <1>4, <2>2
  <2> QED BY <2>1, <2>3
<1> QED BY <1>4, <1>5

\* The tracker moves the cursor to a message that is visible, or nowhere.
LEMMA NextLastReadIs ==
  ASSUME NEW low \in Int, NEW high \in Int, NEW edge \in Int, NEW previous \in Nat
  PROVE  LET next == NextLastRead(low..high, previous,
                                  {m \in low..high : m <= edge})
         IN  next = previous \/ (next \in Nat /\ next <= edge)
<1> DEFINE visible == {m \in low..high : m <= edge}
           passed == ForeignAfter(low..high, previous) \cap visible
           next == NextLastRead(low..high, previous, visible)
<1>1. \A m \in passed : m \in Int /\ m <= high /\ m <= edge /\ m > previous
  BY DEF ForeignAfter, Foreign
<1>2. CASE passed = {}
  BY <1>2 DEF NextLastRead
<1>3. CASE passed # {}
  <2>1. \E m \in passed : \A other \in passed : other <= m
    <3> HIDE DEF passed
    <3> QED BY <1>1, <1>3, Largest
  <2>2. next = CHOOSE m \in passed : \A other \in passed : other <= m
    BY <1>3 DEF NextLastRead
  <2>3. next \in passed
    BY <2>1, <2>2
  <2> QED BY <1>1, <2>3
<1> QED BY <1>2, <1>3

\* The operations on an entry keep its shape and its cursors within a bound.
LEMMA BelowGrows ==
  ASSUME NEW b \in Nat, NEW c \in Nat, b <= c, NEW e, NEW p
  PROVE  /\ EntryBelow(e, b) => EntryBelow(e, c)
         /\ PageBelow(p, b) => PageBelow(p, c)
         /\ 0..b \subseteq 0..c
BY DEF EntryBelow, PageBelow

LEMMA EmptyEntryBelow ==
  ASSUME NEW b \in Nat PROVE EntryBelow(EmptyEntry, b)
BY DEF EntryBelow, EntryShape, EmptyEntry

LEMMA SetPendingBelow ==
  ASSUME NEW b \in Nat, NEW e, EntryBelow(e, b), NEW c \in 0..b
  PROVE  EntryBelow(SetPendingMarkRead(e, c), b)
BY DEF EntryBelow, EntryShape, SetPendingMarkRead

LEMMA SetDividerBelow ==
  ASSUME NEW b \in Nat, NEW e, EntryBelow(e, b), NEW m
  PROVE  EntryBelow(SetRoomDivider(e, m), b)
BY DEF EntryBelow, EntryShape, SetRoomDivider

LEMMA AcknowledgeBelow ==
  ASSUME NEW b \in Nat, NEW e, EntryBelow(e, b), NEW c \in 0..b
  PROVE  EntryBelow(AcknowledgeServerRead(e, c), b)
<1> DEFINE known == Larger(e.server, c)
           local == Larger(e.local, known)
<1>1. known \in 0..b /\ local \in 0..b
  BY DEF Larger, EntryBelow
<1>2. CASE c < 1
  BY <1>2 DEF AcknowledgeServerRead
<1>3. CASE ~(c < 1)
  <2>1. AcknowledgeServerRead(e, c) =
          [e EXCEPT !.server = known, !.local = local, !.pending = 0]
    BY <1>3 DEF AcknowledgeServerRead
  <2> HIDE DEF known, local
  <2> QED BY <1>1, <2>1 DEF EntryBelow, EntryShape
<1> QED BY <1>2, <1>3

LEMMA SnapshotBelow ==
  ASSUME NEW b \in Nat, NEW e, EntryBelow(e, b), NEW n
  PROVE  EntryBelow(ApplyServerSnapshot(e, n), b)
<1> DEFINE keeps == e.initialized /\ e.local > e.server /\ n > e.unread
           shown == IF keeps THEN e.unread ELSE n
           settled == e.initialized /\ shown < 1
           unread == IF e.initialized THEN shown ELSE e.unread
           first == IF settled THEN 0 ELSE e.first
           divider == IF settled THEN 0 ELSE e.divider
<1>1. ApplyServerSnapshot(e, n) =
        [e EXCEPT !.authoritative = n, !.unread = unread, !.first = first,
                  !.divider = divider]
  BY DEF ApplyServerSnapshot
<1> HIDE DEF unread, first, divider
<1> QED BY <1>1 DEF EntryBelow, EntryShape

LEMMA LocalReadBelow ==
  ASSUME NEW b \in Nat, NEW e, EntryBelow(e, b), NEW list, NEW c \in 0..b
  PROVE  EntryBelow(ApplyLocalRead(e, list, c), b)
<1> DEFINE unread == ProjectUnread(list, e.server, c, e.authoritative)
<1>1. CASE c <= e.local
  BY <1>1 DEF ApplyLocalRead
<1>2. CASE ~(c <= e.local)
  <2>1. ApplyLocalRead(e, list, c) =
          [e EXCEPT !.initialized = TRUE, !.local = c, !.first = unread.first,
                    !.unread = unread.unread, !.loadedUnread = unread.loadedUnread,
                    !.divider = IF unread.unread > 0 THEN @ ELSE 0]
    BY <1>2 DEF ApplyLocalRead
  <2> HIDE DEF unread
  <2> QED BY <2>1 DEF EntryBelow, EntryShape
<1> QED BY <1>1, <1>2

LEMMA InitializeBelow ==
  ASSUME NEW b \in Nat, NEW e, EntryBelow(e, b), NEW list,
         NEW c \in 0..b, NEW d \in 0..b
  PROVE  EntryBelow(InitializeRoom(e, list, c, d), b)
<1> DEFINE known == Larger(e.server, c)
           held == Larger(d, e.pending)
           local == Larger(Larger(known, e.local), held)
           unread == ProjectUnread(list, known, local, e.authoritative)
           next == [e EXCEPT !.initialized = TRUE, !.server = known,
                             !.local = local, !.pending = held,
                             !.first = unread.first, !.unread = unread.unread,
                             !.loadedUnread = unread.loadedUnread]
           divider == IF unread.unread = 0 THEN 0
                      ELSE IF next.divider # 0 THEN next.divider ELSE unread.first
           divided == [next EXCEPT !.divider = divider]
<1>1. known \in 0..b /\ held \in 0..b
  BY DEF Larger, EntryBelow
<1>2. local \in 0..b
  <2> HIDE DEF known, held
  <2> QED BY <1>1 DEF Larger, EntryBelow
<1>3. EntryBelow(next, b)
  <2> HIDE DEF known, held, local, unread
  <2> QED BY <1>1, <1>2 DEF EntryBelow, EntryShape
<1>4. EntryBelow(divided, b)
  <2> HIDE DEF next, unread, divider
  <2> QED BY <1>3 DEF EntryBelow, EntryShape
<1>5. InitializeRoom(e, list, c, d) = IF next = e THEN e ELSE divided
  BY DEF InitializeRoom
<1> QED BY <1>3, <1>4, <1>5

\* What a mounted page takes for the cursor is a cursor it may have.
LEMMA TrackedIs ==
  ASSUME IInv, mounted
  PROVE  /\ Bound \in Nat /\ Tracked \in 0..Bound /\ LocalRead \in 0..Bound
         /\ pending[visit] \in 0..Bound /\ FlushCandidate \in 0..Bound
<1>1. Bound \in Nat
  BY ReadingAssumption DEF IInv, Bound, Larger
<1>2. pending[visit] \in 0..Bound
  BY DEF IInv, VisitNumbers, StoredBelow
<1>3. page.base \in 0..Bound /\ page.progress \in 0..Bound /\ entry.local \in 0..Bound
  BY DEF IInv, PageBelow, EntryBelow
<1> HIDE DEF Bound
<1>4. Larger(page.base, pending[visit]) \in 0..Bound
  BY <1>1, <1>2, <1>3 DEF Larger
<1>5. Tracked \in 0..Bound
  BY <1>1, <1>3, <1>4 DEF Tracked, Larger
<1>6. LocalRead \in 0..Bound
  BY <1>1, <1>3, <1>5 DEF LocalRead, Larger
<1>7. FlushCandidate \in 0..Bound
  BY <1>1, <1>2, <1>6 DEF FlushCandidate, Larger
<1> QED BY <1>1, <1>2, <1>5, <1>6, <1>7

------------------------------------------------------------------------------
(* The steps                                                               *)

LEMMA InitHolds == Init => IInv
<1> SUFFICES ASSUME Init PROVE IInv
  OBVIOUS
<1>1. Bound = FirstRead /\ FirstRead \in Nat /\ FirstCount \in Nat /\ MaxVisits \in Nat
  BY ReadingAssumption DEF Init, Bound, Larger
<1>2. EntryBelow(entry, Bound)
  BY <1>1, EmptyEntryBelow DEF Init
<1>3. PageBelow(page, Bound)
  BY <1>1 DEF Init, NoPage, NewPage, PageBelow, PageShape
<1>4. StoredBelow /\ SentBelow /\ VisitNumbers
  BY <1>1 DEF Init, StoredBelow, SentBelow, VisitNumbers
<1> QED BY <1>1, <1>2, <1>3, <1>4 DEF Init, IInv

\* Nothing a step without a frame does moves the bound.
LEMMA SameBound ==
  ASSUME IInv, UNCHANGED seen
  PROVE  Bound \in Nat /\ Bound' = Bound /\ seen' \in Nat
BY ReadingAssumption DEF IInv, Bound, Larger

LEMMA PersistBelow ==
  ASSUME IInv, mounted, NEW b \in Nat, Bound <= b, NEW id \in 0..b
  PROVE  /\ Persist(id) => stored' \in 0..b /\ pending' \in [1..MaxVisits -> 0..b]
         /\ EntryBelow(PersistEntry(entry, id), b)
<1>1. Bound \in Nat
  BY ReadingAssumption DEF IInv, Bound, Larger
<1>2. stored \in 0..b /\ pending \in [1..MaxVisits -> 0..b] /\ visit \in 1..MaxVisits
  <2> HIDE DEF Bound
  <2>1. 0..Bound \subseteq 0..b
    BY <1>1
  <2>2. stored \in 0..b
    BY <2>1 DEF IInv, StoredBelow
  <2>3. pending \in [1..MaxVisits -> 0..b]
    BY <2>1 DEF IInv, StoredBelow
  <2>4. visit \in 1..MaxVisits
    BY DEF IInv, VisitNumbers
  <2> QED BY <2>2, <2>3, <2>4
<1>3. EntryBelow(entry, b)
  BY <1>1, BelowGrows DEF IInv
<1>4. Persist(id) => stored' \in 0..b /\ pending' \in [1..MaxVisits -> 0..b]
  BY <1>2 DEF Persist
<1>5. EntryBelow(PersistEntry(entry, id), b)
  <2>1. EntryBelow(SetPendingMarkRead(entry, id), b)
    BY <1>3, SetPendingBelow
  <2> QED BY <1>3, <2>1 DEF PersistEntry
<1> QED BY <1>4, <1>5

LEMMA SendBelow ==
  ASSUME IInv, NEW b \in Nat, Bound <= b, NEW id \in 0..b, Send(id)
  PROVE  \A post \in posts' : post.id \in 0..b
<1>1. \A post \in posts : post.id \in 0..b
  <2>1. Bound \in Nat
    BY ReadingAssumption DEF IInv, Bound, Larger
  <2> HIDE DEF Bound
  <2> QED BY <2>1 DEF IInv, SentBelow
<1> QED BY <1>1 DEF Send

\* The server's side: the wire carries earned reads only.
LEMMA ServerSteps ==
  ASSUME IInv
  PROVE  /\ Publish => IInv'
         /\ \A post \in posts : MarkRead(post) \/ MarkReadFails(post) => IInv'
         /\ \A id \in beacons : BeaconArrives(id) \/ BeaconIsLost(id) => IInv'
<1>1. ASSUME UNCHANGED tab, published' \in Nat, cursor' \in 0..Bound,
             \A post \in posts' : post.id \in 0..Bound,
             \A answer \in answers' : answer.id \in 0..Bound,
             beacons' \subseteq 0..Bound
      PROVE  IInv'
  <2>1. Bound' = Bound /\ seen' \in Nat
    BY <1>1, SameBound DEF tab
  <2>2. EntryBelow(entry', Bound) /\ PageBelow(page', Bound)
    BY <1>1 DEF IInv, tab
  <2>3. StoredBelow' /\ VisitNumbers'
    BY <1>1, <2>1 DEF IInv, tab, StoredBelow, VisitNumbers
  <2> QED BY <1>1, <2>1, <2>2, <2>3 DEF IInv, SentBelow
<1>2. /\ published \in Nat /\ cursor \in 0..Bound /\ Bound \in Nat
      /\ \A post \in posts : post.id \in 0..Bound
      /\ \A answer \in answers : answer.id \in 0..Bound
      /\ beacons \subseteq 0..Bound
  <2>1. Bound \in Nat
    BY ReadingAssumption DEF IInv, Bound, Larger
  <2> QED BY <2>1 DEF IInv, SentBelow
<1> HIDE DEF Bound
<1>3. ASSUME Publish PROVE IInv'
  BY <1>1, <1>2, <1>3 DEF Publish, tab
<1>4. ASSUME NEW post \in posts, MarkRead(post) PROVE IInv'
  <2>1. cursor' \in 0..Bound
    BY <1>2, <1>4 DEF MarkRead, ReadOnServer, Larger
  <2>2. \A answer \in answers' : answer.id \in 0..Bound
    BY <1>2, <1>4 DEF MarkRead
  <2> QED BY <1>1, <1>2, <1>4, <2>1, <2>2 DEF MarkRead, tab
<1>5. ASSUME NEW post \in posts, MarkReadFails(post) PROVE IInv'
  <2>1. \A answer \in answers' : answer.id \in 0..Bound
    BY <1>2, <1>5 DEF MarkReadFails
  <2> QED BY <1>1, <1>2, <1>5, <2>1 DEF MarkReadFails, tab, server
<1>6. ASSUME NEW id \in beacons, BeaconArrives(id) PROVE IInv'
  <2>1. cursor' \in 0..Bound
    BY <1>2, <1>6 DEF BeaconArrives, ReadOnServer, Larger
  <2> QED BY <1>1, <1>2, <1>6, <2>1 DEF BeaconArrives, tab
<1>7. ASSUME NEW id \in beacons, BeaconIsLost(id) PROVE IInv'
  BY <1>1, <1>2, <1>7 DEF BeaconIsLost, tab, server
<1> QED BY <1>3, <1>4, <1>5, <1>6, <1>7

\* A step that moves no cursor but those of the entry and the page.
LEMMA EntryAndPage ==
  ASSUME IInv, UNCHANGED <<published, cursor, posts, answers, beacons, seen>>,
         UNCHANGED <<stored, pending>>, VisitNumbers',
         EntryBelow(entry', Bound), PageBelow(page', Bound)
  PROVE  IInv'
<1>1. Bound' = Bound /\ seen' \in Nat
  BY SameBound
<1>2. published' \in Nat /\ cursor' \in 0..Bound'
  BY <1>1 DEF IInv
<1>3. EntryBelow(entry', Bound') /\ PageBelow(page', Bound')
  BY <1>1
<1>4. StoredBelow' /\ SentBelow'
  BY <1>1 DEF IInv, StoredBelow, SentBelow
<1> QED BY <1>1, <1>2, <1>3, <1>4 DEF IInv

LEMMA ArrivalSteps == ASSUME IInv, Arrivals PROVE IInv'
<1>0. Bound \in Nat /\ EntryBelow(entry, Bound) /\ PageBelow(page, Bound) /\ VisitNumbers
  BY ReadingAssumption DEF IInv, Bound, Larger
<1>1. CASE SnapshotArrives
  <2>1. EntryBelow(entry', Bound)
    BY <1>0, <1>1, SnapshotBelow DEF SnapshotArrives
  <2>2. UNCHANGED <<page, visit, mounted>>
    BY <1>1 DEF SnapshotArrives
  <2> QED BY <1>0, <1>1, <2>1, <2>2, EntryAndPage
          DEF SnapshotArrives, server, VisitNumbers
<1>2. CASE MessageArrives
  <2>1. EntryBelow(entry', Bound)
    BY <1>0, <1>2, SetDividerBelow DEF MessageArrives
  <2>2. PageBelow(page', Bound)
    BY <1>0, <1>2 DEF MessageArrives, PageBelow, PageShape
  <2> QED BY <1>0, <1>2, <2>1, <2>2, EntryAndPage
          DEF MessageArrives, server, wire, VisitNumbers
<1>3. CASE HistoryArrives
  <2>1. Loaded \in Nat /\ Larger(1, page.low - Loaded) \in Int
    BY <1>0, ReadingAssumption DEF PageBelow, Larger
  <2>2. PageBelow(page', Bound)
    BY <1>0, <1>3, <2>1 DEF HistoryArrives, PageBelow, PageShape
  <2> QED BY <1>0, <1>3, <2>2, EntryAndPage
          DEF HistoryArrives, server, wire, VisitNumbers
<1>4. CASE HistoryFails
  <2>1. PageBelow(page', Bound)
    BY <1>0, <1>4 DEF HistoryFails, PageBelow, PageShape
  <2> QED BY <1>0, <1>4, <2>1, EntryAndPage
          DEF HistoryFails, server, VisitNumbers
<1>5. ASSUME NEW answer \in answers, ReadRefused(answer) PROVE IInv'
  <2>1. Bound' = Bound /\ seen' \in Nat
    BY <1>5, SameBound DEF ReadRefused
  <2>2. StoredBelow' /\ SentBelow' /\ VisitNumbers'
    BY <1>5, <2>1 DEF ReadRefused, IInv, StoredBelow, SentBelow, VisitNumbers
  <2>3. EntryBelow(entry', Bound') /\ PageBelow(page', Bound')
    BY <1>0, <1>5, <2>1 DEF ReadRefused
  <2> QED BY <1>5, <2>1, <2>2, <2>3 DEF ReadRefused, server, IInv
<1>6. ASSUME NEW answer \in answers, ReadConfirmed(answer) PROVE IInv'
  <2>1. Bound' = Bound /\ seen' \in Nat
    BY <1>6, SameBound DEF ReadConfirmed
  <2>2. EntryBelow(AcknowledgeServerRead(SetPendingMarkRead(entry, 0), answer.id), Bound)
    <3>1. answer.id \in 0..Bound
      BY DEF IInv, SentBelow
    <3>2. EntryBelow(SetPendingMarkRead(entry, 0), Bound)
      BY <1>0, SetPendingBelow
    <3> QED BY <1>0, <3>1, <3>2, AcknowledgeBelow
  <2>3. EntryBelow(entry', Bound') /\ PageBelow(page', Bound')
    BY <1>0, <1>6, <2>1, <2>2 DEF ReadConfirmed
  <2>4. stored' \in 0..Bound /\ pending' \in [1..MaxVisits -> 0..Bound]
    <3>1. stored \in 0..Bound /\ pending \in [1..MaxVisits -> 0..Bound]
      BY DEF IInv, StoredBelow
    <3> HIDE DEF Bound
    <3> QED BY <1>0, <1>6, <3>1 DEF ReadConfirmed
  <2>5. StoredBelow' /\ SentBelow' /\ VisitNumbers'
    BY <1>6, <2>1, <2>4
       DEF ReadConfirmed, IInv, StoredBelow, SentBelow, VisitNumbers
  <2> QED BY <1>6, <2>1, <2>3, <2>5 DEF ReadConfirmed, server, IInv
<1> QED BY <1>1, <1>2, <1>3, <1>4, <1>5, <1>6 DEF Arrivals

\* A render's effects only combine cursors the page already has.
LEMMA CommitHolds == ASSUME IInv, Commit PROVE IInv'
<1>1. /\ mounted /\ Bound \in Nat
      /\ LocalRead \in 0..Bound /\ pending[visit] \in 0..Bound
  BY TrackedIs DEF Commit
<1>2. EntryBelow(entry, Bound) /\ PageBelow(page, Bound) /\ page.base \in 0..Bound
  BY DEF IInv, PageBelow
<1> DEFINE projected == IF "initialize" \in due
                        THEN InitializeRoom(entry, List, page.base, pending[visit])
                        ELSE entry
           applied == IF "localRead" \in due /\ LocalRead >= 1
                      THEN ApplyLocalRead(projected, List, LocalRead)
                      ELSE projected
<1>3. EntryBelow(projected, Bound)
  BY <1>1, <1>2, InitializeBelow
<1>4. EntryBelow(applied, Bound)
  <2> HIDE DEF projected
  <2> QED BY <1>1, <1>3, LocalReadBelow
<1>5. EntryBelow(entry', Bound)
  <2>1. entry' = applied \/ entry' = SetRoomDivider(applied, 0)
    BY DEF Commit
  <2> HIDE DEF applied
  <2> QED BY <1>1, <1>4, <2>1, SetDividerBelow
<1>6. PageBelow(page', Bound)
  <2> HIDE DEF Bound, applied
  <2>1. DOMAIN page' = DOMAIN page
    BY DEF Commit
  <2>2. /\ page'.base = page.base /\ page'.progress = page.progress
        /\ page'.low = page.low /\ page'.high = page.high /\ page'.edge = page.edge
    BY <1>2 DEF Commit, PageBelow, PageShape
  <2>3. page'.timer = IF MarksLater THEN LocalRead ELSE page.timer
    BY <1>2 DEF Commit, PageBelow, PageShape
  <2> QED BY <1>1, <1>2, <2>1, <2>2, <2>3 DEF PageBelow, PageShape
<1> QED BY <1>5, <1>6, EntryAndPage DEF Commit, server, wire, IInv, VisitNumbers

\* Opening, positioning and scrolling report nothing.
LEMMA LookingSteps ==
  ASSUME IInv,
         \/ Open \/ Positioned \/ ScrollToBottom
         \/ \E edge \in List, wants \in BOOLEAN : Scroll(edge, wants)
  PROVE  IInv'
<1>0. Bound \in Nat /\ EntryBelow(entry, Bound) /\ PageBelow(page, Bound) /\ VisitNumbers
  BY ReadingAssumption DEF IInv, Bound, Larger
<1>1. CASE Open
  <2>1. Bound' = Bound /\ seen' \in Nat
    BY <1>1, SameBound DEF Open
  <2>2. VisitNumbers'
    BY <1>0, <1>1, ReadingAssumption DEF Open, VisitNumbers
  <2>3. PageBelow(page', Bound)
    <3>1. cursor \in 0..Bound /\ published \in Int /\ Loaded \in Nat
      BY ReadingAssumption DEF IInv
    <3>2. Larger(1, published - Loaded + 1) \in Int
      BY <3>1 DEF Larger
    <3> QED BY <1>0, <1>1, <3>1, <3>2 DEF Open, NewPage, PageBelow, PageShape
  <2>4. stored' \in 0..Bound /\ pending' \in [1..MaxVisits -> 0..Bound]
    <3>1. stored \in 0..Bound /\ pending \in [1..MaxVisits -> 0..Bound]
      BY DEF IInv, StoredBelow
    <3> HIDE DEF Bound
    <3> QED BY <1>0, <1>1, <3>1 DEF Open
  <2>5. StoredBelow' /\ SentBelow'
    BY <1>1, <2>1, <2>4 DEF Open, wire, IInv, StoredBelow, SentBelow
  <2>6. EntryBelow(entry', Bound') /\ PageBelow(page', Bound')
    BY <1>0, <1>1, <2>1, <2>3 DEF Open
  <2> QED BY <1>1, <2>1, <2>2, <2>5, <2>6 DEF Open, server, IInv
<1>2. CASE Positioned
  <2>1. EntryBelow(entry', Bound)
    BY <1>0, <1>2, SetDividerBelow DEF Positioned
  <2> DEFINE edges == IF (page.target = "unread" /\ page.anchor # 0)
                           /\ page.anchor \in List
                      THEN page.anchor..page.high ELSE {page.high}
  <2>2. edges \subseteq Int
    <3>1. page.high \in Int /\ (page.anchor \in List => page.anchor \in Int)
      BY <1>0 DEF List, PageBelow
    <3> QED BY <3>1
  <2>3. PICK edge \in edges :
          page' = [page EXCEPT !.phase = "settled", !.edge = edge,
                               !.bottom = (edge = page.high)]
    BY <1>2 DEF Positioned
  <2>4. edge \in Int /\ page' = [page EXCEPT !.phase = "settled", !.edge = edge,
                                   !.bottom = (edge = page.high)]
    BY <2>2, <2>3
  <2>5. PageBelow(page', Bound)
    BY <1>0, <2>4 DEF PageBelow, PageShape
  <2> QED BY <1>0, <1>2, <2>1, <2>5, EntryAndPage
          DEF Positioned, server, wire, VisitNumbers
<1>3. CASE ScrollToBottom
  <2>1. PageBelow(page', Bound)
    BY <1>0, <1>3 DEF ScrollToBottom, PageBelow, PageShape
  <2> QED BY <1>0, <1>3, <2>1, EntryAndPage
          DEF ScrollToBottom, server, wire, VisitNumbers
<1>4. ASSUME NEW edge \in List, NEW wants \in BOOLEAN, Scroll(edge, wants)
      PROVE  IInv'
  <2>1. EntryBelow(entry', Bound)
    BY <1>0, <1>4, SetDividerBelow DEF Scroll
  <2>2. edge \in Int
    BY <1>0 DEF List, PageBelow
  <2>3. PageBelow(page', Bound)
    BY <1>0, <1>4, <2>2 DEF Scroll, PageBelow, PageShape
  <2> QED BY <1>0, <1>4, <2>1, <2>3, EntryAndPage
          DEF Scroll, server, wire, VisitNumbers
<1> QED BY <1>1, <1>2, <1>3, <1>4

\* A look at the viewport: what it reports is what it sees.
LEMMA ViewportReadHolds ==
  ASSUME IInv, mounted, NEW edge \in Int, ViewportRead(edge)
  PROVE  IInv'
<1> DEFINE next == IF Enabled
                   THEN NextLastRead(List, Tracked, {m \in List : m <= edge})
                   ELSE Tracked
           kept == PersistEntry(entry, next)
           counts == next > 0 /\ next <= page.high
<1>1. /\ Bound \in Nat /\ Tracked \in 0..Bound
      /\ PageBelow(page, Bound) /\ EntryBelow(entry, Bound)
  BY TrackedIs DEF IInv
<1>2. seen' = IF Enabled THEN Larger(seen, edge) ELSE seen
  BY DEF ViewportRead
<1>3. seen' \in Nat /\ Bound' \in Nat /\ Bound <= Bound' /\ (Enabled => edge <= Bound')
  BY <1>2, ReadingAssumption DEF IInv, Bound, Larger
<1>4. next \in 0..Bound'
  <2>1. CASE Enabled
    <3>1. next = NextLastRead(page.low..page.high, Tracked,
                              {m \in page.low..page.high : m <= edge})
      BY <2>1 DEF List
    <3>2. page.low \in Int /\ page.high \in Int /\ Tracked \in Nat
      BY <1>1 DEF PageBelow
    <3>3. next = Tracked \/ (next \in Nat /\ next <= edge)
      BY <3>1, <3>2, NextLastReadIs
    <3> QED BY <1>1, <1>3, <2>1, <3>3
  <2>2. CASE ~Enabled
    <3> HIDE DEF Bound
    <3> QED BY <1>1, <1>3, <2>2
  <2> QED BY <2>1, <2>2
<1> HIDE DEF next
<1>5. EntryBelow(kept, Bound') /\ (Persist(next) => stored' \in 0..Bound' /\ pending' \in [1..MaxVisits -> 0..Bound'])
  BY <1>3, <1>4, PersistBelow
<1>6. EntryBelow(entry', Bound')
  <2>1. entry' = IF counts THEN ApplyLocalRead(kept, List, next) ELSE kept
    BY DEF ViewportRead, next
  <2> HIDE DEF kept, counts
  <2> QED BY <1>3, <1>4, <1>5, <2>1, LocalReadBelow
<1>7. PageBelow(page', Bound')
  <2>1. PageBelow(page, Bound')
    BY <1>1, <1>3, BelowGrows
  <2>2. page' = [page EXCEPT !.progress = IF next > Tracked THEN next ELSE @,
                   !.edge = edge, !.frame = FALSE, !.scrolling = FALSE,
                   !.bottom = (edge = page.high)]
    BY DEF ViewportRead, next
  <2> QED BY <1>3, <1>4, <2>1, <2>2 DEF PageBelow, PageShape
<1>8. StoredBelow'
  <2>1. Persist(next)
    BY DEF ViewportRead, next
  <2> QED BY <1>5, <2>1 DEF StoredBelow
<1>9. \A post \in posts' : post.id \in 0..Bound'
  <2>1. Send(next) \/ posts' = posts
    BY DEF ViewportRead, next
  <2>2. ASSUME posts' = posts PROVE \A post \in posts' : post.id \in 0..Bound'
    <3> HIDE DEF Bound
    <3> QED BY <1>1, <1>3, <2>2 DEF IInv, SentBelow
  <2> QED BY <1>3, <1>4, <2>1, <2>2, SendBelow
<1>10. /\ published' \in Nat /\ cursor' \in 0..Bound' /\ VisitNumbers'
       /\ \A answer \in answers' : answer.id \in 0..Bound'
       /\ beacons' \subseteq 0..Bound'
  <2>1. UNCHANGED <<published, cursor, answers, beacons, visit, mounted>>
    BY DEF ViewportRead, server
  <2> HIDE DEF Bound
  <2> QED BY <1>1, <1>3, <2>1 DEF IInv, SentBelow, VisitNumbers
<1> QED BY <1>3, <1>6, <1>7, <1>8, <1>9, <1>10 DEF IInv, SentBelow

\* A debounced or flushed read repeats a cursor the page has.
LEMMA TimerHolds == ASSUME IInv, TimerFires PROVE IInv'
<1>1. /\ Bound \in Nat /\ mounted /\ PageBelow(page, Bound) /\ page.timer \in 0..Bound
      /\ Bound' = Bound /\ seen' \in Nat
  BY SameBound DEF IInv, TimerFires, PageBelow
<1>2. stored' \in 0..Bound /\ pending' \in [1..MaxVisits -> 0..Bound]
  BY <1>1, PersistBelow DEF TimerFires
<1>3. EntryBelow(entry', Bound)
  BY <1>1, PersistBelow DEF TimerFires
<1>4. PageBelow(page', Bound)
  BY <1>1 DEF TimerFires, PageBelow, PageShape
<1>5. \A post \in posts' : post.id \in 0..Bound
  BY <1>1, SendBelow DEF TimerFires
<1>6. SentBelow' /\ StoredBelow' /\ VisitNumbers'
  BY <1>1, <1>2, <1>5
     DEF TimerFires, IInv, StoredBelow, SentBelow, VisitNumbers
<1> QED BY <1>1, <1>3, <1>4, <1>6 DEF TimerFires, server, IInv

LEMMA HideHolds == ASSUME IInv, Hide PROVE IInv'
<1>1. /\ Bound \in Nat /\ mounted /\ FlushCandidate \in 0..Bound
      /\ Bound' = Bound /\ seen' \in Nat
  BY SameBound, TrackedIs DEF Hide
<1>2. stored' \in 0..Bound /\ pending' \in [1..MaxVisits -> 0..Bound]
  BY <1>1, PersistBelow DEF Hide
<1>3. EntryBelow(entry', Bound)
  BY <1>1, PersistBelow DEF Hide
<1>4. SentBelow' /\ StoredBelow' /\ VisitNumbers'
  BY <1>1, <1>2 DEF Hide, IInv, StoredBelow, SentBelow, VisitNumbers
<1> QED BY <1>1, <1>3, <1>4 DEF Hide, server, IInv

\* What a page that goes away knows goes with it.
LEMMA NoPageBelow == ASSUME NEW b \in Nat PROVE PageBelow(NoPage, b)
BY DEF NoPage, NewPage, PageBelow, PageShape

LEMMA LeaveHolds == ASSUME IInv, Leave PROVE IInv'
<1>1. /\ Bound \in Nat /\ mounted /\ pending[visit] \in 0..Bound
      /\ Bound' = Bound /\ seen' \in Nat
  BY SameBound, TrackedIs DEF Leave
<1>2. PageBelow(page', Bound)
  BY <1>1, NoPageBelow DEF Leave
<1>3. \A post \in posts' : post.id \in 0..Bound
  <2>1. Send(pending[visit]) \/ posts' = posts
    BY DEF Leave
  <2> QED BY <1>1, <2>1, SendBelow DEF IInv, SentBelow
<1>4. SentBelow' /\ StoredBelow' /\ VisitNumbers'
  BY <1>1, <1>3 DEF Leave, IInv, StoredBelow, SentBelow, VisitNumbers
<1>5. EntryBelow(entry', Bound)
  BY DEF Leave, IInv
<1> QED BY <1>1, <1>2, <1>4, <1>5 DEF Leave, server, IInv

LEMMA RestartHolds ==
  ASSUME IInv, NEW flushed, flushed \subseteq 0..Bound, Restart(flushed),
         stored' \in 0..Bound, pending' \in [1..MaxVisits -> 0..Bound]
  PROVE  IInv'
<1>1. Bound \in Nat /\ Bound' = Bound /\ seen' \in Nat
  BY SameBound DEF Restart
<1>2. EntryBelow(entry', Bound) /\ PageBelow(page', Bound)
  BY <1>1, EmptyEntryBelow, NoPageBelow DEF Restart
<1>3. beacons' \subseteq 0..Bound
  <2>1. beacons \subseteq 0..Bound /\ {post.id : post \in posts} \subseteq 0..Bound
    BY DEF IInv, SentBelow
  <2> QED BY <2>1 DEF Restart
<1>4. SentBelow' /\ StoredBelow' /\ VisitNumbers'
  BY <1>1, <1>3 DEF Restart, IInv, StoredBelow, SentBelow, VisitNumbers
<1> QED BY <1>1, <1>2, <1>4 DEF Restart, server, IInv

LEMMA GoingSteps == ASSUME IInv, Reload \/ Crash PROVE IInv'
<1>1. mounted
  BY DEF Reload, Crash
<1>2. FlushCandidate \in 0..Bound
  BY <1>1, TrackedIs
<1>3. stored \in 0..Bound /\ pending \in [1..MaxVisits -> 0..Bound]
  BY DEF IInv, StoredBelow
<1>4. CASE UNCHANGED <<pending, stored>> /\ Restart({})
  BY <1>3, <1>4, RestartHolds
<1>5. CASE Persist(FlushCandidate) /\ Restart({FlushCandidate})
  <2>1. Bound \in Nat
    BY <1>1, TrackedIs
  <2>2. stored' \in 0..Bound /\ pending' \in [1..MaxVisits -> 0..Bound]
    BY <1>1, <1>2, <1>5, <2>1, PersistBelow
  <2> QED BY <1>2, <1>5, <2>2, RestartHolds
<1> QED BY <1>4, <1>5 DEF Reload, Crash

LEMMA StepHolds == IInv /\ [Next]_vars => IInv'
<1> SUFFICES ASSUME IInv, [Next]_vars PROVE IInv'
  OBVIOUS
<1>1. CASE Tab
  <2>1. CASE FrameRuns \/ ScrollEnds
    <3>1. mounted /\ (ViewportRead(page.edge) \/ ViewportRead(page.high))
      BY <2>1 DEF FrameRuns, ScrollEnds
    <3>2. page.edge \in Int /\ page.high \in Int
      BY DEF IInv, PageBelow
    <3> QED BY <3>1, <3>2, ViewportReadHolds
  <2> QED BY <1>1, <2>1, LookingSteps, CommitHolds, TimerHolds, HideHolds,
          LeaveHolds, GoingSteps DEF Tab
<1>2. CASE UNCHANGED vars
  <2>1. Bound' = Bound /\ seen' \in Nat
    BY <1>2, SameBound DEF vars
  <2> QED BY <1>2, <2>1
          DEF vars, IInv, VisitNumbers, StoredBelow, SentBelow
<1> QED BY <1>1, <1>2, ArrivalSteps, ServerSteps DEF Next

\* No debounced, retried, flushed, stored or beaconed read takes the server's
\* cursor past what has been inside the viewport of a positioned list
\* (useChatRoomPageReadState.ts, read_receipts_service.py mark_read).
THEOREM EarnedHolds == Spec => []Earned
<1>1. IInv => Earned
  BY ReadingAssumption DEF IInv, Earned, Bound, Larger
<1> QED BY <1>1, InitHolds, StepHolds, PTL DEF Spec

------------------------------------------------------------------------------
(* What was seen is held until the server knows it                         *)

\* An answer says that the server has got there.
Confirmed == \A answer \in answers : answer.ok => answer.id <= cursor

HInv == IInv /\ ReadIsHeld /\ Confirmed

LEMMA StillHeld ==
  ASSUME HInv, cursor' \in Nat, cursor <= cursor',
         UNCHANGED <<visit, mounted>>, page'.progress = page.progress,
         pending'[visit] \in Nat, pending[visit] <= pending'[visit]
  PROVE  ReadIsHeld'
<1>1. cursor \in Nat /\ page.progress \in Nat /\ (mounted => pending[visit] \in Nat)
  <2>1. mounted => pending[visit] \in 0..Bound
    BY TrackedIs DEF HInv
  <2>2. cursor \in 0..Bound /\ page.progress \in 0..Bound
    BY DEF HInv, IInv, PageBelow
  <2> QED BY <2>1, <2>2
<1> QED BY <1>1 DEF HInv, ReadIsHeld, Larger

\* Persisting a read never lowers what is held.
LEMMA PersistRaises ==
  ASSUME IInv, mounted, NEW id \in Nat, Persist(id)
  PROVE  /\ pending'[visit] \in Nat /\ pending[visit] <= pending'[visit]
         /\ id <= pending'[visit]
<1>1. visit \in 1..MaxVisits /\ pending \in [1..MaxVisits -> 0..Bound] /\ Bound \in Nat
  BY TrackedIs DEF IInv, VisitNumbers, StoredBelow
<1> HIDE DEF Bound
<1>2. pending[visit] \in Nat
  BY <1>1
<1>3. CASE id > pending[visit]
  <2>1. visit \in DOMAIN pending
    BY <1>1
  <2>2. pending' = [pending EXCEPT ![visit] = id]
    BY <1>3 DEF Persist
  <2>3. pending'[visit] = id
    BY <2>1, <2>2
  <2> QED BY <1>2, <1>3, <2>3
<1>4. CASE ~(id > pending[visit])
  BY <1>2, <1>4 DEF Persist
<1> QED BY <1>3, <1>4

LEMMA HeldByServer ==
  ASSUME HInv,
         \/ Publish
         \/ \E post \in posts : MarkRead(post) \/ MarkReadFails(post)
         \/ \E id \in beacons : BeaconArrives(id) \/ BeaconIsLost(id)
  PROVE  ReadIsHeld' /\ Confirmed'
<1>1. /\ cursor \in Nat /\ \A post \in posts : post.id \in Nat
      /\ \A id \in beacons : id \in Nat
      /\ \A answer \in answers : answer.id \in Nat
  BY DEF HInv, IInv, SentBelow
<1>2. cursor' \in Nat /\ cursor <= cursor'
  <2>1. \/ UNCHANGED cursor
        \/ \E id \in beacons \cup {post.id : post \in posts} :
              cursor' = Larger(cursor, id)
    BY DEF Publish, MarkRead, MarkReadFails, BeaconArrives, BeaconIsLost,
           ReadOnServer, server
  <2>2. \A id \in beacons \cup {post.id : post \in posts} : id \in Nat
    BY <1>1
  <2> QED BY <1>1, <2>1, <2>2 DEF Larger
<1>3. UNCHANGED <<visit, mounted, page, pending>>
  BY DEF Publish, MarkRead, MarkReadFails, BeaconArrives, BeaconIsLost, tab
<1>4. ReadIsHeld'
  <2>1. mounted => pending[visit] \in Nat
    BY TrackedIs DEF HInv
  <2>2. CASE mounted
    BY <1>2, <1>3, <2>1, <2>2, StillHeld
  <2>3. CASE ~mounted
    BY <1>3, <2>3 DEF ReadIsHeld
  <2> QED BY <2>2, <2>3
<1>5. Confirmed'
  <2>1. ASSUME NEW answer \in answers', answer.ok PROVE answer.id <= cursor'
    <3>1. CASE answer \in answers
      BY <1>1, <1>2, <2>1, <3>1 DEF HInv, Confirmed
    <3>2. CASE answer \notin answers
      <4>1. PICK post \in posts :
              MarkRead(post) /\ answer = [visit |-> post.visit, id |-> post.id,
                                          ok |-> TRUE]
        BY <2>1, <3>2 DEF Publish, MarkRead, MarkReadFails, BeaconArrives,
                          BeaconIsLost
      <4>2. cursor' = Larger(cursor, post.id)
        BY <4>1 DEF MarkRead, ReadOnServer
      <4> QED BY <1>1, <4>1, <4>2 DEF Larger
    <3> QED BY <3>1, <3>2
  <2> QED BY <2>1 DEF Confirmed
<1> QED BY <1>4, <1>5

LEMMA HeldByArrivals == ASSUME HInv, Arrivals PROVE ReadIsHeld'
<1>1. /\ cursor \in Nat /\ PageShape(page) /\ page.progress \in Nat
      /\ \A answer \in answers : answer.id \in Nat
  BY DEF HInv, IInv, SentBelow, PageBelow
<1>2. mounted => pending[visit] \in Nat /\ visit \in 1..MaxVisits
  BY TrackedIs DEF HInv, IInv, VisitNumbers
<1>3. UNCHANGED <<cursor, visit, mounted>> /\ page'.progress = page.progress
  BY <1>1 DEF Arrivals, SnapshotArrives, MessageArrives, HistoryArrives,
              HistoryFails, ReadConfirmed, ReadRefused, server, wire, PageShape
<1>4. CASE UNCHANGED pending
  BY <1>1, <1>2, <1>3, <1>4, StillHeld DEF ReadIsHeld
<1>5. ASSUME NEW answer \in answers, answer.ok, answer.id >= pending[answer.visit],
             pending' = [pending EXCEPT ![answer.visit] = 0], mounted
      PROVE  page'.progress <= Larger(cursor', pending'[visit'])
  <2>1. pending \in [1..MaxVisits -> 0..Bound]
    BY DEF HInv, IInv, StoredBelow
  <2>2. answer.id <= cursor
    BY <1>5 DEF HInv, Confirmed
  <2>3. page.progress <= Larger(cursor, pending[visit])
    BY <1>5 DEF HInv, ReadIsHeld
  <2>4. CASE answer.visit = visit
    <3>1. pending'[visit] = 0 /\ pending[visit] <= cursor
      BY <1>1, <1>2, <1>5, <2>1, <2>2, <2>4
    <3> QED BY <1>1, <1>2, <1>3, <1>5, <2>3, <3>1 DEF Larger
  <2>5. CASE answer.visit # visit
    <3>1. pending'[visit] = pending[visit]
      BY <1>2, <1>5, <2>1, <2>5
    <3> QED BY <1>3, <2>3, <3>1
  <2> QED BY <2>4, <2>5
<1>6. \/ UNCHANGED pending
      \/ \E answer \in answers :
           /\ answer.ok /\ answer.id >= pending[answer.visit]
           /\ pending' = [pending EXCEPT ![answer.visit] = 0]
  BY DEF Arrivals, SnapshotArrives, MessageArrives, HistoryArrives,
         HistoryFails, ReadConfirmed, ReadRefused
<1> QED BY <1>3, <1>4, <1>5, <1>6 DEF ReadIsHeld

LEMMA HeldByTab == ASSUME HInv, Tab PROVE ReadIsHeld' /\ Confirmed'
<1>0. /\ cursor \in Nat /\ PageShape(page) /\ page.progress \in Nat
      /\ page.edge \in Int /\ page.high \in Int
  BY DEF HInv, IInv, PageBelow
<1>1. UNCHANGED cursor /\ answers' \subseteq answers
  BY DEF Tab, Open, Commit, Positioned, ScrollToBottom, FrameRuns, ScrollEnds,
         ViewportRead, TimerFires, Hide, Leave, Reload, Crash, Restart, Scroll,
         server, wire
<1>2. Confirmed'
  BY <1>1 DEF HInv, Confirmed
<1>3. ASSUME ~mounted' PROVE ReadIsHeld'
  BY <1>3 DEF ReadIsHeld
<1>4. CASE Open
  <2>1. page'.progress = 0 /\ cursor' = cursor
    BY <1>1, <1>4 DEF Open, NewPage
  <2>2. pending'[visit'] \in Nat
    <3>1. /\ pending \in [1..MaxVisits -> 0..Bound] /\ stored \in 0..Bound
          /\ visit + 1 \in 1..MaxVisits
      BY <1>4, ReadingAssumption DEF HInv, IInv, StoredBelow, Open, VisitNumbers
    <3> HIDE DEF Bound
    <3> QED BY <1>4, <3>1 DEF Open
  <2> QED BY <1>0, <1>2, <2>1, <2>2 DEF ReadIsHeld, Larger
<1>5. CASE \/ Commit \/ Positioned \/ ScrollToBottom
           \/ \E edge \in List, wants \in BOOLEAN : Scroll(edge, wants)
  <2>1. mounted /\ UNCHANGED <<visit, mounted, pending>>
    BY <1>5 DEF Commit, Positioned, ScrollToBottom, Scroll
  <2>2. page'.progress = page.progress
    BY <1>0, <1>5 DEF Commit, Positioned, ScrollToBottom, Scroll, PageShape
  <2>3. pending[visit] \in Nat
    BY <2>1, TrackedIs DEF HInv
  <2> QED BY <1>0, <1>1, <1>2, <2>1, <2>2, <2>3, StillHeld
<1>6. CASE FrameRuns \/ ScrollEnds
  <2>1. PICK edge \in Int : mounted /\ ViewportRead(edge)
    BY <1>0, <1>6 DEF FrameRuns, ScrollEnds
  <2> DEFINE next == IF Enabled
                     THEN NextLastRead(List, Tracked, {m \in List : m <= edge})
                     ELSE Tracked
  <2>2. next \in Nat
    <3>1. /\ Tracked \in Nat /\ page.low \in Int
          /\ List = page.low..page.high
      BY <2>1, TrackedIs DEF HInv, IInv, PageBelow, List
    <3>2. NextLastRead(List, Tracked, {m \in List : m <= edge}) \in Nat
      BY <1>0, <3>1, NextLastReadIs
    <3> QED BY <3>1, <3>2
  <2>3. /\ Persist(next) /\ UNCHANGED <<visit, mounted>>
        /\ page' = [page EXCEPT !.progress = IF next > Tracked THEN next ELSE @,
                      !.edge = edge, !.frame = FALSE, !.scrolling = FALSE,
                      !.bottom = (edge = page.high)]
    BY <2>1 DEF ViewportRead
  <2> HIDE DEF next
  <2>4. /\ pending'[visit] \in Nat /\ pending[visit] <= pending'[visit]
        /\ next <= pending'[visit]
    BY <2>1, <2>2, <2>3, PersistRaises DEF HInv
  <2>5. page'.progress = next \/ page'.progress = page.progress
    BY <1>0, <2>3 DEF PageShape
  <2>6. CASE page'.progress = page.progress
    BY <1>0, <1>1, <1>2, <2>3, <2>4, <2>6, StillHeld
  <2>7. CASE page'.progress = next
    BY <1>0, <1>1, <1>2, <2>2, <2>3, <2>4, <2>7 DEF ReadIsHeld, Larger
  <2> QED BY <2>5, <2>6, <2>7
<1>7. CASE TimerFires \/ Hide
  <2>1. mounted /\ UNCHANGED <<visit, mounted>> /\ page'.progress = page.progress
    BY <1>0, <1>7 DEF TimerFires, Hide, PageShape
  <2>2. page.timer \in Nat /\ FlushCandidate \in Nat
    BY <2>1, TrackedIs DEF HInv, IInv, PageBelow
  <2>3. Persist(page.timer) \/ Persist(FlushCandidate)
    BY <1>7 DEF TimerFires, Hide
  <2>4. pending'[visit] \in Nat /\ pending[visit] <= pending'[visit]
    BY <2>1, <2>2, <2>3, PersistRaises DEF HInv
  <2> QED BY <1>0, <1>1, <1>2, <2>1, <2>4, StillHeld
<1>8. CASE Leave \/ Reload \/ Crash
  <2>1. ~mounted'
    BY <1>8 DEF Leave, Reload, Crash, Restart
  <2> QED BY <1>2, <1>3, <2>1
<1> QED BY <1>4, <1>5, <1>6, <1>7, <1>8 DEF Tab

\* A page that has seen further than the server knows holds the read to send
\* it, for any number of visits and whatever answers of this or an earlier
\* visit arrive in between (useChatRoomPageReadState.ts, clearPendingRead and
\* persistPendingRead).
THEOREM ReadIsHeldAlways == Spec => []ReadIsHeld
<1>1. Init => HInv
  BY InitHolds DEF Init, HInv, ReadIsHeld, Confirmed
<1>2. HInv /\ [Next]_vars => HInv'
  <2> SUFFICES ASSUME HInv, [Next]_vars PROVE HInv'
    OBVIOUS
  <2>1. IInv'
    BY StepHolds DEF HInv
  <2>2. ReadIsHeld' /\ Confirmed'
    <3>1. CASE Tab
      BY <3>1, HeldByTab
    <3>2. CASE Arrivals
      <4>1. answers' \subseteq answers /\ UNCHANGED cursor
        BY <3>2 DEF Arrivals, SnapshotArrives, MessageArrives, HistoryArrives,
                    HistoryFails, ReadConfirmed, ReadRefused, server, wire
      <4> QED BY <3>2, <4>1, HeldByArrivals DEF HInv, Confirmed
    <3>3. CASE UNCHANGED vars
      BY <3>3 DEF vars, HInv, ReadIsHeld, Confirmed
    <3> QED BY <3>1, <3>2, <3>3, HeldByServer DEF Next
  <2> QED BY <2>1, <2>2 DEF HInv
<1>3. HInv => ReadIsHeld
  BY DEF HInv
<1> QED BY <1>1, <1>2, <1>3, PTL DEF Spec

------------------------------------------------------------------------------
(* Types: what counting over the loaded list returns                       *)

LEMMA Smallest ==
  ASSUME NEW S, S # {}, S \subseteq Nat
  PROVE  \E m \in S : \A other \in S : m <= other
<1>1. \E x \in S : \A y \in S : ~(<<y, x>> \in OpToRel(<, Nat))
  BY NatLessThanWellFounded, WFMin
<1>2. PICK x \in S : \A y \in S : ~(<<y, x>> \in OpToRel(<, Nat))
  BY <1>1
<1>3. ASSUME NEW y \in S PROVE x <= y
  <2>1. ASSUME y < x PROVE FALSE
    <3>1. <<y, x>> \in OpToRel(<, Nat)
      BY <2>1 DEF OpToRel
    <3> QED BY <3>1, <1>2
  <2> QED BY <2>1
<1> QED BY <1>3

\* Messages of the room are counted by numbers that fit.
LEMMA CountsFit ==
  ASSUME NEW S \in SUBSET Ids
  PROVE  IsFiniteSet(S) /\ Cardinality(S) \in Cursors
<1>1. MaxId \in Nat
  BY ReadingAssumption
<1>2. IsFiniteSet(1..MaxId) /\ Cardinality(1..MaxId) = MaxId
  BY <1>1, FS_Interval
<1>3. IsFiniteSet(S) /\ Cardinality(S) <= Cardinality(1..MaxId)
  BY <1>2, FS_Subset DEF Ids
<1>4. Cardinality(S) \in Nat
  BY <1>3, FS_CardinalityType
<1> QED BY <1>1, <1>2, <1>3, <1>4 DEF Cursors

\* In a finite set there is a member with any given number of members above.
LEMMA NthFromAbove ==
  ASSUME NEW S \in SUBSET Ids, NEW n \in 1..Cardinality(S)
  PROVE  \E m \in S : Cardinality({x \in S : x >= m}) = n
<1> DEFINE up(m) == {x \in S : x >= m}
           T == {m \in S : Cardinality(up(m)) >= n}
<1>1. S \subseteq Nat /\ MaxId \in Nat /\ Cardinality(S) \in Nat /\ n \in Nat /\ n >= 1
  BY CountsFit, ReadingAssumption DEF Ids, Cursors
<1>2. \A m \in S : IsFiniteSet(up(m)) /\ Cardinality(up(m)) \in Nat /\ up(m) \in SUBSET Ids
  BY CountsFit DEF Cursors
<1>3. S # {}
  BY FS_EmptySet, <1>1
<1>4. T # {}
  <2>1. PICK m \in S : \A x \in S : m <= x
    BY <1>1, <1>3, Smallest
  <2>2. up(m) = S
    BY <1>1, <2>1
  <2> QED BY <1>1, <2>2
<1>5. PICK m \in T : \A x \in T : x <= m
  <2>1. \A x \in T : x \in Int /\ x <= MaxId
    BY <1>1 DEF Ids
  <2> HIDE DEF T
  <2> QED BY <1>1, <1>4, <2>1, Largest
<1>6. m \in S /\ Cardinality(up(m)) >= n
  BY <1>5
<1>7. ASSUME Cardinality(up(m)) # n PROVE FALSE
  <2> DEFINE rest == up(m) \ {m}
  <2>1. m \in up(m)
    BY <1>1, <1>6
  <2>2. IsFiniteSet(rest) /\ Cardinality(rest) = Cardinality(up(m)) - 1
    BY <1>2, <1>6, <2>1, FS_RemoveElement
  <2>3. Cardinality(rest) >= n
    BY <1>1, <1>2, <1>6, <1>7, <2>2
  <2>4. rest # {}
    BY <1>1, <2>3, FS_EmptySet
  <2>5. PICK next \in rest : \A x \in rest : next <= x
    BY <1>1, <2>4, Smallest
  <2>6. next > m /\ next \in S
    BY <1>1, <1>6, <2>5
  <2>7. up(next) = rest
    <3>1. rest = {x \in S : x >= m /\ x # m}
      OBVIOUS
    <3>2. ASSUME NEW x \in S PROVE x >= next <=> x >= m /\ x # m
      <4>1. x \in Nat /\ m \in Nat /\ next \in Nat
        BY <1>1, <1>6, <2>6
      <4>2. x >= m /\ x # m => next <= x
        BY <2>5, <3>1
      <4> QED BY <2>6, <4>1, <4>2
    <3> QED BY <3>1, <3>2
  <2>8. next \in T
    <3>1. Cardinality(up(next)) >= n
      BY <2>3, <2>7
    <3>2. \A x \in S : Cardinality(up(x)) >= n => x \in T
      OBVIOUS
    <3> HIDE DEF up, T
    <3> QED BY <2>6, <3>1, <3>2
  <2> QED BY <1>1, <1>5, <1>6, <2>6, <2>8
<1> QED BY <1>6, <1>7

\* The least unread message is a message, or there is none.
LEMMA FirstUnreadFits ==
  ASSUME NEW list \in SUBSET Ids, NEW c PROVE FirstUnread(list, c) \in Cursors
<1> DEFINE unread == ForeignAfter(list, c)
<1>0. unread \in SUBSET Ids
  BY DEF ForeignAfter, Foreign
<1>1. unread \in SUBSET Ids /\ Ids \subseteq Cursors /\ 0 \in Cursors /\ Ids \subseteq Nat
  <2> HIDE DEF unread
  <2> QED BY <1>0, ReadingAssumption DEF Ids, Cursors
<1>2. CASE unread = {}
  BY <1>1, <1>2 DEF FirstUnread
<1>3. CASE unread # {}
  <2>1. PICK m \in unread : \A other \in unread : m <= other
    <3> HIDE DEF unread
    <3> QED BY <1>1, <1>3, Smallest
  <2>2. FirstUnread(list, c) = CHOOSE x \in unread : \A other \in unread : x <= other
    BY <1>3 DEF FirstUnread
  <2>3. FirstUnread(list, c) \in unread
    <3> HIDE DEF unread
    <3> QED BY <2>1, <2>2
  <2> QED BY <1>1, <2>3
<1> QED BY <1>2, <1>3

Counts == Cursors \cup {NoCount}

\* What a projection says; of nothing unread it says nothing.
LEMMA ProjectFits ==
  ASSUME NEW list \in SUBSET Ids, NEW known, NEW c, NEW n \in Counts
  PROVE  LET counted == ProjectUnread(list, known, c, n)
         IN  /\ counted.unread \in Cursors /\ counted.loadedUnread \in Cursors
             /\ counted.first \in Cursors
             /\ n = 0 => counted.unread = 0
<1> DEFINE loaded == ForeignAfter(list, c)
           size == Cardinality(loaded)
           read == ReadAfterBaseline(list, known, c)
           count == IF n = NoCount THEN size ELSE Larger(0, n - read)
           nth == IF count <= size THEN count ELSE size
           first == IF loaded = {} \/ count < 1 THEN 0
                    ELSE CHOOSE m \in loaded : Cardinality({x \in loaded : x >= m}) = nth
<1>1. ProjectUnread(list, known, c, n) = [unread |-> count, loadedUnread |-> size, first |-> first]
  BY DEF ProjectUnread
<1>2. loaded \in SUBSET Ids
  BY DEF ForeignAfter, Foreign
<1>3. size \in Cursors /\ IsFiniteSet(loaded)
  BY <1>2, CountsFit
<1>4. read \in Cursors
  <2>1. {m \in Foreign(list) : known < m /\ m <= c} \in SUBSET Ids
    BY DEF Foreign
  <2> QED BY <2>1, CountsFit DEF ReadAfterBaseline
<1> HIDE DEF read
<1>5. MaxId \in Nat /\ Cursors = 0..MaxId /\ NoCount = -1 /\ n \in Cursors \cup {-1}
  BY ReadingAssumption DEF Cursors, NoCount, Counts
<1> HIDE DEF loaded
<1>6. size \in 0..MaxId /\ read \in 0..MaxId
  BY <1>3, <1>4, <1>5
<1> HIDE DEF size
<1>7. count \in 0..MaxId /\ (n = 0 => count = 0)
  BY <1>5, <1>6 DEF Larger
<1>8. first \in Cursors
  <2>1. CASE loaded = {} \/ count < 1
    BY <1>5, <2>1
  <2>2. CASE ~(loaded = {} \/ count < 1)
    <3>1. size # 0
      <4>1. loaded # {}
        BY <2>2
      <4> QED BY <1>3, <4>1, FS_EmptySet DEF size
    <3>2. nth \in 1..size
      <4> HIDE DEF count
      <4> QED BY <1>6, <1>7, <2>2, <3>1
    <3> HIDE DEF nth, count
    <3>3. \E m \in loaded : Cardinality({x \in loaded : x >= m}) = nth
      BY <1>2, <3>2, NthFromAbove DEF size
    <3>4. first \in loaded
      BY <2>2, <3>3
    <3> HIDE DEF first
    <3>5. first \in Ids
      BY <1>2, <3>4
    <3> QED BY <1>5, <3>5 DEF Ids
  <2> QED BY <2>1, <2>2
<1> HIDE DEF count, first
<1> QED BY <1>1, <1>3, <1>5, <1>7, <1>8

Entries ==
  [initialized : BOOLEAN, server : Cursors, local : Cursors, first : Cursors,
   unread : Cursors, loadedUnread : Cursors, divider : Cursors, pending : Cursors,
   authoritative : Counts]

\* An entry as the provider keeps it: with nothing to announce it announces nothing.
EntryOK(e) ==
  /\ e \in Entries
  /\ e.authoritative = 0 \/ ~e.initialized => e.unread = 0

LEMMA LargerFits ==
  ASSUME NEW a \in Cursors, NEW b \in Cursors PROVE Larger(a, b) \in Cursors
BY DEF Larger

LEMMA EmptyEntryFits == EntryOK(EmptyEntry) /\ 0 \in Cursors
BY ReadingAssumption DEF EmptyEntry, EntryOK, Entries, Cursors, Counts, NoCount

LEMMA SettersFit ==
  ASSUME NEW e, EntryOK(e), NEW c \in Cursors
  PROVE  /\ EntryOK(SetPendingMarkRead(e, c)) /\ EntryOK(SetRoomDivider(e, c))
         /\ SetPendingMarkRead(e, c).authoritative = e.authoritative
         /\ SetRoomDivider(e, c).authoritative = e.authoritative
BY DEF EntryOK, Entries, SetPendingMarkRead, SetRoomDivider

LEMMA AcknowledgeFits ==
  ASSUME NEW e, EntryOK(e), NEW c \in Cursors
  PROVE  /\ EntryOK(AcknowledgeServerRead(e, c))
         /\ AcknowledgeServerRead(e, c).authoritative = e.authoritative
<1> DEFINE known == Larger(e.server, c)
           local == Larger(e.local, known)
<1>1. known \in Cursors /\ local \in Cursors /\ 0 \in Cursors
  BY LargerFits, EmptyEntryFits DEF EntryOK, Entries
<1>2. CASE c < 1
  BY <1>2 DEF AcknowledgeServerRead
<1>3. CASE ~(c < 1)
  <2>1. AcknowledgeServerRead(e, c) =
          [e EXCEPT !.server = known, !.local = local, !.pending = 0]
    BY <1>3 DEF AcknowledgeServerRead
  <2> HIDE DEF known, local
  <2> QED BY <1>1, <2>1 DEF EntryOK, Entries
<1> QED BY <1>2, <1>3

LEMMA SnapshotFits ==
  ASSUME NEW e, EntryOK(e), NEW n \in Cursors
  PROVE  EntryOK(ApplyServerSnapshot(e, n)) /\ ApplyServerSnapshot(e, n).authoritative = n
<1> DEFINE keeps == e.initialized /\ e.local > e.server /\ n > e.unread
           shown == IF keeps THEN e.unread ELSE n
           settled == e.initialized /\ shown < 1
           unread == IF e.initialized THEN shown ELSE e.unread
           first == IF settled THEN 0 ELSE e.first
           divider == IF settled THEN 0 ELSE e.divider
<1>1. ApplyServerSnapshot(e, n) =
        [e EXCEPT !.authoritative = n, !.unread = unread, !.first = first,
                  !.divider = divider]
  BY DEF ApplyServerSnapshot
<1>2. unread \in Cursors /\ first \in Cursors /\ divider \in Cursors /\ n \in Counts
  BY EmptyEntryFits DEF EntryOK, Entries, Counts
<1>3. n = 0 \/ ~e.initialized => unread = 0
  BY ReadingAssumption DEF EntryOK, Entries, Cursors
<1> HIDE DEF unread, first, divider
<1> QED BY <1>1, <1>2, <1>3 DEF EntryOK, Entries

LEMMA LocalReadFits ==
  ASSUME NEW e, EntryOK(e), NEW list \in SUBSET Ids, NEW c \in Cursors
  PROVE  /\ EntryOK(ApplyLocalRead(e, list, c))
         /\ ApplyLocalRead(e, list, c).authoritative = e.authoritative
<1> DEFINE counted == ProjectUnread(list, e.server, c, e.authoritative)
           divider == IF counted.unread > 0 THEN e.divider ELSE 0
<1>1. CASE c <= e.local
  BY <1>1 DEF ApplyLocalRead
<1>2. CASE ~(c <= e.local)
  <2>1. ApplyLocalRead(e, list, c) =
          [e EXCEPT !.initialized = TRUE, !.local = c, !.first = counted.first,
                    !.unread = counted.unread, !.loadedUnread = counted.loadedUnread,
                    !.divider = divider]
    BY <1>2 DEF ApplyLocalRead
  <2>2. /\ counted.unread \in Cursors /\ counted.loadedUnread \in Cursors
        /\ counted.first \in Cursors /\ (e.authoritative = 0 => counted.unread = 0)
    BY ProjectFits DEF EntryOK, Entries
  <2>3. divider \in Cursors
    BY EmptyEntryFits DEF EntryOK, Entries
  <2> HIDE DEF counted, divider
  <2> QED BY <2>1, <2>2, <2>3 DEF EntryOK, Entries
<1> QED BY <1>1, <1>2

LEMMA InitializeFits ==
  ASSUME NEW e, EntryOK(e), NEW list \in SUBSET Ids, NEW c \in Cursors, NEW d \in Cursors
  PROVE  /\ EntryOK(InitializeRoom(e, list, c, d))
         /\ InitializeRoom(e, list, c, d).authoritative = e.authoritative
<1> DEFINE known == Larger(e.server, c)
           held == Larger(d, e.pending)
           local == Larger(Larger(known, e.local), held)
           counted == ProjectUnread(list, known, local, e.authoritative)
           next == [e EXCEPT !.initialized = TRUE, !.server = known,
                             !.local = local, !.pending = held,
                             !.first = counted.first, !.unread = counted.unread,
                             !.loadedUnread = counted.loadedUnread]
           divider == IF counted.unread = 0 THEN 0
                      ELSE IF next.divider # 0 THEN next.divider ELSE counted.first
<1>1. known \in Cursors /\ held \in Cursors /\ local \in Cursors
  BY LargerFits DEF EntryOK, Entries
<1>2. /\ counted.unread \in Cursors /\ counted.loadedUnread \in Cursors
      /\ counted.first \in Cursors /\ (e.authoritative = 0 => counted.unread = 0)
  <2>1. e.authoritative \in Counts
    BY DEF EntryOK, Entries
  <2> HIDE DEF known, local
  <2> QED BY <2>1, ProjectFits
<1>3. InitializeRoom(e, list, c, d) = IF next = e THEN e ELSE [next EXCEPT !.divider = divider]
  BY DEF InitializeRoom
<1> HIDE DEF known, held, local, counted
<1>4. EntryOK(next) /\ next.authoritative = e.authoritative /\ next.divider = e.divider
  BY <1>1, <1>2 DEF EntryOK, Entries
<1>5. divider \in Cursors
  BY <1>2, <1>4, EmptyEntryFits DEF EntryOK, Entries
<1> HIDE DEF next, divider
<1>6. /\ EntryOK([next EXCEPT !.divider = divider])
      /\ [next EXCEPT !.divider = divider].authoritative = e.authoritative
  BY <1>4, <1>5 DEF EntryOK, Entries
<1> QED BY <1>3, <1>6

------------------------------------------------------------------------------
(* Types, and the badge of a room where nothing is unread                  *)

ServerFits == published \in Cursors /\ cursor \in Cursors /\ snapshots \in Seq(Cursors)
WireFits ==
  /\ posts \subseteq [visit : 1..MaxVisits, id : Ids]
  /\ answers \subseteq [visit : 1..MaxVisits, id : Ids, ok : BOOLEAN]
  /\ beacons \subseteq Ids /\ fails \in 0..MaxFails
VisitsFit ==
  /\ stored \in Cursors
  /\ pending \in [1..MaxVisits -> Cursors] /\ lastSent \in [1..MaxVisits -> Cursors]
TabFits ==
  /\ visit \in 0..MaxVisits /\ mounted \in BOOLEAN /\ (mounted => visit > 0)
  /\ due \subseteq Effects /\ seen \in Cursors

\* The last count on its way to the tab, or else the one the tab was told, is
\* the server's.
Announced ==
  IF snapshots = <<>> THEN entry.authoritative = UnreadOf(published, cursor)
  ELSE snapshots[Len(snapshots)] = UnreadOf(published, cursor)

TInv ==
  /\ ServerFits /\ WireFits /\ VisitsFit /\ TabFits
  /\ EntryOK(entry) /\ page \in Page /\ Announced

LEMMA TypesFollow == ASSUME TInv PROVE TypeOK
<1>1. \A i \in DOMAIN snapshots : snapshots[i] \in Cursors
  BY DEF TInv, ServerFits
<1>2. entry \in Entries
  BY DEF TInv, EntryOK
<1> QED
  BY <1>1, <1>2 DEF TInv, TypeOK, ServerFits, WireFits, VisitsFit, TabFits, Entries, Counts

LEMMA BadgeFollows == ASSUME TInv PROVE NoBadgeOfNothing
BY DEF TInv, Announced, EntryOK, NoBadgeOfNothing, Quiet

LEMMA Numbers ==
  /\ MaxId \in Nat /\ MaxVisits \in Nat /\ MaxFails \in Nat /\ Loaded \in Nat /\ Loaded > 0
  /\ FirstRead \in Cursors /\ FirstCount \in Cursors /\ Ids \subseteq Cursors
  /\ Cursors \subseteq Nat /\ 0 \in Cursors
BY ReadingAssumption DEF Cursors, Ids

LEMMA UnreadFits ==
  ASSUME NEW last \in Cursors, NEW read PROVE UnreadOf(last, read) \in Cursors
<1>1. {m \in Foreign(1..last) : m > read} \in SUBSET Ids
  BY Numbers DEF Foreign, Ids, Cursors
<1> QED BY <1>1, CountsFit DEF UnreadOf

\* What a mounted page works with.
LEMMA PageFits ==
  ASSUME TInv, mounted
  PROVE  /\ visit \in 1..MaxVisits /\ List \in SUBSET Ids /\ pending[visit] \in Cursors
         /\ Tracked \in Cursors /\ LocalRead \in Cursors /\ FlushCandidate \in Cursors
         /\ FirstShown \in Cursors
         /\ page.low \in 1..MaxId + 1 /\ page.high \in Cursors /\ page.edge \in Cursors
         /\ page.base \in Cursors /\ page.timer \in Cursors /\ page.anchor \in Cursors
<1>1. /\ page.low \in 1..MaxId + 1 /\ page.high \in Cursors /\ page.edge \in Cursors
      /\ page.base \in Cursors /\ page.timer \in Cursors /\ page.anchor \in Cursors
      /\ page.progress \in Cursors
  BY DEF TInv, Page
<1>2. visit \in 1..MaxVisits
  BY Numbers DEF TInv, TabFits
<1>3. pending[visit] \in Cursors
  BY <1>2 DEF TInv, VisitsFit
<1>4. List \in SUBSET Ids
  BY <1>1, Numbers DEF List, Ids, Cursors
<1>5. Tracked \in Cursors
  BY <1>1, <1>3, LargerFits DEF Tracked
<1>6. entry.local \in Cursors /\ entry.first \in Cursors
  BY DEF TInv, EntryOK, Entries
<1>7. LocalRead \in Cursors
  BY <1>5, <1>6, LargerFits DEF LocalRead
<1>8. FlushCandidate \in Cursors
  BY <1>3, <1>7, LargerFits DEF FlushCandidate
<1>9. FirstShown \in Cursors
  BY <1>4, <1>6, FirstUnreadFits DEF FirstShown, Stats, UnreadStats
<1> QED BY <1>1, <1>2, <1>3, <1>4, <1>5, <1>7, <1>8, <1>9

LEMMA PersistFits ==
  ASSUME TInv, mounted, NEW id \in Cursors
  PROVE  /\ Persist(id) => stored' \in Cursors /\ pending' \in [1..MaxVisits -> Cursors]
         /\ EntryOK(PersistEntry(entry, id))
         /\ PersistEntry(entry, id).authoritative = entry.authoritative
<1>1. visit \in 1..MaxVisits
  BY PageFits
<1>2. Persist(id) => stored' \in Cursors /\ pending' \in [1..MaxVisits -> Cursors]
  BY <1>1 DEF Persist, TInv, VisitsFit
<1> QED BY <1>2, SettersFit DEF PersistEntry, TInv

LEMMA SendFits ==
  ASSUME TInv, mounted, NEW id \in Cursors, Send(id)
  PROVE  /\ lastSent' \in [1..MaxVisits -> Cursors]
         /\ posts' \subseteq [visit : 1..MaxVisits, id : Ids]
<1>1. visit \in 1..MaxVisits /\ (id >= 1 => id \in Ids)
  BY PageFits DEF Ids, Cursors
<1>2. posts \subseteq [visit : 1..MaxVisits, id : Ids] /\ lastSent \in [1..MaxVisits -> Cursors]
  BY DEF TInv, VisitsFit, WireFits
<1> QED BY <1>1, <1>2 DEF Send

LEMMA WokenFits == ASSUME NEW e, NEW f, NEW b PROVE Woken(e, f, b) \subseteq Effects
BY DEF Woken, Effects

LEMMA TypesInit == Init => TInv
<1> SUFFICES ASSUME Init PROVE TInv
  OBVIOUS
<1> USE DEF Init
<1>1. UnreadOf(FirstCount, FirstRead) \in Cursors
  BY UnreadFits, Numbers
<1>2. ServerFits /\ Announced
  BY <1>1, Numbers DEF ServerFits, Announced
<1>3. WireFits
  BY Numbers DEF WireFits
<1>5. VisitsFit
  BY Numbers DEF VisitsFit
<1>6. TabFits
  <2>1. visit \in 0..MaxVisits /\ seen \in Cursors /\ due \subseteq Effects
    BY Numbers
  <2>2. mounted = FALSE
    OBVIOUS
  <2> QED BY <2>1, <2>2 DEF TabFits
<1>4. page \in Page
  BY Numbers DEF NoPage, NewPage, Page, Cursors
<1> QED BY <1>2, <1>3, <1>4, <1>5, <1>6, EmptyEntryFits DEF TInv

\* What a step that leaves the server and its counts alone has to show.
LEMMA SameCounts ==
  ASSUME TInv, UNCHANGED <<published, cursor, snapshots>>, WireFits', VisitsFit', TabFits',
         EntryOK(entry'), entry'.authoritative = entry.authoritative, page' \in Page
  PROVE  TInv'
BY DEF TInv, ServerFits, Announced, UnreadOf

\* A new count is appended to those on their way.
LEMMA NewCount ==
  ASSUME TInv, published' \in Cursors, cursor' \in Cursors,
         snapshots' = Append(snapshots, UnreadOf(published', cursor')),
         UNCHANGED tab, WireFits'
  PROVE  TInv'
<1>1. UnreadOf(published', cursor') \in Cursors
  BY UnreadFits
<1>2. snapshots \in Seq(Cursors)
  BY DEF TInv, ServerFits
<1>3. /\ snapshots' \in Seq(Cursors) /\ snapshots' # <<>>
      /\ snapshots'[Len(snapshots')] = UnreadOf(published', cursor')
  BY <1>1, <1>2
<1>4. ServerFits' /\ Announced'
  BY <1>3 DEF ServerFits, Announced, UnreadOf
<1> QED BY <1>4 DEF TInv, tab, VisitsFit, TabFits

LEMMA TypesOfServer ==
  ASSUME TInv
  PROVE  /\ Publish => TInv'
         /\ \A post \in posts : MarkRead(post) \/ MarkReadFails(post) => TInv'
         /\ \A id \in beacons : BeaconArrives(id) \/ BeaconIsLost(id) => TInv'
<1>1. published \in Cursors /\ cursor \in Cursors /\ WireFits
  BY DEF TInv, ServerFits
<1>2. ASSUME Publish PROVE TInv'
  <2>1. published' \in Cursors
    BY <1>1, <1>2, Numbers DEF Publish, Cursors
  <2>2. WireFits'
    BY <1>1, <1>2 DEF Publish, WireFits
  <2> QED BY <1>1, <1>2, <2>1, <2>2, NewCount DEF Publish
<1>3. ASSUME NEW post \in posts, MarkRead(post) PROVE TInv'
  <2>1. post.id \in Ids /\ post.visit \in 1..MaxVisits
    BY <1>1 DEF WireFits
  <2>2. cursor' \in Cursors
    BY <1>1, <1>3, <2>1, Numbers, LargerFits DEF MarkRead, ReadOnServer
  <2>3. WireFits'
    <3>1. [visit |-> post.visit, id |-> post.id, ok |-> TRUE] \in
            [visit : 1..MaxVisits, id : Ids, ok : BOOLEAN]
      BY <2>1
    <3> QED BY <1>1, <1>3, <3>1 DEF MarkRead, WireFits
  <2> QED BY <1>1, <1>3, <2>2, <2>3, NewCount DEF MarkRead, ReadOnServer
<1>4. ASSUME NEW post \in posts, MarkReadFails(post) PROVE TInv'
  <2>1. post.id \in Ids /\ post.visit \in 1..MaxVisits
    BY <1>1 DEF WireFits
  <2>2. WireFits'
    <3>1. [visit |-> post.visit, id |-> post.id, ok |-> FALSE] \in
            [visit : 1..MaxVisits, id : Ids, ok : BOOLEAN]
      BY <2>1
    <3>2. fails' \in 0..MaxFails
      BY <1>1, <1>4, Numbers DEF MarkReadFails, WireFits
    <3> QED BY <1>1, <1>4, <3>1, <3>2 DEF MarkReadFails, WireFits
  <2> QED BY <1>4, <2>2, SameCounts DEF MarkReadFails, server, tab, TInv, VisitsFit, TabFits
<1>5. ASSUME NEW id \in beacons, BeaconArrives(id) PROVE TInv'
  <2>1. id \in Ids
    BY <1>1 DEF WireFits
  <2>2. cursor' \in Cursors
    BY <1>1, <1>5, <2>1, Numbers, LargerFits DEF BeaconArrives, ReadOnServer
  <2>3. WireFits'
    BY <1>1, <1>5 DEF BeaconArrives, WireFits
  <2> QED BY <1>1, <1>5, <2>2, <2>3, NewCount DEF BeaconArrives, ReadOnServer
<1>6. ASSUME NEW id \in beacons, BeaconIsLost(id) PROVE TInv'
  <2>1. WireFits'
    BY <1>1, <1>6 DEF BeaconIsLost, WireFits
  <2> QED BY <1>6, <2>1, SameCounts DEF BeaconIsLost, server, tab, TInv, VisitsFit, TabFits
<1> QED BY <1>2, <1>3, <1>4, <1>5, <1>6

LEMMA TypesOfArrivals == ASSUME TInv, Arrivals PROVE TInv'
<1>0. /\ WireFits /\ VisitsFit /\ TabFits /\ EntryOK(entry) /\ page \in Page
      /\ published \in Cursors
  BY DEF TInv, ServerFits
<1>1. CASE SnapshotArrives
  <2>1. /\ snapshots \in Seq(Cursors) /\ snapshots # <<>> /\ Head(snapshots) \in Cursors
        /\ snapshots' = Tail(snapshots) /\ Tail(snapshots) \in Seq(Cursors)
    BY <1>1 DEF SnapshotArrives, TInv, ServerFits
  <2>2. EntryOK(entry') /\ entry'.authoritative = Head(snapshots)
    BY <1>0, <1>1, <2>1, SnapshotFits DEF SnapshotArrives
  <2>3. UNCHANGED <<published, cursor>>
    BY <1>1 DEF SnapshotArrives, server
  <2>4. Announced'
    <3>1. snapshots[Len(snapshots)] = UnreadOf(published, cursor)
      BY <2>1 DEF TInv, Announced
    <3>2. CASE Len(snapshots) = 1
      <4>1. snapshots' = <<>> /\ Head(snapshots) = snapshots[Len(snapshots)]
        BY <2>1, <3>2
      <4> QED BY <2>2, <2>3, <3>1, <4>1 DEF Announced, UnreadOf
    <3>3. CASE Len(snapshots) # 1
      <4>1. /\ Len(snapshots) > 1 /\ snapshots' # <<>>
            /\ snapshots'[Len(snapshots')] = snapshots[Len(snapshots)]
        <5>1. Len(snapshots) \in Nat /\ Len(snapshots) > 1
          BY <2>1, <3>3, EmptySeq
        <5>2. Len(snapshots') = Len(snapshots) - 1
          BY <2>1
        <5>3. snapshots'[Len(snapshots) - 1] = snapshots[Len(snapshots)]
          BY <2>1, <5>1
        <5> QED BY <5>1, <5>2, <5>3
      <4> QED BY <2>3, <3>1, <4>1 DEF Announced, UnreadOf
    <3> QED BY <3>2, <3>3
  <2>5. ServerFits' /\ WireFits' /\ VisitsFit'
    BY <1>0, <1>1, <2>1, <2>3 DEF SnapshotArrives, server, ServerFits, WireFits, VisitsFit, TInv
  <2>6. TabFits' /\ page' \in Page
    BY <1>0, <1>1 DEF SnapshotArrives, TabFits, Effects
  <2> QED BY <2>2, <2>4, <2>5, <2>6 DEF TInv
<1>2. CASE MessageArrives
  <2>1. /\ mounted /\ page.high < published /\ page.high \in Cursors
    BY <1>0, <1>2 DEF MessageArrives, Page
  <2>2. page.high + 1 \in Cursors
    BY <1>0, <2>1, Numbers DEF Cursors
  <2>3. EntryOK(entry') /\ entry'.authoritative = entry.authoritative
    BY <1>0, <1>2, <2>2, SettersFit DEF MessageArrives
  <2>4. page' \in Page
    BY <1>0, <1>2, <2>2 DEF MessageArrives, Page
  <2>5. WireFits' /\ VisitsFit' /\ TabFits'
    BY <1>0, <1>2 DEF MessageArrives, wire, WireFits, VisitsFit, TabFits, Effects
  <2> QED BY <1>2, <2>3, <2>4, <2>5, SameCounts DEF MessageArrives, server, wire
<1>3. CASE HistoryArrives
  <2>1. page.low \in 1..MaxId + 1
    BY <1>0 DEF Page
  <2>2. Larger(1, page.low - Loaded) \in 1..MaxId + 1
    BY <2>1, Numbers DEF Larger
  <2>3. page' \in Page
    BY <1>0, <1>3, <2>2 DEF HistoryArrives, Page
  <2>4. WireFits' /\ VisitsFit' /\ TabFits' /\ EntryOK(entry') /\ UNCHANGED entry
    BY <1>0, <1>3 DEF HistoryArrives, wire, WireFits, VisitsFit, TabFits, Effects
  <2> QED BY <1>3, <2>3, <2>4, SameCounts DEF HistoryArrives, server, wire
<1>4. CASE HistoryFails
  <2>1. page' \in Page
    BY <1>0, <1>4 DEF HistoryFails, Page
  <2>2. WireFits'
    <3>1. fails' \in 0..MaxFails
      BY <1>0, <1>4, Numbers DEF HistoryFails, WireFits
    <3> QED BY <1>0, <1>4, <3>1 DEF HistoryFails, WireFits
  <2>3. VisitsFit' /\ TabFits' /\ EntryOK(entry') /\ UNCHANGED entry
    BY <1>0, <1>4 DEF HistoryFails, VisitsFit, TabFits, Effects
  <2> QED BY <1>4, <2>1, <2>2, <2>3, SameCounts DEF HistoryFails, server
<1>5. ASSUME NEW answer \in answers, ReadConfirmed(answer) PROVE TInv'
  <2>1. answer.id \in Cursors /\ answer.visit \in 1..MaxVisits
    BY <1>0, Numbers DEF WireFits
  <2> DEFINE after == AcknowledgeServerRead(SetPendingMarkRead(entry, 0), answer.id)
  <2>2. EntryOK(after) /\ after.authoritative = entry.authoritative
    <3>1. /\ EntryOK(SetPendingMarkRead(entry, 0))
          /\ SetPendingMarkRead(entry, 0).authoritative = entry.authoritative
      BY <1>0, Numbers, SettersFit
    <3> QED BY <2>1, <3>1, AcknowledgeFits
  <2> HIDE DEF after
  <2>3. EntryOK(entry') /\ entry'.authoritative = entry.authoritative
    BY <1>0, <1>5, <2>2 DEF ReadConfirmed, after
  <2>4. WireFits' /\ VisitsFit'
    BY <1>0, <1>5, Numbers DEF ReadConfirmed, WireFits, VisitsFit
  <2>5. TabFits' /\ page' \in Page
    BY <1>0, <1>5, WokenFits DEF ReadConfirmed, TabFits
  <2> QED BY <1>5, <2>3, <2>4, <2>5, SameCounts DEF ReadConfirmed, server
<1>6. ASSUME NEW answer \in answers, ReadRefused(answer) PROVE TInv'
  <2>1. answer.id - 1 \in Cursors /\ answer.visit \in 1..MaxVisits
    BY <1>0, Numbers DEF WireFits, Ids, Cursors
  <2>2. WireFits' /\ VisitsFit' /\ TabFits'
    BY <1>0, <1>6, <2>1 DEF ReadRefused, WireFits, VisitsFit, TabFits
  <2> QED BY <1>0, <1>6, <2>2, SameCounts DEF ReadRefused, server
<1> QED BY <1>1, <1>2, <1>3, <1>4, <1>5, <1>6 DEF Arrivals

LEMMA NewPageFits ==
  ASSUME NEW base \in Cursors, NEW low \in 1..MaxId + 1, NEW high \in Cursors
  PROVE  NewPage(base, low, high) \in Page
BY Numbers DEF NewPage, Page

LEMMA NoPageFits == NoPage \in Page
BY Numbers, NewPageFits DEF NoPage

LEMMA TypesOfOpen == ASSUME TInv, Open PROVE TInv'
<1>0. /\ WireFits /\ VisitsFit /\ TabFits /\ EntryOK(entry) /\ published \in Cursors /\ cursor \in Cursors
  BY DEF TInv, ServerFits
<1>1. Larger(1, published - Loaded + 1) \in 1..MaxId + 1
  BY <1>0, Numbers DEF Larger, Cursors
<1>2. page' \in Page
  BY <1>0, <1>1, NewPageFits DEF Open
<1>3. WireFits' /\ VisitsFit' /\ TabFits'
  BY <1>0, Numbers DEF Open, wire, WireFits, VisitsFit, TabFits, Effects
<1> QED BY <1>0, <1>2, <1>3, SameCounts DEF Open, server, wire

LEMMA TypesOfCommit == ASSUME TInv, Commit PROVE TInv'
<1>0. /\ mounted /\ WireFits /\ VisitsFit /\ TabFits /\ EntryOK(entry) /\ page \in Page
      /\ List \in SUBSET Ids /\ LocalRead \in Cursors /\ page.base \in Cursors
      /\ pending[visit] \in Cursors /\ FirstShown \in Cursors
  BY PageFits DEF TInv, Commit
<1> DEFINE projected == IF "initialize" \in due
                        THEN InitializeRoom(entry, List, page.base, pending[visit])
                        ELSE entry
           applied == IF "localRead" \in due /\ LocalRead >= 1
                      THEN ApplyLocalRead(projected, List, LocalRead)
                      ELSE projected
<1>1. EntryOK(projected) /\ projected.authoritative = entry.authoritative
  BY <1>0, InitializeFits
<1>2. EntryOK(applied) /\ applied.authoritative = entry.authoritative
  <2> HIDE DEF projected
  <2> QED BY <1>0, <1>1, LocalReadFits
<1>3. EntryOK(entry') /\ entry'.authoritative = entry.authoritative
  <2>1. entry' = applied \/ entry' = SetRoomDivider(applied, 0)
    BY DEF Commit
  <2> HIDE DEF applied
  <2> QED BY <1>2, <2>1, SettersFit, Numbers
<1> HIDE DEF projected, applied
<1>4. page' \in Page
  <2> DEFINE clears == LocalUnread = 0 /\ page.anchor # 0
             places == /\ "place" \in due /\ page.phase = "pending"
                       /\ Target # "none"
             looks == "sync" \in due /\ Enabled /\ ~page.scrolling
             anchor == IF DividesFirst THEN FirstShown ELSE IF clears THEN 0 ELSE page.anchor
             loading == page.loading \/ LoadsHistory
             phase == IF places THEN "positioning" ELSE page.phase
             frame == page.frame \/ looks
             timer == IF MarksLater THEN LocalRead ELSE page.timer
             prepending == page.prepending /\ ~Appends
             sticky == page.sticky /\ ~(Appends /\ ~page.prepending)
             scrolling == page.scrolling \/ SticksToBottom
  <2>1. page' = [page EXCEPT !.anchor = anchor, !.loading = loading, !.target = Target,
                   !.phase = phase, !.frame = frame, !.timer = timer,
                   !.prepending = prepending, !.sticky = sticky, !.scrolling = scrolling]
    BY DEF Commit
  <2>3. anchor \in Cursors /\ timer \in Cursors
    BY <1>0, Numbers DEF Page
  <2>4. phase \in {"pending", "positioning", "settled"}
    BY <1>0 DEF Page
  <2>5. /\ loading \in BOOLEAN /\ frame \in BOOLEAN /\ prepending \in BOOLEAN
        /\ sticky \in BOOLEAN /\ scrolling \in BOOLEAN
    BY Zenon
  <2> HIDE DEF anchor, loading, phase, frame, timer, prepending, sticky, scrolling
  <2>2. Target \in {"none", "unread", "bottom"}
    BY <1>0 DEF Target, Page
  <2> DEFINE placed == [page EXCEPT !.anchor = anchor, !.loading = loading, !.target = Target,
                          !.phase = phase]
             looking == [placed EXCEPT !.frame = frame, !.timer = timer,
                           !.prepending = prepending, !.sticky = sticky, !.scrolling = scrolling]
  <2>6. placed \in Page
    BY <1>0, <2>2, <2>3, <2>4, <2>5 DEF Page
  <2>7. looking \in Page
    <3> HIDE DEF placed
    <3> QED BY <2>3, <2>5, <2>6 DEF Page
  <2>8. page' = looking
    BY <1>0, <2>1 DEF Page
  <2> QED BY <2>7, <2>8
<1>5. WireFits' /\ VisitsFit' /\ TabFits'
  BY <1>0, WokenFits DEF Commit, wire, WireFits, VisitsFit, TabFits
<1> QED BY <1>3, <1>4, <1>5, SameCounts DEF Commit, server, wire

LEMMA TypesOfLooking ==
  ASSUME TInv,
         \/ Positioned \/ ScrollToBottom
         \/ \E edge \in List, wants \in BOOLEAN : Scroll(edge, wants)
  PROVE  TInv'
<1>0. /\ mounted /\ WireFits /\ VisitsFit /\ TabFits /\ EntryOK(entry) /\ page \in Page
  BY DEF TInv, Positioned, ScrollToBottom, Scroll
<1>1. /\ List \in SUBSET Ids /\ FirstShown \in Cursors /\ page.high \in Cursors
      /\ page.anchor \in Cursors
  BY <1>0, PageFits
<1>2. WireFits' /\ VisitsFit' /\ UNCHANGED <<published, cursor, snapshots>>
  BY <1>0 DEF Positioned, ScrollToBottom, Scroll, server, wire, WireFits, VisitsFit
<1>3. TabFits'
  BY <1>0 DEF Positioned, ScrollToBottom, Scroll, TabFits, Effects
<1>4. EntryOK(entry') /\ entry'.authoritative = entry.authoritative
  <2>1. \E c \in Cursors : entry' = SetRoomDivider(entry, c) \/ entry' = entry
    BY <1>1 DEF Positioned, ScrollToBottom, Scroll
  <2> QED BY <1>0, <2>1, SettersFit
<1>5. page' \in Page
  <2>1. CASE Positioned
    <3> DEFINE edges == IF (page.target = "unread" /\ page.anchor # 0)
                             /\ page.anchor \in List
                        THEN page.anchor..page.high ELSE {page.high}
    <3>1. edges \subseteq Cursors
      BY <1>1, Numbers DEF Cursors
    <3>2. PICK edge \in edges :
            page' = [page EXCEPT !.phase = "settled", !.edge = edge,
                                 !.bottom = (edge = page.high)]
      BY <2>1 DEF Positioned
    <3> HIDE DEF edges
    <3> DEFINE bottom == edge = page.high
    <3>3. bottom \in BOOLEAN
      BY Zenon
    <3>4. page' = [page EXCEPT !.phase = "settled", !.edge = edge, !.bottom = bottom]
      BY <3>2
    <3> HIDE DEF bottom
    <3> QED BY <1>0, <3>1, <3>3, <3>4 DEF Page
  <2>2. CASE ScrollToBottom
    BY <1>0, <2>2 DEF ScrollToBottom, Page
  <2>3. ASSUME NEW edge \in List, NEW wants \in BOOLEAN, Scroll(edge, wants) PROVE page' \in Page
    <3> DEFINE bottom == edge = page.high
               divides == /\ edge # page.high /\ page.anchor = 0
                          /\ LocalUnread > 0 /\ FirstShown # 0
               anchor == IF divides THEN FirstShown ELSE page.anchor
               loading == page.loading \/ wants
               prepending == page.prepending \/ wants
    <3>1. page' = [page EXCEPT !.edge = edge, !.bottom = bottom, !.frame = TRUE,
                     !.anchor = anchor, !.loading = loading, !.prepending = prepending]
      BY <2>3 DEF Scroll
    <3>2. bottom \in BOOLEAN /\ loading \in BOOLEAN /\ prepending \in BOOLEAN
      BY Zenon
    <3>3. anchor \in Cursors /\ edge \in Cursors
      BY <1>1, Numbers
    <3> HIDE DEF bottom, divides, anchor, loading, prepending
    <3> QED BY <1>0, <3>1, <3>2, <3>3 DEF Page
  <2> QED BY <2>1, <2>2, <2>3
<1> QED BY <1>2, <1>3, <1>4, <1>5, SameCounts

LEMMA TypesOfViewport ==
  ASSUME TInv, mounted, NEW edge \in Cursors, ViewportRead(edge) PROVE TInv'
<1> DEFINE next == IF Enabled
                   THEN NextLastRead(List, Tracked, {m \in List : m <= edge})
                   ELSE Tracked
           kept == PersistEntry(entry, next)
           counts == next > 0 /\ next <= page.high
           after == IF counts THEN ApplyLocalRead(kept, List, next) ELSE kept
           progress == IF next > Tracked THEN next ELSE page.progress
           bottom == edge = page.high
           woken == Woken(entry, after, Larger(next, pending[visit]) # Tracked)
<1>0. /\ WireFits /\ VisitsFit /\ TabFits /\ EntryOK(entry) /\ page \in Page
      /\ List \in SUBSET Ids /\ Tracked \in Cursors
      /\ page.low \in 1..MaxId + 1 /\ page.high \in Cursors
  BY PageFits DEF TInv
<1>1. next \in Cursors
  <2>1. /\ page.low \in Int /\ page.high \in Int /\ edge \in Int /\ Tracked \in Nat
        /\ List = page.low..page.high
    <3>1. page.low \in Int /\ page.high \in Int /\ edge \in Int /\ Tracked \in Nat
      <4>1. MaxId \in Int /\ page.high \in Nat /\ edge \in Nat /\ Tracked \in Nat
        <5>1. MaxId \in Nat /\ Cursors = 0..MaxId
          BY Numbers DEF Cursors
        <5>2. page.high \in Cursors /\ edge \in Cursors /\ Tracked \in Cursors
          BY <1>0
        <5> QED BY <5>1, <5>2
      <4>2. page.low \in 1..MaxId + 1
        BY <1>0
      <4> QED BY <4>1, <4>2
    <3> QED BY <3>1 DEF List
  <2> DEFINE read == NextLastRead(List, Tracked, {m \in List : m <= edge})
  <2>2. read = Tracked \/ (read \in Nat /\ read <= edge)
    BY <2>1, NextLastReadIs
  <2> HIDE DEF read
  <2>3. read \in Cursors
    BY <1>0, <2>2, Numbers DEF Cursors
  <2>4. next = read \/ next = Tracked
    BY DEF read
  <2> QED BY <1>0, <2>3, <2>4
<1>2. /\ page' = [page EXCEPT !.progress = progress, !.edge = edge, !.frame = FALSE,
                    !.scrolling = FALSE, !.bottom = bottom]
      /\ Persist(next) /\ entry' = after
      /\ Send(next) \/ UNCHANGED <<lastSent, posts>>
      /\ due' = due \cup woken
      /\ seen' = IF Enabled THEN Larger(seen, edge) ELSE seen
      /\ UNCHANGED <<published, cursor, snapshots, answers, beacons, fails, visit, mounted>>
  BY DEF ViewportRead, server
<1> HIDE DEF next
<1>3. EntryOK(kept) /\ kept.authoritative = entry.authoritative
  BY <1>1, PersistFits
<1>4. EntryOK(after) /\ after.authoritative = entry.authoritative
  <2> HIDE DEF kept, counts
  <2> QED BY <1>0, <1>1, <1>3, LocalReadFits
<1>5. page' \in Page
  <2>1. bottom \in BOOLEAN
    BY Zenon
  <2>2. progress \in Cursors
    BY <1>0, <1>1 DEF Page
  <2> HIDE DEF bottom, progress
  <2> QED BY <1>0, <1>2, <2>1, <2>2 DEF Page
<1>6. woken \subseteq Effects
  BY WokenFits
<1> HIDE DEF after, woken, counts
<1>7. stored' \in Cursors /\ pending' \in [1..MaxVisits -> Cursors]
  BY <1>1, <1>2, PersistFits
<1>8. lastSent' \in [1..MaxVisits -> Cursors] /\ posts' \subseteq [visit : 1..MaxVisits, id : Ids]
  <2>1. CASE Send(next)
    BY <1>1, <2>1, SendFits
  <2>2. CASE UNCHANGED <<lastSent, posts>>
    BY <1>0, <2>2 DEF VisitsFit, WireFits
  <2> QED BY <1>2, <2>1, <2>2
<1>9. WireFits' /\ VisitsFit'
  BY <1>0, <1>2, <1>7, <1>8 DEF WireFits, VisitsFit
<1>10. TabFits'
  BY <1>0, <1>2, <1>6, LargerFits DEF TabFits
<1> QED BY <1>2, <1>4, <1>5, <1>9, <1>10, SameCounts

LEMMA TypesOfTimer == ASSUME TInv, TimerFires PROVE TInv'
<1>0. /\ mounted /\ WireFits /\ VisitsFit /\ TabFits /\ EntryOK(entry) /\ page \in Page
      /\ page.timer \in Cursors
  BY PageFits DEF TInv, TimerFires
<1>1. /\ stored' \in Cursors /\ pending' \in [1..MaxVisits -> Cursors]
      /\ EntryOK(entry') /\ entry'.authoritative = entry.authoritative
  BY <1>0, PersistFits DEF TimerFires
<1>2. lastSent' \in [1..MaxVisits -> Cursors] /\ posts' \subseteq [visit : 1..MaxVisits, id : Ids]
  BY <1>0, SendFits DEF TimerFires
<1>3. page' \in Page
  BY <1>0, Numbers DEF TimerFires, Page
<1>4. WireFits' /\ VisitsFit' /\ TabFits'
  BY <1>0, <1>1, <1>2 DEF TimerFires, WireFits, VisitsFit, TabFits, Effects
<1> QED BY <1>1, <1>3, <1>4, SameCounts DEF TimerFires, server

LEMMA TypesOfHide == ASSUME TInv, Hide PROVE TInv'
<1>0. /\ mounted /\ WireFits /\ VisitsFit /\ TabFits /\ EntryOK(entry) /\ page \in Page
      /\ FlushCandidate \in Cursors
  BY PageFits DEF TInv, Hide
<1>1. /\ stored' \in Cursors /\ pending' \in [1..MaxVisits -> Cursors]
      /\ EntryOK(entry') /\ entry'.authoritative = entry.authoritative
  BY <1>0, PersistFits DEF Hide
<1>2. FlushCandidate \in Ids
  BY <1>0, Numbers DEF Hide, Flushes, Ids, Cursors
<1>3. WireFits' /\ VisitsFit' /\ TabFits'
  BY <1>0, <1>1, <1>2 DEF Hide, WireFits, VisitsFit, TabFits, Effects
<1> QED BY <1>0, <1>1, <1>3, SameCounts DEF Hide, server

LEMMA TypesOfLeave == ASSUME TInv, Leave PROVE TInv'
<1>0. /\ mounted /\ WireFits /\ VisitsFit /\ TabFits /\ EntryOK(entry) /\ pending[visit] \in Cursors
  BY PageFits DEF TInv, Leave
<1>1. lastSent' \in [1..MaxVisits -> Cursors] /\ posts' \subseteq [visit : 1..MaxVisits, id : Ids]
  <2>1. CASE Send(pending[visit])
    BY <1>0, <2>1, SendFits
  <2>2. CASE UNCHANGED <<lastSent, posts>>
    BY <1>0, <2>2 DEF VisitsFit, WireFits
  <2> QED BY <2>1, <2>2 DEF Leave
<1>2. WireFits' /\ VisitsFit' /\ TabFits' /\ page' \in Page
  BY <1>0, <1>1, NoPageFits DEF Leave, WireFits, VisitsFit, TabFits
<1> QED BY <1>0, <1>2, SameCounts DEF Leave, server

LEMMA TypesOfRestart ==
  ASSUME TInv, NEW flushed \in SUBSET Ids, Restart(flushed),
         stored' \in Cursors, pending' \in [1..MaxVisits -> Cursors]
  PROVE  TInv'
<1>0. /\ WireFits /\ VisitsFit /\ TabFits /\ published \in Cursors /\ cursor \in Cursors
  BY DEF TInv, ServerFits
<1>1. snapshots' = <<UnreadOf(published, cursor)>> /\ UNCHANGED <<published, cursor>>
  BY DEF Restart, server
<1>2. UnreadOf(published, cursor) \in Cursors
  BY <1>0, UnreadFits
<1>3. ServerFits' /\ Announced'
  <2>1. snapshots' \in Seq(Cursors) /\ Len(snapshots') = 1 /\ snapshots' # <<>>
    BY <1>1, <1>2
  <2> QED BY <1>0, <1>1, <2>1 DEF ServerFits, Announced, UnreadOf
<1>4. WireFits'
  <2>1. {post.id : post \in posts} \subseteq Ids
    BY <1>0 DEF WireFits
  <2> QED BY <1>0, <2>1 DEF Restart, WireFits
<1>5. VisitsFit' /\ TabFits' /\ page' \in Page /\ EntryOK(entry')
  BY <1>0, NoPageFits, EmptyEntryFits DEF Restart, VisitsFit, TabFits
<1> QED BY <1>3, <1>4, <1>5 DEF TInv

LEMMA TypesOfGoing == ASSUME TInv, Reload \/ Crash PROVE TInv'
<1>1. mounted
  BY DEF Reload, Crash
<1>2. FlushCandidate \in Cursors
  BY <1>1, PageFits
<1>3. stored \in Cursors /\ pending \in [1..MaxVisits -> Cursors]
  BY DEF TInv, VisitsFit
<1>4. CASE UNCHANGED <<pending, stored>> /\ Restart({})
  BY <1>3, <1>4, TypesOfRestart
<1>5. CASE Flushes(FlushCandidate) /\ Persist(FlushCandidate) /\ Restart({FlushCandidate})
  <2>1. FlushCandidate \in Ids
    BY <1>2, <1>5, Numbers DEF Flushes, Ids, Cursors
  <2>2. stored' \in Cursors /\ pending' \in [1..MaxVisits -> Cursors]
    BY <1>1, <1>2, <1>5, PersistFits
  <2> QED BY <1>5, <2>1, <2>2, TypesOfRestart
<1> QED BY <1>4, <1>5 DEF Reload, Crash

LEMMA TypesStep == TInv /\ [Next]_vars => TInv'
<1> SUFFICES ASSUME TInv, [Next]_vars PROVE TInv'
  OBVIOUS
<1>1. CASE Tab
  <2>1. CASE FrameRuns \/ ScrollEnds
    <3>1. mounted /\ (ViewportRead(page.edge) \/ ViewportRead(page.high))
      BY <2>1 DEF FrameRuns, ScrollEnds
    <3>2. page.edge \in Cursors /\ page.high \in Cursors
      BY <3>1, PageFits
    <3> QED BY <3>1, <3>2, TypesOfViewport
  <2> QED BY <1>1, <2>1, TypesOfOpen, TypesOfCommit, TypesOfLooking, TypesOfTimer,
          TypesOfHide, TypesOfLeave, TypesOfGoing DEF Tab
<1>2. CASE UNCHANGED vars
  BY <1>2, SameCounts DEF vars, TInv, WireFits, VisitsFit, TabFits
<1> QED BY <1>1, <1>2, TypesOfArrivals, TypesOfServer DEF Next

\* Every cursor, count and list stays within the room, and a page never asks
\* for history before the first message.
THEOREM TypesHold == Spec => []TypeOK
BY TypesFollow, TypesInit, TypesStep, PTL DEF Spec

\* Once everything has arrived a room without unread messages shows no badge,
\* for any number of snapshots in flight and visits.
THEOREM NoBadgeOfNothingHolds == Spec => []NoBadgeOfNothing
BY BadgeFollows, TypesInit, TypesStep, PTL DEF Spec
==============================================================================
