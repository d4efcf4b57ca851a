---------------------------- MODULE InboxProofs ----------------------------
(***************************************************************************)
(* Proofs about what a user sees of his rooms: DirectInbox on the server,  *)
(* for any rooms, tabs, request threads and timeouts, and the two machines *)
(* of MCRoom in the client, the tab of the conversation list and the       *)
(* timeline of an open room, for any bounds.                               *)
(*                                                                         *)
(* On the server, what makes the active entry trustworthy is a bound       *)
(* between two clocks: the entry is at least as old as its tab's silence,  *)
(* because a handler writes the entry only while its client is being       *)
(* heard.  In the tab it is what the last event of each kind on its way    *)
(* will say (TabInv), in the timeline that ids and client keys name the    *)
(* same message wherever they are: in the list, in pages, in events, in    *)
(* frames and in what a removal would restore (TimeInv).                   *)
(***************************************************************************)
EXTENDS DirectInbox, MCRoom, Integers, FiniteSetTheorems, SequenceTheorems,
        WellFoundedInduction, TLAPS

(* A handler runs for a connected tab that has just been heard.            *)
HandlersAreFresh ==
  \A t \in Tabs : handling[t] # NoWork => tab[t] # "closed" /\ silent[t] = 0

(* The tab that owns the active entry has not been silent for longer than  *)
(* the entry is old.                                                       *)
SilenceIsBounded == active # Inactive => silent[active.tab] <= age

(* Before a crash it is connected.                                        *)
OwnerIsConnected == ~crashed /\ active # Inactive => tab[active.tab] # "closed"

IInv == /\ TypeOK /\ HandlersAreFresh /\ SilenceIsBounded /\ OwnerIsConnected
        /\ UnreadIsExact

-----------------------------------------------------------------------------
\* What stands for nothing is none of the rooms, tabs and pieces of work.
LEMMA Distinct ==
  /\ \A r, t : t \in Tabs => [room |-> r, tab |-> t] # Inactive
  /\ NoWork \notin Work
  /\ \A a \in [room : Rooms, tab : Tabs] : a # Inactive /\ a.tab \in Tabs
  /\ Inactive.tab \notin Tabs /\ Inactive.room \notin Rooms
  /\ Longest \in Nat /\ ActiveTTL - 1 \in Nat
  /\ NoRequest.room \notin Rooms
<1>1. NoRoom \notin Rooms /\ NoTab \notin Tabs
  BY InboxAssumption
<1>2. /\ \A r, t : t \in Tabs => [room |-> r, tab |-> t] # Inactive
      /\ \A a \in [room : Rooms, tab : Tabs] : a # Inactive /\ a.tab \in Tabs
      /\ Inactive.tab \notin Tabs /\ Inactive.room \notin Rooms
  BY <1>1 DEF Inactive
<1>3. NoWork \notin Work
  BY DEF NoWork, Work
<1>4. Longest \in Nat /\ ActiveTTL - 1 \in Nat
  BY InboxAssumption DEF Longest
<1>5. NoRequest.room \notin Rooms
  BY <1>1 DEF NoRequest
<1> QED BY <1>2, <1>3, <1>4, <1>5

\* The inductive invariant of DirectInbox holds when nobody is connected.
LEMMA InitIInv == Init => IInv
<1> SUFFICES ASSUME Init PROVE IInv OBVIOUS
<1>1. TypeOK
  <2>1. counts \in [Rooms -> 0..MaxUnread] /\ since \in [Rooms -> 0..MaxUnread]
    BY InboxAssumption DEF Init
  <2>2. age \in 0..(ActiveTTL - 1) /\ silent \in [Tabs -> 0..Longest]
    BY InboxAssumption, Distinct DEF Init
  <2> QED BY <2>1, <2>2 DEF Init, TypeOK
<1>2. HandlersAreFresh /\ SilenceIsBounded /\ OwnerIsConnected /\ UnreadIsExact
  BY DEF Init, HandlersAreFresh, SilenceIsBounded, OwnerIsConnected, UnreadIsExact
<1> QED BY <1>1, <1>2 DEF IInv

(* The work a handler step finishes is one of Work, for a connected tab.   *)
LEMMA AtWork ==
  ASSUME TypeOK, HandlersAreFresh, NEW t \in Tabs, NEW op, Handled(t, op),
         op # "none"
  PROVE  /\ handling[t] \in Work /\ tab[t] # "closed" /\ silent[t] = 0
         /\ op \in {"set_active", "mark_read"} => handling[t].room \in Rooms
         /\ handling' \in [Tabs -> Work \union {NoWork}]
         /\ HandlersAreFresh'
<1>1. handling[t] # NoWork
  BY DEF Handled, NoWork
<1>2. handling[t] \in Work
  BY <1>1 DEF TypeOK
<1>3. op \in {"set_active", "mark_read"} => handling[t].room \in Rooms
  BY <1>2 DEF Work, Handled
<1>4. handling' \in [Tabs -> Work \union {NoWork}]
  BY DEF Handled, TypeOK
<1>5. HandlersAreFresh'
  BY DEF Handled, HandlersAreFresh, TypeOK
<1> QED BY <1>1, <1>2, <1>3, <1>4, <1>5 DEF HandlersAreFresh

\* Every step keeps the types.
LEMMA TypeStep == TypeOK /\ HandlersAreFresh /\ [Next]_vars => TypeOK'
<1> SUFFICES ASSUME TypeOK, HandlersAreFresh, [Next]_vars PROVE TypeOK' OBVIOUS
<1> USE DEF TypeOK, inboxVars, socketVars, faults
<1>1. ASSUME NEW r \in Rooms, DeliverOwn(r) \/ DeliverIncoming(r)
      PROVE  TypeOK'
  BY <1>1, InboxAssumption DEF DeliverOwn, DeliverIncoming, MarkRead, MarkUnread
<1>2. ASSUME NEW t \in Tabs, Connect(t) \/ Hangup(t) \/ IdleWatchdog(t) \/ Disconnect(t)
      PROVE  TypeOK'
  BY <1>2, InboxAssumption, Distinct
  DEF Connect, Hangup, IdleWatchdog, Disconnect, ClearActive
<1>3. ASSUME NEW t \in Tabs, NEW work \in Work, Receive(t, work) PROVE TypeOK'
  BY <1>3, Distinct DEF Receive
<1>4. ASSUME NEW t \in Tabs, HandlePing(t) \/ HandleClear(t) PROVE TypeOK'
  <2>1. \E op \in {"ping", "clear"} : Handled(t, op)
    BY <1>4 DEF HandlePing, HandleClear
  <2>2. handling' \in [Tabs -> Work \union {NoWork}]
    BY <2>1, AtWork
  <2> QED BY <1>4, <2>2, Distinct DEF HandlePing, HandleClear, Handled, ClearActive
<1>5. ASSUME NEW t \in Tabs, HandleSetActive(t) PROVE TypeOK'
  <2>1. handling' \in [Tabs -> Work \union {NoWork}] /\ handling[t].room \in Rooms
    BY <1>5, AtWork DEF HandleSetActive
  <2> QED BY <1>5, <2>1, Distinct DEF HandleSetActive, Handled
<1>6. ASSUME NEW t \in Tabs, HandleMarkRead(t) PROVE TypeOK'
  <2>1. handling' \in [Tabs -> Work \union {NoWork}] /\ handling[t].room \in Rooms
    BY <1>6, AtWork DEF HandleMarkRead
  <2> QED BY <1>6, <2>1, InboxAssumption DEF HandleMarkRead, Handled, MarkRead
<1>7. ASSUME NEW t \in Tabs, Refuse(t) PROVE TypeOK'
  <2>1. PICK op \in {"set_active", "mark_read"} : Handled(t, op)
    BY <1>7 DEF Refuse
  <2>2. handling' \in [Tabs -> Work \union {NoWork}]
    BY <2>1, AtWork
  <2> QED BY <1>7, <2>1, <2>2 DEF Refuse, Handled
<1>8. ASSUME NEW w \in HttpWorkers, NEW r \in Rooms, HttpRead(w, r) PROVE TypeOK'
  BY <1>8 DEF HttpRead
<1>9. ASSUME NEW w \in HttpWorkers, HttpWrite(w) PROVE TypeOK'
  <2>1. http[w] \in [room : Rooms, read : [Rooms -> 0..MaxUnread]]
    BY <1>9 DEF HttpWrite
  <2> QED BY <1>9, <2>1, InboxAssumption DEF HttpWrite
<1>10. CASE Tick
  <2>1. silent' \in [Tabs -> 0..Longest]
    BY <1>10, Distinct DEF Tick, Older
  <2>2. age' \in 0..(ActiveTTL - 1)
    BY <1>10, InboxAssumption DEF Tick
  <2>3. active' \in [room : Rooms, tab : Tabs] \union {Inactive}
    BY <1>10 DEF Tick
  <2> QED BY <1>10, <2>1, <2>2, <2>3 DEF Tick
<1>11. CASE Crash
  BY <1>11 DEF Crash
<1>12. CASE UNCHANGED vars
  BY <1>12 DEF vars
<1> QED BY <1>1, <1>2, <1>3, <1>4, <1>5, <1>6, <1>7, <1>8, <1>9, <1>10, <1>11, <1>12
        DEF Next

\* Every step keeps the tabs that are being handled heard and connected.
LEMMA FreshStep == TypeOK /\ HandlersAreFresh /\ [Next]_vars => HandlersAreFresh'
<1> SUFFICES ASSUME TypeOK, HandlersAreFresh, [Next]_vars PROVE HandlersAreFresh'
  OBVIOUS
<1>1. ASSUME NEW t \in Tabs, NEW op, Handled(t, op), op # "none"
      PROVE  HandlersAreFresh'
  BY <1>1, AtWork
<1>2. ASSUME NEW t \in Tabs,
             \/ HandlePing(t) \/ HandleClear(t) \/ HandleSetActive(t)
             \/ HandleMarkRead(t) \/ Refuse(t)
      PROVE  HandlersAreFresh'
  BY <1>1, <1>2
  DEF HandlePing, HandleClear, HandleSetActive, HandleMarkRead, Refuse
<1>3. ASSUME NEW t \in Tabs,
             \/ Connect(t) \/ Hangup(t) \/ IdleWatchdog(t) \/ Disconnect(t)
             \/ \E work \in Work : Receive(t, work)
      PROVE  HandlersAreFresh'
  BY <1>3 DEF Connect, Hangup, IdleWatchdog, Disconnect, Receive,
              HandlersAreFresh, TypeOK
<1>4. CASE Tick \/ Crash
  BY <1>4 DEF Tick, Crash, HandlersAreFresh
<1>5. ASSUME UNCHANGED socketVars PROVE HandlersAreFresh'
  BY <1>5 DEF socketVars, HandlersAreFresh
<1> QED BY <1>2, <1>3, <1>4, <1>5
        DEF Next, vars, DeliverOwn, DeliverIncoming, HttpRead, HttpWrite

(* Every step keeps the bound between the clocks and, until a crash, the   *)
(* owner connected.                                                        *)
LEMMA OwnerStep ==
  TypeOK /\ TypeOK' /\ HandlersAreFresh /\ SilenceIsBounded /\ OwnerIsConnected
    /\ [Next]_vars => SilenceIsBounded' /\ OwnerIsConnected'
<1> SUFFICES ASSUME TypeOK, TypeOK', HandlersAreFresh, SilenceIsBounded,
                    OwnerIsConnected, [Next]_vars
             PROVE  SilenceIsBounded' /\ OwnerIsConnected'
  OBVIOUS
<1> USE DEF SilenceIsBounded, OwnerIsConnected, faults
<1>0. active # Inactive => active.tab \in Tabs
  BY Distinct DEF TypeOK
<1>1. ASSUME NEW t \in Tabs, HandleSetActive(t)
      PROVE  SilenceIsBounded' /\ OwnerIsConnected'
  <2>1. tab[t] # "closed" /\ silent[t] = 0
    BY <1>1, AtWork DEF HandleSetActive
  <2>2. /\ active'.tab = t /\ age' = 0 /\ tab' = tab /\ silent' = silent
        /\ crashed' = crashed
    BY <1>1 DEF HandleSetActive, Handled
  <2> QED BY <2>1, <2>2
<1>2. ASSUME NEW t \in Tabs, HandlePing(t)
      PROVE  SilenceIsBounded' /\ OwnerIsConnected'
  <2>1. tab[t] # "closed" /\ silent[t] = 0
    BY <1>2, AtWork DEF HandlePing
  <2>2. /\ active' = active /\ tab' = tab /\ silent' = silent /\ crashed' = crashed
        /\ age' = IF Owns(t) THEN 0 ELSE age
    BY <1>2 DEF HandlePing, Handled
  <2> QED BY <2>1, <2>2 DEF Owns
<1>3. ASSUME NEW t \in Tabs, HandleClear(t)
      PROVE  SilenceIsBounded' /\ OwnerIsConnected'
  BY <1>3 DEF HandleClear, Handled, ClearActive
<1>4. ASSUME NEW t \in Tabs, HandleMarkRead(t) \/ Refuse(t)
      PROVE  SilenceIsBounded' /\ OwnerIsConnected'
  BY <1>4 DEF HandleMarkRead, Refuse, Handled, inboxVars
<1>5. ASSUME NEW t \in Tabs, Connect(t)
      PROVE  SilenceIsBounded' /\ OwnerIsConnected'
  <2>1. /\ active.tab # t /\ active' = active /\ age' = age /\ crashed' = crashed
        /\ silent' = [silent EXCEPT ![t] = 0] /\ tab' = [tab EXCEPT ![t] = "open"]
    BY <1>5 DEF Connect, Owns, inboxVars
  <2> QED BY <1>0, <2>1 DEF TypeOK
<1>6. ASSUME NEW t \in Tabs, Hangup(t) \/ IdleWatchdog(t)
      PROVE  SilenceIsBounded' /\ OwnerIsConnected'
  BY <1>0, <1>6 DEF Hangup, IdleWatchdog, inboxVars, TypeOK
<1>7. ASSUME NEW t \in Tabs, Disconnect(t)
      PROVE  SilenceIsBounded' /\ OwnerIsConnected'
  <2>1. CASE Owns(t)
    <3>1. active' = Inactive
      BY <1>7, <2>1 DEF Disconnect, ClearActive
    <3> QED BY <3>1
  <2>2. CASE ~Owns(t)
    <3>1. /\ active' = active /\ age' = age /\ silent' = silent /\ crashed' = crashed
          /\ tab' = [tab EXCEPT ![t] = "closed"] /\ active.tab # t
      BY <1>7, <2>2 DEF Disconnect, ClearActive, Owns
    <3> QED BY <1>0, <3>1 DEF TypeOK
  <2> QED BY <2>1, <2>2
<1>8. ASSUME NEW t \in Tabs, NEW work \in Work, Receive(t, work)
      PROVE  SilenceIsBounded' /\ OwnerIsConnected'
  BY <1>0, <1>8 DEF Receive, inboxVars, TypeOK
<1>9. CASE Tick
  <2>1. CASE active' = Inactive
    BY <2>1
  <2>2. CASE active' # Inactive
    <3>1. /\ active # Inactive /\ active' = active /\ age' = age + 1 /\ tab' = tab
          /\ crashed' = crashed
      BY <1>9, <2>2 DEF Tick
    <3>2. silent'[active.tab] <= silent[active.tab] + 1
      BY <1>0, <1>9, <3>1, Distinct DEF Tick, Older, TypeOK
    <3>3. /\ silent[active.tab] \in Nat /\ silent'[active.tab] \in Nat /\ age \in Nat
          /\ silent[active.tab] <= age
      BY <1>0, <3>1, Distinct, InboxAssumption DEF TypeOK
    <3>4. silent'[active.tab] <= age + 1
      BY <3>2, <3>3
    <3> QED BY <3>1, <3>4
  <2> QED BY <2>1, <2>2
<1>10. CASE Crash
  BY <1>10 DEF Crash, inboxVars
<1>11. ASSUME UNCHANGED <<active, age, socketVars, crashed>>
       PROVE  SilenceIsBounded' /\ OwnerIsConnected'
  BY <1>11 DEF socketVars
<1> QED BY <1>1, <1>2, <1>3, <1>4, <1>5, <1>6, <1>7, <1>8, <1>9, <1>10, <1>11
        DEF Next, vars, inboxVars, faults, DeliverOwn, DeliverIncoming, HttpRead, HttpWrite

(* A request that finds the counts it has read unchanged writes what       *)
(* MarkRead would.                                                         *)
LEMMA ExactStep == TypeOK /\ UnreadIsExact /\ [Next]_vars => UnreadIsExact'
<1> SUFFICES ASSUME TypeOK, UnreadIsExact, ~raced', [Next]_vars
             PROVE  counts' = since'
  BY DEF UnreadIsExact
<1> USE DEF TypeOK
<1>0. ~raced /\ counts = since
  <2>1. ASSUME NEW w \in HttpWorkers, HttpWrite(w) PROVE ~raced
    BY <2>1 DEF HttpWrite
  <2>2. ASSUME UNCHANGED raced PROVE ~raced
    BY <2>2
  <2>3. ~raced
    BY <2>1, <2>2
    DEF Next, vars, faults, DeliverOwn, DeliverIncoming, Connect, Hangup,
        IdleWatchdog, Disconnect, Receive, Handled, HandlePing, HandleClear,
        HandleSetActive, HandleMarkRead, Refuse, HttpRead, Tick, Crash
  <2> QED BY <2>3 DEF UnreadIsExact
<1>1. ASSUME NEW r, MarkRead(r) \/ MarkUnread(r) PROVE counts' = since'
  BY <1>0, <1>1 DEF MarkRead, MarkUnread
<1>2. ASSUME UNCHANGED <<counts, since>> PROVE counts' = since'
  BY <1>0, <1>2
<1>3. ASSUME NEW w \in HttpWorkers, HttpWrite(w) PROVE counts' = since'
  BY <1>0, <1>3 DEF HttpWrite
<1> QED BY <1>1, <1>2, <1>3
    DEF Next, vars, inboxVars, DeliverOwn, DeliverIncoming, Connect, Hangup,
        IdleWatchdog, Disconnect, Receive, HandlePing, HandleClear,
        HandleSetActive, HandleMarkRead, Refuse, HttpRead, Tick, Crash

\* The inductive invariant of DirectInbox holds.
THEOREM Invariance == Spec => []IInv
<1>1. Init => IInv
  BY InitIInv
<1>2. IInv /\ [Next]_vars => IInv'
  BY TypeStep, FreshStep, OwnerStep, ExactStep DEF IInv
<1> QED BY <1>1, <1>2, PTL DEF Spec

-----------------------------------------------------------------------------
(* Types: TypeOK is part of the inductive invariant.                       *)
THEOREM TypeCorrect == Spec => []TypeOK
<1>1. IInv => TypeOK
  BY DEF IInv
<1> QED BY <1>1, Invariance, PTL

(* direct_inbox/state.py: until a request's write races another one's, the *)
(* unread counts are exact.                                                *)
THEOREM BadgesAreExact == Spec => []UnreadIsExact
<1>1. IInv => UnreadIsExact
  BY DEF IInv
<1> QED BY <1>1, Invariance, PTL

(* direct_inbox/consumers.py: a handler that awaits the database never     *)
(* activates a room for a tab that is gone.                                *)
THEOREM ActiveTabIsThere == Spec => []ActiveBelongsToOpenTab
<1>1. IInv => ActiveBelongsToOpenTab
  BY DEF IInv, OwnerIsConnected, ActiveBelongsToOpenTab
<1> QED BY <1>1, Invariance, PTL

(* direct_inbox/state.py, touch_active_room: nobody but its own tab keeps  *)
(* an active entry alive, so it never outlives the tab's silence by a TTL. *)
THEOREM SilenceEndsActivity == Spec => []SilentTabHoldsNothing
<1>1. IInv => SilentTabHoldsNothing
  <2> SUFFICES ASSUME IInv, active # Inactive
               PROVE  silent[active.tab] < ActiveTTL
    BY DEF SilentTabHoldsNothing
  <2>1. silent[active.tab] <= age /\ age \in 0..(ActiveTTL - 1)
    BY DEF IInv, SilenceIsBounded, TypeOK
  <2>2. silent[active.tab] \in 0..Longest
    BY Distinct DEF IInv, TypeOK
  <2> QED BY <2>1, <2>2, Distinct, InboxAssumption
<1> QED BY <1>1, Invariance, PTL

(* The badge and the active room of a user are right together.             *)
THEOREM InboxIsSound == Spec => []InboxHolds
  BY BadgesAreExact, ActiveTabIsThere, SilenceEndsActivity, PTL DEF InboxHolds

(* direct_inbox/state.py, clear_active_room: a tab that leaves its room or *)
(* disconnects takes only its own entry away.                              *)
THEOREM OthersKeepTheirRoom == Spec => LeavingKeepsOthersRoom
<1> DEFINE Kept == \A t \in Tabs :
             active.tab = t /\ active' = Inactive =>
               \/ handling[t].op = "clear" /\ handling'[t] = NoWork
               \/ tab[t] = "closing" /\ tab'[t] = "closed"
               \/ silent' # silent
<1>1. IInv /\ [Next]_vars => [Kept]_vars
  <2> SUFFICES ASSUME IInv, Next, NEW t \in Tabs, active.tab = t, active' = Inactive
               PROVE  \/ handling[t].op = "clear" /\ handling'[t] = NoWork
                      \/ tab[t] = "closing" /\ tab'[t] = "closed"
                      \/ silent' # silent
    OBVIOUS
  <2>1. active' # active
    BY Distinct
  <2>2. CASE Tick
    <3>1. active # Inactive /\ silent[t] <= age
      BY <2>1 DEF IInv, SilenceIsBounded
    <3>2. silent[t] \in 0..Longest /\ age \in 0..(ActiveTTL - 1) /\ ActiveTTL <= Longest
      BY InboxAssumption DEF IInv, TypeOK, Longest
    <3>3. silent[t] < Longest /\ silent[t] \in Nat
      BY <3>1, <3>2, Distinct, InboxAssumption
    <3>4. silent'[t] = silent[t] + 1
      BY <2>2, <3>3 DEF Tick, Older
    <3>5. silent'[t] # silent[t]
      BY <3>3, <3>4
    <3> QED BY <3>5
  <2>3. ASSUME NEW u \in Tabs, HandleClear(u)
        PROVE  handling[t].op = "clear" /\ handling'[t] = NoWork
    <3>1. u = t
      BY <2>1, <2>3 DEF HandleClear, ClearActive, Owns
    <3> QED BY <2>3, <3>1 DEF HandleClear, Handled, IInv, TypeOK
  <2>4. ASSUME NEW u \in Tabs, Disconnect(u)
        PROVE  tab[t] = "closing" /\ tab'[t] = "closed"
    <3>1. u = t
      BY <2>1, <2>4 DEF Disconnect, ClearActive, Owns
    <3> QED BY <2>4, <3>1 DEF Disconnect, IInv, TypeOK
  <2>5. ASSUME NEW u \in Tabs, HandleSetActive(u) PROVE FALSE
    BY <2>5, Distinct DEF HandleSetActive
  <2> QED BY <2>1, <2>2, <2>3, <2>4, <2>5
      DEF Next, vars, inboxVars, faults, DeliverOwn, DeliverIncoming, Connect, Hangup,
          IdleWatchdog, Receive, HandlePing, HandleMarkRead, Refuse, HttpRead,
          HttpWrite, Crash
<1> QED BY <1>1, Invariance, PTL DEF Spec, LeavingKeepsOthersRoom

-----------------------------------------------------------------------------
(* The badges of the conversation list                                      *)

Shown == [Dialogs -> 0..now]
Marked == Dialogs \cup {"none"}

\* An entry that no page of a room has taken over.
Unread == [initialized : {FALSE}, server : {0}, local : {0}, first : {0}, unread : {0},
           loadedUnread : {0}, divider : {0}, pending : {0}, authoritative : Nat \cup {-1}]

Item == [room : Dialogs, time : 0..now]
Event == [kind : {"state"}, state : Shown] \cup [kind : {"item"}, state : Shown, item : Item]
            \cup [kind : {"ack"}, state : Shown, room : Dialogs]
            \cup [kind : {"rooms"}, state : [Inbox!Rooms -> 0..now]]
Command == [kind : {"mark_read"}, room : Dialogs] \cup [kind : {"set_active_room"}, room : Marked]

ServerTypes ==
  /\ now \in 0..MaxTime /\ last \in [Inbox!Rooms -> 0..now] /\ cached \in Shown
  /\ stored \in [Inbox!Rooms -> 0..now] /\ opened \in Marked /\ connected \in BOOLEAN
  /\ events \in Seq(Event) /\ commands \in Seq(Command)
  /\ ~connected => commands = <<>>

TabTypes ==
  /\ items \in Shown /\ counted \in Shown /\ hidden \in [Dialogs -> 0..(now + Skew)]
  /\ latest \in [known : BOOLEAN, state : Shown] /\ roomCounts \in [Inbox!Rooms -> 0..now]
  /\ entries \in [Inbox!Rooms -> Unread] /\ groups \subseteq Groups
  /\ request \in [stage : {"none", "sent", "answered"}, items : Shown]
  /\ effects \subseteq {"reapply", "rooms"} /\ activeRef \in Marked /\ marks \in Nat

Badged(r) == entries[r].authoritative

\* The last event of the kinds tells the truth, or what is known is.
LastIs(queue, kinds, known, truth) ==
  /\ \A i \in DOMAIN queue :
       /\ queue[i].kind \in kinds
       /\ \A j \in DOMAIN queue : j > i => queue[j].kind \notin kinds
       => queue[i].state = truth
  /\ (\A j \in DOMAIN queue : queue[j].kind \notin kinds) => known = truth

\* What the tab will know once the events on their way are handled: the server's counts.
DialogKinds == {"state", "item", "ack"}
DialogsTold == connected => LastIs(events, DialogKinds, latest.state, cached)
RoomsTold == connected => LastIs(events, {"rooms"}, roomCounts, stored)

\* A badge is of one of the snapshots known, unless the dialog is not listed; a badge that
\* is taken away is none in one of them, or hidden by a read of what is listed.
SnapshotsHold ==
  /\ \A r \in Groups : Badged(r) > 0 => roomCounts[r] > 0
  /\ \A r \in Dialogs :
       /\ Badged(r) > 0 => \/ roomCounts[r] > 0 \/ latest.state[r] > 0
                           \/ items[r] = 0 \/ "reapply" \in effects
       /\ Badged(r) = 0 => \/ roomCounts[r] = 0 \/ latest.state[r] = 0
                           \/ items[r] <= hidden[r] \/ "reapply" \in effects
       /\ counted[r] \in {0, latest.state[r]}
       /\ ~latest.known => latest.state[r] = 0 /\ (Badged(r) > 0 => roomCounts[r] > 0)

TabInv == ServerTypes /\ TabTypes /\ DialogsTold /\ RoomsTold /\ SnapshotsHold

\* What the assumptions say of the rooms and bounds of the tab.
LEMMA TabConstants ==
  /\ Dialogs \cap Groups = {} /\ "none" \notin Dialogs /\ Skew \in Nat /\ MaxTime \in Nat
  /\ MaxEvents \in Nat /\ Inbox!Rooms = Dialogs \cup Groups
  /\ Inbox!EmptyEntry \in Unread /\ Inbox!EmptyEntry.authoritative = -1
  /\ Inbox!NoCount = -1
BY InboxConstants DEF Inbox!InboxAssumption, Inbox!Rooms, Inbox!EmptyEntry, Inbox!NoCount, Unread

\* The tab starts with nothing, and so does its user's account.
LEMMA TabInit == ASSUME Inbox!Init PROVE TabInv
<1> USE TabConstants DEF Inbox!Init, Inbox!None
<1>1. ServerTypes
  <2>1. 0 \in 0..MaxTime /\ 0 \in 0..now
    BY DEF Inbox!Init
  <2>2. <<>> \in Seq(Event) /\ <<>> \in Seq(Command)
    OBVIOUS
  <2> QED BY <2>1, <2>2 DEF ServerTypes, Shown, Marked
<1>2. TabTypes
  BY DEF TabTypes, Shown, Marked
<1>3. DialogsTold /\ RoomsTold
  BY DEF DialogsTold, RoomsTold, LastIs
<1>4. SnapshotsHold
  BY DEF SnapshotsHold, Badged
<1> QED BY <1>1, <1>2, <1>3, <1>4 DEF TabInv

\* What a snapshot does to an entry, and a read.
LEMMA EntryMoves ==
  ASSUME NEW e \in Unread, NEW n \in Nat
  PROVE  /\ Inbox!ApplyServerSnapshot(e, n) \in Unread
         /\ Inbox!ApplyServerSnapshot(e, n).authoritative = n
         /\ Inbox!MarkRoomFullyRead(e) \in Unread
         /\ Inbox!MarkRoomFullyRead(e).authoritative = 0
BY DEF Unread, Inbox!ApplyServerSnapshot, Inbox!MarkRoomFullyRead

\* A snapshot speaks for the rooms of its scope and for those it counts.
LEMMA SnapshotIs ==
  ASSUME TabTypes, NEW D \in SUBSET Inbox!Rooms, NEW scope, NEW snapshot \in [D -> Nat]
  PROVE  /\ Inbox!ApplySnapshot(scope, snapshot) \in [Inbox!Rooms -> Unread]
         /\ \A r \in Inbox!Rooms :
              IF r \in scope \/ (r \in D /\ snapshot[r] > 0)
              THEN Inbox!ApplySnapshot(scope, snapshot)[r].authoritative =
                     IF r \in D THEN snapshot[r] ELSE 0
              ELSE Inbox!ApplySnapshot(scope, snapshot)[r] = entries[r]
<1> DEFINE count(r) == IF r \in DOMAIN snapshot THEN snapshot[r] ELSE 0
           new(r) == IF r \in scope \/ count(r) > 0
                     THEN Inbox!ApplyServerSnapshot(entries[r], count(r)) ELSE entries[r]
<1>1. Inbox!ApplySnapshot(scope, snapshot) = [r \in Inbox!Rooms |-> new(r)]
  BY DEF Inbox!ApplySnapshot
<1>2. ASSUME NEW r \in Inbox!Rooms
      PROVE  /\ new(r) \in Unread
             /\ IF r \in scope \/ count(r) > 0 THEN new(r).authoritative = count(r)
                ELSE new(r) = entries[r]
  <2>1. count(r) \in Nat /\ entries[r] \in Unread
    BY DEF TabTypes
  <2> QED BY <2>1, EntryMoves
<1>3. \A r \in Inbox!Rooms : /\ count(r) > 0 <=> r \in D /\ snapshot[r] > 0
                            /\ count(r) = IF r \in D THEN snapshot[r] ELSE 0
  OBVIOUS
<1> HIDE DEF new, count
<1> QED BY <1>1, <1>2, <1>3

\* What the tab knows of a room once a snapshot of the dialogs is applied to its list.
LEMMA UnreadStateIs ==
  ASSUME TabTypes, now \in Nat, NEW state \in Shown, NEW item \in Item \cup {Inbox!NoItem}, NEW ack,
         Inbox!ApplyUnreadState(state, item, ack)
  PROVE  /\ latest' = [known |-> TRUE, state |-> state]
         /\ hidden' \in [Dialogs -> 0..(now + Skew)] /\ counted' \in Shown
         /\ entries' \in [Inbox!Rooms -> Unread]
         /\ \A r \in Dialogs : counted'[r] \in {0, state[r]}
         /\ \A r \in Groups : entries'[r] = entries[r]
         /\ \A r \in Dialogs :
              \/ entries'[r].authoritative = state[r]
              \/ /\ entries'[r].authoritative = 0
                 /\ (IF r = item.room THEN item.time ELSE items[r]) <= hidden'[r]
              \/ state[r] = 0 /\ items[r] = 0 /\ entries'[r] = entries[r]
<1> DEFINE marked == [r \in Dialogs |-> IF r = ack THEN 0 ELSE hidden[r]]
           kept == Inbox!StillHidden(state, item, marked)
           badges == [r \in Dialogs |-> IF kept[r] > 0 THEN 0 ELSE state[r]]
           scope == {r \in Dialogs : items[r] > 0 \/ state[r] > 0 \/ kept[r] > 0}
           time(r) == IF r = item.room THEN item.time ELSE items[r]
<1> USE TabConstants
<1>1. /\ latest' = [known |-> TRUE, state |-> state]
      /\ hidden' = kept /\ counted' = badges /\ entries' = Inbox!ApplySnapshot(scope, badges)
  BY DEF Inbox!ApplyUnreadState
<1>2. /\ marked \in [Dialogs -> 0..(now + Skew)] /\ \A r \in Dialogs : state[r] \in 0..now
      /\ \A r \in Dialogs : time(r) \in Nat
  <2>1. marked \in [Dialogs -> 0..(now + Skew)]
    BY DEF TabTypes
  <2>2. \A r \in Dialogs : state[r] \in 0..now /\ items[r] \in 0..now
    BY DEF TabTypes, Shown
  <2>3. item.time \in 0..now
    BY DEF Item, Inbox!NoItem
  <2> QED BY <2>1, <2>2, <2>3
<1>3. kept = [r \in Dialogs |-> IF time(r) > marked[r] \/ state[r] = 0 THEN 0 ELSE marked[r]]
  BY DEF Inbox!StillHidden, Inbox!Fresh
<1>4. kept \in [Dialogs -> 0..(now + Skew)] /\ \A r \in Dialogs : kept[r] > 0 => time(r) <= kept[r]
  <2> HIDE DEF marked, time, kept
  <2> QED BY <1>2, <1>3
<1> HIDE DEF kept, marked
<1>5. badges \in Shown /\ \A r \in Dialogs : badges[r] = IF kept[r] > 0 THEN 0 ELSE state[r]
  BY <1>2 DEF Shown
<1>6. scope \subseteq Dialogs
  OBVIOUS
<1>7. badges \in [Dialogs -> Nat] /\ Dialogs \in SUBSET Inbox!Rooms
  BY <1>5 DEF Shown
<1>8. /\ entries' \in [Inbox!Rooms -> Unread]
      /\ \A r \in Inbox!Rooms :
           IF r \in scope \/ (r \in Dialogs /\ badges[r] > 0)
           THEN entries'[r].authoritative = IF r \in Dialogs THEN badges[r] ELSE 0
           ELSE entries'[r] = entries[r]
  <2> HIDE DEF badges, scope
  <2>1. /\ Inbox!ApplySnapshot(scope, badges) \in [Inbox!Rooms -> Unread]
        /\ \A r \in Inbox!Rooms :
             IF r \in scope \/ (r \in Dialogs /\ badges[r] > 0)
             THEN Inbox!ApplySnapshot(scope, badges)[r].authoritative =
                    IF r \in Dialogs THEN badges[r] ELSE 0
             ELSE Inbox!ApplySnapshot(scope, badges)[r] = entries[r]
    BY ONLY TabTypes, <1>7, SnapshotIs
  <2> QED BY <1>1, <2>1
<1>9. ASSUME NEW r \in Dialogs
      PROVE  \/ entries'[r].authoritative = state[r]
             \/ entries'[r].authoritative = 0 /\ time(r) <= kept[r]
             \/ state[r] = 0 /\ items[r] = 0 /\ entries'[r] = entries[r]
  <2>1. items[r] \in Nat /\ state[r] \in Nat /\ kept[r] \in Nat
    BY <1>2, <1>4 DEF TabTypes, Shown
  <2>2. CASE r \in scope
    <3>1. entries'[r].authoritative = badges[r]
      BY <1>8, <2>2
    <3> QED BY <1>4, <1>5, <2>1, <3>1
  <2>3. CASE r \notin scope
    <3>1. items[r] = 0 /\ state[r] = 0 /\ kept[r] = 0
      BY <2>1, <2>3
    <3>2. ~(badges[r] > 0)
      BY <1>5, <3>1
    <3> QED BY <1>8, <2>3, <3>1, <3>2
  <2> QED BY <2>2, <2>3
<1>10. \A r \in Groups : entries'[r] = entries[r]
  BY <1>6, <1>8
<1>11. \A r \in Dialogs : badges[r] \in {0, state[r]}
  BY <1>5
<1> HIDE DEF badges
<1> QED BY <1>1, <1>4, <1>5, <1>8, <1>9, <1>10, <1>11

\* So the badges are of the snapshots known, or hidden by a read.
LEMMA UnreadStateHolds ==
  ASSUME TabTypes, SnapshotsHold, now \in Nat, NEW state \in Shown, NEW item \in Item \cup {Inbox!NoItem},
         NEW ack, Inbox!ApplyUnreadState(state, item, ack), UNCHANGED roomCounts, items' \in Shown,
         \/ "reapply" \in effects'
         \/ items' = items /\ item = Inbox!NoItem
  PROVE  SnapshotsHold'
<1> USE TabConstants
<1>1. /\ latest' = [known |-> TRUE, state |-> state]
      /\ entries' \in [Inbox!Rooms -> Unread]
      /\ \A r \in Dialogs : counted'[r] \in {0, state[r]}
      /\ \A r \in Groups : entries'[r] = entries[r]
  BY UnreadStateIs
<1>2. \A r \in Groups : Badged(r)' > 0 => roomCounts'[r] > 0
  BY <1>1 DEF SnapshotsHold, Badged
<1>3. ASSUME NEW r \in Dialogs, "reapply" \notin effects'
      PROVE  /\ Badged(r)' > 0 => roomCounts'[r] > 0 \/ state[r] > 0 \/ items'[r] = 0
             /\ Badged(r)' = 0 => roomCounts'[r] = 0 \/ state[r] = 0 \/ items'[r] <= hidden'[r]
  <2>1. items' = items /\ item.room = "none"
    BY <1>3 DEF Inbox!NoItem
  <2>2. \/ Badged(r)' = state[r]
        \/ Badged(r)' = 0 /\ items'[r] <= hidden'[r]
        \/ state[r] = 0 /\ items'[r] = 0
    BY <2>1, UnreadStateIs DEF Badged
  <2>3. state[r] \in Nat
    BY DEF Shown
  <2> QED BY <2>2, <2>3
<1> QED BY <1>1, <1>2, <1>3 DEF SnapshotsHold

\* What is known stays true as events are handled and sent.
LEMMA LastHandled ==
  ASSUME NEW S, NEW queue \in Seq(S), queue # <<>>, NEW kinds, NEW known, NEW truth,
         LastIs(queue, kinds, known, truth)
  PROVE  LastIs(Tail(queue), kinds, IF Head(queue).kind \in kinds THEN Head(queue).state ELSE known, truth)
<1>1. /\ Len(queue) \in Nat /\ Len(queue) > 0 /\ DOMAIN queue = 1..Len(queue)
      /\ DOMAIN Tail(queue) = 1..(Len(queue) - 1) /\ Head(queue) = queue[1]
      /\ \A i \in 1..(Len(queue) - 1) : Tail(queue)[i] = queue[i + 1]
  BY HeadTailProperties, LenProperties, EmptySeq
<1>2. ASSUME NEW i \in DOMAIN Tail(queue), Tail(queue)[i].kind \in kinds,
             \A j \in DOMAIN Tail(queue) : j > i => Tail(queue)[j].kind \notin kinds
      PROVE  Tail(queue)[i].state = truth
  <2>1. i + 1 \in DOMAIN queue /\ queue[i + 1].kind \in kinds
    BY <1>1, <1>2
  <2>2. ASSUME NEW j \in DOMAIN queue, j > i + 1 PROVE queue[j].kind \notin kinds
    <3>1. j - 1 \in DOMAIN Tail(queue) /\ j - 1 > i /\ (j - 1) + 1 = j
      BY <1>1, <2>2
    <3>2. Tail(queue)[j - 1] = queue[(j - 1) + 1] /\ Tail(queue)[j - 1].kind \notin kinds
      BY <1>1, <1>2, <3>1
    <3> QED BY <3>1, <3>2
  <2> QED BY <1>1, <2>1, <2>2 DEF LastIs
<1>3. ASSUME \A j \in DOMAIN Tail(queue) : Tail(queue)[j].kind \notin kinds
      PROVE  (IF Head(queue).kind \in kinds THEN Head(queue).state ELSE known) = truth
  <2>1. ASSUME NEW j \in DOMAIN queue, j > 1 PROVE queue[j].kind \notin kinds
    <3>1. j - 1 \in DOMAIN Tail(queue) /\ (j - 1) + 1 = j
      BY <1>1, <2>1
    <3> QED BY <1>1, <1>3, <3>1
  <2> QED BY <1>1, <2>1 DEF LastIs
<1> QED BY <1>2, <1>3 DEF LastIs

\* What is sent last of its kind is what will be known.
LEMMA LastSent ==
  ASSUME NEW S, NEW queue \in Seq(S), NEW e, NEW kinds, NEW known, NEW truth, NEW before,
         \/ e.kind \in kinds /\ e.state = truth
         \/ e.kind \notin kinds /\ truth = before /\ LastIs(queue, kinds, known, before)
  PROVE  LastIs(Append(queue, e), kinds, known, truth)
<1> DEFINE next == Append(queue, e)
<1>1. /\ Len(queue) \in Nat /\ DOMAIN queue = 1..Len(queue) /\ DOMAIN next = 1..(Len(queue) + 1)
      /\ next[Len(queue) + 1] = e /\ \A i \in 1..Len(queue) : next[i] = queue[i]
  BY LenProperties
<1> SUFFICES LastIs(next, kinds, known, truth)
  OBVIOUS
<1> HIDE DEF next
<1>2. CASE e.kind \in kinds /\ e.state = truth
  BY <1>1, <1>2 DEF LastIs
<1>3. CASE e.kind \notin kinds /\ truth = before /\ LastIs(queue, kinds, known, before)
  <2>1. \A i \in DOMAIN next :
          /\ next[i].kind \in kinds
          /\ \A j \in DOMAIN next : j > i => next[j].kind \notin kinds
          => next[i].state = truth
    <3> SUFFICES ASSUME NEW i \in DOMAIN next, next[i].kind \in kinds,
                        \A j \in DOMAIN next : j > i => next[j].kind \notin kinds
                 PROVE  next[i].state = truth
      OBVIOUS
    <3>1. i \in DOMAIN queue /\ \A j \in DOMAIN queue : j \in DOMAIN next
      BY <1>1, <1>3
    <3> QED BY <1>1, <1>3, <3>1 DEF LastIs
  <2>2. (\A j \in DOMAIN next : next[j].kind \notin kinds) => known = truth
    BY <1>1, <1>3 DEF LastIs
  <2> QED BY <2>1, <2>2 DEF LastIs
<1> QED BY <1>2, <1>3

\* One or two events pushed are appended one after the other.
LEMMA Pushed ==
  ASSUME NEW S, NEW queue \in Seq(S), NEW a \in S, NEW b \in S
  PROVE  /\ queue \o <<>> = queue /\ queue \o <<b>> = Append(queue, b)
         /\ queue \o (<<>> \o <<b>>) = Append(queue, b)
         /\ queue \o (<<a>> \o <<b>>) = Append(Append(queue, a), b)
         /\ Append(queue, b) \in Seq(S) /\ Append(Append(queue, a), b) \in Seq(S)
<1>1. queue \o <<b>> = Append(queue, b) /\ Append(queue, a) \in Seq(S) /\ Append(queue, b) \in Seq(S)
  BY AppendIsConcat, AppendProperties
<1>2. <<>> \o <<b>> = <<b>> /\ queue \o <<>> = queue
  BY ConcatEmptySeq
<1>3. queue \o (<<a>> \o <<b>>) = (queue \o <<a>>) \o <<b>>
  BY ConcatAssociative
<1>4. queue \o <<a>> = Append(queue, a) /\ Append(queue, a) \o <<b>> = Append(Append(queue, a), b)
  BY <1>1, AppendIsConcat
<1>5. Append(Append(queue, a), b) \in Seq(S)
  BY <1>1, AppendProperties
<1> QED BY <1>1, <1>2, <1>3, <1>4, <1>5

\* Without a new message the types stay.
LEMMA SameTime == ASSUME UNCHANGED now PROVE Shown' = Shown /\ Event' = Event /\ Item' = Item
BY DEF Shown, Event, Item

\* The event handled is of the dialogs or of the rooms.
LEMMA FirstEvent ==
  ASSUME ServerTypes, events # <<>>
  PROVE  /\ Head(events) \in Event /\ Tail(events) \in Seq(Event)
         /\ Head(events).kind = "rooms" <=> Head(events).kind \notin DialogKinds
<1>1. Head(events) \in Event /\ Tail(events) \in Seq(Event)
  BY HeadTailProperties DEF ServerTypes
<1> QED BY <1>1 DEF Event, DialogKinds

\* Time, and events as old as the time: what is said of them still holds later.
LEMMA LaterEvents ==
  ASSUME now \in Nat, now' = now + 1
  PROVE  0..now \subseteq 0..now' /\ Shown \subseteq Shown' /\ Event \subseteq Event'
         /\ Seq(Event) \subseteq Seq(Event')
<1>1. 0..now \subseteq 0..now'
  OBVIOUS
<1>2. Shown \subseteq Shown' /\ [Inbox!Rooms -> 0..now] \subseteq [Inbox!Rooms -> 0..now']
  BY <1>1 DEF Shown
<1>3. Item \subseteq Item'
  BY <1>1 DEF Item
<1>4. Event \subseteq Event'
  BY <1>2, <1>3 DEF Event
<1> QED BY <1>1, <1>2, <1>4, SeqMonotonic

-----------------------------------------------------------------------------
(* The tab's steps                                                          *)

\* The server's part stays when the tab only sends a frame.
LEMMA NothingSent ==
  ASSUME ServerTypes, UNCHANGED <<now, last, cached, stored, opened, events, connected>>,
         commands' = commands \/ \E c \in Command : Inbox!Send(c)
  PROVE  ServerTypes'
<1>0. commands \in Seq(Command) /\ (~connected => commands = <<>>)
  BY DEF ServerTypes
<1>1. commands' \in Seq(Command) /\ (~connected' => commands' = <<>>)
  <2>1. CASE commands' = commands
    BY <1>0, <2>1
  <2>2. ASSUME NEW c \in Command, Inbox!Send(c)
        PROVE  commands' \in Seq(Command) /\ (~connected' => commands' = <<>>)
    <3>1. Append(commands, c) \in Seq(Command)
      BY ONLY <1>0, <2>2, AppendProperties
    <3> QED BY <1>0, <2>2, <3>1 DEF Inbox!Send
  <2> QED BY <2>1, <2>2
<1> QED BY <1>1, SameTime DEF ServerTypes, Marked

\* onmessage of DirectInboxProvider: a snapshot of the dialogs.
LEMMA HandleUnread ==
  ASSUME TabInv, events # <<>>, events' = Tail(events), Head(events).kind \in DialogKinds,
         \/ Inbox!HandleUnreadState(Head(events)) \/ Inbox!HandleItem(Head(events))
         \/ Inbox!HandleAck(Head(events)),
         UNCHANGED <<now, last, cached, stored, opened, commands, connected, groups, request,
                     activeRef, marks>>
  PROVE  TabInv'
<1> DEFINE e == Head(events)
           item == IF e.kind = "item" THEN e.item ELSE Inbox!NoItem
           ack == IF e.kind = "ack" THEN e.room ELSE "none"
<1> USE TabConstants
<1>1. e \in Event /\ Tail(events) \in Seq(Event) /\ e.kind \in DialogKinds /\ e.kind # "rooms"
  BY FirstEvent DEF TabInv, DialogKinds
<1>2. /\ e.state \in Shown /\ item \in Item \cup {Inbox!NoItem}
      /\ e.kind = "item" => item \in Item
  BY <1>1 DEF Event, DialogKinds
<1>3. ServerTypes'
  BY <1>1, SameTime DEF TabInv, ServerTypes, Marked
<1>4. /\ Inbox!ApplyUnreadState(e.state, item, ack) /\ UNCHANGED roomCounts
      /\ \/ items' = items /\ effects' = effects /\ item = Inbox!NoItem
         \/ /\ items' = [items EXCEPT ![item.room] = item.time]
            /\ effects' = effects \cup {"reapply"} /\ item \in Item
  BY <1>1, <1>2 DEF Inbox!HandleUnreadState, Inbox!HandleItem, Inbox!HandleAck, Inbox!ChatListChanges
<1>5. items' \in Shown /\ effects' \subseteq {"reapply", "rooms"}
  BY <1>4 DEF TabInv, TabTypes, Shown, Item
<1>6. now \in Nat /\ TabTypes /\ SnapshotsHold
  BY DEF TabInv, ServerTypes
<1> HIDE DEF e, item, ack
<1>7. /\ latest' = [known |-> TRUE, state |-> e.state]
      /\ hidden' \in [Dialogs -> 0..(now + Skew)] /\ counted' \in Shown
      /\ entries' \in [Inbox!Rooms -> Unread]
  BY <1>2, <1>4, <1>6, UnreadStateIs
<1>8. TabTypes'
  <2>1. latest' \in [known : BOOLEAN, state : Shown]
    BY <1>2, <1>7
  <2> QED BY <1>4, <1>5, <1>6, <1>7, <2>1, SameTime DEF TabTypes, Marked
<1>9. SnapshotsHold'
  <2>1. items' \in Shown /\ ("reapply" \in effects' \/ (items' = items /\ item = Inbox!NoItem))
    BY <1>4, <1>5
  <2> QED BY <1>2, <1>4, <1>6, <2>1, UnreadStateHolds
<1>10. DialogsTold' /\ RoomsTold'
  <2> SUFFICES ASSUME connected
               PROVE  /\ LastIs(Tail(events), DialogKinds, e.state, cached)
                      /\ LastIs(Tail(events), {"rooms"}, roomCounts, stored)
    BY <1>4, <1>7 DEF DialogsTold, RoomsTold
  <2>1. LastIs(events, DialogKinds, latest.state, cached) /\ LastIs(events, {"rooms"}, roomCounts, stored)
    BY DEF TabInv, DialogsTold, RoomsTold
  <2>2. events \in Seq(Event)
    BY DEF TabInv, ServerTypes
  <2>3. e.kind \notin {"rooms"}
    BY <1>1
  <2> QED BY <1>1, <2>1, <2>2, <2>3, LastHandled DEF e
<1> QED BY <1>3, <1>8, <1>9, <1>10 DEF TabInv

\* onmessage of DirectInboxProvider: a snapshot of all rooms.
LEMMA HandleRooms ==
  ASSUME TabInv, events # <<>>, events' = Tail(events), Inbox!HandleRoomState(Head(events)),
         UNCHANGED <<now, last, cached, stored, opened, commands, connected, groups, request,
                     activeRef, marks>>
  PROVE  TabInv'
<1> DEFINE e == Head(events)
           scope == {r \in Inbox!Rooms : entries[r] # Inbox!EmptyEntry}
<1> USE TabConstants
<1>1. /\ e \in Event /\ Tail(events) \in Seq(Event) /\ e.kind = "rooms"
      /\ e.state \in [Inbox!Rooms -> 0..now]
  BY FirstEvent DEF TabInv, Inbox!HandleRoomState, Event
<1>2. ServerTypes'
  BY <1>1, SameTime DEF TabInv, ServerTypes, Marked
<1>3. /\ roomCounts' = e.state /\ entries' = Inbox!ApplySnapshot(scope, e.state)
      /\ effects' = effects \cup {"rooms"} /\ UNCHANGED <<items, counted, latest, hidden>>
  BY DEF Inbox!HandleRoomState, Inbox!ApplyRoomState
<1>4. now \in Nat /\ TabTypes /\ SnapshotsHold /\ e.state \in [Inbox!Rooms -> Nat]
  BY <1>1 DEF TabInv, ServerTypes
<1> HIDE DEF e
<1>5. /\ entries' \in [Inbox!Rooms -> Unread]
      /\ \A r \in Inbox!Rooms : IF r \in scope \/ e.state[r] > 0
                                THEN entries'[r].authoritative = e.state[r] ELSE entries'[r] = entries[r]
  <2> HIDE DEF scope
  <2>1. Inbox!Rooms \in SUBSET Inbox!Rooms
    OBVIOUS
  <2>2. /\ Inbox!ApplySnapshot(scope, e.state) \in [Inbox!Rooms -> Unread]
        /\ \A r \in Inbox!Rooms :
             IF r \in scope \/ (r \in Inbox!Rooms /\ e.state[r] > 0)
             THEN Inbox!ApplySnapshot(scope, e.state)[r].authoritative =
                    IF r \in Inbox!Rooms THEN e.state[r] ELSE 0
             ELSE Inbox!ApplySnapshot(scope, e.state)[r] = entries[r]
    BY ONLY <1>4, <2>1, SnapshotIs
  <2> QED BY <1>3, <2>2 DEF Badged
<1>6. TabTypes'
  BY <1>1, <1>3, <1>4, <1>5, SameTime DEF TabTypes, Marked
<1>7. ASSUME NEW r \in Inbox!Rooms
      PROVE  entries'[r].authoritative = roomCounts'[r] \/ (entries'[r].authoritative = -1 /\ roomCounts'[r] = 0)
  <2>1. e.state[r] \in Nat
    BY <1>4
  <2>2. r \notin scope => entries[r] = Inbox!EmptyEntry
    OBVIOUS
  <2> HIDE DEF scope
  <2> QED BY <1>3, <1>5, <2>1, <2>2 DEF Badged
<1>8. SnapshotsHold'
  <2>1. ASSUME NEW r \in Inbox!Rooms
        PROVE  /\ entries'[r].authoritative > 0 => roomCounts'[r] > 0
               /\ entries'[r].authoritative = 0 => roomCounts'[r] = 0
    <3> HIDE DEF scope
    <3> QED BY <1>7
  <2>2. ASSUME NEW r \in Dialogs
        PROVE  /\ counted'[r] \in {0, latest'.state[r]}
               /\ ~latest'.known => latest'.state[r] = 0
    BY <1>3, <1>4 DEF SnapshotsHold
  <2>0. Dialogs \subseteq Inbox!Rooms /\ Groups \subseteq Inbox!Rooms
    OBVIOUS
  <2>3. \A r \in Groups : entries'[r].authoritative > 0 => roomCounts'[r] > 0
    BY <2>0, <2>1
  <2>4. ASSUME NEW r \in Dialogs
        PROVE  /\ entries'[r].authoritative > 0 => roomCounts'[r] > 0
               /\ entries'[r].authoritative = 0 => roomCounts'[r] = 0
               /\ counted'[r] \in {0, latest'.state[r]}
               /\ ~latest'.known => latest'.state[r] = 0
    BY <2>0, <2>1, <2>2
  <2> QED BY <2>3, <2>4 DEF SnapshotsHold, Badged
<1>9. DialogsTold' /\ RoomsTold'
  <2> SUFFICES ASSUME connected
               PROVE  /\ LastIs(Tail(events), DialogKinds, latest.state, cached)
                      /\ LastIs(Tail(events), {"rooms"}, e.state, stored)
    BY <1>3 DEF DialogsTold, RoomsTold
  <2>1. LastIs(events, DialogKinds, latest.state, cached) /\ LastIs(events, {"rooms"}, roomCounts, stored)
    BY DEF TabInv, DialogsTold, RoomsTold
  <2>2. events \in Seq(Event)
    BY DEF TabInv, ServerTypes
  <2>3. e.kind \in {"rooms"} /\ e.kind \notin DialogKinds
    BY <1>1 DEF DialogKinds
  <2> QED BY <1>1, <2>1, <2>2, <2>3, LastHandled DEF e
<1> QED BY <1>2, <1>6, <1>8, <1>9 DEF TabInv

\* The effect that applies the last snapshot again.
LEMMA Reapply ==
  ASSUME TabInv, Inbox!Reapply PROVE TabInv'
<1> USE TabConstants
<1>1. /\ UNCHANGED <<now, last, cached, stored, opened, events, commands, connected, items, roomCounts,
                     groups, request, activeRef, marks>>
      /\ effects' = effects \ {"reapply"}
  BY DEF Inbox!Reapply, Inbox!back
<1>2. ServerTypes' /\ TabTypes /\ SnapshotsHold /\ now \in Nat
  BY <1>1, SameTime DEF TabInv, ServerTypes, Marked
<1>3. CASE latest.known
  <2>1. Inbox!ApplyUnreadState(latest.state, Inbox!NoItem, "none")
    BY <1>3 DEF Inbox!Reapply
  <2>2. latest.state \in Shown
    BY <1>2 DEF TabTypes
  <2>3. Inbox!NoItem \in Item \cup {Inbox!NoItem}
    OBVIOUS
  <2>4. /\ latest' = [known |-> TRUE, state |-> latest.state]
        /\ hidden' \in [Dialogs -> 0..(now + Skew)] /\ counted' \in Shown
        /\ entries' \in [Inbox!Rooms -> Unread]
    BY <1>2, <2>1, <2>2, <2>3, UnreadStateIs
  <2>5. latest' \in [known : BOOLEAN, state : Shown] /\ latest'.state = latest.state
    BY <2>2, <2>4
  <2>6. TabTypes'
    BY <1>1, <1>2, <2>4, <2>5, SameTime DEF TabTypes, Marked
  <2>7. items' \in Shown
    BY <1>1, <1>2 DEF TabTypes
  <2>8. SnapshotsHold'
    BY <1>1, <1>2, <2>1, <2>2, <2>3, <2>7, UnreadStateHolds
  <2>9. DialogsTold' /\ RoomsTold'
    BY <1>1, <2>5 DEF TabInv, DialogsTold, RoomsTold
  <2> QED BY <1>2, <2>6, <2>8, <2>9 DEF TabInv
<1>4. CASE ~latest.known
  <2>1. UNCHANGED <<counted, latest, hidden, entries>>
    BY <1>4 DEF Inbox!Reapply
  <2>2. TabTypes'
    BY <1>1, <1>2, <2>1, SameTime DEF TabTypes, Marked
  <2>3. ASSUME NEW r \in Dialogs
        PROVE  /\ entries'[r].authoritative > 0 => roomCounts'[r] > 0
               /\ latest'.state[r] = 0 /\ counted'[r] \in {0, latest'.state[r]}
    BY <1>1, <1>2, <1>4, <2>1 DEF SnapshotsHold, Badged
  <2>4. \A r \in Groups : entries'[r].authoritative > 0 => roomCounts'[r] > 0
    BY <1>1, <1>2, <2>1 DEF SnapshotsHold, Badged
  <2>5. SnapshotsHold'
    BY <2>3, <2>4 DEF SnapshotsHold, Badged
  <2>6. DialogsTold' /\ RoomsTold'
    BY <1>1, <2>1 DEF TabInv, DialogsTold, RoomsTold
  <2> QED BY <1>2, <2>2, <2>5, <2>6 DEF TabInv
<1> QED BY <1>3, <1>4

\* The effect of the conversation list that applies its copy.
LEMMA ApplyRooms ==
  ASSUME TabInv, Inbox!ApplyRooms PROVE TabInv'
<1> USE TabConstants
<1>1. /\ UNCHANGED <<now, last, cached, stored, opened, events, commands, connected, items, counted, latest,
                     hidden, roomCounts, groups, request, activeRef, marks>>
      /\ effects' = effects \ {"rooms"} /\ entries' = Inbox!ApplySnapshot(groups, roomCounts)
  BY DEF Inbox!ApplyRooms, Inbox!back, Inbox!inbox
<1>2. ServerTypes' /\ TabTypes /\ SnapshotsHold /\ roomCounts \in [Inbox!Rooms -> Nat]
  <2>1. ServerTypes /\ TabTypes /\ SnapshotsHold
    BY DEF TabInv
  <2>2. ServerTypes'
    BY ONLY <1>1, <2>1, SameTime DEF ServerTypes, Marked
  <2>3. roomCounts \in [Inbox!Rooms -> Nat]
    BY ONLY <2>1 DEF TabTypes
  <2> QED BY <2>1, <2>2, <2>3
<1>3. /\ entries' \in [Inbox!Rooms -> Unread]
      /\ \A r \in Inbox!Rooms : IF r \in groups \/ roomCounts[r] > 0
                                THEN entries'[r].authoritative = roomCounts[r] ELSE entries'[r] = entries[r]
  <2>1. Inbox!Rooms \in SUBSET Inbox!Rooms
    OBVIOUS
  <2>2. /\ Inbox!ApplySnapshot(groups, roomCounts) \in [Inbox!Rooms -> Unread]
        /\ \A r \in Inbox!Rooms :
             IF r \in groups \/ (r \in Inbox!Rooms /\ roomCounts[r] > 0)
             THEN Inbox!ApplySnapshot(groups, roomCounts)[r].authoritative =
                    IF r \in Inbox!Rooms THEN roomCounts[r] ELSE 0
             ELSE Inbox!ApplySnapshot(groups, roomCounts)[r] = entries[r]
    BY ONLY <1>2, <2>1, SnapshotIs
  <2> QED BY <1>1, <2>2
<1>4. TabTypes'
  BY <1>1, <1>2, <1>3, SameTime DEF TabTypes, Marked
<1>5. ASSUME NEW r \in Groups PROVE entries'[r].authoritative > 0 => roomCounts'[r] > 0
  BY <1>1, <1>2, <1>3 DEF SnapshotsHold, Badged
<1>6. ASSUME NEW r \in Dialogs
      PROVE  IF roomCounts[r] > 0 THEN entries'[r].authoritative = roomCounts[r] ELSE entries'[r] = entries[r]
  <2>1. r \in Inbox!Rooms /\ r \notin groups
    BY <1>2 DEF TabTypes
  <2> QED BY <1>3, <2>1
<1>7. SnapshotsHold'
  <2>1. ASSUME NEW r \in Dialogs
        PROVE  /\ entries'[r].authoritative > 0 => \/ roomCounts[r] > 0 \/ latest.state[r] > 0
                                                   \/ items[r] = 0 \/ "reapply" \in effects
               /\ entries'[r].authoritative = 0 => \/ roomCounts[r] = 0 \/ latest.state[r] = 0
                                                   \/ items[r] <= hidden[r] \/ "reapply" \in effects
               /\ counted[r] \in {0, latest.state[r]}
               /\ ~latest.known => latest.state[r] = 0 /\ (entries'[r].authoritative > 0 => roomCounts[r] > 0)
    <3>1. roomCounts[r] \in Nat
      BY <1>2
    <3> QED BY <1>2, <1>6, <3>1 DEF SnapshotsHold, Badged
  <2>2. "reapply" \in effects => "reapply" \in effects'
    BY <1>1
  <2> QED BY <1>1, <1>5, <2>1, <2>2 DEF SnapshotsHold, Badged
<1>8. DialogsTold' /\ RoomsTold'
  BY <1>1 DEF TabInv, DialogsTold, RoomsTold
<1> QED BY <1>2, <1>4, <1>7, <1>8 DEF TabInv

\* What only brings data to the tab.
LEMMA DataArrives ==
  ASSUME TabInv,
         \/ \E found \in SUBSET Groups : Inbox!GroupsArrive(found)
         \/ Inbox!Refresh \/ Inbox!ServerAnswers
  PROVE  TabInv'
<1> USE TabConstants
<1>1. /\ UNCHANGED <<now, last, cached, stored, opened, events, commands, connected, items, counted, latest,
                     hidden, roomCounts, entries, activeRef>>
      /\ effects \subseteq effects' /\ effects' \subseteq effects \cup {"rooms"}
  BY DEF Inbox!GroupsArrive, Inbox!Refresh, Inbox!ServerAnswers, Inbox!back, Inbox!inbox
<1>2. ServerTypes' /\ TabTypes /\ SnapshotsHold /\ now \in Nat
  BY <1>1, SameTime DEF TabInv, ServerTypes, Marked
<1>3. groups' \subseteq Groups /\ marks' \in Nat
  BY <1>2 DEF TabTypes, Inbox!GroupsArrive, Inbox!Refresh, Inbox!ServerAnswers
<1>4. request' \in [stage : {"none", "sent", "answered"}, items : Shown]
  <2>1. CASE UNCHANGED request
    BY <1>2, <2>1 DEF TabTypes
  <2>2. CASE Inbox!Refresh
    <3>1. Inbox!None(Dialogs) \in Shown
      BY <1>2 DEF Inbox!None, Shown
    <3> QED BY <2>2, <3>1 DEF Inbox!Refresh
  <2>3. CASE Inbox!ServerAnswers
    <3>1. [r \in Dialogs |-> last[r]] \in Shown
      BY DEF TabInv, ServerTypes, Shown
    <3> QED BY <2>3, <3>1 DEF Inbox!ServerAnswers
  <2> QED BY <2>1, <2>2, <2>3 DEF Inbox!GroupsArrive
<1>5. TabTypes'
  <2>1. effects' \subseteq {"reapply", "rooms"}
    BY <1>1, <1>2 DEF TabTypes
  <2> QED BY <1>1, <1>2, <1>3, <1>4, <2>1, SameTime DEF TabTypes, Marked
<1>6. SnapshotsHold'
  <2>1. "reapply" \in effects <=> "reapply" \in effects'
    BY <1>1
  <2> QED BY <1>1, <1>2, <2>1 DEF SnapshotsHold, Badged
<1>7. DialogsTold' /\ RoomsTold'
  BY <1>1 DEF TabInv, DialogsTold, RoomsTold
<1> QED BY <1>2, <1>5, <1>6, <1>7 DEF TabInv

\* The list of dialogs is replaced by a fetched one.
LEMMA ItemsArrive ==
  ASSUME TabInv, Inbox!ItemsArrive PROVE TabInv'
<1> USE TabConstants
<1>1. /\ UNCHANGED <<now, last, cached, stored, opened, events, commands, connected, counted, latest,
                     hidden, roomCounts, entries, groups, activeRef, marks>>
      /\ effects' = effects \cup {"reapply"} /\ items' = request.items
      /\ request' = [request EXCEPT !.stage = "none"]
  BY DEF Inbox!ItemsArrive, Inbox!back, Inbox!ChatListChanges
<1>2. ServerTypes' /\ TabTypes /\ SnapshotsHold
  BY <1>1, SameTime DEF TabInv, ServerTypes, Marked
<1>3. items' \in Shown /\ request' \in [stage : {"none", "sent", "answered"}, items : Shown]
  BY <1>1, <1>2 DEF TabTypes
<1>4. TabTypes'
  <2>1. effects' \subseteq {"reapply", "rooms"}
    BY <1>1, <1>2 DEF TabTypes
  <2> QED BY <1>1, <1>2, <1>3, <2>1, SameTime DEF TabTypes, Marked
<1>5. SnapshotsHold'
  <2>1. "reapply" \in effects'
    BY <1>1
  <2> QED BY <1>1, <1>2, <2>1 DEF SnapshotsHold, Badged
<1>6. DialogsTold' /\ RoomsTold'
  BY <1>1 DEF TabInv, DialogsTold, RoomsTold
<1> QED BY <1>2, <1>4, <1>5, <1>6 DEF TabInv

\* A dialog marked read is hidden until a message newer than the mark.
LEMMA TabMarksRead ==
  ASSUME TabInv, NEW d \in Dialogs, Inbox!MarkRead(d) PROVE TabInv'
<1> USE TabConstants
<1>1. /\ UNCHANGED <<now, last, cached, stored, opened, events, connected, items, latest, roomCounts,
                     groups, request, effects, activeRef>>
      /\ marks' = marks + 1 /\ hidden' = [hidden EXCEPT ![d] = now + Skew]
      /\ counted' = [counted EXCEPT ![d] = 0]
      /\ entries' = [entries EXCEPT ![d] = Inbox!MarkRoomFullyRead(entries[d])]
      /\ Inbox!Send([kind |-> "mark_read", room |-> d])
  BY DEF Inbox!MarkRead, Inbox!back
<1>2. ServerTypes'
  <2>1. [kind |-> "mark_read", room |-> d] \in Command
    BY DEF Command
  <2> QED BY <1>1, <2>1, NothingSent DEF TabInv
<1>3. ServerTypes /\ TabTypes /\ SnapshotsHold /\ now \in Nat
  BY DEF TabInv, ServerTypes
<1>4. d \in Inbox!Rooms /\ entries[d] \in Unread
  BY <1>3 DEF TabTypes
<1>5. Inbox!MarkRoomFullyRead(entries[d]) \in Unread /\ Inbox!MarkRoomFullyRead(entries[d]).authoritative = 0
  <2>1. 0 \in Nat
    OBVIOUS
  <2> QED BY <1>4, <2>1, EntryMoves
<1>6. /\ entries' \in [Inbox!Rooms -> Unread] /\ entries'[d].authoritative = 0
      /\ \A r \in Inbox!Rooms : r # d => entries'[r] = entries[r]
  BY <1>1, <1>3, <1>4, <1>5 DEF TabTypes
<1>7. /\ hidden' \in [Dialogs -> 0..(now + Skew)] /\ hidden'[d] = now + Skew
      /\ \A r \in Dialogs : r # d => hidden'[r] = hidden[r]
  BY <1>1, <1>3 DEF TabTypes
<1>8. /\ counted' \in Shown /\ counted'[d] = 0 /\ \A r \in Dialogs : r # d => counted'[r] = counted[r]
  BY <1>1, <1>3 DEF TabTypes, Shown
<1>9. TabTypes'
  <2>1. marks' \in Nat
    BY <1>1, <1>3 DEF TabTypes
  <2> QED BY <1>1, <1>3, <1>6, <1>7, <1>8, <2>1, SameTime DEF TabTypes, Marked
<1>10. ASSUME NEW r \in Groups PROVE entries'[r].authoritative > 0 => roomCounts'[r] > 0
  <2>1. r # d /\ r \in Inbox!Rooms
    OBVIOUS
  <2> QED BY <1>1, <1>3, <1>6, <2>1 DEF SnapshotsHold, Badged
<1>11. ASSUME NEW r \in Dialogs
      PROVE  /\ entries'[r].authoritative > 0 => \/ roomCounts[r] > 0 \/ latest.state[r] > 0
                                                 \/ items[r] = 0 \/ "reapply" \in effects
             /\ entries'[r].authoritative = 0 => \/ roomCounts[r] = 0 \/ latest.state[r] = 0
                                                 \/ items[r] <= hidden'[r] \/ "reapply" \in effects
             /\ counted'[r] \in {0, latest.state[r]}
             /\ ~latest.known => latest.state[r] = 0 /\ (entries'[r].authoritative > 0 => roomCounts[r] > 0)
  <2>1. CASE r = d
    <3>1. items[d] \in 0..now
      BY <1>3 DEF TabTypes, Shown
    <3>2. items[d] <= hidden'[d]
      BY <1>3, <1>7, <3>1
    <3>3. ~latest.known => latest.state[d] = 0
      BY <1>3 DEF SnapshotsHold
    <3> QED BY <1>6, <1>8, <2>1, <3>2, <3>3
  <2>2. CASE r # d
    <3>1. entries'[r] = entries[r] /\ hidden'[r] = hidden[r] /\ counted'[r] = counted[r]
      BY <1>6, <1>7, <1>8, <2>2
    <3> QED BY <1>3, <3>1 DEF SnapshotsHold, Badged
  <2> QED BY <2>1, <2>2
<1>12. SnapshotsHold'
  BY <1>1, <1>10, <1>11 DEF SnapshotsHold, Badged
<1>13. DialogsTold' /\ RoomsTold'
  BY <1>1 DEF TabInv, DialogsTold, RoomsTold
<1> QED BY <1>2, <1>9, <1>12, <1>13 DEF TabInv

\* setActiveRoom tells the server the dialog that is looked at.
LEMMA SetActiveRoom ==
  ASSUME TabInv, NEW d \in Dialogs \cup {"none"}, Inbox!SetActiveRoom(d) PROVE TabInv'
<1> USE TabConstants
<1>1. /\ UNCHANGED <<now, last, cached, stored, opened, events, connected, items, counted, latest, hidden,
                     roomCounts, entries, groups, request, effects, marks>>
      /\ activeRef' = d /\ Inbox!Send([kind |-> "set_active_room", room |-> d])
  BY DEF Inbox!SetActiveRoom, Inbox!back, Inbox!inbox
<1>2. ServerTypes'
  <2>1. [kind |-> "set_active_room", room |-> d] \in Command
    BY DEF Command, Marked
  <2> QED BY <1>1, <2>1, NothingSent DEF TabInv
<1>3. TabTypes'
  BY <1>1, SameTime DEF TabInv, TabTypes, Marked
<1>4. SnapshotsHold' /\ DialogsTold' /\ RoomsTold'
  BY <1>1 DEF TabInv, SnapshotsHold, Badged, DialogsTold, RoomsTold
<1> QED BY <1>2, <1>3, <1>4 DEF TabInv

-----------------------------------------------------------------------------
(* The server's steps                                                       *)

\* What the server does leaves the tab as it is, and time only grows.
LEMMA TabKept ==
  ASSUME TabTypes, SnapshotsHold, now \in Nat, now' \in {now, now + 1},
         UNCHANGED <<items, counted, latest, hidden, roomCounts, entries, groups, request, effects,
                     activeRef, marks>>
  PROVE  TabTypes' /\ SnapshotsHold'
<1> USE TabConstants
<1>1. 0..now \subseteq 0..now' /\ 0..(now + Skew) \subseteq 0..(now' + Skew)
  <2>1. Skew \in Nat /\ now' \in Nat /\ now <= now'
    BY ONLY TabConstants, now \in Nat, now' \in {now, now + 1}
  <2>2. \A a, b, k \in Nat : a <= b => 0..a \subseteq 0..b /\ 0..(a + k) \subseteq 0..(b + k)
    BY ONLY TRUE
  <2> QED BY ONLY <2>1, <2>2, now \in Nat
<1>2. Shown \subseteq Shown' /\ [Inbox!Rooms -> 0..now] \subseteq [Inbox!Rooms -> 0..now']
      /\ [Dialogs -> 0..(now + Skew)] \subseteq [Dialogs -> 0..(now' + Skew)]
  BY <1>1 DEF Shown
<1>3. latest \in [known : BOOLEAN, state : Shown'] /\ request \in [stage : {"none", "sent", "answered"}, items : Shown']
  BY <1>2 DEF TabTypes
<1>4. TabTypes'
  BY <1>2, <1>3 DEF TabTypes, Marked
<1>5. SnapshotsHold'
  BY DEF SnapshotsHold, Badged
<1> QED BY <1>4, <1>5

\* An event sent to a connected tab keeps its promise, when the counts of the
\* other kind did not change.
LEMMA Sent ==
  ASSUME TabInv, connected, NEW e \in Event, NEW c, NEW s,
         \/ e.kind \in DialogKinds /\ e.state = c /\ s = stored
         \/ e.kind = "rooms" /\ e.state = s /\ c = cached
  PROVE  /\ LastIs(Append(events, e), DialogKinds, latest.state, c)
         /\ LastIs(Append(events, e), {"rooms"}, roomCounts, s)
<1>1. LastIs(events, DialogKinds, latest.state, cached) /\ LastIs(events, {"rooms"}, roomCounts, stored)
  BY DEF TabInv, DialogsTold, RoomsTold
<1>2. events \in Seq(Event)
  BY DEF TabInv, ServerTypes
<1>3. e.kind \in DialogKinds => e.kind \notin {"rooms"}
  BY DEF DialogKinds
<1>4. e.kind = "rooms" => e.kind \notin DialogKinds /\ e.kind \in {"rooms"}
  BY DEF DialogKinds
<1>5. LastIs(Append(events, e), DialogKinds, latest.state, c)
  BY <1>1, <1>2, <1>4, LastSent
<1>6. LastIs(Append(events, e), {"rooms"}, roomCounts, s)
  BY <1>1, <1>2, <1>3, LastSent
<1> QED BY <1>5, <1>6

\* A message is published: the dialogs' and the rooms' counts follow.
LEMMA Publish ==
  ASSUME TabInv, NEW p \in Inbox!Rooms, Inbox!Publish(p) PROVE TabInv'
<1> USE TabConstants
<1> DEFINE item == [kind |-> "item", state |-> cached', item |-> [room |-> p, time |-> now']]
           told == [kind |-> "rooms", state |-> stored']
<1>1. /\ now < MaxTime /\ now' = now + 1 /\ last' = [last EXCEPT ![p] = now']
      /\ stored' = [stored EXCEPT ![p] = IF p = opened THEN 0 ELSE stored[p] + 1]
      /\ cached' = IF p \in Groups THEN cached
                   ELSE [cached EXCEPT ![p] = IF p = opened THEN 0 ELSE cached[p] + 1]
      /\ UNCHANGED <<opened, commands, connected, items, counted, latest, hidden, roomCounts, entries,
                     groups, request, effects, activeRef, marks>>
  BY DEF Inbox!Publish, Inbox!inbox
<1>2. events' = IF connected
                THEN IF p \in Groups THEN events \o (<<>> \o <<told>>)
                                     ELSE events \o (<<item>> \o <<told>>)
                ELSE events
  BY DEF Inbox!Publish, Inbox!Pushes, Inbox!RoomState
<1>3. TabTypes /\ SnapshotsHold /\ now \in Nat /\ now' \in 0..MaxTime /\ ServerTypes
  BY <1>1 DEF TabInv, ServerTypes
<1>4. TabTypes' /\ SnapshotsHold'
  BY <1>1, <1>3, TabKept
<1>5. last' \in [Inbox!Rooms -> 0..now'] /\ stored' \in [Inbox!Rooms -> 0..now']
  <2>1. \A r \in Inbox!Rooms : last[r] \in 0..now /\ stored[r] \in 0..now
    BY <1>3 DEF ServerTypes
  <2>2. \A r \in Inbox!Rooms : last'[r] \in 0..now' /\ stored'[r] \in 0..now'
    BY <1>1, <1>3, <2>1 DEF ServerTypes
  <2> QED BY <1>1, <1>3, <2>2 DEF ServerTypes
<1>6. cached' \in Shown'
  <2>1. \A r \in Dialogs : cached[r] \in 0..now
    BY <1>3 DEF ServerTypes, Shown
  <2>2. \A r \in Dialogs : cached'[r] \in 0..now'
    BY <1>1, <1>3, <2>1 DEF ServerTypes, Shown
  <2>3. cached' = [r \in Dialogs |-> cached'[r]]
    BY <1>1, <1>3 DEF ServerTypes, Shown
  <2> QED BY <2>2, <2>3 DEF Shown
<1>7. told \in Event' /\ (p \notin Groups => item \in Event')
  <2>1. told \in Event'
    BY <1>5 DEF Event
  <2>2. ASSUME p \notin Groups PROVE item \in Event'
    <3>1. [room |-> p, time |-> now'] \in Item'
      BY <1>3, <2>2 DEF Item
    <3> QED BY <1>6, <3>1 DEF Event
  <2> QED BY <2>1, <2>2
<1>8. events \in Seq(Event')
  BY <1>1, <1>3, LaterEvents DEF ServerTypes
<1>9. events' = IF connected
                THEN IF p \in Groups THEN Append(events, told) ELSE Append(Append(events, item), told)
                ELSE events
  <2> HIDE DEF item, told
  <2>1. CASE p \in Groups
    <3>1. events \o (<<>> \o <<told>>) = Append(events, told)
      BY <1>7, <1>8, Pushed
    <3> QED BY <1>2, <2>1, <3>1
  <2>2. CASE p \notin Groups
    <3>1. events \o (<<item>> \o <<told>>) = Append(Append(events, item), told)
      BY <1>7, <1>8, <2>2, Pushed
    <3> QED BY <1>2, <2>2, <3>1
  <2> QED BY <2>1, <2>2
<1>10. events' \in Seq(Event')
  <2> HIDE DEF item, told
  <2> QED BY <1>7, <1>8, <1>9, Pushed
<1>11. ServerTypes'
  BY <1>1, <1>3, <1>5, <1>6, <1>10 DEF ServerTypes, Marked
<1>12. ASSUME connected
       PROVE  /\ LastIs(events', DialogKinds, latest.state, cached')
              /\ LastIs(events', {"rooms"}, roomCounts, stored')
  <2>1. LastIs(events, DialogKinds, latest.state, cached) /\ LastIs(events, {"rooms"}, roomCounts, stored)
    BY <1>12 DEF TabInv, DialogsTold, RoomsTold
  <2>2. /\ told.kind \in {"rooms"} /\ told.kind \notin DialogKinds /\ told.state = stored'
        /\ item.kind \notin {"rooms"} /\ item.kind \in DialogKinds /\ item.state = cached'
    BY DEF DialogKinds
  <2> HIDE DEF item, told
  <2>3. CASE p \in Groups
    <3>1. cached' = cached /\ events' = Append(events, told)
      BY <1>1, <1>9, <1>12, <2>3
    <3>2. LastIs(Append(events, told), DialogKinds, latest.state, cached)
      BY <1>8, <2>1, <2>2, LastSent
    <3>3. LastIs(Append(events, told), {"rooms"}, roomCounts, stored')
      BY <1>8, <2>1, <2>2, LastSent
    <3> QED BY <3>1, <3>2, <3>3
  <2>4. CASE p \notin Groups
    <3>1. events' = Append(Append(events, item), told) /\ Append(events, item) \in Seq(Event')
      BY <1>7, <1>8, <1>9, <1>12, <2>4, Pushed
    <3>2. LastIs(Append(events, item), DialogKinds, latest.state, cached')
      BY <1>8, <2>1, <2>2, LastSent
    <3>3. LastIs(Append(Append(events, item), told), DialogKinds, latest.state, cached')
      BY <2>2, <3>1, <3>2, LastSent
    <3>4. LastIs(Append(Append(events, item), told), {"rooms"}, roomCounts, stored')
      BY <2>2, <3>1, LastSent
    <3> QED BY <3>1, <3>3, <3>4
  <2> QED BY <2>3, <2>4
<1>13. DialogsTold' /\ RoomsTold'
  BY <1>1, <1>12 DEF DialogsTold, RoomsTold
<1> QED BY <1>4, <1>11, <1>13 DEF TabInv

\* One event, or none, from a server whose clock stands still.
LEMMA ServerTells ==
  ASSUME TabInv, UNCHANGED <<now, last, connected, items, counted, latest, hidden, roomCounts, entries,
                             groups, request, effects, activeRef, marks>>,
         stored' \in [Inbox!Rooms -> 0..now], cached' \in Shown, opened' \in Marked,
         commands' \in Seq(Command), ~connected => commands' = <<>>,
         \/ Inbox!Pushes(<<>>) /\ UNCHANGED <<stored, cached>>
         \/ \E e \in Event :
              /\ Inbox!Pushes(<<e>>)
              /\ \/ e.kind \in DialogKinds /\ e.state = cached' /\ UNCHANGED stored
                 \/ e.kind = "rooms" /\ e.state = stored' /\ UNCHANGED cached
  PROVE  TabInv'
<1>1. TabTypes' /\ SnapshotsHold' /\ events \in Seq(Event)
  <2>1. TabTypes /\ SnapshotsHold /\ now \in Nat /\ now' = now
    BY DEF TabInv, ServerTypes
  <2>2. TabTypes' /\ SnapshotsHold'
    BY <2>1, TabKept
  <2> QED BY <2>2 DEF TabInv, ServerTypes
<1>2. ASSUME events' \in Seq(Event) PROVE ServerTypes'
  BY <1>2, SameTime DEF TabInv, ServerTypes, Marked
<1>3. CASE Inbox!Pushes(<<>>) /\ UNCHANGED <<stored, cached>>
  <2>1. events' = events
    <3>1. events \o <<>> = events
      BY ONLY <1>1, ConcatEmptySeq
    <3> QED BY ONLY <1>3, <3>1 DEF Inbox!Pushes
  <2>2. DialogsTold' /\ RoomsTold'
    BY <1>3, <2>1 DEF TabInv, DialogsTold, RoomsTold
  <2> QED BY <1>1, <1>2, <2>1, <2>2 DEF TabInv
<1>4. ASSUME NEW e \in Event, Inbox!Pushes(<<e>>),
             \/ e.kind \in DialogKinds /\ e.state = cached' /\ UNCHANGED stored
             \/ e.kind = "rooms" /\ e.state = stored' /\ UNCHANGED cached
      PROVE  TabInv'
  <2>1. events' = IF connected THEN Append(events, e) ELSE events
    BY ONLY <1>1, <1>4, Pushed DEF Inbox!Pushes
  <2>2. ServerTypes'
    <3>1. Append(events, e) \in Seq(Event)
      BY ONLY <1>1, <1>4, AppendProperties
    <3> QED BY <1>1, <1>2, <2>1, <3>1
  <2>3. connected => /\ LastIs(Append(events, e), DialogKinds, latest.state, cached')
                     /\ LastIs(Append(events, e), {"rooms"}, roomCounts, stored')
    BY <1>4, Sent
  <2>4. DialogsTold' /\ RoomsTold'
    BY <2>1, <2>3 DEF DialogsTold, RoomsTold
  <2> QED BY <1>1, <2>2, <2>4 DEF TabInv
<1> QED BY <1>3, <1>4

\* A room is read elsewhere.
LEMMA ReadOnServer ==
  ASSUME TabInv, NEW p \in Inbox!Rooms, Inbox!ReadOnServer(p) PROVE TabInv'
<1> DEFINE e == [kind |-> "rooms", state |-> stored']
<1>1. /\ UNCHANGED <<now, last, cached, opened, commands, connected, items, counted, latest, hidden,
                     roomCounts, entries, groups, request, effects, activeRef, marks>>
      /\ stored' = [stored EXCEPT ![p] = 0] /\ Inbox!Pushes(<<e>>)
  BY DEF Inbox!ReadOnServer, Inbox!inbox, Inbox!RoomState
<1>2. stored' \in [Inbox!Rooms -> 0..now] /\ cached' \in Shown /\ opened' \in Marked
      /\ commands' \in Seq(Command) /\ (~connected => commands' = <<>>)
  BY <1>1, SameTime DEF TabInv, ServerTypes, Marked
<1>3. e \in Event /\ e.kind = "rooms" /\ e.state = stored'
  BY <1>2 DEF Event
<1> HIDE DEF e
<1> QED BY <1>1, <1>2, <1>3, ServerTells

\* The consumer handles a frame of the tab.
LEMMA ServerReceives ==
  ASSUME TabInv, Inbox!ServerReceives PROVE TabInv'
<1> DEFINE f == Head(commands)
           ack == [kind |-> "ack", room |-> f.room, state |-> cached']
           told == [kind |-> "state", state |-> cached']
<1>1. /\ UNCHANGED <<now, last, stored, connected, items, counted, latest, hidden,
                     roomCounts, entries, groups, request, effects, activeRef, marks>>
      /\ commands # <<>> /\ commands' = Tail(commands)
      /\ Inbox!MarkReadArrives(f) \/ Inbox!ActiveRoomArrives(f)
  BY DEF Inbox!ServerReceives, Inbox!inbox
<1>2. f \in Command /\ commands' \in Seq(Command) /\ connected
      /\ stored' \in [Inbox!Rooms -> 0..now]
  BY <1>1, HeadTailProperties DEF TabInv, ServerTypes
<1>3. cached \in Shown /\ opened \in Marked /\ now \in Nat
  BY DEF TabInv, ServerTypes
<1>4. CASE Inbox!MarkReadArrives(f)
  <2>1. /\ f.room \in Dialogs /\ cached' = [cached EXCEPT ![f.room] = 0] /\ opened' = opened
        /\ Inbox!Pushes(<<ack>>)
    BY <1>2, <1>4 DEF Inbox!MarkReadArrives, Command
  <2>2. cached' \in Shown
    BY <1>3, <2>1 DEF Shown
  <2>3. ack \in Event /\ ack.kind \in DialogKinds /\ ack.state = cached'
    BY <2>1, <2>2 DEF Event, DialogKinds
  <2> HIDE DEF ack
  <2> QED BY <1>1, <1>2, <1>3, <2>1, <2>2, <2>3, ServerTells
<1>5. CASE Inbox!ActiveRoomArrives(f)
  <2>1. f.room \in Marked /\ opened' = f.room
    BY <1>2, <1>5 DEF Inbox!ActiveRoomArrives, Command, Marked
  <2>2. CASE f.room = "none"
    <3>1. cached' = cached /\ Inbox!Pushes(<<>>)
      BY <1>5, <2>2 DEF Inbox!ActiveRoomArrives
    <3> QED BY <1>1, <1>2, <1>3, <2>1, <3>1, ServerTells
  <2>3. CASE f.room # "none"
    <3>1. f.room \in Dialogs /\ cached' = [cached EXCEPT ![f.room] = 0] /\ Inbox!Pushes(<<told>>)
      BY <1>5, <2>1, <2>3 DEF Inbox!ActiveRoomArrives, Marked
    <3>2. cached' \in Shown
      BY <1>3, <3>1 DEF Shown
    <3>3. told \in Event /\ told.kind \in DialogKinds /\ told.state = cached'
      BY <3>2 DEF Event, DialogKinds
    <3> HIDE DEF told
    <3> QED BY <1>1, <1>2, <1>3, <2>1, <3>1, <3>2, <3>3, ServerTells
  <2> QED BY <2>2, <2>3
<1> QED BY <1>1, <1>4, <1>5

\* The socket closes: nothing more is on its way.
LEMMA TabDisconnects ==
  ASSUME TabInv, Inbox!Disconnect PROVE TabInv'
<1>1. /\ UNCHANGED <<now, last, cached, stored, items, counted, latest, hidden,
                     roomCounts, entries, groups, request, effects, activeRef, marks>>
      /\ connected' = FALSE /\ events' = <<>> /\ commands' = <<>> /\ opened' = "none"
  BY DEF Inbox!Disconnect, Inbox!inbox
<1>2. TabTypes' /\ SnapshotsHold'
  <2>1. TabTypes /\ SnapshotsHold /\ now \in Nat /\ now' = now
    BY <1>1 DEF TabInv, ServerTypes
  <2> QED BY <1>1, <2>1, TabKept
<1>3. ServerTypes'
  <2>1. <<>> \in Seq(Event) /\ <<>> \in Seq(Command) /\ "none" \in Marked
    BY DEF Marked
  <2> QED BY <1>1, <2>1, SameTime DEF TabInv, ServerTypes, Marked
<1>4. DialogsTold' /\ RoomsTold'
  BY <1>1 DEF DialogsTold, RoomsTold
<1> QED BY <1>2, <1>3, <1>4 DEF TabInv

\* The socket opens: both snapshots are on their way.
LEMMA TabConnects ==
  ASSUME TabInv, Inbox!Connect PROVE TabInv'
<1> DEFINE e == [kind |-> "state", state |-> cached]
           t == [kind |-> "rooms", state |-> stored]
           c == [kind |-> "set_active_room", room |-> activeRef]
<1>1. /\ UNCHANGED <<now, last, cached, stored, opened, items, counted, latest, hidden,
                     roomCounts, entries, groups, request, effects, activeRef, marks>>
      /\ connected' = TRUE /\ events' = <<e, t>> /\ commands' = <<c>>
  BY DEF Inbox!Connect, Inbox!inbox, Inbox!back, Inbox!RoomState
<1>2. TabTypes' /\ SnapshotsHold' /\ TabTypes
  <2>1. TabTypes /\ SnapshotsHold /\ now \in Nat /\ now' = now
    BY <1>1 DEF TabInv, ServerTypes
  <2> QED BY <1>1, <2>1, TabKept
<1>3. e \in Event /\ t \in Event /\ c \in Command
  BY <1>2 DEF TabInv, ServerTypes, TabTypes, Event, Command
<1>4. /\ e.kind \in DialogKinds /\ e.kind \notin {"rooms"} /\ e.state = cached
      /\ t.kind \in {"rooms"} /\ t.kind \notin DialogKinds /\ t.state = stored
  BY DEF DialogKinds
<1> HIDE DEF e, t, c
<1>5. ServerTypes'
  <2>1. <<e, t>> \in Seq(Event) /\ <<c>> \in Seq(Command)
    BY <1>3
  <2> QED BY <1>1, <2>1, SameTime DEF TabInv, ServerTypes, Marked
<1>6. DialogsTold' /\ RoomsTold'
  BY <1>1, <1>4 DEF DialogsTold, RoomsTold, LastIs
<1> QED BY <1>2, <1>5, <1>6 DEF TabInv

-----------------------------------------------------------------------------

\* Every step of the tab keeps its invariant.
LEMMA TabStep == ASSUME TabInv, Inbox!Next PROVE TabInv'
<1>1. CASE Inbox!HandleMessage
  <2>1. /\ events # <<>> /\ events' = Tail(events)
        /\ UNCHANGED <<now, last, cached, stored, opened, commands, connected, groups, request,
                       activeRef, marks>>
    BY <1>1 DEF Inbox!HandleMessage, Inbox!back
  <2>2. CASE Inbox!HandleRoomState(Head(events))
    BY <2>1, <2>2, HandleRooms
  <2>3. CASE \/ Inbox!HandleUnreadState(Head(events)) \/ Inbox!HandleItem(Head(events))
             \/ Inbox!HandleAck(Head(events))
    <3>1. Head(events).kind \in DialogKinds
      BY <2>3 DEF Inbox!HandleUnreadState, Inbox!HandleItem, Inbox!HandleAck, DialogKinds
    <3> QED BY <2>1, <2>3, <3>1, HandleUnread
  <2> QED BY <1>1, <2>2, <2>3 DEF Inbox!HandleMessage
<1>2. CASE Inbox!Reapply
  BY <1>2, Reapply
<1>3. CASE Inbox!ApplyRooms
  BY <1>3, ApplyRooms
<1>4. CASE \E found \in SUBSET Groups : Inbox!GroupsArrive(found)
  BY <1>4, DataArrives
<1>5. CASE Inbox!Refresh \/ Inbox!ServerAnswers
  BY <1>5, DataArrives
<1>6. CASE Inbox!ItemsArrive
  BY <1>6, ItemsArrive
<1>7. CASE \E r \in Dialogs : Inbox!MarkRead(r)
  BY <1>7, TabMarksRead
<1>8. CASE \E r \in Dialogs \cup {"none"} : Inbox!SetActiveRoom(r)
  BY <1>8, SetActiveRoom
<1>9. CASE \E r \in Inbox!Rooms : Inbox!Publish(r) \/ Inbox!ReadOnServer(r)
  BY <1>9, Publish, ReadOnServer
<1>10. CASE Inbox!ServerReceives
  BY <1>10, ServerReceives
<1>11. CASE Inbox!Connect
  BY <1>11, TabConnects
<1>12. CASE Inbox!Disconnect
  BY <1>12, TabDisconnects
<1> QED BY <1>1, <1>2, <1>3, <1>4, <1>5, <1>6, <1>7, <1>8, <1>9, <1>10, <1>11, <1>12 DEF Inbox!Next

\* A step of the timeline leaves the tab alone.
LEMMA TabStutter == ASSUME TabInv, UNCHANGED tabVars PROVE TabInv'
<1>1. UNCHANGED <<now, last, cached, stored, opened, events, commands, connected, items, counted, latest,
                  hidden, roomCounts, entries, groups, request, effects, activeRef, marks>>
  BY DEF tabVars
<1>2. ServerTypes' /\ TabTypes'
  BY <1>1, SameTime DEF TabInv, ServerTypes, TabTypes, Marked
<1> QED BY <1>1, <1>2 DEF TabInv, SnapshotsHold, Badged, DialogsTold, RoomsTold

\* When everything has arrived, what the tab knows is what the server counts.
LEMMA TabKnows ==
  ASSUME TabInv, Inbox!CaughtUp
  PROVE  latest.state = cached /\ roomCounts = stored /\ "reapply" \notin effects
BY DEF TabInv, DialogsTold, RoomsTold, LastIs, Inbox!CaughtUp

\* With everything handled, the badges are those of the snapshots.
LEMMA BadgesAreRight == ASSUME TabInv PROVE BadgesHold
<1> USE TabConstants
<1> SUFFICES ASSUME Inbox!CaughtUp
             PROVE  /\ \A r \in Inbox!Rooms : Inbox!Badge(r) > 0 =>
                         stored[r] > 0 \/ (r \in Dialogs /\ cached[r] > 0)
                    /\ \A r \in Dialogs : cached[r] > 0 /\ stored[r] > 0 /\ items[r] = last[r]
                         /\ last[r] > hidden[r] => Inbox!Badge(r) > 0
  BY DEF BadgesHold, Inbox!NoGhostBadge, Inbox!NewMessageShows
<1>1. latest.state = cached /\ roomCounts = stored /\ "reapply" \notin effects
  BY TabKnows
<1>2. /\ SnapshotsHold /\ entries \in [Inbox!Rooms -> Unread] /\ items \in Shown /\ counted \in Shown
      /\ cached \in Shown /\ stored \in [Inbox!Rooms -> 0..now] /\ last \in [Inbox!Rooms -> 0..now]
      /\ hidden \in [Dialogs -> 0..(now + Skew)] /\ now \in Nat
  BY DEF TabInv, ServerTypes, TabTypes
<1>3. ASSUME NEW r \in Inbox!Rooms
      PROVE  /\ stored[r] \in Nat /\ last[r] \in Nat /\ entries[r].authoritative \in Nat \cup {-1}
             /\ r \in Dialogs => /\ cached[r] \in Nat /\ counted[r] \in Nat /\ items[r] \in Nat
                                 /\ hidden[r] \in Nat
             /\ Inbox!Badge(r) =
                  IF r \in Dialogs /\ items[r] = 0 THEN 0
                  ELSE IF entries[r].authoritative # -1 THEN entries[r].authoritative
                  ELSE IF r \in Dialogs /\ counted[r] > 0 THEN counted[r] ELSE stored[r]
  <2>1. entries[r] \in Unread
    BY <1>2
  <2>2. entries[r].initialized = FALSE /\ entries[r].authoritative \in Nat \cup {-1}
    BY <2>1 DEF Unread
  <2>3. stored[r] \in Nat /\ last[r] \in Nat
    BY <1>2
  <2>4. r \in Dialogs => /\ cached[r] \in Nat /\ counted[r] \in Nat /\ items[r] \in Nat /\ hidden[r] \in Nat
    BY <1>2 DEF Shown
  <2> QED BY <1>1, <2>2, <2>3, <2>4 DEF Inbox!Badge, Inbox!RoomUnreadCount
<1>4. ASSUME NEW r \in Inbox!Rooms, Inbox!Badge(r) > 0
      PROVE  stored[r] > 0 \/ (r \in Dialogs /\ cached[r] > 0)
  <2>1. CASE r \in Groups
    <3>1. entries[r].authoritative > 0 => stored[r] > 0
      BY <1>1, <1>2, <2>1 DEF SnapshotsHold, Badged
    <3> QED BY <1>3, <1>4, <2>1, <3>1
  <2>2. CASE r \in Dialogs
    <3>1. /\ entries[r].authoritative > 0 => stored[r] > 0 \/ cached[r] > 0 \/ items[r] = 0
          /\ counted[r] \in {0, cached[r]}
      BY <1>1, <1>2, <2>2 DEF SnapshotsHold, Badged
    <3> QED BY <1>3, <1>4, <2>2, <3>1
  <2> QED BY <2>1, <2>2
<1>5. ASSUME NEW r \in Dialogs, cached[r] > 0, stored[r] > 0, items[r] = last[r], last[r] > hidden[r]
      PROVE  Inbox!Badge(r) > 0
  <2>1. entries[r].authoritative = 0 => stored[r] = 0 \/ cached[r] = 0 \/ items[r] <= hidden[r]
    BY <1>1, <1>2 DEF SnapshotsHold, Badged
  <2>2. r \in Inbox!Rooms
    OBVIOUS
  <2>3. items[r] # 0
    BY <1>3, <1>5, <2>2
  <2> QED BY <1>3, <1>5, <2>1, <2>2, <2>3
<1> QED BY <1>4, <1>5

\* DirectInboxProvider, RoomReadStateProvider: when everything has arrived,
\* a badge is never left behind and never missing, whichever snapshot spoke last.
THEOREM BadgesTheorem == MCSpec => []BadgesHold
<1>1. ASSUME MCInit PROVE TabInv
  BY <1>1, TabInit DEF MCInit
<1>2. ASSUME TabInv, [MCNext]_<<machine, timelineVars, tabVars>> PROVE TabInv'
  BY <1>2, TabStep, TabStutter DEF MCNext
<1> QED BY <1>1, <1>2, BadgesAreRight, PTL DEF MCSpec

-----------------------------------------------------------------------------
(* The timeline                                                             *)

Ids == Timeline!Ids
ClientKeys == Keys \cup {"none"}
Texts == 0..MaxText

Message == [state : {"none", "there", "gone"}, text : Texts, key : ClientKeys,
            likes : SUBSET Timeline!Persons]

Known(id) == room[id].state # "none"
KeyFits(id, key) == key = "none" \/ key = room[id].key

Entry == [id : 0..MaxId, key : ClientKeys, pending : BOOLEAN, text : Texts, count : Nat, mine : BOOLEAN]

\* A message being sent has a key and no id; one that was sent has the id the room
\* has for it.
Shows(m) == IF m.pending THEN m.id = 0 /\ m.key # "none"
            ELSE m.id \in Ids /\ Known(m.id) /\ KeyFits(m.id, m.key)
Entries == {m \in Entry : Shows(m)}

Told == {e \in [kind : {"message"}, id : Ids, key : ClientKeys, text : {0}] :
           Known(e.id) /\ KeyFits(e.id, e.key)}
Events == Told \cup [kind : {"rejected"}, key : Keys]
               \cup [kind : {"edit"}, id : Ids, text : Texts] \cup [kind : {"delete"}, id : Ids]
               \cup [kind : {"add", "remove"}, id : Ids, me : BOOLEAN]

Fetch == [kind : {"none", "load", "more"}, before : 0..MaxId, page : Seq(Entries), answered : BOOLEAN]
Edit == [id : 0..MaxId, old : Texts, text : Texts, stale : BOOLEAN,
         state : {"none", "open", "sent", "done", "failed"}]
Removal == [id : 0..MaxId, at : Nat, entry : Entries \cup {<<>>}, stale : BOOLEAN,
            state : {"none", "open", "sent", "done", "failed"}]
Reaction == [active : BOOLEAN, intended : BOOLEAN, requested : BOOLEAN, answer : {"none", "done"}]

RoomTypes ==
  /\ room \in [Ids -> Message] /\ texts \in Texts
  /\ wire \in Seq(Events) /\ Len(wire) <= MaxWire /\ frames \in Seq(Keys) /\ joined \in BOOLEAN
ListTypes ==
  /\ list \in Seq(Entries) /\ more \in [has : BOOLEAN, next : 0..MaxId]
  /\ fetch \in Fetch /\ edit \in Edit /\ removal \in Removal
  /\ edit.state # "none" => edit.id \in Ids
  /\ removal.state # "none" => removal.id \in Ids

\* A key is given to one frame, and to one message.
KeysApart ==
  /\ \A i, j \in Ids : i # j => room[i].key # room[j].key \/ room[i].key = "none"
  /\ \A i, j \in DOMAIN frames : i # j => frames[i] # frames[j]
  /\ \A i \in DOMAIN frames, id \in Ids : room[id].key # frames[i]

\* Once(l): the list l shows no message twice.
Once(l) ==
  \A i, j \in DOMAIN l : i # j =>
    /\ l[i].id # l[j].id \/ l[i].pending
    /\ l[i].key # l[j].key \/ l[i].key = "none"

\* A page has each message once, and none of the client's keys.
PageOnce == Once(fetch.page) /\ \A i \in DOMAIN fetch.page : fetch.page[i].key = "none"

\* What a removal would restore is a message of the room, and not one being sent.
Removed ==
  removal.state # "none" =>
    /\ removal.entry \in Entries /\ ~removal.entry.pending /\ removal.entry.id = removal.id
    /\ \A i \in DOMAIN list : list[i].pending => list[i].key # removal.entry.key

\* Of the clicks on a message the last is remembered, and what was asked for last
\* is what the room has.
Clicks ==
  /\ reaction \in [Ids -> Reaction] /\ wanted \in [Ids -> SUBSET BOOLEAN]
  /\ \A id \in Ids :
       /\ ~Known(id) => ~reaction[id].active /\ wanted[id] = {}
       /\ reaction[id].active => wanted[id] = {reaction[id].intended}
       /\ reaction[id].active /\ reaction[id].answer = "done" /\ room[id].state = "there"
            => reaction[id].requested = ("me" \in room[id].likes)
       /\ ~reaction[id].active /\ room[id].state = "there" /\ wanted[id] # {}
            => wanted[id] = {"me" \in room[id].likes}

ListInv == RoomTypes /\ ListTypes /\ KeysApart /\ Once(list) /\ PageOnce /\ Removed
TimeInv == ListInv /\ Clicks

\* What the assumptions say of the bounds of the timeline.
LEMMA TimeConstants ==
  /\ MaxId \in Nat /\ MaxId >= 1 /\ Ids = 1..MaxId /\ "none" \notin Keys
  /\ MaxText \in Nat /\ MaxWire \in Nat /\ History \in Nat /\ PageSize \in Nat /\ IsFiniteSet(Ids)
<1>1. MaxId \in Nat /\ MaxId >= 1 /\ Ids = 1..MaxId
  BY TimelineConstants DEF Timeline!TimelineAssumption, Ids, Timeline!Ids
<1> QED BY <1>1, TimelineConstants, FS_Interval DEF Timeline!TimelineAssumption

\* The timeline's copy of Cardinality is Cardinality.
LEMMA SameCount == \A S : Timeline!Cardinality(S) = Cardinality(S)
BY DEF Timeline!Cardinality, Cardinality

\* A set of numbers has a least one.
LEMMA Least ==
  ASSUME NEW S, S # {}, S \subseteq Nat
  PROVE  \E m \in S : \A other \in S : m <= other
<1>1. PICK x \in S : \A y \in S : ~(<<y, x>> \in OpToRel(<, Nat))
  BY NatLessThanWellFounded, WFMin
<1>2. ASSUME NEW y \in S, y < x PROVE FALSE
  <2>1. <<y, x>> \in OpToRel(<, Nat)
    BY <1>2 DEF OpToRel
  <2> QED BY <2>1, <1>1
<1>3. ASSUME NEW y \in S PROVE x <= y
  <2>1. x \in Nat /\ y \in Nat
    OBVIOUS
  <2> QED BY <1>2, <2>1
<1> QED BY <1>3

\* A bounded set of numbers has a greatest one.
LEMMA Greatest ==
  ASSUME NEW n \in Nat, NEW S \in SUBSET (1..n), S # {}
  PROVE  \E m \in S : \A other \in S : other <= m
<1> DEFINE T == {x \in Nat : n - x \in S}
<1>1. T # {} /\ T \subseteq Nat
  <2>1. PICK m \in S : TRUE
    OBVIOUS
  <2>2. n - m \in Nat /\ n - (n - m) = m
    BY <2>1
  <2> QED BY <2>1, <2>2
<1>2. PICK x \in T : \A y \in T : x <= y
  <2> HIDE DEF T
  <2> QED BY <1>1, Least
<1>3. ASSUME NEW other \in S PROVE other <= n - x
  <2>1. n - other \in Nat /\ n - (n - other) = other
    OBVIOUS
  <2>2. n - other \in T
    BY <2>1
  <2> QED BY <1>2, <2>1, <2>2
<1> QED BY <1>2, <1>3

\* The k-th number of a set is one of its numbers, and no other is the k-th too.
LEMMA NthIs ==
  ASSUME NEW n \in Nat, NEW S \in SUBSET (1..n)
  PROVE  /\ IsFiniteSet(S) /\ Cardinality(S) \in Nat
         /\ \A k \in 1..Cardinality(S) :
              Timeline!Nth(S, k) \in S /\ Cardinality({j \in S : j <= Timeline!Nth(S, k)}) = k
<1> DEFINE below(m) == {j \in S : j <= m}
<1>1. \A Q \in SUBSET S : IsFiniteSet(Q) /\ Cardinality(Q) \in Nat
  <2>1. IsFiniteSet(1..n)
    BY FS_Interval
  <2> QED BY <2>1, FS_Subset, FS_CardinalityType
<1>2. ASSUME NEW k \in 1..Cardinality(S) PROVE \E m \in S : Cardinality(below(m)) = k
  <2> DEFINE T == {m \in S : Cardinality(below(m)) >= k}
  <2>1. S # {} /\ k \in Nat /\ k >= 1
    BY <1>1, FS_EmptySet
  <2>2. T # {}
    <3>1. PICK m \in S : \A x \in S : x <= m
      BY <2>1, Greatest
    <3>2. below(m) = S
      BY <3>1
    <3> QED BY <1>1, <2>1, <3>1, <3>2
  <2>3. PICK m \in T : \A x \in T : m <= x
    <3>1. \A x \in S : x \in Nat
      OBVIOUS
    <3>2. T \subseteq Nat
      <4> HIDE DEF below
      <4> QED BY <3>1
    <3> HIDE DEF T
    <3> QED BY <3>2, <2>2, <3>1, Least
  <2>4. m \in S /\ Cardinality(below(m)) >= k /\ Cardinality(below(m)) \in Nat /\ IsFiniteSet(below(m))
    BY <1>1, <2>3
  <2>5. ASSUME Cardinality(below(m)) # k PROVE FALSE
    <3> DEFINE rest == below(m) \ {m}
    <3>1. m \in below(m)
      BY <2>4
    <3>2. IsFiniteSet(rest) /\ Cardinality(rest) = Cardinality(below(m)) - 1
      BY <2>4, <3>1, FS_RemoveElement
    <3>3. Cardinality(rest) >= k /\ rest # {}
      BY <2>1, <2>4, <2>5, <3>2, FS_EmptySet
    <3>4. rest \in SUBSET (1..n)
      OBVIOUS
    <3>5. PICK p \in rest : \A x \in rest : x <= p
      BY <3>3, <3>4, Greatest
    <3>6. p \in S /\ p < m
      BY <2>4, <3>5
    <3>7. below(p) = rest
      <4>1. ASSUME NEW x \in S PROVE x <= p <=> x <= m /\ x # m
        <5>1. x <= m /\ x # m => x <= p
          BY <3>5
        <5> QED BY <2>4, <3>6, <5>1
      <4> QED BY <4>1
    <3>8. p \in T
      <4>1. Cardinality(below(p)) >= k
        BY <3>3, <3>7
      <4> HIDE DEF below
      <4> QED BY <3>6, <4>1
    <3> QED BY <2>3, <2>4, <3>6, <3>8
  <2> QED BY <2>4, <2>5
<1>3. ASSUME NEW k \in 1..Cardinality(S)
      PROVE  Timeline!Nth(S, k) \in S /\ Cardinality(below(Timeline!Nth(S, k))) = k
  <2>1. Timeline!Nth(S, k) = CHOOSE m \in S : Timeline!Cardinality(below(m)) = k
    BY DEF Timeline!Nth
  <2>2. \E m \in S : Timeline!Cardinality(below(m)) = k
    BY <1>2, SameCount
  <2> HIDE DEF below
  <2> QED BY <2>1, <2>2, SameCount
<1> QED BY <1>1, <1>3

\* The numbers of a set at two places differ.
LEMMA NthApart ==
  ASSUME NEW n \in Nat, NEW S \in SUBSET (1..n),
         NEW i \in 1..Cardinality(S), NEW j \in 1..Cardinality(S), i # j
  PROVE  Timeline!Nth(S, i) # Timeline!Nth(S, j)
<1> DEFINE below(m) == {x \in S : x <= m}
<1>1. Cardinality(below(Timeline!Nth(S, i))) = i /\ Cardinality(below(Timeline!Nth(S, j))) = j
  BY NthIs
<1> HIDE DEF below
<1> QED BY <1>1

\* OnceAt(l, S): of the entries at S, the list l shows no message twice.
OnceAt(l, S) ==
  \A i, j \in S : i # j =>
    /\ l[i].id # l[j].id \/ l[i].pending
    /\ l[i].key # l[j].key \/ l[i].key = "none"

\* A part of a list has its entries only, and each once if the list has.
LEMMA KeptIs ==
  ASSUME NEW E, NEW l \in Seq(E), NEW S \in SUBSET DOMAIN l
  PROVE  /\ Timeline!Kept(l, S) \in Seq(E)
         /\ \A i \in DOMAIN Timeline!Kept(l, S) : \E j \in S : Timeline!Kept(l, S)[i] = l[j]
         /\ OnceAt(l, S) => Once(Timeline!Kept(l, S))
<1> DEFINE n == Cardinality(S)
           k == Timeline!Kept(l, S)
<1>1. Len(l) \in Nat /\ S \in SUBSET (1..Len(l)) /\ \A j \in S : l[j] \in E
  BY LenProperties, ElementOfSeq
<1>2. n \in Nat /\ \A i \in 1..n : Timeline!Nth(S, i) \in S
  BY <1>1, NthIs
<1>3. k = [i \in 1..n |-> l[Timeline!Nth(S, i)]]
  BY SameCount DEF Timeline!Kept
<1>4. \A i \in 1..n : k[i] = l[Timeline!Nth(S, i)] /\ k[i] \in E
  BY <1>1, <1>2, <1>3
<1>5. k \in Seq(E) /\ DOMAIN k = 1..n
  <2>1. k \in [1..n -> E]
    BY <1>3, <1>4
  <2> QED BY <1>2, <2>1, SeqDef
<1>6. \A i, j \in 1..n : i # j => Timeline!Nth(S, i) # Timeline!Nth(S, j)
  BY <1>1, NthApart
<1> HIDE DEF n, k
<1>7. OnceAt(l, S) => Once(k)
  BY <1>2, <1>4, <1>5, <1>6 DEF OnceAt, Once
<1> QED BY <1>2, <1>4, <1>5, <1>7 DEF k

\* The entries of a list with the same identities, in the same places.
LEMMA Alike ==
  ASSUME NEW E, NEW l \in Seq(E), NEW F, NEW k, k = [i \in DOMAIN l |-> k[i]],
         \A i \in DOMAIN l : /\ k[i] \in F /\ k[i].id = l[i].id /\ k[i].key = l[i].key
                             /\ k[i].pending = l[i].pending
  PROVE  k \in Seq(F) /\ DOMAIN k = DOMAIN l /\ (Once(l) => Once(k))
<1>1. DOMAIN l = 1..Len(l) /\ Len(l) \in Nat
  BY LenProperties
<1>2. k \in [1..Len(l) -> F]
  BY <1>1
<1>3. k \in Seq(F) /\ DOMAIN k = DOMAIN l
  BY <1>1, <1>2, SeqDef
<1> QED BY <1>3 DEF Once

\* Waiting(k, l): what is being sent in the list k is being sent in l.
Waiting(k, l) ==
  \A i \in DOMAIN k : k[i].pending => \E j \in DOMAIN l : l[j].pending /\ l[j].key = k[i].key

\* What is known of an entry.
LEMMA EntryIs ==
  ASSUME NEW m \in Entries
  PROVE  /\ m.id \in 0..MaxId /\ m.key \in ClientKeys /\ m.pending \in BOOLEAN /\ m.count \in Nat
         /\ m.mine \in BOOLEAN /\ m.text \in Texts
         /\ m.pending => m.id = 0 /\ m.key # "none"
         /\ ~m.pending => m.id \in Ids /\ Known(m.id) /\ KeyFits(m.id, m.key) /\ m.id # 0
BY TimeConstants DEF Entries, Entry, Shows

\* A new text leaves an entry the same message.
LEMMA TextChanges ==
  ASSUME NEW m \in Entries, NEW t \in Texts
  PROVE  /\ [m EXCEPT !.text = t] \in Entries /\ [m EXCEPT !.text = t].id = m.id
         /\ [m EXCEPT !.text = t].key = m.key /\ [m EXCEPT !.text = t].pending = m.pending
<1>1. m \in Entry /\ Shows(m)
  BY DEF Entries
<1>2. /\ [m EXCEPT !.text = t] \in Entry /\ [m EXCEPT !.text = t].id = m.id
      /\ [m EXCEPT !.text = t].key = m.key /\ [m EXCEPT !.text = t].pending = m.pending
  BY <1>1 DEF Entry
<1> DEFINE x == [m EXCEPT !.text = t]
<1> HIDE DEF x
<1>3. x \in Entries
  BY <1>1, <1>2 DEF Entries, Shows, x
<1> QED BY <1>2, <1>3 DEF x

\* A part of a list.
LEMMA PartIs ==
  ASSUME NEW l \in Seq(Entries), NEW S \in SUBSET DOMAIN l
  PROVE  /\ Timeline!Kept(l, S) \in Seq(Entries) /\ Waiting(Timeline!Kept(l, S), l)
         /\ Once(l) => Once(Timeline!Kept(l, S))
<1>1. Once(l) => OnceAt(l, S)
  BY DEF Once, OnceAt
<1> QED BY <1>1, KeptIs DEF Waiting

\* A new message at the end is shown once when nothing in the list is it.
LEMMA AppendOnce ==
  ASSUME NEW l \in Seq(Entries), Once(l), NEW m \in Entries,
         \A i \in DOMAIN l : /\ l[i].id # m.id \/ (l[i].pending /\ m.pending)
                             /\ l[i].key # m.key \/ m.key = "none"
  PROVE  Append(l, m) \in Seq(Entries) /\ Once(Append(l, m))
<1> DEFINE k == Append(l, m)
<1>1. /\ Len(l) \in Nat /\ DOMAIN l = 1..Len(l) /\ k \in Seq(Entries) /\ DOMAIN k = 1..(Len(l) + 1)
      /\ k[Len(l) + 1] = m /\ \A i \in 1..Len(l) : k[i] = l[i]
  BY LenProperties, AppendProperties
<1> HIDE DEF k
<1>2. ASSUME NEW i \in DOMAIN k, NEW j \in DOMAIN k, i # j
      PROVE  /\ k[i].id # k[j].id \/ k[i].pending
             /\ k[i].key # k[j].key \/ k[i].key = "none"
  <2>1. CASE i \in DOMAIN l /\ j \in DOMAIN l
    BY <1>1, <1>2, <2>1 DEF Once
  <2>2. CASE i \in DOMAIN l /\ j \notin DOMAIN l
    <3>1. k[i] = l[i] /\ k[j] = m
      BY <1>1, <2>2
    <3> QED BY <2>2, <3>1
  <2>3. CASE i \notin DOMAIN l
    <3>1. k[i] = m /\ k[j] = l[j] /\ j \in DOMAIN l
      BY <1>1, <1>2, <2>3
    <3> QED BY <3>1
  <2> QED BY <2>1, <2>2, <2>3
<1> QED BY <1>1, <1>2 DEF Once, k

\* reconcileOptimisticMessage: the server's message replaces the one being sent.
LEMMA ReconcileIs ==
  ASSUME NEW l \in Seq(Entries), Once(l), NEW m \in Entries, ~m.pending
  PROVE  /\ Timeline!Reconcile(l, m) \in Seq(Entries) /\ Once(Timeline!Reconcile(l, m))
         /\ Waiting(Timeline!Reconcile(l, m), l)
<1> DEFINE mine == {i \in DOMAIN l : l[i].key = m.key}
           seen == {i \in DOMAIN l : l[i].id = m.id}
           new == [i \in DOMAIN l |-> IF i \in mine THEN m ELSE l[i]]
           stay == IF seen = {} THEN DOMAIN l ELSE (DOMAIN l \ mine) \cup seen
<1>1. Timeline!Reconcile(l, m) = IF m.key # "none" /\ mine # {} THEN Timeline!Kept(new, stay)
                                 ELSE IF seen # {} THEN l ELSE Append(l, m)
  BY DEF Timeline!Reconcile
<1>2. /\ Len(l) \in Nat /\ DOMAIN l = 1..Len(l) /\ \A i \in DOMAIN l : l[i] \in Entries
  BY LenProperties, ElementOfSeq
<1>3. ASSUME NEW i \in DOMAIN l, NEW j \in DOMAIN l, i # j
      PROVE  /\ l[i].id # l[j].id \/ l[i].pending
             /\ l[i].key # l[j].key \/ l[i].key = "none"
  BY <1>3 DEF Once
<1>4. \A i \in seen : ~l[i].pending
  BY <1>2, EntryIs
<1>5. CASE m.key # "none" /\ mine # {}
  <2>1. new \in Seq(Entries) /\ DOMAIN new = DOMAIN l
    <3>1. new \in [1..Len(l) -> Entries]
      BY <1>2
    <3> QED BY <1>2, <3>1, SeqDef
  <2>2. stay \subseteq DOMAIN l
    OBVIOUS
  <2>3. \A i \in DOMAIN l : new[i] = IF i \in mine THEN m ELSE l[i]
    OBVIOUS
  <2>4. \A i, j \in mine : i = j
    BY <1>3, <1>5
  <2>5. \A i, j \in seen : i = j
    BY <1>3, <1>4
  <2>6. \A i \in DOMAIN l : (i \in mine <=> l[i].key = m.key) /\ (i \in seen <=> l[i].id = m.id)
    OBVIOUS
  <2>7. \A i \in stay : i \in mine => seen = {} \/ i \in seen
    OBVIOUS
  <2> HIDE DEF mine, seen, new, stay
  <2>8. OnceAt(new, stay)
    <3>1. ASSUME NEW i \in stay, NEW j \in stay, i # j
          PROVE  /\ new[i].id # new[j].id \/ new[i].pending
                 /\ new[i].key # new[j].key \/ new[i].key = "none"
      <4>0. i \in DOMAIN l /\ j \in DOMAIN l
        BY <2>2
      <4>1. CASE i \notin mine /\ j \notin mine
        BY <1>3, <2>3, <3>1, <4>0, <4>1
      <4>2. CASE i \in mine
        <5>1. j \notin mine /\ j \notin seen
          BY <2>4, <2>5, <2>7, <3>1, <4>2
        <5>2. new[i] = m /\ new[j] = l[j]
          BY <2>3, <4>0, <4>2, <5>1
        <5> QED BY <2>6, <4>0, <5>1, <5>2
      <4>3. CASE i \notin mine /\ j \in mine
        <5>1. i \notin seen
          BY <2>5, <2>7, <3>1, <4>3
        <5>2. new[i] = l[i] /\ new[j] = m
          BY <2>3, <4>0, <4>3
        <5> QED BY <2>6, <4>0, <4>3, <5>1, <5>2
      <4> QED BY <4>1, <4>2, <4>3
    <3> QED BY <3>1 DEF OnceAt
  <2>9. /\ Timeline!Kept(new, stay) \in Seq(Entries) /\ Once(Timeline!Kept(new, stay))
        /\ \A i \in DOMAIN Timeline!Kept(new, stay) :
             \E j \in stay : Timeline!Kept(new, stay)[i] = new[j]
    BY <2>1, <2>2, <2>8, KeptIs
  <2>10. Waiting(Timeline!Kept(new, stay), l)
    <3>1. \A j \in stay : new[j].pending => j \in DOMAIN l /\ new[j] = l[j]
      BY <2>2, <2>3
    <3> QED BY <2>9, <3>1 DEF Waiting
  <2> QED BY <1>1, <1>5, <2>9, <2>10
<1>6. CASE ~(m.key # "none" /\ mine # {}) /\ seen # {}
  <2>1. Timeline!Reconcile(l, m) = l
    BY <1>1, <1>6
  <2> QED BY <2>1 DEF Waiting
<1>7. CASE ~(m.key # "none" /\ mine # {}) /\ seen = {}
  <2>1. Timeline!Reconcile(l, m) = Append(l, m)
    BY <1>1, <1>7
  <2>2. \A i \in DOMAIN l : l[i].id # m.id /\ (l[i].key # m.key \/ m.key = "none")
    BY <1>7
  <2>3. Append(l, m) \in Seq(Entries) /\ Once(Append(l, m))
    BY <2>2, AppendOnce
  <2>4. Waiting(Append(l, m), l)
    <3>1. /\ DOMAIN Append(l, m) = 1..(Len(l) + 1) /\ Append(l, m)[Len(l) + 1] = m
          /\ \A i \in 1..Len(l) : Append(l, m)[i] = l[i]
      BY <1>2, AppendProperties, LenProperties
    <3>2. \A i \in 1..(Len(l) + 1) : i = Len(l) + 1 \/ i \in 1..Len(l)
      BY <1>2
    <3> QED BY <1>2, <3>1, <3>2 DEF Waiting
  <2> QED BY <2>1, <2>3, <2>4
<1> QED BY <1>5, <1>6, <1>7

\* dedupeMessages: pages put together show each message once.
LEMMA DedupeIs ==
  ASSUME NEW page \in Seq(Entries), Once(page), \A i \in DOMAIN page : page[i].key = "none",
         NEW l \in Seq(Entries), Once(l)
  PROVE  /\ Timeline!Dedupe(page \o l) \in Seq(Entries) /\ Once(Timeline!Dedupe(page \o l))
         /\ Waiting(Timeline!Dedupe(page \o l), l)
<1> DEFINE all == page \o l
           n == Len(page)
           stay == {i \in DOMAIN all : \/ all[i].pending
                                       \/ \A j \in 1..(i - 1) : all[j].pending \/ all[j].id # all[i].id}
<1>1. Timeline!Dedupe(all) = Timeline!Kept(all, stay)
  BY DEF Timeline!Dedupe
<1>2. /\ n \in Nat /\ Len(l) \in Nat /\ DOMAIN l = 1..Len(l) /\ DOMAIN page = 1..n
      /\ all \in Seq(Entries) /\ DOMAIN all = 1..(n + Len(l)) /\ \A i \in DOMAIN all : all[i] \in Entries
      /\ \A i \in DOMAIN all : all[i] = IF i <= n THEN page[i] ELSE l[i - n]
  <2>1. n \in Nat /\ Len(l) \in Nat /\ DOMAIN l = 1..Len(l) /\ DOMAIN page = 1..n
    BY LenProperties
  <2>2. /\ all \in Seq(Entries) /\ Len(all) = n + Len(l)
        /\ \A i \in 1..(n + Len(l)) : all[i] = IF i <= n THEN page[i] ELSE l[i - n]
    BY ConcatProperties
  <2>3. DOMAIN all = 1..(n + Len(l)) /\ \A i \in DOMAIN all : all[i] \in Entries
    BY <2>2, LenProperties, ElementOfSeq
  <2> QED BY <2>1, <2>2, <2>3
<1>3. stay \subseteq DOMAIN all
  OBVIOUS
<1>4. \A i \in stay : ~all[i].pending => \A j \in 1..(i - 1) : all[j].pending \/ all[j].id # all[i].id
  OBVIOUS
<1> HIDE DEF all, stay, n
<1>5. ASSUME NEW i \in DOMAIN all, i > n PROVE i - n \in DOMAIN l /\ all[i] = l[i - n]
  BY <1>2, <1>5
<1>6. ASSUME NEW i \in DOMAIN all, i <= n PROVE all[i].key = "none" /\ ~all[i].pending
  <2>1. i \in DOMAIN page /\ all[i] = page[i]
    BY <1>2, <1>6
  <2>2. all[i].key = "none"
    BY <2>1
  <2> QED BY <1>2, <2>2, EntryIs
<1>7. OnceAt(all, stay)
  <2>1. ASSUME NEW i \in stay, NEW j \in stay, i # j
        PROVE  /\ all[i].id # all[j].id \/ all[i].pending
               /\ all[i].key # all[j].key \/ all[i].key = "none"
    <3>1. i \in DOMAIN all /\ j \in DOMAIN all /\ i \in Nat /\ j \in Nat
      BY <1>2, <1>3
    <3>2. all[i].id # all[j].id \/ all[i].pending
      <4>1. CASE all[j].pending
        BY <1>2, <3>1, <4>1, EntryIs
      <4>2. CASE ~all[j].pending /\ ~all[i].pending
        <5>1. CASE i < j
          <6>1. i \in 1..(j - 1)
            BY <1>2, <3>1, <5>1
          <6> QED BY <1>4, <4>2, <6>1
        <5>2. CASE j < i
          <6>1. j \in 1..(i - 1)
            BY <1>2, <3>1, <5>2
          <6> QED BY <1>4, <4>2, <6>1
        <5> QED BY <2>1, <3>1, <5>1, <5>2
      <4> QED BY <4>1, <4>2
    <3>3. all[i].key # all[j].key \/ all[i].key = "none"
      <4>1. CASE i > n /\ j > n
        <5>1. /\ i - n \in DOMAIN l /\ all[i] = l[i - n] /\ j - n \in DOMAIN l /\ all[j] = l[j - n]
              /\ i - n # j - n
          BY <1>2, <1>5, <2>1, <3>1, <4>1
        <5> QED BY <5>1 DEF Once
      <4>2. CASE i <= n \/ j <= n
        BY <1>6, <3>1, <4>2
      <4> QED BY <1>2, <3>1, <4>1, <4>2
    <3> QED BY <3>2, <3>3
  <2> QED BY <2>1 DEF OnceAt
<1>8. /\ Timeline!Kept(all, stay) \in Seq(Entries) /\ Once(Timeline!Kept(all, stay))
      /\ Waiting(Timeline!Kept(all, stay), all)
  BY <1>2, <1>3, <1>7, KeptIs, PartIs
<1>9. \A i \in DOMAIN all : all[i].pending => i - n \in DOMAIN l /\ all[i] = l[i - n]
  <2>1. \A i \in DOMAIN all : i <= n \/ i > n
    BY <1>2
  <2> QED BY <1>5, <1>6, <2>1
<1>10. Waiting(Timeline!Kept(all, stay), l)
  BY <1>8, <1>9 DEF Waiting
<1> QED BY <1>1, <1>8, <1>10 DEF all

\* A list with an entry put back in it.
LEMMA InsertIs ==
  ASSUME NEW l \in Seq(Entries), NEW at \in 1..(Len(l) + 1), NEW m \in Entries
  PROVE  /\ Timeline!InsertAt(l, at, m) \in Seq(Entries)
         /\ DOMAIN Timeline!InsertAt(l, at, m) = 1..(Len(l) + 1)
         /\ \A i \in 1..(Len(l) + 1) :
              Timeline!InsertAt(l, at, m)[i] = IF i < at THEN l[i] ELSE IF i = at THEN m ELSE l[i - 1]
<1> DEFINE a == SubSeq(l, 1, at - 1)
           b == SubSeq(l, at, Len(l))
           c == <<m>>
<1>1. Timeline!InsertAt(l, at, m) = a \o c \o b
  BY DEF Timeline!InsertAt
<1>2. Len(l) \in Nat /\ at \in Nat /\ at >= 1 /\ at <= Len(l) + 1 /\ \A i \in 1..Len(l) : l[i] \in Entries
  BY LenProperties, ElementOfSeq
<1>3. a \in Seq(Entries) /\ Len(a) = at - 1 /\ \A i \in 1..(at - 1) : a[i] = l[i]
  <2>1. /\ a \in Seq(Entries) /\ Len(a) = (IF 1 <= at - 1 THEN at - 1 - 1 + 1 ELSE 0)
        /\ \A i \in 1..(at - 1 - 1 + 1) : a[i] = l[1 + i - 1]
    BY <1>2, SubSeqProperties
  <2> HIDE DEF a
  <2> QED BY <1>2, <2>1
<1>4. b \in Seq(Entries) /\ Len(b) = Len(l) - at + 1 /\ \A i \in 1..(Len(l) - at + 1) : b[i] = l[at + i - 1]
  <2>1. /\ b \in Seq(Entries) /\ Len(b) = (IF at <= Len(l) THEN Len(l) - at + 1 ELSE 0)
        /\ \A i \in 1..(Len(l) - at + 1) : b[i] = l[at + i - 1]
    BY <1>2, SubSeqProperties
  <2> HIDE DEF b
  <2> QED BY <1>2, <2>1
<1>5. c \in Seq(Entries) /\ Len(c) = 1 /\ c[1] = m
  OBVIOUS
<1> HIDE DEF a, b, c
<1>6. /\ a \o c \in Seq(Entries) /\ Len(a \o c) = at
      /\ \A i \in 1..at : (a \o c)[i] = IF i <= at - 1 THEN a[i] ELSE c[i - (at - 1)]
  <2>1. /\ a \o c \in Seq(Entries) /\ Len(a \o c) = Len(a) + Len(c)
        /\ \A i \in 1..(Len(a) + Len(c)) : (a \o c)[i] = IF i <= Len(a) THEN a[i] ELSE c[i - Len(a)]
    BY <1>3, <1>5, ConcatProperties
  <2>2. Len(a) + Len(c) = at
    BY <1>2, <1>3, <1>5
  <2> QED BY <1>3, <2>1, <2>2
<1>7. /\ a \o c \o b \in Seq(Entries) /\ Len(a \o c \o b) = Len(l) + 1
      /\ \A i \in 1..(Len(l) + 1) : (a \o c \o b)[i] = IF i <= at THEN (a \o c)[i] ELSE b[i - at]
  <2> DEFINE ac == a \o c
  <2>0. ac \in Seq(Entries) /\ Len(ac) = at
    BY <1>6
  <2> HIDE DEF ac
  <2>1. /\ ac \o b \in Seq(Entries) /\ Len(ac \o b) = Len(ac) + Len(b)
        /\ \A i \in 1..(Len(ac) + Len(b)) : (ac \o b)[i] = IF i <= Len(ac) THEN ac[i] ELSE b[i - Len(ac)]
    BY <2>0, <1>4, ConcatProperties
  <2>2. Len(ac) + Len(b) = Len(l) + 1
    BY <1>2, <1>4, <2>0
  <2> QED BY <2>0, <2>1, <2>2 DEF ac
<1>8. ASSUME NEW i \in 1..(Len(l) + 1)
      PROVE  (a \o c \o b)[i] = IF i < at THEN l[i] ELSE IF i = at THEN m ELSE l[i - 1]
  <2>1. CASE i < at
    BY <1>2, <1>3, <1>6, <1>7, <2>1
  <2>2. CASE i = at
    <3>1. i - (at - 1) = 1 /\ ~(i <= at - 1) /\ i \in 1..at /\ i <= at
      BY <1>2, <2>2
    <3> QED BY <1>2, <1>5, <1>6, <1>7, <2>2, <3>1
  <2>3. CASE i > at
    <3>1. i - at \in 1..(Len(l) - at + 1) /\ at + (i - at) - 1 = i - 1
      BY <1>2, <2>3
    <3>2. b[i - at] = l[at + (i - at) - 1]
      BY <1>4, <3>1
    <3>3. (a \o c \o b)[i] = b[i - at]
      BY <1>2, <1>7, <2>3
    <3>4. ~(i < at) /\ i # at
      BY <1>2, <2>3
    <3> QED BY <3>1, <3>2, <3>3, <3>4
  <2>4. i < at \/ i = at \/ i > at
    BY <1>2
  <2> QED BY <2>1, <2>2, <2>3, <2>4
<1> QED BY <1>1, <1>7, <1>8, LenProperties

\* A removal that failed puts its message back once.
LEMMA InsertOnce ==
  ASSUME NEW l \in Seq(Entries), Once(l), NEW at \in 1..(Len(l) + 1), NEW m \in Entries, ~m.pending,
         \A i \in DOMAIN l : l[i].id # m.id /\ (l[i].key # m.key \/ m.key = "none")
  PROVE  /\ Once(Timeline!InsertAt(l, at, m)) /\ Waiting(Timeline!InsertAt(l, at, m), l)
<1> DEFINE k == Timeline!InsertAt(l, at, m)
           old(i) == IF i < at THEN i ELSE i - 1
<1>1. /\ DOMAIN k = 1..(Len(l) + 1)
      /\ \A i \in 1..(Len(l) + 1) : k[i] = IF i < at THEN l[i] ELSE IF i = at THEN m ELSE l[i - 1]
  BY InsertIs
<1>2. Len(l) \in Nat /\ at \in Nat /\ DOMAIN l = 1..Len(l) /\ at <= Len(l) + 1 /\ at >= 1
  BY LenProperties
<1> HIDE DEF k
<1>3. ASSUME NEW i \in DOMAIN k, i # at PROVE old(i) \in DOMAIN l /\ k[i] = l[old(i)]
  BY <1>1, <1>2, <1>3
<1>4. ASSUME NEW i \in DOMAIN k, NEW j \in DOMAIN k, i # j, i # at, j # at PROVE old(i) # old(j)
  BY <1>1, <1>2, <1>4
<1>5. k[at] = m
  BY <1>1, <1>2
<1> HIDE DEF old
<1>6. ASSUME NEW i \in DOMAIN k, NEW j \in DOMAIN k, i # j
      PROVE  /\ k[i].id # k[j].id \/ k[i].pending
             /\ k[i].key # k[j].key \/ k[i].key = "none"
  <2>1. CASE i = at
    BY <1>3, <1>5, <1>6, <2>1
  <2>2. CASE i # at /\ j = at
    BY <1>3, <1>5, <1>6, <2>2
  <2>3. CASE i # at /\ j # at
    <3>1. /\ old(i) \in DOMAIN l /\ old(j) \in DOMAIN l /\ old(i) # old(j)
          /\ k[i] = l[old(i)] /\ k[j] = l[old(j)]
      BY <1>3, <1>4, <1>6, <2>3
    <3> QED BY <3>1 DEF Once
  <2> QED BY <2>1, <2>2, <2>3
<1>7. Waiting(k, l)
  BY <1>3, <1>5 DEF Waiting
<1> QED BY <1>6, <1>7 DEF Once, k

-----------------------------------------------------------------------------
(* The timeline's steps                                                     *)

\* A room that keeps its messages keeps what is said of them.
LEMMA RoomGrows ==
  ASSUME \A id \in Ids : Known(id) => room'[id].state # "none" /\ room'[id].key = room[id].key
  PROVE  Entries \subseteq Entries' /\ Events \subseteq Events'
<1>1. ASSUME NEW m \in Entries PROVE m \in Entries'
  <2>1. m \in Entry /\ Shows(m)
    BY DEF Entries
  <2>2. IF m.pending THEN m.id = 0 /\ m.key # "none"
        ELSE m.id \in Ids /\ room'[m.id].state # "none" /\ (m.key = "none" \/ m.key = room'[m.id].key)
    BY <2>1 DEF Shows, Known, KeyFits
  <2> QED BY <2>1, <2>2 DEF Entries, Shows, Known, KeyFits
<1>2. Told \subseteq Told'
  BY DEF Told, Known, KeyFits
<1> QED BY <1>1, <1>2 DEF Events

\* What is said of the room's messages stays with the room.
LEMMA SameRoom ==
  ASSUME UNCHANGED room
  PROVE  Entries' = Entries /\ Events' = Events /\ Fetch' = Fetch /\ Removal' = Removal
<1>1. Entries' = Entries
  BY DEF Entries, Shows, Known, KeyFits
<1>2. Told' = Told
  BY DEF Told, Known, KeyFits
<1> QED BY <1>1, <1>2 DEF Events, Fetch, Removal

\* The room and the network stay.
LEMMA ServerSame ==
  ASSUME ListInv, UNCHANGED <<room, texts, wire, frames, joined>>
  PROVE  RoomTypes' /\ KeysApart'
BY SameRoom DEF ListInv, RoomTypes, KeysApart

\* The list and the pages stay.
LEMMA ListSame ==
  ASSUME ListInv, UNCHANGED <<room, list, more, fetch>>
  PROVE  /\ list' \in Seq(Entries') /\ more' \in [has : BOOLEAN, next : 0..MaxId] /\ fetch' \in Fetch'
         /\ Once(list)' /\ PageOnce'
BY SameRoom DEF ListInv, ListTypes, PageOnce, Once

\* An edit request is about the same message all along.
LEMMA EditMoves ==
  ASSUME edit \in Edit, NEW b \in BOOLEAN,
         NEW s \in {"none", "open", "sent", "done", "failed"}, NEW t \in Texts
  PROVE  /\ [edit EXCEPT !.stale = b] \in Edit /\ [edit EXCEPT !.stale = b].id = edit.id
         /\ [edit EXCEPT !.stale = b].state = edit.state
         /\ [edit EXCEPT !.state = s] \in Edit /\ [edit EXCEPT !.state = s].id = edit.id
         /\ [edit EXCEPT !.state = s, !.stale = b] \in Edit /\ [edit EXCEPT !.state = s, !.stale = b].id = edit.id
         /\ [edit EXCEPT !.text = t, !.state = s] \in Edit /\ [edit EXCEPT !.text = t, !.state = s].id = edit.id
BY DEF Edit

\* A removal is about the same message all along.
LEMMA RemovalMoves ==
  ASSUME removal \in Removal, NEW b \in BOOLEAN, NEW n \in Nat,
         NEW s \in {"none", "open", "sent", "done", "failed"}
  PROVE  /\ [removal EXCEPT !.stale = b] \in Removal /\ [removal EXCEPT !.stale = b].id = removal.id
         /\ [removal EXCEPT !.stale = b].state = removal.state
         /\ [removal EXCEPT !.stale = b].entry = removal.entry
         /\ [removal EXCEPT !.state = s] \in Removal /\ [removal EXCEPT !.state = s].id = removal.id
         /\ [removal EXCEPT !.state = s].entry = removal.entry
         /\ [removal EXCEPT !.state = s, !.stale = b] \in Removal
         /\ [removal EXCEPT !.state = s, !.stale = b].id = removal.id
         /\ [removal EXCEPT !.state = s, !.stale = b].entry = removal.entry
         /\ [removal EXCEPT !.state = s, !.at = n] \in Removal
         /\ [removal EXCEPT !.state = s, !.at = n].id = removal.id
         /\ [removal EXCEPT !.state = s, !.at = n].entry = removal.entry
BY DEF Removal

NoRequests ==
  /\ Timeline!NoEdit \in Edit /\ Timeline!NoEdit.state = "none"
  /\ Timeline!NoRemoval \in Removal /\ Timeline!NoRemoval.state = "none"

\* No request is one.
LEMMA Nothing == NoRequests
<1>1. 0 \in Texts /\ 0 \in 0..MaxId
  BY TimeConstants DEF Texts
<1> QED BY <1>1 DEF NoRequests, Timeline!NoEdit, Timeline!NoRemoval, Edit, Removal

\* A removal under way goes on for the same message.
LEMMA RemovedStays ==
  ASSUME ListInv, UNCHANGED room, Waiting(list', list),
         \/ removal'.state = "none"
         \/ removal'.id = removal.id /\ removal'.entry = removal.entry /\ removal.state # "none"
  PROVE  Removed'
<1> SUFFICES ASSUME removal'.state # "none"
             PROVE  /\ removal'.entry \in Entries' /\ ~removal'.entry.pending /\ removal'.entry.id = removal'.id
                    /\ \A i \in DOMAIN list' : list'[i].pending => list'[i].key # removal'.entry.key
  BY DEF Removed
<1>1. /\ removal.entry \in Entries /\ ~removal.entry.pending /\ removal.entry.id = removal.id
      /\ \A i \in DOMAIN list : list[i].pending => list[i].key # removal.entry.key
  BY DEF ListInv, Removed
<1> QED BY <1>1, SameRoom DEF Waiting

\* The same list has the same messages being sent.
LEMMA WaitingSame == ASSUME UNCHANGED list PROVE Waiting(list', list)
BY DEF Waiting

\* Requests move on, and nothing else does.
LEMMA RequestsMove ==
  ASSUME ListInv, UNCHANGED <<room, texts, wire, frames, joined, list, more, fetch>>,
         edit' \in Edit, edit'.state # "none" => edit'.id \in Ids,
         removal' \in Removal, removal'.state # "none" => removal'.id \in Ids, Removed'
  PROVE  ListInv'
<1>1. ListTypes'
  BY ListSame, SameRoom DEF ListTypes
<1> QED BY <1>1, ListSame, ServerSame DEF ListInv

\* Only the edit request moves.
LEMMA EditAlone ==
  ASSUME ListInv, UNCHANGED <<room, texts, wire, frames, joined, list, more, fetch, removal>>,
         edit' \in Edit, edit'.state # "none" => edit'.id \in Ids
  PROVE  ListInv'
<1>1. removal' \in Removal /\ (removal'.state # "none" => removal'.id \in Ids)
  BY DEF ListInv, ListTypes
<1>2. Removed'
  BY RemovedStays, WaitingSame
<1> QED BY <1>1, <1>2, RequestsMove

\* Only the removal moves.
LEMMA RemovalAlone ==
  ASSUME ListInv, UNCHANGED <<room, texts, wire, frames, joined, list, more, fetch, edit>>,
         removal' \in Removal,
         \/ removal'.state = "none"
         \/ removal'.id = removal.id /\ removal'.entry = removal.entry /\ removal.state # "none"
  PROVE  ListInv'
<1>1. edit' \in Edit /\ (edit'.state # "none" => edit'.id \in Ids)
  BY DEF ListInv, ListTypes
<1>2. removal'.state # "none" => removal'.id \in Ids
  BY DEF ListInv, ListTypes
<1>3. Removed'
  BY RemovedStays, WaitingSame
<1> QED BY <1>1, <1>2, <1>3, RequestsMove

\* The list changes, and of the requests what goes with it.
LEMMA ListMoves ==
  ASSUME ListInv, UNCHANGED room, RoomTypes', KeysApart',
         list' \in Seq(Entries), Once(list'), more' \in [has : BOOLEAN, next : 0..MaxId],
         fetch' \in Fetch, PageOnce',
         edit' \in Edit, edit'.state # "none" => edit'.id \in Ids,
         removal' \in Removal, removal'.state # "none" => removal'.id \in Ids, Removed'
  PROVE  ListInv'
<1>2. ListTypes'
  BY SameRoom DEF ListTypes
<1>3. Once(list)'
  BY DEF Once
<1> QED BY <1>2, <1>3 DEF ListInv

\* The entry of a message in the list.
LEMMA EntryIsThere ==
  ASSUME ListInv, NEW id \in Ids, Timeline!Has(list, id)
  PROVE  /\ Timeline!Place(list, id) \in DOMAIN list /\ Timeline!Place(list, id) \in Nat
         /\ Timeline!Entry(id) = list[Timeline!Place(list, id)]
         /\ Timeline!Entry(id) \in Entries /\ Timeline!Entry(id).id = id /\ ~Timeline!Entry(id).pending
         /\ \A i \in DOMAIN list : list[i].pending => list[i].key # Timeline!Entry(id).key
<1>1. Timeline!Place(list, id) \in DOMAIN list /\ list[Timeline!Place(list, id)].id = id
  BY DEF Timeline!Place, Timeline!Has
<1>2. list \in Seq(Entries) /\ Once(list)
  BY DEF ListInv, ListTypes
<1>3. Timeline!Place(list, id) \in 1..Len(list)
  BY <1>1, <1>2, LenProperties
<1>4. Timeline!Entry(id) = list[Timeline!Place(list, id)] /\ Timeline!Entry(id) \in Entries
  BY <1>2, <1>3, ElementOfSeq DEF Timeline!Entry
<1>5. Timeline!Entry(id).id = id /\ id # 0
  BY <1>1, <1>4, TimeConstants
<1>6. ~Timeline!Entry(id).pending
  BY <1>4, <1>5, EntryIs
<1>7. ASSUME NEW i \in DOMAIN list, list[i].pending PROVE list[i].key # Timeline!Entry(id).key
  <2>1. list[i] \in Entries
    BY <1>2, LenProperties, ElementOfSeq
  <2>2. list[i].key # "none"
    BY <1>7, <2>1, EntryIs
  <2>3. i # Timeline!Place(list, id)
    BY <1>4, <1>6, <1>7
  <2> QED BY <1>1, <1>2, <1>4, <2>2, <2>3 DEF Once
<1> QED BY <1>1, <1>3, <1>4, <1>5, <1>6, <1>7

\* The texts of a message change in the list.
LEMMA TextsChange ==
  ASSUME ListInv, NEW id, NEW t \in Texts,
         list' = [i \in DOMAIN list |-> IF list[i].id = id THEN [list[i] EXCEPT !.text = t] ELSE list[i]]
  PROVE  list' \in Seq(Entries) /\ Once(list') /\ Waiting(list', list)
<1>1. list \in Seq(Entries) /\ Once(list)
  BY DEF ListInv, ListTypes
<1>2. ASSUME NEW i \in DOMAIN list
      PROVE  /\ list'[i] \in Entries /\ list'[i].id = list[i].id /\ list'[i].key = list[i].key
             /\ list'[i].pending = list[i].pending
  <2>1. list[i] \in Entries
    BY <1>1, LenProperties, ElementOfSeq
  <2>2. list'[i] = IF list[i].id = id THEN [list[i] EXCEPT !.text = t] ELSE list[i]
    OBVIOUS
  <2>3. 0 \in Nat /\ TRUE \in BOOLEAN
    OBVIOUS
  <2> DEFINE x == [list[i] EXCEPT !.text = t]
  <2>4. x \in Entries /\ x.id = list[i].id /\ x.key = list[i].key /\ x.pending = list[i].pending
    BY <2>1, <2>3, TextChanges
  <2>5. list'[i] = IF list[i].id = id THEN x ELSE list[i]
    BY <2>2
  <2> HIDE DEF x
  <2> QED BY <2>1, <2>4, <2>5
<1>3. list' = [i \in DOMAIN list |-> list'[i]]
  OBVIOUS
<1>4. list' \in Seq(Entries) /\ DOMAIN list' = DOMAIN list /\ Once(list')
  BY ONLY <1>1, <1>2, <1>3, Alike
<1> QED BY <1>2, <1>4 DEF Waiting

\* handleEdit and what follows, up to undoing it.
LEMMA Edits ==
  ASSUME ListInv,
         \/ \E id \in Ids : Timeline!HandleEdit(id)
         \/ Timeline!CancelEdit \/ Timeline!SendEdit \/ Timeline!EditIsRefused
         \/ Timeline!EditAnswerIsLost \/ Timeline!EditIsAnswered
  PROVE  ListInv'
<1>1. edit \in Edit /\ (edit.state # "none" => edit.id \in Ids) /\ texts \in Texts
  BY DEF ListInv, ListTypes, RoomTypes
<1>2. ASSUME NEW id \in Ids, Timeline!HandleEdit(id) PROVE ListInv'
  <2>1. Timeline!Entry(id).text \in Texts
    BY <1>2, EntryIsThere, EntryIs DEF Timeline!HandleEdit
  <2>2. /\ UNCHANGED <<room, texts, wire, frames, joined, list, more, fetch, removal>>
        /\ edit' = [Timeline!NoEdit EXCEPT !.id = id, !.old = Timeline!Entry(id).text, !.state = "open"]
    BY <1>2 DEF Timeline!HandleEdit, Timeline!server, Timeline!net
  <2>3. id \in 0..MaxId /\ Timeline!NoEdit \in Edit
    BY TimeConstants, Nothing DEF NoRequests
  <2>4. edit' \in Edit /\ edit'.id = id
    BY <2>1, <2>2, <2>3 DEF Edit
  <2> QED BY <2>2, <2>4, EditAlone
<1>3. CASE Timeline!CancelEdit
  <2>1. /\ UNCHANGED <<room, texts, wire, frames, joined, list, more, fetch, removal>>
        /\ edit' = Timeline!NoEdit
    BY <1>3 DEF Timeline!CancelEdit, Timeline!server, Timeline!net
  <2> QED BY <2>1, Nothing, EditAlone DEF NoRequests
<1>4. CASE Timeline!EditIsRefused \/ Timeline!EditAnswerIsLost
  <2>1. /\ UNCHANGED <<room, texts, wire, frames, joined, list, more, fetch, removal>>
        /\ edit.state # "none"
        /\ \/ edit' = [edit EXCEPT !.state = "failed"]
           \/ edit' = [edit EXCEPT !.state = "failed", !.stale = TRUE]
    BY <1>4 DEF Timeline!EditIsRefused, Timeline!EditAnswerIsLost, Timeline!server, Timeline!net
  <2>2. edit' \in Edit /\ edit'.id = edit.id
    BY <1>1, <2>1, EditMoves
  <2> QED BY <1>1, <2>1, <2>2, EditAlone
<1>5. CASE Timeline!SendEdit
  <2>1. /\ UNCHANGED <<room, wire, frames, joined, more, fetch, removal>>
        /\ edit.state = "open" /\ texts < MaxText /\ texts' = texts + 1
        /\ edit' = [edit EXCEPT !.text = texts + 1, !.state = "sent"]
        /\ list' = [i \in DOMAIN list |-> IF list[i].id = edit.id THEN [list[i] EXCEPT !.text = texts + 1]
                                          ELSE list[i]]
    BY <1>5 DEF Timeline!SendEdit, Timeline!net, Timeline!Change
  <2>2. texts + 1 \in Texts
    BY <1>1, <2>1, TimeConstants DEF Texts
  <2>3. list' \in Seq(Entries) /\ Once(list') /\ Waiting(list', list)
    BY <2>1, <2>2, TextsChange
  <2>4. edit' \in Edit /\ edit'.id = edit.id
    BY <1>1, <2>1, <2>2, EditMoves
  <2>5. RoomTypes' /\ KeysApart'
    BY <2>1, <2>2, SameRoom DEF ListInv, RoomTypes, KeysApart
  <2>6. /\ more' \in [has : BOOLEAN, next : 0..MaxId] /\ fetch' \in Fetch /\ PageOnce'
        /\ removal' \in Removal /\ (removal'.state # "none" => removal'.id \in Ids)
    BY <2>1 DEF ListInv, ListTypes, PageOnce, Once
  <2>7. Removed'
    BY <2>1, <2>3, RemovedStays
  <2> QED BY <1>1, <2>1, <2>3, <2>4, <2>5, <2>6, <2>7, ListMoves
<1>6. CASE Timeline!EditIsAnswered
  <2>1. /\ UNCHANGED <<room, texts, wire, frames, joined, more, fetch, removal>>
        /\ edit' = Timeline!NoEdit
        /\ \/ UNCHANGED list
           \/ list' = [i \in DOMAIN list |-> IF list[i].id = edit.id THEN [list[i] EXCEPT !.text = edit.old]
                                             ELSE list[i]]
    BY <1>6 DEF Timeline!EditIsAnswered, Timeline!server, Timeline!net, Timeline!Undone, Timeline!Change
  <2>2. edit.old \in Texts
    BY <1>1 DEF Edit
  <2>3. list' \in Seq(Entries) /\ Once(list') /\ Waiting(list', list)
    <3>1. CASE UNCHANGED list
      BY <3>1, WaitingSame DEF ListInv, ListTypes, Once
    <3>2. CASE list' = [i \in DOMAIN list |-> IF list[i].id = edit.id THEN [list[i] EXCEPT !.text = edit.old]
                                              ELSE list[i]]
      BY <2>2, <3>2, TextsChange
    <3> QED BY <2>1, <3>1, <3>2
  <2>4. edit' \in Edit /\ edit'.state = "none"
    BY <2>1, Nothing DEF NoRequests
  <2>5. RoomTypes' /\ KeysApart'
    BY <2>1, ServerSame
  <2>6. /\ more' \in [has : BOOLEAN, next : 0..MaxId] /\ fetch' \in Fetch /\ PageOnce'
        /\ removal' \in Removal /\ (removal'.state # "none" => removal'.id \in Ids)
    BY <2>1 DEF ListInv, ListTypes, PageOnce, Once
  <2>7. Removed'
    BY <2>1, <2>3, RemovedStays
  <2> QED BY <2>1, <2>3, <2>4, <2>5, <2>6, <2>7, ListMoves
<1> QED BY <1>2, <1>3, <1>4, <1>5, <1>6

\* handleDelete and what follows, up to putting the message back.
LEMMA Removals ==
  ASSUME ListInv,
         \/ \E id \in Ids : Timeline!HandleDelete(id)
         \/ Timeline!CloseDialog \/ Timeline!ConfirmDelete \/ Timeline!RemovalIsRefused
         \/ Timeline!RemovalAnswerIsLost \/ Timeline!RemovalIsAnswered
  PROVE  ListInv'
<1>1. /\ removal \in Removal /\ (removal.state # "none" => removal.id \in Ids) /\ removal.stale \in BOOLEAN
      /\ list \in Seq(Entries) /\ Once(list)
  BY DEF ListInv, ListTypes, Removal
<1>2. ASSUME NEW id \in Ids, Timeline!HandleDelete(id) PROVE ListInv'
  <2> DEFINE late == edit.id = id /\ edit.state # "open"
             new == [Timeline!NoRemoval EXCEPT !.id = id, !.entry = Timeline!Entry(id), !.state = "open",
                                               !.stale = late]
  <2>1. /\ UNCHANGED <<room, texts, wire, frames, joined, list, more, fetch, edit>>
        /\ removal' = new /\ Timeline!Has(list, id)
    BY <1>2 DEF Timeline!HandleDelete, Timeline!server, Timeline!net
  <2>2. /\ Timeline!Entry(id) \in Entries /\ Timeline!Entry(id).id = id /\ ~Timeline!Entry(id).pending
        /\ \A i \in DOMAIN list : list[i].pending => list[i].key # Timeline!Entry(id).key
    BY <2>1, EntryIsThere
  <2>3. id \in 0..MaxId /\ Timeline!NoRemoval \in Removal /\ late \in BOOLEAN
    BY TimeConstants, Nothing DEF NoRequests
  <2>4. new \in Removal /\ new.id = id /\ new.entry = Timeline!Entry(id)
    <3> HIDE DEF late
    <3> QED BY <2>2, <2>3 DEF Removal
  <2> HIDE DEF new, late
  <2>5. Removed'
    BY <2>1, <2>2, <2>4, SameRoom DEF Removed
  <2>6. edit' \in Edit /\ (edit'.state # "none" => edit'.id \in Ids)
    BY <2>1 DEF ListInv, ListTypes
  <2> QED BY <2>1, <2>4, <2>5, <2>6, RequestsMove
<1>3. CASE Timeline!CloseDialog
  <2>1. /\ UNCHANGED <<room, texts, wire, frames, joined, list, more, fetch, edit>>
        /\ removal' = Timeline!NoRemoval
    BY <1>3 DEF Timeline!CloseDialog, Timeline!server, Timeline!net
  <2> QED BY <2>1, Nothing, RemovalAlone DEF NoRequests
<1>4. CASE Timeline!RemovalIsRefused \/ Timeline!RemovalAnswerIsLost
  <2> DEFINE late == removal.stale \/ ~Timeline!There(removal.id)
  <2>1. /\ UNCHANGED <<room, texts, wire, frames, joined, list, more, fetch, edit>>
        /\ removal.state # "none"
        /\ \/ removal' = [removal EXCEPT !.state = "failed", !.stale = late]
           \/ removal' = [removal EXCEPT !.state = "failed", !.stale = TRUE]
    BY <1>4 DEF Timeline!RemovalIsRefused, Timeline!RemovalAnswerIsLost, Timeline!server, Timeline!net
  <2>2. late \in BOOLEAN /\ TRUE \in BOOLEAN /\ 0 \in Nat
    OBVIOUS
  <2> HIDE DEF late
  <2>3. removal' \in Removal /\ removal'.id = removal.id /\ removal'.entry = removal.entry
    <3>1. CASE removal' = [removal EXCEPT !.state = "failed", !.stale = late]
      BY <1>1, <2>2, <3>1, RemovalMoves
    <3>2. CASE removal' = [removal EXCEPT !.state = "failed", !.stale = TRUE]
      BY <1>1, <2>2, <3>2, RemovalMoves
    <3> QED BY <2>1, <3>1, <3>2
  <2> QED BY <2>1, <2>3, RemovalAlone
<1>5. CASE Timeline!ConfirmDelete
  <2> DEFINE at == IF Timeline!Has(list, removal.id) THEN Timeline!Place(list, removal.id) ELSE 0
             stay == {i \in DOMAIN list : list[i].id # removal.id}
  <2>1. /\ UNCHANGED <<room, texts, wire, frames, joined, more, fetch, edit>>
        /\ removal.state # "none" /\ removal' = [removal EXCEPT !.state = "sent", !.at = at]
        /\ list' = Timeline!Kept(list, stay)
    BY <1>5 DEF Timeline!ConfirmDelete, Timeline!server, Timeline!net, Timeline!Without
  <2>2. at \in Nat /\ TRUE \in BOOLEAN
    BY <1>1, <2>1, EntryIsThere
  <2>3. stay \subseteq DOMAIN list
    OBVIOUS
  <2> HIDE DEF at, stay
  <2>4. removal' \in Removal /\ removal'.id = removal.id /\ removal'.entry = removal.entry
    BY <1>1, <2>1, <2>2, RemovalMoves
  <2>5. list' \in Seq(Entries) /\ Once(list') /\ Waiting(list', list)
    BY <1>1, <2>1, <2>3, PartIs
  <2>6. RoomTypes' /\ KeysApart'
    BY <2>1, ServerSame
  <2>7. /\ more' \in [has : BOOLEAN, next : 0..MaxId] /\ fetch' \in Fetch /\ PageOnce'
        /\ edit' \in Edit /\ (edit'.state # "none" => edit'.id \in Ids)
    BY <2>1 DEF ListInv, ListTypes, PageOnce, Once
  <2>8. Removed'
    BY <2>1, <2>4, <2>5, RemovedStays
  <2> QED BY <1>1, <2>1, <2>4, <2>5, <2>6, <2>7, <2>8, ListMoves
<1>6. CASE Timeline!RemovalIsAnswered
  <2>1. /\ UNCHANGED <<room, texts, wire, frames, joined, more, fetch, edit>>
        /\ removal.state # "none" /\ removal' = Timeline!NoRemoval
        /\ list' = list \/ list' = Timeline!Restored(list)
    BY <1>6 DEF Timeline!RemovalIsAnswered, Timeline!server, Timeline!net
  <2>2. removal' \in Removal /\ removal'.state = "none"
    BY <2>1, Nothing DEF NoRequests
  <2>3. ASSUME ~Timeline!Has(list, removal.id)
        PROVE  /\ Timeline!Restored(list) \in Seq(Entries) /\ Once(Timeline!Restored(list))
    <3> DEFINE at == IF removal.at \in 1..Len(list) THEN removal.at ELSE Len(list) + 1
    <3>1. Timeline!Restored(list) = Timeline!InsertAt(list, at, removal.entry)
      BY <2>3 DEF Timeline!Restored
    <3>2. at \in 1..(Len(list) + 1)
      <4>1. Len(list) \in Nat
        BY <1>1, LenProperties
      <4> QED BY <4>1
    <3>3. /\ removal.entry \in Entries /\ ~removal.entry.pending /\ removal.entry.id = removal.id
          /\ removal.id \in Ids /\ (removal.entry.key = "none" \/ removal.entry.key = room[removal.id].key)
      BY <1>1, <2>1, EntryIs DEF ListInv, Removed, KeyFits
    <3>4. ASSUME NEW i \in DOMAIN list
          PROVE  /\ list[i].id # removal.entry.id
                 /\ list[i].key # removal.entry.key \/ removal.entry.key = "none"
      <4>1. list[i].id # removal.id
        BY <2>3 DEF Timeline!Has
      <4>2. list[i] \in Entries
        BY <1>1, LenProperties, ElementOfSeq
      <4>3. CASE list[i].pending
        BY <2>1, <3>3, <4>1, <4>3 DEF ListInv, Removed
      <4>4. CASE ~list[i].pending
        <5>1. list[i].id \in Ids /\ (list[i].key = "none" \/ list[i].key = room[list[i].id].key)
          BY <4>2, <4>4, EntryIs DEF KeyFits
        <5>2. room[list[i].id].key # room[removal.id].key \/ room[list[i].id].key = "none"
          BY <3>3, <4>1, <5>1 DEF ListInv, KeysApart
        <5> QED BY <3>3, <4>1, <5>1, <5>2
      <4> QED BY <4>3, <4>4
    <3> HIDE DEF at
    <3> QED BY <1>1, <3>1, <3>2, <3>3, <3>4, InsertIs, InsertOnce
  <2>4. list' \in Seq(Entries) /\ Once(list')
    BY <1>1, <2>1, <2>3 DEF Timeline!Restored
  <2>5. RoomTypes' /\ KeysApart'
    BY <2>1, ServerSame
  <2>6. /\ more' \in [has : BOOLEAN, next : 0..MaxId] /\ fetch' \in Fetch /\ PageOnce'
        /\ edit' \in Edit /\ (edit'.state # "none" => edit'.id \in Ids)
    BY <2>1 DEF ListInv, ListTypes, PageOnce, Once
  <2>7. Removed'
    BY <2>2 DEF Removed
  <2> QED BY <2>1, <2>2, <2>4, <2>5, <2>6, <2>7, ListMoves
<1> QED BY <1>2, <1>3, <1>4, <1>5, <1>6

-----------------------------------------------------------------------------
(* Pages                                                                    *)

\* A request that is not answered has an empty page.
LEMMA NoPage ==
  /\ <<>> \in Seq(Entries) /\ Once(<<>>)
  /\ \A k \in {"none", "load", "more"}, b \in 0..MaxId :
       [kind |-> k, before |-> b, page |-> <<>>, answered |-> FALSE] \in Fetch
BY EmptySeq DEF Once, Fetch

\* A page as the server sends it.
LEMMA PageIsSent ==
  ASSUME ListInv, NEW before \in Nat
  PROVE  LET ids == Timeline!PageBefore(before)
             page == [i \in DOMAIN ids |-> Timeline!Stored(ids[i])]
         IN  page \in Seq(Entries) /\ Once(page) /\ \A i \in DOMAIN page : page[i].key = "none"
<1> DEFINE all == {id \in Timeline!Ids : Timeline!There(id) /\ (before = 0 \/ id < before)}
           kept == {id \in all : Timeline!Cardinality({j \in all : j >= id}) <= PageSize}
           ids == Timeline!PageBefore(before)
           page == [i \in DOMAIN ids |-> Timeline!Stored(ids[i])]
           n == Cardinality(kept)
<1>1. ids = [k \in 1..n |-> Timeline!Nth(kept, k)]
  BY SameCount DEF Timeline!PageBefore, Timeline!InOrder
<1>2. kept \in SUBSET (1..MaxId) /\ \A id \in kept : id \in Ids /\ Timeline!There(id)
  <2>1. all \subseteq Ids /\ \A id \in all : Timeline!There(id)
    BY DEF Ids
  <2> HIDE DEF all
  <2> QED BY <2>1, TimeConstants
<1> HIDE DEF kept, all
<1>3. n \in Nat /\ (\A k \in 1..n : Timeline!Nth(kept, k) \in kept)
      /\ \A i, j \in 1..n : i # j => Timeline!Nth(kept, i) # Timeline!Nth(kept, j)
  BY <1>2, TimeConstants, NthIs, NthApart
<1>4. ASSUME NEW id \in Ids, Timeline!There(id)
      PROVE  /\ Timeline!Stored(id) \in Entries /\ Timeline!Stored(id).id = id
             /\ Timeline!Stored(id).key = "none" /\ ~Timeline!Stored(id).pending
  <2>1. /\ room[id] \in Message /\ Known(id)
    BY <1>4 DEF ListInv, RoomTypes, Known, Timeline!There
  <2>2. room[id].text \in Texts /\ room[id].likes \subseteq {"me", "other"}
    BY <2>1 DEF Message, Timeline!Persons
  <2>3. Cardinality(room[id].likes) \in Nat
    <3>1. IsFiniteSet({"me", "other"})
      <4>1. IsFiniteSet({"me"})
        BY FS_Singleton
      <4>2. {"me", "other"} = {"me"} \cup {"other"}
        OBVIOUS
      <4> QED BY <4>1, <4>2, FS_AddElement
    <3> QED BY <2>2, <3>1, FS_Subset, FS_CardinalityType
  <2>4. ("me" \in room[id].likes) \in BOOLEAN /\ id \in 0..MaxId
    BY TimeConstants
  <2>5. /\ Timeline!Stored(id) \in Entry /\ Timeline!Stored(id).id = id
        /\ Timeline!Stored(id).key = "none" /\ Timeline!Stored(id).pending = FALSE
    BY <2>2, <2>3, <2>4, SameCount DEF Timeline!Stored, Entry, ClientKeys
  <2> QED BY <2>1, <2>5 DEF Entries, Shows, KeyFits
<1> HIDE DEF ids
<1>5. DOMAIN page = 1..n /\ \A i \in 1..n : page[i] = Timeline!Stored(Timeline!Nth(kept, i))
  BY <1>1
<1>6. page = [i \in 1..n |-> page[i]] /\ \A i \in 1..n : page[i] \in Entries /\ page[i].key = "none"
                                                       /\ page[i].id = Timeline!Nth(kept, i)
  BY <1>1, <1>2, <1>3, <1>4, <1>5
<1> HIDE DEF page, n
<1>7. page \in Seq(Entries)
  <2>1. page \in [1..n -> Entries]
    BY <1>6
  <2> QED BY <1>3, <2>1, SeqDef
<1>8. Once(page)
  BY <1>3, <1>5, <1>6 DEF Once
<1> QED BY <1>5, <1>6, <1>7, <1>8 DEF page, ids

\* loadInitial, loadMore and their answers.
LEMMA Pages ==
  ASSUME ListInv,
         \/ Timeline!LoadInitial \/ Timeline!LoadMore \/ Timeline!PageIsRead
         \/ Timeline!PageArrives \/ Timeline!PageFails
  PROVE  ListInv'
<1>1. /\ fetch \in Fetch /\ fetch.page \in Seq(Entries) /\ list \in Seq(Entries) /\ Once(list)
      /\ removal \in Removal /\ removal.stale \in BOOLEAN /\ PageOnce
      /\ more \in [has : BOOLEAN, next : 0..MaxId]
      /\ edit \in Edit /\ (edit.state # "none" => edit.id \in Ids)
      /\ (removal.state # "none" => removal.id \in Ids)
  BY DEF ListInv, ListTypes, Fetch, Removal
<1>2. UNCHANGED <<room, texts, wire, frames, joined, edit>>
  BY DEF Timeline!LoadInitial, Timeline!LoadMore, Timeline!PageIsRead, Timeline!PageArrives,
         Timeline!PageFails, Timeline!server, Timeline!net
<1>3. RoomTypes' /\ KeysApart'
  BY <1>2, ServerSame
<1>4. MaxId \in Nat /\ 0 \in 0..MaxId
  BY TimeConstants
\* A step that leaves the list alone.
<1>5. ASSUME UNCHANGED <<list, removal>>, more' \in [has : BOOLEAN, next : 0..MaxId], fetch' \in Fetch, PageOnce'
      PROVE  ListInv'
  <2>1. Removed'
    BY <1>2, <1>5, RemovedStays, WaitingSame
  <2> QED BY <1>1, <1>2, <1>3, <1>5, <2>1, ListMoves
<1>6. ASSUME fetch'.page = <<>> PROVE PageOnce'
  BY <1>6 DEF PageOnce, Once
<1>7. CASE Timeline!LoadInitial
  <2> DEFINE late == removal.stale \/ removal.state # "none"
  <2>1. /\ fetch' = [kind |-> "load", before |-> 0, page |-> <<>>, answered |-> FALSE]
        /\ list' = <<>> /\ more' = [has |-> TRUE, next |-> 0]
        /\ removal' = [removal EXCEPT !.stale = late]
    BY <1>7 DEF Timeline!LoadInitial, Timeline!NoFetch
  <2>2. late \in BOOLEAN /\ 0 \in Nat
    OBVIOUS
  <2> HIDE DEF late
  <2>3. removal' \in Removal /\ removal'.id = removal.id /\ removal'.entry = removal.entry /\ removal'.state = removal.state
    BY <1>1, <2>1, <2>2, RemovalMoves
  <2>4. fetch' \in Fetch /\ list' \in Seq(Entries) /\ Once(list') /\ Waiting(list', list)
        /\ more' \in [has : BOOLEAN, next : 0..MaxId]
    BY <1>4, <2>1, NoPage DEF Waiting
  <2>5. Removed'
    BY <1>2, <2>3, <2>4, RemovedStays
  <2> QED BY <1>1, <1>2, <1>3, <1>6, <2>1, <2>3, <2>4, <2>5, ListMoves
<1>8. CASE Timeline!LoadMore
  <2>1. /\ UNCHANGED <<list, removal>>
        /\ \/ more' = [more EXCEPT !.has = FALSE] /\ UNCHANGED fetch
           \/ /\ fetch' = [kind |-> "more", before |-> more.next, page |-> <<>>, answered |-> FALSE]
              /\ UNCHANGED more
    BY <1>8 DEF Timeline!LoadMore, Timeline!NoFetch
  <2>2. more' \in [has : BOOLEAN, next : 0..MaxId] /\ more.next \in 0..MaxId
    BY <1>1, <2>1
  <2>3. CASE UNCHANGED fetch
    BY <1>1, <1>5, <2>1, <2>2, <2>3 DEF PageOnce, Once
  <2>4. CASE fetch' = [kind |-> "more", before |-> more.next, page |-> <<>>, answered |-> FALSE]
    <3>1. fetch' \in Fetch /\ fetch'.page = <<>>
      BY <2>2, <2>4, NoPage
    <3> QED BY <1>5, <1>6, <2>1, <2>2, <3>1
  <2> QED BY <2>1, <2>3, <2>4
<1>9. CASE Timeline!PageIsRead
  <2> DEFINE ids == Timeline!PageBefore(fetch.before)
             page == [i \in DOMAIN ids |-> Timeline!Stored(ids[i])]
  <2>1. UNCHANGED <<list, removal, more>> /\ fetch' = [fetch EXCEPT !.answered = TRUE, !.page = page]
    BY <1>9 DEF Timeline!PageIsRead
  <2>2. fetch.before \in Nat
    BY <1>1, <1>4 DEF Fetch
  <2>3. page \in Seq(Entries) /\ Once(page) /\ \A i \in DOMAIN page : page[i].key = "none"
    BY <2>2, PageIsSent
  <2> HIDE DEF page, ids
  <2>4. fetch' \in Fetch /\ fetch'.page = page
    BY <1>1, <2>1, <2>3 DEF Fetch
  <2>5. PageOnce'
    BY <2>3, <2>4 DEF PageOnce, Once
  <2> QED BY <1>1, <1>5, <2>1, <2>4, <2>5
<1>10. CASE Timeline!PageArrives
  <2> DEFINE next == IF fetch.page = <<>> THEN 0 ELSE fetch.page[1].id
             has == \E id \in Timeline!Ids : /\ Timeline!There(id) /\ fetch.page # <<>>
                                             /\ id < fetch.page[1].id
  <2>1. /\ UNCHANGED removal /\ fetch' = Timeline!NoFetch /\ more' = [has |-> has, next |-> next]
        /\ list' = fetch.page \/ list' = Timeline!Dedupe(fetch.page \o list)
    BY <1>10 DEF Timeline!PageArrives
  <2>2. has \in BOOLEAN /\ next \in 0..MaxId
    <3>1. ASSUME fetch.page # <<>> PROVE fetch.page[1].id \in 0..MaxId
      <4>1. 1 \in 1..Len(fetch.page)
        BY <1>1, <3>1, EmptySeq
      <4>2. fetch.page[1] \in Entries
        BY <1>1, <4>1, ElementOfSeq
      <4> QED BY <4>2, EntryIs
    <3> QED BY <1>4, <3>1
  <2> HIDE DEF has, next
  <2>3. more' \in [has : BOOLEAN, next : 0..MaxId]
    BY <2>1, <2>2
  <2>4. fetch' \in Fetch /\ fetch'.page = <<>>
    BY <1>4, <2>1, NoPage DEF Timeline!NoFetch
  <2>5. list' \in Seq(Entries) /\ Once(list') /\ Waiting(list', list)
    <3>1. CASE list' = fetch.page
      <4>1. \A i \in DOMAIN fetch.page : fetch.page[i] \in Entries /\ fetch.page[i].key = "none"
        BY <1>1, LenProperties, ElementOfSeq DEF PageOnce
      <4>2. \A i \in DOMAIN fetch.page : ~fetch.page[i].pending
        BY <4>1, EntryIs
      <4> QED BY <1>1, <3>1, <4>2 DEF PageOnce, Waiting
    <3>2. CASE list' = Timeline!Dedupe(fetch.page \o list)
      BY <1>1, <3>2, DedupeIs DEF PageOnce
    <3> QED BY <2>1, <3>1, <3>2
  <2>6. Removed'
    BY <1>2, <2>1, <2>5, RemovedStays
  <2> QED BY <1>1, <1>2, <1>3, <1>6, <2>1, <2>3, <2>4, <2>5, <2>6, ListMoves
<1>11. CASE Timeline!PageFails
  <2>1. UNCHANGED <<list, removal, more>> /\ fetch' = Timeline!NoFetch
    BY <1>11 DEF Timeline!PageFails
  <2>2. fetch' \in Fetch /\ fetch'.page = <<>>
    BY <1>4, <2>1, NoPage DEF Timeline!NoFetch
  <2> QED BY <1>1, <1>5, <1>6, <2>1, <2>2
<1> QED BY <1>7, <1>8, <1>9, <1>10, <1>11

-----------------------------------------------------------------------------
(* Events                                                                   *)

\* An entry whose reactions change.
LEMMA LikesChange ==
  ASSUME NEW l \in Seq(Entries), Once(l), NEW k, k = [i \in DOMAIN l |-> k[i]],
         \A i \in DOMAIN l :
           \/ k[i] = l[i]
           \/ \E n \in Nat, b \in BOOLEAN : k[i] = [l[i] EXCEPT !.count = n, !.mine = b]
  PROVE  k \in Seq(Entries) /\ Once(k) /\ Waiting(k, l)
<1>0. \A i \in DOMAIN l : l[i] \in Entries
  BY ONLY l \in Seq(Entries), LenProperties, ElementOfSeq
<1>1. ASSUME NEW i \in DOMAIN l
      PROVE  /\ k[i] \in Entries /\ k[i].id = l[i].id /\ k[i].key = l[i].key
             /\ k[i].pending = l[i].pending
  <2> DEFINE old == l[i]
             new == k[i]
  <2>1. old \in Entries
    BY ONLY <1>0, i \in DOMAIN l
  <2>2. new = old \/ \E n \in Nat, b \in BOOLEAN : new = [old EXCEPT !.count = n, !.mine = b]
    OBVIOUS
  <2> HIDE DEF old, new
  <2>3. ASSUME NEW n \in Nat, NEW b \in BOOLEAN, new = [old EXCEPT !.count = n, !.mine = b]
        PROVE  new \in Entries /\ new.id = old.id /\ new.key = old.key /\ new.pending = old.pending
    <3>1. old \in Entry /\ Shows(old)
      BY <2>1 DEF Entries
    <3>2. new \in Entry /\ new.id = old.id /\ new.key = old.key /\ new.pending = old.pending
      BY ONLY <2>3, <3>1, n \in Nat, b \in BOOLEAN DEF Entry
    <3>3. new \in Entries
      BY ONLY <3>1, <3>2 DEF Entries, Shows
    <3> QED BY <3>2, <3>3
  <2>4. new \in Entries /\ new.id = old.id /\ new.key = old.key /\ new.pending = old.pending
    BY ONLY <2>1, <2>2, <2>3
  <2> QED BY <2>4 DEF old, new
<1>2. k \in Seq(Entries) /\ DOMAIN k = DOMAIN l /\ (Once(l) => Once(k))
  BY ONLY <1>1, l \in Seq(Entries), k = [i \in DOMAIN l |-> k[i]], Alike
<1> QED BY <1>1, <1>2 DEF Waiting

\* handleMessage: whatever the event, the list shows each message once.
LEMMA EventApplies ==
  ASSUME ListInv, NEW event \in Events, Timeline!Apply(event)
  PROVE  list' \in Seq(Entries) /\ Once(list') /\ Waiting(list', list)
<1>1. list \in Seq(Entries) /\ Once(list) /\ \A i \in DOMAIN list : list[i] \in Entries
  BY LenProperties, ElementOfSeq DEF ListInv, ListTypes
<1>2. CASE event.kind = "message" /\ list' = Timeline!Reconcile(list, Timeline!Arrived(event))
  <2>1. event \in Told
    BY <1>2 DEF Events
  <2>2. /\ event.id \in Ids /\ event.key \in ClientKeys /\ event.text \in Texts /\ Known(event.id)
        /\ KeyFits(event.id, event.key)
    BY <2>1, TimeConstants DEF Told, Texts
  <2>3. Timeline!Arrived(event) \in Entry
    BY <2>2, TimeConstants DEF Timeline!Arrived, Entry
  <2>4. Timeline!Arrived(event) \in Entries /\ ~Timeline!Arrived(event).pending
    BY <2>2, <2>3 DEF Entries, Shows, Timeline!Arrived
  <2> QED BY <1>1, <1>2, <2>4, ReconcileIs
<1>3. CASE event.kind = "rejected" /\ list' = Timeline!RemoveOptimistic(list, event.key)
  <2> DEFINE stay == {i \in DOMAIN list : ~(list[i].key = event.key /\ list[i].pending)}
  <2>1. list' = Timeline!Kept(list, stay) /\ stay \subseteq DOMAIN list
    BY <1>3 DEF Timeline!RemoveOptimistic
  <2> HIDE DEF stay
  <2> QED BY <1>1, <2>1, PartIs
<1>4. CASE event.kind = "delete" /\ list' = Timeline!Without(list, event.id)
  <2> DEFINE stay == {i \in DOMAIN list : list[i].id # event.id}
  <2>1. list' = Timeline!Kept(list, stay) /\ stay \subseteq DOMAIN list
    BY <1>4 DEF Timeline!Without
  <2> HIDE DEF stay
  <2> QED BY <1>1, <2>1, PartIs
<1>5. CASE event.kind = "edit"
  <2>1. event.text \in Texts
    BY <1>5 DEF Events, Told
  <2>2. list' = [i \in DOMAIN list |-> IF list[i].id = event.id THEN [list[i] EXCEPT !.text = event.text]
                                       ELSE list[i]]
    BY <1>5 DEF Timeline!Apply, Timeline!Change
  <2> QED BY <2>1, <2>2, TextsChange
<1>6. CASE event.kind = "add"
  <2>1. list' = [i \in DOMAIN list |->
                   IF list[i].id = event.id
                   THEN [list[i] EXCEPT !.count = list[i].count + 1, !.mine = list[i].mine \/ event.me]
                   ELSE list[i]]
    BY <1>6 DEF Timeline!Apply, Timeline!Change
  <2>2. ASSUME NEW i \in DOMAIN list
        PROVE  \/ list'[i] = list[i]
               \/ \E n \in Nat, b \in BOOLEAN : list'[i] = [list[i] EXCEPT !.count = n, !.mine = b]
    <3> DEFINE n == list[i].count + 1
               b == list[i].mine \/ event.me
    <3>1. n \in Nat /\ b \in BOOLEAN
      BY <1>1, EntryIs
    <3>2. list'[i] = list[i] \/ list'[i] = [list[i] EXCEPT !.count = n, !.mine = b]
      BY <2>1
    <3> HIDE DEF n, b
    <3> QED BY <3>1, <3>2
  <2>3. list' = [i \in DOMAIN list |-> list'[i]]
    BY <2>1
  <2> QED BY <1>1, <2>2, <2>3, LikesChange
<1>7. CASE event.kind = "remove"
  <2>1. list' = [i \in DOMAIN list |->
                   IF list[i].id = event.id
                   THEN IF list[i].count <= 1 THEN [list[i] EXCEPT !.count = 0, !.mine = FALSE]
                        ELSE [list[i] EXCEPT !.count = list[i].count - 1, !.mine = list[i].mine /\ ~event.me]
                   ELSE list[i]]
    BY <1>7 DEF Timeline!Apply, Timeline!Change
  <2>2. ASSUME NEW i \in DOMAIN list
        PROVE  \/ list'[i] = list[i]
               \/ \E n \in Nat, b \in BOOLEAN : list'[i] = [list[i] EXCEPT !.count = n, !.mine = b]
    <3> DEFINE n == list[i].count - 1
               b == list[i].mine /\ ~event.me
    <3>1. 0 \in Nat /\ FALSE \in BOOLEAN /\ b \in BOOLEAN /\ (~(list[i].count <= 1) => n \in Nat)
      BY <1>1, EntryIs
    <3>2. \/ list'[i] = list[i]
          \/ list'[i] = [list[i] EXCEPT !.count = 0, !.mine = FALSE]
          \/ ~(list[i].count <= 1) /\ list'[i] = [list[i] EXCEPT !.count = n, !.mine = b]
      BY <2>1
    <3> HIDE DEF n, b
    <3> QED BY <3>1, <3>2
  <2>3. list' = [i \in DOMAIN list |-> list'[i]]
    BY <2>1
  <2> QED BY <1>1, <2>2, <2>3, LikesChange
<1> QED BY <1>2, <1>3, <1>4, <1>5, <1>6, <1>7 DEF Timeline!Apply

\* handleMessage of useChatRoomPageRealtime.
LEMMA HandleMessage == ASSUME ListInv, Timeline!HandleMessage PROVE ListInv'
<1> DEFINE e == Head(wire)
           lateEdit == edit.stale \/ Timeline!About(e, edit.id)
           lateRemoval == removal.stale \/ Timeline!About(e, removal.id)
<1>1. /\ wire # <<>> /\ wire' = Tail(wire) /\ Timeline!Apply(e)
      /\ edit' = [edit EXCEPT !.stale = lateEdit]
      /\ removal' = [removal EXCEPT !.stale = lateRemoval]
      /\ UNCHANGED <<room, texts, frames, joined, more, fetch>>
  BY DEF Timeline!HandleMessage, Timeline!server
<1>2. /\ wire \in Seq(Events) /\ Len(wire) <= MaxWire /\ MaxWire \in Nat
      /\ edit \in Edit /\ (edit.state # "none" => edit.id \in Ids)
      /\ removal \in Removal /\ (removal.state # "none" => removal.id \in Ids)
  BY TimeConstants DEF ListInv, RoomTypes, ListTypes
<1>3. e \in Events /\ wire' \in Seq(Events) /\ Len(wire') <= MaxWire
  BY <1>1, <1>2, HeadTailProperties, LenProperties
<1>4. lateEdit \in BOOLEAN /\ lateRemoval \in BOOLEAN /\ 0 \in Nat /\ 0 \in Texts
  BY TimeConstants DEF Texts
<1> HIDE DEF e, lateEdit, lateRemoval
<1>5. list' \in Seq(Entries) /\ Once(list') /\ Waiting(list', list)
  BY <1>1, <1>3, EventApplies
<1>6. edit' \in Edit /\ edit'.id = edit.id /\ edit'.state = edit.state
  BY <1>1, <1>2, <1>4, EditMoves
<1>7. removal' \in Removal /\ removal'.id = removal.id /\ removal'.entry = removal.entry /\ removal'.state = removal.state
  BY <1>1, <1>2, <1>4, RemovalMoves
<1>8. Removed'
  BY <1>1, <1>5, <1>7, RemovedStays
<1>9. RoomTypes' /\ KeysApart'
  BY <1>1, <1>3, SameRoom DEF ListInv, RoomTypes, KeysApart
<1>10. more' \in [has : BOOLEAN, next : 0..MaxId] /\ fetch' \in Fetch /\ PageOnce'
  BY <1>1 DEF ListInv, ListTypes, PageOnce, Once
<1> QED BY <1>1, <1>2, <1>5, <1>6, <1>7, <1>8, <1>9, <1>10, ListMoves

\* sendMessage: the frame and its optimistic message share a fresh key.
LEMMA SendText ==
  ASSUME ListInv, NEW key \in Keys, Timeline!SendText(key) PROVE ListInv'
<1> DEFINE m == Timeline!Optimistic(key)
<1>1. /\ \A id \in Ids : room[id].key # key
      /\ \A i \in DOMAIN frames : frames[i] # key
      /\ \A i \in DOMAIN list : list[i].key # key
      /\ frames' = Append(frames, key) /\ list' = Append(list, m)
      /\ UNCHANGED <<room, texts, wire, joined, more, fetch, edit, removal>>
  BY DEF Timeline!SendText, Timeline!server, Timeline!requests, Ids
<1>2. list \in Seq(Entries) /\ Once(list) /\ frames \in Seq(Keys)
  BY DEF ListInv, ListTypes, RoomTypes
<1>3. m \in Entries /\ m.id = 0 /\ m.key = key /\ m.pending
  <2>1. m \in Entry /\ m.id = 0 /\ m.key = key /\ m.pending
    BY TimeConstants DEF Timeline!Optimistic, Entry, ClientKeys, Texts
  <2> QED BY <2>1, TimeConstants DEF Entries, Shows
<1> HIDE DEF m
<1>4. list' \in Seq(Entries) /\ Once(list')
  <2>1. ASSUME NEW i \in DOMAIN list
        PROVE  /\ list[i].id # m.id \/ (list[i].pending /\ m.pending)
               /\ list[i].key # m.key \/ m.key = "none"
    <3>1. list[i] \in Entries
      BY <1>2, LenProperties, ElementOfSeq
    <3> QED BY <1>1, <1>3, <3>1, EntryIs
  <2> QED BY <1>1, <1>2, <1>3, <2>1, AppendOnce
<1>5. /\ Len(list) \in Nat /\ DOMAIN list = 1..Len(list) /\ DOMAIN list' = 1..(Len(list) + 1)
      /\ list'[Len(list) + 1] = m /\ \A i \in 1..Len(list) : list'[i] = list[i]
  BY <1>1, <1>2, <1>3, LenProperties, AppendProperties
<1>6. Removed'
  <2> SUFFICES ASSUME removal.state # "none"
               PROVE  /\ removal.entry \in Entries /\ ~removal.entry.pending /\ removal.entry.id = removal.id
                      /\ \A i \in DOMAIN list' : list'[i].pending => list'[i].key # removal.entry.key
    BY <1>1, SameRoom DEF Removed
  <2>1. /\ removal.entry \in Entries /\ ~removal.entry.pending /\ removal.entry.id = removal.id
        /\ \A i \in DOMAIN list : list[i].pending => list[i].key # removal.entry.key
    BY DEF ListInv, Removed
  <2>2. key # removal.entry.key
    <3>1. removal.entry.id \in Ids /\ (removal.entry.key = "none" \/ removal.entry.key = room[removal.entry.id].key)
      BY <2>1, EntryIs DEF KeyFits
    <3> QED BY <1>1, <3>1, TimeConstants
  <2>3. \A i \in DOMAIN list' : i = Len(list) + 1 \/ i \in DOMAIN list
    BY <1>5
  <2> QED BY <1>3, <1>5, <2>1, <2>2, <2>3
<1>7. /\ Len(frames) \in Nat /\ DOMAIN frames = 1..Len(frames) /\ DOMAIN frames' = 1..(Len(frames) + 1)
      /\ frames'[Len(frames) + 1] = key /\ \A i \in 1..Len(frames) : frames'[i] = frames[i]
      /\ frames' \in Seq(Keys)
  BY <1>1, <1>2, LenProperties, AppendProperties
<1>8. \A i \in DOMAIN frames' : (i = Len(frames) + 1 /\ frames'[i] = key) \/ (i \in DOMAIN frames /\ frames'[i] = frames[i])
  BY <1>7
<1>9. KeysApart'
  <2>1. \A i, j \in DOMAIN frames' : i # j => frames'[i] # frames'[j]
    BY <1>1, <1>8 DEF ListInv, KeysApart
  <2>2. \A i \in DOMAIN frames', id \in Ids : room'[id].key # frames'[i]
    BY <1>1, <1>8 DEF ListInv, KeysApart
  <2> QED BY <1>1, <2>1, <2>2 DEF ListInv, KeysApart
<1>10. RoomTypes'
  BY <1>1, <1>7, SameRoom DEF ListInv, RoomTypes
<1>11. /\ more' \in [has : BOOLEAN, next : 0..MaxId] /\ fetch' \in Fetch /\ PageOnce'
       /\ edit' \in Edit /\ (edit'.state # "none" => edit'.id \in Ids)
       /\ removal' \in Removal /\ (removal'.state # "none" => removal'.id \in Ids)
  BY <1>1 DEF ListInv, ListTypes, PageOnce, Once
<1> QED BY <1>1, <1>4, <1>6, <1>9, <1>10, <1>11, ListMoves

-----------------------------------------------------------------------------
(* The server's steps                                                       *)

\* What is sent to a list that is not full.
LEMMA EmitIs ==
  ASSUME ListInv, NEW E, Events \subseteq E, NEW sent \in Seq(E), Timeline!Emit(sent)
  PROVE  wire' \in Seq(E) /\ Len(wire') <= MaxWire
<1>1. wire \in Seq(E) /\ Len(wire) <= MaxWire
  BY SeqMonotonic DEF ListInv, RoomTypes
<1>2. UNCHANGED wire \/ (Len(wire) + Len(sent) <= MaxWire /\ wire' = wire \o sent)
  BY DEF Timeline!Emit
<1> QED BY <1>1, <1>2, ConcatProperties, LenProperties

\* The room changes; the client's list does not.
LEMMA RoomMoves ==
  ASSUME ListInv, room' \in [Ids -> Message],
         \A id \in Ids : Known(id) => room'[id].state # "none" /\ room'[id].key = room[id].key,
         texts' \in Texts, wire' \in Seq(Events'), Len(wire') <= MaxWire, frames' \in Seq(Keys),
         KeysApart', UNCHANGED <<joined, list, more, fetch>>,
         edit' \in Edit, edit'.state # "none" => edit'.id \in Ids, removal' \in Removal,
         \/ UNCHANGED removal
         \/ removal'.id = removal.id /\ removal'.entry = removal.entry /\ removal.state # "none"
  PROVE  ListInv'
<1>1. Entries \subseteq Entries' /\ Events \subseteq Events'
  BY RoomGrows
<1>2. Seq(Entries) \subseteq Seq(Entries')
  BY <1>1, SeqMonotonic
<1>3. RoomTypes'
  BY DEF ListInv, RoomTypes
<1>4. list' \in Seq(Entries') /\ fetch' \in Fetch'
  BY <1>2 DEF ListInv, ListTypes, Fetch
<1>5. removal' \in Removal' /\ (removal'.state # "none" => removal'.id \in Ids)
  BY <1>1 DEF ListInv, ListTypes, Removal
<1>6. ListTypes'
  BY <1>4, <1>5 DEF ListInv, ListTypes
<1>7. Removed'
  <2> SUFFICES ASSUME removal'.state # "none"
               PROVE  /\ removal'.entry \in Entries' /\ ~removal'.entry.pending /\ removal'.entry.id = removal'.id
                      /\ \A i \in DOMAIN list' : list'[i].pending => list'[i].key # removal'.entry.key
    BY DEF Removed
  <2>1. removal.state # "none" /\ removal'.id = removal.id /\ removal'.entry = removal.entry
    OBVIOUS
  <2> QED BY <1>1, <2>1 DEF ListInv, Removed
<1>8. Once(list)' /\ PageOnce'
  BY DEF ListInv, PageOnce, Once
<1> QED BY <1>3, <1>6, <1>7, <1>8 DEF ListInv

\* A message that is there is changed.
LEMMA MessageMoves ==
  ASSUME ListInv, NEW id \in Ids, NEW m \in Message, m.state # "none", m.key = room[id].key,
         \/ UNCHANGED <<room, wire>>
         \/ room' = [room EXCEPT ![id] = m] /\ \E event \in Events : Timeline!Emit(<<event>>),
         texts' \in Texts, UNCHANGED <<frames, joined, list, more, fetch>>,
         edit' \in Edit, edit'.state # "none" => edit'.id \in Ids, removal' \in Removal,
         \/ UNCHANGED removal
         \/ removal'.id = removal.id /\ removal'.entry = removal.entry /\ removal.state # "none"
  PROVE  ListInv'
<1>1. room \in [Ids -> Message] /\ wire \in Seq(Events) /\ Len(wire) <= MaxWire /\ frames \in Seq(Keys)
  BY DEF ListInv, RoomTypes
<1>2. /\ room' \in [Ids -> Message]
      /\ \A other \in Ids : /\ room'[other].key = room[other].key
                            /\ Known(other) => room'[other].state # "none"
  BY <1>1 DEF Known
<1>3. Events \subseteq Events'
  BY <1>2, RoomGrows
<1>4. wire' \in Seq(Events') /\ Len(wire') <= MaxWire
  <2>1. CASE UNCHANGED wire
    BY <1>1, <1>3, <2>1, SeqMonotonic
  <2>2. ASSUME NEW event \in Events, Timeline!Emit(<<event>>)
        PROVE  wire' \in Seq(Events') /\ Len(wire') <= MaxWire
    <3>1. event \in Events'
      BY <1>3
    <3>2. <<event>> \in Seq(Events')
      BY <3>1
    <3> QED BY <1>3, <2>2, <3>2, EmitIs
  <2> QED BY <2>1, <2>2
<1>5. KeysApart'
  BY <1>2 DEF ListInv, KeysApart
<1> QED BY <1>1, <1>2, <1>4, <1>5, RoomMoves

\* A message with a new text is the same message.
LEMMA EditsThere ==
  ASSUME ListInv, NEW id \in Ids, Timeline!There(id), NEW t \in Texts
  PROVE  [room[id] EXCEPT !.text = t] \in Message /\ [room[id] EXCEPT !.text = t].state = "there"
         /\ [room[id] EXCEPT !.text = t].key = room[id].key /\ [room[id] EXCEPT !.text = t].likes = room[id].likes
         /\ [kind |-> "edit", id |-> id, text |-> t] \in Events
<1>1. room[id] \in Message /\ room[id].state = "there"
  BY DEF ListInv, RoomTypes, Timeline!There
<1> QED BY <1>1 DEF Message, Events

\* A message that is removed keeps its key.
LEMMA RemovesThere ==
  ASSUME ListInv, NEW id \in Ids
  PROVE  [room[id] EXCEPT !.state = "gone", !.likes = {}] \in Message
         /\ [room[id] EXCEPT !.state = "gone", !.likes = {}].state = "gone"
         /\ [room[id] EXCEPT !.state = "gone", !.likes = {}].key = room[id].key
         /\ [kind |-> "delete", id |-> id] \in Events
<1>1. room[id] \in Message
  BY DEF ListInv, RoomTypes
<1> QED BY <1>1 DEF Message, Events

\* A message with other reactions is the same message.
LEMMA ReactsThere ==
  ASSUME ListInv, NEW id \in Ids, Timeline!There(id), NEW L \in SUBSET Timeline!Persons
  PROVE  [room[id] EXCEPT !.likes = L] \in Message /\ [room[id] EXCEPT !.likes = L].state = "there"
         /\ [room[id] EXCEPT !.likes = L].key = room[id].key
         /\ [room[id] EXCEPT !.likes = L].likes = L
         /\ room[id].likes \subseteq Timeline!Persons /\ room[id] \in Message
<1>1. room[id] \in Message /\ room[id].state = "there"
  BY DEF ListInv, RoomTypes, Timeline!There
<1> QED BY <1>1 DEF Message

\* What stays for the requests.
LEMMA RequestTypes ==
  ASSUME ListInv
  PROVE  /\ texts \in Texts /\ edit \in Edit /\ (edit.state # "none" => edit.id \in Ids)
         /\ removal \in Removal /\ (removal.state # "none" => removal.id \in Ids)
         /\ room \in [Ids -> Message] /\ 0 \in Texts /\ 0 \in Nat
BY TimeConstants DEF ListInv, ListTypes, RoomTypes, Texts

\* Edits that the server does.
LEMMA ServerEdits ==
  ASSUME ListInv,
         (\E id \in Ids : Timeline!OtherEdits(id)) \/ Timeline!EditIsServed
  PROVE  ListInv'
<1>1. ASSUME NEW id \in Ids, Timeline!OtherEdits(id) PROVE ListInv'
  <2> DEFINE t == texts + 1
             m == [room[id] EXCEPT !.text = t]
             event == [kind |-> "edit", id |-> id, text |-> t]
  <2>1. /\ Timeline!There(id) /\ texts < MaxText /\ texts' = t /\ room' = [room EXCEPT ![id] = m]
        /\ Timeline!Emit(<<event>>) /\ UNCHANGED <<frames, joined, list, more, fetch, edit, removal>>
    BY <1>1 DEF Timeline!OtherEdits, Timeline!EditOnServer, Timeline!requests
  <2>2. t \in Texts
    BY <2>1, RequestTypes, TimeConstants DEF Texts
  <2>3. m \in Message /\ m.state = "there" /\ m.key = room[id].key /\ event \in Events
    BY <2>1, <2>2, EditsThere
  <2> HIDE DEF t, m, event
  <2> QED BY <2>1, <2>2, <2>3, RequestTypes, MessageMoves
<1>2. CASE Timeline!EditIsServed
  <2> DEFINE id == edit.id
             t == edit.text
             m == [room[id] EXCEPT !.text = t]
             event == [kind |-> "edit", id |-> id, text |-> t]
  <2>1. /\ Timeline!There(id) /\ edit.state = "sent" /\ room' = [room EXCEPT ![id] = m]
        /\ Timeline!Emit(<<event>>) /\ edit' = [edit EXCEPT !.state = "done"]
        /\ UNCHANGED <<texts, frames, joined, list, more, fetch, removal>>
    BY <1>2 DEF Timeline!EditIsServed, Timeline!EditOnServer
  <2>2. t \in Texts /\ id \in Ids /\ TRUE \in BOOLEAN
    BY <2>1, RequestTypes DEF Edit
  <2>3. edit' \in Edit /\ edit'.id = id
    BY <2>1, <2>2, RequestTypes, EditMoves
  <2>4. m \in Message /\ m.state = "there" /\ m.key = room[id].key /\ event \in Events
    BY <2>1, <2>2, EditsThere
  <2> HIDE DEF t, m, event, id
  <2> QED BY <2>1, <2>2, <2>3, <2>4, RequestTypes, MessageMoves
<1> QED BY <1>1, <1>2

\* Removals that the server does.
LEMMA ServerRemoves ==
  ASSUME ListInv,
         (\E id \in Ids : Timeline!OtherRemoves(id)) \/ Timeline!RemovalIsServed
  PROVE  ListInv'
<1>1. ASSUME NEW id \in Ids, Timeline!OtherRemoves(id) PROVE ListInv'
  <2> DEFINE m == [room[id] EXCEPT !.state = "gone", !.likes = {}]
             event == [kind |-> "delete", id |-> id]
  <2>1. /\ room' = [room EXCEPT ![id] = m]
        /\ Timeline!Emit(<<event>>) /\ UNCHANGED <<texts, frames, joined, list, more, fetch, edit, removal>>
    BY <1>1 DEF Timeline!OtherRemoves, Timeline!RemoveOnServer, Timeline!requests
  <2>2. m \in Message /\ m.state = "gone" /\ m.key = room[id].key /\ event \in Events
    BY RemovesThere
  <2> HIDE DEF m, event
  <2> QED BY <2>1, <2>2, RequestTypes, MessageMoves
<1>2. CASE Timeline!RemovalIsServed
  <2> DEFINE id == removal.id
             m == [room[id] EXCEPT !.state = "gone", !.likes = {}]
             event == [kind |-> "delete", id |-> id]
  <2>1. /\ removal.state = "sent" /\ room' = [room EXCEPT ![id] = m]
        /\ Timeline!Emit(<<event>>) /\ removal' = [removal EXCEPT !.state = "done"]
        /\ UNCHANGED <<texts, frames, joined, list, more, fetch, edit>>
    BY <1>2 DEF Timeline!RemovalIsServed, Timeline!RemoveOnServer
  <2>2. id \in Ids /\ TRUE \in BOOLEAN
    BY <2>1, RequestTypes
  <2>3. removal' \in Removal /\ removal'.id = id /\ removal'.entry = removal.entry
    BY <2>1, <2>2, RequestTypes, RemovalMoves
  <2>4. m \in Message /\ m.state = "gone" /\ m.key = room[id].key /\ event \in Events
    BY <2>2, RemovesThere
  <2>5. removal'.id = removal.id /\ removal.state # "none"
    BY <2>1, <2>3
  <2> HIDE DEF m, event, id
  <2> QED BY <2>1, <2>2, <2>3, <2>4, <2>5, RequestTypes, MessageMoves
<1> QED BY <1>1, <1>2

\* Somebody's reaction is served: the message has it, or has it no longer.
LEMMA ReactOnServer ==
  ASSUME ListInv, NEW id \in Ids, Timeline!There(id), NEW who \in Timeline!Persons, NEW on \in BOOLEAN,
         Timeline!ReactOnServer(id, who, on)
  PROVE  \E m \in Message :
           /\ m.state = "there" /\ m.key = room[id].key
           /\ \/ UNCHANGED <<room, wire>> /\ m = room[id]
              \/ room' = [room EXCEPT ![id] = m] /\ \E event \in Events : Timeline!Emit(<<event>>)
           /\ \A person \in Timeline!Persons :
                person \in m.likes <=> IF person = who THEN on ELSE person \in room[id].likes
<1> DEFINE L == IF on THEN room[id].likes \cup {who} ELSE room[id].likes \ {who}
           m == [room[id] EXCEPT !.likes = L]
           event == [kind |-> IF on THEN "add" ELSE "remove", id |-> id, me |-> who = "me"]
<1>1. \/ (who \in room[id].likes) = on /\ UNCHANGED <<room, wire>>
      \/ room' = [room EXCEPT ![id] = m] /\ Timeline!Emit(<<event>>)
  BY DEF Timeline!ReactOnServer
<1>2. room[id].likes \subseteq Timeline!Persons /\ room[id] \in Message /\ room[id].state = "there"
  BY DEF ListInv, RoomTypes, Message, Timeline!There
<1>3. L \in SUBSET Timeline!Persons
  BY <1>2
<1>4. \A person \in Timeline!Persons : person \in L <=> IF person = who THEN on ELSE person \in room[id].likes
  OBVIOUS
<1>5. event \in Events
  <2>1. (who = "me") \in BOOLEAN /\ (IF on THEN "add" ELSE "remove") \in {"add", "remove"}
    OBVIOUS
  <2> QED BY <2>1 DEF Events
<1> HIDE DEF L
<1>6. m \in Message /\ m.state = "there" /\ m.key = room[id].key /\ m.likes = L
  BY <1>3, ReactsThere
<1> HIDE DEF m, event
<1>7. CASE (who \in room[id].likes) = on /\ UNCHANGED <<room, wire>>
  BY <1>2, <1>7
<1>8. CASE room' = [room EXCEPT ![id] = m] /\ Timeline!Emit(<<event>>)
  BY <1>4, <1>5, <1>6, <1>8
<1> QED BY <1>1, <1>7, <1>8

\* The message stored next is one the room does not have.
LEMMA NextIsFree ==
  ASSUME ListInv, room[MaxId].state = "none"
  PROVE  Timeline!NextId \in Ids /\ ~Known(Timeline!NextId)
<1> DEFINE free == {id \in Ids : room[id].state = "none"}
<1>1. MaxId \in free /\ free \subseteq Nat
  BY TimeConstants
<1>2. PICK m \in free : \A other \in free : m <= other
  <2> HIDE DEF free
  <2> QED BY <1>1, Least
<1>3. \A j \in 1..(m - 1) : room[j].state # "none"
  <2> SUFFICES ASSUME NEW j \in 1..(m - 1), room[j].state = "none" PROVE FALSE
    OBVIOUS
  <2>1. j \in Ids /\ j < m
    BY <1>2, TimeConstants
  <2> QED BY <1>2, <2>1, TimeConstants
<1>4. \E id \in Timeline!Ids : /\ room[id].state = "none"
                               /\ \A j \in 1..(id - 1) : room[j].state # "none"
  BY <1>2, <1>3 DEF Ids
<1> QED BY <1>4 DEF Timeline!NextId, Known, Ids

\* A stored message has a fresh id, and its frame's key or none.
LEMMA Stores ==
  ASSUME ListInv, NEW key \in ClientKeys, Timeline!Store(key),
         \/ key = "none" /\ UNCHANGED frames /\ Timeline!Emit(<<Timeline!Message(Timeline!NextId, key)>>)
         \/ /\ frames # <<>> /\ key = Head(frames) /\ frames' = Tail(frames)
            /\ Timeline!Emit(<<Timeline!Message(Timeline!NextId, key), Timeline!Message(Timeline!NextId, key)>>),
         UNCHANGED <<texts, joined, list, more, fetch, edit, removal>>
  PROVE  ListInv'
<1> DEFINE id == Timeline!NextId
           m == [Timeline!Absent EXCEPT !.state = "there", !.key = key]
           event == Timeline!Message(id, key)
<1>1. room[MaxId].state = "none" /\ room' = [room EXCEPT ![id] = m]
  BY DEF Timeline!Store
<1>2. id \in Ids /\ ~Known(id)
  BY <1>1, NextIsFree
<1>3. m \in Message /\ m.state = "there" /\ m.key = key
  <2>1. Timeline!Absent \in Message
    BY RequestTypes DEF Timeline!Absent, Message, ClientKeys
  <2> QED BY <2>1 DEF Message
<1>4. event = [kind |-> "message", id |-> id, key |-> key, text |-> 0]
  BY DEF Timeline!Message
<1>5. \/ key = "none" /\ UNCHANGED frames /\ Timeline!Emit(<<event>>)
      \/ /\ frames # <<>> /\ key = Head(frames) /\ frames' = Tail(frames)
         /\ Timeline!Emit(<<event, event>>)
  OBVIOUS
<1> HIDE DEF id, m, event
<1>6. /\ room' \in [Ids -> Message] /\ room'[id] = m
      /\ \A other \in Ids : other # id => room'[other] = room[other]
  BY <1>1, <1>2, <1>3, RequestTypes
<1>7. \A other \in Ids : Known(other) => room'[other].state # "none" /\ room'[other].key = room[other].key
  BY <1>2, <1>6 DEF Known
<1>8. event \in Events'
  <2>1. event \in [kind : {"message"}, id : Ids, key : ClientKeys, text : {0}] /\ event.id = id /\ event.key = key
    BY <1>2, <1>4
  <2>2. room'[event.id].state # "none" /\ event.key = room'[event.id].key
    BY <1>3, <1>6, <2>1
  <2> QED BY <2>1, <2>2 DEF Events, Told, Known, KeyFits
<1>9. wire' \in Seq(Events') /\ Len(wire') <= MaxWire
  <2>1. Events \subseteq Events'
    BY <1>7, RoomGrows
  <2>2. <<event>> \in Seq(Events') /\ <<event, event>> \in Seq(Events')
    BY <1>8
  <2> QED BY <1>5, <2>1, <2>2, EmitIs
<1>10. frames' \in Seq(Keys) /\ KeysApart'
  <2>1. /\ frames \in Seq(Keys)
        /\ \A i, j \in Ids : i # j => room[i].key # room[j].key \/ room[i].key = "none"
        /\ \A i, j \in DOMAIN frames : i # j => frames[i] # frames[j]
        /\ \A i \in DOMAIN frames, other \in Ids : room[other].key # frames[i]
    BY DEF ListInv, RoomTypes, KeysApart
  <2>2. room'[id].key = key /\ \A other \in Ids : other # id => room'[other].key = room[other].key
    BY <1>3, <1>6
  <2>3. CASE key = "none" /\ UNCHANGED frames
    <3>1. \A i \in DOMAIN frames : frames[i] # "none"
      BY <2>1, LenProperties, ElementOfSeq, TimeConstants
    <3>2. \A i, j \in Ids : i # j => room'[i].key # room'[j].key \/ room'[i].key = "none"
      BY <2>1, <2>2, <2>3
    <3>3. \A i \in DOMAIN frames', other \in Ids : room'[other].key # frames'[i]
      BY <2>1, <2>2, <2>3, <3>1
    <3> QED BY <2>1, <2>3, <3>2, <3>3 DEF KeysApart
  <2>4. CASE frames # <<>> /\ key = Head(frames) /\ frames' = Tail(frames)
    <3>1. /\ Len(frames) \in Nat /\ Len(frames) >= 1 /\ DOMAIN frames = 1..Len(frames) /\ key = frames[1]
          /\ frames' \in Seq(Keys) /\ DOMAIN frames' = 1..(Len(frames) - 1)
          /\ \A i \in 1..(Len(frames) - 1) : frames'[i] = frames[i + 1]
      BY <2>1, <2>4, HeadTailProperties, LenProperties
    <3>2. \A i \in DOMAIN frames' : i + 1 \in DOMAIN frames /\ i + 1 # 1 /\ frames'[i] = frames[i + 1]
      BY <3>1
    <3>3. \A other \in Ids : room[other].key # key
      BY <2>1, <3>1
    <3>4. \A i, j \in Ids : i # j => room'[i].key # room'[j].key \/ room'[i].key = "none"
      BY <2>1, <2>2, <3>3
    <3>5. \A i \in DOMAIN frames', other \in Ids : room'[other].key # frames'[i]
      <4>1. 1 \in DOMAIN frames
        BY <3>1
      <4> QED BY <2>1, <2>2, <3>1, <3>2, <4>1
    <3>6. \A i, j \in DOMAIN frames' : i # j => frames'[i] # frames'[j]
      <4>1. \A i, j \in DOMAIN frames' : i # j => i + 1 # j + 1
        BY <3>1
      <4> QED BY <2>1, <3>2, <4>1
    <3> QED BY <3>1, <3>4, <3>5, <3>6 DEF KeysApart
  <2> QED BY <1>5, <2>3, <2>4
<1> QED BY <1>6, <1>7, <1>9, <1>10, RequestTypes, RoomMoves

\* Messages stored, frames refused or lost, and joining again.
LEMMA Frames ==
  ASSUME ListInv,
         Timeline!OtherPosts \/ Timeline!FrameIsStored \/ Timeline!FrameIsRejected
           \/ Timeline!Break \/ Timeline!Join
  PROVE  ListInv'
<1>1. frames \in Seq(Keys) /\ wire \in Seq(Events) /\ Len(wire) <= MaxWire /\ joined \in BOOLEAN
  BY DEF ListInv, RoomTypes
<1>2. frames # <<>> => Head(frames) \in Keys
  BY <1>1, HeadTailProperties
<1>3. CASE Timeline!OtherPosts
  <2>1. /\ Timeline!Store("none") /\ Timeline!Emit(<<Timeline!Message(Timeline!NextId, "none")>>)
        /\ UNCHANGED <<texts, frames, joined, list, more, fetch, edit, removal>>
    BY <1>3 DEF Timeline!OtherPosts, Timeline!requests
  <2>2. "none" \in ClientKeys
    BY DEF ClientKeys
  <2> QED BY <2>1, <2>2, Stores
<1>4. CASE Timeline!FrameIsStored
  <2> DEFINE key == Head(frames)
  <2>1. /\ frames # <<>> /\ frames' = Tail(frames) /\ Timeline!Store(key)
        /\ Timeline!Emit(<<Timeline!Message(Timeline!NextId, key), Timeline!Message(Timeline!NextId, key)>>)
        /\ UNCHANGED <<texts, joined, list, more, fetch, edit, removal>>
    BY <1>4 DEF Timeline!FrameIsStored, Timeline!requests
  <2>2. key \in ClientKeys
    BY <1>2, <2>1 DEF ClientKeys
  <2> QED BY <2>1, <2>2, Stores
\* Frames are lost or refused.
<1>5. ASSUME UNCHANGED <<room, texts, list, more, fetch, edit, removal>>, joined' \in BOOLEAN,
             wire' \in Seq(Events), Len(wire') <= MaxWire, frames' = <<>> \/ (frames' = Tail(frames) /\ frames # <<>>) \/ UNCHANGED frames
      PROVE  ListInv'
  <2>1. frames' \in Seq(Keys)
    BY <1>1, <1>5, EmptySeq, HeadTailProperties
  <2>2. KeysApart'
    <3>1. CASE UNCHANGED frames
      BY <1>5, <3>1 DEF ListInv, KeysApart
    <3>2. CASE frames' = <<>>
      BY <1>5, <3>2 DEF ListInv, KeysApart
    <3>3. CASE frames' = Tail(frames) /\ frames # <<>>
      <4>1. \A i \in DOMAIN frames' : i \in Int /\ i + 1 \in DOMAIN frames /\ frames'[i] = frames[i + 1]
        BY <1>1, <3>3, HeadTailProperties, LenProperties
      <4>2. \A i, j \in DOMAIN frames' : i # j => i + 1 # j + 1
        BY <4>1
      <4> QED BY <1>5, <4>1, <4>2 DEF ListInv, KeysApart
    <3> QED BY <1>5, <3>1, <3>2, <3>3
  <2>3. RoomTypes'
    BY <1>5, <2>1, SameRoom DEF ListInv, RoomTypes
  <2>4. list' \in Seq(Entries) /\ Once(list') /\ PageOnce' /\ more' \in [has : BOOLEAN, next : 0..MaxId]
        /\ fetch' \in Fetch
    BY <1>5 DEF ListInv, ListTypes, PageOnce, Once
  <2>5. Removed'
    BY <1>5, RemovedStays, WaitingSame
  <2> QED BY <1>5, <2>2, <2>3, <2>4, <2>5, RequestTypes, ListMoves
<1>6. CASE Timeline!FrameIsRejected
  <2> DEFINE event == [kind |-> "rejected", key |-> Head(frames)]
  <2>1. /\ frames # <<>> /\ frames' = Tail(frames) /\ Timeline!Emit(<<event>>)
        /\ UNCHANGED <<room, texts, joined, list, more, fetch, edit, removal>>
    BY <1>6 DEF Timeline!FrameIsRejected, Timeline!requests, Timeline!server
  <2>2. event \in Events
    BY <1>2, <2>1 DEF Events
  <2> HIDE DEF event
  <2>3. <<event>> \in Seq(Events)
    BY <2>2
  <2>4. wire' \in Seq(Events) /\ Len(wire') <= MaxWire
    BY <2>1, <2>3, EmitIs
  <2> QED BY <1>1, <1>5, <2>1, <2>4
<1>7. CASE Timeline!Break
  <2>1. /\ joined' = FALSE /\ wire' = <<>> /\ frames' = <<>>
        /\ UNCHANGED <<room, texts, list, more, fetch, edit, removal>>
    BY <1>7 DEF Timeline!Break, Timeline!requests, Timeline!server
  <2>2. wire' \in Seq(Events) /\ Len(wire') <= MaxWire
    BY <2>1, EmptySeq, TimeConstants
  <2> QED BY <1>5, <2>1, <2>2
<1>8. CASE Timeline!Join
  <2>1. /\ joined' = TRUE
        /\ UNCHANGED <<room, texts, wire, frames, list, more, fetch, edit, removal>>
    BY <1>8 DEF Timeline!Join, Timeline!requests, Timeline!server
  <2> QED BY <1>1, <1>5, <2>1
<1> QED BY <1>3, <1>4, <1>6, <1>7, <1>8

\* Clicks and their answers leave the list alone.
LEMMA ReactionsMove ==
  ASSUME ListInv, NEW id \in Ids,
         \/ Timeline!HandleReact(id) \/ Timeline!ReactionFails(id) \/ Timeline!ReactionIsAnswered(id)
  PROVE  ListInv'
<1>1. UNCHANGED <<room, texts, wire, frames, joined, list, more, fetch, edit, removal>>
  BY DEF Timeline!HandleReact, Timeline!ReactionFails, Timeline!ReactionIsAnswered, Timeline!server, Timeline!net
<1> QED BY <1>1, EditAlone, RequestTypes

\* Reactions that the server does leave the list alone.
LEMMA ServerReacts ==
  ASSUME ListInv, Clicks, NEW id \in Ids, Timeline!OtherReacts(id) \/ Timeline!ReactionIsServed(id)
  PROVE  ListInv'
<1> DEFINE on == "other" \notin room[id].likes
           asked == reaction[id].requested
<1>1. /\ Timeline!There(id) /\ UNCHANGED <<texts, frames, joined, list, more, fetch, edit, removal>>
      /\ Timeline!ReactOnServer(id, "other", on) \/ Timeline!ReactOnServer(id, "me", asked)
  BY DEF Timeline!OtherReacts, Timeline!ReactionIsServed, Timeline!requests
<1>2. on \in BOOLEAN /\ asked \in BOOLEAN /\ "other" \in Timeline!Persons /\ "me" \in Timeline!Persons
  BY DEF Clicks, Reaction, Timeline!Persons
<1> HIDE DEF on, asked
<1>3. PICK m \in Message :
        /\ m.state = "there" /\ m.key = room[id].key
        /\ \/ UNCHANGED <<room, wire>>
           \/ room' = [room EXCEPT ![id] = m] /\ \E event \in Events : Timeline!Emit(<<event>>)
  <2>1. CASE Timeline!ReactOnServer(id, "other", on)
    BY <1>1, <1>2, <2>1, ReactOnServer
  <2>2. CASE Timeline!ReactOnServer(id, "me", asked)
    BY <1>1, <1>2, <2>2, ReactOnServer
  <2> QED BY <1>1, <2>1, <2>2
<1> QED BY <1>1, <1>3, RequestTypes, MessageMoves

-----------------------------------------------------------------------------
(* Clicks                                                                   *)

\* What is remembered of the clicks on one message.
ClicksOn(m, op, asked) ==
  /\ m.state = "none" => ~op.active /\ asked = {}
  /\ op.active => asked = {op.intended}
  /\ op.active /\ op.answer = "done" /\ m.state = "there" => op.requested = ("me" \in m.likes)
  /\ ~op.active /\ m.state = "there" /\ asked # {} => asked = {"me" \in m.likes}

\* The clicks are right when they are on each message.
LEMMA ClicksAre ==
  Clicks <=> /\ reaction \in [Ids -> Reaction] /\ wanted \in [Ids -> SUBSET BOOLEAN]
             /\ \A id \in Ids : ClicksOn(room[id], reaction[id], wanted[id])
BY DEF Clicks, ClicksOn, Known

\* The clicks on one message change, and with them the message or not.
LEMMA ClicksMove ==
  ASSUME ListInv, Clicks, NEW id \in Ids, NEW m, NEW op \in Reaction, NEW asked \in SUBSET BOOLEAN,
         (UNCHANGED room /\ m = room[id]) \/ room' = [room EXCEPT ![id] = m],
         reaction' = [reaction EXCEPT ![id] = op], wanted' = [wanted EXCEPT ![id] = asked],
         ClicksOn(m, op, asked)
  PROVE  Clicks'
<1>1. /\ reaction \in [Ids -> Reaction] /\ wanted \in [Ids -> SUBSET BOOLEAN] /\ room \in [Ids -> Message]
      /\ \A other \in Ids : ClicksOn(room[other], reaction[other], wanted[other])
  BY ClicksAre DEF ListInv, RoomTypes
<1>2. reaction' \in [Ids -> Reaction] /\ wanted' \in [Ids -> SUBSET BOOLEAN]
  BY <1>1
<1>3. ASSUME NEW other \in Ids PROVE ClicksOn(room'[other], reaction'[other], wanted'[other])
  <2>1. CASE other = id
    <3>1. room'[other] = m /\ reaction'[other] = op /\ wanted'[other] = asked
      BY <1>1, <2>1
    <3> QED BY <3>1
  <2>2. CASE other # id
    <3>1. room'[other] = room[other] /\ reaction'[other] = reaction[other] /\ wanted'[other] = wanted[other]
      BY <1>1, <2>2
    <3> QED BY <1>1, <3>1
  <2> QED BY <2>1, <2>2
<1>4. \A other \in Ids : ClicksOn(room[other], reaction[other], wanted[other])'
  BY <1>3 DEF ClicksOn
<1> QED BY <1>2, <1>4 DEF Clicks, ClicksOn, Known

\* A message changes; what the user asked for does not.
LEMMA ClicksStay ==
  ASSUME ListInv, Clicks, NEW id \in Ids, NEW m, UNCHANGED <<reaction, wanted>>,
         room' = [room EXCEPT ![id] = m], m.state # "none",
         \/ room[id].state = "none" \/ m.state = "gone"
         \/ room[id].state = "there" /\ ("me" \in m.likes <=> "me" \in room[id].likes)
  PROVE  Clicks'
<1> DEFINE op == reaction[id]
           asked == wanted[id]
           was == "me" \in room[id].likes
           is == "me" \in m.likes
<1>1. /\ reaction \in [Ids -> Reaction] /\ wanted \in [Ids -> SUBSET BOOLEAN]
      /\ room[id].state = "none" => ~op.active /\ asked = {}
      /\ op.active => asked = {op.intended}
      /\ op.active /\ op.answer = "done" /\ room[id].state = "there" => op.requested = was
      /\ ~op.active /\ room[id].state = "there" /\ asked # {} => asked = {was}
  BY DEF Clicks, Known
<1>2. /\ room[id].state = "none" \/ m.state = "gone" \/ (room[id].state = "there" /\ was = is)
  <2>1. (is <=> was) => was = is
    OBVIOUS
  <2> QED BY <2>1
<1>3. op \in Reaction /\ asked \in SUBSET BOOLEAN
  BY <1>1
<1>4. reaction' = [reaction EXCEPT ![id] = op] /\ wanted' = [wanted EXCEPT ![id] = asked]
  BY <1>1
<1> HIDE DEF op, asked, was, is
<1>5. /\ m.state = "none" => ~op.active /\ asked = {}
      /\ op.active => asked = {op.intended}
      /\ op.active /\ op.answer = "done" /\ m.state = "there" => op.requested = is
      /\ ~op.active /\ m.state = "there" /\ asked # {} => asked = {is}
  BY <1>1, <1>2
<1>6. ClicksOn(m, op, asked)
  BY <1>5 DEF ClicksOn, is
<1> QED BY <1>3, <1>4, <1>6, ClicksMove

\* Without a click nothing changes.
LEMMA ClicksSame ==
  ASSUME Clicks, UNCHANGED <<room, reaction, wanted>> PROVE Clicks'
BY DEF Clicks, Known

\* handleReact: a click is what is intended, whatever is under way.
LEMMA UserClicks ==
  ASSUME ListInv, Clicks, NEW id \in Ids, Timeline!HandleReact(id) PROVE Clicks'
<1> DEFINE op == reaction[id]
           next == ~(IF op.active THEN op.intended ELSE Timeline!Entry(id).mine)
           new == IF op.active THEN [op EXCEPT !.intended = next]
                  ELSE [active |-> TRUE, intended |-> next, requested |-> next, answer |-> "none"]
<1>1. /\ Timeline!Has(list, id) /\ reaction' = [reaction EXCEPT ![id] = new]
      /\ wanted' = [wanted EXCEPT ![id] = {next}] /\ UNCHANGED room
  BY DEF Timeline!HandleReact, Timeline!server
<1>2. Timeline!Entry(id) \in Entries /\ Timeline!Entry(id).id = id /\ ~Timeline!Entry(id).pending
  BY <1>1, EntryIsThere
<1>3. room[id].state # "none" /\ Timeline!Entry(id).mine \in BOOLEAN
  BY <1>2, EntryIs DEF Known
<1>4. op \in Reaction /\ ClicksOn(room[id], op, wanted[id])
  BY ClicksAre
<1>5. next \in BOOLEAN
  OBVIOUS
<1> HIDE DEF op, next
<1>6. /\ new \in Reaction /\ new.active /\ new.intended = next
      /\ new.answer = "done" => op.active /\ op.answer = "done" /\ new.requested = op.requested
  BY <1>4, <1>5 DEF Reaction
<1> HIDE DEF new
<1>7. ClicksOn(room[id], new, {next})
  BY <1>3, <1>4, <1>6 DEF ClicksOn
<1> QED BY <1>1, <1>5, <1>6, <1>7, ClicksMove

\* A reaction's answer asks for what was clicked since, a failure drops it.
LEMMA RequestClicks ==
  ASSUME ListInv, Clicks, NEW id \in Ids, Timeline!ReactionFails(id) \/ Timeline!ReactionIsAnswered(id)
  PROVE  Clicks'
<1> DEFINE op == reaction[id]
           asked == wanted[id]
<1>1. /\ reaction \in [Ids -> Reaction] /\ wanted \in [Ids -> SUBSET BOOLEAN] /\ op \in Reaction
      /\ asked \in SUBSET BOOLEAN /\ ClicksOn(room[id], op, asked)
  BY ClicksAre
<1>2. Timeline!NoReaction \in Reaction /\ ~Timeline!NoReaction.active
  BY DEF Timeline!NoReaction, Reaction
<1>3. CASE Timeline!ReactionFails(id)
  <2>1. /\ reaction' = [reaction EXCEPT ![id] = Timeline!NoReaction] /\ wanted' = [wanted EXCEPT ![id] = {}]
        /\ UNCHANGED room
    BY <1>3 DEF Timeline!ReactionFails, Timeline!server
  <2>2. ClicksOn(room[id], Timeline!NoReaction, {})
    BY <1>2 DEF ClicksOn
  <2> QED BY <1>2, <2>1, <2>2, ClicksMove
<1>4. CASE Timeline!ReactionIsAnswered(id)
  <2> DEFINE new == Timeline!Settled(op)
  <2>1. /\ op.active /\ op.answer = "done" /\ reaction' = [reaction EXCEPT ![id] = new]
        /\ UNCHANGED <<wanted, room>>
    BY <1>4 DEF Timeline!ReactionIsAnswered, Timeline!server
  <2>2. wanted' = [wanted EXCEPT ![id] = asked]
    BY <1>1, <2>1
  <2> HIDE DEF op, asked
  <2>3. /\ new \in Reaction
        /\ \/ new = Timeline!NoReaction /\ op.intended = op.requested
           \/ new.active /\ new.intended = op.intended /\ new.answer = "none"
    BY <1>1, <1>2, <2>1 DEF Timeline!Settled, Reaction
  <2> HIDE DEF new
  <2>4. ClicksOn(room[id], new, asked)
    <3>1. CASE new.active /\ new.intended = op.intended /\ new.answer = "none"
      BY <1>1, <2>1, <3>1 DEF ClicksOn
    <3>2. CASE new = Timeline!NoReaction /\ op.intended = op.requested
      <4> DEFINE liked == "me" \in room[id].likes
      <4>1. /\ room[id].state # "none" /\ asked = {op.intended}
            /\ room[id].state = "there" => op.requested = liked
        BY <1>1, <2>1 DEF ClicksOn
      <4> HIDE DEF liked
      <4>2. room[id].state = "there" => asked = {liked}
        BY <3>2, <4>1
      <4> QED BY <1>2, <3>2, <4>1, <4>2 DEF ClicksOn, liked
    <3> QED BY <2>3, <3>1, <3>2
  <2> QED BY <1>1, <2>1, <2>2, <2>3, <2>4, ClicksMove
<1> QED BY <1>3, <1>4

\* A served reaction is what was requested, and somebody else's is not mine.
LEMMA ReactionsAreServed ==
  ASSUME ListInv, Clicks, NEW id \in Ids, Timeline!OtherReacts(id) \/ Timeline!ReactionIsServed(id)
  PROVE  Clicks'
<1>1. CASE Timeline!OtherReacts(id)
  <2> DEFINE on == "other" \notin room[id].likes
  <2>1. Timeline!There(id) /\ Timeline!ReactOnServer(id, "other", on) /\ UNCHANGED <<reaction, wanted>>
    BY <1>1 DEF Timeline!OtherReacts, Timeline!requests
  <2>2. on \in BOOLEAN /\ "other" \in Timeline!Persons /\ "me" \in Timeline!Persons /\ "other" # "me"
    BY DEF Timeline!Persons
  <2> HIDE DEF on
  <2>3. PICK m \in Message :
          /\ m.state = "there"
          /\ UNCHANGED room \/ room' = [room EXCEPT ![id] = m]
          /\ "me" \in m.likes <=> "me" \in room[id].likes
    BY <2>1, <2>2, ReactOnServer
  <2>4. CASE UNCHANGED room
    BY <2>1, <2>4, ClicksSame
  <2>5. CASE room' = [room EXCEPT ![id] = m]
    BY <2>1, <2>3, <2>5, ClicksStay DEF Timeline!There
  <2> QED BY <2>3, <2>4, <2>5
<1>2. CASE Timeline!ReactionIsServed(id)
  <2> DEFINE op == reaction[id]
             asked == op.requested
             new == [op EXCEPT !.answer = "done"]
  <2>1. /\ Timeline!There(id) /\ Timeline!ReactOnServer(id, "me", asked) /\ op.active
        /\ reaction' = [reaction EXCEPT ![id] = new] /\ UNCHANGED wanted
    BY <1>2 DEF Timeline!ReactionIsServed
  <2>2. /\ op \in Reaction /\ wanted \in [Ids -> SUBSET BOOLEAN] /\ ClicksOn(room[id], op, wanted[id])
        /\ "me" \in Timeline!Persons
    BY ClicksAre DEF Timeline!Persons
  <2>3. asked \in BOOLEAN
    BY <2>2 DEF Reaction
  <2>4. PICK m \in Message :
          /\ m.state = "there"
          /\ (UNCHANGED room /\ m = room[id]) \/ room' = [room EXCEPT ![id] = m]
          /\ "me" \in m.likes <=> asked
    <3> HIDE DEF asked, new
    <3> QED BY <2>1, <2>2, <2>3, ReactOnServer
  <2> HIDE DEF op
  <2>5. new \in Reaction /\ new.active /\ new.intended = op.intended /\ new.requested = asked
    BY <2>1, <2>2 DEF Reaction
  <2>6. ClicksOn(m, new, wanted[id])
    <3> DEFINE liked == "me" \in m.likes
    <3>1. wanted[id] = {op.intended}
      BY <2>1, <2>2 DEF ClicksOn
    <3>2. asked = liked
      BY <2>3, <2>4
    <3> HIDE DEF asked, new, liked
    <3> QED BY <2>4, <2>5, <3>1, <3>2 DEF ClicksOn, liked
  <2>7. wanted' = [wanted EXCEPT ![id] = wanted[id]] /\ wanted[id] \in SUBSET BOOLEAN
    BY <2>1, <2>2
  <2> HIDE DEF new
  <2> QED BY <2>1, <2>4, <2>5, <2>6, <2>7, ClicksMove
<1> QED BY <1>1, <1>2

\* Storing, editing and removing messages leaves the clicks alone.
LEMMA ServerClicks ==
  ASSUME ListInv, Clicks,
         \/ Timeline!OtherPosts \/ Timeline!FrameIsStored
         \/ \E id \in Ids : Timeline!OtherEdits(id) \/ Timeline!OtherRemoves(id)
         \/ Timeline!EditIsServed \/ Timeline!RemovalIsServed
  PROVE  Clicks'
<1>1. CASE Timeline!OtherPosts \/ Timeline!FrameIsStored
  <2> DEFINE id == Timeline!NextId
  <2>1. PICK key :
          /\ room[MaxId].state = "none" /\ UNCHANGED <<reaction, wanted>>
          /\ room' = [room EXCEPT ![id] = [Timeline!Absent EXCEPT !.state = "there", !.key = key]]
    BY <1>1 DEF Timeline!OtherPosts, Timeline!FrameIsStored, Timeline!Store, Timeline!requests
  <2>2. id \in Ids /\ room[id].state = "none"
    BY <2>1, NextIsFree DEF Known
  <2> DEFINE m == [Timeline!Absent EXCEPT !.state = "there", !.key = key]
  <2>3. m.state = "there"
    BY DEF Timeline!Absent
  <2>4. room' = [room EXCEPT ![id] = m]
    BY <2>1
  <2> HIDE DEF m, id
  <2> QED BY <2>1, <2>2, <2>3, <2>4, ClicksStay
<1>2. ASSUME NEW id \in Ids, NEW t \in Texts, Timeline!There(id), Timeline!EditOnServer(id, t),
             UNCHANGED <<reaction, wanted>>
      PROVE  Clicks'
  <2> DEFINE m == [room[id] EXCEPT !.text = t]
  <2>1. room' = [room EXCEPT ![id] = m]
    BY <1>2 DEF Timeline!EditOnServer
  <2>2. m.state = "there" /\ m.likes = room[id].likes
    BY <1>2, EditsThere
  <2> HIDE DEF m
  <2> QED BY <1>2, <2>1, <2>2, ClicksStay DEF Timeline!There
<1>3. ASSUME NEW id \in Ids, Timeline!RemoveOnServer(id), UNCHANGED <<reaction, wanted>>
      PROVE  Clicks'
  <2> DEFINE m == [room[id] EXCEPT !.state = "gone", !.likes = {}]
  <2>1. room' = [room EXCEPT ![id] = m]
    BY <1>3 DEF Timeline!RemoveOnServer
  <2>2. m.state = "gone"
    BY RemovesThere
  <2> HIDE DEF m
  <2> QED BY <1>3, <2>1, <2>2, ClicksStay
<1>4. ASSUME NEW id \in Ids, Timeline!OtherEdits(id) PROVE Clicks'
  <2>1. /\ texts < MaxText /\ Timeline!There(id) /\ Timeline!EditOnServer(id, texts + 1)
        /\ UNCHANGED <<reaction, wanted>>
    BY <1>4 DEF Timeline!OtherEdits, Timeline!requests
  <2>2. texts + 1 \in Texts
    BY <2>1, RequestTypes, TimeConstants DEF Texts
  <2> QED BY <1>2, <2>1, <2>2
<1>5. CASE Timeline!EditIsServed
  <2>1. /\ edit.state = "sent" /\ Timeline!There(edit.id) /\ Timeline!EditOnServer(edit.id, edit.text)
        /\ UNCHANGED <<reaction, wanted>>
    BY <1>5 DEF Timeline!EditIsServed
  <2>2. edit.id \in Ids /\ edit.text \in Texts
    BY <2>1, RequestTypes DEF Edit
  <2> QED BY <1>2, <2>1, <2>2
<1>6. ASSUME NEW id \in Ids, Timeline!OtherRemoves(id) PROVE Clicks'
  BY <1>3, <1>6 DEF Timeline!OtherRemoves, Timeline!requests
<1>7. CASE Timeline!RemovalIsServed
  <2>1. /\ removal.state = "sent" /\ Timeline!RemoveOnServer(removal.id)
        /\ UNCHANGED <<reaction, wanted>>
    BY <1>7 DEF Timeline!RemovalIsServed
  <2> QED BY <1>3, <2>1, RequestTypes
<1> QED BY <1>1, <1>4, <1>5, <1>6, <1>7

-----------------------------------------------------------------------------
(* The machine of the timeline                                              *)

\* A step of the tab leaves the timeline alone.
LEMMA TimeStutter == ASSUME TimeInv, UNCHANGED timelineVars PROVE TimeInv'
<1>1. UNCHANGED <<room, texts, wire, frames, joined, list, more, fetch, edit, removal, reaction, wanted>>
  BY DEF timelineVars
<1>2. ListInv'
  BY <1>1, EditAlone, RequestTypes DEF TimeInv
<1> QED BY <1>1, <1>2, ClicksSame DEF TimeInv

\* Neither a click nor the room.
Apart == UNCHANGED <<room, reaction, wanted>>

\* Every step of the timeline keeps its invariant.
LEMMA TimeStep == ASSUME TimeInv, Timeline!Next PROVE TimeInv'
<1> USE DEF TimeInv
<1>0. Ids = Timeline!Ids
  BY DEF Ids, Timeline!Ids
<1>1. CASE Timeline!OtherPosts \/ Timeline!FrameIsStored
  BY <1>1, Frames, ServerClicks
<1>2. ASSUME Timeline!FrameIsRejected \/ Timeline!Break \/ Timeline!Join PROVE TimeInv'
  <2>1. Apart
    BY <1>2 DEF Apart, Timeline!FrameIsRejected, Timeline!Break, Timeline!Join, Timeline!server, Timeline!requests
  <2> QED BY <1>2, <2>1, Frames, ClicksSame DEF Apart
<1>3. ASSUME NEW id \in Ids, Timeline!OtherEdits(id) PROVE TimeInv'
  BY <1>3, ServerEdits, ServerClicks
<1>4. ASSUME NEW id \in Ids, Timeline!OtherRemoves(id) PROVE TimeInv'
  BY <1>4, ServerRemoves, ServerClicks
<1>5. ASSUME NEW id \in Ids, Timeline!OtherReacts(id) \/ Timeline!ReactionIsServed(id) PROVE TimeInv'
  BY <1>5, ServerReacts, ReactionsAreServed
<1>6. CASE Timeline!LoadInitial \/ Timeline!LoadMore \/ Timeline!PageIsRead
           \/ Timeline!PageArrives \/ Timeline!PageFails
  <2>1. Apart
    BY <1>6 DEF Apart, Timeline!LoadInitial, Timeline!LoadMore, Timeline!PageIsRead, Timeline!PageArrives,
         Timeline!PageFails, Timeline!server
  <2> QED BY <1>6, <2>1, Pages, ClicksSame DEF Apart
<1>7. ASSUME NEW key \in Keys, Timeline!SendText(key) PROVE TimeInv'
  <2>1. Apart
    BY <1>7 DEF Apart, Timeline!SendText, Timeline!server, Timeline!requests
  <2> QED BY <1>7, <2>1, SendText, ClicksSame DEF Apart
<1>8. CASE Timeline!HandleMessage
  <2>1. Apart
    BY <1>8 DEF Apart, Timeline!HandleMessage, Timeline!server
  <2> QED BY <1>8, <2>1, HandleMessage, ClicksSame DEF Apart
<1>9. ASSUME \/ \E id \in Ids : Timeline!HandleEdit(id)
             \/ Timeline!CancelEdit \/ Timeline!SendEdit \/ Timeline!EditIsRefused
             \/ Timeline!EditAnswerIsLost \/ Timeline!EditIsAnswered
      PROVE  TimeInv'
  <2>1. Apart
    BY <1>9 DEF Apart, Timeline!HandleEdit, Timeline!CancelEdit, Timeline!SendEdit, Timeline!EditIsRefused,
         Timeline!EditAnswerIsLost, Timeline!EditIsAnswered, Timeline!server
  <2> QED BY <1>9, <2>1, Edits, ClicksSame DEF Apart
<1>10. CASE Timeline!EditIsServed
  BY <1>10, ServerEdits, ServerClicks
<1>11. ASSUME \/ \E id \in Ids : Timeline!HandleDelete(id)
              \/ Timeline!CloseDialog \/ Timeline!ConfirmDelete \/ Timeline!RemovalIsRefused
              \/ Timeline!RemovalAnswerIsLost \/ Timeline!RemovalIsAnswered
      PROVE  TimeInv'
  <2>1. Apart
    BY <1>11 DEF Apart, Timeline!HandleDelete, Timeline!CloseDialog, Timeline!ConfirmDelete,
         Timeline!RemovalIsRefused, Timeline!RemovalAnswerIsLost, Timeline!RemovalIsAnswered, Timeline!server
  <2> QED BY <1>11, <2>1, Removals, ClicksSame DEF Apart
<1>12. CASE Timeline!RemovalIsServed
  BY <1>12, ServerRemoves, ServerClicks
<1>13. ASSUME NEW id \in Ids, Timeline!HandleReact(id) PROVE TimeInv'
  BY <1>13, ReactionsMove, UserClicks
<1>14. ASSUME NEW id \in Ids, Timeline!ReactionFails(id) \/ Timeline!ReactionIsAnswered(id) PROVE TimeInv'
  BY <1>14, ReactionsMove, RequestClicks
<1> HIDE DEF TimeInv
<1>15. CASE Timeline!Others
  BY <1>0, <1>1, <1>3, <1>4, <1>5, <1>15 DEF Timeline!Others
<1>16. CASE Timeline!User
  BY <1>0, <1>6, <1>7, <1>9, <1>11, <1>13, <1>16 DEF Timeline!User
<1>17. CASE Timeline!Pages \/ Timeline!Socket
  BY <1>1, <1>2, <1>6, <1>8, <1>17 DEF Timeline!Pages, Timeline!Socket
<1>18. CASE Timeline!Edits \/ Timeline!Removals
  BY <1>9, <1>10, <1>11, <1>12, <1>18 DEF Timeline!Edits, Timeline!Removals
<1>19. CASE Timeline!Reactions
  BY <1>0, <1>5, <1>14, <1>19 DEF Timeline!Reactions
<1> QED BY <1>2, <1>15, <1>16, <1>17, <1>18, <1>19 DEF Timeline!Next

\* The page starts with an empty list and one request.
LEMMA TimeInit == ASSUME Timeline!Init PROVE TimeInv
<1>1. /\ room = [id \in Ids |-> IF id <= History THEN [Timeline!Absent EXCEPT !.state = "there"] ELSE Timeline!Absent]
      /\ texts = 0 /\ wire = <<>> /\ frames = <<>> /\ joined = TRUE /\ list = <<>>
      /\ more = [has |-> TRUE, next |-> 0]
      /\ fetch = [kind |-> "load", before |-> 0, page |-> <<>>, answered |-> FALSE]
      /\ edit = Timeline!NoEdit /\ removal = Timeline!NoRemoval
      /\ reaction = [id \in Ids |-> Timeline!NoReaction] /\ wanted = [id \in Ids |-> {}]
  BY DEF Timeline!Init, Timeline!NoFetch, Ids, Timeline!Ids
<1> DEFINE there == [Timeline!Absent EXCEPT !.state = "there"]
<1>2. 0 \in Texts /\ 0 \in 0..MaxId /\ MaxWire \in Nat
  BY TimeConstants DEF Texts
<1>3. Timeline!Absent \in Message /\ Timeline!Absent.key = "none" /\ there \in Message /\ there.key = "none"
      /\ Timeline!Absent.likes = {} /\ there.likes = {}
  <2>1. Timeline!Absent \in Message /\ Timeline!Absent.key = "none" /\ Timeline!Absent.likes = {}
    BY <1>2 DEF Timeline!Absent, Message, ClientKeys
  <2> QED BY <2>1 DEF Message
<1> HIDE DEF there
<1>4. room = [id \in Ids |-> IF id <= History THEN there ELSE Timeline!Absent]
  BY <1>1 DEF there
<1>5. room \in [Ids -> Message] /\ \A id \in Ids : room[id].key = "none"
  BY <1>3, <1>4
<1>6. RoomTypes
  <2>1. texts = 0 /\ wire = <<>> /\ frames = <<>> /\ joined = TRUE
    BY ONLY <1>1
  <2> QED BY ONLY <1>2, <1>5, <2>1, EmptySeq DEF RoomTypes
<1>7. fetch \in Fetch
  BY <1>1, <1>2, EmptySeq DEF Fetch
<1>8. ListTypes
  BY <1>1, <1>2, <1>7, Nothing, EmptySeq DEF ListTypes, NoRequests
<1>9. KeysApart /\ Once(list) /\ PageOnce
  BY <1>1, <1>5 DEF KeysApart, Once, PageOnce
<1>10. Removed
  BY <1>1, Nothing DEF Removed, NoRequests
<1>11. Timeline!NoReaction \in Reaction /\ ~Timeline!NoReaction.active
  BY DEF Timeline!NoReaction, Reaction
<1>12. Clicks
  BY <1>1, <1>11 DEF Clicks
<1> QED BY <1>6, <1>8, <1>9, <1>10, <1>12 DEF TimeInv, ListInv

\* What the invariant says of the list and of the clicks.
LEMMA ListIsRight == ASSUME TimeInv PROVE ListHolds
<1>1. Timeline!ShownOnce
  BY DEF TimeInv, ListInv, Once, Timeline!ShownOnce
<1>2. Timeline!LastClickWins
  BY DEF TimeInv, Clicks, Timeline!LastClickWins, Timeline!There, Ids, Timeline!Ids
<1> QED BY <1>1, <1>2 DEF ListHolds

\* useChatRoomPageRealtime, optimisticMessages.ts, useChatRoomPageComposer:
\* whatever the order of echoes, events, pages and undone removals, the list shows
\* each message once, and rapid clicks on a reaction end with the last one.
THEOREM ListTheorem == MCSpec => []ListHolds
<1>1. ASSUME MCInit PROVE TimeInv
  BY <1>1, TimeInit DEF MCInit
<1>2. ASSUME TimeInv, [MCNext]_<<machine, timelineVars, tabVars>> PROVE TimeInv'
  BY <1>2, TimeStep, TimeStutter DEF MCNext
<1> QED BY <1>1, <1>2, ListIsRight, PTL DEF MCSpec

-----------------------------------------------------------------------------
(* Types                                                                    *)

\* Two snapshots are sent at once, and nothing when too much is on its way.
LEMMA EventsFit ==
  ASSUME TabInv, Len(events) <= MaxEvents, Inbox!Next PROVE Len(events') <= MaxEvents
<1>1. events \in Seq(Event) /\ MaxEvents \in Nat /\ MaxEvents >= 2
  BY InboxConstants DEF Inbox!InboxAssumption, TabInv, ServerTypes
<1>2. CASE Inbox!HandleMessage
  <2>1. events # <<>> /\ events' = Tail(events)
    BY <1>2 DEF Inbox!HandleMessage
  <2> QED BY <1>1, <2>1, HeadTailProperties, LenProperties
<1>3. CASE Inbox!ServerReceives \/ \E r \in Inbox!Rooms : Inbox!Publish(r) \/ Inbox!ReadOnServer(r)
  BY <1>3 DEF Inbox!ServerReceives, Inbox!MarkReadArrives, Inbox!ActiveRoomArrives, Inbox!Publish,
              Inbox!ReadOnServer, Inbox!Pushes
<1>4. CASE Inbox!Connect
  <2>1. \E a, b : events' = <<a, b>>
    BY <1>4 DEF Inbox!Connect
  <2> QED BY <1>1, <2>1
<1>5. CASE Inbox!Disconnect
  <2>1. events' = <<>>
    BY <1>5 DEF Inbox!Disconnect
  <2> QED BY <1>1, <2>1
<1>6. CASE \/ Inbox!Reapply \/ Inbox!ApplyRooms \/ Inbox!Refresh \/ Inbox!ItemsArrive
           \/ \E found \in SUBSET Groups : Inbox!GroupsArrive(found)
           \/ \E r \in Dialogs : Inbox!MarkRead(r)
           \/ \E r \in Dialogs \cup {"none"} : Inbox!SetActiveRoom(r)
           \/ Inbox!ServerAnswers
  BY <1>6 DEF Inbox!Reapply, Inbox!ApplyRooms, Inbox!Refresh, Inbox!ItemsArrive, Inbox!GroupsArrive,
              Inbox!MarkRead, Inbox!SetActiveRoom, Inbox!ServerAnswers
<1> QED BY <1>2, <1>3, <1>4, <1>5, <1>6 DEF Inbox!Next

\* The types are part of the invariants.
LEMMA TypesAreRight ==
  ASSUME TimeInv, TabInv, Len(events) <= MaxEvents PROVE TypesOK
<1>1. Timeline!TypeOK
  <2>1. \A id \in Timeline!Ids : /\ room[id].state \in {"none", "there", "gone"}
                                 /\ room[id].text \in 0..MaxText
                                 /\ room[id].likes \subseteq Timeline!Persons
    BY DEF TimeInv, ListInv, RoomTypes, Message, Texts, Ids, Timeline!Ids
  <2>2. Len(wire) <= MaxWire /\ joined \in BOOLEAN /\ more.has \in BOOLEAN /\ more.next \in 0..MaxId
    BY DEF TimeInv, ListInv, RoomTypes, ListTypes
  <2>3. list \in Seq(Entries)
    BY DEF TimeInv, ListInv, ListTypes
  <2>4. ASSUME NEW i \in DOMAIN list
        PROVE  /\ list[i].id \in 0..MaxId /\ list[i].text \in 0..MaxText
               /\ list[i].pending = (list[i].id = 0)
    <3>1. list[i] \in Entries
      BY <2>3, LenProperties, ElementOfSeq
    <3> QED BY <3>1, EntryIs DEF Texts
  <2> QED BY <2>1, <2>2, <2>4 DEF Timeline!TypeOK
<1>2. Inbox!TypeOK
  <2>1. /\ now \in 0..MaxTime /\ opened \in Marked /\ connected \in BOOLEAN /\ groups \subseteq Groups
        /\ effects \subseteq {"reapply", "rooms"} /\ MaxTime \in Nat /\ Skew \in Nat
        /\ last \in [Inbox!Rooms -> 0..now] /\ stored \in [Inbox!Rooms -> 0..now]
        /\ roomCounts \in [Inbox!Rooms -> 0..now]
        /\ items \in [Dialogs -> 0..now] /\ counted \in [Dialogs -> 0..now] /\ cached \in [Dialogs -> 0..now]
        /\ hidden \in [Dialogs -> 0..(now + Skew)]
    BY TabConstants DEF TabInv, ServerTypes, TabTypes, Shown
  <2>2. 0..now \subseteq 0..MaxTime /\ 0..(now + Skew) \subseteq 0..(MaxTime + Skew)
    BY <2>1
  <2>3. \A r \in Inbox!Rooms : {last[r], stored[r], roomCounts[r]} \subseteq 0..MaxTime
    BY <2>1, <2>2
  <2>4. \A r \in Dialogs : {items[r], counted[r], cached[r]} \subseteq 0..MaxTime
    BY <2>1, <2>2
  <2>5. \A r \in Dialogs : hidden[r] \in 0..(MaxTime + Skew)
    BY <2>1, <2>2
  <2> QED BY <2>1, <2>3, <2>4, <2>5 DEF Inbox!TypeOK, Marked
<1> QED BY <1>1, <1>2 DEF TypesOK

\* The types of the timeline and of the tab.
THEOREM RoomTypesTheorem == MCSpec => []TypesOK
<1> DEFINE I == TimeInv /\ TabInv /\ Len(events) <= MaxEvents
<1>1. ASSUME MCInit PROVE I
  <2>1. events = <<>>
    BY <1>1 DEF MCInit, Inbox!Init
  <2>2. Len(events) <= MaxEvents
    BY <2>1, TabConstants
  <2> QED BY <1>1, <2>2, TimeInit, TabInit DEF MCInit
<1>2. ASSUME I, [MCNext]_<<machine, timelineVars, tabVars>> PROVE I'
  <2>1. UNCHANGED tabVars => UNCHANGED events
    BY DEF tabVars
  <2> QED BY <1>2, <2>1, TimeStep, TimeStutter, TabStep, TabStutter, EventsFit DEF MCNext
<1>3. I => TypesOK
  BY TypesAreRight
<1> HIDE DEF I
<1> QED BY <1>1, <1>2, <1>3, PTL DEF MCSpec
=============================================================================
