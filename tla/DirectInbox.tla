----------------------------- MODULE DirectInbox -----------------------------
(***************************************************************************)
(* One user's direct inbox: the unread counts of his direct rooms and the  *)
(* room he is looking at, two cache entries of backend/direct_inbox/       *)
(* state.py, written by the inbox sockets of his tabs (direct_inbox/       *)
(* consumers.py), by the deliveries of his peers' messages                 *)
(* (chat/delivery.py) and by mark_read requests (chat/api.py).             *)
(*                                                                         *)
(* The consumers' and deliveries' cache work runs on one shared thread, so *)
(* each of their read-modify-writes is one step.  An HTTP request runs on  *)
(* a thread of its own, and its read and its write are two steps.          *)
(* The read cursors that the same operations move are those of ReadState.  *)
(***************************************************************************)
EXTENDS Naturals, TLC

CONSTANTS
  Rooms,         \* the user's direct rooms
  Tabs,          \* connection ids of inbox sockets
  HttpWorkers,   \* request threads
  NoRoom, NoTab, \* stand for "no active room"
  ActiveTTL,     \* DIRECT_INBOX_ACTIVE_TTL, in ticks of the clock
  IdleTimeout,   \* DIRECT_INBOX_IDLE_TIMEOUT, in ticks
  MaxUnread      \* bound on a room's count and on its history

ASSUME InboxAssumption ==
  /\ ActiveTTL \in Nat \ {0} /\ IdleTimeout \in Nat /\ MaxUnread \in Nat
  /\ NoRoom \notin Rooms /\ NoTab \notin Tabs

Inactive == [room |-> NoRoom, tab |-> NoTab]

Work == [op : {"ping", "clear"}, room : {NoRoom}]
          \union [op : {"set_active", "mark_read"}, room : Rooms]
NoWork == [op |-> "none", room |-> NoRoom]
NoRequest == [room |-> NoRoom, read |-> [r \in Rooms |-> 0]]

Longest == IF ActiveTTL > IdleTimeout THEN ActiveTTL ELSE IdleTimeout + 1

VARIABLES
  counts,     \* direct:unread: counts[r], 0 for a room without an entry
  active,     \* direct:active: the room looked at and the tab that said so
  age,        \* ticks since the active entry was last written
  tab,        \* "closed", "open" or "closing"
  handling,   \* the client message a tab's consumer is handling
  silent,     \* ticks since the client's last message, up to Longest
  http,       \* the mark_read request a worker serves, and what it has read
  (* History, read by the properties and never by an action's guard.       *)
  since,      \* peers' messages delivered since the room was last marked read
  shown,      \* the room each tab was last told is its active one
  raced,      \* some request has written back counts that had changed
  crashed     \* the server has died once

inboxVars == <<counts, active, age>>
socketVars == <<tab, handling, silent>>
faults == <<raced, crashed>>
vars == <<inboxVars, socketVars, http, since, shown, faults>>

Init ==
  /\ counts = [r \in Rooms |-> 0]
  /\ active = Inactive /\ age = 0
  /\ tab = [t \in Tabs |-> "closed"]
  /\ handling = [t \in Tabs |-> NoWork]
  /\ silent = [t \in Tabs |-> 0]
  /\ http = [w \in HttpWorkers |-> NoRequest]
  /\ since = [r \in Rooms |-> 0]
  /\ shown = [t \in Tabs |-> NoRoom]
  /\ raced = FALSE /\ crashed = FALSE

-----------------------------------------------------------------------------
(* The cache entries (state.py).  Definitions named ..._Fault are seeded   *)
(* faults: plausible mistakes in the definition that follows.              *)

Owns_Fault(t) == active # Inactive
Owns(t) == active.tab = t

MarkRead_Fault(r) ==
  /\ counts' = [s \in Rooms |-> 0]
  /\ since' = [since EXCEPT ![r] = 0]

MarkRead(r) ==
  /\ counts' = [counts EXCEPT ![r] = 0]
  /\ since' = [since EXCEPT ![r] = 0]

MarkUnread(r) ==
  /\ counts[r] < MaxUnread /\ since[r] < MaxUnread
  /\ counts' = [counts EXCEPT ![r] = @ + 1]
  /\ since' = [since EXCEPT ![r] = @ + 1]

ClearActive_Fault(t) ==
  IF Owns(t) THEN active' = [room |-> NoRoom, tab |-> t] /\ age' = 0
  ELSE UNCHANGED <<active, age>>

ClearActive(t) ==
  IF Owns(t) THEN active' = Inactive /\ age' = 0 ELSE UNCHANGED <<active, age>>

-----------------------------------------------------------------------------
(* A delivery's side effects: a message the user wrote himself, or that    *)
(* arrives in the room he looks at, marks the room read.                   *)
DeliverOwn(r) ==
  /\ MarkRead(r)
  /\ UNCHANGED <<active, age, socketVars, http, shown, faults>>

DeliverIncoming(r) ==
  /\ IF active.room = r THEN MarkRead(r) ELSE MarkUnread(r)
  /\ UNCHANGED <<active, age, socketVars, http, shown, faults>>

-----------------------------------------------------------------------------
(* The socket of a tab.  Its consumer handles one message at a time, and   *)
(* the disconnect after the last of them.                                  *)
Connect(t) ==
  /\ tab[t] = "closed"
  /\ ~Owns(t)            \* a connection id is a fresh uuid4
  /\ tab' = [tab EXCEPT ![t] = "open"]
  /\ silent' = [silent EXCEPT ![t] = 0]
  /\ UNCHANGED <<inboxVars, handling, http, since, shown, faults>>

Receive(t, work) ==
  /\ tab[t] = "open" /\ handling[t] = NoWork
  /\ handling' = [handling EXCEPT ![t] = work]
  /\ silent' = [silent EXCEPT ![t] = 0]
  /\ UNCHANGED <<inboxVars, tab, http, since, shown, faults>>

Handled(t, op) ==
  /\ handling[t].op = op
  /\ handling' = [handling EXCEPT ![t] = NoWork]
  /\ UNCHANGED <<tab, silent, http, faults>>

HandlePing(t) ==
  /\ Handled(t, "ping")
  /\ age' = IF Owns(t) THEN 0 ELSE age
  /\ UNCHANGED <<counts, active, since, shown>>

HandleClear(t) ==
  /\ Handled(t, "clear")
  /\ ClearActive(t)
  /\ shown' = [shown EXCEPT ![t] = NoRoom]
  /\ UNCHANGED <<counts, since>>

HandleSetActive(t) ==
  /\ Handled(t, "set_active")
  /\ active' = [room |-> handling[t].room, tab |-> t]
  /\ age' = 0
  /\ shown' = [shown EXCEPT ![t] = handling[t].room]
  /\ UNCHANGED <<counts, since>>

HandleMarkRead(t) ==
  /\ Handled(t, "mark_read")
  /\ MarkRead(handling[t].room)
  /\ UNCHANGED <<active, age, shown>>

(* No such direct room, or it may not be read: "forbidden".                *)
Refuse(t) ==
  /\ \E op \in {"set_active", "mark_read"} : Handled(t, op)
  /\ UNCHANGED <<inboxVars, since, shown>>

Hangup(t) ==
  /\ tab[t] = "open"
  /\ tab' = [tab EXCEPT ![t] = "closing"]
  /\ UNCHANGED <<inboxVars, handling, silent, http, since, shown, faults>>

Idle(t) == silent[t] > IdleTimeout

IdleWatchdog(t) == Idle(t) /\ Hangup(t)

Disconnect_Fault(t) ==
  /\ tab[t] = "closing"
  /\ tab' = [tab EXCEPT ![t] = "closed"]
  /\ shown' = [shown EXCEPT ![t] = NoRoom]
  /\ ClearActive(t)
  /\ UNCHANGED <<counts, handling, silent, http, since, faults>>

Disconnect(t) ==
  /\ tab[t] = "closing" /\ handling[t] = NoWork
  /\ tab' = [tab EXCEPT ![t] = "closed"]
  /\ shown' = [shown EXCEPT ![t] = NoRoom]
  /\ ClearActive(t)
  /\ UNCHANGED <<counts, handling, silent, http, since, faults>>

-----------------------------------------------------------------------------
(* mark_read_view: the cache entry is read, changed and written back.      *)
HttpRead(w, r) ==
  /\ http[w] = NoRequest
  /\ http' = [http EXCEPT ![w] = [room |-> r, read |-> counts]]
  /\ UNCHANGED <<inboxVars, socketVars, since, shown, faults>>

HttpWrite(w) ==
  /\ http[w] # NoRequest
  /\ counts' = [http[w].read EXCEPT ![http[w].room] = 0]
  /\ since' = [since EXCEPT ![http[w].room] = 0]
  /\ http' = [http EXCEPT ![w] = NoRequest]
  /\ raced' = (raced \/ http[w].read # counts)
  /\ UNCHANGED <<active, age, socketVars, shown, crashed>>

-----------------------------------------------------------------------------
(* Time passes.  A tick is long: no handler is under way across it.        *)
Older(n) == IF n < Longest THEN n + 1 ELSE n

Tick ==
  /\ \A t \in Tabs : handling[t] = NoWork
  /\ silent' = [t \in Tabs |-> Older(silent[t])]
  /\ IF active # Inactive /\ age + 1 < ActiveTTL
     THEN age' = age + 1 /\ UNCHANGED active
     ELSE age' = 0 /\ active' = Inactive
  /\ UNCHANGED <<counts, tab, handling, http, since, shown, faults>>

(* The server dies: sockets and requests are gone, the cache (Redis) is    *)
(* not.                                                                    *)
Crash ==
  /\ tab' = [t \in Tabs |-> "closed"]
  /\ handling' = [t \in Tabs |-> NoWork]
  /\ http' = [w \in HttpWorkers |-> NoRequest]
  /\ shown' = [t \in Tabs |-> NoRoom]
  /\ crashed' = TRUE
  /\ UNCHANGED <<inboxVars, silent, since, raced>>

Next ==
  \/ \E r \in Rooms : DeliverOwn(r) \/ DeliverIncoming(r)
  \/ \E t \in Tabs :
       \/ Connect(t) \/ Hangup(t) \/ IdleWatchdog(t) \/ Disconnect(t)
       \/ \E work \in Work : Receive(t, work)
       \/ HandlePing(t) \/ HandleClear(t) \/ HandleSetActive(t)
       \/ HandleMarkRead(t) \/ Refuse(t)
  \/ \E w \in HttpWorkers : HttpWrite(w) \/ \E r \in Rooms : HttpRead(w, r)
  \/ Tick
  \/ Crash

Spec == Init /\ [][Next]_vars

-----------------------------------------------------------------------------
(* Every variable stays in its range.                                      *)
TypeOK ==
  /\ counts \in [Rooms -> 0..MaxUnread] /\ since \in [Rooms -> 0..MaxUnread]
  /\ active \in [room : Rooms, tab : Tabs] \union {Inactive}
  /\ age \in 0..(ActiveTTL - 1)
  /\ tab \in [Tabs -> {"closed", "open", "closing"}]
  /\ handling \in [Tabs -> Work \union {NoWork}]
  /\ silent \in [Tabs -> 0..Longest]
  /\ http \in [HttpWorkers ->
                 [room : Rooms, read : [Rooms -> 0..MaxUnread]] \union {NoRequest}]
  /\ shown \in [Tabs -> Rooms \union {NoRoom}]
  /\ raced \in BOOLEAN /\ crashed \in BOOLEAN

(* Until a request writes back counts that changed since it read them, a   *)
(* room's badge is the number of peers' messages since the room was last   *)
(* marked read, whichever tab, delivery, request or message of the user's  *)
(* own marked it.                                                          *)
UnreadIsExact == ~raced => counts = since

(* Before a crash, only a connected tab can keep a room active: a message *)
(* handled late never sets it after the tab's disconnect has cleared it.   *)
ActiveBelongsToOpenTab ==
  ~crashed /\ active # Inactive => tab[active.tab] # "closed"

(* Whatever the other tabs do and even across a crash, a tab whose client  *)
(* has been silent for ActiveTTL no longer hides messages as read.         *)
SilentTabHoldsNothing == active # Inactive => silent[active.tab] < ActiveTTL

(* The three together: the badge counts what came in since the last        *)
(* reading, and a room is held active by a tab that is there and speaks.   *)
InboxHolds == UnreadIsExact /\ ActiveBelongsToOpenTab /\ SilentTabHoldsNothing

(* A tab's active room is taken away by that tab, by another tab that sets *)
(* its own, or by the clock, never by another tab that leaves or closes.   *)
LeavingKeepsOthersRoom ==
  [][\A t \in Tabs :
       active.tab = t /\ active' = Inactive =>
         \/ handling[t].op = "clear" /\ handling'[t] = NoWork
         \/ tab[t] = "closing" /\ tab'[t] = "closed"
         \/ silent' # silent]_vars

\* For the run: rooms and tabs are interchangeable.
Symmetry == Permutations(Rooms) \union Permutations(Tabs)

-----------------------------------------------------------------------------
(* Claims of the tests that the code does not keep                         *)

(* test_mark_read_keeps_other_dialogs: marking a room read leaves the      *)
(* counts of the other rooms alone.                                        *)
MarkReadKeepsOthers ==
  [][\A w \in HttpWorkers :
       http[w] # NoRequest /\ http'[w] = NoRequest =>
         \A r \in Rooms \ {http[w].room} : counts'[r] = counts[r]]_vars

(* test_active_room_incoming_message_is_read_immediately: an active direct *)
(* room gets no unread count.  (Of a client that has just been heard from, *)
(* so that its entry cannot have run out.)                                 *)
ActiveRoomGetsNoUnread ==
  [][\A r \in Rooms :
       counts'[r] > counts[r] =>
         \A t \in Tabs : tab[t] = "open" /\ silent[t] = 0 => shown[t] # r]_vars
=============================================================================
