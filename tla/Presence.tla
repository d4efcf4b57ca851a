------------------------------ MODULE Presence ------------------------------
(***************************************************************************)
(* The presence entry of one user or one guest session, kept in the cache  *)
(* by the presence sockets of his tabs: backend/presence/consumers.py.     *)
(*                                                                         *)
(* All cache work of the consumers runs on one shared thread, so each      *)
(* read-modify-write of the entry is one step; the awaits around it are    *)
(* where connections interleave.  Time is counted in ticks that are long   *)
(* against a handler.                                                      *)
(***************************************************************************)
EXTENDS Naturals, FiniteSets

CONSTANTS
  Conns,           \* presence sockets of this user
  TTL,             \* PRESENCE_TTL
  Grace,           \* PRESENCE_GRACE
  TouchInterval,   \* PRESENCE_TOUCH_INTERVAL
  IdleTimeout,     \* PRESENCE_IDLE_TIMEOUT
  PingGap,         \* the longest time between two pings of a client awake
  MaxCount         \* bound on the counter

ASSUME PresenceAssumption ==
  /\ IsFiniteSet(Conns)
  /\ {TTL, Grace, TouchInterval, IdleTimeout, PingGap, MaxCount} \subseteq Nat
  /\ Cardinality(Conns) <= MaxCount
  /\ PingGap <= IdleTimeout + 1   \* who pings is not dropped as idle

VARIABLES
  isGuest,     \* TRUE for a guest session, FALSE for an account
  entry,       \* the cache entry: count, age of last_seen, rest of the grace
  conn,        \* where the handlers of each connection are: ConnStates
  graceful,    \* the connection was closed with code 1000 or 1001
  awake,       \* the client pings
  quiet,       \* ticks since the client's last message
  untouched,   \* ticks until a ping touches the entry again
  (* History, read by the properties and never by an action's guard.       *)
  gone,        \* ticks since a connection of this user last existed
  missing,     \* ticks for which a client awake has been Unseen
  trouble      \* "lapse" after a refusal or a sleep, "crash" after a crash

sockets == <<conn, graceful, awake, quiet, untouched>>
history == <<gone, missing, trouble>>
vars == <<isGuest, entry, sockets, history>>

(* The entry.                                                              *)
Absent == [there |-> FALSE, count |-> 0, seen |-> 0, grace |-> 0]
Entry(n, g) == [there |-> TRUE, count |-> n, seen |-> 0, grace |-> g]

(* Definitions named ..._Fault are seeded faults: plausible mistakes in    *)
(* the definition that follows.                                            *)
Alive_Fault == entry.there /\ (entry.count > 0 \/ entry.grace > 0)

Alive ==
  /\ entry.there /\ entry.seen <= TTL
  /\ entry.count > 0 \/ entry.grace > 0

(* A guest's entry may be there and not alive: a touch of a grace entry    *)
(* leaves it with a count of 0 and no grace, until a broadcast drops it.   *)
Unseen == IF isGuest THEN ~entry.there ELSE ~Alive

(* Between "closed" and "open" a connection is "joining" until it is       *)
(* added and "joined" until connect has broadcast; from "open", or from    *)
(* "rejected", it is "leaving" until it is removed and "left" until        *)
(* disconnect has broadcast.                                               *)
ConnStates == {"closed", "joining", "joined", "open", "leaving", "left", "rejected"}

Members == {c \in Conns : conn[c] \in {"joined", "open", "leaving"}}
Joining == {c \in Conns : conn[c] = "joining"}
Nobody == \A c \in Conns : conn[c] = "closed"

Init ==
  /\ isGuest \in BOOLEAN
  /\ entry = Absent
  /\ conn = [c \in Conns |-> "closed"]
  /\ graceful = [c \in Conns |-> FALSE]
  /\ awake = [c \in Conns |-> FALSE]
  /\ quiet = [c \in Conns |-> 0]
  /\ untouched = [c \in Conns |-> 0]
  /\ gone = 0 /\ missing = 0 /\ trouble = "none"

-----------------------------------------------------------------------------
Add == entry' = Entry(entry.count + 1, 0)

(* Without an entry there is nothing to remove, except that for a guest a  *)
(* missing entry counts as 0 and gets a grace entry all the same.          *)
Remove_Fault(nice) ==
  IF nice THEN entry' = Absent ELSE entry' = Entry(entry.count, Grace)

Remove_FloorFault(nice) ==
  /\ entry.there \/ isGuest
  /\ entry' = IF nice \/ Grace = 0 THEN Absent ELSE Entry(entry.count - 1, Grace)

Remove(nice) ==
  \/ /\ ~entry.there /\ ~isGuest
     /\ UNCHANGED entry
  \/ /\ entry.there \/ isGuest
     /\ entry.count <= 1
     /\ entry' = IF nice \/ Grace = 0 THEN Absent ELSE Entry(0, Grace)
  \/ /\ entry.count > 1
     /\ entry' = Entry(entry.count - 1, 0)

(* A touch puts a missing entry back.  It makes a grace entry of an        *)
(* account count one again, but not a guest's.                             *)
Touch_Fault == entry' = [entry EXCEPT !.seen = 0]

Touch_StaleFault == entry' = IF ~entry.there THEN Entry(1, 0) ELSE entry

Touch ==
  entry' = IF ~entry.there \/ (entry.count = 0 /\ ~isGuest) THEN Entry(1, 0)
                                                          ELSE Entry(entry.count, 0)

-----------------------------------------------------------------------------
Lapse == trouble' = IF trouble = "none" THEN "lapse" ELSE trouble

Accept(c) ==
  /\ conn[c] = "closed"
  /\ entry.count + Cardinality(Joining) < MaxCount
  /\ conn' = [conn EXCEPT ![c] = "joining"]
  /\ awake' = [awake EXCEPT ![c] = TRUE]
  /\ quiet' = [quiet EXCEPT ![c] = 0]
  /\ untouched' = [untouched EXCEPT ![c] = 0]
  /\ gone' = 0
  /\ UNCHANGED <<isGuest, entry, graceful, missing, trouble>>

(* The rate limiter refuses: closed with 4429, and disconnect runs all the *)
(* same.                                                                   *)
Reject(c) ==
  /\ conn[c] = "closed"
  /\ conn' = [conn EXCEPT ![c] = "rejected"]
  /\ graceful' = [graceful EXCEPT ![c] = FALSE]
  /\ gone' = 0
  /\ Lapse
  /\ UNCHANGED <<isGuest, entry, awake, quiet, untouched, missing>>

Join(c) ==
  /\ conn[c] = "joining"
  /\ conn' = [conn EXCEPT ![c] = "joined"]
  /\ Add
  /\ missing' = 0
  /\ UNCHANGED <<isGuest, graceful, awake, quiet, untouched, gone, trouble>>

(* A ping may still be handled after the server asked for the close.       *)
Ping(c) ==
  /\ conn[c] \in {"open", "leaving"} /\ awake[c]
  /\ UNCHANGED <<isGuest, conn, graceful, awake, gone, trouble>>
  /\ quiet' = [quiet EXCEPT ![c] = 0]
  /\ IF untouched[c] = 0
     THEN /\ untouched' = [untouched EXCEPT ![c] = TouchInterval]
          /\ Touch
          /\ missing' = IF Unseen' THEN missing ELSE 0
     ELSE UNCHANGED <<untouched, entry, missing>>

(* A throttled background tab, a laptop that sleeps.                       *)
Doze(c) ==
  /\ conn[c] = "open"
  /\ awake' = [awake EXCEPT ![c] = ~@]
  /\ Lapse
  /\ UNCHANGED <<isGuest, entry, conn, graceful, quiet, untouched, gone, missing>>

Close(c, nice) ==
  /\ conn[c] = "open"
  /\ conn' = [conn EXCEPT ![c] = "leaving"]
  /\ graceful' = [graceful EXCEPT ![c] = nice]
  /\ UNCHANGED <<isGuest, entry, awake, quiet, untouched, history>>

IdleWatchdog(c) == quiet[c] > IdleTimeout /\ Close(c, FALSE)

Leave(c) ==
  /\ conn[c] \in {"leaving", "rejected"}
  /\ conn' = [conn EXCEPT ![c] = "left"]
  /\ Remove(graceful[c])
  /\ gone' = 0
  /\ UNCHANGED <<isGuest, graceful, awake, quiet, untouched, missing, trouble>>

(* Every broadcast drops what is no longer alive.                          *)
Clean == entry' = IF Alive THEN entry ELSE Absent

(* The broadcast that ends connect and disconnect.                         *)
Announce(c) ==
  /\ \/ conn[c] = "joined" /\ conn' = [conn EXCEPT ![c] = "open"]
     \/ conn[c] = "left" /\ conn' = [conn EXCEPT ![c] = "closed"]
  /\ Clean
  /\ gone' = 0
  /\ UNCHANGED <<isGuest, graceful, awake, quiet, untouched, missing, trouble>>

(* Somebody else's.                                                        *)
Broadcast ==
  /\ Clean
  /\ UNCHANGED <<isGuest, sockets, history>>

-----------------------------------------------------------------------------
Longer(n, cap) == IF n < cap THEN n + 1 ELSE n
Less(n) == IF n > 0 THEN n - 1 ELSE 0

Waiting == \E c \in Conns : conn[c] = "open" /\ awake[c]

(* No handler is under way across a tick, and a client awake pings within  *)
(* PingGap.                                                                *)
Tick ==
  /\ \A c \in Conns :
       /\ conn[c] \in {"closed", "open"}
       /\ conn[c] = "open" /\ awake[c] => quiet[c] < PingGap
  /\ entry' = [there |-> entry.there, count |-> entry.count,
               seen |-> Longer(entry.seen, TTL + 1), grace |-> Less(entry.grace)]
  /\ quiet' = [c \in Conns |-> Longer(quiet[c], IdleTimeout + 1)]
  /\ untouched' = [c \in Conns |-> Less(untouched[c])]
  /\ gone' = IF Nobody THEN Longer(gone, TTL + Grace + 1) ELSE 0
  /\ missing' = IF Waiting /\ Unseen
                THEN Longer(missing, TouchInterval + PingGap + 1) ELSE 0
  /\ UNCHANGED <<isGuest, conn, graceful, awake, trouble>>

Crash ==
  /\ conn' = [c \in Conns |-> "closed"]
  /\ gone' = 0 /\ missing' = 0 /\ trouble' = "crash"
  /\ UNCHANGED <<isGuest, entry, graceful, awake, quiet, untouched>>

Next ==
  \/ \E c \in Conns :
       \/ Accept(c) \/ Reject(c) \/ Join(c) \/ Ping(c) \/ Doze(c) \/ Leave(c)
       \/ Announce(c) \/ IdleWatchdog(c)
       \/ \E nice \in BOOLEAN : Close(c, nice)
  \/ Broadcast
  \/ Tick
  \/ Crash

Spec == Init /\ [][Next]_vars

-----------------------------------------------------------------------------
(* Every variable stays in its range.                                      *)
TypeOK ==
  /\ isGuest \in BOOLEAN
  /\ entry \in [there : BOOLEAN, count : 0..MaxCount, seen : 0..(TTL + 1),
                grace : 0..Grace]
  /\ conn \in [Conns -> ConnStates]
  /\ graceful \in [Conns -> BOOLEAN] /\ awake \in [Conns -> BOOLEAN]
  /\ quiet \in [Conns -> 0..(IdleTimeout + 1)]
  /\ untouched \in [Conns -> 0..TouchInterval]
  /\ gone \in 0..(TTL + Grace + 1)
  /\ missing \in 0..(TouchInterval + PingGap + 1)
  /\ trouble \in {"none", "lapse", "crash"}

(* Until a crash the counter never exceeds the connections: no sequence of *)
(* evictions, touches and closings leaves a user counted whom nobody will  *)
(* subtract.                                                               *)
CountIsCovered == trouble # "crash" => entry.count <= Cardinality(Members)

(* Somebody whose connections are all closed is shown for the grace at     *)
(* most...                                                                 *)
GoneAfterGrace == trouble # "crash" /\ Nobody /\ Alive => gone < Grace

(* ...and if the server died meanwhile, for the TTL at most, whatever it   *)
(* left in the counter.                                                    *)
GoneAfterTTL == Nobody /\ Alive => gone <= TTL

(* The three together: who is gone leaves the list in time.                *)
NobodyStaysOnline == CountIsCovered /\ GoneAfterGrace /\ GoneAfterTTL

TouchesKeepUp == TouchInterval > 0 /\ TouchInterval + PingGap <= TTL + 1

(* A connection whose client pings keeps its user in the list, provided    *)
(* the touches come often enough for the TTL and no connection of his      *)
(* has been refused or has fallen asleep.                                  *)
ConnectedIsOnline ==
  trouble = "none" /\ TouchesKeepUp =>
    \A c \in Conns : conn[c] = "open" => Alive

(* Refusals, sleep and crashes can drop a connected user from the list;    *)
(* the next touch of a client awake puts him back.                         *)
BackWithNextTouch == missing <= TouchInterval + PingGap

(* Both together: who is connected is shown, or soon shown again.          *)
ConnectedIsShown == ConnectedIsOnline /\ BackWithNextTouch
=============================================================================
