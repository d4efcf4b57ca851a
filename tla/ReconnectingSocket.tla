------------------------- MODULE ReconnectingSocket -------------------------
(***************************************************************************)
(* A client socket that reconnects by itself (useReconnectingWebSocket)    *)
(* and the room the chat's socket is bound to (ChatRealtimeProvider and    *)
(* useChatRealtimeRoom): handshakes that succeed or fail, connections that *)
(* break, the browser going off and on line, retries with a limit, a token *)
(* that changes the address, and a page that activates a room, whose       *)
(* effects see the status of the last render.                              *)
(*                                                                         *)
(* A socket the client drops has its handlers removed, so only the current *)
(* one matters; delays are not timed.                                      *)
(***************************************************************************)
EXTENDS Naturals, Sequences

CONSTANTS Rooms,       \* rooms the page may show
          Urls,        \* addresses of the socket, one per token
          MaxRetries,  \* maxRetries
          MaxOutbox    \* frames on their way to the server (bound)

ASSUME SocketAssumption ==
    MaxRetries \in Nat /\ MaxOutbox \in Nat \ {0} /\ "none" \notin Rooms \cup Urls

VARIABLES
    mounted,    \* the provider is mounted
    url,        \* the address, or "none" while the session is not ready
    onLine,     \* navigator.onLine
    netEvent,   \* the online or offline event on its way to the page
    client,     \* refs and state of the hook
    conn,       \* what the server's end of the connection knows and will get
    room,       \* the room the page wants, or "none"
    shown,      \* the room of the last render
    rendered,   \* the status of the last render
    binding     \* activeBindingRef, "none" when released

vars == <<mounted, url, onLine, netEvent, client, conn, room, shown,
          rendered, binding>>

Statuses == {"idle", "connecting", "online", "offline", "error", "closed"}

NewClient == [sock |-> "none", status |-> "idle", error |-> "none",
              notice |-> "none", fades |-> FALSE, opened |-> FALSE,
              reconnecting |-> FALSE, attempt |-> 0,
              retry |-> FALSE, startup |-> TRUE]

NoConn == [room |-> "none", outbox |-> <<>>]

-----------------------------------------------------------------------------
(* What the hook's callbacks do to its refs and state *)

Cleanup(c) == [c EXCEPT !.retry = FALSE, !.sock = "none"]

\* A notice is replaced together with the timer that would clear it.
Notice(c, type) == [c EXCEPT !.notice = type, !.fades = type = "restored"]

\* The notice of a connection that was once there.
Lost(c) ==
    IF c.opened THEN [Notice(c, "lost") EXCEPT !.reconnecting = TRUE] ELSE c

Connect(c) ==
    IF url = "none"
    THEN [Cleanup(c) EXCEPT !.status = "idle", !.error = "none",
                            !.notice = "none", !.opened = FALSE,
                            !.reconnecting = FALSE]
    ELSE IF ~onLine
    THEN [Lost(Cleanup(c)) EXCEPT !.status = "offline"]
    ELSE [Cleanup(c) EXCEPT !.sock = "connecting", !.status = "connecting"]

AfterOpen_Fault(c) ==
    LET open == [c EXCEPT !.sock = "open", !.attempt = 0, !.opened = TRUE,
                          !.reconnecting = FALSE, !.status = "online",
                          !.error = "none"]
    IN  IF c.reconnecting THEN Notice(open, "restored") ELSE open

AfterOpen(c) ==
    LET open == [c EXCEPT !.sock = "open", !.attempt = 0, !.opened = TRUE,
                          !.reconnecting = FALSE, !.status = "online",
                          !.error = "none"]
    IN  Notice(open, IF c.reconnecting THEN "restored" ELSE "none")

AfterError(c) ==
    [Lost(c) EXCEPT !.sock = "broken", !.status = "error",
                    !.error = "connection"]

Exhausted_Fault(c) == c.attempt > MaxRetries
Exhausted(c) == c.attempt >= MaxRetries

\* A close while the browser is on line is answered by a timer, up to the
\* limit; off line the online event is waited for.
AfterClose_Fault(c) ==
    LET closed == [Lost(c) EXCEPT !.sock = "closed", !.status = "closed"]
    IN  IF ~onLine THEN [closed EXCEPT !.status = "offline"]
        ELSE IF Exhausted(c) THEN closed
        ELSE [closed EXCEPT !.attempt = @ + 1, !.retry = TRUE]

AfterClose(c) ==
    LET closed == [Lost(c) EXCEPT !.sock = "closed", !.status = "closed"]
    IN  IF ~onLine THEN [closed EXCEPT !.status = "offline"]
        ELSE IF Exhausted(c)
        THEN Notice([closed EXCEPT !.status = "error", !.error = "limit"],
                    "failed")
        ELSE [closed EXCEPT !.attempt = @ + 1, !.retry = TRUE]

\* What the server knew of a connection is gone with it.
Becomes(c) ==
    /\ client' = c
    /\ conn' = IF c.sock = "open" THEN conn ELSE NoConn

page == <<room, shown, rendered, binding>>
world == <<mounted, url, onLine, netEvent>>

-----------------------------------------------------------------------------

Init ==
    /\ mounted = TRUE /\ url \in Urls \cup {"none"} /\ onLine = TRUE
    /\ netEvent = "none" /\ client = NewClient /\ conn = NoConn
    /\ room = "none" /\ shown = "none" /\ rendered = "idle"
    /\ binding = "none"

\* The startup timer of the effect, and the timer of a retry.
StartupFires ==
    /\ client.startup
    /\ Becomes([Connect(client) EXCEPT !.startup = FALSE])
    /\ UNCHANGED <<world, page>>

RetryFires ==
    client.retry /\ Becomes(Connect(client)) /\ UNCHANGED <<world, page>>

\* The handshake succeeds; the room of the binding is activated at once.
Open ==
    /\ client.sock = "connecting" /\ onLine
    /\ client' = AfterOpen(client)
    /\ conn' = [room |-> "none",
                outbox |-> IF binding = "none" THEN <<>> ELSE <<binding>>]
    /\ UNCHANGED <<world, page>>

\* A failed handshake or a broken connection, then its close; a close may
\* also come alone.
Error ==
    /\ client.sock \in {"connecting", "open"}
    /\ Becomes(AfterError(client)) /\ UNCHANGED <<world, page>>

Close ==
    /\ client.sock \in {"open", "broken"}
    /\ Becomes(AfterClose(client)) /\ UNCHANGED <<world, page>>

NoticeFades ==
    /\ client.fades /\ client' = Notice(client, "none")
    /\ UNCHANGED <<conn, world, page>>

\* The token or the session changed: the effect runs again.
UrlChanges(next) ==
    /\ mounted /\ next # url /\ url' = next
    /\ Becomes([Cleanup(client) EXCEPT !.startup = TRUE,
                                       !.fades = FALSE])
    /\ UNCHANGED <<mounted, onLine, netEvent, page>>

Unmount ==
    /\ mounted /\ mounted' = FALSE
    /\ Becomes([Notice(Cleanup(client), "none") EXCEPT !.startup = FALSE])
    /\ netEvent' = "none" /\ room' = "none" /\ shown' = "none"
    /\ binding' = "none"
    /\ UNCHANGED <<url, onLine, rendered>>

NetworkChanges ==
    /\ netEvent = "none" /\ onLine' = ~onLine
    /\ netEvent' = IF ~mounted THEN "none"
                   ELSE IF onLine THEN "offline" ELSE "online"
    /\ UNCHANGED <<mounted, url, client, conn, page>>

HandleOnline ==
    /\ netEvent = "online" /\ netEvent' = "none"
    /\ Becomes(Connect([client EXCEPT !.status = "connecting"]))
    /\ UNCHANGED <<mounted, url, onLine, page>>

HandleOffline ==
    /\ netEvent = "offline" /\ netEvent' = "none"
    /\ Becomes(Cleanup([Lost(client) EXCEPT !.status = "offline"]))
    /\ UNCHANGED <<mounted, url, onLine, page>>

-----------------------------------------------------------------------------
(* The room of the page *)

\* send: a frame leaves only through an open socket.
Sent(outbox, next) ==
    IF client.sock = "open" THEN Append(outbox, next) ELSE outbox

Navigate(next) ==
    /\ mounted /\ next # room /\ room' = next
    /\ UNCHANGED <<world, client, conn, shown, rendered, binding>>

\* A change of the status or the room renders; the effect releases with the
\* old closure and activates with the new one.
Render_Fault ==
    LET activated == /\ room # "none" /\ binding # room
                     /\ client.status = "online"
    IN  /\ mounted /\ (rendered # client.status \/ shown # room)
        /\ Len(conn.outbox) < MaxOutbox
        /\ rendered' = client.status /\ shown' = room
        /\ binding' = IF room # "none" THEN room ELSE binding
        /\ conn' = [conn EXCEPT !.outbox =
                       IF activated THEN Sent(@, room)
                       ELSE IF room = "none" /\ rendered = "online"
                       THEN Sent(@, "none") ELSE @]
        /\ UNCHANGED <<world, client, room>>

Render ==
    LET releases  == binding # "none" /\ rendered = "online"
        activates == room # "none" /\ client.status = "online"
        released  == IF releases THEN Sent(conn.outbox, "none")
                     ELSE conn.outbox
    IN  /\ mounted /\ (rendered # client.status \/ shown # room)
        /\ Len(conn.outbox) + 1 < MaxOutbox
        /\ rendered' = client.status /\ shown' = room /\ binding' = room
        /\ conn' = [conn EXCEPT !.outbox = IF activates
                                           THEN Sent(released, room)
                                           ELSE released]
        /\ UNCHANGED <<world, client, room>>

\* set_active_room reaches the consumer.
ServerReads ==
    /\ conn.outbox # <<>>
    /\ conn' = [room |-> Head(conn.outbox), outbox |-> Tail(conn.outbox)]
    /\ UNCHANGED <<world, client, page>>

-----------------------------------------------------------------------------

Timers == StartupFires \/ RetryFires
Events == HandleOnline \/ HandleOffline

Next ==
    \/ Timers \/ Open \/ Error \/ Close \/ NoticeFades \/ Unmount
    \/ NetworkChanges \/ Events \/ Render \/ ServerReads
    \/ \E next \in Urls \cup {"none"} : UrlChanges(next)
    \/ \E next \in Rooms \cup {"none"} : Navigate(next)

\* Timers fire, the browser delivers its events, and a handshake or a broken
\* connection ends one way or the other.
Fairness ==
    /\ WF_vars(Timers) /\ WF_vars(Events) /\ WF_vars(Close)
    /\ WF_vars(client.sock = "connecting" /\ (Open \/ Error))

Spec == Init /\ [][Next]_vars /\ Fairness

-----------------------------------------------------------------------------
TypeOK ==
    /\ mounted \in BOOLEAN /\ url \in Urls \cup {"none"} /\ onLine \in BOOLEAN
    /\ netEvent \in {"none", "online", "offline"}
    /\ client \in [sock : {"none", "connecting", "open", "broken", "closed"},
                   status : Statuses,
                   error : {"none", "connection", "limit"},
                   notice : {"none", "lost", "restored", "failed"},
                   fades : BOOLEAN,
                   opened : BOOLEAN, reconnecting : BOOLEAN,
                   attempt : 0..MaxRetries, retry : BOOLEAN,
                   startup : BOOLEAN]
    /\ conn \in [room : Rooms \cup {"none"}, outbox : Seq(Rooms \cup {"none"})]
    /\ Len(conn.outbox) <= MaxOutbox
    /\ {room, shown, binding} \subseteq Rooms \cup {"none"}
    /\ rendered \in Statuses

(* A mounted client with an address and a network is connected, connecting *)
(* or has a timer that will connect, unless it has reported that it gave   *)
(* up; an unmounted one has neither socket nor timer.                      *)
NeverStranded ==
    LET trying == \/ client.retry \/ client.startup
                  \/ client.sock \in {"connecting", "open", "broken"}
    IN  /\ mounted /\ url # "none" /\ onLine /\ netEvent = "none" =>
              trying \/ client.error = "limit"
        /\ ~mounted => ~trying

(* Who is connected reads no notice of a lost connection, and who was      *)
(* connected and no longer is reads one.                                   *)
NoticeIsHonest ==
    /\ client.sock = "open" => client.notice \notin {"lost", "failed"}
    /\ mounted /\ client.opened
          /\ client.status \in {"closed", "offline", "error"} =>
              client.notice \in {"lost", "failed"}

(* Once renders and frames have caught up, the server's end of an open     *)
(* connection delivers the room that is shown, however reconnects,         *)
(* renders and navigation interleaved.  (A page left in the very render    *)
(* that sees the connection open is not reported: the release has the old  *)
(* status.)                                                                *)
RoomIsFollowed ==
    client.sock = "open" /\ conn.outbox = <<>> /\ shown = room
        /\ rendered = client.status /\ room # "none" => conn.room = room

(* The three together: the client is connected or says that it is not, and *)
(* the room that is shown is the room that is delivered.                   *)
ConnectionHolds == NeverStranded /\ NoticeIsHonest /\ RoomIsFollowed

(* With a network and an address that stay, the client is connected again  *)
(* and again, or has reported that it gave up.                             *)
KeepsTrying ==
    \A u \in Urls : <>[](mounted /\ url = u /\ onLine) =>
        []<>(client.status = "online" \/ client.error = "limit")
=============================================================================
