--------------------------- MODULE ConnectionProofs ---------------------------
(***************************************************************************)
(* Proofs about the reconnecting socket and the upload call of MCConnection *)
(* for any rooms, addresses, files and limits.                             *)
(*                                                                         *)
(* Socket: what each callback makes of the client is stated once (the      *)
(* lemmas After...); the steps of the hook follow from the states it can   *)
(* leave the client in, those of the page from what was sent last.         *)
(*                                                                         *)
(* Upload: the invariant says what each request on its way, given up or    *)
(* not, can carry; then an accepted chunk fits where it is appended, and   *)
(* an answer is no more than the server has.                               *)
(***************************************************************************)
EXTENDS MCConnection, FiniteSetTheorems, SequenceTheorems, WellFoundedInduction, TLAPS

-----------------------------------------------------------------------------
(* The socket: what its client is                                          *)

Frames == Rooms \cup {"none"}

Clients == [sock : {"none", "connecting", "open", "broken", "closed"},
            status : Statuses,
            error : {"none", "connection", "limit"},
            notice : {"none", "lost", "restored", "failed"},
            fades : BOOLEAN,
            opened : BOOLEAN, reconnecting : BOOLEAN,
            attempt : 0..MaxRetries, retry : BOOLEAN,
            startup : BOOLEAN]

Trying(c) ==
  \/ c.retry \/ c.startup
  \/ c.sock \in {"connecting", "open", "broken"}

(* An event on its way says what the browser is, and nobody listens once   *)
(* the page is gone.                                                       *)
EventsAreTrue ==
  /\ netEvent = "online" => onLine
  /\ netEvent = "offline" => ~onLine
  /\ ~mounted => netEvent = "none"

(* What the client says of itself: an open socket is reported, a notice    *)
(* with a timer is no bad news, and a loss is not kept quiet.      *)
Honest(c) ==
  /\ c.sock = "open" => c.status = "online" /\ c.notice \notin {"lost", "failed"}
  /\ c.fades => c.notice \notin {"lost", "failed"}

Told(c) ==
  c.opened /\ c.status \in {"closed", "offline", "error"} =>
    c.notice \in {"lost", "failed"}

(* The room the server is or will be told is the room of the binding.      *)
LastSent == IF conn.outbox = <<>> THEN conn.room ELSE conn.outbox[Len(conn.outbox)]

Followed ==
  /\ binding = shown
  /\ client.sock = "open" /\ binding # "none" => LastSent = binding

SocketInv ==
  /\ TypeOK /\ NeverStranded /\ EventsAreTrue /\ Honest(client)
  /\ mounted => Told(client)
  /\ Followed

-----------------------------------------------------------------------------
(* What the callbacks make of the client                                   *)

(* A client whose fields are changed within their ranges is still one.     *)
LEMMA IsClient ==
  ASSUME NEW c \in Clients, NEW d, d = [f \in DOMAIN c |-> d[f]],
         d.sock \in {"none", "connecting", "open", "broken", "closed"},
         d.status \in Statuses, d.error \in {"none", "connection", "limit"},
         d.notice \in {"none", "lost", "restored", "failed"},
         d.fades \in BOOLEAN, d.opened \in BOOLEAN, d.reconnecting \in BOOLEAN,
         d.attempt \in 0..MaxRetries, d.retry \in BOOLEAN, d.startup \in BOOLEAN
  PROVE  d \in Clients
<1>1. DOMAIN c = {"sock", "status", "error", "notice", "fades", "opened", "reconnecting",
                  "attempt", "retry", "startup"}
  BY DEF Clients
<1> QED BY <1>1 DEF Clients

LEMMA CleanupKeeps ==
  ASSUME NEW c \in Clients, Honest(c), Told(c)
  PROVE  /\ Cleanup(c) \in Clients /\ Honest(Cleanup(c)) /\ Told(Cleanup(c))
         /\ Cleanup(c).sock = "none" /\ Cleanup(c).opened = c.opened
BY DEF Cleanup, Clients, Honest, Told

LEMMA LostTells ==
  ASSUME NEW c \in Clients, c.fades => c.notice \notin {"lost", "failed"}
  PROVE  /\ Lost(c) \in Clients
         /\ Lost(c).opened => Lost(c).notice = "lost"
         /\ Lost(c).fades => Lost(c).notice \notin {"lost", "failed"}
         /\ Lost(c).sock = c.sock /\ Lost(c).attempt = c.attempt
         /\ Lost(c).retry = c.retry /\ Lost(c).startup = c.startup
BY DEF Lost, Notice, Clients

LEMMA ConnectTries ==
  ASSUME NEW c \in Clients, Honest(c)
  PROVE  /\ Connect(c) \in Clients /\ Honest(Connect(c)) /\ Told(Connect(c))
         /\ Connect(c).sock \in {"none", "connecting"}
         /\ url # "none" /\ onLine => Connect(c).sock = "connecting"
<1>1. /\ Cleanup(c) \in Clients /\ Cleanup(c).sock = "none"
      /\ Cleanup(c).fades => Cleanup(c).notice \notin {"lost", "failed"}
  BY DEF Cleanup, Clients, Honest
<1>2. CASE url = "none"
  BY <1>1, <1>2 DEF Connect, Clients, Statuses, Honest, Told
<1>3. CASE url # "none" /\ ~onLine
  <2>1. /\ Lost(Cleanup(c)) \in Clients /\ Lost(Cleanup(c)).sock = "none"
        /\ Lost(Cleanup(c)).opened => Lost(Cleanup(c)).notice = "lost"
        /\ Lost(Cleanup(c)).fades => Lost(Cleanup(c)).notice \notin {"lost", "failed"}
    BY <1>1, LostTells
  <2>2. Connect(c) = [Lost(Cleanup(c)) EXCEPT !.status = "offline"]
    BY <1>3 DEF Connect
  <2> QED BY <1>3, <2>1, <2>2 DEF Clients, Statuses, Honest, Told
<1>4. CASE url # "none" /\ onLine
  BY <1>1, <1>4 DEF Connect, Clients, Statuses, Honest, Told
<1> QED BY <1>2, <1>3, <1>4

LEMMA AfterOpenHolds ==
  ASSUME NEW c \in Clients
  PROVE  /\ AfterOpen(c) \in Clients /\ Honest(AfterOpen(c)) /\ Told(AfterOpen(c))
         /\ AfterOpen(c).sock = "open"
<1> DEFINE opening == [c EXCEPT !.sock = "open", !.attempt = 0, !.opened = TRUE,
                             !.reconnecting = FALSE, !.status = "online",
                             !.error = "none"]
           type == IF c.reconnecting THEN "restored" ELSE "none"
<1>1. /\ opening.sock = "open" /\ opening.status = "online" /\ opening.error = "none"
      /\ opening.attempt = 0 /\ opening.opened = TRUE /\ opening.reconnecting = FALSE
      /\ opening.notice = c.notice /\ opening.fades = c.fades
      /\ opening.retry = c.retry /\ opening.startup = c.startup
      /\ opening = [f \in DOMAIN c |-> opening[f]]
  BY DEF Clients
<1>2. AfterOpen(c) = [opening EXCEPT !.notice = type, !.fades = (type = "restored")]
  BY DEF AfterOpen, Notice
<1>3. type \in {"restored", "none"}
  OBVIOUS
<1> HIDE DEF opening, type
<1>4. opening \in Clients
  <2>1. /\ c.notice \in {"none", "lost", "restored", "failed"} /\ c.fades \in BOOLEAN
        /\ c.retry \in BOOLEAN /\ c.startup \in BOOLEAN /\ 0 \in 0..MaxRetries
    BY SocketAssumption DEF Clients
  <2> QED BY <1>1, <2>1, IsClient DEF Statuses
<1> QED BY <1>1, <1>2, <1>3, <1>4 DEF Clients, Honest, Told

LEMMA AfterErrorHolds ==
  ASSUME NEW c \in Clients, Honest(c)
  PROVE  /\ AfterError(c) \in Clients /\ Honest(AfterError(c)) /\ Told(AfterError(c))
         /\ AfterError(c).sock = "broken"
<1> DEFINE lost == Lost(c)
<1>1. /\ lost \in Clients
      /\ lost.opened => lost.notice = "lost"
      /\ lost.fades => lost.notice \notin {"lost", "failed"}
  BY LostTells DEF Honest
<1>2. AfterError(c) = [lost EXCEPT !.sock = "broken", !.status = "error",
                                   !.error = "connection"]
  BY DEF AfterError
<1> DEFINE d == AfterError(c)
<1>3. /\ d.sock = "broken" /\ d.status = "error" /\ d.error = "connection"
      /\ d.notice = lost.notice /\ d.fades = lost.fades /\ d.opened = lost.opened
      /\ d.reconnecting = lost.reconnecting /\ d.attempt = lost.attempt
      /\ d.retry = lost.retry /\ d.startup = lost.startup
      /\ d = [f \in DOMAIN lost |-> d[f]]
  <2> HIDE DEF lost
  <2> QED BY <1>1, <1>2 DEF Clients
<1> HIDE DEF lost, d
<1>4. d \in Clients
  <2>1. /\ lost.notice \in {"none", "lost", "restored", "failed"} /\ lost.fades \in BOOLEAN
        /\ lost.opened \in BOOLEAN /\ lost.reconnecting \in BOOLEAN
        /\ lost.attempt \in 0..MaxRetries
        /\ lost.retry \in BOOLEAN /\ lost.startup \in BOOLEAN
    BY <1>1 DEF Clients
  <2> QED BY <1>1, <1>3, <2>1, IsClient DEF Statuses
<1>5. Honest(d) /\ Told(d)
  BY <1>1, <1>3 DEF Honest, Told
<1> QED BY <1>3, <1>4, <1>5 DEF d

LEMMA AfterCloseHolds ==
  ASSUME NEW c \in Clients, Honest(c)
  PROVE  /\ AfterClose(c) \in Clients /\ Honest(AfterClose(c)) /\ Told(AfterClose(c))
         /\ AfterClose(c).sock = "closed"
         /\ onLine => AfterClose(c).retry \/ AfterClose(c).error = "limit"
<1> DEFINE closed == [Lost(c) EXCEPT !.sock = "closed", !.status = "closed"]
<1>1. /\ closed \in Clients /\ closed.sock = "closed" /\ closed.status = "closed"
      /\ closed.opened => closed.notice = "lost"
      /\ closed.fades => closed.notice \notin {"lost", "failed"}
      /\ closed.attempt = c.attempt
  BY LostTells DEF Clients, Statuses, Honest
<1>2. AfterClose(c) = IF ~onLine THEN [closed EXCEPT !.status = "offline"]
                      ELSE IF Exhausted(c)
                      THEN Notice([closed EXCEPT !.status = "error", !.error = "limit"],
                                  "failed")
                      ELSE [closed EXCEPT !.attempt = @ + 1, !.retry = TRUE]
  BY DEF AfterClose
<1> HIDE DEF closed
<1>3. CASE ~onLine
  BY <1>1, <1>2, <1>3 DEF Clients, Statuses, Honest, Told
<1>4. CASE onLine /\ Exhausted(c)
  <2> DEFINE given == [closed EXCEPT !.status = "error", !.error = "limit"]
  <2>1. /\ given \in Clients /\ given.sock = "closed" /\ given.error = "limit"
    BY <1>1 DEF Clients, Statuses
  <2>2. AfterClose(c) = [given EXCEPT !.notice = "failed", !.fades = FALSE]
    BY <1>2, <1>4 DEF Notice
  <2> HIDE DEF given
  <2>3. /\ AfterClose(c) \in Clients /\ AfterClose(c).sock = "closed"
        /\ AfterClose(c).error = "limit" /\ AfterClose(c).notice = "failed"
        /\ AfterClose(c).fades = FALSE
    BY <2>1, <2>2 DEF Clients
  <2> QED BY <2>3 DEF Honest, Told
<1>5. CASE onLine /\ ~Exhausted(c)
  <2>1. c.attempt + 1 \in 0..MaxRetries
    BY <1>5, SocketAssumption DEF Exhausted, Clients
  <2>2. AfterClose(c) = [closed EXCEPT !.attempt = c.attempt + 1, !.retry = TRUE]
    BY <1>1, <1>2, <1>5
  <2> QED BY <1>1, <2>1, <2>2 DEF Clients, Statuses, Honest, Told
<1> QED BY <1>3, <1>4, <1>5

-----------------------------------------------------------------------------
LEMMA SocketInit == Init => SocketInv
BY SocketAssumption
DEF Init, SocketInv, TypeOK, NeverStranded, EventsAreTrue, Honest, Told, Followed,
    NewClient, NoConn, Statuses

(* The client part of the invariant.                                       *)
ClientInv == /\ client \in Clients /\ NeverStranded /\ EventsAreTrue
             /\ Honest(client) /\ (mounted => Told(client))

LEMMA ClientStep == SocketInv /\ [Next]_vars => ClientInv'
<1> SUFFICES ASSUME SocketInv, [Next]_vars PROVE ClientInv' OBVIOUS
<1>0. /\ client \in Clients /\ Honest(client) /\ NeverStranded /\ EventsAreTrue
      /\ mounted => Told(client)
      /\ ~mounted => ~Trying(client)
  BY DEF SocketInv, TypeOK, Clients, NeverStranded, Trying
<1>1. CASE StartupFires
  <2>1. client' = [Connect(client) EXCEPT !.startup = FALSE] /\ mounted
    BY <1>0, <1>1 DEF StartupFires, Becomes, Trying
  <2>2. UNCHANGED <<mounted, url, onLine, netEvent>>
    BY <1>1 DEF StartupFires, world
  <2> QED BY <1>0, <2>1, <2>2, ConnectTries
          DEF ClientInv, Clients, NeverStranded, EventsAreTrue, Honest, Told
<1>2. CASE RetryFires
  <2>1. client' = Connect(client) /\ mounted
    BY <1>0, <1>2 DEF RetryFires, Becomes, Trying
  <2>2. UNCHANGED <<mounted, url, onLine, netEvent>>
    BY <1>2 DEF RetryFires, world
  <2> QED BY <1>0, <2>1, <2>2, ConnectTries
          DEF ClientInv, NeverStranded, EventsAreTrue
<1>3. CASE Open
  <2>1. client' = AfterOpen(client) /\ mounted
    BY <1>0, <1>3 DEF Open, Trying
  <2>2. UNCHANGED <<mounted, url, onLine, netEvent>>
    BY <1>3 DEF Open, world
  <2> QED BY <1>0, <2>1, <2>2, AfterOpenHolds DEF ClientInv, NeverStranded, EventsAreTrue
<1>4. CASE Error
  <2>1. client' = AfterError(client) /\ mounted
    BY <1>0, <1>4 DEF Error, Becomes, Trying
  <2>2. UNCHANGED <<mounted, url, onLine, netEvent>>
    BY <1>4 DEF Error, world
  <2> QED BY <1>0, <2>1, <2>2, AfterErrorHolds DEF ClientInv, NeverStranded, EventsAreTrue
<1>5. CASE Close
  <2>1. client' = AfterClose(client) /\ mounted
    BY <1>0, <1>5 DEF Close, Becomes, Trying
  <2>2. UNCHANGED <<mounted, url, onLine, netEvent>>
    BY <1>5 DEF Close, world
  <2> QED BY <1>0, <2>1, <2>2, AfterCloseHolds DEF ClientInv, NeverStranded, EventsAreTrue
<1>6. CASE NoticeFades
  <2>1. client' = [client EXCEPT !.notice = "none", !.fades = FALSE]
    BY <1>6 DEF NoticeFades, Notice
  <2>2. client.notice \notin {"lost", "failed"}
    BY <1>0, <1>6 DEF NoticeFades, Honest
  <2>3. UNCHANGED <<mounted, url, onLine, netEvent>>
    BY <1>6 DEF NoticeFades, world
  <2> QED BY <1>0, <2>1, <2>2, <2>3
          DEF ClientInv, Clients, NeverStranded, EventsAreTrue, Honest, Told
<1>7. ASSUME NEW next \in Urls \cup {"none"}, UrlChanges(next) PROVE ClientInv'
  <2>1. /\ client' = [Cleanup(client) EXCEPT !.startup = TRUE, !.fades = FALSE]
        /\ mounted
    BY <1>7 DEF UrlChanges, Becomes
  <2>2. UNCHANGED <<mounted, onLine, netEvent>>
    BY <1>7 DEF UrlChanges
  <2> DEFINE clean == Cleanup(client)
  <2>3. clean \in Clients /\ Honest(clean) /\ Told(clean) /\ clean.sock = "none"
    BY <1>0, <2>1, CleanupKeeps
  <2>4. client' = [clean EXCEPT !.startup = TRUE, !.fades = FALSE]
    BY <2>1
  <2> HIDE DEF clean
  <2>5. /\ client' \in Clients /\ client'.startup = TRUE /\ client'.fades = FALSE
        /\ client'.sock = clean.sock /\ client'.status = clean.status
        /\ client'.notice = clean.notice /\ client'.opened = clean.opened
    BY <2>3, <2>4 DEF Clients
  <2>6. Honest(client)' /\ Told(client)'
    BY <2>3, <2>5 DEF Honest, Told
  <2> QED BY <1>0, <2>1, <2>2, <2>5, <2>6 DEF ClientInv, NeverStranded, EventsAreTrue
<1>8. CASE Unmount
  BY <1>0, <1>8
  DEF Unmount, Becomes, Notice, Cleanup, ClientInv, Clients, NeverStranded, EventsAreTrue,
      Honest
<1>9. CASE NetworkChanges
  BY <1>0, <1>9 DEF NetworkChanges, ClientInv, NeverStranded, EventsAreTrue, Trying
<1>10. CASE HandleOnline
  <2>1. client' = Connect([client EXCEPT !.status = "connecting"]) /\ mounted /\ onLine
    BY <1>0, <1>10 DEF HandleOnline, Becomes, EventsAreTrue
  <2>2. UNCHANGED <<mounted, url, onLine>> /\ netEvent' = "none"
    BY <1>10 DEF HandleOnline
  <2> DEFINE trying == [client EXCEPT !.status = "connecting"]
  <2>3. trying \in Clients
    BY <1>0 DEF Clients, Statuses
  <2>4. CASE client.sock = "open"
    <3>1. trying.fades => trying.notice \notin {"lost", "failed"}
      BY <1>0 DEF Clients, Honest
    <3>2. /\ [trying EXCEPT !.sock = "none"] \in Clients
          /\ Honest([trying EXCEPT !.sock = "none"])
      BY <2>3, <3>1 DEF Clients, Honest
    <3>3. Cleanup(trying) = Cleanup([trying EXCEPT !.sock = "none"])
      BY <2>3 DEF Cleanup, Clients
    <3>4. Connect(trying) = Connect([trying EXCEPT !.sock = "none"])
      BY <3>3 DEF Connect
    <3> QED BY <2>1, <2>2, <3>2, <3>4, ConnectTries
            DEF ClientInv, NeverStranded, EventsAreTrue
  <2>5. CASE client.sock # "open"
    <3>1. Honest(trying)
      BY <1>0, <2>5 DEF Clients, Honest
    <3> QED BY <2>1, <2>2, <2>3, <3>1, ConnectTries
            DEF ClientInv, NeverStranded, EventsAreTrue
  <2> QED BY <2>4, <2>5
<1>11. CASE HandleOffline
  <2>1. /\ client' = Cleanup([Lost(client) EXCEPT !.status = "offline"])
        /\ mounted /\ ~onLine
    BY <1>0, <1>11 DEF HandleOffline, Becomes, EventsAreTrue
  <2>2. UNCHANGED <<mounted, url, onLine>> /\ netEvent' = "none"
    BY <1>11 DEF HandleOffline
  <2> DEFINE given == [Lost(client) EXCEPT !.status = "offline"]
  <2>3. /\ given \in Clients /\ given.status = "offline"
        /\ given.opened => given.notice = "lost"
        /\ given.fades => given.notice \notin {"lost", "failed"}
    BY <1>0, LostTells DEF Honest, Clients, Statuses
  <2>4. client' = [given EXCEPT !.retry = FALSE, !.sock = "none"]
    BY <2>1 DEF Cleanup
  <2> HIDE DEF given
  <2>5. /\ client' \in Clients /\ client'.sock = "none" /\ client'.status = "offline"
        /\ client'.notice = given.notice /\ client'.opened = given.opened
        /\ client'.fades = given.fades
    BY <2>3, <2>4 DEF Clients
  <2>6. Honest(client)' /\ Told(client)'
    BY <2>3, <2>5 DEF Honest, Told
  <2> QED BY <2>1, <2>2, <2>5, <2>6 DEF ClientInv, NeverStranded, EventsAreTrue
<1>12. ASSUME \/ Render \/ ServerReads \/ UNCHANGED vars
              \/ \E next \in Rooms \cup {"none"} : Navigate(next)
       PROVE  ClientInv'
  BY <1>0, <1>12
  DEF Render, ServerReads, Navigate, vars, world, ClientInv, NeverStranded, EventsAreTrue
<1> QED
  BY <1>1, <1>2, <1>3, <1>4, <1>5, <1>6, <1>7, <1>8, <1>9, <1>10, <1>11, <1>12
  DEF Next, Timers, Events

-----------------------------------------------------------------------------
(* The room                                                                *)

PageInv == /\ conn \in [room : Frames, outbox : Seq(Frames)]
           /\ Len(conn.outbox) <= MaxOutbox
           /\ {room, shown, binding} \subseteq Frames
           /\ rendered \in Statuses /\ url \in Urls \cup {"none"}
           /\ mounted \in BOOLEAN /\ onLine \in BOOLEAN
           /\ netEvent \in {"none", "online", "offline"}
           /\ Followed

(* A step of the hook that leaves the socket not open leaves nothing to    *)
(* follow.                                                                 *)
LEMMA NewClientFollows ==
  ASSUME SocketInv, NEW c, Becomes(c), c.sock # "open", binding' = shown',
         {room', shown', binding'} \subseteq Frames, rendered' \in Statuses,
         url' \in Urls \cup {"none"}, mounted' \in BOOLEAN, onLine' \in BOOLEAN,
         netEvent' \in {"none", "online", "offline"}
  PROVE  PageInv'
<1>1. conn' = NoConn /\ client'.sock # "open"
  BY DEF Becomes
<1>2. NoConn \in [room : Frames, outbox : Seq(Frames)] /\ Len(NoConn.outbox) <= MaxOutbox
  BY SocketAssumption DEF NoConn, Frames
<1> QED BY <1>1, <1>2 DEF PageInv, Followed

LEMMA PageStep == SocketInv /\ [Next]_vars => PageInv'
<1> SUFFICES ASSUME SocketInv, [Next]_vars PROVE PageInv' OBVIOUS
<1>0. PageInv /\ client \in Clients /\ Honest(client)
  BY DEF SocketInv, TypeOK, PageInv, Frames, Clients
<1>1. CASE StartupFires
  <2>1. [Connect(client) EXCEPT !.startup = FALSE].sock # "open"
    BY <1>0, ConnectTries DEF Clients
  <2> QED BY <1>0, <1>1, <2>1, NewClientFollows
          DEF StartupFires, world, page, PageInv, Followed
<1>2. CASE RetryFires
  <2>1. Connect(client).sock # "open"
    BY <1>0, ConnectTries
  <2> QED BY <1>0, <1>2, <2>1, NewClientFollows DEF RetryFires, world, page, PageInv, Followed
<1>3. CASE Open
  <2>1. /\ conn'.room = "none"
        /\ conn' \in [room : Frames, outbox : Seq(Frames)]
        /\ binding = "none" => conn'.outbox = <<>>
        /\ binding # "none" => conn'.outbox = <<binding>>
    <3>1. binding \in Frames /\ "none" \in Frames
      BY <1>0 DEF PageInv, Frames
    <3>2. <<>> \in Seq(Frames) /\ <<binding>> \in Seq(Frames)
      BY <3>1
    <3>3. CASE binding = "none"
      BY <1>3, <3>1, <3>2, <3>3 DEF Open
    <3>4. CASE binding # "none"
      <4>1. conn' = [room |-> "none", outbox |-> <<binding>>]
        BY <1>3, <3>4 DEF Open
      <4> DEFINE heard == <<binding>>
      <4>2. heard \in Seq(Frames) /\ conn' = [room |-> "none", outbox |-> heard]
        BY <3>2, <4>1
      <4> HIDE DEF heard
      <4>3. /\ conn'.room = "none" /\ conn'.outbox = heard
            /\ conn' \in [room : Frames, outbox : Seq(Frames)]
        BY <3>1, <4>2
      <4>4. conn'.outbox = <<binding>>
        BY <4>3 DEF heard
      <4> QED BY <3>4, <4>3, <4>4
    <3> QED BY <3>3, <3>4
  <2>2. Len(conn'.outbox) <= MaxOutbox
    <3>1. conn'.outbox = <<>> \/ conn'.outbox = <<binding>>
      BY <2>1
    <3>a. Len(<<>>) = 0 /\ Len(<<binding>>) = 1
      OBVIOUS
    <3>2. Len(conn'.outbox) <= 1
      <4>1. CASE conn'.outbox = <<>>
        BY <3>a, <4>1
      <4>2. CASE conn'.outbox = <<binding>>
        BY <3>a, <4>2
      <4> QED BY <3>1, <4>1, <4>2
    <3>3. Len(conn'.outbox) \in Nat
      BY <2>1
    <3>4. MaxOutbox \in Nat /\ MaxOutbox >= 1
      BY SocketAssumption
    <3> QED BY <3>2, <3>3, <3>4
  <2>4. LastSent' = binding
    <3>1. CASE binding = "none"
      BY <2>1, <3>1 DEF LastSent
    <3>2. CASE binding # "none"
      <4> DEFINE heard == <<binding>>
      <4>1. heard # <<>> /\ heard[Len(heard)] = binding
        OBVIOUS
      <4>2. conn'.outbox = heard
        BY <2>1, <3>2
      <4> HIDE DEF heard
      <4> QED BY <4>1, <4>2 DEF LastSent
    <3> QED BY <3>1, <3>2
  <2>3. UNCHANGED <<world, page>>
    BY <1>3 DEF Open
  <2> QED BY <1>0, <2>1, <2>2, <2>3, <2>4 DEF PageInv, Followed, world, page
<1>4. CASE Error
  <2>1. AfterError(client).sock # "open"
    BY <1>0, AfterErrorHolds
  <2> QED BY <1>0, <1>4, <2>1, NewClientFollows DEF Error, world, page, PageInv, Followed
<1>5. CASE Close
  <2>1. AfterClose(client).sock # "open"
    BY <1>0, AfterCloseHolds
  <2> QED BY <1>0, <1>5, <2>1, NewClientFollows DEF Close, world, page, PageInv, Followed
<1>6. CASE NoticeFades
  <2>1. client'.sock = client.sock /\ UNCHANGED <<conn, world, page>>
    BY <1>0, <1>6 DEF NoticeFades, Notice, Clients
  <2> QED BY <1>0, <2>1 DEF PageInv, Followed, LastSent, world, page
<1>7. ASSUME NEW next \in Urls \cup {"none"}, UrlChanges(next) PROVE PageInv'
  <2>1. [Cleanup(client) EXCEPT !.startup = TRUE, !.fades = FALSE].sock # "open"
    BY <1>0 DEF Cleanup, Clients
  <2> QED BY <1>0, <1>7, <2>1, NewClientFollows DEF UrlChanges, page, PageInv, Followed
<1>8. CASE Unmount
  <2>1. [Notice(Cleanup(client), "none") EXCEPT !.startup = FALSE].sock # "open"
    BY <1>0 DEF Notice, Cleanup, Clients
  <2> QED BY <1>0, <1>8, <2>1, NewClientFollows DEF Unmount, PageInv, Followed, Frames
<1>9. CASE NetworkChanges
  BY <1>0, <1>9 DEF NetworkChanges, PageInv, Followed, LastSent, page
<1>10. CASE HandleOnline
  <2>1. Connect([client EXCEPT !.status = "connecting"]).sock # "open"
    BY <1>0 DEF Connect, Cleanup, Lost, Notice, Clients
  <2> QED BY <1>0, <1>10, <2>1, NewClientFollows DEF HandleOnline, page, PageInv, Followed
<1>11. CASE HandleOffline
  <2>1. Cleanup([Lost(client) EXCEPT !.status = "offline"]).sock # "open"
    BY <1>0 DEF Cleanup, Lost, Notice, Clients
  <2> QED BY <1>0, <1>11, <2>1, NewClientFollows DEF HandleOffline, page, PageInv, Followed
<1>12. ASSUME NEW next \in Rooms \cup {"none"}, Navigate(next) PROVE PageInv'
  BY <1>0, <1>12 DEF Navigate, PageInv, Followed, LastSent, Frames, world
<1>13. CASE ServerReads
  <2>1. /\ conn.outbox \in Seq(Frames) /\ conn.outbox # <<>>
        /\ conn' = [room |-> Head(conn.outbox), outbox |-> Tail(conn.outbox)]
        /\ UNCHANGED <<world, client, page>>
    BY <1>0, <1>13 DEF ServerReads, PageInv
  <2>2. /\ Head(conn.outbox) \in Frames /\ Tail(conn.outbox) \in Seq(Frames)
        /\ Len(Tail(conn.outbox)) = Len(conn.outbox) - 1
        /\ \A i \in 1..Len(Tail(conn.outbox)) : Tail(conn.outbox)[i] = conn.outbox[i + 1]
    BY <2>1
  <2>3. LastSent' = LastSent
    <3>1. CASE Tail(conn.outbox) = <<>>
      <4>a. Len(conn.outbox) \in Nat
        BY <2>1
      <4>b. Len(<<>>) = 0
        OBVIOUS
      <4>0. Len(Tail(conn.outbox)) = 0 /\ Len(conn.outbox) \in Nat
        BY <3>1, <4>a, <4>b
      <4>1. Len(conn.outbox) = 1 /\ Head(conn.outbox) = conn.outbox[1]
        BY <2>1, <2>2, <4>0
      <4>2. conn'.outbox = <<>> /\ conn'.room = Head(conn.outbox)
        BY <2>1, <3>1
      <4>3. LastSent' = Head(conn.outbox)
        BY <4>2 DEF LastSent
      <4>4. LastSent = conn.outbox[1]
        BY <2>1, <4>1 DEF LastSent
      <4> QED BY <4>1, <4>3, <4>4
    <3>2. CASE Tail(conn.outbox) # <<>>
      BY <2>1, <2>2, <3>2 DEF LastSent
    <3> QED BY <3>1, <3>2
  <2> QED BY <1>0, <2>1, <2>2, <2>3, SocketAssumption DEF PageInv, Followed, world, page
<1>14. CASE Render
  <2> DEFINE releases == binding # "none" /\ rendered = "online"
             activates == room # "none" /\ client.status = "online"
             released == IF releases THEN Sent(conn.outbox, "none") ELSE conn.outbox
             outbox == IF activates THEN Sent(released, room) ELSE released
  <2>1. /\ Len(conn.outbox) + 1 < MaxOutbox
        /\ rendered' = client.status /\ shown' = room /\ binding' = room
        /\ conn' = [conn EXCEPT !.outbox = outbox]
        /\ UNCHANGED <<world, client, room>>
    BY <1>14 DEF Render
  <2>2. /\ released \in Seq(Frames) /\ Len(released) <= Len(conn.outbox) + 1
    BY <1>0 DEF PageInv, Sent, Frames
  <2>3. /\ outbox \in Seq(Frames) /\ Len(outbox) <= Len(conn.outbox) + 2
        /\ client.sock = "open" /\ activates => outbox = Append(released, room)
    BY <1>0, <2>2 DEF PageInv, Sent, Frames
  <2>4. client.sock = "open" /\ room # "none" => LastSent' = room
    <3> SUFFICES ASSUME client.sock = "open", room # "none" PROVE LastSent' = room
      OBVIOUS
    <3>1. outbox = Append(released, room)
      BY <1>0, <2>3 DEF Honest
    <3> HIDE DEF released, outbox, activates, releases
    <3>2. outbox # <<>> /\ outbox[Len(outbox)] = room
      BY <1>0, <2>2, <3>1 DEF PageInv
    <3>3. conn'.outbox = outbox
      BY <1>0, <2>1 DEF PageInv
    <3> QED BY <3>2, <3>3 DEF LastSent
  <2> HIDE DEF released, outbox, activates, releases
  <2>5. conn' \in [room : Frames, outbox : Seq(Frames)] /\ Len(conn'.outbox) <= MaxOutbox
    BY <1>0, <2>1, <2>3, SocketAssumption DEF PageInv
  <2>6. rendered' \in Statuses
    BY <1>0, <2>1 DEF Clients
  <2> QED BY <1>0, <2>1, <2>4, <2>5, <2>6 DEF PageInv, Followed, world
<1>15. CASE UNCHANGED vars
  BY <1>0, <1>15 DEF vars, PageInv, Followed, LastSent
<1> QED
  BY <1>1, <1>2, <1>3, <1>4, <1>5, <1>6, <1>7, <1>8, <1>9, <1>10, <1>11, <1>12, <1>13,
     <1>14, <1>15 DEF Next, Timers, Events

-----------------------------------------------------------------------------
LEMMA SocketStep == SocketInv /\ [Next]_vars => SocketInv'
<1>1. ClientInv' /\ PageInv' => SocketInv'
  BY DEF ClientInv, PageInv, SocketInv, TypeOK, Clients, Frames
<1> QED BY <1>1, ClientStep, PageStep

LEMMA SocketSpec == Spec => []SocketInv
BY SocketInit, SocketStep, PTL DEF Spec

(* Every variable of ReconnectingSocket stays in its range: in particular  *)
(* the attempts never pass the limit, whatever resets them.                *)
THEOREM TypeCorrect == Spec => []TypeOK
<1>1. SocketInv => TypeOK
  BY DEF SocketInv
<1> QED BY <1>1, SocketSpec, PTL

(* No order of handshakes, failures, network changes and new addresses     *)
(* leaves a mounted client idle without having said so, and none leaves an *)
(* unmounted one with a socket or a timer.                                 *)
THEOREM NobodyIsStranded == Spec => []NeverStranded
<1>1. SocketInv => NeverStranded
  BY DEF SocketInv
<1> QED BY <1>1, SocketSpec, PTL

(* The notice of a lost connection is there when it is lost, and only      *)
(* then.                                                                   *)
THEOREM NoticeHonest == Spec => []NoticeIsHonest
<1>1. SocketInv => NoticeIsHonest
  BY DEF SocketInv, NoticeIsHonest, Honest, Told
<1> QED BY <1>1, SocketSpec, PTL

(* The server's end follows the room that is shown.                        *)
THEOREM RoomFollowed == Spec => []RoomIsFollowed
<1>1. SocketInv => RoomIsFollowed
  BY DEF SocketInv, RoomIsFollowed, Followed, LastSent
<1> QED BY <1>1, SocketSpec, PTL

\* The same of the run, where the socket moves or rests.
LEMMA SocketIsSound == MCSpec => []SocketInv
<1>1. MCInit => SocketInv
  <2>1. SocketIsGone => SocketInv
    <3> SUFFICES ASSUME SocketIsGone PROVE SocketInv
      OBVIOUS
    <3>1. client = [sock |-> "none", status |-> "idle", error |-> "none", notice |-> "none",
                    fades |-> FALSE, opened |-> FALSE, reconnecting |-> FALSE,
                    attempt |-> 0, retry |-> FALSE, startup |-> FALSE]
      BY DEF SocketIsGone, NewClient
    <3>2. conn = [room |-> "none", outbox |-> <<>>]
      BY DEF SocketIsGone, NoConn
    <3>3. client \in Clients /\ conn \in [room : Frames, outbox : Seq(Frames)] /\ Len(conn.outbox) <= MaxOutbox
      BY <3>1, <3>2, SocketAssumption DEF Clients, Frames, Statuses
    <3>4. TypeOK
      BY <3>3 DEF SocketIsGone, TypeOK, Clients, Frames, Statuses
    <3>5. NeverStranded /\ EventsAreTrue /\ Honest(client)
      BY <3>1 DEF SocketIsGone, NeverStranded, EventsAreTrue, Honest
    <3>6. ~mounted /\ Followed
      BY <3>1 DEF SocketIsGone, Followed
    <3> QED BY <3>4, <3>5, <3>6 DEF SocketInv
  <2> QED BY <2>1, SocketInit DEF MCInit
<1>2. SocketInv /\ [MCNext]_allVars => SocketInv'
  <2>1. [MCNext]_allVars => [Next]_vars
    BY DEF MCNext, allVars
  <2> QED BY <2>1, SocketStep
<1> QED BY <1>1, <1>2, PTL DEF MCSpec

(* The same of the run, where the socket moves or rests: the three          *)
(* together, for any rooms, addresses and limits.                          *)
THEOREM ConnectionIsSound == MCSpec => []ConnectionHolds
<1>1. SocketInv => ConnectionHolds
  BY DEF SocketInv, ConnectionHolds, NoticeIsHonest, Honest, Told, RoomIsFollowed, Followed,
     LastSent
<1> QED BY <1>1, SocketIsSound, PTL

-----------------------------------------------------------------------------
(* The upload: what its requests are and what is known of them              *)

Phases == {"create", "chunk", "sync", "finalize", "cleanup", "done", "failed"}
Stages == {"sent", "refused", "broken"}

\* The requests and answers, by the fields they have.
Creates == [kind : {"create"}, stage : Stages \cup {"accepted"}, file : Upload!Numbers]
Chunks == [kind : {"chunk"}, stage : Stages, file : Upload!Numbers, offset : Nat, bytes : Seq(Nat)]
Syncs == [kind : {"sync"}, stage : Stages, file : Upload!Numbers]
Answers == [kind : {"chunk", "sync"}, stage : {"accepted", "broken"}, received : Nat]
Finals == [kind : {"finalize"}, stage : Stages \cup {"accepted"}]

\* A chunk carries the bytes that follow its offset, and no more than the file has.
Follows(req) ==
    /\ req.offset + Len(req.bytes) <= Size[req.file]
    /\ \A i \in 1..Len(req.bytes) : req.bytes[i] = req.offset + i

UploadTypes ==
    /\ phase \in Phases /\ file \in Upload!Numbers /\ start \in 0..Size[file]
    /\ attempt \in 0..MaxRecovery /\ retryable \in BOOLEAN /\ aborted \in BOOLEAN
    /\ sessions \subseteq Upload!Numbers /\ removing \subseteq Upload!Numbers /\ open \subseteq Upload!Numbers
    /\ known \in [Upload!Numbers -> Nat] /\ stored \in [Upload!Numbers -> Seq(Nat)] /\ posted \in Nat

Strays ==
    \A req \in stray :
        \/ req \in Creates \cup Syncs \cup Finals
        \/ req \in Chunks /\ Follows(req)

\* The bytes of a file on the server are its first, and the client counts no more.
Bytes ==
    \A f \in Upload!Numbers :
        /\ known[f] <= Len(stored[f]) /\ Len(stored[f]) <= Size[f]
        /\ \A i \in 1..Len(stored[f]) : stored[f][i] = i

\* What is in flight is what the loop waits for; an answer is not more than the server has.
Expected ==
    /\ phase = "create" => call \in Creates /\ call.file = file
    /\ phase = "chunk" => \/ call \in Chunks /\ call.file = file /\ Follows(call)
                          \/ call \in Answers /\ call.kind = "chunk" /\ call.received <= Len(stored[file])
    /\ phase = "sync" => \/ call \in Syncs /\ call.file = file
                         \/ call \in Answers /\ call.kind = "sync" /\ call.received <= Len(stored[file])
    /\ phase = "finalize" => call \in Finals
    /\ phase \in {"cleanup", "done", "failed"} => call = Upload!NoCall

\* Sessions are only removed when the loop is over.
Kept ==
    /\ removing # {} => phase = "cleanup"
    /\ posted = 0 =>
        /\ phase = "create" => /\ \A f \in Upload!Numbers : f < file => f \in open
                               /\ call.stage = "accepted" => file \in open
        /\ phase \in {"chunk", "sync", "finalize"} => open = Upload!Numbers

\* The loop leaves a file when all of it is known to be there.
Passed ==
    /\ phase = "create" => start = 0
    /\ phase \in {"chunk", "sync"} => \A f \in Upload!Numbers : f < file => known[f] = Size[f]
    /\ phase = "finalize" => \A f \in Upload!Numbers : known[f] = Size[f]

UploadInv == UploadTypes /\ Strays /\ Bytes /\ Expected /\ Kept /\ Passed

-----------------------------------------------------------------------------
(* The operators *)

\* Where there are numbers there is a least one.
LEMMA LeastOf ==
  ASSUME NEW S, S \subseteq Nat, S # {}
  PROVE  LET f == CHOOSE g \in S : \A h \in S : g <= h
         IN  f \in S /\ \A h \in S : f <= h
<1>1. PICK x \in S : \A y \in S : ~(<<y, x>> \in OpToRel(<, Nat))
  BY NatLessThanWellFounded, WFMin
<1>2. ASSUME NEW y \in S PROVE x <= y
  <2>1. x \in Nat /\ y \in Nat
    OBVIOUS
  <2>2. ASSUME y < x PROVE FALSE
    <3>1. <<y, x>> \in OpToRel(<, Nat)
      BY <2>1, <2>2 DEF OpToRel
    <3> QED BY <3>1, <1>1
  <2> QED BY <2>1, <2>2
<1>3. \E g \in S : \A h \in S : g <= h
  BY <1>2
<1> QED BY <1>3

LEMMA SizesAre ==
  /\ Upload!Numbers = 1..Len(Size) /\ Len(Size) \in Nat \ {0} /\ 1 \in Upload!Numbers
  /\ \A f \in Upload!Numbers : Size[f] \in Nat \ {0} /\ f \in Nat
<1>1. Size \in Seq(Nat \ {0}) /\ Size # <<>>
  BY UploadConstants DEF Upload!UploadAssumption
<1>2. Len(Size) \in Nat /\ DOMAIN Size = 1..Len(Size)
  BY <1>1
<1>3. Len(Size) # 0
  BY <1>1
<1>4. \A f \in 1..Len(Size) : Size[f] \in Nat \ {0}
  BY <1>1
<1> QED BY <1>2, <1>3, <1>4 DEF Upload!Numbers

\* A chunk of the client carries the bytes after its offset.
LEMMA ChunkFollows ==
  ASSUME NEW f \in Upload!Numbers, NEW from \in Nat, from <= Size[f]
  PROVE  /\ Upload!Chunk(f, from, from) \in Chunks /\ Follows(Upload!Chunk(f, from, from))
         /\ Upload!Chunk(f, from, from).file = f /\ Upload!Chunk(f, from, from).stage = "sent"
<1> DEFINE upto == IF from + ChunkSize < Size[f] THEN from + ChunkSize ELSE Size[f]
           bytes == [i \in 1..(upto - from) |-> from + i]
<1>1. upto \in Nat /\ upto - from \in Nat /\ upto <= Size[f] /\ Size[f] \in Nat
  <2>1. ChunkSize \in Nat
    BY UploadConstants DEF Upload!UploadAssumption
  <2>2. Size[f] \in Nat
    BY SizesAre
  <2> QED BY <2>1, <2>2
<1>2. bytes \in Seq(Nat) /\ Len(bytes) = upto - from /\ \A i \in 1..(upto - from) : bytes[i] = from + i
  <2> HIDE DEF upto
  <2>1. \A i \in 1..(upto - from) : from + i \in Nat
    BY <1>1
  <2>2. bytes \in [1..(upto - from) -> Nat]
    BY <2>1
  <2>3. bytes \in Seq(Nat)
    BY <2>2, <1>1
  <2>4. Len(bytes) = upto - from
    BY <1>1, <2>2, <2>3
  <2> QED BY <2>3, <2>4
<1>3. Upload!Chunk(f, from, from) = [kind |-> "chunk", stage |-> "sent", file |-> f, offset |-> from, bytes |-> bytes]
  BY DEF Upload!Chunk
<1>4. from + Len(bytes) <= Size[f]
  <2> HIDE DEF bytes, upto
  <2> QED BY <1>1, <1>2
<1> HIDE DEF bytes, upto
<1>5. Upload!Chunk(f, from, from) \in Chunks
  BY <1>2, <1>3 DEF Chunks, Stages
<1> QED BY <1>1, <1>2, <1>3, <1>4, <1>5 DEF Follows

\* The loop goes to a file that is not whole, and passes only whole ones.
LEMMA NextChunkGoes ==
  ASSUME NEW k \in [Upload!Numbers -> Nat], \A f \in Upload!Numbers : k[f] <= Size[f], file \in Upload!Numbers,
         start \in 0..Size[file], attempt \in 0..MaxRecovery,
         \A f \in Upload!Numbers : f < file => k[f] = Size[f], Upload!NextChunk(k)
  PROVE  /\ file' \in Upload!Numbers /\ start' \in 0..Size[file'] /\ attempt' \in 0..MaxRecovery
         /\ \/ /\ phase' = "chunk" /\ call' \in Chunks /\ call'.file = file' /\ Follows(call')
               /\ call'.stage = "sent" /\ \A f \in Upload!Numbers : f < file' => k[f] = Size[f]
            \/ /\ phase' = "finalize" /\ call' = Upload!Finalize
               /\ \A f \in Upload!Numbers : k[f] = Size[f]
<1> DEFINE left == {f \in Upload!Numbers : f >= file /\ k[f] < Size[f]}
           next == CHOOSE g \in left : \A h \in left : g <= h
<1>1. \A f \in Upload!Numbers : f \in Nat /\ Size[f] \in Nat /\ k[f] \in Nat
  BY SizesAre
<1>2. ASSUME NEW f \in Upload!Numbers, f \notin left PROVE k[f] = Size[f]
  BY <1>1, <1>2
<1>3. CASE left = {}
  <2>1. phase' = "finalize" /\ call' = Upload!Finalize /\ file' = file /\ start' = start /\ attempt' = attempt
    BY <1>3 DEF Upload!NextChunk
  <2> QED BY <2>1, <1>2, <1>3
<1>4. CASE left # {}
  <2>1. phase' = "chunk" /\ file' = next /\ start' = k[next] /\ attempt' = 0 /\ call' = Upload!Chunk(next, k[next], k[next])
    BY <1>4 DEF Upload!NextChunk
  <2>2. left \subseteq Nat
    BY <1>1
  <2>3. next \in left /\ \A h \in left : next <= h
    <3> HIDE DEF left
    <3> QED BY <2>2, <1>4, LeastOf
  <2>4. next \in Upload!Numbers /\ k[next] \in Nat /\ k[next] <= Size[next]
    BY <2>3
  <2>5. call' \in Chunks /\ call'.file = next /\ Follows(call') /\ call'.stage = "sent"
    <3> HIDE DEF next
    <3> QED BY <2>1, <2>4, ChunkFollows
  <2>6. ASSUME NEW f \in Upload!Numbers, f < next PROVE k[f] = Size[f]
    <3> HIDE DEF next
    <3>1. f \notin left
      BY <2>3, <2>6, <1>1, <2>4
    <3> QED BY <3>1, <1>2
  <2>7. k[next] \in 0..Size[next] /\ 0 \in 0..MaxRecovery
    <3> HIDE DEF next
    <3> QED BY <2>4, <1>1, UploadConstants DEF Upload!UploadAssumption
  <2> HIDE DEF next
  <2> QED BY <2>1, <2>4, <2>5, <2>6, <2>7
<1> QED BY <1>3, <1>4

LEMMA ConcatAt ==
  ASSUME NEW s \in Seq(Nat), NEW t \in Seq(Nat), NEW i \in 1..Len(t)
  PROVE  (s \o t)[Len(s) + i] = t[i]
OBVIOUS

\* What the server does with a request it accepts: bytes are appended in their place.
LEMMA EffectKeeps ==
  ASSUME UploadTypes, Bytes, NEW req,
         req \in Creates \cup Syncs \cup Finals \/ (req \in Chunks /\ Follows(req)),
         Upload!Accepts(req), Upload!Effect(req)
  PROVE  /\ open' \subseteq Upload!Numbers /\ stored' \in [Upload!Numbers -> Seq(Nat)] /\ posted' \in Nat
         /\ \A f \in Upload!Numbers : /\ Len(stored[f]) <= Len(stored'[f]) /\ Len(stored'[f]) <= Size[f]
                               /\ \A i \in 1..Len(stored'[f]) : stored'[f][i] = i
         /\ posted' = 0 => posted = 0 /\ open \subseteq open'
         /\ req.kind = "create" => req.file \in open'
<1>1. open \subseteq Upload!Numbers /\ stored \in [Upload!Numbers -> Seq(Nat)] /\ posted \in Nat
  BY DEF UploadTypes
<1>2. \A f \in Upload!Numbers : Len(stored[f]) \in Nat /\ Size[f] \in Nat
  BY <1>1, SizesAre
<1>3. CASE req \in Chunks /\ Follows(req)
  <2>1. req.kind = "chunk" /\ req.file \in Upload!Numbers /\ req.bytes \in Seq(Nat) /\ req.offset \in Nat
    BY <1>3 DEF Chunks
  <2>2. open' = open /\ posted' = posted + 0
    BY <2>1 DEF Upload!Effect
  <2>3. stored' = [stored EXCEPT ![req.file] = @ \o req.bytes] /\ Len(stored[req.file]) = req.offset
    BY <2>1 DEF Upload!Effect, Upload!Accepts
  <2>4. req.offset + Len(req.bytes) <= Size[req.file] /\ \A i \in 1..Len(req.bytes) : req.bytes[i] = req.offset + i
    BY <1>3 DEF Follows
  <2> DEFINE s == stored[req.file]
             both == s \o req.bytes
  <2>5. s \in Seq(Nat) /\ Len(s) = req.offset /\ \A i \in 1..Len(s) : s[i] = i
    BY <1>1, <2>1, <2>3 DEF Bytes
  <2>6. /\ both \in Seq(Nat) /\ Len(both) = Len(s) + Len(req.bytes)
        /\ \A i \in 1..Len(both) : both[i] = i
    <3> HIDE DEF s
    <3>1. Len(s) \in Nat /\ Len(req.bytes) \in Nat
      BY <2>5, <2>1
    <3>2. both \in Seq(Nat) /\ Len(both) = Len(s) + Len(req.bytes)
      BY <2>1, <2>5
    <3>3. ASSUME NEW i \in 1..Len(both) PROVE both[i] = i
      <4>1. CASE i <= Len(s)
        BY <4>1, <3>1, <2>1, <2>5
      <4>2. CASE i > Len(s)
        <5>1. both[i] = req.bytes[i - Len(s)]
          <6>1. i - Len(s) \in 1..Len(req.bytes) /\ Len(s) + (i - Len(s)) = i
            BY <4>2, <3>1, <3>2
          <6> QED BY <6>1, <2>1, <2>5, ConcatAt
        <5>2. i - Len(s) \in 1..Len(req.bytes)
          BY <4>2, <3>1, <3>2
        <5> QED BY <5>1, <5>2, <2>4, <2>5, <3>1
      <4> QED BY <4>1, <4>2, <3>1, <3>2
    <3> QED BY <3>2, <3>3
  <2>7. stored'[req.file] = both /\ \A f \in Upload!Numbers : f # req.file => stored'[f] = stored[f]
    BY <2>1, <2>3, <1>1
  <2>8. stored' \in [Upload!Numbers -> Seq(Nat)]
    <3> HIDE DEF both, s
    <3>1. both \in Seq(Nat)
      BY <2>6
    <3>2. stored' = [stored EXCEPT ![req.file] = both]
      BY <2>3 DEF both, s
    <3> QED BY <3>1, <3>2, <1>1
  <2>9. ASSUME NEW f \in Upload!Numbers
        PROVE  /\ Len(stored[f]) <= Len(stored'[f]) /\ Len(stored'[f]) <= Size[f]
               /\ \A i \in 1..Len(stored'[f]) : stored'[f][i] = i
    <3>1. CASE f = req.file
      <4>1. Len(s) \in Nat /\ Len(req.bytes) \in Nat /\ Size[f] \in Nat
        BY <2>5, <2>1, <1>2
      <4>2. Len(both) <= Size[f] /\ Len(s) <= Len(both)
        <5> HIDE DEF s, both
        <5> QED BY <2>4, <2>5, <2>6, <4>1, <3>1, <2>1
      <4> QED BY <3>1, <2>6, <2>7, <4>2
    <3>2. CASE f # req.file
      BY <3>2, <2>7, <1>2 DEF Bytes
    <3> QED BY <3>1, <3>2
  <2>10. req.kind # "create"
    BY <2>1
  <2> QED BY <1>1, <2>2, <2>8, <2>9, <2>10
<1>4. CASE req \in Creates \cup Syncs \cup Finals
  <2>1. req.kind \in {"create", "sync", "finalize"} /\ (req.kind = "create" => req.file \in Upload!Numbers)
    BY <1>4 DEF Creates, Syncs, Finals
  <2>2. stored' = stored
    BY <2>1 DEF Upload!Effect
  <2>3. \A f \in Upload!Numbers : /\ Len(stored[f]) <= Len(stored'[f]) /\ Len(stored'[f]) <= Size[f]
                           /\ \A i \in 1..Len(stored'[f]) : stored'[f][i] = i
    BY <2>2, <1>2 DEF Bytes
  <2>4. CASE req.kind = "create"
    <3>1. open' = open \cup {req.file} /\ posted' = posted + 0
      BY <2>4 DEF Upload!Effect
    <3> QED BY <3>1, <2>1, <2>2, <2>3, <2>4, <1>1
  <2>5. CASE req.kind = "sync"
    <3>1. open' = open /\ posted' = posted + 0
      BY <2>5 DEF Upload!Effect
    <3> QED BY <3>1, <2>2, <2>3, <2>5, <1>1
  <2>6. CASE req.kind = "finalize"
    <3>1. open' = {} /\ posted' = posted + 1
      BY <2>6 DEF Upload!Effect
    <3> QED BY <3>1, <2>2, <2>3, <2>6, <1>1
  <2> QED BY <2>1, <2>4, <2>5, <2>6
<1> QED BY <1>3, <1>4
-----------------------------------------------------------------------------
(* The steps *)

\* How the loop goes on, with what it knows now.
LEMMA GoOnKeeps ==
  ASSUME UploadInv, phase \in {"chunk", "sync"}, Upload!NextChunk(known'), known' \in [Upload!Numbers -> Nat],
         \A f \in Upload!Numbers : known'[f] <= Len(stored[f]),
         \A f \in Upload!Numbers : f < file => known'[f] = Size[f],
         retryable' \in BOOLEAN, UNCHANGED <<sessions, aborted, stray, removing, Upload!server>>
  PROVE  UploadInv'
<1>1. UploadTypes /\ Strays /\ Bytes /\ Kept
  BY DEF UploadInv
<1>2. open' = open /\ stored' = stored /\ posted' = posted /\ stray' = stray
      /\ sessions' = sessions /\ removing' = removing /\ aborted' = aborted
  BY DEF Upload!server
<1>3. \A f \in Upload!Numbers : Len(stored[f]) \in Nat /\ Size[f] \in Nat /\ known'[f] \in Nat
  BY <1>1, SizesAre DEF UploadTypes
<1>4. \A f \in Upload!Numbers : known'[f] <= Size[f]
  BY <1>1, <1>3 DEF Bytes
<1>5. /\ file' \in Upload!Numbers /\ start' \in 0..Size[file'] /\ attempt' \in 0..MaxRecovery
      /\ \/ /\ phase' = "chunk" /\ call' \in Chunks /\ call'.file = file' /\ Follows(call')
            /\ call'.stage = "sent" /\ \A f \in Upload!Numbers : f < file' => known'[f] = Size[f]
         \/ /\ phase' = "finalize" /\ call' = Upload!Finalize /\ \A f \in Upload!Numbers : known'[f] = Size[f]
  <2>1. file \in Upload!Numbers /\ start \in 0..Size[file] /\ attempt \in 0..MaxRecovery
    BY <1>1 DEF UploadTypes
  <2> QED BY <2>1, <1>4, NextChunkGoes
<1>6. removing = {} /\ (posted = 0 => open = Upload!Numbers)
  BY <1>1 DEF Kept
<1>7. UploadTypes'
  BY <1>1, <1>2, <1>5 DEF UploadTypes, Phases
<1>8. Strays' /\ Bytes'
  BY <1>1, <1>2 DEF Strays, Bytes, Creates, Chunks, Syncs, Finals, Follows
<1>9. Expected'
  <2>1. CASE phase' = "chunk" /\ call' \in Chunks /\ call'.file = file' /\ Follows(call')
    <3>1. phase' \notin {"create", "sync", "finalize", "cleanup", "done", "failed"}
      BY <2>1
    <3>2. (call \in Chunks /\ call.file = file /\ Follows(call))'
      BY <2>1 DEF Follows, Chunks
    <3> QED BY <3>1, <3>2 DEF Expected
  <2>2. CASE phase' = "finalize" /\ call' = Upload!Finalize
    BY <2>2 DEF Expected, Finals, Upload!Finalize, Stages
  <2> QED BY <1>5, <2>1, <2>2
<1>10. Kept' /\ Passed'
  BY <1>2, <1>5, <1>6 DEF Kept, Passed
<1> QED BY <1>7, <1>8, <1>9, <1>10 DEF UploadInv

\* The end of a call that failed.
LEMMA ThrowKeeps ==
  ASSUME UploadInv, Upload!Throw, known' \in [Upload!Numbers -> Nat],
         \A f \in Upload!Numbers : known'[f] <= Len(stored[f]),
         retryable' \in BOOLEAN, UNCHANGED <<sessions, aborted, stray, Upload!server>>
  PROVE  UploadInv'
<1>1. UploadTypes /\ Strays /\ Bytes
  BY DEF UploadInv
<1>2. open' = open /\ stored' = stored /\ posted' = posted /\ stray' = stray
      /\ sessions' = sessions /\ aborted' = aborted
  BY DEF Upload!server
<1>3. /\ removing' = sessions /\ call' = Upload!NoCall /\ file' = file /\ start' = start
      /\ attempt' = attempt /\ phase' = IF sessions = {} THEN "failed" ELSE "cleanup"
  BY DEF Upload!Throw
<1>4. UploadTypes'
  BY <1>1, <1>2, <1>3 DEF UploadTypes, Phases
<1>5. Strays' /\ Bytes'
  BY <1>1, <1>2 DEF Strays, Bytes, Creates, Chunks, Syncs, Finals, Follows
<1>6. Expected' /\ Kept' /\ Passed'
  BY <1>3 DEF Expected, Kept, Passed
<1> QED BY <1>4, <1>5, <1>6 DEF UploadInv

LEMMA CreatedKeeps ==
  ASSUME UploadInv, Upload!Created PROVE UploadInv'
<1>1. UploadTypes /\ Strays /\ Bytes /\ Expected /\ Kept /\ Passed
  BY DEF UploadInv
<1>2. /\ phase = "create" /\ call.stage = "accepted" /\ sessions' = sessions \cup {file}
      /\ known' = known /\ retryable' = retryable /\ aborted' = aborted /\ stray' = stray
      /\ removing' = removing /\ open' = open /\ stored' = stored /\ posted' = posted
  BY DEF Upload!Created, Upload!server
<1>3. file \in Upload!Numbers /\ file \in Nat /\ removing = {}
  BY <1>1, <1>2, SizesAre DEF UploadTypes, Kept
<1>4. Strays' /\ Bytes'
  BY <1>1, <1>2 DEF Strays, Bytes, Creates, Chunks, Syncs, Finals, Follows
<1>5. CASE file < Len(Size)
  <2>1. file' = file + 1 /\ call' = Upload!Create(file + 1) /\ phase' = phase /\ start' = start /\ attempt' = attempt
    BY <1>5 DEF Upload!Created
  <2>2. file + 1 \in Upload!Numbers
    BY <1>3, <1>5, SizesAre
  <2>3. 0 \in 0..Size[file + 1] /\ start = 0
    BY <1>1, <1>2, <2>2, SizesAre DEF Passed
  <2>4. UploadTypes'
    BY <1>1, <1>2, <1>3, <2>1, <2>2, <2>3 DEF UploadTypes
  <2>5. Expected' /\ Passed'
    BY <1>2, <2>1, <2>2, <2>3 DEF Expected, Passed, Upload!Create, Creates, Stages
  <2>6. \A f \in Upload!Numbers : f < file + 1 => f < file \/ f = file
    BY <1>3, SizesAre
  <2>7. Kept'
    BY <1>1, <1>2, <1>3, <2>1, <2>6 DEF Kept, Upload!Create
  <2> QED BY <1>4, <2>4, <2>5, <2>7 DEF UploadInv
<1>6. CASE ~(file < Len(Size))
  <2>1. phase' = "chunk" /\ file' = 1 /\ start' = 0 /\ attempt' = 0 /\ call' = Upload!Chunk(1, 0, 0)
    BY <1>6 DEF Upload!Created
  <2>2. 1 \in Upload!Numbers /\ 0 \in 0..Size[1] /\ 0 <= Size[1] /\ 0 \in 0..MaxRecovery
    BY SizesAre, UploadConstants DEF Upload!UploadAssumption
  <2>3. UploadTypes'
    BY <1>1, <1>2, <1>3, <2>1, <2>2 DEF UploadTypes, Phases
  <2>4. call' \in Chunks /\ Follows(call') /\ call'.file = 1
    BY <2>1, <2>2, ChunkFollows
  <2>5. Expected'
    BY <2>1, <2>4 DEF Expected, Follows
  <2>6. \A f \in Upload!Numbers : f < file \/ f = file
    BY <1>3, <1>6, SizesAre
  <2>7. posted = 0 => open = Upload!Numbers
    BY <1>1, <1>2, <2>6 DEF Kept, UploadTypes
  <2>8. Kept' /\ Passed'
    <3>1. \A f \in Upload!Numbers : ~(f < 1)
      BY SizesAre
    <3> QED BY <3>1, <1>2, <1>3, <2>1, <2>7 DEF Kept, Passed
  <2> QED BY <1>4, <2>3, <2>5, <2>8 DEF UploadInv
<1> QED BY <1>5, <1>6

LEMMA ChunkStoredKeeps ==
  ASSUME UploadInv, Upload!ChunkStored PROVE UploadInv'
<1>1. UploadTypes /\ Bytes /\ Expected /\ Passed
  BY DEF UploadInv
<1>2. /\ phase = "chunk" /\ call.stage = "accepted" /\ known' = [known EXCEPT ![file] = call.received]
      /\ Upload!NextChunk(known') /\ retryable' = retryable
      /\ UNCHANGED <<sessions, aborted, stray, removing, Upload!server>>
  BY DEF Upload!ChunkStored
<1>3. call \in Answers /\ call.received <= Len(stored[file]) /\ call.received \in Nat
  BY <1>1, <1>2 DEF Expected, Chunks, Stages, Answers
<1>4. known \in [Upload!Numbers -> Nat] /\ file \in Upload!Numbers /\ retryable \in BOOLEAN
  BY <1>1 DEF UploadTypes
<1>5. known' \in [Upload!Numbers -> Nat]
  BY <1>2, <1>3, <1>4
<1>6. \A f \in Upload!Numbers : known'[f] <= Len(stored[f])
  BY <1>1, <1>2, <1>3, <1>4 DEF Bytes
<1>7. \A f \in Upload!Numbers : f < file => known'[f] = Size[f]
  <2>1. \A f \in Upload!Numbers : f < file => f # file
    BY SizesAre, <1>4
  <2> QED BY <2>1, <1>1, <1>2, <1>4 DEF Passed
<1> QED BY <1>2, <1>4, <1>5, <1>6, <1>7, GoOnKeeps

LEMMA ChunkFailsKeeps ==
  ASSUME UploadInv, Upload!ChunkFails PROVE UploadInv'
<1>1. UploadTypes /\ Strays /\ Bytes /\ Expected /\ Kept /\ Passed
  BY DEF UploadInv
<1>2. /\ phase = "chunk" /\ UNCHANGED <<sessions, known, aborted, stray, Upload!server>>
  BY DEF Upload!ChunkFails
<1>3. known' = known /\ known \in [Upload!Numbers -> Nat] /\ \A f \in Upload!Numbers : known[f] <= Len(stored[f])
  BY <1>1, <1>2 DEF UploadTypes, Bytes
<1>4. CASE aborted
  <2>1. Upload!Throw /\ retryable' = retryable
    BY <1>4 DEF Upload!ChunkFails
  <2>2. retryable' \in BOOLEAN
    BY <1>1, <2>1 DEF UploadTypes
  <2> QED BY <1>2, <1>3, <2>1, <2>2, ThrowKeeps
<1>5. CASE ~aborted
  <2>1. /\ phase' = "sync" /\ call' = Upload!Sync(file) /\ retryable' \in BOOLEAN
        /\ file' = file /\ start' = start /\ attempt' = attempt /\ removing' = removing
    BY <1>5 DEF Upload!ChunkFails
  <2>2. /\ sessions' = sessions /\ aborted' = aborted /\ stray' = stray
        /\ open' = open /\ stored' = stored /\ posted' = posted
    BY <1>2 DEF Upload!server
  <2>3. UploadTypes'
    BY <1>1, <1>3, <2>1, <2>2 DEF UploadTypes, Phases
  <2>4. Strays' /\ Bytes'
    BY <1>1, <1>3, <2>2 DEF Strays, Bytes, Creates, Chunks, Syncs, Finals, Follows
  <2>5. file \in Upload!Numbers
    BY <1>1 DEF UploadTypes
  <2>6. Expected'
    BY <2>1, <2>5 DEF Expected, Upload!Sync, Syncs, Stages
  <2>7. Kept' /\ Passed'
    BY <1>1, <1>2, <1>3, <2>1, <2>2 DEF Kept, Passed
  <2> QED BY <2>3, <2>4, <2>6, <2>7 DEF UploadInv
<1> QED BY <1>4, <1>5

LEMMA SyncedKeeps ==
  ASSUME UploadInv, Upload!Synced PROVE UploadInv'
<1>1. UploadTypes /\ Strays /\ Bytes /\ Expected /\ Kept /\ Passed
  BY DEF UploadInv
<1>2. /\ phase = "sync" /\ retryable' = retryable /\ UNCHANGED <<sessions, aborted, stray, Upload!server>>
      /\ known' = IF call.stage = "accepted" THEN [known EXCEPT ![file] = call.received] ELSE known
  BY DEF Upload!Synced
<1>3. known \in [Upload!Numbers -> Nat] /\ file \in Upload!Numbers /\ start \in 0..Size[file] /\ attempt \in 0..MaxRecovery
      /\ retryable \in BOOLEAN
  BY <1>1 DEF UploadTypes
<1>4. call.stage = "accepted" => call.received \in Nat /\ call.received <= Len(stored[file])
  BY <1>1, <1>2 DEF Expected, Syncs, Stages, Answers
<1>5. known' \in [Upload!Numbers -> Nat]
  BY <1>2, <1>3, <1>4
<1>6. \A f \in Upload!Numbers : known'[f] <= Len(stored[f])
  BY <1>1, <1>2, <1>3, <1>4 DEF Bytes
<1>7. \A f \in Upload!Numbers : f < file => known'[f] = Size[f]
  <2>1. \A f \in Upload!Numbers : f < file => f # file
    BY SizesAre, <1>3
  <2> QED BY <2>1, <1>1, <1>2, <1>3 DEF Passed
<1>8. CASE call.stage = "accepted" /\ known'[file] > start
  <2>1. Upload!NextChunk(known') /\ removing' = removing
    BY <1>8 DEF Upload!Synced
  <2> QED BY <1>2, <1>3, <1>5, <1>6, <1>7, <2>1, GoOnKeeps
<1>9. CASE ~(call.stage = "accepted" /\ known'[file] > start)
  <2>1. Upload!RetryOrThrow
    BY <1>9 DEF Upload!Synced
  <2>2. CASE attempt < MaxRecovery /\ retryable
    <3>1. /\ phase' = "chunk" /\ attempt' = attempt + 1 /\ call' = Upload!Chunk(file, start, start)
          /\ file' = file /\ start' = start /\ removing' = removing
      BY <2>1, <2>2 DEF Upload!RetryOrThrow
    <3>2. /\ sessions' = sessions /\ aborted' = aborted /\ stray' = stray
          /\ open' = open /\ stored' = stored /\ posted' = posted
      BY <1>2 DEF Upload!server
    <3>3. attempt + 1 \in 0..MaxRecovery /\ start \in Nat /\ start <= Size[file]
      BY <1>3, <2>2, SizesAre, UploadConstants DEF Upload!UploadAssumption
    <3>4. UploadTypes'
      BY <1>1, <1>2, <1>5, <3>1, <3>2, <3>3 DEF UploadTypes, Phases
    <3>5. Strays' /\ Bytes'
      BY <1>1, <1>6, <3>2 DEF Strays, Bytes, Creates, Chunks, Syncs, Finals, Follows
    <3>6. call' \in Chunks /\ Follows(call') /\ call'.file = file
      BY <1>3, <3>1, <3>3, ChunkFollows
    <3>7. Expected'
      BY <3>1, <3>6 DEF Expected, Follows
    <3>8. Kept' /\ Passed'
      BY <1>1, <1>2, <1>7, <3>1, <3>2 DEF Kept, Passed
    <3> QED BY <3>4, <3>5, <3>7, <3>8 DEF UploadInv
  <2>3. CASE ~(attempt < MaxRecovery /\ retryable)
    <3>1. Upload!Throw
      BY <2>1, <2>3 DEF Upload!RetryOrThrow
    <3> QED BY <3>1, <1>2, <1>3, <1>5, <1>6, ThrowKeeps
  <2> QED BY <2>2, <2>3
<1> QED BY <1>8, <1>9

LEMMA FinalizedKeeps ==
  ASSUME UploadInv, Upload!Finalized PROVE UploadInv'
<1>1. UploadTypes /\ Strays /\ Bytes /\ Kept
  BY DEF UploadInv
<1>2. /\ phase = "finalize" /\ phase' \in {"done", "failed"} /\ call' = Upload!NoCall
      /\ file' = file /\ start' = start /\ attempt' = attempt /\ retryable' = retryable
      /\ sessions' = sessions /\ known' = known /\ aborted' = aborted /\ stray' = stray
      /\ removing' = removing /\ open' = open /\ stored' = stored /\ posted' = posted
  BY DEF Upload!Finalized, Upload!server
<1>3. UploadTypes'
  BY <1>1, <1>2 DEF UploadTypes, Phases
<1>4. Strays' /\ Bytes'
  BY <1>1, <1>2 DEF Strays, Bytes, Creates, Chunks, Syncs, Finals, Follows
<1>5. Expected' /\ Kept' /\ Passed'
  BY <1>1, <1>2 DEF Expected, Kept, Passed
<1> QED BY <1>3, <1>4, <1>5 DEF UploadInv

LEMMA CreateOrFinalizeFailsKeeps ==
  ASSUME UploadInv, Upload!CreateOrFinalizeFails PROVE UploadInv'
<1>1. UploadTypes /\ Bytes
  BY DEF UploadInv
<1>2. Upload!Throw /\ retryable' = retryable /\ known' = known /\ UNCHANGED <<sessions, aborted, stray, Upload!server>>
  BY DEF Upload!CreateOrFinalizeFails
<1>3. known' \in [Upload!Numbers -> Nat] /\ retryable' \in BOOLEAN /\ \A f \in Upload!Numbers : known'[f] <= Len(stored[f])
  BY <1>1, <1>2 DEF UploadTypes, Bytes
<1> QED BY <1>2, <1>3, ThrowKeeps

LEMMA RemovedKeeps ==
  ASSUME UploadInv, NEW f \in Upload!Numbers, Upload!Removed(f) PROVE UploadInv'
<1>1. UploadTypes /\ Strays /\ Bytes /\ Expected /\ Kept
  BY DEF UploadInv
<1>2. /\ f \in removing /\ removing' = removing \ {f}
      /\ phase' = (IF removing' = {} THEN "failed" ELSE phase) /\ open' \in {open, open \ {f}}
      /\ file' = file /\ start' = start /\ attempt' = attempt /\ retryable' = retryable
      /\ sessions' = sessions /\ known' = known /\ aborted' = aborted /\ call' = call
      /\ stray' = stray /\ stored' = stored /\ posted' = posted
  BY DEF Upload!Removed
<1>3. phase = "cleanup"
  BY <1>1, <1>2 DEF Kept
<1>4. UploadTypes'
  BY <1>1, <1>2 DEF UploadTypes, Phases
<1>5. Strays' /\ Bytes'
  BY <1>1, <1>2 DEF Strays, Bytes, Creates, Chunks, Syncs, Finals, Follows
<1>6. Expected' /\ Kept' /\ Passed'
  BY <1>1, <1>2, <1>3 DEF Expected, Kept, Passed
<1> QED BY <1>4, <1>5, <1>6 DEF UploadInv
\* A request that is broken or refused stays what it was, and has no answer.
LEMMA BrokenIs ==
  ASSUME Expected, phase \in {"create", "chunk", "sync", "finalize"},
         NEW stage \in {"broken", "refused"}, stage = "refused" => call.stage = "sent",
         call' = [call EXCEPT !.stage = stage] \/ (call' = call /\ call.stage # "accepted"),
         phase' = phase, file' = file, stored' = stored
  PROVE  Expected' /\ call'.stage # "accepted"
<1>1. CASE phase = "create"
  <2>1. call \in Creates /\ call.file = file
    BY <1>1 DEF Expected
  <2>2. call' \in Creates /\ call'.file = file /\ call'.stage # "accepted"
    BY <2>1 DEF Creates, Stages
  <2> QED BY <1>1, <2>2 DEF Expected
<1>2. CASE phase = "chunk" /\ call \in Chunks /\ call.file = file /\ Follows(call)
  <2>1. call' \in Chunks /\ call'.file = file /\ Follows(call') /\ call'.stage # "accepted"
    BY <1>2 DEF Chunks, Stages, Follows
  <2> QED BY <1>2, <2>1 DEF Expected, Follows
<1>3. CASE phase = "sync" /\ call \in Syncs /\ call.file = file
  <2>1. call' \in Syncs /\ call'.file = file /\ call'.stage # "accepted"
    BY <1>3 DEF Syncs, Stages
  <2> QED BY <1>3, <2>1 DEF Expected
<1>4. CASE /\ phase \in {"chunk", "sync"} /\ call \in Answers
           /\ call.kind = phase /\ call.received <= Len(stored[file])
  <2>1. /\ call' \in Answers /\ call'.kind = phase /\ call'.received <= Len(stored[file])
        /\ call'.stage # "accepted"
    BY <1>4 DEF Answers
  <2> QED BY <1>4, <2>1 DEF Expected
<1>5. CASE phase = "finalize"
  <2>1. call \in Finals
    BY <1>5 DEF Expected
  <2>2. call' \in Finals /\ call'.stage # "accepted"
    BY <2>1 DEF Finals, Stages
  <2> QED BY <1>5, <2>2 DEF Expected
<1> QED BY <1>1, <1>2, <1>3, <1>4, <1>5 DEF Expected

\* The server may get more, whatever the client does not know of it.
LEMMA GrowthKeeps ==
  ASSUME UploadTypes, Bytes, UNCHANGED Upload!client, removing' = removing,
         open' \subseteq Upload!Numbers, stored' \in [Upload!Numbers -> Seq(Nat)], posted' \in Nat,
         \A f \in Upload!Numbers : /\ Len(stored[f]) <= Len(stored'[f]) /\ Len(stored'[f]) <= Size[f]
                            /\ \A i \in 1..Len(stored'[f]) : stored'[f][i] = i
  PROVE  UploadTypes' /\ Bytes'
<1>1. UploadTypes'
  BY DEF UploadTypes, Upload!client
<1>2. ASSUME NEW f \in Upload!Numbers PROVE known'[f] <= Len(stored'[f])
  <2>1. known[f] \in Nat /\ Len(stored[f]) \in Nat /\ Len(stored'[f]) \in Nat
    BY DEF UploadTypes
  <2>2. known[f] <= Len(stored[f]) /\ known' = known
    BY DEF Bytes, Upload!client
  <2> QED BY <2>1, <2>2
<1> QED BY <1>1, <1>2 DEF Bytes

LEMMA AbortKeeps ==
  ASSUME UploadInv, NEW when, Upload!Abort(when) PROVE UploadInv'
<1>1. UploadTypes /\ Strays /\ Bytes /\ Expected /\ Kept /\ Passed
  BY DEF UploadInv
<1>2. /\ phase \in {"create", "chunk", "sync", "finalize"} /\ aborted' = TRUE
      /\ call' = (IF call.stage = "sent" \/ call.stage = "accepted"
                  THEN [call EXCEPT !.stage = "broken"] ELSE call)
      /\ stray' = (IF call.stage = "sent" THEN stray \cup {call} ELSE stray)
      /\ phase' = phase /\ file' = file /\ start' = start /\ attempt' = attempt
      /\ retryable' = retryable /\ sessions' = sessions /\ known' = known
      /\ removing' = removing /\ open' = open /\ stored' = stored /\ posted' = posted
  BY <1>1 DEF Upload!Abort, Upload!server, UploadTypes, Phases
<1>3. UploadTypes' /\ Bytes'
  BY <1>1, <1>2 DEF UploadTypes, Bytes
<1>4. call.stage = "sent" => call \in Creates \cup Syncs \cup Finals \/ (call \in Chunks /\ Follows(call))
  BY <1>1, <1>2 DEF Expected, Answers
<1>5. Strays'
  BY <1>1, <1>2, <1>4 DEF Strays, Creates, Chunks, Syncs, Finals, Follows
<1>6. Expected' /\ call'.stage # "accepted"
  <2>1. "broken" \in {"broken", "refused"}
    OBVIOUS
  <2> QED BY <1>1, <1>2, <2>1, BrokenIs
<1>7. Kept' /\ Passed'
  BY <1>1, <1>2, <1>6 DEF Kept, Passed
<1> QED BY <1>3, <1>5, <1>6, <1>7 DEF UploadInv

LEMMA CallBreaksKeeps ==
  ASSUME UploadInv, Upload!CallBreaks PROVE UploadInv'
<1>1. UploadTypes /\ Strays /\ Bytes /\ Expected /\ Kept /\ Passed
  BY DEF UploadInv
<1>2. /\ call.stage \in {"sent", "accepted"} /\ call' = [call EXCEPT !.stage = "broken"]
      /\ stray' = (IF call.stage = "sent" /\ call.kind # "sync" THEN stray \cup {call} ELSE stray)
      /\ phase' = phase /\ file' = file /\ start' = start /\ attempt' = attempt
      /\ retryable' = retryable /\ sessions' = sessions /\ known' = known /\ aborted' = aborted
      /\ removing' = removing /\ open' = open /\ stored' = stored /\ posted' = posted
  BY DEF Upload!CallBreaks, Upload!client, Upload!server
<1>3. UploadTypes' /\ Bytes'
  BY <1>1, <1>2 DEF UploadTypes, Bytes
<1>4. call # Upload!NoCall /\ phase \in {"create", "chunk", "sync", "finalize"}
  BY <1>1, <1>2 DEF Upload!NoCall, Expected, UploadTypes, Phases
<1>5. call.stage = "sent" => call \in Creates \cup Syncs \cup Finals \/ (call \in Chunks /\ Follows(call))
  BY <1>1, <1>4 DEF Expected, Answers
<1>6. Strays'
  BY <1>1, <1>2, <1>5 DEF Strays, Creates, Chunks, Syncs, Finals, Follows
<1>7. Expected' /\ call'.stage # "accepted"
  BY <1>1, <1>2, <1>4, BrokenIs
<1>8. Kept' /\ Passed'
  BY <1>1, <1>2, <1>7 DEF Kept, Passed
<1> QED BY <1>3, <1>6, <1>7, <1>8 DEF UploadInv

LEMMA ServerRefusesKeeps ==
  ASSUME UploadInv, Upload!ServerRefuses PROVE UploadInv'
<1>1. UploadTypes /\ Strays /\ Bytes /\ Expected /\ Kept /\ Passed
  BY DEF UploadInv
<1>2. /\ call.stage = "sent" /\ call' = [call EXCEPT !.stage = "refused"] /\ stray' = stray
      /\ phase' = phase /\ file' = file /\ start' = start /\ attempt' = attempt
      /\ retryable' = retryable /\ sessions' = sessions /\ known' = known /\ aborted' = aborted
      /\ removing' = removing /\ open' = open /\ stored' = stored /\ posted' = posted
  BY DEF Upload!ServerRefuses, Upload!client, Upload!server
<1>3. UploadTypes' /\ Bytes' /\ Strays'
  BY <1>1, <1>2 DEF UploadTypes, Bytes, Strays, Creates, Chunks, Syncs, Finals, Follows
<1>4. call # Upload!NoCall /\ phase \in {"create", "chunk", "sync", "finalize"}
  BY <1>1, <1>2 DEF Upload!NoCall, Expected, UploadTypes, Phases
<1>5. Expected' /\ call'.stage # "accepted"
  BY <1>1, <1>2, <1>4, BrokenIs
<1>6. Kept' /\ Passed'
  BY <1>1, <1>2, <1>5 DEF Kept, Passed
<1> QED BY <1>3, <1>5, <1>6 DEF UploadInv

LEMMA StrayArrivesKeeps ==
  ASSUME UploadInv, NEW req \in stray, Upload!StrayArrives(req) PROVE UploadInv'
<1>1. UploadTypes /\ Strays /\ Bytes /\ Expected /\ Kept /\ Passed
  BY DEF UploadInv
<1>2. /\ stray' = stray \ {req} /\ call' = call /\ removing' = removing
      /\ phase' = phase /\ file' = file /\ start' = start /\ attempt' = attempt
      /\ retryable' = retryable /\ sessions' = sessions /\ known' = known /\ aborted' = aborted
  BY DEF Upload!StrayArrives, Upload!client
<1>3. Strays'
  BY <1>1, <1>2 DEF Strays, Creates, Chunks, Syncs, Finals, Follows
<1>4. /\ open' \subseteq Upload!Numbers /\ stored' \in [Upload!Numbers -> Seq(Nat)] /\ posted' \in Nat
      /\ \A f \in Upload!Numbers : /\ Len(stored[f]) <= Len(stored'[f]) /\ Len(stored'[f]) <= Size[f]
                            /\ \A i \in 1..Len(stored'[f]) : stored'[f][i] = i
      /\ posted' = 0 => posted = 0 /\ open \subseteq open'
  <2>1. CASE Upload!Accepts(req)
    <3>1. Upload!Effect(req)
      BY <2>1 DEF Upload!StrayArrives
    <3>2. req \in Creates \cup Syncs \cup Finals \/ (req \in Chunks /\ Follows(req))
      BY <1>1 DEF Strays
    <3> QED BY <1>1, <2>1, <3>1, <3>2, EffectKeeps
  <2>2. CASE ~Upload!Accepts(req)
    <3>1. open' = open /\ stored' = stored /\ posted' = posted
      BY <2>2 DEF Upload!StrayArrives, Upload!server
    <3>2. \A f \in Upload!Numbers : Len(stored[f]) \in Nat
      BY <1>1 DEF UploadTypes
    <3> QED BY <1>1, <3>1, <3>2 DEF UploadTypes, Bytes
  <2> QED BY <2>1, <2>2
<1>5. UploadTypes' /\ Bytes'
  BY <1>1, <1>2, <1>4, GrowthKeeps DEF Upload!client
<1>6. Expected'
  <2>1. file \in Upload!Numbers /\ Len(stored[file]) \in Nat /\ Len(stored'[file]) \in Nat
    BY <1>1, <1>4 DEF UploadTypes
  <2>2. \A n \in Nat : n <= Len(stored[file]) => n <= Len(stored'[file])
    BY <1>4, <2>1
  <2>3. call \in Answers => call.received \in Nat
    BY DEF Answers
  <2> QED BY <1>1, <1>2, <2>2, <2>3 DEF Expected, Follows
<1>7. Kept' /\ Passed'
  BY <1>1, <1>2, <1>4 DEF Kept, Passed
<1> QED BY <1>3, <1>5, <1>6, <1>7 DEF UploadInv

LEMMA StrayIsLostKeeps ==
  ASSUME UploadInv, NEW req \in stray, Upload!StrayIsLost(req) PROVE UploadInv'
BY DEF UploadInv, Upload!StrayIsLost, Upload!client, Upload!server, UploadTypes, Strays, Bytes, Expected, Kept, Passed,
       Creates, Chunks, Syncs, Finals, Answers, Follows

LEMMA ServerAnswersKeeps ==
  ASSUME UploadInv, Upload!ServerAnswers PROVE UploadInv'
<1>1. UploadTypes /\ Strays /\ Bytes /\ Expected /\ Kept /\ Passed
  BY DEF UploadInv
<1>2. /\ call.stage = "sent" /\ stray' = stray /\ removing' = removing
      /\ phase' = phase /\ file' = file /\ start' = start /\ attempt' = attempt
      /\ retryable' = retryable /\ sessions' = sessions /\ known' = known /\ aborted' = aborted
  BY DEF Upload!ServerAnswers, Upload!client
<1>3. call # Upload!NoCall /\ phase \in {"create", "chunk", "sync", "finalize"} /\ file \in Upload!Numbers
  BY <1>1, <1>2 DEF Upload!NoCall, Expected, UploadTypes, Phases
<1>4. CASE aborted \/ ~Upload!Accepts(call)
  <2>1. /\ \E stage \in {"broken", "refused"} : call' = [call EXCEPT !.stage = stage]
        /\ open' = open /\ stored' = stored /\ posted' = posted
    BY <1>4 DEF Upload!ServerAnswers, Upload!server
  <2>2. UploadTypes' /\ Bytes' /\ Strays'
    BY <1>1, <1>2, <2>1 DEF UploadTypes, Bytes, Strays, Creates, Chunks, Syncs, Finals, Follows
  <2>3. Expected' /\ call'.stage # "accepted"
    BY <1>1, <1>2, <1>3, <2>1, BrokenIs
  <2>4. Kept' /\ Passed'
    BY <1>1, <1>2, <2>1, <2>3 DEF Kept, Passed
  <2> QED BY <2>2, <2>3, <2>4 DEF UploadInv
<1>5. CASE ~aborted /\ Upload!Accepts(call)
  <2>1. /\ Upload!Effect(call)
        /\ call' = IF call.kind \in {"chunk", "sync"}
                   THEN [kind |-> call.kind, stage |-> "accepted", received |-> Len(stored'[call.file])]
                   ELSE [call EXCEPT !.stage = "accepted"]
    BY <1>5 DEF Upload!ServerAnswers
  <2>2. call \in Creates \cup Syncs \cup Finals \/ (call \in Chunks /\ Follows(call))
    BY <1>1, <1>2, <1>3 DEF Expected, Answers
  <2>3. /\ open' \subseteq Upload!Numbers /\ stored' \in [Upload!Numbers -> Seq(Nat)] /\ posted' \in Nat
        /\ \A f \in Upload!Numbers : /\ Len(stored[f]) <= Len(stored'[f]) /\ Len(stored'[f]) <= Size[f]
                              /\ \A i \in 1..Len(stored'[f]) : stored'[f][i] = i
        /\ posted' = 0 => posted = 0 /\ open \subseteq open'
        /\ call.kind = "create" => call.file \in open'
    BY <1>1, <1>5, <2>1, <2>2, EffectKeeps
  <2>4. UploadTypes' /\ Bytes'
    BY <1>1, <1>2, <2>3, GrowthKeeps DEF Upload!client
  <2>5. Strays'
    BY <1>1, <1>2 DEF Strays, Creates, Chunks, Syncs, Finals, Follows
  <2>6. Len(stored'[file]) \in Nat /\ Len(stored'[file]) <= Len(stored'[file])
    BY <1>3, <2>3
  <2>7. CASE phase = "create"
    <3>1. call \in Creates /\ call.file = file /\ call.kind = "create"
      BY <1>1, <2>7 DEF Expected, Creates
    <3>2. call' \in Creates /\ call'.file = file
      BY <2>1, <3>1 DEF Creates
    <3>3. Expected'
      BY <1>2, <2>7, <3>2 DEF Expected
    <3>4. Kept' /\ Passed'
      BY <1>1, <1>2, <2>3, <2>7, <3>1 DEF Kept, Passed
    <3> QED BY <2>4, <2>5, <3>3, <3>4 DEF UploadInv
  <2>8. CASE phase \in {"chunk", "sync"}
    <3>1. call.kind = phase /\ call.file = file
      BY <1>1, <1>2, <2>8 DEF Expected, Chunks, Syncs, Answers
    <3>2. call' \in Answers /\ call'.kind = phase /\ call'.received = Len(stored'[file])
      BY <2>1, <2>6, <2>8, <3>1 DEF Answers
    <3>3. Expected'
      BY <1>2, <2>6, <2>8, <3>2 DEF Expected
    <3>4. Kept' /\ Passed'
      BY <1>1, <1>2, <2>3, <2>8 DEF Kept, Passed
    <3> QED BY <2>4, <2>5, <3>3, <3>4 DEF UploadInv
  <2>9. CASE phase = "finalize"
    <3>1. call \in Finals /\ call.kind = "finalize"
      BY <1>1, <2>9 DEF Expected, Finals
    <3>2. call' \in Finals
      BY <2>1, <3>1 DEF Finals
    <3>3. Expected'
      BY <1>2, <2>9, <3>2 DEF Expected
    <3>4. Kept' /\ Passed'
      BY <1>1, <1>2, <2>3, <2>9 DEF Kept, Passed
    <3> QED BY <2>4, <2>5, <3>3, <3>4 DEF UploadInv
  <2> QED BY <1>3, <2>7, <2>8, <2>9
<1> QED BY <1>4, <1>5

LEMMA UploadInit == Upload!Init => UploadInv
<1> SUFFICES ASSUME Upload!Init PROVE UploadInv
  OBVIOUS
<1>1. 1 \in Upload!Numbers /\ 0 \in 0..Size[1] /\ 0 \in 0..MaxRecovery /\ \A f \in Upload!Numbers : Size[f] \in Nat /\ ~(f < 1)
  BY SizesAre, UploadConstants DEF Upload!UploadAssumption
<1>2. UploadTypes
  <2>1. known \in [Upload!Numbers -> Nat]
    BY DEF Upload!Init
  <2>2. <<>> \in Seq(Nat)
    OBVIOUS
  <2>3. stored \in [Upload!Numbers -> Seq(Nat)]
    BY <2>2 DEF Upload!Init
  <2> QED BY <1>1, <2>1, <2>3 DEF Upload!Init, UploadTypes, Phases
<1>3. Bytes
  BY <1>1 DEF Upload!Init, Bytes
<1>4. Strays /\ Expected /\ Kept /\ Passed
  BY <1>1 DEF Upload!Init, Strays, Expected, Kept, Passed, Upload!Create, Creates, Stages
<1> QED BY <1>2, <1>3, <1>4 DEF UploadInv

LEMMA UploadStep ==
  ASSUME UploadInv, Upload!Next \/ UNCHANGED uploadVars PROVE UploadInv'
<1>1. CASE Upload!Next
  <2>1. CASE Upload!Client
    BY <2>1, CreatedKeeps, ChunkStoredKeeps, ChunkFailsKeeps, SyncedKeeps, FinalizedKeeps,
       CreateOrFinalizeFailsKeeps, RemovedKeeps DEF Upload!Client
  <2>2. CASE Upload!Cancel \/ Upload!IdleFires \/ Upload!ProcessingFires
    BY <2>2, AbortKeeps DEF Upload!Cancel, Upload!IdleFires, Upload!ProcessingFires
  <2>3. CASE Upload!Network
    BY <2>3, ServerAnswersKeeps, CallBreaksKeeps, ServerRefusesKeeps, StrayArrivesKeeps,
       StrayIsLostKeeps DEF Upload!Network
  <2> QED BY <1>1, <2>1, <2>2, <2>3 DEF Upload!Next
<1>2. CASE UNCHANGED uploadVars
  <2>1. /\ phase' = phase /\ file' = file /\ start' = start /\ attempt' = attempt
        /\ retryable' = retryable /\ sessions' = sessions /\ known' = known /\ aborted' = aborted
        /\ call' = call /\ stray' = stray /\ removing' = removing
        /\ open' = open /\ stored' = stored /\ posted' = posted
    BY <1>2 DEF uploadVars
  <2>2. UploadTypes' /\ Strays' /\ Bytes'
    BY <2>1 DEF UploadInv, UploadTypes, Strays, Bytes, Creates, Chunks, Syncs, Finals, Follows
  <2>3. Expected' /\ Kept' /\ Passed'
    BY <2>1 DEF UploadInv, Expected, Kept, Passed, Creates, Chunks, Syncs, Finals, Answers, Follows
  <2> QED BY <2>2, <2>3 DEF UploadInv
<1> QED BY <1>1, <1>2

LEMMA UploadInvHolds == UploadInv => Upload!TypeOK /\ Upload!StoredInOrder /\ Upload!NeverAhead
<1> SUFFICES ASSUME UploadInv PROVE Upload!TypeOK /\ Upload!StoredInOrder /\ Upload!NeverAhead
  OBVIOUS
<1>1. UploadTypes /\ Strays /\ Bytes /\ Expected /\ Kept /\ Passed
  BY DEF UploadInv
<1>2. \A f \in Upload!Numbers : /\ stored[f] \in Seq(Nat) /\ Len(stored[f]) \in Nat /\ Size[f] \in Nat
                         /\ known[f] \in Nat /\ DOMAIN stored[f] = 1..Len(stored[f])
  BY <1>1, SizesAre DEF UploadTypes
<1>3. Upload!TypeOK
  <2>1. \A f \in Upload!Numbers : known[f] \in 0..Size[f]
    BY <1>1, <1>2 DEF Bytes
  <2>2. call.kind \in {"none", "create", "chunk", "sync", "finalize"}
    BY <1>1 DEF UploadTypes, Phases, Expected, Creates, Chunks, Syncs, Finals, Answers,
       Upload!NoCall
  <2>3. \A req \in stray : req.kind \in {"none", "create", "chunk", "sync", "finalize"}
    BY <1>1 DEF Strays, Creates, Chunks, Syncs, Finals
  <2> QED BY <1>1, <2>1, <2>2, <2>3 DEF Upload!TypeOK, UploadTypes, Phases
<1>4. Upload!StoredInOrder
  BY <1>1, <1>2 DEF Upload!StoredInOrder, Bytes
<1>5. Upload!NeverAhead
  <2>1. phase = "finalize" => \A f \in Upload!Numbers : Len(stored[f]) = Size[f]
    BY <1>1, <1>2 DEF Passed, Bytes
  <2> QED BY <1>1, <1>2, <2>1 DEF Upload!NeverAhead, Upload!Complete, Kept, Bytes
<1> QED BY <1>3, <1>4, <1>5

LEMMA UploadIsSound == MCSpec => []UploadInv
<1>1. MCInit => UploadInv
  <2>1. UploadIsOver => UploadInv
    <3> SUFFICES ASSUME UploadIsOver PROVE UploadInv
      OBVIOUS
    <3>1. 1 \in Upload!Numbers /\ 0 \in 0..Size[1] /\ 0 \in 0..MaxRecovery /\ \A f \in Upload!Numbers : Size[f] \in Nat /\ ~(f < 1)
      BY SizesAre, UploadConstants DEF Upload!UploadAssumption
    <3>2. UploadTypes
      <4>1. known \in [Upload!Numbers -> Nat]
        BY DEF UploadIsOver, Upload!Numbers
      <4>2. <<>> \in Seq(Nat)
        OBVIOUS
      <4>3. stored \in [Upload!Numbers -> Seq(Nat)]
        BY <4>2 DEF UploadIsOver, Upload!Numbers
      <4> QED BY <3>1, <4>1, <4>3 DEF UploadIsOver, UploadTypes, Phases
    <3>3. Bytes
      BY <3>1 DEF UploadIsOver, Bytes, Upload!Numbers
    <3>4. Strays /\ Expected /\ Kept /\ Passed
      BY <3>1 DEF UploadIsOver, Strays, Expected, Kept, Passed
    <3> QED BY <3>2, <3>3, <3>4 DEF UploadInv
  <2> QED BY <2>1, UploadInit DEF MCInit
<1>2. UploadInv /\ [MCNext]_allVars => UploadInv'
  <2>1. [MCNext]_allVars => Upload!Next \/ UNCHANGED uploadVars
    BY DEF MCNext, allVars
  <2> QED BY <2>1, UploadStep
<1> QED BY <1>1, <1>2, PTL DEF MCSpec

\* What the server has of a file is its beginning, and the client never counts more.
THEOREM UploadIsInOrder == MCSpec => []UploadHolds
<1>1. UploadInv => UploadHolds
  BY UploadInvHolds DEF UploadHolds
<1> QED BY <1>1, UploadIsSound, PTL

-----------------------------------------------------------------------------
(* The composer: one meaning, and files that fit                            *)

\* A set of files that one message may carry.
Fits(files) ==
    /\ files \subseteq Files
    /\ ~Superuser => Cardinality(files) <= Limit /\ files \cap TooBig = {}

SendStages == {"none", "running", "stopping", "posted", "failed"}

\* The table of the uploads: what each is, and that each may be sent.
TableOK(table) ==
    /\ table \in [1..MaxUploads -> [stage : SendStages, files : SUBSET Files]]
    /\ \A u \in 1..MaxUploads : Fits(table[u].files)

ComposerInv ==
    /\ draft \in Composer!Texts /\ replyTo \in Messages \cup {"none"}
    /\ editing \in Messages \cup {"none"}
    /\ replyTo = "none" \/ editing = "none"
    /\ Fits(queued) /\ fresh \subseteq Files
    /\ progress \in BOOLEAN /\ abortRef \in 0..MaxUploads
    /\ TableOK(uploads)
    /\ online \in BOOLEAN /\ notice \in BOOLEAN /\ dragging \in BOOLEAN

\* The instances count sets as FiniteSets does.
LEMMA ComposerCounts ==
  ASSUME NEW S
  PROVE  Composer!Cardinality(S) = Cardinality(S) /\ (Composer!IsFiniteSet(S) <=> IsFiniteSet(S))
<1>1. Composer!Cardinality(S) = Cardinality(S)
  BY DEF Composer!Cardinality, Cardinality
<1>2. Composer!IsFiniteSet(S) <=> IsFiniteSet(S)
  BY DEF Composer!IsFiniteSet, IsFiniteSet
<1> QED BY <1>1, <1>2

LEMMA NoticesCount == ASSUME NEW S PROVE Notices!Cardinality(S) = Cardinality(S)
BY DEF Notices!Cardinality, Cardinality

LEMMA FewerFit ==
  ASSUME Composer!ComposerAssumption, NEW s, NEW t \in SUBSET s, Fits(s) PROVE Fits(t)
<1>1. IsFiniteSet(s)
  <2>1. IsFiniteSet(Files)
    BY ComposerCounts DEF Composer!ComposerAssumption
  <2> QED BY <2>1, FS_Subset DEF Fits
<1>2. IsFiniteSet(t) /\ Cardinality(t) <= Cardinality(s)
  BY <1>1, FS_Subset
<1>3. Cardinality(t) \in Nat /\ Cardinality(s) \in Nat
  BY <1>1, <1>2, FS_CardinalityType
<1> QED BY <1>2, <1>3 DEF Fits, Composer!ComposerAssumption

LEMMA NothingFits == ASSUME Composer!ComposerAssumption PROVE Fits({})
BY FS_EmptySet DEF Fits, Composer!ComposerAssumption

LEMMA AttachedFits ==
  ASSUME Composer!ComposerAssumption, ComposerInv, NEW chosen \in SUBSET fresh,
         Composer!HandleAttach(chosen)
  PROVE  Fits(queued') /\ fresh' \subseteq Files /\ notice' \in BOOLEAN
<1>1. CASE ~Superuser /\ Cardinality(queued) >= Limit
  BY <1>1, ComposerCounts DEF Composer!HandleAttach, ComposerInv, Composer!attached, Fits
<1>2. CASE ~(~Superuser /\ Cardinality(queued) >= Limit)
  <2>1. PICK kept \in SUBSET chosen :
            /\ Composer!FilesThatFit(chosen, kept)
            /\ queued' = queued \cup kept /\ fresh' = fresh \ kept
            /\ notice' = (kept # chosen)
    BY <1>2, ComposerCounts DEF Composer!HandleAttach
  <2>0. notice' \in BOOLEAN
    <3>1. notice' = (kept # chosen)
      BY <2>1
    <3> QED BY <3>1, Zenon
  <2>2. queued' \subseteq Files /\ fresh' \subseteq Files
    BY <2>1 DEF ComposerInv, Fits
  <2>3. CASE ~Superuser
    <3>1. IsFiniteSet(queued) /\ IsFiniteSet(kept) /\ IsFiniteSet(chosen \ TooBig)
      <4>1. queued \subseteq Files /\ kept \subseteq Files /\ chosen \ TooBig \subseteq Files
        BY <2>1 DEF ComposerInv, Fits
      <4>2. IsFiniteSet(Files)
        BY ComposerCounts DEF Composer!ComposerAssumption
      <4> QED BY <4>1, <4>2, FS_Subset
    <3>2. /\ Cardinality(queued) \in Nat /\ Cardinality(kept) \in Nat
          /\ Cardinality(chosen \ TooBig) \in Nat
      BY <3>1, FS_CardinalityType
    <3>3. /\ Cardinality(kept) <= Limit - Cardinality(queued)
          /\ kept \subseteq chosen \ TooBig
      <4>1. CASE Cardinality(chosen \ TooBig) <= Limit - Cardinality(queued)
        BY <2>1, <2>3, <4>1, ComposerCounts DEF Composer!FilesThatFit
      <4>2. CASE ~(Cardinality(chosen \ TooBig) <= Limit - Cardinality(queued))
        <5>1. Limit \in Nat
          BY DEF Composer!ComposerAssumption
        <5>2. /\ Cardinality(kept) = Limit - Cardinality(queued)
              /\ kept \subseteq chosen \ TooBig
          BY <2>1, <2>3, <4>2, ComposerCounts DEF Composer!FilesThatFit
        <5> QED BY <3>2, <5>1, <5>2
      <4> QED BY <4>1, <4>2
    <3>4. Cardinality(queued \cup kept) =
              Cardinality(queued) + Cardinality(kept) - Cardinality(queued \cap kept)
      BY <3>1, FS_Union
    <3>5. Cardinality(queued \cap kept) \in Nat
      BY <3>1, FS_Intersection, FS_CardinalityType
    <3>6. Cardinality(queued \cup kept) <= Limit
      BY <3>2, <3>3, <3>4, <3>5 DEF Composer!ComposerAssumption
    <3>7. queued' \cap TooBig = {}
      BY <2>1, <2>3, <3>3 DEF ComposerInv, Fits
    <3> QED BY <2>0, <2>1, <2>2, <3>6, <3>7 DEF Fits
  <2> QED BY <2>0, <2>2, <2>3 DEF Fits
<1> QED BY <1>1, <1>2

LEMMA EntryKeepsTable ==
  ASSUME NEW table, TableOK(table), NEW u \in 1..MaxUploads, NEW entry, NEW stage \in SendStages,
         NEW files \in SUBSET Files, entry = [stage |-> stage, files |-> files], Fits(files)
  PROVE  TableOK([table EXCEPT ![u] = entry])
BY DEF TableOK

LEMMA StageKeepsTable ==
  ASSUME NEW table, TableOK(table), NEW u \in 1..MaxUploads, NEW stage \in SendStages
  PROVE  TableOK([table EXCEPT ![u].stage = stage])
<1>1. [table EXCEPT ![u].stage = stage] =
        [table EXCEPT ![u] = [stage |-> stage, files |-> table[u].files]]
  <2>1. table[u] \in [stage : SendStages, files : SUBSET Files]
    BY DEF TableOK
  <2>2. [table[u] EXCEPT !.stage = stage] = [stage |-> stage, files |-> table[u].files]
    BY <2>1
  <2> QED BY <2>2
<1>2. table[u].files \in SUBSET Files /\ Fits(table[u].files)
  BY DEF TableOK
<1> QED BY <1>1, <1>2, EntryKeepsTable

LEMMA ComposerInit == ASSUME Composer!ComposerAssumption, Composer!Init PROVE ComposerInv
<1>1. Fits({})
  BY NothingFits
<1>2. TableOK(uploads)
  BY <1>1 DEF Composer!Init, TableOK, Composer!NoUpload, SendStages
<1>3. 0 \in 0..MaxUploads
  BY DEF Composer!ComposerAssumption
<1> QED BY <1>1, <1>2, <1>3 DEF Composer!Init, ComposerInv, Composer!Texts

LEMMA ComposerStep ==
  ASSUME Composer!ComposerAssumption, ComposerInv, Composer!Next \/ UNCHANGED composerVars PROVE ComposerInv'
<1> USE DEF Composer!input, Composer!attached, Composer!transfer, Composer!around
<1>0. Fits({})
  BY NothingFits
<1>20. 0 \in 0..MaxUploads
  BY DEF Composer!ComposerAssumption
<1>1. ASSUME NEW text \in {"", "typed", "long"}, Composer!Types(text) PROVE ComposerInv'
  BY <1>1 DEF Composer!Types, ComposerInv, Composer!Texts, Fits
<1>2. ASSUME NEW m \in Messages, Composer!HandleReply(m) PROVE ComposerInv'
  BY <1>2 DEF Composer!HandleReply, ComposerInv, Composer!Texts, Fits
<1>3. ASSUME NEW m \in Messages, Composer!HandleEdit(m) PROVE ComposerInv'
  BY <1>3 DEF Composer!HandleEdit, ComposerInv, Composer!Texts, Fits
<1>4. CASE Composer!HandleCancelReply
  BY <1>4 DEF Composer!HandleCancelReply, ComposerInv, Composer!Texts, Fits
<1>5. ASSUME NEW chosen \in (SUBSET fresh) \ {{}}, Composer!Attach(chosen) PROVE ComposerInv'
  <2>1. Fits(queued') /\ fresh' \subseteq Files /\ notice' \in BOOLEAN
    BY <1>5, AttachedFits DEF Composer!Attach
  <2> QED BY <1>5, <2>1 DEF Composer!Attach, ComposerInv, Composer!Texts, Fits
<1>6. ASSUME NEW chosen \in (SUBSET fresh) \ {{}}, Composer!Drop(chosen) PROVE ComposerInv'
  <2>1. Fits(queued') /\ fresh' \subseteq Files /\ notice' \in BOOLEAN
    BY <1>6, AttachedFits DEF Composer!Drop
  <2> QED BY <1>6, <2>1 DEF Composer!Drop, ComposerInv, Composer!Texts, Fits
<1>7. CASE Composer!DragEnter
  BY <1>7 DEF Composer!DragEnter, ComposerInv, Composer!Texts, Fits
<1>8. CASE Composer!DragLeave
  BY <1>8 DEF Composer!DragLeave, ComposerInv, Composer!Texts, Fits
<1>9. ASSUME NEW gone \in SUBSET queued, Composer!RemoveQueued(gone) PROVE ComposerInv'
  <2>1. Fits(queued \ gone)
    BY FewerFit DEF ComposerInv
  <2> QED BY <1>9, <2>1 DEF Composer!RemoveQueued, ComposerInv, Composer!Texts, Fits
<1>10. CASE Composer!SendRefused
  BY <1>10 DEF Composer!SendRefused, ComposerInv, Composer!Texts, Fits
<1>11. CASE Composer!SendEdit
  BY <1>11 DEF Composer!SendEdit, ComposerInv, Composer!Texts, Fits
<1>12. CASE Composer!SendText
  BY <1>12 DEF Composer!SendText, ComposerInv, Composer!Texts, Fits
<1>13. ASSUME NEW u \in 1..MaxUploads, Composer!SendFiles(u) PROVE ComposerInv'
  <2>1. TableOK(uploads')
    BY <1>13, EntryKeepsTable DEF Composer!SendFiles, ComposerInv, Fits, SendStages
  <2> QED BY <1>13, <2>1 DEF Composer!SendFiles, ComposerInv
<1>14. ASSUME NEW u \in 1..MaxUploads, Composer!Progresses(u) PROVE ComposerInv'
  BY <1>14 DEF Composer!Progresses, ComposerInv, Composer!Texts, Fits
<1>15. ASSUME NEW u \in 1..MaxUploads, Composer!UploadSucceeds(u) PROVE ComposerInv'
  <2>1. TableOK(uploads')
    BY <1>15, StageKeepsTable DEF Composer!UploadSucceeds, ComposerInv, SendStages
  <2> QED BY <1>0, <1>20, <1>15, <2>1 DEF Composer!UploadSucceeds, ComposerInv, Composer!Texts, Fits
<1>16. ASSUME NEW u \in 1..MaxUploads, Composer!UploadFails(u) PROVE ComposerInv'
  <2>1. TableOK(uploads')
    BY <1>16, StageKeepsTable DEF Composer!UploadFails, ComposerInv, SendStages
  <2>2. notice' \in BOOLEAN
    BY <1>16, Zenon DEF Composer!UploadFails
  <2> QED BY <1>20, <1>16, <2>1, <2>2 DEF Composer!UploadFails, ComposerInv, Composer!Texts, Fits
<1>17. CASE Composer!HandleCancelUpload
  <2>1. TableOK(uploads')
    <3>1. CASE abortRef = 0
      BY <1>17, <3>1 DEF Composer!HandleCancelUpload, ComposerInv
    <3>2. CASE abortRef # 0
      <4>1. abortRef \in 1..MaxUploads
        BY <3>2 DEF ComposerInv, Composer!ComposerAssumption
      <4>2. uploads[abortRef].stage \in SendStages
        BY <4>1 DEF ComposerInv, TableOK
      <4>3. PICK stage \in SendStages : uploads' = [uploads EXCEPT ![abortRef].stage = stage]
        BY <1>17, <3>2, <4>2 DEF Composer!HandleCancelUpload, SendStages
      <4> QED BY <4>1, <4>3, StageKeepsTable DEF ComposerInv
    <3> QED BY <3>1, <3>2
  <2>2. /\ abortRef' = 0 /\ progress' = FALSE
        /\ UNCHANGED <<draft, replyTo, editing, queued, fresh, online, notice, dragging>>
    BY <1>17 DEF Composer!HandleCancelUpload
  <2> QED BY <1>20, <2>1, <2>2 DEF ComposerInv, Composer!Texts, Fits
<1>18. CASE Composer!ConnectionChanges
  BY <1>18 DEF Composer!ConnectionChanges, ComposerInv, Composer!Texts, Fits
<1>19. CASE UNCHANGED composerVars
  BY <1>19 DEF composerVars, ComposerInv, Composer!Texts, Fits
<1> QED
  BY <1>1, <1>2, <1>3, <1>4, <1>5, <1>6, <1>7, <1>8, <1>9, <1>10, <1>11, <1>12,
     <1>13, <1>14, <1>15, <1>16, <1>17, <1>18, <1>19 DEF Composer!Next

LEMMA ComposerIs == ASSUME ComposerInv PROVE Composer!OneMeaning /\ Composer!TypeOK
<1>1. Composer!OneMeaning
  BY ComposerCounts DEF ComposerInv, TableOK, Composer!OneMeaning, Fits
<1>2. Composer!TypeOK
  BY DEF ComposerInv, TableOK, Composer!TypeOK, Fits, SendStages
<1> QED BY <1>1, <1>2

-----------------------------------------------------------------------------
(* The typing line                                                         *)

\* The typing line: no name without a typist, and the interval's copy of a
\* frame is never the younger one.
TypingLine ==
    /\ names \subseteq Others
    /\ typing \in [Others -> {"none", "fresh", "old"}]
    /\ swept \in [Others -> {"none", "fresh", "old"}]
    /\ \A u \in names : typing[u] # "none"
    /\ \A u \in Others : swept[u] = "fresh" => typing[u] # "old"

\* The page does not move with the typing line.
PageRests ==
    /\ messages = <<>> /\ receipts = [u \in Others \cup {Me} |-> 0]

LineInv == TypingLine /\ PageRests

LEMMA TypingLineInit == ASSUME Screen!Init PROVE LineInv
BY DEF Screen!Init, Screen!PageInit, Screen!TypingInit, LineInv, TypingLine, PageRests

LEMMA TypingLineStep ==
  ASSUME LineInv, Screen!TypingNext \/ UNCHANGED screenVars PROVE LineInv'
<1> USE DEF LineInv, TypingLine, PageRests, Screen!pageVars
<1>1. ASSUME NEW u \in Others, Screen!TypingFrame(u) PROVE LineInv'
  BY <1>1 DEF Screen!TypingFrame
<1>2. ASSUME NEW u \in Others, Screen!MessageOf(u) PROVE LineInv'
  BY <1>2 DEF Screen!MessageOf
<1>3. ASSUME NEW u \in Others, Screen!Ages(u) PROVE LineInv'
  BY <1>3 DEF Screen!Ages
<1>4. CASE Screen!Restart
  BY <1>4 DEF Screen!Restart
<1>5. CASE Screen!Sweep
  BY <1>5 DEF Screen!Sweep
<1>6. CASE UNCHANGED screenVars
  BY <1>6 DEF screenVars, Screen!typingVars
<1> QED BY <1>1, <1>2, <1>3, <1>4, <1>5, <1>6 DEF Screen!TypingNext

LEMMA TypingLineIs == ASSUME Screen!ScreenAssumption, LineInv PROVE Screen!NamesBelong /\ Screen!ScreenTypeOK
BY DEF LineInv, TypingLine, PageRests, Screen!NamesBelong, Screen!ScreenTypeOK, Screen!ScreenAssumption

-----------------------------------------------------------------------------
(* The notices: numbers in their order, and refs that know the open ones    *)

\* What the queue is made of, as its steps take it: [toasts, removing, made, view].
Kinds == {"warning", "trouble", "lost", "restored", "failed", "problem", "other"}
Toasts == [id : Nat, kind : Kinds, by : Nat, sticky : BOOLEAN, open : BOOLEAN]
Views == [known : BOOLEAN, warned : BOOLEAN, told : BOOLEAN, seen : Nat, lost : Nat,
          shown : Notices!Problems, card : Nat]
States == [toasts : Seq(Toasts), removing : SUBSET Nat, made : Nat, view : Views]
ThisState == [toasts |-> toasts, removing |-> leaving, made |-> made, view |-> view]

\* Each toast has a number of its own, in the order they were made; one that is
\* no longer open has its timer.
InOrder(s) ==
    /\ \A i \in 1..Len(s.toasts) :
          /\ s.toasts[i].id \in 1..s.made /\ s.toasts[i].by <= visit
          /\ s.toasts[i].open \/ s.toasts[i].id \in s.removing
    /\ \A i, j \in 1..Len(s.toasts) : i < j => s.toasts[i].id < s.toasts[j].id
Queue(s) ==
    /\ s \in States /\ InOrder(s) /\ s.removing \subseteq 1..s.made
    /\ s.view.lost <= s.made /\ s.view.card <= s.made

\* The open toasts of a kind that this visit has put there.
OpenOf(s, kind) ==
    {s.toasts[i].id : i \in {j \in 1..Len(s.toasts) :
        s.toasts[j].kind = kind /\ s.toasts[j].by = visit /\ s.toasts[j].open}}

\* What the refs of the page know of them.
RefsHold(s) ==
    /\ OpenOf(s, "lost") \subseteq {s.view.lost}
    /\ OpenOf(s, "problem") \subseteq {s.view.card}
    /\ s.view.shown = "none" => OpenOf(s, "problem") = {}
    /\ s.view.seen <= network.notice.id
    /\ network.notice.type = "restored" /\ s.view.seen = network.notice.id => s.view.lost = 0

Around ==
    /\ network \in [online : BOOLEAN, error : BOOLEAN,
                    notice : [id : Nat, type : {"none", "lost", "failed", "restored"}]]
    /\ network.notice.type # "none" => network.notice.id # 0
    /\ problem \in Notices!Problems /\ visit \in Nat

LEMMA InOpenOf ==
  ASSUME NEW s, NEW k, NEW x
  PROVE  x \in OpenOf(s, k) <=>
            \E i \in 1..Len(s.toasts) : /\ s.toasts[i].id = x /\ s.toasts[i].kind = k
                                        /\ s.toasts[i].by = visit /\ s.toasts[i].open
BY DEF OpenOf

LEMMA NewView ==
  ASSUME NEW s, Queue(s), NEW v \in Views, v.lost <= s.made, v.card <= s.made
  PROVE  LET t == [s EXCEPT !.view = v]
         IN  /\ Queue(t) /\ t.view = v /\ t.made = s.made
             /\ \A k \in Kinds : OpenOf(t, k) = OpenOf(s, k)
<1> DEFINE t == [s EXCEPT !.view = v]
<1>1. s \in States
  BY DEF Queue
<1>2. /\ t.view = v /\ t.made = s.made /\ t.toasts = s.toasts /\ t.removing = s.removing
      /\ t \in States
  BY <1>1 DEF States
<1>3. InOrder(t)
  BY <1>2 DEF InOrder, Queue
<1>4. \A k \in Kinds : OpenOf(t, k) = OpenOf(s, k)
  BY <1>2 DEF OpenOf
<1> HIDE DEF t
<1>5. Queue(t)
  BY <1>2, <1>3 DEF Queue
<1> QED BY <1>2, <1>4, <1>5 DEF t

\* One more toast, of this visit or of nobody.
Put(s, kind, by, sticky) ==
    [s EXCEPT !.made = s.made + 1,
              !.toasts = Append(s.toasts, [id |-> s.made + 1, kind |-> kind, by |-> by,
                                           sticky |-> sticky, open |-> TRUE])]

LEMMA AppendIs ==
  ASSUME Around, NEW s, Queue(s), NEW kind \in Kinds, NEW sticky \in BOOLEAN,
         NEW by \in Nat, by <= visit
  PROVE  LET t == Put(s, kind, by, sticky)
         IN  /\ Queue(t) /\ t.view = s.view /\ t.made = s.made + 1 /\ t.removing = s.removing
             /\ t.toasts = Append(s.toasts, [id |-> s.made + 1, kind |-> kind, by |-> by,
                                             sticky |-> sticky, open |-> TRUE])
             /\ \A k \in Kinds : k # kind => OpenOf(t, k) = OpenOf(s, k)
             /\ OpenOf(t, kind) \subseteq OpenOf(s, kind) \cup {s.made + 1}
<1> DEFINE new == [id |-> s.made + 1, kind |-> kind, by |-> by, sticky |-> sticky, open |-> TRUE]
           t == Put(s, kind, by, sticky)
           n == Len(s.toasts)
<1>1. s \in States /\ s.made \in Nat /\ s.toasts \in Seq(Toasts) /\ s.view \in Views
  BY DEF Queue, States
<1>2. new \in Toasts
  BY <1>1 DEF Toasts, Around
<1>3. /\ t.toasts = Append(s.toasts, new) /\ t.made = s.made + 1
      /\ t.view = s.view /\ t.removing = s.removing
  BY <1>1 DEF States, Put
<1>4. t.toasts \in Seq(Toasts)
  BY <1>1, <1>2, <1>3
<1>5. t \in States
  <2> DEFINE x == Append(s.toasts, new)
             m == s.made + 1
  <2>1. t = [s EXCEPT !.made = m, !.toasts = x]
    BY DEF Put
  <2>2. x \in Seq(Toasts) /\ m \in Nat
    BY <1>1, <1>3, <1>4
  <2>3. s \in States
    BY <1>1
  <2> HIDE DEF x, m, t, new, n
  <2> QED BY <2>1, <2>2, <2>3 DEF States
<1>6. n \in Nat /\ Len(t.toasts) = n + 1 /\ t.toasts[n + 1] = new
      /\ \A i \in 1..n : t.toasts[i] = s.toasts[i]
  BY <1>1, <1>2, <1>3
<1>7. /\ new.id = s.made + 1 /\ new.kind = kind /\ new.by = by /\ new.open = TRUE
  OBVIOUS
<1> HIDE DEF t, new, n
<1>8. \A i \in 1..n : s.toasts[i] \in Toasts /\ s.toasts[i].id \in 1..s.made
  BY <1>1 DEF Queue, InOrder, n
<1>9. InOrder(t)
  <2>1. ASSUME NEW i \in 1..Len(t.toasts)
        PROVE  /\ t.toasts[i].id \in 1..t.made /\ t.toasts[i].by <= visit
               /\ t.toasts[i].open \/ t.toasts[i].id \in t.removing
    <3>1. CASE i = n + 1
      BY <1>1, <1>3, <1>6, <1>7, <3>1 DEF Around
    <3>2. CASE i \in 1..n
      BY <1>1, <1>3, <1>6, <3>2 DEF Queue, InOrder, n
    <3> QED BY <1>6, <3>1, <3>2
  <2>2. ASSUME NEW i \in 1..Len(t.toasts), NEW j \in 1..Len(t.toasts), i < j
        PROVE  t.toasts[i].id < t.toasts[j].id
    <3>1. i \in 1..n
      BY <1>6, <2>2
    <3>2. CASE j = n + 1
      <4>1. t.toasts[i].id \in 1..s.made /\ t.toasts[j].id = s.made + 1
        BY <1>6, <1>7, <1>8, <3>1, <3>2
      <4>2. s.made \in Nat
        BY <1>1
      <4> QED BY <4>1, <4>2
    <3>3. CASE j \in 1..n
      BY <1>6, <2>2, <3>1, <3>3 DEF Queue, InOrder, n
    <3> QED BY <1>6, <3>2, <3>3
  <2> QED BY <2>1, <2>2 DEF InOrder
<1>10. t.removing \subseteq 1..t.made /\ t.view.lost <= t.made /\ t.view.card <= t.made
  BY <1>1, <1>3 DEF Queue, Views
<1>11. 1..(n + 1) = 1..n \cup {n + 1}
  BY <1>6
<1>12. ASSUME NEW k \in Kinds, k # kind PROVE OpenOf(t, k) = OpenOf(s, k)
  <2>1. ASSUME NEW x PROVE x \in OpenOf(t, k) <=> x \in OpenOf(s, k)
    <3>1. \A i \in 1..(n + 1) : t.toasts[i].kind = k => i \in 1..n
      BY <1>6, <1>7, <1>12
    <3>2. ASSUME x \in OpenOf(t, k) PROVE x \in OpenOf(s, k)
      <4>1. PICK i \in 1..Len(t.toasts) :
               /\ t.toasts[i].id = x /\ t.toasts[i].kind = k
               /\ t.toasts[i].by = visit /\ t.toasts[i].open
        BY <3>2, InOpenOf
      <4> QED BY <1>6, <3>1, <4>1, InOpenOf DEF n
    <3>3. ASSUME x \in OpenOf(s, k) PROVE x \in OpenOf(t, k)
      <4>1. PICK i \in 1..n :
               /\ s.toasts[i].id = x /\ s.toasts[i].kind = k
               /\ s.toasts[i].by = visit /\ s.toasts[i].open
        BY <3>3, InOpenOf DEF n
      <4> QED BY <1>6, <1>11, <4>1, InOpenOf
    <3> QED BY <3>2, <3>3
  <2> QED BY <2>1
<1>13. ASSUME NEW x \in OpenOf(t, kind), x # s.made + 1 PROVE x \in OpenOf(s, kind)
  <2>1. PICK i \in 1..Len(t.toasts) :
           /\ t.toasts[i].id = x /\ t.toasts[i].kind = kind
           /\ t.toasts[i].by = visit /\ t.toasts[i].open
    BY <1>13, InOpenOf
  <2>2. i \in 1..n
    BY <1>6, <1>7, <1>11, <1>13, <2>1
  <2> QED BY <1>6, <2>1, <2>2, InOpenOf DEF n
<1> QED BY <1>3, <1>5, <1>9, <1>10, <1>12, <1>13 DEF Queue, t, new

LEMMA NotifyIs ==
  ASSUME Around, NEW s, Queue(s), NEW kind \in Kinds, NEW sticky \in BOOLEAN
  PROVE  LET t == Notices!Notify(s, kind, sticky)
         IN  /\ Queue(t) /\ t.view = s.view /\ t.made = s.made + 1
             /\ \A k \in Kinds : k # kind => OpenOf(t, k) = OpenOf(s, k)
             /\ OpenOf(t, kind) \subseteq OpenOf(s, kind) \cup {s.made + 1}
<1>1. visit \in Nat /\ visit <= visit
  BY DEF Around
<1>2. Notices!Notify(s, kind, sticky) = Put(s, kind, visit, sticky)
  BY DEF Notices!Notify, Put
<1> DEFINE t == Put(s, kind, visit, sticky)
<1>3. /\ Queue(t) /\ t.view = s.view /\ t.made = s.made + 1
      /\ \A k \in Kinds : k # kind => OpenOf(t, k) = OpenOf(s, k)
      /\ OpenOf(t, kind) \subseteq OpenOf(s, kind) \cup {s.made + 1}
  BY <1>1, AppendIs
<1>4. Notices!Notify(s, kind, sticky) = t
  BY <1>2
<1> HIDE DEF t
<1> QED BY <1>3, <1>4

LEMMA DismissIs ==
  ASSUME NEW s, Queue(s), NEW id \in 0..s.made
  PROVE  LET t == Notices!Dismiss(s, id)
         IN  /\ Queue(t) /\ t.view = s.view /\ t.made = s.made /\ t.removing \subseteq s.removing \cup {id}
             /\ Len(t.toasts) = Len(s.toasts)
             /\ \A i \in 1..Len(s.toasts) : t.toasts[i].sticky = s.toasts[i].sticky
             /\ \A k \in Kinds : OpenOf(t, k) = OpenOf(s, k) \ {id}
<1>1. s \in States /\ s.made \in Nat /\ s.toasts \in Seq(Toasts) /\ s.view \in Views
      /\ s.removing \in SUBSET Nat
  BY DEF Queue, States
<1>2. \A i \in 1..Len(s.toasts) : s.toasts[i] \in Toasts /\ s.toasts[i].id \in 1..s.made
  BY <1>1 DEF Queue, InOrder
<1>3. CASE id = 0
  <2>1. Notices!Dismiss(s, id) = s
    BY <1>3 DEF Notices!Dismiss
  <2>2. \A k \in Kinds : id \notin OpenOf(s, k)
    BY <1>2, <1>3 DEF OpenOf
  <2> QED BY <2>1, <2>2
<1>4. CASE id # 0
  <2> DEFINE t == Notices!Dismiss(s, id)
             n == Len(s.toasts)
             new == [i \in DOMAIN s.toasts |->
                       IF s.toasts[i].id = id THEN [s.toasts[i] EXCEPT !.open = FALSE] ELSE s.toasts[i]]
  <2>1. /\ t.toasts = new /\ t.removing = s.removing \cup {id}
        /\ t.view = s.view /\ t.made = s.made
    BY <1>1, <1>4 DEF Notices!Dismiss, States
  <2>2. DOMAIN s.toasts = 1..n /\ n \in Nat
    BY <1>1
  <2>3. \A i \in 1..n : new[i] \in Toasts
    BY <1>2, <2>2 DEF Toasts
  <2>4. new \in Seq(Toasts) /\ Len(new) = n
    <3>1. new \in [1..n -> Toasts]
      BY <2>2, <2>3
    <3> QED BY <2>2, <3>1
  <2>5. \A i \in 1..n : /\ new[i].id = s.toasts[i].id /\ new[i].kind = s.toasts[i].kind
                        /\ new[i].by = s.toasts[i].by /\ new[i].sticky = s.toasts[i].sticky
                        /\ new[i].open <=> s.toasts[i].open /\ s.toasts[i].id # id
    BY <1>2, <2>2 DEF Toasts
  <2>6. t \in States
    <3> DEFINE r == s.removing \cup {id}
    <3>1. t = [s EXCEPT !.toasts = new, !.removing = r]
      BY <1>4 DEF Notices!Dismiss
    <3>2. r \in SUBSET Nat
      BY <1>1
    <3> HIDE DEF new, t, r
    <3> QED BY <1>1, <2>4, <3>1, <3>2 DEF States
  <2> HIDE DEF t, new, n
  <2>7. InOrder(t)
    <3>1. ASSUME NEW i \in 1..n
          PROVE  /\ new[i].id \in 1..s.made /\ new[i].by <= visit
                 /\ new[i].open \/ new[i].id \in s.removing \cup {id}
      BY <2>5 DEF Queue, InOrder, n
    <3>2. \A i, j \in 1..n : i < j => new[i].id < new[j].id
      BY <2>5 DEF Queue, InOrder, n
    <3> QED BY <2>1, <2>4, <3>1, <3>2 DEF InOrder
  <2>8. t.removing \subseteq 1..t.made
    BY <1>1, <1>4, <2>1 DEF Queue
  <2>9. ASSUME NEW k \in Kinds PROVE OpenOf(t, k) = OpenOf(s, k) \ {id}
    <3>1. ASSUME NEW x PROVE x \in OpenOf(t, k) <=> x \in OpenOf(s, k) /\ x # id
      BY <2>1, <2>4, <2>5, InOpenOf DEF n
    <3> QED BY <3>1
  <2> QED BY <2>1, <2>4, <2>5, <2>6, <2>7, <2>8, <2>9 DEF Queue, t, n
<1> QED BY <1>3, <1>4

WellKept(s) == Queue(s) /\ RefsHold(s)

\* What an effect may change of the refs without a toast.
LEMMA SmallView ==
  ASSUME Around, NEW s, WellKept(s), NEW v \in Views,
         v.lost = s.view.lost, v.card = s.view.card, v.shown = s.view.shown, v.seen = s.view.seen
  PROVE  WellKept([s EXCEPT !.view = v])
<1> DEFINE t == [s EXCEPT !.view = v]
<1>1. /\ Queue(t) /\ t.view = v
      /\ OpenOf(t, "lost") = OpenOf(s, "lost") /\ OpenOf(t, "problem") = OpenOf(s, "problem")
  <2>1. v.lost <= s.made /\ v.card <= s.made
    BY DEF WellKept, Queue
  <2> QED BY <2>1, NewView DEF WellKept, Kinds
<1> HIDE DEF t
<1>2. WellKept(t)
  BY <1>1 DEF WellKept, RefsHold
<1> QED BY <1>2 DEF t

LEMMA SmallNotice ==
  ASSUME Around, NEW s, WellKept(s), NEW kind \in Kinds \ {"lost", "problem"}, NEW sticky \in BOOLEAN
  PROVE  /\ WellKept(Notices!Notify(s, kind, sticky)) /\ Notices!Notify(s, kind, sticky).view = s.view
         /\ Notices!Notify(s, kind, sticky).made = s.made + 1
<1> DEFINE t == Notices!Notify(s, kind, sticky)
<1>1. /\ Queue(t) /\ t.view = s.view /\ t.made = s.made + 1
      /\ OpenOf(t, "lost") = OpenOf(s, "lost") /\ OpenOf(t, "problem") = OpenOf(s, "problem")
  <2>1. kind \in Kinds /\ kind # "lost" /\ kind # "problem" /\ "lost" \in Kinds /\ "problem" \in Kinds
    BY DEF Kinds
  <2>2. /\ Queue(t) /\ t.view = s.view /\ t.made = s.made + 1
        /\ \A k \in Kinds : k # kind => OpenOf(t, k) = OpenOf(s, k)
    BY <2>1, NotifyIs DEF WellKept
  <2> HIDE DEF t
  <2> QED BY <2>1, <2>2
<1> HIDE DEF t
<1>2. WellKept(t)
  BY <1>1 DEF WellKept, RefsHold
<1> QED BY <1>1, <1>2 DEF t

LEMMA WarnKeeps == ASSUME Around, NEW s, WellKept(s) PROVE WellKept(Notices!Warn(s))
<1>1. s \in States /\ s.view \in Views
  BY DEF WellKept, Queue, States
<1>2. CASE network.online
  <2> DEFINE v == [s.view EXCEPT !.warned = FALSE]
  <2>1. v \in Views /\ v.lost = s.view.lost /\ v.card = s.view.card /\ v.shown = s.view.shown
        /\ v.seen = s.view.seen
    BY <1>1 DEF Views
  <2>2. Notices!Warn(s) = [s EXCEPT !.view = v]
    BY <1>2 DEF Notices!Warn
  <2> HIDE DEF v
  <2> QED BY <2>1, <2>2, SmallView
<1>3. CASE ~network.online /\ s.view.warned
  BY <1>3 DEF Notices!Warn
<1>4. CASE ~network.online /\ ~s.view.warned
  <2> DEFINE t == Notices!Notify(s, "warning", FALSE)
             v == [t.view EXCEPT !.warned = TRUE]
  <2>1. Notices!Warn(s) = [t EXCEPT !.view = v]
    BY <1>4 DEF Notices!Warn
  <2>2. WellKept(t) /\ t.view = s.view
    BY SmallNotice DEF Kinds
  <2> HIDE DEF t
  <2>3. v \in Views /\ v.lost = t.view.lost /\ v.card = t.view.card /\ v.shown = t.view.shown
        /\ v.seen = t.view.seen
    BY <1>1, <2>2 DEF Views
  <2> HIDE DEF v
  <2> QED BY <2>1, <2>2, <2>3, SmallView
<1> QED BY <1>2, <1>3, <1>4

LEMMA TellErrorKeeps == ASSUME Around, NEW s, WellKept(s) PROVE WellKept(Notices!TellError(s))
<1>1. s \in States /\ s.view \in Views
  BY DEF WellKept, Queue, States
<1>2. CASE ~(network.error /\ view.known)
  <2> DEFINE v == [s.view EXCEPT !.told = FALSE]
  <2>1. v \in Views /\ v.lost = s.view.lost /\ v.card = s.view.card /\ v.shown = s.view.shown
        /\ v.seen = s.view.seen
    BY <1>1 DEF Views
  <2>2. Notices!TellError(s) = [s EXCEPT !.view = v]
    BY <1>2 DEF Notices!TellError
  <2> HIDE DEF v
  <2> QED BY <2>1, <2>2, SmallView
<1>3. CASE network.error /\ view.known /\ s.view.told
  BY <1>3 DEF Notices!TellError
<1>4. CASE network.error /\ view.known /\ ~s.view.told
  <2> DEFINE t == Notices!Notify(s, "trouble", FALSE)
             v == [t.view EXCEPT !.told = TRUE]
  <2>1. Notices!TellError(s) = [t EXCEPT !.view = v]
    BY <1>4 DEF Notices!TellError
  <2>2. WellKept(t) /\ t.view = s.view
    BY SmallNotice DEF Kinds
  <2> HIDE DEF t
  <2>3. v \in Views /\ v.lost = t.view.lost /\ v.card = t.view.card /\ v.shown = t.view.shown
        /\ v.seen = t.view.seen
    BY <1>1, <2>2 DEF Views
  <2> HIDE DEF v
  <2> QED BY <2>1, <2>2, <2>3, SmallView
<1> QED BY <1>2, <1>3, <1>4

LEMMA TellNoticeKeeps == ASSUME Around, NEW s, WellKept(s) PROVE WellKept(Notices!TellNotice(s))
<1>1. /\ s \in States /\ s.view \in Views /\ s.made \in Nat /\ Queue(s)
      /\ s.view.lost \in 0..s.made /\ s.view.card \in 0..s.made
  BY DEF WellKept, Queue, States, Views
<1>2. /\ Notices!Notice.id \in Nat /\ Notices!Notice.type \in {"none", "lost", "failed", "restored"}
      /\ Notices!Notice.type # "none" => Notices!Notice = network.notice /\ Notices!Notice.id # 0
  BY DEF Notices!Notice, Around
<1>3. network.notice.id \in Nat
  BY DEF Around
<1>4. CASE Notices!Notice.type = "none"
  <2> DEFINE v == [s.view EXCEPT !.seen = 0]
             t == [s EXCEPT !.view = v]
  <2>1. /\ v \in Views /\ v.lost = s.view.lost /\ v.card = s.view.card /\ v.shown = s.view.shown
        /\ v.seen = 0
    BY <1>1 DEF Views
  <2>2. Notices!TellNotice(s) = t
    BY <1>4 DEF Notices!TellNotice
  <2> HIDE DEF v
  <2>3. /\ Queue(t) /\ t.view = v /\ t.made = s.made
        /\ OpenOf(t, "lost") = OpenOf(s, "lost") /\ OpenOf(t, "problem") = OpenOf(s, "problem")
    BY <1>1, <2>1, NewView DEF Kinds
  <2>4. network.notice.type = "restored" => network.notice.id # 0
    BY DEF Around
  <2> HIDE DEF t
  <2> QED BY <1>3, <2>1, <2>2, <2>3, <2>4 DEF WellKept, RefsHold
<1>5. CASE Notices!Notice.type # "none" /\ s.view.seen = Notices!Notice.id
  BY <1>5 DEF Notices!TellNotice
<1> DEFINE w == [s.view EXCEPT !.seen = Notices!Notice.id]
           a == [s EXCEPT !.view = w]
<1>6. /\ w \in Views /\ w.lost = s.view.lost /\ w.card = s.view.card /\ w.shown = s.view.shown
      /\ w.seen = Notices!Notice.id
  BY <1>1, <1>2 DEF Views
<1>7. [s EXCEPT !.view.seen = Notices!Notice.id] = a
  OBVIOUS
<1> HIDE DEF w
<1>8. /\ Queue(a) /\ a.view = w /\ a.made = s.made
      /\ OpenOf(a, "lost") = OpenOf(s, "lost") /\ OpenOf(a, "problem") = OpenOf(s, "problem")
  BY <1>1, <1>6, NewView DEF Kinds
<1> HIDE DEF a
<1> DEFINE b == Notices!Dismiss(a, s.view.lost)
<1>9. /\ Queue(b) /\ b.view = w /\ b.made = s.made
      /\ OpenOf(b, "lost") = OpenOf(s, "lost") \ {s.view.lost}
      /\ OpenOf(b, "problem") = OpenOf(s, "problem") \ {s.view.lost}
  BY <1>1, <1>8, DismissIs DEF Kinds
<1> HIDE DEF b
<1>10. CASE Notices!Notice.type = "lost" /\ s.view.seen # Notices!Notice.id
  <2> DEFINE c == Notices!Notify(b, "lost", TRUE)
             v == [c.view EXCEPT !.lost = s.made + 1]
             t == [c EXCEPT !.view = v]
  <2>1. /\ Queue(c) /\ c.view = w /\ c.made = s.made + 1
        /\ OpenOf(c, "lost") \subseteq OpenOf(b, "lost") \cup {s.made + 1}
        /\ OpenOf(c, "problem") = OpenOf(b, "problem")
    <3>1. "lost" \in Kinds /\ "problem" \in Kinds /\ "lost" # "problem"
      BY DEF Kinds
    <3>2. /\ Queue(c) /\ c.view = b.view /\ c.made = b.made + 1
          /\ \A k \in Kinds : k # "lost" => OpenOf(c, k) = OpenOf(b, k)
          /\ OpenOf(c, "lost") \subseteq OpenOf(b, "lost") \cup {b.made + 1}
      BY <1>9, <3>1, NotifyIs
    <3> HIDE DEF c
    <3> QED BY <1>9, <3>1, <3>2
  <2>2. Notices!TellNotice(s) = t
    BY <1>7, <1>10 DEF Notices!TellNotice, b
  <2> HIDE DEF c
  <2>3. /\ v \in Views /\ v.lost = s.made + 1 /\ v.card = w.card /\ v.shown = w.shown
        /\ v.seen = w.seen
    BY <1>1, <1>6, <2>1 DEF Views
  <2>4. v.lost <= c.made /\ v.card <= c.made
    BY <1>1, <1>6, <2>1, <2>3
  <2> HIDE DEF v
  <2>5. /\ Queue(t) /\ t.view = v
        /\ OpenOf(t, "lost") = OpenOf(c, "lost") /\ OpenOf(t, "problem") = OpenOf(c, "problem")
    BY <2>1, <2>3, <2>4, NewView DEF Kinds
  <2> HIDE DEF t
  <2>6. network.notice.type # "restored" /\ Notices!Notice.id <= network.notice.id
    BY <1>2, <1>3, <1>10
  <2> QED BY <1>6, <1>9, <2>1, <2>2, <2>3, <2>5, <2>6 DEF WellKept, RefsHold
<1>11. CASE Notices!Notice.type = "restored" /\ s.view.seen # Notices!Notice.id
  <2> DEFINE v == [b.view EXCEPT !.lost = 0]
             c == [b EXCEPT !.view = v]
             t == Notices!Notify(c, "restored", FALSE)
  <2>1. Notices!TellNotice(s) = t
    BY <1>7, <1>11 DEF Notices!TellNotice, b
  <2>2. /\ v \in Views /\ v.lost = 0 /\ v.card = w.card /\ v.shown = w.shown /\ v.seen = w.seen
    BY <1>6, <1>9 DEF Views
  <2>3. v.lost <= b.made /\ v.card <= b.made
    BY <1>1, <1>6, <1>9, <2>2
  <2> HIDE DEF v
  <2>4. /\ Queue(c) /\ c.view = v
        /\ OpenOf(c, "lost") = OpenOf(b, "lost") /\ OpenOf(c, "problem") = OpenOf(b, "problem")
    BY <1>9, <2>2, <2>3, NewView DEF Kinds
  <2> HIDE DEF c
  <2>5. /\ Queue(t) /\ t.view = v
        /\ OpenOf(t, "lost") = OpenOf(c, "lost") /\ OpenOf(t, "problem") = OpenOf(c, "problem")
    BY <2>4, NotifyIs DEF Kinds
  <2> HIDE DEF t
  <2>6. Notices!Notice.id <= network.notice.id
    BY <1>2, <1>3, <1>11
  <2>7. OpenOf(s, "lost") \subseteq {s.view.lost} /\ OpenOf(s, "problem") \subseteq {s.view.card}
        /\ (s.view.shown = "none" => OpenOf(s, "problem") = {})
    BY DEF WellKept, RefsHold
  <2> QED BY <1>6, <1>9, <2>1, <2>2, <2>4, <2>5, <2>6, <2>7 DEF WellKept, RefsHold
<1>12. CASE Notices!Notice.type = "failed" /\ s.view.seen # Notices!Notice.id
  <2> DEFINE t == Notices!Notify(a, "failed", FALSE)
  <2>1. Notices!TellNotice(s) = t
    BY <1>7, <1>12 DEF Notices!TellNotice
  <2>2. /\ Queue(t) /\ t.view = w
        /\ OpenOf(t, "lost") = OpenOf(a, "lost") /\ OpenOf(t, "problem") = OpenOf(a, "problem")
    BY <1>8, NotifyIs DEF Kinds
  <2> HIDE DEF t
  <2>3. network.notice.type # "restored" /\ Notices!Notice.id <= network.notice.id
    BY <1>2, <1>3, <1>12
  <2> QED BY <1>6, <1>8, <2>1, <2>2, <2>3 DEF WellKept, RefsHold
<1> QED BY <1>2, <1>4, <1>5, <1>10, <1>11, <1>12

LEMMA ShowProblemKeeps == ASSUME Around, NEW s, WellKept(s) PROVE WellKept(Notices!ShowProblem(s))
<1>1. /\ s \in States /\ s.view \in Views /\ s.made \in Nat /\ Queue(s)
      /\ s.view.lost \in 0..s.made /\ s.view.card \in 0..s.made
  BY DEF WellKept, Queue, States, Views
<1> DEFINE d == Notices!Dismiss(s, s.view.card)
<1>2. /\ Queue(d) /\ d.view = s.view /\ d.made = s.made
      /\ OpenOf(d, "lost") = OpenOf(s, "lost") \ {s.view.card}
      /\ OpenOf(d, "problem") = OpenOf(s, "problem") \ {s.view.card}
  BY <1>1, DismissIs DEF Kinds
<1>3. /\ OpenOf(s, "lost") \subseteq {s.view.lost} /\ OpenOf(s, "problem") \subseteq {s.view.card}
  BY DEF WellKept, RefsHold
<1>4. CASE problem = "none"
  <2> DEFINE v == [d.view EXCEPT !.shown = "none", !.card = 0]
             t == [d EXCEPT !.view = v]
  <2>1. Notices!ShowProblem(s) = t
    BY <1>4 DEF Notices!ShowProblem
  <2> HIDE DEF d
  <2>2. v \in Views /\ v.lost = s.view.lost /\ v.card = 0 /\ v.shown = "none" /\ v.seen = s.view.seen
    BY <1>1, <1>2 DEF Views, Notices!Problems
  <2>3. v.lost <= d.made /\ v.card <= d.made
    BY <1>1, <1>2, <2>2
  <2> HIDE DEF v
  <2>4. /\ Queue(t) /\ t.view = v
        /\ OpenOf(t, "lost") = OpenOf(d, "lost") /\ OpenOf(t, "problem") = OpenOf(d, "problem")
    BY <1>2, <2>2, <2>3, NewView DEF Kinds
  <2> HIDE DEF t
  <2> QED BY <1>2, <1>3, <2>1, <2>2, <2>4 DEF WellKept, RefsHold
<1>5. CASE problem # "none" /\ s.view.shown = problem
  BY <1>5 DEF Notices!ShowProblem
<1>6. CASE problem # "none" /\ s.view.shown # problem
  <2> DEFINE c == Notices!Notify(d, "problem", FALSE)
             v == [c.view EXCEPT !.shown = problem, !.card = s.made + 1]
             t == [c EXCEPT !.view = v]
  <2>1. Notices!ShowProblem(s) = t
    BY <1>6 DEF Notices!ShowProblem
  <2>2. /\ Queue(c) /\ c.view = s.view /\ c.made = s.made + 1
        /\ OpenOf(c, "lost") = OpenOf(d, "lost")
        /\ OpenOf(c, "problem") \subseteq OpenOf(d, "problem") \cup {s.made + 1}
    <3>1. "lost" \in Kinds /\ "problem" \in Kinds /\ "lost" # "problem"
      BY DEF Kinds
    <3>2. /\ Queue(c) /\ c.view = d.view /\ c.made = d.made + 1
          /\ \A k \in Kinds : k # "problem" => OpenOf(c, k) = OpenOf(d, k)
          /\ OpenOf(c, "problem") \subseteq OpenOf(d, "problem") \cup {d.made + 1}
      BY <1>2, <3>1, NotifyIs
    <3> HIDE DEF c, d
    <3> QED BY <1>2, <3>1, <3>2
  <2> HIDE DEF c, d
  <2>3. /\ v \in Views /\ v.lost = s.view.lost /\ v.card = s.made + 1 /\ v.shown = problem
        /\ v.seen = s.view.seen
    <3> DEFINE m == s.made + 1
    <3>1. v = [s.view EXCEPT !.shown = problem, !.card = m] /\ m \in Nat
      BY <1>1, <2>2
    <3>2. problem \in Notices!Problems
      BY DEF Around
    <3>3. s.view \in Views
      BY <1>1
    <3>4. /\ v \in Views /\ v.lost = s.view.lost /\ v.card = m /\ v.shown = problem
          /\ v.seen = s.view.seen
      <4> HIDE DEF v, m
      <4> QED BY <3>1, <3>2, <3>3 DEF Views
    <3> QED BY <3>4
  <2>4. v.lost <= c.made /\ v.card <= c.made
    BY <1>1, <2>2, <2>3
  <2> HIDE DEF v
  <2>5. /\ Queue(t) /\ t.view = v
        /\ OpenOf(t, "lost") = OpenOf(c, "lost") /\ OpenOf(t, "problem") = OpenOf(c, "problem")
    BY <2>2, <2>3, <2>4, NewView DEF Kinds
  <2> HIDE DEF t
  <2> QED BY <1>2, <1>3, <1>6, <2>1, <2>2, <2>3, <2>5 DEF WellKept, RefsHold
<1> QED BY <1>4, <1>5, <1>6

-----------------------------------------------------------------------------
NoticesInv ==
    /\ Around /\ WellKept(ThisState)
    /\ made <= MaxToasts /\ visit <= MaxVisits

LEMMA NoticesInit == ASSUME Notices!NoticesAssumption, Notices!Init PROVE NoticesInv
<1>1. ThisState \in States /\ Around
  BY DEF Notices!Init, ThisState, States, Views, Around, Notices!Fresh, Notices!Problems
<1>2. /\ ThisState.toasts = <<>> /\ ThisState.removing = {} /\ ThisState.made = 0
      /\ ThisState.view.lost = 0 /\ ThisState.view.card = 0 /\ ThisState.view.seen = 0
      /\ network.notice.id = 0
  BY DEF Notices!Init, ThisState, Notices!Fresh
<1>3. Queue(ThisState) /\ RefsHold(ThisState)
  BY <1>1, <1>2 DEF Queue, InOrder, RefsHold, OpenOf
<1> QED BY <1>1, <1>3 DEF Notices!Init, NoticesInv, WellKept, Notices!NoticesAssumption

\* What a step makes of the queue, while the visit and the network stay.
LEMMA QueueStep ==
  ASSUME NEW s, WellKept(s), Around, made <= MaxToasts, visit <= MaxVisits,
         UNCHANGED <<network, problem, visit>>,
         toasts' = s.toasts, leaving' = s.removing, made' = s.made, view' = s.view,
         made' <= MaxToasts
  PROVE  NoticesInv'
<1>1. s = [toasts |-> s.toasts, removing |-> s.removing, made |-> s.made, view |-> s.view]
  BY DEF WellKept, Queue, States
<1>2. ThisState' = s
  BY <1>1 DEF ThisState
<1>3. Queue(ThisState)'
  BY <1>2 DEF WellKept, Queue, InOrder
<1>4. \A k : OpenOf(ThisState, k)' = OpenOf(s, k)
  BY <1>2 DEF OpenOf
<1>5. RefsHold(ThisState)'
  BY <1>2, <1>4 DEF WellKept, RefsHold
<1> QED BY <1>3, <1>5 DEF NoticesInv, WellKept, Around

\* The same when the network or the problem changes, and the queue does not.
LEMMA NetworkStep ==
  ASSUME NoticesInv, Around', UNCHANGED <<toasts, leaving, made, view, visit>>,
         network.notice.id <= network'.notice.id,
         network'.notice.type = "restored" => \/ network.notice.id < network'.notice.id
                                              \/ network.notice = network'.notice
  PROVE  NoticesInv'
<1>1. ThisState' = ThisState
  BY DEF ThisState
<1>2. Queue(ThisState)'
  BY <1>1 DEF NoticesInv, WellKept, Queue, InOrder
<1>3. \A k : OpenOf(ThisState, k)' = OpenOf(ThisState, k)
  BY <1>1 DEF OpenOf
<1>4. ThisState.view.seen \in Nat
  BY DEF NoticesInv, WellKept, Queue, States, Views
<1>5. network.notice.id \in Nat /\ network'.notice.id \in Nat
  BY DEF NoticesInv, Around
<1>6. RefsHold(ThisState)'
  BY <1>1, <1>3, <1>4, <1>5 DEF NoticesInv, WellKept, RefsHold
<1> QED BY <1>2, <1>6 DEF NoticesInv, WellKept

LEMMA CommitKeeps == ASSUME NoticesInv, Notices!Commit PROVE NoticesInv'
<1> DEFINE after == Notices!ShowProblem(Notices!TellNotice(Notices!TellError(Notices!Warn(ThisState))))
<1>1. Around /\ WellKept(ThisState) /\ made <= MaxToasts /\ visit <= MaxVisits
  BY DEF NoticesInv
<1>2. WellKept(Notices!Warn(ThisState))
  BY <1>1, WarnKeeps
<1>3. WellKept(Notices!TellError(Notices!Warn(ThisState)))
  BY <1>1, <1>2, TellErrorKeeps
<1>4. WellKept(Notices!TellNotice(Notices!TellError(Notices!Warn(ThisState))))
  BY <1>1, <1>3, TellNoticeKeeps
<1>5. WellKept(after)
  BY <1>1, <1>4, ShowProblemKeeps
<1>6. /\ toasts' = after.toasts /\ leaving' = after.removing
      /\ made' = after.made /\ view' = after.view /\ after.made <= MaxToasts
      /\ UNCHANGED <<network, problem, visit>>
  BY DEF Notices!Commit, ThisState
<1> HIDE DEF after
<1> QED BY <1>1, <1>5, <1>6, QueueStep

LEMMA LeavesKeeps ==
  ASSUME NoticesInv, NEW i \in DOMAIN toasts, Notices!Leaves(toasts[i].id) PROVE NoticesInv'
<1> DEFINE s == Notices!Dismiss(ThisState, toasts[i].id)
<1>1. Around /\ WellKept(ThisState) /\ made <= MaxToasts /\ visit <= MaxVisits
  BY DEF NoticesInv
<1>2. /\ ThisState.toasts = toasts /\ ThisState.made = made /\ ThisState.view = view
      /\ toasts \in Seq(Toasts) /\ made \in Nat
  BY <1>1 DEF ThisState, WellKept, Queue, States
<1>3. toasts[i].id \in 0..ThisState.made
  <2>1. i \in 1..Len(toasts)
    BY <1>2
  <2> QED BY <1>1, <1>2, <2>1 DEF WellKept, Queue, InOrder
<1>4. /\ Queue(s) /\ s.view = view /\ s.made = made
      /\ \A k \in Kinds : OpenOf(s, k) = OpenOf(ThisState, k) \ {toasts[i].id}
  BY <1>1, <1>2, <1>3, DismissIs DEF WellKept
<1>5. /\ toasts' = s.toasts /\ leaving' = s.removing
      /\ UNCHANGED <<made, network, problem, view, visit>>
  BY DEF Notices!Leaves, ThisState
<1> HIDE DEF s
<1>6. WellKept(s)
  <2>1. "lost" \in Kinds /\ "problem" \in Kinds
    BY DEF Kinds
  <2> QED BY <1>1, <1>2, <1>4, <2>1 DEF WellKept, RefsHold
<1>7. made' = s.made /\ view' = s.view /\ made' <= MaxToasts
  BY <1>1, <1>4, <1>5
<1> QED BY <1>1, <1>5, <1>6, <1>7, QueueStep

LEMMA OtherNoticeKeeps == ASSUME Notices!NoticesAssumption, NoticesInv, Notices!OtherNotice PROVE NoticesInv'
<1> DEFINE s == Put(ThisState, "other", 0, FALSE)
<1>1. Around /\ WellKept(ThisState) /\ made <= MaxToasts /\ visit <= MaxVisits
  BY DEF NoticesInv
<1>2. /\ ThisState.toasts = toasts /\ ThisState.made = made /\ ThisState.view = view
      /\ ThisState.removing = leaving /\ made \in Nat
  BY <1>1 DEF ThisState, WellKept, Queue, States
<1>3. /\ "other" \in Kinds /\ "lost" \in Kinds /\ "problem" \in Kinds
      /\ "lost" # "other" /\ "problem" # "other"
  BY DEF Kinds
<1>4. 0 \in Nat /\ 0 <= visit /\ FALSE \in BOOLEAN
  BY <1>1 DEF Around
<1>5. /\ Queue(s) /\ s.view = view /\ s.made = made + 1 /\ s.removing = leaving
      /\ s.toasts = Append(toasts, [id |-> made + 1, kind |-> "other", by |-> 0,
                                    sticky |-> FALSE, open |-> TRUE])
      /\ \A k \in Kinds : k # "other" => OpenOf(s, k) = OpenOf(ThisState, k)
  BY <1>1, <1>2, <1>3, <1>4, AppendIs DEF WellKept
<1> HIDE DEF s
<1>6. WellKept(s)
  BY <1>1, <1>2, <1>3, <1>5 DEF WellKept, RefsHold
<1>7. /\ toasts' = s.toasts /\ leaving' = s.removing /\ made' = s.made /\ view' = s.view
      /\ made' <= MaxToasts /\ UNCHANGED <<network, problem, visit>>
  <2>1. MaxToasts \in Nat
    BY DEF Notices!NoticesAssumption
  <2> QED BY <1>2, <1>5, <2>1 DEF Notices!OtherNotice
<1> QED BY <1>1, <1>6, <1>7, QueueStep

LEMMA RemoveKeeps ==
  ASSUME NoticesInv, NEW id \in 1..MaxToasts, Notices!removeNotification(id) PROVE NoticesInv'
<1> DEFINE s == [toasts |-> toasts', removing |-> leaving', made |-> made, view |-> view]
           n == Len(toasts)
<1>1. Around /\ WellKept(ThisState) /\ made <= MaxToasts /\ visit <= MaxVisits
  BY DEF NoticesInv
<1>2. /\ toasts \in Seq(Toasts) /\ made \in Nat /\ view \in Views /\ leaving \in SUBSET Nat
      /\ leaving \subseteq 1..made /\ view.lost <= made /\ view.card <= made
      /\ DOMAIN toasts = 1..n /\ n \in Nat
  BY <1>1 DEF ThisState, WellKept, Queue, States
<1>3. /\ \A i \in 1..n : /\ toasts[i] \in Toasts /\ toasts[i].id \in 1..made /\ toasts[i].by <= visit
                         /\ toasts[i].open \/ toasts[i].id \in leaving
      /\ \A i, j \in 1..n : i < j => toasts[i].id < toasts[j].id
  <2>1. /\ ThisState.toasts = toasts /\ ThisState.removing = leaving /\ ThisState.made = made
        /\ Queue(ThisState)
    BY <1>1 DEF ThisState, WellKept
  <2>2. \A i \in 1..n : toasts[i] \in Toasts
    BY <1>2
  <2>3. \A i \in 1..n : /\ toasts[i].id \in 1..made /\ toasts[i].by <= visit
                        /\ toasts[i].open \/ toasts[i].id \in leaving
    BY <1>2, <2>1 DEF Queue, InOrder
  <2>4. \A i, j \in 1..n : i < j => toasts[i].id < toasts[j].id
    BY <1>2, <2>1 DEF Queue, InOrder
  <2> QED BY <2>2, <2>3, <2>4
<1>4. PICK f \in [1..Len(toasts') -> 1..n] :
         /\ toasts' \in Seq(Toasts)
         /\ \A i \in 1..Len(toasts') : toasts'[i] = toasts[f[i]] /\ toasts[f[i]].id # id
         /\ \A i, j \in 1..Len(toasts') : i < j => f[i] < f[j]
  <2>1. CASE id \notin Notices!Ids
    <3>1. toasts' = toasts
      BY <2>1 DEF Notices!removeNotification
    <3>2. \A i \in 1..n : toasts[i].id # id
      BY <1>2, <2>1 DEF Notices!Ids
    <3> DEFINE g == [i \in 1..n |-> i]
    <3>3. g \in [1..Len(toasts') -> 1..n] /\ Len(toasts') = n
      BY <3>1
    <3>4. \A i \in 1..n : g[i] = i
      OBVIOUS
    <3> HIDE DEF g
    <3> QED BY <1>2, <3>1, <3>2, <3>3, <3>4
  <2>2. CASE id \in Notices!Ids
    <3> DEFINE p == CHOOSE i \in DOMAIN toasts : toasts[i].id = id
    <3>1. p \in 1..n /\ toasts[p].id = id
      BY <1>2, <2>2 DEF Notices!Ids
    <3>2. toasts' = SubSeq(toasts, 1, p - 1) \o SubSeq(toasts, p + 1, Len(toasts))
      BY <2>2 DEF Notices!removeNotification, Notices!RemoveAt
    <3> HIDE DEF p
    <3>3. /\ toasts' \in Seq(Toasts) /\ Len(toasts') = n - 1
          /\ \A i \in 1..(n - 1) : toasts'[i] = toasts[IF i < p THEN i ELSE i + 1]
      <4> DEFINE a == SubSeq(toasts, 1, p - 1)
                 b == SubSeq(toasts, p + 1, Len(toasts))
      <4>1. a \in Seq(Toasts) /\ Len(a) = p - 1 /\ \A i \in 1..(p - 1) : a[i] = toasts[i]
        BY <1>2, <3>1, SubSeqProperties
      <4>2. b \in Seq(Toasts) /\ Len(b) = n - p /\ \A i \in 1..(n - p) : b[i] = toasts[p + i]
        <5>1. n \in Nat /\ p \in Int /\ p + 1 \in Int /\ \A i \in (p + 1)..n : toasts[i] \in Toasts
          BY <1>2, <3>1
        <5>2. /\ b \in Seq(Toasts) /\ Len(b) = IF p + 1 <= n THEN n - (p + 1) + 1 ELSE 0
              /\ \A i \in 1..(n - (p + 1) + 1) : b[i] = toasts[p + 1 + i - 1]
          BY <5>1, SubSeqProperties
        <5>3. Len(b) = n - p
          BY <3>1, <5>1, <5>2
        <5>4. ASSUME NEW i \in 1..(n - p) PROVE b[i] = toasts[p + i]
          <6>1. p + 1 + i - 1 = p + i /\ i \in 1..(n - (p + 1) + 1)
            BY <3>1, <5>1
          <6> QED BY <5>2, <6>1
        <5> QED BY <5>2, <5>3, <5>4
      <4>3. toasts' = a \o b
        BY <3>2
      <4> HIDE DEF a, b, n
      <4>4. toasts' \in Seq(Toasts) /\ Len(toasts') = n - 1
        <5>1. a \o b \in Seq(Toasts) /\ Len(a \o b) = Len(a) + Len(b)
          BY <4>1, <4>2, ConcatProperties
        <5>2. n \in Nat /\ p \in 1..n
          BY <1>2, <3>1
        <5> QED BY <4>1, <4>2, <4>3, <5>1, <5>2
      <4>5. ASSUME NEW i \in 1..(n - 1)
            PROVE  toasts'[i] = toasts[IF i < p THEN i ELSE i + 1]
        <5>1. CASE i < p
          BY <1>2, <3>1, <4>1, <4>2, <4>3, <5>1, ConcatProperties
        <5>2. CASE ~(i < p)
          <6>1. toasts'[i] = b[i - (p - 1)]
            BY <1>2, <3>1, <4>1, <4>2, <4>3, <5>2, ConcatProperties
          <6>2. i - (p - 1) \in 1..(n - p) /\ p + (i - (p - 1)) = i + 1
            BY <1>2, <3>1, <5>2
          <6> QED BY <4>2, <5>2, <6>1, <6>2
        <5> QED BY <5>1, <5>2
      <4> QED BY <4>4, <4>5
    <3>4. \A i \in 1..n : i # p => toasts[i].id # id
      BY <1>2, <1>3, <3>1
    <3> DEFINE g == [i \in 1..(n - 1) |-> IF i < p THEN i ELSE i + 1]
    <3>5. g \in [1..(n - 1) -> 1..n]
      BY <1>2, <3>1
    <3>6. \A i \in 1..(n - 1) : g[i] # p
      BY <1>2, <3>1
    <3>7. \A i, j \in 1..(n - 1) : i < j => g[i] < g[j]
      BY <1>2, <3>1
    <3> QED BY <3>3, <3>4, <3>5, <3>6, <3>7
  <2> QED BY <2>1, <2>2
<1> DEFINE m == Len(toasts')
<1>5. /\ leaving' = leaving \ {id} /\ UNCHANGED <<made, network, problem, view, visit>>
  BY DEF Notices!removeNotification
<1>6. /\ s.toasts = toasts' /\ s.removing = leaving' /\ s.made = made /\ s.view = view
      /\ s \in States
  BY <1>2, <1>4, <1>5 DEF States
<1> HIDE DEF s, n
<1>7. InOrder(s)
  <2>1. ASSUME NEW i \in 1..m
        PROVE  /\ toasts'[i].id \in 1..made /\ toasts'[i].by <= visit
               /\ toasts'[i].open \/ toasts'[i].id \in leaving'
    BY <1>3, <1>4, <1>5
  <2>2. ASSUME NEW i \in 1..m, NEW j \in 1..m, i < j PROVE toasts'[i].id < toasts'[j].id
    BY <1>3, <1>4, <2>2
  <2> QED BY <1>6, <2>1, <2>2 DEF InOrder
<1>8. Queue(s)
  BY <1>2, <1>5, <1>6, <1>7 DEF Queue
<1>9. ASSUME NEW k, NEW x \in OpenOf(s, k) PROVE x \in OpenOf(ThisState, k)
  <2>1. PICK i \in 1..m : /\ toasts'[i].id = x /\ toasts'[i].kind = k
                          /\ toasts'[i].by = visit /\ toasts'[i].open
    BY <1>6, <1>9, InOpenOf
  <2>2. ThisState.toasts = toasts
    BY DEF ThisState
  <2> QED BY <1>4, <2>1, <2>2, InOpenOf DEF n
<1>10. WellKept(s)
  <2>1. ThisState.view = view
    BY DEF ThisState
  <2> QED BY <1>1, <1>6, <1>8, <1>9, <2>1 DEF WellKept, RefsHold
<1> QED BY <1>1, <1>5, <1>6, <1>10, QueueStep

LEMMA NoticesStep ==
  ASSUME Notices!NoticesAssumption, NoticesInv, Notices!Next \/ UNCHANGED noticeVars PROVE NoticesInv'
<1>1. network.notice.id \in Nat /\ visit \in Nat /\ Around
  BY DEF NoticesInv, Around
<1>2. CASE Notices!Commit
  BY <1>2, CommitKeeps
<1>3. CASE Notices!Restored
  <2> DEFINE new == [id |-> network.notice.id + 1, type |-> "restored"]
  <2>1. /\ network' = [network EXCEPT !.notice = new, !.error = FALSE]
        /\ UNCHANGED <<toasts, leaving, made, view, visit, problem>>
    BY <1>3 DEF Notices!Restored, Notices!Change
  <2>2. Around' /\ network'.notice = new
    <3>1. new \in [id : Nat, type : {"none", "lost", "failed", "restored"}] /\ new.id # 0
      BY <1>1
    <3> HIDE DEF new
    <3> QED BY <1>1, <2>1, <3>1 DEF Around
  <2>3. new.id = network.notice.id + 1
    OBVIOUS
  <2> QED BY <1>1, <2>1, <2>2, <2>3, NetworkStep
<1>4. CASE Notices!NoticeFades
  <2>1. /\ network' = [network EXCEPT !.notice.type = "none"]
        /\ UNCHANGED <<toasts, leaving, made, view, visit, problem>>
    BY <1>4 DEF Notices!NoticeFades
  <2>2. Around' /\ network'.notice.id = network.notice.id /\ network'.notice.type = "none"
    BY <1>1, <2>1 DEF Around
  <2> QED BY <1>1, <2>1, <2>2, NetworkStep
<1>5. CASE Notices!NetworkFlips
  <2>1. /\ network' = [network EXCEPT !.online = ~network.online]
        /\ UNCHANGED <<toasts, leaving, made, view, visit, problem>>
    BY <1>5 DEF Notices!NetworkFlips, Notices!Change
  <2>2. Around' /\ network'.notice = network.notice
    BY <1>1, <2>1 DEF Around
  <2> QED BY <1>1, <2>1, <2>2, NetworkStep
<1>6. CASE Notices!RoomKnown
  <2> DEFINE v == [view EXCEPT !.known = TRUE]
             s == [ThisState EXCEPT !.view = v]
  <2>1. /\ view \in Views /\ ThisState.view = view
    BY DEF NoticesInv, WellKept, Queue, States, ThisState
  <2>2. v \in Views /\ v.lost = view.lost /\ v.card = view.card /\ v.shown = view.shown
        /\ v.seen = view.seen
    BY <2>1 DEF Views
  <2>3. UNCHANGED <<toasts, leaving, made, network, problem, visit>> /\ view' = v
    BY <1>6 DEF Notices!RoomKnown
  <2> HIDE DEF v
  <2>4. WellKept(s)
    BY <1>1, <2>1, <2>2, SmallView DEF NoticesInv
  <2>5. /\ s.view = v /\ s.toasts = toasts /\ s.made = made /\ s.removing = leaving
    BY DEF ThisState
  <2>6. made <= MaxToasts /\ visit <= MaxVisits
    BY DEF NoticesInv
  <2> HIDE DEF s
  <2> QED BY <1>1, <2>3, <2>4, <2>5, <2>6, QueueStep
<1>7. CASE Notices!Enter
  <2>1. /\ visit' = visit + 1 /\ view' = Notices!Fresh /\ problem' = "none" /\ visit < MaxVisits
        /\ UNCHANGED <<toasts, leaving, made, network>>
    BY <1>7 DEF Notices!Enter
  <2>2. Around' /\ MaxVisits \in Nat
    BY <1>1, <2>1 DEF Around, Notices!Problems, Notices!NoticesAssumption
  <2>3. ThisState' = [ThisState EXCEPT !.view = Notices!Fresh] /\ ThisState.toasts = toasts
    BY <2>1 DEF ThisState
  <2>4. /\ Notices!Fresh \in Views /\ Notices!Fresh.lost = 0 /\ Notices!Fresh.card = 0 /\ Notices!Fresh.seen = 0 /\ Notices!Fresh.shown = "none"
    BY DEF Notices!Fresh, Views, Notices!Problems
  <2>5. /\ ThisState \in States /\ InOrder(ThisState) /\ leaving \subseteq 1..made /\ made \in Nat
    BY DEF NoticesInv, WellKept, Queue, States, ThisState
  <2>6. /\ ThisState' \in States /\ (ThisState').toasts = toasts /\ (ThisState').removing = leaving
        /\ (ThisState').made = made /\ (ThisState').view = Notices!Fresh
    BY <2>1, <2>3, <2>4, <2>5 DEF States, ThisState
  <2>7. ASSUME NEW i \in 1..Len(toasts) PROVE toasts[i].by \in Nat /\ toasts[i].by <= visit
    <3>1. toasts \in Seq(Toasts)
      BY <2>3, <2>5 DEF States
    <3>2. toasts[i] \in Toasts
      BY <3>1
    <3> QED BY <2>3, <2>5, <3>2 DEF InOrder, Toasts
  <2>8. InOrder(ThisState)'
    BY <1>1, <2>1, <2>5, <2>6, <2>7 DEF InOrder, ThisState
  <2>9. Queue(ThisState)'
    BY <2>1, <2>4, <2>5, <2>6, <2>8 DEF Queue
  <2>10. \A k : OpenOf(ThisState, k)' = {}
    BY <1>1, <2>1, <2>6, <2>7 DEF OpenOf
  <2>11. RefsHold(ThisState)'
    BY <1>1, <2>2, <2>4, <2>6, <2>10 DEF RefsHold, Around
  <2> QED BY <1>1, <2>1, <2>2, <2>9, <2>11 DEF NoticesInv, WellKept
<1>8. CASE Notices!OtherNotice
  BY <1>8, OtherNoticeKeeps
<1>9. ASSUME NEW type \in {"lost", "failed"}, Notices!Lost(type) PROVE NoticesInv'
  <2> DEFINE new == [id |-> network.notice.id + 1, type |-> type]
  <2>1. /\ network' = [network EXCEPT !.notice = new, !.error = (type = "failed")]
        /\ UNCHANGED <<toasts, leaving, made, view, visit, problem>>
    BY <1>9 DEF Notices!Lost, Notices!Change
  <2>2. Around' /\ network'.notice = new
    <3>1. new \in [id : Nat, type : {"none", "lost", "failed", "restored"}] /\ new.id # 0
      BY <1>1, <1>9
    <3> DEFINE e == (type = "failed")
    <3>2. e \in BOOLEAN
      BY Zenon
    <3>3. network' = [network EXCEPT !.notice = new, !.error = e]
      BY <2>1
    <3> HIDE DEF new, e
    <3> QED BY <1>1, <2>1, <3>1, <3>2, <3>3 DEF Around
  <2>3. new.id = network.notice.id + 1
    OBVIOUS
  <2> QED BY <1>1, <2>1, <2>2, <2>3, NetworkStep
<1>10. ASSUME NEW p \in Notices!Problems, Notices!ProblemChanges(p) PROVE NoticesInv'
  <2>1. problem' = p /\ UNCHANGED <<toasts, leaving, made, view, visit, network>>
    BY <1>10 DEF Notices!ProblemChanges, Notices!Change
  <2>2. Around'
    BY <1>1, <2>1 DEF Around
  <2> QED BY <1>1, <2>1, <2>2, NetworkStep
<1>11. ASSUME NEW i \in 1..MaxVisible, Notices!Expires(i) \/ Notices!CloseCard(i) PROVE NoticesInv'
  <2>1. i \in DOMAIN toasts /\ Notices!Leaves(toasts[i].id)
    BY <1>11 DEF Notices!Expires, Notices!CloseCard, Notices!Visible
  <2> QED BY <2>1, LeavesKeeps
<1>12. ASSUME NEW id \in 1..MaxToasts, Notices!removeNotification(id) PROVE NoticesInv'
  BY <1>12, RemoveKeeps
<1>13. CASE UNCHANGED noticeVars
  <2>1. UNCHANGED <<toasts, leaving, made, view, visit, problem, network>>
    BY <1>13 DEF noticeVars
  <2>2. Around'
    BY <1>1, <2>1 DEF Around
  <2> QED BY <1>1, <2>1, <2>2, NetworkStep
<1> QED
  BY <1>2, <1>3, <1>4, <1>5, <1>6, <1>7, <1>8, <1>9, <1>10, <1>11, <1>12, <1>13 DEF Notices!Next

LEMMA NoticesAre == ASSUME Notices!NoticesAssumption, NoticesInv PROVE Notices!SaysItOnce /\ Notices!NoticesTypeOK
<1>1. /\ toasts \in Seq(Toasts) /\ made \in Nat /\ view \in Views /\ leaving \subseteq 1..made
      /\ DOMAIN toasts = 1..Len(toasts) /\ made <= MaxToasts /\ MaxToasts \in Nat
  BY DEF NoticesInv, WellKept, Queue, States, ThisState, Notices!NoticesAssumption
<1>2. /\ \A i \in 1..Len(toasts) :
            /\ toasts[i] \in Toasts /\ toasts[i].id \in 1..made /\ toasts[i].by <= visit
            /\ toasts[i].open \/ toasts[i].id \in leaving
      /\ \A i, j \in 1..Len(toasts) : i < j => toasts[i].id < toasts[j].id
  BY <1>1 DEF NoticesInv, WellKept, Queue, InOrder, ThisState
<1>3. \A k : \A i \in Notices!Of(k) :
         i \in 1..Len(toasts) /\ toasts[i].id \in OpenOf(ThisState, k) /\ toasts[i].id \in 1..made
  BY <1>1, <1>2 DEF Notices!Of, OpenOf, ThisState
<1>4. /\ OpenOf(ThisState, "lost") \subseteq {view.lost}
      /\ OpenOf(ThisState, "problem") \subseteq {view.card}
      /\ view.shown = "none" => OpenOf(ThisState, "problem") = {}
      /\ network.notice.type = "restored" /\ view.seen = network.notice.id => view.lost = 0
  BY DEF NoticesInv, WellKept, RefsHold, ThisState
<1>5. ASSUME NEW k, NEW id, OpenOf(ThisState, k) \subseteq {id} PROVE Cardinality(Notices!Of(k)) <= 1
  <2>1. ASSUME NEW i \in Notices!Of(k), NEW j \in Notices!Of(k), i # j PROVE FALSE
    <3>1. /\ toasts[i].id = id /\ toasts[j].id = id /\ i \in 1..Len(toasts) /\ j \in 1..Len(toasts)
          /\ id \in 1..made
      BY <1>3, <1>5, <2>1
    <3>2. i < j \/ j < i
      BY <1>1, <2>1, <3>1
    <3>3. id < id
      BY <1>2, <3>1, <3>2
    <3> QED BY <1>1, <3>1, <3>3
  <2>2. CASE Notices!Of(k) = {}
    <3>1. Cardinality(Notices!Of(k)) = 0
      BY <2>2, FS_EmptySet
    <3> QED BY <3>1
  <2>3. ASSUME NEW i \in Notices!Of(k) PROVE Cardinality(Notices!Of(k)) <= 1
    <3>1. Notices!Of(k) = {i}
      BY <2>1, <2>3
    <3>2. Cardinality({i}) = 1
      BY FS_Singleton
    <3> QED BY <3>1, <3>2
  <2> QED BY <2>2, <2>3
<1>6. Notices!SaysItOnce
  <2>1. Notices!Cardinality(Notices!Of("lost")) <= 1 /\ Notices!Cardinality(Notices!Of("problem")) <= 1
    BY <1>4, <1>5, NoticesCount
  <2>2. network.notice.type = "restored" /\ view.seen = network.notice.id => Notices!Of("lost") = {}
    <3>1. ASSUME view.lost = 0, NEW i \in Notices!Of("lost") PROVE FALSE
      <4>1. toasts[i].id = view.lost /\ toasts[i].id \in 1..made
        BY <1>3, <1>4
      <4> QED BY <1>1, <3>1, <4>1
    <3> QED BY <1>4, <3>1
  <2>3. \A i \in Notices!Of("problem") : toasts[i].id = view.card /\ view.shown # "none"
    BY <1>3, <1>4
  <2> QED BY <1>1, <1>2, <2>1, <2>2, <2>3 DEF Notices!SaysItOnce
<1>7. Notices!NoticesTypeOK
  <2> DEFINE T == [id : 1..MaxToasts, kind : Kinds, by : 0..MaxVisits, sticky : BOOLEAN, open : BOOLEAN]
  <2>1. visit \in Nat /\ visit <= MaxVisits /\ problem \in Notices!Problems /\ MaxVisits \in Nat
    BY DEF NoticesInv, Around, Notices!NoticesAssumption
  <2>2. ASSUME NEW i \in 1..Len(toasts) PROVE toasts[i] \in T
    <3>1. toasts[i] \in Toasts /\ toasts[i].id \in 1..made /\ toasts[i].by <= visit
      BY <1>2
    <3>2. toasts[i].id \in 1..MaxToasts
      BY <1>1, <3>1
    <3>3. toasts[i].by \in 0..MaxVisits
      BY <2>1, <3>1 DEF Toasts
    <3> QED BY <3>1, <3>2, <3>3 DEF Toasts
  <2> HIDE DEF T
  <2>3. toasts \in [1..Len(toasts) -> T] /\ Len(toasts) \in Nat
    BY <1>1, <2>2
  <2>4. toasts \in Seq(T)
    BY <2>3
  <2>5. leaving \subseteq 1..MaxToasts /\ made \in 0..MaxToasts
    BY <1>1
  <2> QED BY <2>1, <2>4, <2>5 DEF Notices!NoticesTypeOK, Kinds, T
<1> QED BY <1>6, <1>7

-----------------------------------------------------------------------------
(* The session of the page: what its calls carry                            *)

Accounts == {"none"} \cup Users
Verdicts == [ok : BOOLEAN, user : Accounts, code : {"none", "required", "401", "400", "lost"}]
PageCalls == [kind : {"startup", "login", "confirm", "logout", "update", "entry"}, who : Accounts,
          page : BOOLEAN, alone : BOOLEAN, answer : Verdicts, stage : {"csrf", "sent", "answered"}]
Auths == [user : Accounts, loading : BOOLEAN, token : Accounts]
Modals == [open : BOOLEAN, submitting : BOOLEAN]

\* The calls under way: each is typed, and whoever signs in is somebody.
CallsOK(f) == \A c \in DOMAIN f : f[c] \in PageCalls /\ (f[c].kind = "login" => f[c].who \in Users)

SignInInv ==
    /\ session \in Accounts /\ challenge \in {"none"} \cup Guarded /\ path \in Page!Paths
    /\ auth \in Auths /\ modal \in Modals
    /\ calls = [c \in DOMAIN calls |-> calls[c]] /\ CallsOK(calls)
    /\ DOMAIN calls \subseteq 1..asked /\ asked \in 1..MaxCalls
    /\ inStep \in BOOLEAN

LEMMA SignInInit == ASSUME Page!SignInAssumption, Page!Init PROVE SignInInv
<1>1. Page!Unanswered \in Verdicts
  BY DEF Page!Unanswered, Verdicts, Accounts
<1>2. [kind |-> "startup", who |-> "none", page |-> TRUE, alone |-> TRUE,
       answer |-> Page!Unanswered, stage |-> "csrf"] \in PageCalls
  BY <1>1 DEF PageCalls, Accounts
<1>3. CallsOK(calls) /\ DOMAIN calls = {1} /\ calls = [c \in DOMAIN calls |-> calls[c]]
  BY <1>2 DEF Page!Init, CallsOK
<1>4. auth \in Auths /\ modal \in Modals
  BY DEF Page!Init, Auths, Modals, Page!Fresh, Page!Closed, Accounts
<1>5. MaxCalls \in Nat /\ 1 <= MaxCalls
  <2>1. MaxCalls \in Nat /\ MaxCalls # 0
    BY Zenon DEF Page!SignInAssumption
  <2> QED BY <2>1
<1>6. DOMAIN calls \subseteq 1..asked /\ asked \in 1..MaxCalls
  BY <1>3, <1>5 DEF Page!Init
<1>7. path \in Page!Paths /\ session \in Accounts /\ challenge = "none" /\ inStep = FALSE
  BY DEF Page!Init, Page!Paths, Accounts
<1> QED BY <1>3, <1>4, <1>6, <1>7 DEF SignInInv

\* The call that is made, and the others that are no longer alone.
LEMMA NewCallIs ==
  ASSUME NEW kind \in {"startup", "login", "confirm", "logout", "update", "entry"},
         NEW who \in Accounts, kind = "login" => who \in Users
  PROVE  /\ Page!NewCall(kind, who) \in PageCalls
         /\ Page!NewCall(kind, who).kind = "login" => Page!NewCall(kind, who).who \in Users
<1> DEFINE alone == (DOMAIN calls = {})
           stage == IF kind \in {"logout", "entry"} THEN "sent" ELSE "csrf"
<1>1. alone \in BOOLEAN
  BY Zenon
<1>2. Page!Unanswered \in Verdicts /\ stage \in {"csrf", "sent", "answered"}
  BY DEF Page!Unanswered, Verdicts, Accounts
<1>3. Page!NewCall(kind, who) = [kind |-> kind, who |-> who, page |-> TRUE, alone |-> alone,
                            answer |-> Page!Unanswered, stage |-> stage]
  BY DEF Page!NewCall
<1> HIDE DEF alone, stage
<1> QED BY <1>1, <1>2, <1>3 DEF PageCalls

LEMMA NotAlone ==
  ASSUME NEW one \in PageCalls
  PROVE  /\ [one EXCEPT !.alone = FALSE] \in PageCalls
         /\ [one EXCEPT !.alone = FALSE].kind = one.kind
         /\ [one EXCEPT !.alone = FALSE].who = one.who
BY DEF PageCalls

LEMMA OneMoreCall ==
  ASSUME SignInInv, Page!SignInAssumption, asked < MaxCalls, NEW one \in PageCalls,
         one.kind = "login" => one.who \in Users
  PROVE  /\ CallsOK(Page!With(one)) /\ DOMAIN Page!With(one) \subseteq 1..(asked + 1)
         /\ Page!With(one) = [c \in DOMAIN Page!With(one) |-> Page!With(one)[c]]
         /\ asked + 1 \in 1..MaxCalls
<1>1. asked \in Nat /\ MaxCalls \in Nat /\ DOMAIN calls \subseteq 1..asked
  <2>1. MaxCalls \in Nat
    BY DEF Page!SignInAssumption
  <2> QED BY <2>1 DEF SignInInv
<1>2. \A i \in DOMAIN calls : i # asked + 1
  BY <1>1
<1>3. \A i \in DOMAIN calls :
         /\ [calls[i] EXCEPT !.alone = FALSE] \in PageCalls
         /\ [calls[i] EXCEPT !.alone = FALSE].kind = "login" =>
               [calls[i] EXCEPT !.alone = FALSE].who \in Users
  BY NotAlone DEF SignInInv, CallsOK
<1>4. DOMAIN Page!With(one) = DOMAIN calls \cup {asked + 1}
  BY DEF Page!With
<1>5. Page!With(one)[asked + 1] = one
  BY DEF Page!With
<1>6. \A i \in DOMAIN calls : Page!With(one)[i] = [calls[i] EXCEPT !.alone = FALSE]
  BY <1>2 DEF Page!With
<1>7. CallsOK(Page!With(one))
  BY <1>3, <1>4, <1>5, <1>6 DEF CallsOK
<1>8. Page!With(one) = [c \in DOMAIN Page!With(one) |-> Page!With(one)[c]]
  BY DEF Page!With
<1> QED BY <1>1, <1>4, <1>7, <1>8 DEF SignInInv

LEMMA FewerCalls ==
  ASSUME SignInInv, NEW c PROVE
         /\ CallsOK(Page!Without(c)) /\ DOMAIN Page!Without(c) \subseteq 1..asked
         /\ Page!Without(c) = [i \in DOMAIN Page!Without(c) |-> Page!Without(c)[i]]
BY DEF SignInInv, CallsOK, Page!Without

\* A step of one call: its stage, its answer.
LEMMA CallMoves ==
  ASSUME SignInInv, NEW c \in DOMAIN calls, NEW stage \in {"csrf", "sent", "answered"},
         NEW answer \in Verdicts,
         calls' \in {[calls EXCEPT ![c].stage = stage],
                     [calls EXCEPT ![c].stage = stage, ![c].answer = answer]}
  PROVE  /\ CallsOK(calls') /\ DOMAIN calls' = DOMAIN calls
         /\ calls' = [i \in DOMAIN calls' |-> calls'[i]]
<1>1. calls[c] \in PageCalls /\ (calls[c].kind = "login" => calls[c].who \in Users)
  BY DEF SignInInv, CallsOK
<1>2. /\ DOMAIN calls' = DOMAIN calls /\ \A i \in DOMAIN calls : i # c => calls'[i] = calls[i]
      /\ calls' = [i \in DOMAIN calls' |-> calls'[i]]
  OBVIOUS
<1>3. /\ calls'[c] \in PageCalls /\ calls'[c].kind = calls[c].kind /\ calls'[c].who = calls[c].who
  BY <1>1 DEF PageCalls
<1> QED BY <1>1, <1>2, <1>3 DEF SignInInv, CallsOK

\* What a step leaves of the page, when its calls stay as they must.
CallsStay == /\ CallsOK(calls') /\ DOMAIN calls' \subseteq 1..asked' /\ asked' \in 1..MaxCalls
             /\ calls' = [c \in DOMAIN calls' |-> calls'[c]]

LEMMA NothingMade ==
  ASSUME SignInInv, UNCHANGED <<calls, asked>> PROVE CallsStay
BY DEF SignInInv, CallsStay, CallsOK

LEMMA OneMade ==
  ASSUME SignInInv, Page!SignInAssumption,
         NEW kind \in {"startup", "login", "confirm", "logout", "update", "entry"},
         NEW who \in Accounts, kind = "login" => who \in Users,
         asked < MaxCalls, asked' = asked + 1, calls' = Page!With(Page!NewCall(kind, who))
  PROVE  CallsStay
BY NewCallIs, OneMoreCall DEF CallsStay

LEMMA OneLess ==
  ASSUME SignInInv, NEW c, calls' = Page!Without(c), asked' = asked PROVE CallsStay
BY FewerCalls DEF CallsStay, SignInInv

LEMMA OneMoves ==
  ASSUME SignInInv, NEW c \in DOMAIN calls, NEW stage \in {"csrf", "sent", "answered"},
         NEW answer \in Verdicts,
         calls' \in {[calls EXCEPT ![c].stage = stage],
                     [calls EXCEPT ![c].stage = stage, ![c].answer = answer]},
         asked' = asked
  PROVE  CallsStay
BY CallMoves DEF CallsStay, SignInInv

LEMMA AfterAnswer ==
  ASSUME SignInInv, NEW one \in PageCalls, one.kind = "login" => one.who \in Users
  PROVE  /\ Page!AuthAfter(one) \in Auths /\ Page!ModalAfter(one) \in Modals /\ Page!PathAfter(one) \in Page!Paths
         /\ Page!Learns(one) \in BOOLEAN
<1>1. /\ auth \in Auths /\ modal \in Modals /\ path \in Page!Paths
      /\ one.answer.user \in Accounts /\ one.answer.ok \in BOOLEAN
  BY DEF SignInInv, PageCalls, Verdicts
<1>2. /\ Page!SignedOut \in Auths /\ Page!SignedIn(one.answer.user) \in Auths
      /\ [auth EXCEPT !.loading = FALSE] \in Auths /\ [auth EXCEPT !.user = one.answer.user] \in Auths
  BY <1>1 DEF Page!SignedOut, Page!SignedIn, Auths, Accounts
<1>3. Page!AuthAfter(one) \in Auths
  <2> HIDE DEF Auths
  <2> QED BY <1>1, <1>2 DEF Page!AuthAfter
<1>4. Page!PathAfter(one) \in Page!Paths
  BY <1>1 DEF Page!PathAfter, Page!Paths
<1>5. Page!ModalAfter(one) \in Modals
  <2> DEFINE left == (modal.open /\ ~one.answer.ok)
  <2>1. left \in BOOLEAN
    BY Zenon
  <2>2. [open |-> left, submitting |-> FALSE] \in Modals /\ [modal EXCEPT !.open = TRUE] \in Modals
    <3> HIDE DEF left
    <3> QED BY <1>1, <2>1 DEF Modals
  <2> QED BY <1>1, <2>2 DEF Page!ModalAfter
<1>6. Page!Learns(one) \in BOOLEAN
  BY Zenon DEF Page!Learns
<1> QED BY <1>3, <1>4, <1>5, <1>6

LEMMA SignInStep == ASSUME Page!SignInAssumption, SignInInv, Page!Next \/ UNCHANGED pageVars PROVE SignInInv'
<1>0. /\ session \in Accounts /\ challenge \in {"none"} \cup Guarded /\ path \in Page!Paths
      /\ auth \in Auths /\ modal \in Modals /\ inStep \in BOOLEAN
      /\ asked \in Nat /\ Guarded \subseteq Users
  <2>1. Guarded \subseteq Users
    BY DEF Page!SignInAssumption
  <2> QED BY <2>1 DEF SignInInv
<1>a. /\ Page!Fresh \in Auths /\ Page!Closed \in Modals
  BY DEF Page!Fresh, Page!Closed, Auths, Modals, Accounts
<1>1. ASSUME NEW who \in Users, Page!SubmitForm(who) PROVE SignInInv'
  <2>1. CallsStay
    BY <1>1, OneMade DEF Page!SubmitForm, Page!Make, Accounts
  <2> QED BY <1>0, <1>1, <2>1 DEF Page!SubmitForm, Page!Make, CallsStay, SignInInv
<1>2. CASE Page!SubmitCode
  <2>1. CallsStay
    BY <1>2, OneMade DEF Page!SubmitCode, Page!Make, Accounts
  <2>2. modal' \in Modals
    BY <1>0, <1>2 DEF Page!SubmitCode, Modals
  <2> QED BY <1>0, <1>2, <2>1, <2>2 DEF Page!SubmitCode, Page!Make, CallsStay, SignInInv
<1>3. CASE Page!CloseModal
  <2>1. CallsStay
    BY <1>3, NothingMade DEF Page!CloseModal
  <2>2. modal' \in Modals
    BY <1>0, <1>3 DEF Page!CloseModal, Modals
  <2> QED BY <1>0, <1>3, <2>1, <2>2 DEF Page!CloseModal, CallsStay, SignInInv
<1>4. CASE Page!Logout
  <2>1. CallsStay
    BY <1>4, OneMade DEF Page!Logout, Page!Make, Accounts
  <2> QED BY <1>0, <1>4, <2>1 DEF Page!Logout, Page!Make, CallsStay, SignInInv
<1>5. CASE Page!SaveProfile
  <2>1. auth.user \in Accounts
    BY <1>0 DEF Auths
  <2>2. CallsStay
    BY <1>5, <2>1, OneMade DEF Page!SaveProfile, Page!Make
  <2> QED BY <1>0, <1>5, <2>2 DEF Page!SaveProfile, Page!Make, CallsStay, SignInInv
<1>6. CASE Page!Enter
  <2>1. CallsStay
    BY <1>6, OneMade DEF Page!Enter, Page!Make, Accounts
  <2> QED BY <1>0, <1>6, <2>1 DEF Page!Enter, Page!Make, CallsStay, SignInInv
<1>7. ASSUME NEW next \in Page!Paths, Page!Navigate(next) PROVE SignInInv'
  <2>1. CASE next = "/"
    <3> DEFINE off(i) == [calls[i] EXCEPT !.page = (calls[i].page /\ calls[i].kind = "entry")]
    <3>1. ASSUME NEW i \in DOMAIN calls
          PROVE  off(i) \in PageCalls /\ (off(i).kind = "login" => off(i).who \in Users)
      <4> DEFINE p == (calls[i].page /\ calls[i].kind = "entry")
                 one == [calls[i] EXCEPT !.page = p]
      <4>1. p \in BOOLEAN
        BY Zenon
      <4>2. calls[i] \in PageCalls /\ (calls[i].kind = "login" => calls[i].who \in Users)
        BY DEF SignInInv, CallsOK
      <4>3. one \in PageCalls /\ (one.kind = "login" => one.who \in Users)
        <5> HIDE DEF p
        <5> QED BY <4>1, <4>2 DEF PageCalls
      <4>4. off(i) = one
        OBVIOUS
      <4> HIDE DEF off, one
      <4> QED BY <4>3, <4>4
    <3>2. calls' = Page!Orphaned /\ asked' = asked
      BY <1>7, <2>1 DEF Page!Navigate
    <3>3. CallsOK(calls') /\ DOMAIN calls' = DOMAIN calls /\ calls' = [c \in DOMAIN calls' |-> calls'[c]]
      <4>1. \A i \in DOMAIN calls : Page!Orphaned[i] = off(i)
        BY DEF Page!Orphaned
      <4>2. DOMAIN Page!Orphaned = DOMAIN calls /\ Page!Orphaned = [c \in DOMAIN Page!Orphaned |-> Page!Orphaned[c]]
        BY DEF Page!Orphaned
      <4> HIDE DEF off
      <4> QED BY <3>1, <3>2, <4>1, <4>2 DEF CallsOK
    <3>4. CallsStay
      BY <3>2, <3>3 DEF CallsStay, SignInInv
    <3>5. auth' = Page!Fresh /\ modal' = Page!Closed /\ path' = next /\ UNCHANGED <<inStep, session, challenge>>
      BY <1>7, <2>1 DEF Page!Navigate
    <3> QED BY <1>0, <1>a, <1>7, <3>4, <3>5 DEF CallsStay, SignInInv
  <2>2. CASE next # "/" /\ path = "/"
    <3>1. Page!Remount /\ path' = next /\ UNCHANGED <<session, challenge>>
      BY <1>7, <2>2 DEF Page!Navigate, Page!Arrive
    <3>2. CallsStay
      BY <3>1, OneMade DEF Page!Remount, Accounts
    <3> QED BY <1>0, <1>a, <1>7, <3>1, <3>2 DEF Page!Remount, CallsStay, SignInInv
  <2>3. CASE next # "/" /\ path # "/"
    <3>1. path' = next /\ UNCHANGED <<session, challenge, calls, asked, inStep, auth, modal>>
      BY <1>7, <2>3 DEF Page!Navigate, Page!Arrive
    <3>2. CallsStay
      BY <3>1, NothingMade
    <3> QED BY <1>0, <1>7, <3>1, <3>2 DEF CallsStay, SignInInv
  <2> QED BY <2>1, <2>2, <2>3
<1>8. ASSUME NEW c \in DOMAIN calls, Page!CsrfArrives(c) PROVE SignInInv'
  <2>1. Page!Unanswered \in Verdicts
    BY DEF Page!Unanswered, Verdicts, Accounts
  <2>2. CallsStay
    BY <1>8, <2>1, OneMoves DEF Page!CsrfArrives
  <2> QED BY <1>0, <1>8, <2>2 DEF Page!CsrfArrives, CallsStay, SignInInv
<1>9. ASSUME NEW c \in DOMAIN calls, Page!CsrfFails(c) PROVE SignInInv'
  <2>1. Page!Unanswered \in Verdicts
    BY DEF Page!Unanswered, Verdicts, Accounts
  <2>2. CallsStay
    <3>1. CASE calls[c].kind = "startup"
      BY <1>9, <2>1, <3>1, OneMoves DEF Page!CsrfFails
    <3>2. CASE calls[c].kind # "startup"
      BY <1>9, <3>2, OneLess DEF Page!CsrfFails
    <3> QED BY <3>1, <3>2
  <2>3. modal' \in Modals
    BY <1>0, <1>9 DEF Page!CsrfFails, Modals
  <2> QED BY <1>0, <1>9, <2>2, <2>3 DEF Page!CsrfFails, CallsStay, SignInInv
<1>10. ASSUME NEW c \in DOMAIN calls, Page!Handled(c) PROVE SignInInv'
  <2>1. calls[c] \in PageCalls /\ (calls[c].kind = "login" => calls[c].who \in Users)
    BY DEF SignInInv, CallsOK
  <2>2. PICK user \in Accounts, code \in {"none", "required", "401"}, ok \in BOOLEAN :
           Page!Answered(c, user, code, ok)
    BY <1>0, <1>10, <2>1 DEF Page!Handled, PageCalls, Accounts
  <2>3. [ok |-> ok, user |-> user, code |-> code] \in Verdicts
    BY DEF Verdicts
  <2>4. CallsStay
    BY <1>10, <2>2, <2>3, OneMoves DEF Page!Answered, Page!Handled
  <2>5. session' \in Accounts /\ challenge' \in {"none"} \cup Guarded
    BY <1>0, <1>10, <2>1 DEF Page!Handled, PageCalls, Accounts
  <2>6. UNCHANGED <<path, auth, modal, asked, inStep>>
    BY <1>10 DEF Page!Handled
  <2> QED BY <1>0, <2>4, <2>5, <2>6 DEF CallsStay, SignInInv
<1>11. ASSUME NEW c \in DOMAIN calls, Page!Refused(c) PROVE SignInInv'
  <2>1. [ok |-> FALSE, user |-> "none", code |-> "400"] \in Verdicts
    BY DEF Verdicts, Accounts
  <2>2. CallsStay
    BY <1>11, <2>1, OneMoves DEF Page!Refused, Page!Answered
  <2> QED BY <1>0, <1>11, <2>2 DEF Page!Refused, CallsStay, SignInInv
<1>12. ASSUME NEW c \in DOMAIN calls, Page!Lost(c) PROVE SignInInv'
  <2>1. [ok |-> FALSE, user |-> "none", code |-> "lost"] \in Verdicts
    BY DEF Verdicts, Accounts
  <2>2. CallsStay
    BY <1>12, <2>1, OneMoves DEF Page!Lost
  <2> QED BY <1>0, <1>12, <2>2 DEF Page!Lost, CallsStay, SignInInv
<1>13. ASSUME NEW c \in DOMAIN calls, Page!AnswerArrives(c) PROVE SignInInv'
  <2>1. calls[c] \in PageCalls /\ (calls[c].kind = "login" => calls[c].who \in Users)
    BY DEF SignInInv, CallsOK
  <2>2. /\ Page!AuthAfter(calls[c]) \in Auths /\ Page!ModalAfter(calls[c]) \in Modals
        /\ Page!PathAfter(calls[c]) \in Page!Paths /\ Page!Learns(calls[c]) \in BOOLEAN
    BY <2>1, AfterAnswer
  <2>3. path' = Page!PathAfter(calls[c]) /\ UNCHANGED <<session, challenge>>
    BY <1>13 DEF Page!AnswerArrives
  <2>4. CASE calls[c].page /\ path # "/"
    <3>1. /\ calls' = Page!Without(c) /\ asked' = asked /\ auth' = Page!AuthAfter(calls[c])
          /\ modal' = Page!ModalAfter(calls[c]) /\ inStep' = Page!Learns(calls[c])
      BY <1>13, <2>4 DEF Page!AnswerArrives
    <3>2. CallsStay
      BY <3>1, OneLess
    <3> QED BY <1>0, <2>2, <2>3, <3>1, <3>2 DEF CallsStay, SignInInv
  <2>5. CASE ~(calls[c].page /\ path # "/") /\ path = "/" /\ path' # "/"
    <3> DEFINE last == (DOMAIN calls = {c})
               new == [Page!NewCall("startup", "none") EXCEPT !.alone = last]
               rest == [i \in (DOMAIN calls \ {c}) \cup {asked + 1} |->
                          IF i = asked + 1 THEN new ELSE [calls[i] EXCEPT !.alone = FALSE]]
    <3>1. /\ asked < MaxCalls /\ asked' = asked + 1 /\ calls' = rest
          /\ auth' = Page!Fresh /\ modal' = Page!Closed /\ inStep' = FALSE
      BY <1>13, <2>5 DEF Page!AnswerArrives
    <3>2. last \in BOOLEAN
      BY Zenon
    <3> HIDE DEF last
    <3>3. Page!NewCall("startup", "none") \in PageCalls /\ Page!NewCall("startup", "none").kind = "startup"
      <4>1. Page!NewCall("startup", "none") \in PageCalls
        BY NewCallIs DEF Accounts
      <4> QED BY <4>1 DEF Page!NewCall
    <3>4. new \in PageCalls /\ new.kind = "startup"
      BY <3>2, <3>3 DEF PageCalls
    <3> HIDE DEF new
    <3>5. \A i \in DOMAIN calls :
            /\ [calls[i] EXCEPT !.alone = FALSE] \in PageCalls
            /\ [calls[i] EXCEPT !.alone = FALSE].kind = "login" =>
                  [calls[i] EXCEPT !.alone = FALSE].who \in Users
      BY NotAlone DEF SignInInv, CallsOK
    <3>6. /\ DOMAIN rest = (DOMAIN calls \ {c}) \cup {asked + 1} /\ rest[asked + 1] = new
          /\ \A i \in DOMAIN calls \ {c} : i # asked + 1 => rest[i] = [calls[i] EXCEPT !.alone = FALSE]
          /\ rest = [i \in DOMAIN rest |-> rest[i]]
      OBVIOUS
    <3> HIDE DEF rest
    <3>7. CallsOK(rest)
      BY <3>4, <3>5, <3>6 DEF CallsOK
    <3>8. DOMAIN rest \subseteq 1..(asked + 1) /\ asked + 1 \in 1..MaxCalls
      <4>1. MaxCalls \in Nat
        BY DEF Page!SignInAssumption
      <4>2. DOMAIN calls \subseteq 1..asked
        BY DEF SignInInv
      <4> QED BY <1>0, <3>1, <3>6, <4>1, <4>2
    <3>9. CallsStay
      BY <3>1, <3>6, <3>7, <3>8 DEF CallsStay
    <3> QED BY <1>0, <1>a, <2>2, <2>3, <3>1, <3>9 DEF CallsStay, SignInInv
  <2>6. CASE ~(calls[c].page /\ path # "/") /\ ~(path = "/" /\ path' # "/")
    <3>1. calls' = Page!Without(c) /\ inStep' = FALSE /\ UNCHANGED <<asked, auth, modal>>
      BY <1>13, <2>6 DEF Page!AnswerArrives
    <3>2. CallsStay
      BY <3>1, OneLess
    <3> QED BY <1>0, <2>2, <2>3, <3>1, <3>2 DEF CallsStay, SignInInv
  <2> QED BY <2>4, <2>5, <2>6
<1>14. CASE Page!SessionEnds
  <2>1. \A i \in DOMAIN calls :
          /\ [calls[i] EXCEPT !.alone = FALSE] \in PageCalls
          /\ [calls[i] EXCEPT !.alone = FALSE].kind = "login" =>
                [calls[i] EXCEPT !.alone = FALSE].who \in Users
    BY NotAlone DEF SignInInv, CallsOK
  <2>2. /\ DOMAIN calls' = DOMAIN calls /\ calls' = [i \in DOMAIN calls' |-> calls'[i]]
        /\ \A i \in DOMAIN calls : calls'[i] = [calls[i] EXCEPT !.alone = FALSE]
        /\ UNCHANGED <<challenge, path, auth, modal, asked>> /\ session' = "none" /\ inStep' = FALSE
    BY <1>14 DEF Page!SessionEnds
  <2>3. CallsOK(calls')
    BY <2>1, <2>2 DEF CallsOK
  <2> QED BY <1>0, <2>2, <2>3 DEF SignInInv, Accounts
<1>15. CASE UNCHANGED pageVars
  BY <1>15 DEF pageVars, SignInInv, CallsOK
<1> QED
  BY <1>1, <1>2, <1>3, <1>4, <1>5, <1>6, <1>7, <1>8, <1>9, <1>10, <1>11, <1>12, <1>13, <1>14,
     <1>15 DEF Page!Next

LEMMA SignInIs == ASSUME SignInInv PROVE Page!SignInTypeOK
BY DEF SignInInv, Page!SignInTypeOK, Auths, Modals, Accounts

-----------------------------------------------------------------------------
(* The run                                                                 *)

\* Each machine moves as it does alone, or rests.
LEMMA OneMachineMoves ==
  ASSUME [MCNext]_allVars
  PROVE  /\ Composer!Next \/ UNCHANGED composerVars
         /\ Screen!TypingNext \/ UNCHANGED screenVars
         /\ Notices!Next \/ UNCHANGED noticeVars
         /\ Page!Next \/ UNCHANGED pageVars
BY DEF MCNext, allVars

LEMMA ComposerIsSound == MCSpec => []ComposerInv
<1>1. MCInit => ComposerInv
  BY ComposerConstants, ComposerInit DEF MCInit
<1>2. ComposerInv /\ [MCNext]_allVars => ComposerInv'
  BY ComposerConstants, OneMachineMoves, ComposerStep
<1> QED BY <1>1, <1>2, PTL DEF MCSpec

LEMMA ScreenIsSound == MCSpec => []LineInv
<1>1. MCInit => LineInv
  BY TypingLineInit DEF MCInit
<1>2. LineInv /\ [MCNext]_allVars => LineInv'
  BY OneMachineMoves, TypingLineStep
<1> QED BY <1>1, <1>2, PTL DEF MCSpec

LEMMA NoticesIsSound == MCSpec => []NoticesInv
<1>1. MCInit => NoticesInv
  BY NoticesConstants, NoticesInit DEF MCInit
<1>2. NoticesInv /\ [MCNext]_allVars => NoticesInv'
  BY NoticesConstants, OneMachineMoves, NoticesStep
<1> QED BY <1>1, <1>2, PTL DEF MCSpec

LEMMA SignInIsSound == MCSpec => []SignInInv
<1>1. MCInit => SignInInv
  <2>1. PageIsLeft => SignInInv
    <3> SUFFICES ASSUME PageIsLeft PROVE SignInInv
      OBVIOUS
    <3>1. MaxCalls \in Nat /\ 1 <= MaxCalls
      <4>1. MaxCalls \in Nat /\ MaxCalls # 0
        BY PageConstants, Zenon DEF Page!SignInAssumption
      <4> QED BY <4>1
    <3>2. auth \in Auths /\ modal \in Modals /\ session \in Accounts /\ path \in Page!Paths
      BY DEF PageIsLeft, Page!SignedOut, Page!Closed, Auths, Modals, Accounts, Page!Paths
    <3>3. DOMAIN calls = {} /\ calls = [c \in DOMAIN calls |-> calls[c]] /\ asked = 1
          /\ challenge = "none" /\ inStep = FALSE
      BY DEF PageIsLeft
    <3>4. CallsOK(calls) /\ DOMAIN calls \subseteq 1..asked /\ asked \in 1..MaxCalls
      BY <3>1, <3>3 DEF CallsOK
    <3>5. inStep \in BOOLEAN /\ challenge \in {"none"} \cup Guarded
      BY <3>3
    <3> QED BY <3>2, <3>3, <3>4, <3>5 DEF SignInInv
  <2> QED BY <2>1, PageConstants, SignInInit DEF MCInit
<1>2. SignInInv /\ [MCNext]_allVars => SignInInv'
  BY PageConstants, OneMachineMoves, SignInStep
<1> QED BY <1>1, <1>2, PTL DEF MCSpec

\* A message to be sent has one meaning and no more files than it may have,
\* what the page says of its connection it says once, and nobody is shown as
\* typing who does not.
THEOREM PageStaysHonest == MCSpec => []PageIsHonest
<1>1. ComposerInv /\ NoticesInv /\ LineInv => PageIsHonest
  BY ComposerIs, NoticesAre, TypingLineIs, NoticesConstants, ScreenConstants DEF PageIsHonest
<1> QED BY <1>1, ComposerIsSound, NoticesIsSound, ScreenIsSound, PTL

\* Each of the six machines keeps the types of its variables.
THEOREM TypesStayCorrect == MCSpec => []TypesOK
<1>1. ASSUME SocketInv, UploadInv, ComposerInv, NoticesInv, LineInv, SignInInv PROVE TypesOK
  <2>1. TypeOK
    BY <1>1 DEF SocketInv
  <2>2. Upload!TypeOK
    BY <1>1, UploadInvHolds
  <2>3. Composer!TypeOK
    BY <1>1, ComposerIs
  <2>4. Notices!NoticesTypeOK
    BY <1>1, NoticesAre, NoticesConstants
  <2>5. Screen!ScreenTypeOK
    BY <1>1, TypingLineIs, ScreenConstants
  <2>6. Page!SignInTypeOK
    BY <1>1, SignInIs
  <2> QED BY <2>1, <2>2, <2>3, <2>4, <2>5, <2>6 DEF TypesOK
<1>2. MCSpec => []SocketInv
  BY SocketIsSound
<1> QED
  BY <1>1, <1>2, UploadIsSound, ComposerIsSound, NoticesIsSound, ScreenIsSound, SignInIsSound, PTL
=============================================================================
