----------------------------- MODULE RoomNotices -----------------------------
(***************************************************************************)
(* The notices in the corner of the screen and the room page that puts some *)
(* of them there: the warning of a lost network, the error of the socket,   *)
(* the sticky "connection lost" that only "restored" takes away, and the    *)
(* error of the room.  The page remembers in refs what it has said; it dies *)
(* with them when the user goes to another room, the notices stay.          *)
(***************************************************************************)
EXTENDS Naturals, Sequences, SequencesExt, FiniteSets, TLC

CONSTANTS MaxVisible, \* MAX_VISIBLE_NOTIFICATIONS
          MaxToasts,  \* bound: notices issued in a run
          MaxVisits, MaxChanges \* bounds: rooms entered, changes of the connection
NoticesAssumption == MaxVisible \in Nat \ {0} /\ MaxToasts \in Nat /\ MaxVisits \in Nat

VARIABLES toasts,   \* [id, kind, by, sticky, open], the oldest first
          removing, \* the notices whose exit animation has a timer
          made,     \* identifiers given so far
          network,  \* [online, notice: [id, type], error], as the page gets them
          problem,  \* visibleError
          view,     \* the refs of the mounted page
          visit,    \* which visit this is; 0: no room is open
          changes
noticeVars == <<toasts, removing, made, network, problem, view, visit, changes>>

Problems == {"none", "lost", "full"}
Fresh == [known |-> FALSE, warned |-> FALSE, told |-> FALSE, seen |-> 0, lost |-> 0,
          shown |-> "none", card |-> 0]

Init ==
    /\ toasts = <<>> /\ removing = {} /\ made = 0
    /\ network = [online |-> TRUE, notice |-> [id |-> 0, type |-> "none"], error |-> FALSE]
    /\ problem = "none" /\ view = Fresh /\ visit = 0 /\ changes = 0

Ids == {toasts[i].id : i \in DOMAIN toasts}
IsOpen(id) == \E i \in DOMAIN toasts : toasts[i].id = id /\ toasts[i].open

-----------------------------------------------------------------------------
\* The queue: a step of it is taken from and to [toasts, removing, made, view].
Dismiss_Fault(s, id) ==
    IF id = 0 THEN s
    ELSE [s EXCEPT !.toasts = [i \in DOMAIN @ |->
                                 IF @[i].id = id THEN [@[i] EXCEPT !.open = FALSE] ELSE @[i]]]
Dismiss(s, id) ==
    IF id = 0 THEN s
    ELSE [s EXCEPT !.toasts = [i \in DOMAIN @ |->
                                 IF @[i].id = id THEN [@[i] EXCEPT !.open = FALSE] ELSE @[i]],
                   !.removing = @ \cup {id}]
Notify(s, kind, sticky) ==
    [s EXCEPT !.made = @ + 1,
              !.toasts = Append(@, [id |-> s.made + 1, kind |-> kind, by |-> visit,
                                    sticky |-> sticky, open |-> TRUE])]

\* The effects of the page, in their order; each has a ref against saying it twice.
Warn(s) ==
    IF network.online THEN [s EXCEPT !.view.warned = FALSE]
    ELSE IF s.view.warned THEN s
    ELSE [Notify(s, "warning", FALSE) EXCEPT !.view.warned = TRUE]

TellError(s) ==
    IF ~(network.error /\ view.known) THEN [s EXCEPT !.view.told = FALSE]
    ELSE IF s.view.told THEN s
    ELSE [Notify(s, "trouble", FALSE) EXCEPT !.view.told = TRUE]

\* useChatRealtimeRoom: a page that does not know its room yet is shown no notice.
Notice == IF view.known THEN network.notice ELSE [id |-> 0, type |-> "none"]
TellNotice_Fault(s) ==
    LET seen == [s EXCEPT !.view.seen = Notice.id]
    IN  CASE Notice.type = "none" -> [s EXCEPT !.view.seen = 0]
          [] Notice.type # "none" /\ s.view.seen = Notice.id -> s
          [] Notice.type = "lost" /\ s.view.seen # Notice.id ->
               [Notify(seen, "lost", TRUE) EXCEPT !.view.lost = s.made + 1]
          [] Notice.type = "restored" /\ s.view.seen # Notice.id ->
               Notify([Dismiss(seen, s.view.lost) EXCEPT !.view.lost = 0], "restored", FALSE)
          [] Notice.type = "failed" /\ s.view.seen # Notice.id -> Notify(seen, "failed", FALSE)
TellNotice(s) ==
    LET seen == [s EXCEPT !.view.seen = Notice.id]
    IN  CASE Notice.type = "none" -> [s EXCEPT !.view.seen = 0]
          [] Notice.type # "none" /\ s.view.seen = Notice.id -> s
          [] Notice.type = "lost" /\ s.view.seen # Notice.id ->
               [Notify(Dismiss(seen, s.view.lost), "lost", TRUE) EXCEPT !.view.lost = s.made + 1]
          [] Notice.type = "restored" /\ s.view.seen # Notice.id ->
               Notify([Dismiss(seen, s.view.lost) EXCEPT !.view.lost = 0], "restored", FALSE)
          [] Notice.type = "failed" /\ s.view.seen # Notice.id -> Notify(seen, "failed", FALSE)

ShowProblem(s) ==
    LET dismissed == Dismiss(s, s.view.card)
    IN  CASE problem = "none" -> [dismissed EXCEPT !.view.shown = "none", !.view.card = 0]
          [] problem # "none" /\ s.view.shown = problem -> s
          [] problem # "none" /\ s.view.shown # problem ->
               [Notify(dismissed, "problem", FALSE) EXCEPT !.view.shown = problem,
                                                           !.view.card = s.made + 1]

\* A render of the page and the effects of what has changed since the last one.
Commit ==
    LET before == [toasts |-> toasts, removing |-> removing, made |-> made, view |-> view]
        after == ShowProblem(TellNotice(TellError(Warn(before))))
    IN  /\ visit > 0 /\ after # before /\ after.made =< MaxToasts
        /\ toasts' = after.toasts /\ removing' = after.removing
        /\ made' = after.made /\ view' = after.view
        /\ UNCHANGED <<network, problem, visit, changes>>

-----------------------------------------------------------------------------
\* What the page is told.
Change == changes < MaxChanges /\ changes' = changes + 1 /\ UNCHANGED <<toasts, removing, made, view, visit>>

Lost(type) ==
    /\ Change /\ network.notice.type # type /\ type \in {"lost", "failed"}
    /\ network' = [network EXCEPT !.notice = [id |-> @.id + 1, type |-> type], !.error = (type = "failed")]
    /\ UNCHANGED problem
Restored ==
    /\ Change /\ network.notice.type \in {"lost", "failed"}
    /\ network' = [network EXCEPT !.notice = [id |-> @.id + 1, type |-> "restored"], !.error = FALSE]
    /\ UNCHANGED problem
NoticeFades ==
    /\ network.notice.type = "restored"
    /\ network' = [network EXCEPT !.notice.type = "none"]
    /\ UNCHANGED <<toasts, removing, made, problem, view, visit, changes>>
NetworkFlips ==
    /\ Change /\ network' = [network EXCEPT !.online = ~@] /\ UNCHANGED problem
ProblemChanges(p) ==
    /\ Change /\ visit > 0 /\ p # problem /\ problem' = p /\ UNCHANGED network
RoomKnown ==
    /\ visit > 0 /\ ~view.known /\ view' = [view EXCEPT !.known = TRUE]
    /\ UNCHANGED <<toasts, removing, made, network, problem, visit, changes>>

\* The page is keyed by the room: its refs go with it, and nothing is dismissed.
Enter ==
    /\ visit < MaxVisits
    /\ visit' = visit + 1 /\ view' = Fresh /\ problem' = "none"
    /\ UNCHANGED <<toasts, removing, made, network, changes>>

\* Somebody else's notice: a saved profile, a copied key.
OtherNotice ==
    /\ made < MaxToasts
    /\ made' = made + 1
    /\ toasts' = Append(toasts, [id |-> made + 1, kind |-> "other", by |-> 0,
                                 sticky |-> FALSE, open |-> TRUE])
    /\ UNCHANGED <<removing, network, problem, view, visit, changes>>

-----------------------------------------------------------------------------
\* A card's timer runs while it is one of the first MaxVisible; so does its button.
Visible(i) == i \in DOMAIN toasts /\ i =< MaxVisible
Leaves(id) ==
    LET s == Dismiss([toasts |-> toasts, removing |-> removing, made |-> made, view |-> view], id)
    IN  /\ toasts' = s.toasts /\ removing' = s.removing
        /\ UNCHANGED <<made, network, problem, view, visit, changes>>
Expires(i) == Visible(i) /\ toasts[i].open /\ ~toasts[i].sticky /\ Leaves(toasts[i].id)
CloseCard(i) == Visible(i) /\ Leaves(toasts[i].id)

removeNotification_Fault(id) ==
    /\ id \in removing
    /\ removing' = removing \ {id}
    /\ toasts' = [i \in 1..(Len(toasts) - 1) |-> toasts[i + 1]]
    /\ UNCHANGED <<made, network, problem, view, visit, changes>>
removeNotification(id) ==
    /\ id \in removing
    /\ removing' = removing \ {id}
    /\ toasts' = IF id \in Ids
                 THEN RemoveAt(toasts, CHOOSE i \in DOMAIN toasts : toasts[i].id = id)
                 ELSE toasts   \* filter drops one at most: an id is a value of the counter
    /\ UNCHANGED <<made, network, problem, view, visit, changes>>

Next ==
    \/ Commit \/ Restored \/ NoticeFades \/ NetworkFlips \/ RoomKnown \/ Enter \/ OtherNotice
    \/ \E type \in {"lost", "failed"} : Lost(type)
    \/ \E p \in Problems : ProblemChanges(p)
    \/ \E i \in 1..MaxVisible : Expires(i) \/ CloseCard(i)
    \/ \E id \in 1..MaxToasts : removeNotification(id)

\* Timers fire and a page whose state changed is rendered.
Fairness ==
    /\ WF_noticeVars(Commit)
    /\ \A i \in 1..MaxVisible : WF_noticeVars(Expires(i))
    /\ \A id \in 1..MaxToasts : WF_noticeVars(removeNotification(id))
Spec == Init /\ [][Next]_noticeVars /\ Fairness

NoticesTypeOK ==
    /\ toasts \in Seq([id : 1..MaxToasts, kind : {"warning", "trouble", "lost", "restored", "failed", "problem", "other"},
                       by : 0..MaxVisits, sticky : BOOLEAN, open : BOOLEAN])
    /\ removing \subseteq 1..MaxToasts /\ made \in 0..MaxToasts
    /\ problem \in Problems /\ visit \in 0..MaxVisits

Of(kind) == {i \in DOMAIN toasts : toasts[i].kind = kind /\ toasts[i].by = visit /\ toasts[i].open}

(***************************************************************************)
(* A page shows at most one "connection lost" and one error of its own; it   *)
(* takes the first away when it is told of the restored connection, and the *)
(* second is always the error it has now; and what is on its way out has a  *)
(* timer to go (ChatRoomPageView 179-239, dismiss).                         *)
(***************************************************************************)
SaysItOnce ==
    visit > 0 =>
      /\ Cardinality(Of("lost")) =< 1 /\ Cardinality(Of("problem")) =< 1
      /\ network.notice.type = "restored" /\ view.seen = network.notice.id => Of("lost") = {}
      /\ \A i \in Of("problem") : toasts[i].id = view.card /\ view.shown # "none"
      /\ \A i \in DOMAIN toasts : toasts[i].open \/ toasts[i].id \in removing

(***************************************************************************)
(* Every notice that is not sticky goes in the end, unless sticky ones fill  *)
(* the screen (the cards' timers, removeNotification, MAX_VISIBLE).         *)
(***************************************************************************)
Stuck == Cardinality({i \in DOMAIN toasts : toasts[i].sticky}) >= MaxVisible
NoticesGo ==
    \A id \in 1..MaxToasts :
      (\E i \in DOMAIN toasts : toasts[i].id = id /\ ~toasts[i].sticky)
        ~> (id \notin Ids \/ Stuck)
=============================================================================
