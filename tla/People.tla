-------------------------------- MODULE People --------------------------------
(***************************************************************************)
(* Pages about other people: the friends page and the panel of a profile,    *)
(* both over the relations the server keeps, the panel of a personal chat    *)
(* with its files, and the portrait that a profile page enlarges.  What the  *)
(* server does with a request is modelled as these pages use it.             *)
(***************************************************************************)
EXTENDS Integers, Sequences, FiniteSets, SequencesExt, FiniteSetsExt

CONSTANTS Persons,                \* other users
          MaxActs, MaxLoads,      \* bounds: changes of a relation, loads of lists
          Chats, MaxFiles, PageSize, \* personal chats, bound on their files, RoomAttachments limit
          Base, Window, MaxZoom, Points \* the portrait, the screen, clampZoom's limit, the pointer
PeopleAssumption ==
    /\ Base \in Nat /\ Window \in Nat /\ MaxZoom \in Nat /\ Points \subseteq Int
    /\ PageSize \in Nat \ {0} /\ MaxFiles \in Nat

VARIABLES rel,   \* the server's: how each person stands to me
          acts, loads, \* counters
          list,  \* useFriends: the lists, as one relation per person
          asked, \* its reloads on their way: [id, seen]
          order, \* for MyActionIsShown: [mine, crossed, theirs]
          person, relation, busy, waiting, \* UserProfilePanel: its subject and its state
          run,     \* the guarded load of the subject: [of, seen], or None
          action,  \* [kind, target, of, seen], or None
          foreign  \* for ActsOnTheShown
friendVars == <<list, asked, order>>
panelVars == <<person, relation, busy, waiting, run, action, foreign>>
relationVars == <<rel, acts, loads, friendVars, panelVars>>

VARIABLES chat, files, server, older, first, more, mixed \* DirectInfoPanel; see FilesAreTheChats
chatVars == <<chat, files, server, older, first, more, mixed>>
VARIABLES zoom, pan, drag, drawn, prompt \* UserProfilePage's portrait; see PortraitIsOnScreen
zoomVars == <<zoom, pan, drag, drawn, prompt>>
peopleVars == <<relationVars, chatVars, zoomVars>>

None == <<>>
Relations == {"none", "outgoing", "incoming", "friend", "blocked"}
-----------------------------------------------------------------------------
\* The server.  A request that does not fit the relation any more is refused.
Outcome(kind, state) ==
    CASE kind = "send" /\ state = "none" -> "outgoing"
      [] kind = "send" /\ state = "incoming" -> "friend"
      [] kind = "cancel" /\ state = "outgoing" -> "none"
      [] kind = "accept" /\ state = "incoming" -> "friend"
      [] kind = "decline" /\ state = "incoming" -> "none"
      [] kind = "remove" /\ state = "friend" -> "none"
      [] kind = "block" /\ state # "blocked" -> "blocked"
      [] kind = "unblock" /\ state = "blocked" -> "none"
      [] OTHER -> "refused"
Kinds == {"send", "cancel", "accept", "decline", "remove", "block", "unblock"}
\* The buttons of a row of the friends page, and those of the profile panel.
OnPage(state) == CASE state = "friend" -> {"remove", "block"} [] state = "incoming" -> {"accept", "decline"}
                   [] state = "outgoing" -> {"cancel"} [] state = "blocked" -> {"unblock"}
                   [] OTHER -> {}
InPanel(state) == CASE state = "none" -> {"send", "block"} [] state = "blocked" -> {"unblock"}
                    [] OTHER -> OnPage(state) \cup {"block"}
\* What the other side does.
Theirs(state) == CASE state = "none" -> {"incoming"} [] state = "incoming" -> {"none"}
                   [] state = "outgoing" -> {"friend", "none"} [] state = "friend" -> {"none"}
                   [] state = "blocked" -> {}

\* Four lists are fetched one beside the other: who changed lists meanwhile may be in none.
Answers(seen) == IF Cardinality(seen) > 1 THEN seen \cup {"none"} ELSE seen
Widened(load, p, state) == [load EXCEPT !.seen[p] = @ \cup {state}]

\* Every load on its way may see the new state of p.
Becomes(p, state) ==
    /\ rel' = [rel EXCEPT ![p] = state]
    /\ asked' = {Widened(l, p, state) : l \in asked}
    /\ run' = IF run # None /\ run.of = p THEN [run EXCEPT !.seen = @ \cup {state}] ELSE run
Seen == [p \in Persons |-> {rel[p]}]

RelationInit ==
    /\ rel \in [Persons -> {"none", "incoming", "friend"}]
    /\ acts = 0 /\ loads = 0 /\ list = rel /\ asked = {}
    /\ order = [mine |-> {}, crossed |-> FALSE, theirs |-> {}]
    /\ person \in Persons /\ relation = [state |-> rel[person], of |-> person]
    /\ busy = FALSE /\ waiting = FALSE /\ run = None /\ action = None /\ foreign = FALSE

TheyAct(p) ==
    /\ acts < MaxActs /\ acts' = acts + 1
    /\ \E state \in Theirs(rel[p]) : Becomes(p, state)
    /\ order' = [order EXCEPT !.theirs = @ \cup {p}]
    /\ action' = IF action # None /\ action.of = p /\ action.done
                 THEN [action EXCEPT !.seen = @ \cup {rel'[p]}] ELSE action
    /\ UNCHANGED <<loads, list, person, relation, busy, waiting, foreign>>

-----------------------------------------------------------------------------
\* useFriends: an action and, once it is answered, a reload of everything.
Reload(loaded, after) ==
    /\ loads < MaxLoads /\ loads' = loads + 1
    /\ asked' = loaded \cup {[id |-> loads + 1, seen |-> [p \in Persons |-> {after[p]}]]}
FriendAct_Fault(p, kind) ==
    LET state == Outcome(kind, rel[p])
    IN  /\ acts < MaxActs /\ acts' = acts + 1
        /\ kind \in OnPage(list[p]) \cup {"send"} /\ state # "refused"
        /\ rel' = [rel EXCEPT ![p] = state]
        /\ order' = [order EXCEPT !.mine = @ \cup {p}, !.theirs = @ \ {p}, !.crossed = asked # {}]
        /\ UNCHANGED <<list, loads, asked, panelVars>>
FriendAct(p, kind) ==
    LET state == Outcome(kind, rel[p])
    IN  /\ acts < MaxActs /\ acts' = acts + 1
        /\ kind \in OnPage(list[p]) \cup {"send"}
        /\ IF state # "refused"
           THEN /\ rel' = [rel EXCEPT ![p] = state]
                /\ Reload({Widened(l, p, state) : l \in asked}, rel')
                /\ order' = [order EXCEPT !.mine = @ \cup {p}, !.theirs = @ \ {p},
                                          !.crossed = asked # {}]
                /\ UNCHANGED list
           \* sendRequest reloads when told that there is a request already; the others do not.
           ELSE IF kind = "send" THEN Reload(asked, rel) /\ UNCHANGED <<rel, order, list>>
           ELSE UNCHANGED <<rel, loads, asked, order, list>>
        /\ UNCHANGED panelVars
FriendsAnswer(load, lost) ==
    /\ load \in asked /\ asked' = asked \ {load}
    /\ IF lost THEN order' = [order EXCEPT !.crossed = TRUE] /\ UNCHANGED list
       ELSE /\ list' \in {f \in [Persons -> Relations] : \A p \in Persons : f[p] \in Answers(load.seen[p])}
            /\ UNCHANGED order
    /\ UNCHANGED <<rel, acts, loads, panelVars>>

FriendsNext ==
    \/ \E p \in Persons : TheyAct(p)
    \/ \E p \in Persons, k \in Kinds : FriendAct(p, k)
    \/ \E l \in asked, lost \in BOOLEAN : FriendsAnswer(l, lost)

-----------------------------------------------------------------------------
\* UserProfilePanel.  Another subject: the old run is inactive, the old relation hidden.
Subject(p) ==
    /\ p # person /\ loads < MaxLoads /\ loads' = loads + 1
    /\ person' = p /\ waiting' = TRUE /\ run' = [of |-> p, seen |-> {rel[p]}]
    /\ UNCHANGED <<rel, acts, friendVars, relation, busy, action, foreign>>
RunAnswers_Fault ==
    /\ run # None
    /\ \E state \in Answers(run.seen) : relation' = [state |-> state, of |-> relation.of]
    /\ waiting' = FALSE /\ foreign' = FALSE /\ run' = None
    /\ UNCHANGED <<rel, acts, loads, friendVars, person, busy, action>>
RunAnswers ==
    /\ run # None
    /\ \E state \in Answers(run.seen) \cup {"none"} : relation' = [state |-> state, of |-> run.of]
    /\ waiting' = FALSE /\ foreign' = FALSE /\ run' = None
    /\ UNCHANGED <<rel, acts, loads, friendVars, person, busy, action>>

\* Adding and blocking name the subject, the others the row the relation came from.
Act_Fault(kind) ==
    /\ ~busy /\ acts < MaxActs
    /\ kind \in InPanel(relation.state)
    /\ action' = [kind |-> kind, of |-> person, seen |-> {}, done |-> FALSE,
                  target |-> IF kind \in {"send", "block"} THEN person ELSE relation.of]
    /\ busy' = TRUE
    /\ UNCHANGED <<rel, acts, loads, friendVars, person, relation, waiting, run, foreign>>
Act(kind) ==
    /\ ~busy /\ ~waiting /\ acts < MaxActs
    /\ kind \in InPanel(relation.state)
    /\ action' = [kind |-> kind, of |-> person, seen |-> {}, done |-> FALSE,
                  target |-> IF kind \in {"send", "block"} THEN person ELSE relation.of]
    /\ busy' = TRUE
    /\ UNCHANGED <<rel, acts, loads, friendVars, person, relation, waiting, run, foreign>>
\* Answered: refused, the panel says so; done, the relation of the same person is loaded.
Worked ==
    /\ action # None /\ ~action.done /\ acts < MaxActs /\ acts' = acts + 1
    /\ LET state == Outcome(action.kind, rel[action.target])
       IN  IF state = "refused"
           THEN /\ action' = None /\ busy' = FALSE
                /\ UNCHANGED <<rel, asked, run, waiting>>
           ELSE /\ Becomes(action.target, state)
                /\ action' = [action EXCEPT !.done = TRUE, !.seen = {rel'[action.of]}]
                /\ waiting' = TRUE /\ UNCHANGED busy
    /\ UNCHANGED <<loads, list, order, person, relation, foreign>>
\* loadRelationState has no guard: it answers for the person the action was about.
ReloadAnswers ==
    /\ action # None /\ action.done
    /\ \E state \in Answers(action.seen) \cup {"none"} : relation' = [state |-> state, of |-> action.of]
    /\ foreign' = (action.of # person)
    /\ waiting' = FALSE /\ busy' = FALSE /\ action' = None
    /\ UNCHANGED <<rel, acts, loads, friendVars, person, run>>

PanelNext ==
    \/ \E p \in Persons : TheyAct(p) \/ Subject(p)
    \/ \E k \in Kinds : Act(k)
    \/ RunAnswers \/ Worked \/ ReloadAnswers

-----------------------------------------------------------------------------
\* DirectInfoPanel: the files of the chat, a page at a time, the newest first.
Page(c, before) ==
    LET last == Min({server[c], before - 1})
        count == Min({last, PageSize})
    IN  [files |-> [i \in 1..count |-> last + 1 - i], more |-> last > PageSize]
Named(c, ids) == [i \in DOMAIN ids |-> [chat |-> c, id |-> ids[i]]]
Oldest(ids, otherwise) == IF ids = <<>> THEN otherwise ELSE ids[Len(ids)]

ChatInit ==
    /\ chat \in Chats /\ server \in [Chats -> 0..MaxFiles]
    /\ files = <<>> /\ older = [before |-> 0, more |-> FALSE] /\ first = {chat} /\ more = None
    /\ mixed = FALSE

Show(c) ==
    /\ c # chat /\ c \notin first
    /\ chat' = c /\ first' = first \cup {c}
    /\ UNCHANGED <<files, server, older, more, mixed>>
FirstPage(c, lost) ==
    LET page == Page(c, MaxFiles + 1)
    IN  /\ c \in first /\ first' = first \ {c}
        /\ files' = IF lost THEN <<>> ELSE Named(c, page.files)
        /\ older' = [before |-> IF lost THEN 0 ELSE Oldest(page.files, 0), more |-> page.more /\ ~lost]
        /\ mixed' = (mixed \/ c # chat \/ more # None)
        /\ UNCHANGED <<chat, server, more>>
AskMore_Fault ==
    /\ older.more /\ more = None /\ first = {}
    /\ more' = [chat |-> chat, before |-> older.before + 1]
    /\ UNCHANGED <<chat, files, server, older, first, mixed>>
AskMore == \* the button is hidden while the panel is loading
    /\ older.more /\ older.before # 0 /\ more = None /\ (chat \in first => mixed)
    /\ more' = [chat |-> chat, before |-> older.before]
    /\ mixed' = (mixed \/ first # {})
    /\ UNCHANGED <<chat, files, server, older, first>>
MorePage(lost) ==
    /\ more # None /\ more' = None
    /\ LET page == Page(more.chat, more.before)
       IN  IF lost THEN older' = [older EXCEPT !.more = FALSE] /\ UNCHANGED files
           ELSE /\ files' = files \o Named(more.chat, page.files)
                /\ older' = [before |-> Oldest(page.files, 0), more |-> page.more]
    /\ mixed' = (mixed \/ more.chat # chat)
    /\ UNCHANGED <<chat, server, first>>
FileArrives(c) ==
    /\ server[c] < MaxFiles /\ server' = [server EXCEPT ![c] = @ + 1]
    /\ UNCHANGED <<chat, files, older, first, more, mixed>>

ChatNext ==
    \/ \E c \in Chats : Show(c) \/ FileArrives(c) \/ \E lost \in BOOLEAN : FirstPage(c, lost)
    \/ AskMore \/ \E lost \in BOOLEAN : MorePage(lost)

-----------------------------------------------------------------------------
\* The portrait, along one axis.  A handler knows the zoom of the last render.
Bound(z) == Max({0, (Base * z - Window) \div 2})
ClampPan(x, z) == IF x > Bound(z) THEN Bound(z) ELSE IF x < -Bound(z) THEN -Bound(z) ELSE x
ClampZoom(z) == IF z < 1 THEN 1 ELSE IF z > MaxZoom THEN MaxZoom ELSE z

ZoomInit == zoom = 1 /\ pan = 0 /\ drag = None /\ drawn = [zoom |-> 1, pan |-> 0] /\ prompt = TRUE
ZoomTo_Fault(z, moved) ==
    /\ zoom' = ClampZoom(z)
    /\ pan' = IF zoom' <= 1 THEN 0 ELSE ClampPan(pan + moved, drawn.zoom)
    /\ prompt' = (prompt /\ drawn.zoom = zoom) /\ UNCHANGED <<drag, drawn>>
\* handleWheel, the pinch of handleTouchMove: the point under the pointer stays where it is.
ZoomTo(z, moved) ==
    /\ zoom' = ClampZoom(z)
    /\ pan' = IF zoom' <= 1 THEN 0 ELSE ClampPan(pan + moved, zoom')
    /\ prompt' = (prompt /\ drawn.zoom = zoom) /\ UNCHANGED <<drag, drawn>>
Hold(x) ==
    /\ drawn.zoom > 1
    /\ drag' = <<[at |-> x, pan |-> drawn.pan]>> /\ UNCHANGED <<zoom, pan, drawn, prompt>>
DragTo(x) ==
    /\ drag # None
    /\ pan' = ClampPan(drag[1].pan + x - drag[1].at, drawn.zoom)
    /\ prompt' = (prompt /\ drawn.zoom = zoom) /\ UNCHANGED <<zoom, drag, drawn>>
LetGo == drag # None /\ drag' = None /\ UNCHANGED <<zoom, pan, drawn, prompt>>
Rendered ==
    /\ drawn # [zoom |-> zoom, pan |-> pan]
    /\ drawn' = [zoom |-> zoom, pan |-> pan] /\ UNCHANGED <<zoom, pan, drag, prompt>>
Reopen ==
    /\ zoom' = 1 /\ pan' = 0 /\ drag' = None
    /\ drawn' = [zoom |-> 1, pan |-> 0] /\ prompt' = TRUE

ZoomNext ==
    \/ \E x \in Points : Hold(x) \/ DragTo(x) \/ \E z \in 0..MaxZoom + 1 : ZoomTo(z, x) \/ ZoomTo(z, -x)
    \/ LetGo \/ Rendered \/ Reopen

-----------------------------------------------------------------------------
PeopleTypeOK ==
    /\ rel \in [Persons -> Relations] /\ list \in [Persons -> Relations]
    /\ relation.state \in Relations /\ person \in Persons
    /\ zoom \in 1..MaxZoom /\ older.more \in BOOLEAN

\* On the friends page, once nothing is on its way, a person I have acted upon is listed as the
\* server has him, unless he acted since, a reload was lost, or two reloads overlapped.
MyActionIsShown ==
    asked = {} /\ ~order.crossed =>
      \A p \in order.mine \ order.theirs : list[p] = rel[p]

\* A request of the profile panel is about the person it shows at the click, whoever was shown
\* before and however late his lists come, unless an earlier action's own reload came last.
ActsOnTheShown ==
    [][action = None /\ action' # None => foreign \/ action'.target = person]_relationVars

\* The panel of a chat lists files of that chat only, each once, the newest first and without
\* a gap, unless the answer of a chat shown before came after this one's.
FilesAreTheChats ==
    ~mixed => \A i \in DOMAIN files :
                /\ first = {} => files[i].chat = chat
                /\ i > 1 => files[i].id = files[i - 1].id - 1

\* The portrait cannot be dragged or zoomed off the screen, as long as no handler runs before
\* the zoom of the one before it has been rendered; at its own size it is in the middle.
PortraitIsOnScreen == prompt => pan \in -Bound(zoom)..Bound(zoom)
=============================================================================
