-------------------------------- MODULE Shell --------------------------------
(***************************************************************************)
(* The frame around the pages: the addresses of chats, the logo that leads   *)
(* back to the last personal chat, the drawer of a narrow screen, the panel  *)
(* at the side, the border that is dragged, and the list of groups that is   *)
(* fetched again and again.  These keep no state in common.                  *)
(***************************************************************************)
EXTENDS Integers, Sequences, FiniteSets

CONSTANTS Peers,              \* personal chats, by the name of the peer
          Pages,              \* other addresses; "friends" is one
          MinWidth, MaxWidth, DefaultWidth, Places, \* of the sidebar, of the pointer
          MaxFetches          \* bound: fetches of the list
ShellAssumption == MinWidth <= DefaultWidth /\ DefaultWidth <= MaxWidth /\ "friends" \in Pages

VARIABLES raw \* a reference as a link, a list or the address bar gives it: [at, body]
addressVars == raw
VARIABLES path, known, stored, home, \* address, direct inbox, localStorage, the logo's link
          last \* for LogoLeadsToTheLast
memoryVars == <<path, known, stored, home, last>>
VARIABLES mobile, drawer, place, \* viewport, isDrawerRequestedOpen, address
          panel, drawn, endings  \* InfoPanel: its state, what is rendered, transitions to end
frameVars == <<mobile, drawer, place, panel, drawn, endings>>
VARIABLES mounted, width, saved, drag, listeners, cursor \* the border of the sidebar
borderVars == <<mounted, width, saved, drag, listeners, cursor>>
VARIABLES groups, loading, fetches, made \* the server's groups and the list's requests
listVars == <<groups, loading, fetches, made>>
shellVars == <<addressVars, memoryVars, frameVars, borderVars, listVars>>

None == "none"
-----------------------------------------------------------------------------
\* Addresses.  A body stands for the strings the code tells apart.
Bodies == {"", "Public", "public", "Settings", "settings", "Anna", "anna", "x", "user id", "group id"}
Lower(body) == CASE body = "Public" -> "public" [] body = "Settings" -> "settings"
                 [] body = "Anna" -> "anna" [] body \notin {"Public", "Settings", "Anna"} -> body
IsHandle(body) == Lower(body) \in {"public", "settings", "anna"}
NoTarget == [at |-> FALSE, body |-> ""]
Formatted(r) == IF IsHandle(r.body) THEN [at |-> TRUE, body |-> Lower(r.body)]
                ELSE [at |-> FALSE, body |-> r.body]

Normalized_Fault(r) ==
    IF Lower(r.body) = "public" THEN [at |-> FALSE, body |-> "public"]
    ELSE IF r.body = "" \/ IsHandle(r.body) \/ r.body \in {"user id", "group id"}
         THEN Formatted(r)
    ELSE r
\* normalizeChatTarget: the public room, a handle, an identifier, or what it is not.
Normalized(r) ==
    IF ~r.at /\ Lower(r.body) = "public" THEN [at |-> FALSE, body |-> "public"]
    ELSE IF r.body = "" \/ IsHandle(r.body) \/ r.body \in {"user id", "group id"}
         THEN Formatted(r)
    ELSE r
IsReserved(segment) == ~segment.at /\ Lower(segment.body) = "settings"
\* An address is the one segment of its path; "/" is the front page.
Built(r) == Normalized(r)
Parsed(segment) == IF IsReserved(segment) THEN NoTarget ELSE Normalized(segment)

AddressInit == raw \in [at : BOOLEAN, body : Bodies]

-----------------------------------------------------------------------------
\* The logo.  resolveRememberedDirectPath runs while rendering and may forget what is stored.
Leads_Fault(address, peers, kept) ==
    IF address \in peers THEN {address}
    ELSE IF kept # None THEN {kept}
    ELSE IF peers # {} THEN peers ELSE {"friends"}
Leads(address, peers, kept) ==
    IF address \in peers THEN {address}
    ELSE IF kept \in peers THEN {kept}
    ELSE IF peers # {} THEN peers ELSE {"friends"}
Forgets(address, peers, kept) == address \notin peers /\ kept \notin peers

\* The render for an address and an inbox, then the effect that remembers an open chat.
Render(address, peers, kept) ==
    /\ path' = address /\ known' = peers
    /\ home' \in Leads(address, peers, kept)
    /\ stored' = IF address \in peers THEN address
                 ELSE IF Forgets(address, peers, kept) THEN None ELSE kept

MemoryInit ==
    /\ path \in Peers \cup Pages /\ known = {} /\ home = "friends"
    /\ stored = None /\ last = None

Visit(address) ==
    /\ Render(address, known, stored)
    /\ last' = IF address \in known THEN address ELSE last
InboxChanges(peers) ==
    /\ Render(path, peers, stored)
    /\ last' = IF path \in peers THEN path ELSE IF last \in peers THEN last ELSE None
\* ChatTargetPage learns that the chat is a personal one, in the inbox or not yet.
Resolved ==
    /\ path \in Peers
    /\ stored' = path
    /\ last' = IF path \in known THEN last ELSE None
    /\ UNCHANGED <<path, known, home>>
ClickLogo == Visit(home)
\* A reload renders the sidebar before the inbox has come.
Reload == Render(path, {}, stored) /\ last' = None

MemoryNext ==
    \/ \E a \in Peers \cup Pages : Visit(a)
    \/ \E peers \in SUBSET Peers : InboxChanges(peers)
    \/ Resolved \/ ClickLogo \/ Reload

-----------------------------------------------------------------------------
\* The drawer and the panel.
Closed == [open |-> FALSE, content |-> None]
FrameInit ==
    /\ mobile \in BOOLEAN /\ drawer = FALSE /\ place \in Pages
    /\ panel = Closed /\ drawn = Closed /\ endings = 0

Resize ==
    /\ mobile' = ~mobile /\ drawer' = (drawer /\ mobile')
    /\ UNCHANGED <<place, panel, drawn, endings>>
OpenDrawer == mobile /\ drawer' = TRUE /\ UNCHANGED <<mobile, place, panel, drawn, endings>>
CloseDrawer == drawer' = FALSE /\ UNCHANGED <<mobile, place, panel, drawn, endings>>
GoTo_Fault(p) ==
    /\ p # place
    /\ place' = p /\ UNCHANGED <<mobile, drawer, panel, drawn, endings>>
\* Any change of the address, through the sidebar or not, closes the drawer.
GoTo(p) ==
    /\ p # place
    /\ place' = p /\ drawer' = FALSE /\ UNCHANGED <<mobile, panel, drawn, endings>>
\* The header's button: a drawer on the top pages, Back on the others.
HeaderButton ==
    IF place = "friends"
    THEN drawer' = mobile /\ UNCHANGED <<mobile, place, panel, drawn, endings>>
    ELSE \E p \in Pages : GoTo(p)

OpenPanel(content) ==
    /\ panel' = [open |-> TRUE, content |-> content]
    /\ UNCHANGED <<mobile, drawer, place, drawn, endings>>
ClosePanel ==
    /\ panel' = [panel EXCEPT !.open = FALSE]
    /\ UNCHANGED <<mobile, drawer, place, drawn, endings>>
\* A panel that is shown or hidden slides; the slide ends some time later.
Draw ==
    /\ drawn # panel
    /\ drawn' = panel
    /\ endings' = IF panel.open # drawn.open /\ drawn.content # None THEN 1 ELSE endings
    /\ UNCHANGED <<mobile, drawer, place, panel>>
TransitionEnds_Fault ==
    /\ endings > 0 /\ endings' = 0
    /\ panel' = IF ~drawn.open THEN Closed ELSE panel
    /\ UNCHANGED <<mobile, drawer, place, drawn>>
\* The handler knows the panel as it is drawn, clearClosed as it is.
TransitionEnds ==
    /\ endings > 0 /\ endings' = 0
    /\ panel' = IF ~drawn.open /\ ~panel.open THEN Closed ELSE panel
    /\ UNCHANGED <<mobile, drawer, place, drawn>>

FrameNext ==
    \/ Resize \/ OpenDrawer \/ CloseDrawer \/ HeaderButton
    \/ \E p \in Pages : GoTo(p)
    \/ \E c \in {"group", "profile"} : OpenPanel(c)
    \/ ClosePanel \/ Draw \/ TransitionEnds

-----------------------------------------------------------------------------
\* The border of the sidebar: a drag listens to the whole window until it is let go.
Clamp(w) == IF w < MinWidth THEN MinWidth ELSE IF w > MaxWidth THEN MaxWidth ELSE w
NoNumber == -1 \* what localStorage holds is none
NoDrag == [from |-> 0, at |-> 0]

BorderInit ==
    /\ mounted = FALSE /\ width = DefaultWidth /\ drag = NoDrag /\ listeners = 0
    /\ cursor = FALSE /\ saved \in {NoNumber, 0, MaxWidth + 1, DefaultWidth}
Mount_Fault ==
    /\ ~mounted /\ mounted' = TRUE
    /\ width' = IF saved = NoNumber THEN DefaultWidth ELSE saved
    /\ UNCHANGED <<saved, drag, listeners, cursor>>
Mount ==
    /\ ~mounted /\ mounted' = TRUE
    /\ width' = IF saved = NoNumber THEN DefaultWidth ELSE Clamp(saved)
    /\ UNCHANGED <<saved, drag, listeners, cursor>>
StartDrag_Fault(x) ==
    /\ mounted
    /\ drag' = [from |-> width, at |-> x] /\ listeners' = listeners + 1 /\ cursor' = TRUE
    /\ UNCHANGED <<mounted, width, saved>>
\* The pointer may have been let go outside the window: the old drag is ended first.
StartDrag(x) ==
    /\ mounted
    /\ drag' = [from |-> width, at |-> x] /\ listeners' = 1 /\ cursor' = TRUE
    /\ UNCHANGED <<mounted, width, saved>>
DragTo(x) ==
    /\ listeners > 0
    /\ width' = Clamp(drag.from + x - drag.at) /\ saved' = width'
    /\ UNCHANGED <<mounted, drag, listeners, cursor>>
StopDrag ==
    /\ listeners > 0
    /\ listeners' = 0 /\ cursor' = FALSE /\ drag' = NoDrag /\ UNCHANGED <<mounted, width, saved>>
\* The cleanup knows of one drag, the latest.
Unmount ==
    /\ mounted /\ mounted' = FALSE
    /\ listeners' = (IF listeners > 0 THEN listeners - 1 ELSE 0)
    /\ cursor' = FALSE /\ drag' = NoDrag /\ UNCHANGED <<width, saved>>

BorderNext == Mount \/ Unmount \/ StopDrag \/ \E x \in Places : StartDrag(x) \/ DragTo(x)

-----------------------------------------------------------------------------
\* The list of groups: what the rail shows, and the fetches that have yet to answer.
ListInit == groups = [server |-> 0, shown |-> 0] /\ loading = FALSE /\ fetches = {} /\ made = 0
Fetch ==
    /\ made < MaxFetches
    /\ made' = made + 1 /\ loading' = TRUE
    /\ fetches' = fetches \cup {[id |-> made + 1, answer |-> groups.server]}
    /\ UNCHANGED groups
Fetched_Fault(f) ==
    /\ f \in fetches /\ fetches' = fetches \ {f}
    /\ \/ groups' = [groups EXCEPT !.shown = f.answer] /\ loading' = FALSE
       \/ UNCHANGED <<groups, loading>>
    /\ UNCHANGED made
\* A refused request counts as an empty list; the first answer of two ends the loading.
Fetched(f) ==
    /\ f \in fetches /\ fetches' = fetches \ {f}
    /\ \/ groups' = [groups EXCEPT !.shown = f.answer]
       \/ groups' = [groups EXCEPT !.shown = 0]
    /\ loading' = FALSE
    /\ UNCHANGED made
\* A group is created or left; handleGroupCreated and the event ask for the list again.
ServerChanges ==
    /\ made < MaxFetches
    /\ groups' = [groups EXCEPT !.server = made + 1]
    /\ UNCHANGED <<loading, fetches, made>>

ListNext == Fetch \/ ServerChanges \/ \E f \in fetches : Fetched(f)

-----------------------------------------------------------------------------
ShellTypeOK ==
    /\ raw \in [at : BOOLEAN, body : Bodies] /\ home \in Peers \cup Pages
    /\ stored \in Peers \cup {None} /\ known \subseteq Peers
    /\ mobile \in BOOLEAN /\ panel.open \in BOOLEAN /\ listeners \in Nat
    /\ width \in MinWidth..MaxWidth

\* An address built for a chat is understood as that chat: the public room, a person whose
\* handle is a word the program keeps for itself, an identifier; a person called like the
\* public room is not the room.
AddressLeadsBack ==
    LET target == Normalized(raw)
    IN  /\ target # NoTarget => Parsed(Built(raw)) = target
        /\ Normalized(target) = target
        /\ raw.at => target # [at |-> FALSE, body |-> "public"]

\* The logo leads to a chat of the inbox or to the friends, and to the personal chat opened
\* last as long as the inbox lists it and no chat outside the inbox was opened since.
LogoLeadsToTheLast ==
    /\ home \in known \cup {"friends"}
    /\ last # None => home = last

\* A drawer is open on narrow screens only, and closes behind every change of the address; the
\* panel that was opened is not taken away by the end of a slide that began before.
FrameMoves == [][/\ drawer' => mobile'
                 /\ place' # place => ~drawer'
                 /\ panel.open => panel'.content # None]_frameVars

\* One drag at a time moves the border, and none when the sidebar is gone or the pointer is free.
OneDragAtATime == /\ listeners <= 1 /\ (cursor <=> listeners = 1)
                  /\ ~mounted => listeners = 0

\* The list says it is loading only while a fetch is on its way, answered, refused or late.
ListStopsLoading == fetches = {} => ~loading
=============================================================================
