----------------------------- MODULE OnlineList -----------------------------
(***************************************************************************)
(* The list of those who are online, as a page keeps it                    *)
(* (shared/presence/PresenceProvider.tsx): a session of the provider per   *)
(* user, the guest's own session that has to be asked for first, the       *)
(* socket and its frames.  The second machine is the menu of a message's   *)
(* readers (widgets/chat/ReadersMenu.tsx), placed at a point of the screen *)
(* along one axis; the code does the same on the other.                    *)
(***************************************************************************)
EXTENDS Integers, FiniteSets

CONSTANTS Users,              \* public references; "none" and "guest" are not among them
          MaxFaces, MaxAsks,  \* bounds: changes of the profile, guest sessions asked for
          Views, Sizes, Gap   \* of the window, of a menu; the margin it keeps
OnlineAssumption ==
    /\ {"none", "guest"} \cap Users = {}
    /\ MaxFaces \in Nat /\ MaxAsks \in Nat /\ Gap \in Nat
    /\ Views \subseteq Nat /\ Sizes \subseteq Nat /\ Sizes # {}

VARIABLES
    user, ready, face,   \* auth.user, realtimeProvidersReady, the image of the profile
    guest, asks, failed, \* guestSessionReady, requests for it, the last one was refused
    link,                \* as whom the socket is connected
    list, guests         \* onlineUsers with their images, guestCount
onlineVars == <<user, ready, face, guest, asks, failed, link, list, guests>>
VARIABLES view, menu     \* the window, the menu: its point, size, place and rows
menuVars == <<view, menu>>
onlineListVars == <<onlineVars, menuVars>>

None == "none"
-----------------------------------------------------------------------------
Identity(u, r, g) == IF ~r \/ (u = None /\ ~g) THEN None ELSE IF u = None THEN "guest" ELSE u
Needed(u, r, g) == r /\ u = None /\ ~g

\* What a render with this user, readiness and guest session does: another
\* user means another session of the provider, which starts with nothing; the
\* request for a guest session is made when it becomes needed, and its answer
\* is dropped when it no longer is; a socket with another address is replaced.
Render_Fault(u, r, g, others) ==
    LET new == u # user
        had == IF new THEN FALSE ELSE g
        again == Needed(u, r, had) /\ new IN
    /\ user' = u /\ ready' = r /\ guest' = had
    /\ again => Cardinality(others) < MaxAsks
    /\ asks' = {[a EXCEPT !.active = @ /\ Needed(u, r, had) /\ ~again] : a \in others}
               \cup {[id |-> i, active |-> TRUE] :
                        i \in IF again THEN {CHOOSE i \in 1..MaxAsks : \A a \in others : a.id # i} ELSE {}}
    /\ link' = IF link = Identity(u, r, had) THEN link ELSE None
    /\ IF new THEN list' = [p \in {} |-> 0] /\ guests' = 0 ELSE UNCHANGED <<list, guests>>
Render(u, r, g, others) ==
    LET new == u # user
        had == IF new THEN FALSE ELSE g
        again == Needed(u, r, had) /\ (new \/ ~Needed(user, ready, guest)) IN
    /\ user' = u /\ ready' = r /\ guest' = had
    /\ again => Cardinality(others) < MaxAsks
    /\ asks' = {[a EXCEPT !.active = @ /\ Needed(u, r, had) /\ ~again] : a \in others}
               \cup {[id |-> i, active |-> TRUE] :
                        i \in IF again THEN {CHOOSE i \in 1..MaxAsks : \A a \in others : a.id # i} ELSE {}}
    /\ link' = IF link = Identity(u, r, had) THEN link ELSE None
    /\ IF new THEN list' = [p \in {} |-> 0] /\ guests' = 0 ELSE UNCHANGED <<list, guests>>

OnlineInit ==
    /\ user = None /\ ready = FALSE /\ face = 0
    /\ guest = FALSE /\ asks = {} /\ failed = FALSE
    /\ link = None /\ list = [p \in {} |-> 0] /\ guests = 0

\* The session of the site is known, or ends; a public reference changes.
UserBecomes(u) ==
    /\ u # user /\ Render(u, ready, guest, asks)
    /\ failed' = FALSE /\ UNCHANGED face

\* The forms of /login and /register have no sockets.
ReadyBecomes(r) ==
    /\ r # ready /\ Render(user, r, guest, asks)
    /\ failed' = FALSE /\ UNCHANGED face

\* The user's own profile gets another image; the socket stays.
FaceChanges ==
    /\ user # None /\ face < MaxFaces /\ face' = face + 1
    /\ UNCHANGED <<user, ready, guest, asks, failed, link, list, guests>>

GuestSession(a) ==
    /\ IF a.active THEN Render(user, ready, TRUE, asks \ {a})
       ELSE asks' = asks \ {a} /\ UNCHANGED <<user, ready, guest, link, list, guests>>
    /\ UNCHANGED <<face, failed>>
\* Nothing the effect depends on changes: a refusal is not followed by another try.
GuestRefused_Fault(a) ==
    /\ asks' = asks \ {a} /\ failed' = FALSE
    /\ UNCHANGED <<user, ready, face, guest, link, list, guests>>
GuestRefused(a) ==
    /\ asks' = asks \ {a} /\ failed' = (failed \/ a.active)
    /\ UNCHANGED <<user, ready, face, guest, link, list, guests>>

Connect ==
    /\ link = None /\ Identity(user, ready, guest) # None
    /\ link' = Identity(user, ready, guest)
    /\ UNCHANGED <<user, ready, face, guest, asks, failed, list, guests>>
Drop ==
    /\ link # None /\ link' = None
    /\ UNCHANGED <<user, ready, face, guest, asks, failed, list, guests>>

\* A frame: the guests' group gets their number only.  Everyone's image is as
\* the server read it when it broadcast, one's own is replaced.
Frame(names, age, n) ==
    /\ link # None /\ guests' = n
    /\ list' = IF link = "guest" THEN list
               ELSE [p \in names |-> IF p = user THEN face ELSE age]
    /\ UNCHANGED <<user, ready, face, guest, asks, failed, link>>

OnlineNext ==
    \/ \E u \in Users \cup {None} : UserBecomes(u)
    \/ \E r \in BOOLEAN : ReadyBecomes(r)
    \/ FaceChanges \/ Connect \/ Drop
    \/ \E a \in asks : GuestSession(a) \/ GuestRefused(a)
    \/ \E names \in SUBSET Users, age \in 0..MaxFaces, n \in {0, 1} : Frame(names, age, n)

\* visibleOnline: nobody for a guest; one's own image is the profile's.
VisibleOnline_Fault == IF ~ready \/ user = None THEN [p \in {} |-> 0] ELSE list
VisibleOnline ==
    IF ~ready \/ user = None THEN [p \in {} |-> 0]
    ELSE [p \in DOMAIN list |-> IF p = user THEN face ELSE list[p]]

-----------------------------------------------------------------------------
\* The menu opens while its rows are fetched and is placed then, and when the window
\* changes; the rows that come make it taller and do not place it again.
Placed_Fault(point, size, window) ==
    LET low == IF point < Gap THEN Gap ELSE point
    IN IF low + size > window - Gap THEN window - size - Gap ELSE low
Placed(point, size, window) ==
    LET high == IF point + size > window - Gap THEN window - size - Gap ELSE point
    IN IF high < Gap THEN Gap ELSE high

Closed == [open |-> FALSE, point |-> 0, size |-> 0, place |-> 0, rows |-> FALSE, profile |-> FALSE]
MenuInit == view \in Views /\ menu = Closed

Least == CHOOSE s \in Sizes : \A t \in Sizes : s <= t
\* Opened on another message while open, at the same point it keeps its place.
OpenMenu(point) ==
    /\ menu' = [open |-> TRUE, point |-> point, size |-> Least, rows |-> FALSE, profile |-> FALSE,
                place |-> IF menu.open /\ menu.point = point THEN menu.place
                          ELSE Placed(point, Least, view)]
    /\ UNCHANGED view
RowsCome(size) ==
    /\ menu.open /\ ~menu.rows
    /\ menu' = [menu EXCEPT !.rows = TRUE, !.size = size] /\ UNCHANGED view
WindowChanges(window) ==
    /\ window # view /\ view' = window
    /\ menu' = IF menu.open THEN [menu EXCEPT !.place = Placed(menu.point, menu.size, window)] ELSE menu
\* A press outside, or Escape.
DismissMenu == menu.open /\ menu' = Closed /\ UNCHANGED view
\* A reader without a reference is no button.
OpenReader(linked) ==
    /\ menu.open /\ menu.rows
    /\ menu' = IF linked THEN [Closed EXCEPT !.profile = TRUE] ELSE menu
    /\ UNCHANGED view

MenuNext ==
    \/ \E point \in 0..view : OpenMenu(point)
    \/ \E size \in Sizes : RowsCome(size)
    \/ \E window \in Views : WindowChanges(window)
    \/ DismissMenu
    \/ \E linked \in BOOLEAN : OpenReader(linked)

-----------------------------------------------------------------------------
OnlineListTypeOK ==
    /\ user \in Users \cup {None} /\ link \in Users \cup {None, "guest"}
    /\ {ready, guest, failed} \subseteq BOOLEAN /\ face \in 0..MaxFaces /\ guests \in {0, 1}
    /\ \A a \in asks : a.id \in 1..MaxAsks /\ a.active \in BOOLEAN
    /\ DOMAIN list \subseteq Users
    /\ view \in Views /\ {menu.open, menu.rows, menu.profile} \subseteq BOOLEAN

\* Whoever signs in, out or over and however late the answers are, the socket
\* is connected as the user of the page, a guest sees no names, and one's own
\* image is the one of the profile.
ListIsOfTheUser ==
    /\ link # None => link = Identity(user, ready, guest)
    /\ user = None => DOMAIN VisibleOnline = {}
    /\ user \in DOMAIN VisibleOnline => VisibleOnline[user] = face

\* A guest on a page with sockets has his session, or one answer is awaited; a
\* refusal ends it (then he is offline until the page or the user changes).
GuestIsConnecting ==
    Needed(user, ready, guest) =>
        failed \/ Cardinality({a \in asks : a.active}) = 1

\* A menu is placed on the screen, its beginning when it does not fit; only
\* the rows that come after it was placed may end below the screen.
MenuIsOnScreen ==
    menu.open /\ ~menu.rows =>
        /\ menu.place >= Gap
        /\ menu.size + 2 * Gap <= view => menu.place + menu.size <= view - Gap
=============================================================================
