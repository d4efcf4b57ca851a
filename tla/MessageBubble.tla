---------------------------- MODULE MessageBubble ----------------------------
(***************************************************************************)
(* One message on the screen: what its menu offers, how the menu is asked   *)
(* for with a mouse or by touch, and what its items do.  Its rights come    *)
(* from the room page and change under an open menu: an optimistic message  *)
(* is confirmed, a moderator loses his role, the message is removed.        *)
(***************************************************************************)
EXTENDS Naturals, FiniteSets, TLC

CONSTANTS Files, Pictures, Fingers
BubbleAssumption == Pictures \subseteq Files /\ "none" \notin Files \cup Fingers

VARIABLES message, \* [status, own, text, files]
          viewer,  \* [user, manager]: signed in; may manage messages here
          menu,    \* "closed" or the attachment it was opened on, or "none"
          picker,  \* the emoji picker is open
          tap,     \* the finger whose release opens the menu, or "none"
          touch,   \* what each finger has done since it went down
          deaf,    \* clicks on the bubble are swallowed
          justDown,\* the right button went down a moment ago
          readers, \* the list of readers is open
          opened,  \* how the menu was opened
          done     \* what was done last, and to a message of which status
bubbleVars == <<message, viewer, menu, picker, tap, touch, deaf, justDown, readers, opened, done>>

Up == "up"
Targets == {"text", "media", "link", "outside"}
Nothing == [what |-> "none", status |-> "sent", allowed |-> TRUE]

Moderates == viewer.user /\ viewer.manager /\ ~message.own
CanEditOrDelete == message.status = "sent" /\ (message.own \/ Moderates)
CanReplyOrReact == message.status = "sent" /\ viewer.user

\* The attachment the menu is about: the one under the pointer, or the only one.
Selected ==
    IF menu \in message.files THEN {menu}
    ELSE IF menu = "none" /\ Cardinality(message.files) = 1 THEN message.files ELSE {}

Offered ==
    {"reply", "react"}
      \cup (IF message.text THEN {"copy"} ELSE {})
      \cup (IF Selected # {} THEN {"download"} ELSE {})
      \cup (IF Selected \cap Pictures # {} THEN {"copyPicture"} ELSE {})
      \cup (IF message.own /\ message.status = "sent" THEN {"readers"} ELSE {})
      \cup (IF message.own THEN {} ELSE {"profile"})
      \cup (IF message.own \/ Moderates THEN {"edit", "delete"} ELSE {})
Enabled ==
    Offered \ ((IF CanReplyOrReact THEN {} ELSE {"reply", "react"})
                 \cup (IF CanEditOrDelete THEN {} ELSE {"edit", "delete"})
                 \cup (IF viewer.user THEN {} ELSE {"readers"}))

Init ==
    /\ message \in [status : {"pending", "sent"}, own : BOOLEAN, text : BOOLEAN, files : SUBSET Files]
    /\ message.status = "pending" => message.own
    /\ viewer \in [user : BOOLEAN, manager : BOOLEAN]
    /\ message.own \/ viewer.manager => viewer.user
    /\ menu = "closed" /\ picker = FALSE /\ tap = "none"
    /\ touch = [f \in Fingers |-> Up]
    /\ deaf = FALSE /\ justDown = FALSE /\ readers = FALSE
    /\ opened = "none" /\ done = Nothing

Here == message.status # "gone"

-----------------------------------------------------------------------------
\* A document listener closes the menu, and the list of readers, on any pointer
\* that goes down outside of it.
Closes == menu' = "closed" /\ readers' = FALSE

\* shouldIgnoreMobileMenuGesture: links, buttons and media have a use of their own.
TouchDown(f, on) ==
    /\ Here /\ touch[f] = Up
    /\ Closes
    /\ touch' = [touch EXCEPT ![f] = on]
    /\ tap' = IF on = "text" THEN f ELSE tap
    /\ UNCHANGED <<message, viewer, picker, deaf, justDown, opened, done>>

\* A move past the tolerance is a scroll.
TouchMoves(f) ==
    /\ Here /\ touch[f] \in Targets
    /\ touch' = [touch EXCEPT ![f] = "moved"]
    /\ tap' = IF tap = f THEN "none" ELSE tap
    /\ UNCHANGED <<message, viewer, menu, picker, deaf, justDown, readers, opened, done>>

\* finishMobileTapMenu: the menu is about the whole message.  The pointer leaves with
\* its release, which ends whatever tap another finger had begun.
TouchUp_Fault(f) ==
    /\ Here /\ touch[f] # Up
    /\ touch' = [touch EXCEPT ![f] = Up]
    /\ tap' = "none"
    /\ IF tap # "none"
       THEN deaf' = TRUE /\ menu' = "none" /\ opened' = touch[f]
       ELSE UNCHANGED <<deaf, menu, opened>>
    /\ UNCHANGED <<message, viewer, picker, justDown, readers, done>>
TouchUp(f) ==
    /\ Here /\ touch[f] # Up
    /\ touch' = [touch EXCEPT ![f] = Up]
    /\ tap' = "none"
    /\ IF tap = f
       THEN deaf' = TRUE /\ menu' = "none" /\ opened' = touch[f]
       ELSE UNCHANGED <<deaf, menu, opened>>
    /\ UNCHANGED <<message, viewer, picker, justDown, readers, done>>

\* The browser takes the gesture over.
TouchCancelled(f) ==
    /\ Here /\ touch[f] # Up
    /\ touch' = [touch EXCEPT ![f] = Up] /\ tap' = "none"
    /\ UNCHANGED <<message, viewer, menu, picker, deaf, justDown, readers, opened, done>>

\* The right button opens the menu when it goes down; the event that follows within
\* a quarter of a second only suppresses the browser's own menu.
RightDown(on) ==
    /\ Here /\ on \in message.files \cup {"none"}
    /\ readers' = FALSE
    /\ menu' = on /\ opened' = "mouse" /\ justDown' = TRUE
    /\ UNCHANGED <<message, viewer, picker, tap, touch, deaf, done>>

ContextEvent(on) ==
    /\ Here /\ on \in message.files \cup {"none"}
    /\ IF justDown THEN UNCHANGED <<menu, opened>> ELSE menu' = on /\ opened' = "mouse"
    /\ UNCHANGED <<message, viewer, picker, tap, touch, deaf, justDown, readers, done>>

\* A click of the mouse, or the one a browser makes of a touch.
Click(on) ==
    /\ Here /\ on \in {"media", "reaction"}
    /\ done' = IF deaf \/ (on = "reaction" /\ ~CanReplyOrReact) THEN done
               ELSE [what |-> IF on = "media" THEN "open" ELSE "react", status |-> message.status,
                     allowed |-> TRUE]
    /\ UNCHANGED <<message, viewer, menu, picker, tap, touch, deaf, justDown, readers, opened>>

EscapeOrOutside ==
    /\ Here /\ (menu # "closed" \/ readers)
    /\ Closes
    /\ UNCHANGED <<message, viewer, picker, tap, touch, deaf, justDown, opened, done>>

\* handleItemClick: the item runs and the menu closes.
Choose_Fault(item) ==
    /\ Here /\ menu # "closed" /\ item \in Offered
    /\ menu' = "closed"
    /\ picker' = (picker \/ item = "react")
    /\ readers' = (item = "readers")
    /\ done' = IF item = "react" THEN done
               ELSE [what |-> item, status |-> message.status,
                     allowed |-> item \notin {"edit", "delete"} \/ message.own \/ Moderates]
    /\ UNCHANGED <<message, viewer, tap, touch, deaf, justDown, opened>>
Choose(item) ==
    /\ Here /\ menu # "closed" /\ item \in Enabled
    /\ menu' = "closed"
    /\ picker' = (picker \/ item = "react")
    /\ readers' = (item = "readers")
    /\ done' = IF item = "react" THEN done
               ELSE [what |-> item, status |-> message.status,
                     allowed |-> item \notin {"edit", "delete"} \/ message.own \/ Moderates]
    /\ UNCHANGED <<message, viewer, tap, touch, deaf, justDown, opened>>

\* The picker stays open for the next choice; a reaction nobody may make is dropped.
Pick ==
    /\ Here /\ picker
    /\ done' = IF CanReplyOrReact
               THEN [what |-> "react", status |-> message.status, allowed |-> TRUE] ELSE done
    /\ UNCHANGED <<message, viewer, menu, picker, tap, touch, deaf, justDown, readers, opened>>
ClosePicker ==
    /\ Here /\ picker /\ picker' = FALSE
    /\ UNCHANGED <<message, viewer, menu, tap, touch, deaf, justDown, readers, opened, done>>

-----------------------------------------------------------------------------
\* The page: a bubble keeps its key when its message is confirmed.
Confirmed ==
    /\ message.status = "pending" /\ message' = [message EXCEPT !.status = "sent"]
    /\ UNCHANGED <<viewer, menu, picker, tap, touch, deaf, justDown, readers, opened, done>>

\* Deleted by somebody, or refused by the server: the bubble is unmounted.
Gone ==
    /\ Here /\ message' = [message EXCEPT !.status = "gone"]
    /\ menu' = "closed" /\ picker' = FALSE /\ tap' = "none"
    /\ touch' = [f \in Fingers |-> Up] /\ deaf' = FALSE /\ justDown' = FALSE
    /\ UNCHANGED <<viewer, readers, opened, done>>

RightsChange ==
    /\ Here /\ viewer.user /\ viewer' = [viewer EXCEPT !.manager = ~@]
    /\ UNCHANGED <<message, menu, picker, tap, touch, deaf, justDown, readers, opened, done>>

TimePasses ==
    /\ deaf \/ justDown
    /\ deaf' = FALSE /\ justDown' = FALSE
    /\ UNCHANGED <<message, viewer, menu, picker, tap, touch, readers, opened, done>>

Next ==
    \/ \E f \in Fingers : \E on \in Targets : TouchDown(f, on)
    \/ \E f \in Fingers : TouchMoves(f) \/ TouchUp(f) \/ TouchCancelled(f)
    \/ \E on \in Files \cup {"none"} : RightDown(on) \/ ContextEvent(on)
    \/ \E on \in {"media", "reaction"} : Click(on)
    \/ EscapeOrOutside
    \/ \E item \in Offered : Choose(item)
    \/ Pick \/ ClosePicker \/ Confirmed \/ Gone \/ RightsChange \/ TimePasses
Spec == Init /\ [][Next]_bubbleVars

BubbleTypeOK ==
    /\ message.status \in {"pending", "sent", "gone"}
    /\ menu \in {"closed", "none"} \cup Files /\ tap \in {"none"} \cup Fingers
    /\ touch \in [Fingers -> Targets \cup {Up, "moved"}]
    /\ <<picker, deaf, justDown, readers>> \in BOOLEAN \X BOOLEAN \X BOOLEAN \X BOOLEAN

\* No request is made about a message the server has not stored, and nobody edits
\* or deletes without the right to it, whatever changed while the menu or the
\* picker was open (canEditOrDelete and canReplyOrReact of ChatRoomPageView,
\* handleItemClick of ContextMenu, handleReact).
ActsWithinRights ==
    /\ done.what \in {"reply", "react", "edit", "delete", "readers"} => done.status = "sent"
    /\ done.allowed

\* A touch opens the menu only when it began on the message itself and did not
\* move: scrolling, pressing a link or a picture, or lifting another finger opens
\* nothing (finishMobileTapMenu, cancelMobileTapMenuOnMove, shouldIgnoreMobileMenuGesture).
TapsAreTaps == opened \in {"none", "mouse", "text"}
=============================================================================
