----------------------------- MODULE ImageStage -----------------------------
(***************************************************************************)
(* The zoomable image of the lightbox: shared/ui/ZoomableImageStage.tsx and *)
(* zoomableImageGeometry.ts.  Fingers come and go; a pan, a pinch or a      *)
(* swipe to dismiss is under way; momentum and animation frames go on after *)
(* them.  One axis stands for two, and the scale is a small number: Zoomed  *)
(* is any above 1, Top the largest at rest, Over the overshoot of a pinch.  *)
(***************************************************************************)
EXTENDS Integers, FiniteSets
LOCAL INSTANCE FiniteSetsExt

CONSTANTS Fingers,  \* pointers that touch the stage
          Widths    \* half widths of the image, as the window changes
StageAssumption == Widths \subseteq Nat \ {0} /\ Widths # {}

VARIABLES
    mobile,     \* mode
    half,       \* the geometry
    transform,  \* transformRef
    visual,     \* the style of the image
    down,       \* pointersRef
    pan,        \* the pointer of panSessionRef
    pinch,      \* pinchSessionRef is set
    dismiss,    \* dismissSessionRef: its pointer, active, far enough to close
    momentum,   \* momentumFrameIdRef is set
    interacting,
    frame,      \* resetDismissVisual has asked for a frame
    tapped,     \* lastTapRef is recent
    moved,      \* gestureMovedRef
    suppressed, \* suppressCloseUntilRef lies ahead
    click,      \* the browser is about to send a click
    travelled,  \* since the first finger came down one has moved
    closed      \* what asked to close: "none", "tap", "swipe"
stageVars == <<mobile, half, transform, visual, down, pan, pinch, dismiss, momentum,
               interacting, frame, tapped, moved, suppressed, click, travelled, closed>>

Top == 3
Over == 4
Rubber == 1     \* how far a finger draws an image past its bounds
Shifts == -(4 * Max(Widths) + Rubber)..(4 * Max(Widths) + Rubber)
Rest == [scale |-> 1, x |-> 0]
NoDismiss == [finger |-> "none", active |-> FALSE, far |-> FALSE]

Zoomed(t) == t.scale > 1
Within(x, bound) == Max({-bound, Min({bound, x})})
Constrain(t, rubber) ==
    LET scale == Min({t.scale, IF rubber THEN Over ELSE Top})
    IN IF scale = 1 THEN Rest
       ELSE [scale |-> scale,
             x |-> Within(t.x, half * scale + IF rubber THEN Rubber ELSE 0)]
Settled(t) ==
    Constrain([scale |-> Min({t.scale, Top}), x |-> (t.x * Min({t.scale, Top})) \div t.scale], FALSE)
Commit(t) == transform' = t /\ visual' = t

Init ==
    /\ mobile \in BOOLEAN /\ half \in Widths /\ transform = Rest /\ visual = Rest
    /\ down = {} /\ pan = "none" /\ pinch = FALSE /\ dismiss = NoDismiss
    /\ momentum = FALSE /\ interacting = FALSE /\ frame = FALSE /\ tapped = FALSE
    /\ moved = FALSE /\ suppressed = FALSE /\ click = FALSE /\ travelled = FALSE
    /\ closed = "none"

-----------------------------------------------------------------------------
\* endInteraction; on a desktop it settles nothing.
EndInteraction ==
    /\ interacting' = FALSE
    /\ IF mobile THEN Commit(Settled(transform)) ELSE UNCHANGED <<transform, visual>>

\* A pinch takes the place of a pan and of a swipe.
StartPinch_Fault ==
    /\ pinch' = TRUE /\ pan' = "none" /\ UNCHANGED <<dismiss, frame>>
    /\ tapped' = FALSE /\ interacting' = TRUE /\ moved' = TRUE
    /\ UNCHANGED <<transform, visual, suppressed>>
StartPinch ==
    /\ pinch' = TRUE /\ pan' = "none" /\ dismiss' = NoDismiss
    /\ frame' = (frame \/ dismiss # NoDismiss)
    /\ tapped' = FALSE /\ interacting' = TRUE /\ moved' = TRUE
    /\ UNCHANGED <<transform, visual, suppressed>>

ToggleZoom ==
    \E x \in Shifts :
       Commit(IF Zoomed(transform) THEN Rest ELSE Constrain([scale |-> 2, x |-> x], FALSE))
DoubleTap ==
    /\ ToggleZoom
    /\ suppressed' = TRUE /\ tapped' = FALSE /\ moved' = FALSE
    /\ UNCHANGED <<pan, pinch, dismiss, interacting, frame>>

\* handlePointerDown.  The taps of one finger may be too far apart to count.
PointerDown(f) ==
    /\ closed = "none" /\ f \notin down
    /\ mobile \/ down = {}
    /\ down' = down \cup {f} /\ momentum' = FALSE /\ click' = (down = {})
    /\ travelled' = (travelled /\ down # {})
    /\ CASE mobile /\ down = {} /\ tapped -> DoubleTap
         [] mobile /\ down # {} -> StartPinch
         [] OTHER ->
              /\ moved' = FALSE /\ tapped' = mobile
              /\ IF Zoomed(transform)
                 THEN /\ pan' = f /\ interacting' = (interacting \/ mobile) /\ UNCHANGED dismiss
                 ELSE /\ dismiss' = IF mobile THEN [NoDismiss EXCEPT !.finger = f] ELSE dismiss
                      /\ UNCHANGED <<pan, interacting>>
              /\ UNCHANGED <<transform, visual, pinch, frame, suppressed>>
    /\ UNCHANGED <<mobile, half, closed>>

\* handlePointerMove: the swipe of one finger, else the pinch, else the pan.  A
\* move is one beyond the few pixels that a tap may have.
Pulls == {p \in [vertical : BOOLEAN, far : BOOLEAN] : p.far => p.vertical}
Swipe(f, pull) ==
    /\ dismiss.finger = f /\ down = {f}
    /\ dismiss' = [dismiss EXCEPT !.active = @ \/ pull.vertical, !.far = pull.far]
    /\ IF dismiss'.active
       THEN interacting' = TRUE /\ visual' = [scale |-> 1, x |-> 1]
       ELSE UNCHANGED <<interacting, visual>>
    /\ UNCHANGED transform
Stretch(t) ==
    /\ mobile /\ pinch /\ Cardinality(down) >= 2 /\ Commit(Constrain(t, TRUE))
    /\ UNCHANGED <<dismiss, interacting>>
Drag_Fault(f, x) ==
    /\ pan = f /\ Commit(Constrain([transform EXCEPT !.x = x], TRUE))
    /\ UNCHANGED <<dismiss, interacting>>
Drag(f, x) ==
    /\ pan = f /\ ~(mobile /\ pinch /\ Cardinality(down) >= 2)
    /\ Commit(Constrain([transform EXCEPT !.x = x], mobile))
    /\ UNCHANGED <<dismiss, interacting>>
PointerMoves(f) ==
    /\ closed = "none" /\ f \in down /\ moved' = TRUE /\ travelled' = TRUE
    /\ \/ \E pull \in Pulls : Swipe(f, pull)
       \/ \E s \in 1..Over, x \in Shifts : Stretch([scale |-> s, x |-> x])
       \/ \E x \in Shifts : Drag(f, x)
    /\ UNCHANGED <<mobile, half, down, pan, pinch, momentum, frame, tapped, suppressed, click, closed>>

\* finishGesture
Released(f) ==
    \/ /\ dismiss.finger = f /\ dismiss' = NoDismiss
       /\ UNCHANGED <<pan, pinch, momentum>>
       /\ IF dismiss.active /\ dismiss.far
          THEN closed' = "swipe" /\ UNCHANGED <<transform, visual, interacting, frame>>
          ELSE closed' = closed /\ frame' = TRUE /\ EndInteraction
       /\ UNCHANGED <<tapped, moved, suppressed>>
    \/ /\ dismiss.finger # f /\ Cardinality(down') >= 2
       /\ StartPinch /\ UNCHANGED <<momentum, closed>>
    \/ /\ dismiss.finger # f /\ Cardinality(down') = 1
       /\ pinch' = FALSE
       /\ IF pinch /\ Zoomed(transform)
          THEN pan' \in down' /\ interacting' = TRUE
          ELSE pan' = (IF pan = f THEN "none" ELSE pan) /\ UNCHANGED interacting
       /\ UNCHANGED <<transform, visual, dismiss, momentum, frame, tapped, moved, suppressed, closed>>
    \/ /\ dismiss.finger # f /\ down' = {}
       /\ pinch' = FALSE /\ pan' = "none"
       /\ UNCHANGED <<dismiss, frame, tapped, moved, suppressed, closed>>
       /\ \/ EndInteraction /\ UNCHANGED momentum
          \/ /\ pan = f /\ mobile /\ Zoomed(transform) /\ transform = Settled(transform)
             /\ momentum' = TRUE /\ UNCHANGED <<transform, visual, interacting>>
PointerUp(f) ==
    /\ closed = "none" /\ f \in down /\ down' = down \ {f} /\ Released(f)
    /\ UNCHANGED <<mobile, half, click, travelled>>

-----------------------------------------------------------------------------
Momentum ==
    /\ closed = "none" /\ momentum
    /\ \/ \E x \in Shifts : Commit(Constrain([transform EXCEPT !.x = x], FALSE))
          /\ UNCHANGED <<momentum, interacting>>
       \/ momentum' = FALSE /\ EndInteraction
    /\ UNCHANGED <<mobile, half, down, pan, pinch, dismiss, frame, tapped, moved, suppressed,
                   click, travelled, closed>>

AnimationFrame ==
    /\ closed = "none" /\ frame /\ frame' = FALSE /\ visual' = transform
    /\ UNCHANGED <<mobile, half, transform, down, pan, pinch, dismiss, momentum, interacting,
                   tapped, moved, suppressed, click, travelled, closed>>

\* Only a desktop has a wheel and double clicks.
Wheel ==
    /\ closed = "none" /\ ~mobile /\ momentum' = FALSE
    /\ \E s \in 1..Top, x \in Shifts : Commit(Constrain([scale |-> s, x |-> x], FALSE))
    /\ UNCHANGED <<mobile, half, down, pan, pinch, dismiss, interacting, frame, tapped, moved,
                   suppressed, click, travelled, closed>>
DoubleClick ==
    /\ closed = "none" /\ ~mobile /\ momentum' = FALSE /\ suppressed' = TRUE
    /\ ToggleZoom
    /\ UNCHANGED <<mobile, half, down, pan, pinch, dismiss, interacting, frame, tapped, moved,
                   click, travelled, closed>>

Resize_Fault(h) ==
    /\ closed = "none" /\ h # half /\ half' = h
    /\ UNCHANGED <<mobile, transform, visual, down, pan, pinch, dismiss, momentum, interacting,
                   frame, tapped, moved, suppressed, click, travelled, closed>>
Resize(h) ==
    /\ closed = "none" /\ h # half /\ half' = h
    /\ LET scale == Min({transform.scale, Top})
       IN Commit(IF scale = 1 THEN Rest ELSE [scale |-> scale, x |-> Within(transform.x, h * scale)])
    /\ UNCHANGED <<mobile, down, pan, pinch, dismiss, momentum, interacting, frame, tapped,
                   moved, suppressed, click, travelled, closed>>

ImageLoads ==
    /\ closed = "none" /\ Commit(Rest)
    /\ pan' = "none" /\ pinch' = FALSE /\ dismiss' = NoDismiss /\ momentum' = FALSE
    /\ interacting' = FALSE
    /\ UNCHANGED <<mobile, half, down, frame, tapped, moved, suppressed, click, travelled, closed>>

\* handleClick; a browser sends it after the gesture of one finger.
Click(onImage) ==
    /\ closed = "none" /\ click /\ down = {} /\ click' = FALSE
    /\ moved' = (moved /\ suppressed)
    /\ closed' = IF suppressed \/ moved \/ onImage THEN closed ELSE "tap"
    /\ UNCHANGED <<mobile, half, transform, visual, down, pan, pinch, dismiss, momentum,
                   interacting, frame, tapped, suppressed, travelled>>

TimePasses ==
    /\ closed = "none" /\ tapped' \in {tapped, FALSE} /\ suppressed' \in {suppressed, FALSE}
    /\ <<tapped', suppressed'>> # <<tapped, suppressed>>
    /\ UNCHANGED <<mobile, half, transform, visual, down, pan, pinch, dismiss, momentum,
                   interacting, frame, moved, click, travelled, closed>>

Next ==
    \/ \E f \in Fingers : PointerDown(f) \/ PointerMoves(f) \/ PointerUp(f)
    \/ Momentum \/ AnimationFrame \/ Wheel \/ DoubleClick \/ ImageLoads \/ TimePasses
    \/ \E h \in Widths : Resize(h)
    \/ \E onImage \in BOOLEAN : Click(onImage)

Spec == Init /\ [][Next]_stageVars

-----------------------------------------------------------------------------
StageTypeOK ==
    /\ half \in Widths /\ transform \in [scale : 1..Over, x : Shifts]
    /\ visual \in [scale : 1..Over, x : Shifts]
    /\ down \subseteq Fingers /\ pan \in Fingers \cup {"none"}
    /\ dismiss.finger \in Fingers \cup {"none"} /\ closed \in {"none", "tap", "swipe"}
    /\ {mobile, pinch, momentum, interacting, frame, tapped, moved, suppressed, click, travelled}
          \subseteq BOOLEAN

\* With no finger on it and no animation the stage is at rest: in bounds, at a
\* scale it may have, shown as it is held, and no gesture goes on without its
\* fingers, in whatever order they came, turned into a pinch and left.
RestsInBounds ==
    closed = "none" /\ down = {} /\ ~momentum /\ ~frame =>
        /\ transform = Constrain(transform, FALSE) /\ visual = transform
        /\ ~interacting /\ ~pinch /\ pan = "none" /\ dismiss = NoDismiss

\* Only a swipe over an image that is not zoomed and a tap that has not moved
\* close the stage.
ClosesOnPurpose ==
    /\ closed = "swipe" => ~Zoomed(transform)
    /\ closed = "tap" => ~travelled
=============================================================================
