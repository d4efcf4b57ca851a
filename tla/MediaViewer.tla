----------------------------- MODULE MediaViewer -----------------------------
(***************************************************************************)
(* Looking at and listening to what a message carries: the picture viewer   *)
(* of a room with the history entry it pushes so that Back closes it, the   *)
(* swipe that throws a video away, and the audio player of a bubble.  The   *)
(* three keep no state in common.  The browser's part (its history, the     *)
(* audio element and its events) is modelled as the code uses it.           *)
(***************************************************************************)
EXTENDS Naturals, Sequences, FiniteSets, SequencesExt

CONSTANTS Attachments, Media, \* those in Media are pictures or videos with a url
          MaxFeed,            \* bound: attachments in the room's messages
          MaxOpens, MaxBacks, \* bounds: viewers opened, Back or Forward pressed
          Fingers, Sources, MaxChanges \* touches; audio urls; bound: audio changes
ViewerAssumption == Sources \subseteq Nat /\ Media \subseteq Attachments /\ 0 \notin Attachments

VARIABLES feed,    \* the attachments of the loaded messages, in order
          session, \* the snapshot being viewed: [items, index], or None
          lock,    \* openLockRef of useGuardedModalState
          guard,   \* the hook's refs: [id, active, timer]; id 0 before its effect has run
          history, \* the browser's: [entries: [page, guard], at, pending]
          opens, backs,
          tapped, moved, calm \* for the properties: see PageIsKept and ShowsWhatWasTapped
viewerVars == <<feed, session, lock, guard, history, opens, backs, tapped, moved, calm>>

VARIABLES touch,  \* swipeSessionRef: [finger, active, reach], or None
          visual, \* of the video's root: [displaced, animated]
          closing \* onRequestClose was called
swipeVars == <<touch, visual, closing>>

VARIABLES src, playback, volume, \* props and state of AudioAttachmentPlayer
          audio,  \* the element: [paused, loaded, broken, volume]
          promise,\* a play() that is neither settled nor refused
          events, \* what the element has yet to tell
          refused,\* sources whose removed element has yet to refuse its play()
          changes
audioVars == <<src, playback, volume, audio, promise, events, refused, changes>>
mediaVars == <<viewerVars, swipeVars, audioVars>>

None == <<>>
-----------------------------------------------------------------------------
\* The viewer.  seenAttachmentIds: a file that two messages carry is shown once.
MediaItems_Fault(f) == SelectSeq(f, LAMBDA a : a \in Media)
MediaItems(f) ==
    FoldLeft(LAMBDA items, a : IF a \in Media /\ ~Contains(items, a)
                               THEN Append(items, a) ELSE items, <<>>, f)

FreshGuard == [id |-> 0, active |-> FALSE, timer |-> FALSE]
Entry == history.entries[history.at]
IsCurrent(id) == Entry.guard = id
Visit(h, page, id) ==
    [h EXCEPT !.entries = Append(SubSeq(@, 1, h.at), [page |-> page, guard |-> id]), !.at = h.at + 1]
Strip(id) == IF IsCurrent(id) THEN [history EXCEPT !.entries[history.at].guard = 0] ELSE history

ViewerInit ==
    /\ feed \in UNION {[1..n -> Attachments] : n \in 1..MaxFeed}
    /\ history = [entries |-> <<[page |-> "lobby", guard |-> 0], [page |-> "room", guard |-> 0]>>,
                  at |-> 2, pending |-> 0]
    /\ session = None /\ lock = FALSE /\ guard = FreshGuard /\ opens = 0 /\ backs = 0
    /\ tapped = None /\ moved = FALSE /\ calm = TRUE

InRoom == Entry.page = "room"
Tap_Fault(a) ==
    LET items == MediaItems(feed)
    IN  /\ InRoom /\ guard.id = 0 /\ opens < MaxOpens /\ a \in Range(feed)
        /\ Contains(items, a)
        /\ lock' = TRUE /\ opens' = opens + 1
        /\ session' = [items |-> items, index |-> CHOOSE i \in DOMAIN items : items[i] = a]
        /\ tapped' = IF session = None THEN <<a>> ELSE tapped
        /\ moved' = FALSE
        /\ UNCHANGED <<feed, guard, history, backs, calm>>
\* A picture is tapped; taps may come until the viewer covers the room.
Tap(a) ==
    LET items == MediaItems(feed)
    IN  /\ InRoom /\ guard.id = 0 /\ opens < MaxOpens /\ a \in Range(feed)
        /\ Contains(items, a) /\ ~lock
        /\ lock' = TRUE /\ opens' = opens + 1
        /\ session' = [items |-> items, index |-> CHOOSE i \in DOMAIN items : items[i] = a]
        /\ tapped' = <<a>> /\ moved' = FALSE
        /\ UNCHANGED <<feed, guard, history, backs, calm>>

Mount_Fault ==
    /\ session # None /\ guard.id = 0
    /\ guard' = [id |-> opens, active |-> TRUE, timer |-> FALSE]
    /\ UNCHANGED <<feed, session, lock, history, opens, backs, tapped, moved, calm>>
\* The effect of the hook; a browser that has seen too many entries refuses another.
Mount ==
    /\ session # None /\ guard.id = 0
    /\ \E taken \in BOOLEAN :
         /\ guard' = [id |-> opens, active |-> taken, timer |-> FALSE]
         /\ history' = IF taken THEN Visit(history, "room", opens) ELSE history
    /\ UNCHANGED <<feed, session, lock, opens, backs, tapped, moved, calm>>

Step_Fault(forward) ==
    /\ guard.id # 0 /\ Len(session.items) > 1
    /\ session' = [session EXCEPT !.index = IF forward THEN @ + 1 ELSE @ - 1]
    /\ moved' = TRUE
    /\ UNCHANGED <<feed, lock, guard, history, opens, backs, tapped, calm>>
\* goPrevious, goNext: the gallery is a ring.
Step(forward) ==
    /\ guard.id # 0 /\ Len(session.items) > 1
    /\ LET n == Len(session.items)
       IN  session' = [session EXCEPT !.index = IF forward THEN (@ % n) + 1
                                                 ELSE ((@ + n - 2) % n) + 1]
    /\ moved' = TRUE
    /\ UNCHANGED <<feed, lock, guard, history, opens, backs, tapped, calm>>

\* closeOnce, and the unmounting it leads to.
Close == session' = None /\ lock' = FALSE /\ guard' = FreshGuard

\* Escape, a click beside the picture, a picture thrown away: Back takes the entry off.
RequestClose ==
    /\ guard.id # 0 /\ history.pending < MaxBacks
    /\ IF guard.active /\ IsCurrent(guard.id)
       THEN /\ history' = [history EXCEPT !.pending = @ + 1]
            /\ guard' = [guard EXCEPT !.timer = TRUE]
            /\ calm' = (calm /\ history.pending = 0)
            /\ UNCHANGED <<session, lock>>
       ELSE Close /\ UNCHANGED <<history, calm>>
    /\ UNCHANGED <<feed, opens, backs, tapped, moved>>

\* CLOSE_FALLBACK_TIMEOUT_MS: the browser has not gone back.
Fallback ==
    /\ guard.timer
    /\ history' = Strip(guard.id) /\ Close
    /\ UNCHANGED <<feed, opens, backs, tapped, moved, calm>>

\* The address of the entry gone to: leaving the room takes the viewer with it.
Arrive(h) ==
    /\ history' = h
    /\ IF guard.active \/ h.entries[h.at].page # "room" THEN Close
       ELSE UNCHANGED <<session, lock, guard>>

\* The browser goes back as it was asked to, some time later, and says popstate.
Traverse ==
    /\ history.pending > 0
    /\ IF history.at = 1
       THEN history' = [history EXCEPT !.pending = @ - 1] /\ UNCHANGED <<session, lock, guard>>
       ELSE Arrive([history EXCEPT !.pending = @ - 1, !.at = @ - 1])
    /\ UNCHANGED <<feed, opens, backs, tapped, moved, calm>>
\* It never does.
Forget ==
    /\ history.pending > 0
    /\ history' = [history EXCEPT !.pending = 0]
    /\ UNCHANGED <<feed, session, lock, guard, opens, backs, tapped, moved, calm>>

PressBack ==
    /\ backs < MaxBacks /\ history.pending < MaxBacks
    /\ backs' = backs + 1
    /\ history' = [history EXCEPT !.pending = @ + 1]
    /\ calm' = (calm /\ guard.active /\ history.pending = 0)
    /\ UNCHANGED <<feed, session, lock, guard, opens, tapped, moved>>
PressForward ==
    /\ backs < MaxBacks /\ history.at < Len(history.entries)
    /\ backs' = backs + 1
    /\ Arrive([history EXCEPT !.at = @ + 1])
    /\ UNCHANGED <<feed, opens, tapped, moved, calm>>
\* The program goes to another page (a removed group, a link): the hook's cleanup runs
\* when the address has changed already, and finds no entry of its own to strip.
GoElsewhere ==
    /\ InRoom
    /\ history' = Visit(history, "profile", 0)
    /\ Close /\ calm' = FALSE
    /\ UNCHANGED <<feed, opens, backs, tapped, moved>>

ViewerNext ==
    \/ \E a \in Attachments : Tap(a)
    \/ Mount \/ \E forward \in BOOLEAN : Step(forward)
    \/ RequestClose \/ Fallback \/ Traverse \/ Forget
    \/ PressBack \/ PressForward \/ GoElsewhere

-----------------------------------------------------------------------------
\* The video.  "gone" is far or fast enough to throw it away, "away" is a swipe.
SwipeInit == touch = None /\ visual = [displaced |-> FALSE, animated |-> FALSE] /\ closing = FALSE

PointerDown(f) ==
    /\ touch' = [finger |-> f, active |-> FALSE, reach |-> "still"]
    /\ visual' = [visual EXCEPT !.animated = FALSE]
    /\ UNCHANGED closing
PointerMove(f, reach) ==
    /\ touch # None /\ touch.finger = f
    /\ touch' = [touch EXCEPT !.reach = reach, !.active = @ \/ reach # "still"]
    /\ visual' = IF touch'.active THEN [visual EXCEPT !.displaced = TRUE] ELSE visual
    /\ UNCHANGED closing
FinishSwipe_Fault(f) ==
    /\ touch # None /\ touch.finger = f
    /\ touch' = None
    /\ CASE touch.active /\ touch.reach = "gone" -> closing' = TRUE /\ UNCHANGED visual
         [] touch.active /\ touch.reach # "gone" ->
              visual' = [displaced |-> FALSE, animated |-> TRUE] /\ UNCHANGED closing
         [] ~touch.active -> UNCHANGED <<visual, closing>>
\* The root returns to its place with a transition, unless motion is to be reduced.
FinishSwipe(f) ==
    /\ touch # None /\ touch.finger = f
    /\ touch' = None
    /\ IF touch.active /\ touch.reach = "gone"
       THEN closing' = TRUE /\ UNCHANGED visual
       ELSE /\ \E moving \in BOOLEAN : visual' = [displaced |-> FALSE, animated |-> moving]
            /\ UNCHANGED closing
TransitionEnds ==
    /\ visual.animated
    /\ visual' = [visual EXCEPT !.animated = FALSE]
    /\ UNCHANGED <<touch, closing>>

SwipeNext ==
    \/ \E f \in Fingers : PointerDown(f) \/ FinishSwipe(f)
                          \/ \E reach \in {"still", "away", "gone"} : PointerMove(f, reach)
    \/ TransitionEnds

-----------------------------------------------------------------------------
\* The audio player.  A new url is a new element; the player's state is of one url.
Fresh(s) == [of |-> s, ready |-> FALSE, playing |-> FALSE, error |-> FALSE]
Shown == IF playback.of = src THEN playback ELSE Fresh(src)
Based(s) == IF playback.of = s THEN playback ELSE Fresh(s)
NewElement == [paused |-> TRUE, loaded |-> FALSE, broken |-> FALSE, volume |-> "full"]

AudioInit ==
    /\ src \in Sources /\ playback = Fresh(src) /\ volume = "normal"
    /\ audio = NewElement /\ promise = FALSE /\ events = <<>> /\ refused = {} /\ changes = 0

\* handleToggle: play, which the browser may refuse at once or later, or pause.
Toggle_Fault ==
    /\ changes < MaxChanges /\ ~Shown.error /\ ~audio.broken
    /\ IF audio.paused
       THEN /\ audio' = [audio EXCEPT !.paused = FALSE] /\ promise' = TRUE
            /\ UNCHANGED events
       ELSE /\ audio' = [audio EXCEPT !.paused = TRUE] /\ promise' = FALSE
            /\ events' = events \o <<"pause">> \o (IF promise THEN <<"refuse">> ELSE <<>>)
    /\ changes' = changes + 1
    /\ UNCHANGED <<src, playback, volume, refused>>
Toggle ==
    /\ changes < MaxChanges /\ ~Shown.error
    /\ IF audio.paused
       THEN \/ /\ audio' = [audio EXCEPT !.paused = FALSE] /\ promise' = TRUE
               /\ events' = Append(events, "play") /\ ~audio.broken
            \/ events' = Append(events, "refuse") /\ UNCHANGED <<audio, promise>>
       ELSE /\ audio' = [audio EXCEPT !.paused = TRUE] /\ promise' = FALSE
            /\ events' = events \o <<"pause">> \o (IF promise THEN <<"refuse">> ELSE <<>>)
    /\ changes' = changes + 1
    /\ UNCHANGED <<src, playback, volume, refused>>

\* The element: its metadata arrives, its sound starts, ends, or cannot be decoded.
Loads ==
    /\ ~audio.loaded /\ ~audio.broken
    /\ audio' = [audio EXCEPT !.loaded = TRUE] /\ events' = Append(events, "loadedmetadata")
    /\ UNCHANGED <<src, playback, volume, promise, refused, changes>>
Starts ==
    /\ promise /\ audio.loaded
    /\ promise' = FALSE
    /\ UNCHANGED <<src, playback, volume, audio, events, refused, changes>>
Ends ==
    /\ ~audio.paused /\ audio.loaded /\ ~promise /\ ~audio.broken
    /\ audio' = [audio EXCEPT !.paused = TRUE] /\ events' = events \o <<"pause", "ended">>
    /\ UNCHANGED <<src, playback, volume, promise, refused, changes>>
Breaks ==
    /\ ~audio.broken
    /\ audio' = [audio EXCEPT !.broken = TRUE] /\ promise' = FALSE
    /\ events' = events \o <<"error">> \o (IF promise THEN <<"refuse">> ELSE <<>>)
    /\ UNCHANGED <<src, playback, volume, refused, changes>>

\* The url changes (a later signature; an earlier one does not come back): React removes the element, whose pending play()
\* is refused to the callback that was made for the old url.
ChangeSource(s) ==
    /\ changes < MaxChanges /\ s > src
    /\ src' = s /\ audio' = NewElement /\ events' = <<>> /\ promise' = FALSE
    /\ refused' = IF promise \/ Contains(events, "refuse") THEN refused \cup {src} ELSE refused
    /\ changes' = changes + 1
    /\ UNCHANGED <<playback, volume>>
RefusedLate(s) ==
    /\ s \in refused
    /\ playback' = [Based(s) EXCEPT !.error = TRUE, !.playing = FALSE]
    /\ refused' = refused \ {s}
    /\ UNCHANGED <<src, volume, audio, promise, events, changes>>

Heard_Fault(e) == [Based(src) EXCEPT !.playing = CASE e = "play" -> TRUE
                                                   [] e \in {"refuse", "ended", "error"} -> FALSE
                                                   [] e \in {"loadedmetadata", "pause"} -> @,
                                     !.error = IF e = "loadedmetadata" THEN FALSE
                                               ELSE @ \/ e \in {"error", "refuse"},
                                     !.ready = IF e = "error" THEN FALSE ELSE @ \/ e = "loadedmetadata"]
\* patchState, as each of the element's events calls it.
Heard(e) == [Based(src) EXCEPT !.playing = CASE e = "play" -> TRUE
                                             [] e \in {"pause", "ended", "error", "refuse"} -> FALSE
                                             [] e = "loadedmetadata" -> @,
                               !.error = IF e = "loadedmetadata" THEN FALSE
                                         ELSE @ \/ e \in {"error", "refuse"},
                               !.ready = IF e = "error" THEN FALSE ELSE @ \/ e = "loadedmetadata"]
\* What a removed element still has to say is said before the new one has loaded anything.
Hear ==
    /\ events # <<>> /\ refused = {}
    /\ playback' = Heard(Head(events)) /\ events' = Tail(events)
    /\ audio' = IF Head(events) = "loadedmetadata" THEN [audio EXCEPT !.volume = volume] ELSE audio
    /\ UNCHANGED <<src, volume, promise, refused, changes>>
SetVolume(v) ==
    /\ changes < MaxChanges
    /\ volume' = v /\ audio' = [audio EXCEPT !.volume = v] /\ changes' = changes + 1
    /\ UNCHANGED <<src, playback, promise, events, refused>>

AudioNext ==
    \/ Toggle \/ Loads \/ Starts \/ Ends \/ Breaks \/ Hear
    \/ \E s \in Sources : ChangeSource(s) \/ RefusedLate(s)
    \/ \E v \in {"silent", "normal"} : SetVolume(v)

-----------------------------------------------------------------------------
ViewerTypeOK ==
    /\ session # None => DOMAIN session.items = 1..Len(session.items)
    /\ lock \in BOOLEAN /\ guard.id \in 0..MaxOpens
    /\ history.at \in DOMAIN history.entries /\ history.pending \in 0..MaxBacks
    /\ visual.displaced \in BOOLEAN /\ playback.of \in Sources /\ refused \subseteq Sources

\* useModalHistoryGuard: closing the viewer, by Back or by anything else, never takes the
\* visitor out of the room, unless two closings or two Backs overlap, the browser refused
\* the entry, or he goes Back with no viewer open.
PageIsKept == calm => InRoom

\* The viewer shows the picture that was tapped first, among all pictures of the room once
\* each, however many taps arrive before it covers them and however the user turns its pages.
ShowsWhatWasTapped ==
    session # None =>
      /\ lock
      /\ session.index \in DOMAIN session.items
      /\ Cardinality(Range(session.items)) = Len(session.items)
      /\ Range(session.items) = Range(feed) \cap Media
      /\ ~moved => session.items[session.index] = tapped[1]

\* A video no finger holds is in its place, or the viewer was asked to close; one that is
\* dragged follows the finger without an animation.
VideoRests ==
    /\ touch = None => closing \/ ~visual.displaced
    /\ touch # None => ~visual.animated

\* Once the element has told everything, the button says whether it plays, and it sounds as
\* loud as the slider says, whatever was pressed, changed or failed meanwhile.
PlayerIsHonest ==
    events = <<>> /\ refused = {} =>
      /\ Shown.playing = (~audio.paused /\ ~audio.broken)
      /\ audio.loaded => audio.volume = volume
=============================================================================
