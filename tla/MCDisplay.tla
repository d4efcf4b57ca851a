----------------------------- MODULE MCDisplay -----------------------------
(***************************************************************************)
(* One run over the machines that show and edit what a room holds: the     *)
(* timeline and the receipts, a message and its menu, the draft and its     *)
(* editor, pictures (stage, collage, crop, viewer, player), the emoji and    *)
(* stickers, and the place a list keeps.  They share no state: the machine  *)
(* chosen at the start is the one that moves, and each of the others waits   *)
(* in one of its initial states.                                            *)
(***************************************************************************)
EXTENDS Integers, Sequences, FiniteSets

CONSTANTS Me, Others, Days, MaxMessages, MaxFrames, MaxReads,
          Files, Pictures, Fingers,
          Letters, Keys, Spaces, MaxLength, MaxDraft,
          Touches, Widths, MaxPictures, Long, Limits, Sides, RoundFactor,
          Attachments, Media, MaxFeed, MaxOpens, MaxBacks, Sources, MaxChanges,
          Packs, PackSize, MaxRefusals, MaxTasks, ScreenWidths, Heights, Tops, Counts, Gap,
          MinCell, Overscan,
          RowSizes, MaxList, View, Threshold

VARIABLES machine,
          messages, divider, reached, sent, receipts, typing, swept, names, frames,
          message, viewer, menu, picker, tap, touched, deaf, justDown, readers, opened, done,
          draft, sel, dom, controlled, composing, disabled, cutOff, text, span,
          mobile, half, transform, stageVisual, down, pan, pinch, dismiss, momentum, interacting,
          drawing, stageTapped, stageMoved, suppressed, click, travelled, closed,
          files, limit, cropper,
          feed, session, lock, guard, history, opens, backs, tapped, moved, calm,
          touch, visual, closing,
          src, playback, volume, audio, promise, events, refused, changes,
          known, packs, inPack, chunks, calls, view, active, held, unanswered, refusals,
          animated, visible, queued, tasks, anim, playing, ready, failed, poster, alive, canvases,
          made, screen, drawnFor, count, frame,
          list, scroll, snapshot, prepending

\* Widths and heights of pictures; <<0, 0>> is what is not known.
PictureSizes == {<<0, 0>>, <<2, 3>>, <<2, 1>>, <<5, 1>>, <<1, 3>>}

Screen == INSTANCE RoomScreen WITH known <- swept
\* A message with attachments under one finger, and one without under two.
Bubble == INSTANCE MessageBubble WITH Fingers <- {"f"}, touch <- touched
Taps == INSTANCE MessageBubble WITH Files <- {}, Pictures <- {}, touch <- touched
Editor == INSTANCE DraftEditor WITH Letters <- Keys, Spaces <- {}
Text == INSTANCE EmojiText
Stage == INSTANCE ImageStage
    WITH Fingers <- Touches, visual <- stageVisual, frame <- drawing, tapped <- stageTapped,
         moved <- stageMoved
Layout == INSTANCE PictureLayout WITH Sizes <- PictureSizes
Viewer == INSTANCE MediaViewer
Emoji == INSTANCE Stickers WITH refused <- unanswered, src <- animated, Widths <- ScreenWidths
Anchor == INSTANCE ListAnchor WITH Sizes <- RowSizes

ASSUME ShownConstants ==
    /\ Screen!ScreenAssumption /\ Bubble!BubbleAssumption /\ Taps!BubbleAssumption
    /\ Editor!EditorAssumption /\ Text!TextAssumption
    /\ Stage!StageAssumption /\ Viewer!ViewerAssumption
ASSUME LayoutConstants == Layout!LayoutAssumption
ASSUME EmojiConstants == Emoji!StickersAssumption
ASSUME AnchorConstants == Anchor!AnchorAssumption

pageVars == <<messages, divider, reached, sent, receipts>>
typingVars == <<typing, swept, names, frames>>
bubbleVars == <<message, viewer, menu, picker, tap, touched, deaf, justDown, readers, opened, done>>
editorVars == <<draft, sel, dom, controlled, composing, disabled, cutOff>>
stageVars == <<mobile, half, transform, stageVisual, down, pan, pinch, dismiss, momentum,
               interacting, drawing, stageTapped, stageMoved, suppressed, click, travelled, closed>>
gridVars == <<files, limit>>
viewerVars == <<feed, session, lock, guard, history, opens, backs, tapped, moved, calm>>
swipeVars == <<touch, visual, closing>>
audioVars == <<src, playback, volume, audio, promise, events, refused, changes>>
catalogVars == <<known, packs, inPack, chunks, calls, view, active, held, unanswered, refusals>>
stickerVars == <<animated, visible, queued, tasks, anim, playing, ready, failed, poster, alive,
                 canvases, made>>
cellVars == <<screen, drawnFor, count, frame>>
anchorVars == <<list, scroll, snapshot, prepending>>
allVars == <<machine, pageVars, typingVars, bubbleVars, editorVars, text, span, stageVars,
             gridVars, cropper, viewerVars, swipeVars, audioVars, catalogVars, stickerVars,
             cellVars, anchorVars>>

\* The drafts the machine "text" begins with, of up to MaxDraft characters, and
\* every selection in them.
Drafts ==
    LET upTo[n \in 0..MaxDraft] ==
            IF n = 0 THEN {<<>>}
            ELSE {<<>>} \cup {c \o v : c \in Text!Characters, v \in upTo[n - 1]}
    IN  upTo[MaxDraft]
TextInit ==
    /\ text \in (IF machine = "text" THEN Drafts ELSE {<<>>})
    /\ span \in [start : Text!Places(text), end : Text!Places(text)]

Machines == {"timeline", "receipts", "bubble", "taps", "editor", "text", "stage", "collage", "crop",
             "viewer", "swipe", "player", "catalog", "sticker", "cells", "anchor"}

\* A machine that is not chosen waits in the initial state named after its Init.
MCInit ==
    /\ machine \in Machines
    /\ Screen!Init
    /\ IF machine = "bubble" THEN Bubble!Init
       ELSE IF machine = "taps" THEN Taps!Init /\ message.own
       ELSE /\ message = [status |-> "sent", own |-> FALSE, text |-> TRUE, files |-> {}]
            /\ viewer = [user |-> TRUE, manager |-> FALSE] /\ menu = "closed" /\ picker = FALSE
            /\ tap = "none" /\ touched = [f \in {"f"} |-> Bubble!Up] /\ deaf = FALSE
            /\ justDown = FALSE /\ readers = FALSE /\ opened = "none" /\ done = Bubble!Nothing
    /\ Editor!Init /\ TextInit
    /\ Stage!Init /\ (machine # "stage" => ~mobile /\ half = CHOOSE w \in Widths : TRUE)
    /\ IF machine = "collage" THEN Layout!GridInit
       ELSE files = <<>> /\ limit = CHOOSE n \in Limits : TRUE
    /\ Layout!CropInit
    /\ Viewer!ViewerInit /\ (machine # "viewer" => feed = <<CHOOSE a \in Attachments : TRUE>>)
    /\ Viewer!SwipeInit
    /\ Viewer!AudioInit /\ (machine # "player" => src = CHOOSE s \in Sources : TRUE)
    /\ Emoji!CatalogInit
    /\ Emoji!StickerInit /\ (machine # "sticker" => animated = CHOOSE s \in Sources : TRUE)
    /\ Emoji!GridInit /\ (machine # "cells" => screen.width = 0 /\ screen.height = 0 /\ count = 0)
    /\ Anchor!Init /\ (machine # "anchor" => list = <<>>)

MCNext ==
    /\ UNCHANGED <<machine, text, span, gridVars, typingVars>>
    /\ IF machine = "timeline" THEN Screen!TimelineNext
       ELSE IF machine = "receipts" THEN Screen!ReceiptsNext ELSE UNCHANGED pageVars
    /\ IF machine = "bubble" THEN Bubble!Next
       ELSE IF machine = "taps" THEN Taps!Next ELSE UNCHANGED bubbleVars
    /\ IF machine = "editor" THEN Editor!Next ELSE UNCHANGED editorVars
    /\ IF machine = "stage" THEN Stage!Next ELSE UNCHANGED stageVars
    /\ IF machine = "crop" THEN Layout!CropNext ELSE UNCHANGED cropper
    /\ IF machine = "viewer" THEN Viewer!ViewerNext ELSE UNCHANGED viewerVars
    /\ IF machine = "swipe" THEN Viewer!SwipeNext ELSE UNCHANGED swipeVars
    /\ IF machine = "player" THEN Viewer!AudioNext ELSE UNCHANGED audioVars
    /\ IF machine = "catalog" THEN Emoji!CatalogNext ELSE UNCHANGED catalogVars
    /\ IF machine = "sticker" THEN Emoji!StickerNext ELSE UNCHANGED stickerVars
    /\ IF machine = "cells" THEN Emoji!GridNext ELSE UNCHANGED cellVars
    /\ IF machine = "anchor" THEN Anchor!Next ELSE UNCHANGED anchorVars

MCSpec == MCInit /\ [][MCNext]_allVars

TypesOK ==
    /\ IF machine = "taps" THEN Taps!BubbleTypeOK ELSE Bubble!BubbleTypeOK
    /\ Screen!ScreenTypeOK /\ Editor!EditorTypeOK /\ Stage!StageTypeOK
    /\ Layout!LayoutTypeOK /\ Viewer!ViewerTypeOK /\ Emoji!StickersTypeOK /\ Anchor!AnchorTypeOK

\* The timeline, the marks of reading and the menu of a message are those of the room; an edit
\* changes whole characters, and the editor shows the draft it edits.
RoomIsShown ==
    /\ Screen!TimelineIsWhole /\ Screen!MarksAreEarned
    /\ Bubble!ActsWithinRights /\ Bubble!TapsAreTaps
    /\ machine = "text" => Text!WholeEdit(text, span) /\ Text!TextSurvives(text)
    /\ Editor!ShowsItsDraft

\* Pictures are shown whole, rest within their bounds and are cut where it was chosen;
\* what plays is what is seen.
PicturesHold ==
    /\ Stage!RestsInBounds /\ Stage!ClosesOnPurpose
    /\ Layout!EveryPictureIsShown /\ Layout!CutIsTheChoice
    /\ Viewer!PageIsKept /\ Viewer!ShowsWhatWasTapped /\ Viewer!VideoRests /\ Viewer!PlayerIsHonest

\* Emoji and stickers: what is waited for is loading, what is seen is drawn.
EmojiHold ==
    /\ Emoji!PicturesAgree /\ Emoji!WaitedForIsLoading
    /\ Emoji!OnlyTheSeenPlays /\ Emoji!TheVisibleIsDrawn

\* Steps: the cut follows the picture it was chosen in, the list keeps its place.
StepsHold == Layout!CutIsNear /\ Anchor!PlaceIsKept
=============================================================================
