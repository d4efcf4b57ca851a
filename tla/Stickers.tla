------------------------------- MODULE Stickers -------------------------------
(***************************************************************************)
(* Custom emoji.  Their catalogue loads an index per pack and the pictures    *)
(* by the chunk, on demand and once, for the views of a page and for the     *)
(* picker; an animated one is drawn by tasks of one queue, while it is seen; *)
(* the picker draws only the rows that are on the screen.                    *)
(***************************************************************************)
EXTENDS Integers, Sequences, FiniteSets, Functions

CONSTANTS Packs, PackSize,     \* the packs, how many emoji the index of one has
          MaxRefusals,         \* bound on loads refused
          Sources, MaxTasks,   \* sources an animated emoji is given, bound on its tasks
          Widths, Heights, Tops, Counts, \* the picker's grid
          Gap, MinCell, Overscan \* useVirtualEmojiGrid's defaults
StickersAssumption ==
    /\ PackSize \in Nat \ {0} /\ MaxRefusals \in Nat /\ MaxTasks \in Nat /\ 0 \notin Sources
    /\ Gap \in Nat /\ MinCell \in Nat \ {0} /\ Overscan \in Nat
    /\ Widths \cup Heights \cup Tops \cup Counts \subseteq Nat

VARIABLES known,   \* customEmojiById: what is known of each emoji
          packs,   \* loadCustomEmojiPack: none, pending or loaded
          inPack,  \* customEmojiPackCache: the emoji it has with their pictures
          chunks,  \* loadAssetChunk: none, pending or loaded
          calls,   \* loadCustomEmojiById: the calls that wait, [emoji, at]
          view,    \* CustomEmojiRenderer of each emoji: off, wait, failed or shown
          active, held, \* the picker: the pack it shows, none while closed; those it was given
          refused, refusals \* packs refused while the picker waited; counter
catalogVars == <<known, packs, inPack, chunks, calls, view, active, held, refused, refusals>>
VARIABLES src, visible, queued, tasks, anim, playing, ready, failed, poster, \* TgsLottie
          alive, canvases, made \* animations not destroyed, canvases in the container, counter
stickerVars == <<src, visible, queued, tasks, anim, playing, ready, failed, poster, alive, canvases, made>>
VARIABLES screen, drawnFor, count, frame \* the grid: the element, gridState, itemCount, a frame asked
gridVars == <<screen, drawnFor, count, frame>>
stickersVars == <<catalogVars, stickerVars, gridVars>>

-----------------------------------------------------------------------------
\* The catalogue.  One preview per pack comes with the program; a message may name an emoji that
\* no index has.  The pictures of a pack are one chunk here.
Emojis == Packs \X (1..PackSize + 1)
Pack(e) == e[1]
IsIndexed(e) == e[2] <= PackSize
IsPreview(e) == e[2] = 1

CatalogInit ==
    /\ known = [e \in Emojis |-> IF IsPreview(e) THEN "indexed" ELSE "unknown"]
    /\ packs = [p \in Packs |-> "none"] /\ chunks = [p \in Packs |-> "none"]
    /\ inPack = [p \in Packs |-> {}] /\ calls = {} /\ view = [e \in Emojis |-> "off"]
    /\ active = {} /\ held = {} /\ refused = {} /\ refusals = 0

\* What the views show once the calls of `answered` have ended.
Told(answered, after) ==
    view' = [e \in Emojis |->
               IF e \in answered /\ view[e] = "wait"
               THEN IF after[e] = "src" THEN "shown" ELSE "failed" ELSE view[e]]
Waiting(p, at) == {e \in Emojis : Pack(e) = p /\ [emoji |-> e, at |-> at] \in calls}
Calls(es, at) == {[emoji |-> e, at |-> at] : e \in es}

\* resolveIndexedEmoji, loadCustomEmojiAssetSrc, for an emoji that comes on the screen.
Mount(e) ==
    LET p == Pack(e)
    IN  /\ view[e] = "off"
        /\ \/ /\ known[e] = "src" /\ view' = [view EXCEPT ![e] = "shown"]
              /\ UNCHANGED <<known, packs, chunks, calls>>
           \/ /\ known[e] = "indexed" /\ chunks[p] = "loaded"
              /\ view' = [view EXCEPT ![e] = "shown"] /\ known' = [known EXCEPT ![e] = "src"]
              /\ UNCHANGED <<packs, chunks, calls>>
           \/ /\ known[e] = "indexed" /\ chunks[p] # "loaded"
              /\ chunks' = [chunks EXCEPT ![p] = "pending"]
              /\ calls' = calls \cup Calls({e}, "asset") /\ view' = [view EXCEPT ![e] = "wait"]
              /\ UNCHANGED <<known, packs>>
           \/ /\ known[e] \in {"unknown", "stub"} /\ packs[p] # "loaded"
              /\ known' = [known EXCEPT ![e] = "stub"] /\ packs' = [packs EXCEPT ![p] = "pending"]
              /\ calls' = calls \cup Calls({e}, "pack") /\ view' = [view EXCEPT ![e] = "wait"]
              /\ UNCHANGED chunks
           \/ /\ known[e] \in {"unknown", "stub"} /\ packs[p] = "loaded"
              /\ known' = [known EXCEPT ![e] = "unknown"] /\ view' = [view EXCEPT ![e] = "failed"]
              /\ UNCHANGED <<packs, chunks, calls>>
        /\ inPack' = IF known'[e] = "src" /\ packs[p] = "loaded"
                     THEN [inPack EXCEPT ![p] = @ \cup {e}] ELSE inPack
        /\ UNCHANGED <<active, held, refused, refusals>>
Unmount(e) ==
    /\ view[e] # "off" /\ view' = [view EXCEPT ![e] = "off"]
    /\ UNCHANGED <<known, packs, inPack, chunks, calls, active, held, refused, refusals>>

Remembered_Fault(p) == [e \in Emojis |-> IF Pack(e) = p /\ IsIndexed(e) THEN "indexed" ELSE known[e]]
\* rememberLoadedPack: a picture that is known already is kept.
Remembered(p) ==
    [e \in Emojis |-> IF Pack(e) = p /\ IsIndexed(e) /\ known[e] # "src" THEN "indexed" ELSE known[e]]
\* The calls that waited go on to the picture, those for an emoji the index has not end.
PackLoaded(p) ==
    LET found == {e \in Waiting(p, "pack") : IsIndexed(e)}
        lost == Waiting(p, "pack") \ found
        late == {e \in found : chunks[p] = "loaded" \/ known[e] = "src"}
    IN  /\ packs[p] = "pending" /\ packs' = [packs EXCEPT ![p] = "loaded"]
        /\ known' = [e \in Emojis |-> IF e \in lost THEN "unknown"
                                      ELSE IF e \in late THEN "src" ELSE Remembered(p)[e]]
        /\ inPack' = [inPack EXCEPT ![p] = {e \in Emojis : Pack(e) = p /\ known'[e] = "src"}]
        /\ calls' = (calls \ Calls(found \cup lost, "pack")) \cup Calls(found \ late, "asset")
        /\ chunks' = IF found \ late # {} THEN [chunks EXCEPT ![p] = "pending"] ELSE chunks
        /\ Told(lost \cup late, known')
        /\ held' = IF p \in active \ refused THEN held \cup {p} ELSE held
        /\ UNCHANGED <<active, refused, refusals>>
PackRefused(p) ==
    /\ packs[p] = "pending" /\ refusals < MaxRefusals /\ refusals' = refusals + 1
    /\ packs' = [packs EXCEPT ![p] = "none"]
    /\ calls' = calls \ Calls(Waiting(p, "pack"), "pack") /\ Told(Waiting(p, "pack"), known)
    /\ refused' = IF p \in active THEN refused \cup {p} ELSE refused
    /\ UNCHANGED <<known, inPack, chunks, active, held>>

Patched_Fault(p, found) == inPack
\* patchResolvedEmojiIntoPack
Patched(p, found) == IF packs[p] = "loaded" THEN [inPack EXCEPT ![p] = @ \cup found] ELSE inPack
ChunkLoaded(p) ==
    LET found == Waiting(p, "asset")
    IN  /\ chunks[p] = "pending" /\ chunks' = [chunks EXCEPT ![p] = "loaded"]
        /\ known' = [e \in Emojis |-> IF e \in found THEN "src" ELSE known[e]]
        /\ inPack' = Patched(p, found)
        /\ calls' = calls \ Calls(found, "asset") /\ Told(found, known')
        /\ UNCHANGED <<packs, active, held, refused, refusals>>
ChunkRefused_Fault(p) ==
    /\ chunks[p] = "pending" /\ refusals < MaxRefusals /\ refusals' = refusals + 1
    /\ chunks' = [chunks EXCEPT ![p] = "none"] /\ calls' = calls \ Calls(Waiting(p, "asset"), "asset")
    /\ UNCHANGED <<known, packs, inPack, active, held, refused, view>>
ChunkRefused(p) ==
    /\ chunks[p] = "pending" /\ refusals < MaxRefusals /\ refusals' = refusals + 1
    /\ chunks' = [chunks EXCEPT ![p] = "none"]
    /\ calls' = calls \ Calls(Waiting(p, "asset"), "asset") /\ Told(Waiting(p, "asset"), known)
    /\ UNCHANGED <<known, packs, inPack, active, held, refused>>

\* The picker asks for the pack it turns to, unless it was given it since it was opened.
ChoosePack(p) ==
    /\ p \notin active /\ active' = {p} /\ refused' = refused \ {p}
    /\ held' = IF packs[p] = "loaded" THEN held \cup {p} ELSE held
    /\ packs' = IF packs[p] = "none" THEN [packs EXCEPT ![p] = "pending"] ELSE packs
    /\ UNCHANGED <<known, inPack, chunks, calls, view, refusals>>
ClosePicker ==
    /\ active # {} /\ active' = {} /\ held' = {} /\ refused' = {}
    /\ UNCHANGED <<known, packs, inPack, chunks, calls, view, refusals>>

CatalogNext ==
    \/ \E e \in Emojis : Mount(e) \/ Unmount(e)
    \/ \E p \in Packs : PackLoaded(p) \/ PackRefused(p) \/ ChunkLoaded(p) \/ ChunkRefused(p) \/ ChoosePack(p)
    \/ ClosePicker

-----------------------------------------------------------------------------
\* TgsLottie: one emoji, given a source and coming in and out of sight.
StickerInit ==
    /\ src \in Sources /\ visible = FALSE /\ queued = 0 /\ tasks = <<>> /\ anim = 0 /\ playing = FALSE
    /\ ready = 0 /\ failed = 0 /\ poster = [s \in Sources |-> 0] /\ alive = 0 /\ canvases = <<>> /\ made = 0
Cancelled(ts) == [i \in DOMAIN ts |-> [ts[i] EXCEPT !.cancelled = TRUE]]
\* The effect that asks for a task: none is asked for a source that is queued already.
Asks(s, seen, animated, waiting, broken, ts) ==
    IF seen /\ broken # s /\ animated = 0 /\ waiting # s /\ made < MaxTasks
    THEN /\ queued' = s /\ made' = made + 1
         /\ tasks' = Append(ts, [src |-> s, cancelled |-> FALSE, at |-> "waiting"])
    ELSE queued' = waiting /\ tasks' = ts /\ UNCHANGED made

See(seen) ==
    /\ visible # seen /\ visible' = seen
    /\ playing' = (anim # 0 /\ seen)
    /\ Asks(src, seen, anim, queued, failed, Cancelled(tasks))
    /\ UNCHANGED <<src, anim, ready, failed, poster, alive, canvases>>
\* Another source: what was drawn is destroyed and the container is emptied.
Given(s) ==
    /\ s # src /\ src' = s
    /\ anim' = 0 /\ playing' = FALSE /\ canvases' = <<>>
    /\ alive' = IF anim # 0 THEN alive - 1 ELSE alive
    /\ Asks(s, visible, 0, 0, failed, Cancelled(tasks))
    /\ UNCHANGED <<visible, ready, failed, poster>>

Task == tasks[1]
\* enqueueCustomEmojiLoadTask: a task begins when the one before it has ended.
TaskIs(at) == tasks # <<>> /\ Task.at = at
Advance(at) == tasks' = [tasks EXCEPT ![1].at = at] /\ UNCHANGED queued
Finish ==
    /\ tasks' = Tail(tasks)
    /\ queued' = IF queued = Task.src THEN 0 ELSE queued
TaskStarts ==
    /\ TaskIs("waiting") /\ IF Task.cancelled \/ ~visible THEN Finish ELSE Advance("data")
    /\ UNCHANGED <<src, visible, anim, playing, ready, failed, poster, alive, canvases, made>>
DataArrives ==
    /\ TaskIs("data")
    /\ IF Task.cancelled \/ ~visible
       THEN Finish /\ UNCHANGED <<alive, canvases>>
       ELSE Advance("dom") /\ alive' = alive + 1 /\ canvases' = Append(canvases, Task.src)
    /\ UNCHANGED <<src, visible, anim, playing, ready, failed, poster, made>>
DataRefused ==
    /\ TaskIs("data") /\ Finish
    /\ failed' = IF ~Task.cancelled /\ poster[Task.src] = 0 THEN Task.src ELSE failed
    /\ UNCHANGED <<src, visible, anim, playing, ready, poster, alive, canvases, made>>
DomReady_Fault ==
    /\ TaskIs("dom")
    /\ poster' = IF canvases # <<>> THEN [poster EXCEPT ![Task.src] = canvases[1]] ELSE poster
    /\ anim' = Task.src /\ ready' = Task.src /\ Advance("paint")
    /\ UNCHANGED <<src, visible, playing, failed, made, alive, canvases>>
\* A cancelled task destroys what it made, its canvas being the last unless the container was
\* emptied since; the picture of the first frame becomes the poster.
DomReady ==
    /\ TaskIs("dom")
    /\ IF Task.cancelled
       THEN /\ Finish /\ alive' = alive - 1
            /\ canvases' = SubSeq(canvases, 1, Len(canvases) - 1)
            /\ UNCHANGED <<anim, ready, poster>>
       ELSE /\ poster' = IF canvases # <<>> THEN [poster EXCEPT ![Task.src] = canvases[1]] ELSE poster
            /\ anim' = Task.src /\ ready' = Task.src /\ Advance("paint")
            /\ UNCHANGED <<alive, canvases>>
    /\ UNCHANGED <<src, visible, playing, failed, made>>
Painted_Fault ==
    /\ TaskIs("paint") /\ Finish /\ playing' = (anim # 0)
    /\ UNCHANGED <<src, visible, anim, ready, failed, poster, alive, canvases, made>>
Painted ==
    /\ TaskIs("paint") /\ Finish
    /\ playing' = IF Task.cancelled THEN playing ELSE visible
    /\ UNCHANGED <<src, visible, anim, ready, failed, poster, alive, canvases, made>>

StickerNext ==
    \/ \E seen \in BOOLEAN : See(seen)
    \/ \E s \in Sources : Given(s)
    \/ TaskStarts \/ DataArrives \/ DataRefused \/ DomReady \/ Painted

-----------------------------------------------------------------------------
\* useVirtualEmojiGrid.  Lengths of a row are multiplied by the number of columns.
Columns(w) == IF w = 0 THEN 1 ELSE IF w < MinCell THEN 1 ELSE (w + Gap) \div (MinCell + Gap)
Stride(w) == (IF w = 0 THEN MinCell ELSE w) + Gap
Cell(w) == Stride(w) - Gap * Columns(w)
Rows(w, n) == (n + Columns(w) - 1) \div Columns(w)
RowOf(i, w) == i \div Columns(w)
FirstRow(g) == (g.top * Columns(g.width)) \div Stride(g.width)
LastRow_Fault(g) == (g.height * Columns(g.width)) \div Stride(g.width)
LastRow(g) == ((g.top + g.height) * Columns(g.width)) \div Stride(g.width)
Items(g, n) ==
    LET start == IF FirstRow(g) > Overscan THEN FirstRow(g) - Overscan ELSE 0
        end == IF LastRow(g) + Overscan < Rows(g.width, n) THEN LastRow(g) + Overscan ELSE Rows(g.width, n) - 1
    IN  {i \in 0..n - 1 : RowOf(i, g.width) \in start..end}
TotalHeight(w, n) == IF n = 0 THEN 0 ELSE Rows(w, n) * Stride(w) - Gap * Columns(w)

GridInit ==
    /\ screen \in [width : Widths, height : Heights, top : {0}] /\ count \in Counts
    /\ drawnFor = screen /\ frame = FALSE
\* The browser keeps the list within what is drawn of it; a frame is asked for once.
Fits(g, n) == g.top * Columns(g.width) + g.height * Columns(g.width) <= TotalHeight(g.width, n) \/ g.top = 0
Scroll(g) ==
    /\ Fits(g, count) /\ g # screen /\ screen' = g /\ frame' = TRUE
    /\ UNCHANGED <<drawnFor, count>>
Frame == frame /\ drawnFor' = screen /\ frame' = FALSE /\ UNCHANGED <<screen, count>>
\* Another pack is shown from its top.
Fill(n) ==
    /\ n # count /\ count' = n /\ screen' = [screen EXCEPT !.top = 0]
    /\ frame' = (frame \/ screen' # screen) /\ UNCHANGED drawnFor
GridNext ==
    \/ \E g \in [width : Widths, height : Heights, top : Tops] : Scroll(g)
    \/ \E n \in Counts : Fill(n)
    \/ Frame

-----------------------------------------------------------------------------
StickersTypeOK ==
    /\ known \in [Emojis -> {"unknown", "stub", "indexed", "src"}]
    /\ packs \in [Packs -> {"none", "pending", "loaded"}] /\ chunks \in [Packs -> {"none", "pending", "loaded"}]
    /\ view \in [Emojis -> {"off", "wait", "failed", "shown"}]
    /\ alive \in Nat /\ Len(tasks) <= MaxTasks /\ count \in Counts

\* The catalogue: the cached pack and the emoji agree about which pictures are loaded, whichever
\* of the index and the chunk comes first, and what is on the screen with its picture is known with it.
PicturesAgree ==
    /\ \A p \in Packs : packs[p] = "loaded" => inPack[p] = {e \in Emojis : Pack(e) = p /\ known[e] = "src"}
    /\ \A e \in Emojis : view[e] = "shown" => known[e] = "src"

\* Nobody waits for nothing: an emoji on the screen without its picture is waited for by a call
\* whose loader is on its way, and so is the picker's pack unless it was refused.
WaitedForIsLoading ==
    /\ \A e \in Emojis : view[e] = "wait" => \E at \in {"pack", "asset"} : [emoji |-> e, at |-> at] \in calls
    /\ \A c \in calls : (IF c.at = "pack" THEN packs ELSE chunks)[Pack(c.emoji)] = "pending"
    /\ \A p \in active : p \in held \/ p \in refused \/ packs[p] = "pending"

\* The animated emoji: every animation that is not destroyed is the one drawn or the one its task
\* is making, so hiding, showing and giving another source leak none; what is drawn is of the
\* present source and plays only while it is seen; a poster is a frame of its own source.
OnlyTheSeenPlays ==
    /\ alive = (IF anim # 0 THEN 1 ELSE 0) + (IF TaskIs("dom") THEN 1 ELSE 0)
    /\ anim \in {0, src} /\ (playing => visible /\ anim # 0)
    /\ \A s \in Sources : poster[s] \in {0, s}

\* The grid: once the frame asked for has come, every emoji on the screen is among those drawn,
\* and none is drawn below the height the list is given.
TheVisibleIsDrawn ==
    ~frame =>
      LET w == screen.width
          cols == Columns(w)
      IN  \A i \in 0..count - 1 :
            LET above == RowOf(i, w) * Stride(w)
            IN  /\ (above < (screen.top + screen.height) * cols /\ above + Cell(w) > screen.top * cols)
                     => i \in Items(drawnFor, count)
                /\ above + Cell(w) <= TotalHeight(w, count)
=============================================================================
