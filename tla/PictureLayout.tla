---------------------------- MODULE PictureLayout ----------------------------
(***************************************************************************)
(* Two computations with pictures: the collage of the pictures of a message *)
(* and the square that is cut out of a picture for an avatar.  Lengths of    *)
(* the collage are in halves of the code's pixels, ratios above bounds in    *)
(* ten-thousandths, a normalised crop in units of 1 / ROUND_FACTOR.         *)
(***************************************************************************)
EXTENDS Integers, Sequences, FiniteSets, SequencesExt

CONSTANTS Sizes,       \* widths and heights of pictures, <<0, 0>>: not known
          MaxPictures, \* bound: different pictures in a message
          Long,        \* lengths of messages of equal pictures
          Limits,      \* useChatAttachmentMaxPerMessage
          Sides,       \* natural widths and heights of an avatar
          RoundFactor  \* ROUND_FACTOR
LayoutAssumption == RoundFactor \in Nat \ {0} /\ Sides \subseteq Nat \ {0}

VARIABLES files,  \* the attachments of the message: [image, size]
          limit,
          cropper \* [image, media, area, applied]: the crop editor
gridVars == <<files, limit>>
cropVars == <<cropper>>
layoutVars == <<files, limit, cropper>>

Least(S) == CHOOSE x \in S : \A y \in S : x =< y
Greatest(S) == CHOOSE x \in S : \A y \in S : x >= y
clamp(x, low, high) == Least({high, Greatest({low, x})})
Total(s) == FoldLeft(LAMBDA a, b : a + b, 0, s)

-----------------------------------------------------------------------------
(* The collage.                                                            *)
MaxWidth == 2000 \* GROUPED_LAYOUT_MAX_WIDTH, GROUPED_LAYOUT_MIN_WIDTH, ..._SPACING
MinWidth == 320
Spacing == 6
roundValue(n, d) == 2 * ((2 * n + d) \div (2 * d))

resolveAttachmentSize(f) == IF f.size[1] > 0 /\ f.size[2] > 0 THEN f.size ELSE <<1, 1>>
Images == SelectSeq(files, LAMBDA f : f.image)
normalizeVisibleImageLimit == Greatest({1, limit})
chunkImageItems ==
    LET n == normalizeVisibleImageLimit
    IN  [g \in 1..((Len(Images) + n - 1) \div n) |->
           SubSeq(Images, (g - 1) * n + 1, Least({g * n, Len(Images)}))]

Tile(x, y, width, height) == [x |-> x, y |-> y, width |-> width, height |-> height]
\* n / d pixels for a size s along its width, and along its height.
AtWidth(n, d, s) == roundValue(n * s[2], d * s[1])
AtHeight(n, d, s) == roundValue(n * s[1], d * s[2])

layoutTwoTopBottom(s) ==
    LET height == Least({AtWidth(1000, 1, s[1]), AtWidth(1000, 1, s[2]), roundValue(997, 2)})
    IN  <<Tile(0, 0, MaxWidth, height), Tile(0, height + Spacing, MaxWidth, height)>>

layoutTwoLeftRightEqual(s) ==
    LET width == (MaxWidth - Spacing) \div 2
        height == Least({AtWidth(997, 2, s[1]), AtWidth(997, 2, s[2]), MaxWidth})
    IN  <<Tile(0, 0, width, height), Tile(width + Spacing, 0, width, height)>>

layoutTwoLeftRight(s) ==
    LET share == s[2][1] * s[1][2]
        second == Least({Greatest({roundValue(3988, 10),
                                   roundValue(997 * share, share + s[1][1] * s[2][2])}),
                         MaxWidth - Spacing - roundValue(240, 1)})
        first == MaxWidth - second - Spacing
        height == Least({MaxWidth, AtWidth(first, 2, s[1]), AtWidth(second, 2, s[2])})
    IN  <<Tile(0, 0, first, height), Tile(first + Spacing, 0, second, height)>>

layoutThreeLeftAndOther(s) ==
    LET share == s[2][1] * s[3][2]
        third == Least({roundValue(997, 2), roundValue(997 * share, share + s[3][1] * s[2][2])})
        second == MaxWidth - third - Spacing
        right == Greatest({MinWidth, Least({roundValue(997, 2), AtHeight(third, 2, s[3]),
                                            AtHeight(second, 2, s[2])})})
        left == Least({AtHeight(1000, 1, s[1]), MaxWidth - Spacing - right})
    IN  <<Tile(0, 0, left, MaxWidth), Tile(left + Spacing, 0, right, second),
          Tile(left + Spacing, second + Spacing, right, third)>>

layoutThreeTopAndOther_Fault(s) ==
    LET first == Least({AtWidth(1000, 1, s[1]), roundValue(65802, 100)})
        width == (MaxWidth - Spacing) \div 2
        second == Least({MaxWidth - first - Spacing, AtWidth(997, 2, s[2]), AtWidth(997, 2, s[3])})
    IN  <<Tile(0, 0, MaxWidth, first), Tile(0, first + Spacing, width, second),
          Tile(width + Spacing, first + Spacing, MaxWidth - width, second)>>
layoutThreeTopAndOther(s) ==
    LET first == Least({AtWidth(1000, 1, s[1]), roundValue(65802, 100)})
        width == (MaxWidth - Spacing) \div 2
        second == Least({MaxWidth - first - Spacing, AtWidth(997, 2, s[2]), AtWidth(997, 2, s[3])})
    IN  <<Tile(0, 0, MaxWidth, first), Tile(0, first + Spacing, width, second),
          Tile(width + Spacing, first + Spacing, MaxWidth - width - Spacing, second)>>

layoutFourTopAndOther(s) ==
    LET top == Least({AtWidth(1000, 1, s[1]), roundValue(65802, 100)})
        heights == s[2][2] * s[3][2] * s[4][2]
        row == roundValue(994 * heights, (heights \div s[2][2]) * s[2][1]
                                          + (heights \div s[3][2]) * s[3][1]
                                          + (heights \div s[4][2]) * s[4][1])
        left == Greatest({MinWidth, Least({roundValue(3976, 10), AtHeight(row, 2, s[2])})})
        right == Greatest({MinWidth, roundValue(32802, 100), AtHeight(row, 2, s[4])})
        middle == MaxWidth - left - right - 2 * Spacing
        bottom == Least({MaxWidth - top - Spacing, row})
    IN  <<Tile(0, 0, MaxWidth, top), Tile(0, top + Spacing, left, bottom),
          Tile(left + Spacing, top + Spacing, middle, bottom),
          Tile(left + middle + 2 * Spacing, top + Spacing, right, bottom)>>

layoutFourLeftAndOther(s) ==
    LET left == Least({AtHeight(1000, 1, s[1]), roundValue(5982, 10)})
        widths == s[2][1] * s[3][1] * s[4][1]
        right == roundValue(994 * widths, (widths \div s[2][1]) * s[2][2]
                                           + (widths \div s[3][1]) * s[3][2]
                                           + (widths \div s[4][1]) * s[4][2])
        top == AtWidth(right, 2, s[2])
        middle == AtWidth(right, 2, s[3])
        bottom == MaxWidth - top - middle - 2 * Spacing
        stack == Greatest({MinWidth, Least({MaxWidth - left - Spacing, right})})
    IN  <<Tile(0, 0, left, MaxWidth), Tile(left + Spacing, 0, stack, top),
          Tile(left + Spacing, top + Spacing, stack, middle),
          Tile(left + Spacing, top + middle + 2 * Spacing, stack, bottom)>>

Ratio(s) == (10000 * s[1]) \div s[2]
\* The sum starts from one, as the code's does.
averageRatio(s) == (10000 + Total([i \in DOMAIN s |-> Ratio(s[i])])) \div Len(s)
cropRatios(s) ==
    [i \in DOMAIN s |-> IF averageRatio(s) > 11000 THEN clamp(Ratio(s[i]), 10000, 27500)
                        ELSE clamp(Ratio(s[i]), 6667, 10000)]

\* buildComplexLayout: rows of at most three pictures, the division of them whose
\* height is the closest to four thirds of the width.
Divisions(n, average) ==
    {rows \in UNION {[1..k -> 1..4] : k \in 2..4} :
       /\ Total(rows) = n
       /\ \A i \in DOMAIN rows :
            rows[i] =< (IF Len(rows) = 3 /\ i = 2 /\ average < 8500 THEN 4 ELSE 3)}
Before(rows, i) == Total(SubSeq(rows, 1, i - 1))
RowWidth(n) == 1000 - 3 * (n - 1)
RowRatio(ratios, rows, i) == Total(SubSeq(ratios, Before(rows, i) + 1, Before(rows, i) + rows[i]))
Excess(height) == Total(height) + 300 * (Len(height) - 1) - 133333
Badness(height, rows) == \* in hundredths of a pixel, times four
    LET low == \E i \in DOMAIN rows : height[i] < 16000
        falling == \E i \in 2..Len(rows) : rows[i - 1] > rows[i]
    IN  Greatest({Excess(height), -Excess(height)}) * (IF low THEN 3 ELSE 2) * (IF falling THEN 3 ELSE 2)
BadnessOf(ratios, rows) ==
    Badness([i \in DOMAIN rows |-> (RowWidth(rows[i]) * 1000000) \div RowRatio(ratios, rows, i)], rows)
BestDivision(ratios, all) ==
    LET least == Least({BadnessOf(ratios, a) : a \in all})
    IN  CHOOSE a \in all : BadnessOf(ratios, a) = least

\* The tile of picture k, which is in row i.
Height(ratios, rows, i) == roundValue(RowWidth(rows[i]) * 10000, RowRatio(ratios, rows, i))
Width(ratios, rows, i, k) == roundValue(ratios[k] * RowWidth(rows[i]), RowRatio(ratios, rows, i))
PlaceInRow(ratios, rows, k, i, before) ==
    LET left == Total([j \in 1..(k - before - 1) |-> Width(ratios, rows, i, before + j) + Spacing])
        top == Total([j \in 1..(i - 1) |-> Height(ratios, rows, j) + Spacing])
    IN  Tile(left, top, IF k = before + rows[i] THEN MaxWidth - left ELSE Width(ratios, rows, i, k),
             Height(ratios, rows, i))
layoutRows(ratios, rows) ==
    LET Row(k) == CHOOSE i \in DOMAIN rows : Before(rows, i) < k /\ k =< Before(rows, i + 1)
    IN  [k \in DOMAIN ratios |-> PlaceInRow(ratios, rows, k, Row(k), Before(rows, Row(k)))]

buildComplexLayout(s) ==
    LET all == Divisions(Len(s), averageRatio(s))
    IN  IF all = {} THEN <<>>
        ELSE layoutRows(cropRatios(s), BestDivision(cropRatios(s), all))

Wide(s) == Ratio(s) > 12000
Narrow(s) == Ratio(s) < 8000
Distance(a, b) == IF a > b THEN a - b ELSE b - a

\* layoutMediaGroup; a picture alone fills its container.
buildMediaTileLayout(group) ==
    LET s == [i \in DOMAIN group |-> resolveAttachmentSize(group[i])]
        n == Len(s)
    IN  CASE n = 0 -> <<>>
          [] n = 1 -> <<Tile(0, 0, MaxWidth, MaxWidth)>>
          [] n >= 5 \/ (n > 1 /\ \E i \in DOMAIN s : Ratio(s[i]) > 20000) -> buildComplexLayout(s)
          [] n = 2 /\ (\A i \in DOMAIN s : Ratio(s[i]) =< 20000) ->
               IF Wide(s[1]) /\ Wide(s[2])
               THEN IF averageRatio(s) > 14000 /\ Distance(Ratio(s[1]), Ratio(s[2])) < 2000
                    THEN layoutTwoTopBottom(s) ELSE layoutTwoLeftRightEqual(s)
               ELSE IF \A i \in 1..2 : ~Wide(s[i]) /\ ~Narrow(s[i])
                    THEN layoutTwoLeftRightEqual(s) ELSE layoutTwoLeftRight(s)
          [] n = 3 /\ (\A i \in DOMAIN s : Ratio(s[i]) =< 20000) ->
               IF Narrow(s[1]) THEN layoutThreeLeftAndOther(s) ELSE layoutThreeTopAndOther(s)
          [] n = 4 /\ (\A i \in DOMAIN s : Ratio(s[i]) =< 20000) ->
               IF Wide(s[1]) THEN layoutFourTopAndOther(s) ELSE layoutFourLeftAndOther(s)

-----------------------------------------------------------------------------
(* The square of an avatar.                                                *)
Unknown == <<0, 0>>
NoArea == [x |-> 0, y |-> 0, width |-> 0, height |-> 0]
FULL_AVATAR_CROP == [x |-> 0, y |-> 0, width |-> RoundFactor, height |-> RoundFactor]

\* toRoundedNormalizedCrop along one side of n pixels; lengths are given doubled.
Rounded(from, length, n) ==
    LET size == clamp(length * RoundFactor, 2 * n, 2 * n * RoundFactor)
        start == clamp(from * RoundFactor, 0, 2 * n * RoundFactor - size)
        R(v) == (v + n) \div (2 * n)
        rounded == clamp(R(size), 1, RoundFactor)
    IN  [from |-> clamp(R(start), 0, RoundFactor - rounded), size |-> rounded]
NormalizedCrop(x, y, side, media) ==
    LET h == Rounded(x, 2 * side, media[1])
        v == Rounded(y, 2 * side, media[2])
    IN  [x |-> h.from, y |-> v.from, width |-> h.size, height |-> v.size]

buildAvatarCropFromArea(area, media) ==
    LET width == clamp(area.width, 1, media[1])
        height == clamp(area.height, 1, media[2])
        side == Least({width, height, media[1], media[2]})
        Start(from, length, n) == clamp(clamp(2 * from + length, 0, 2 * n) - side, 0, 2 * (n - side))
    IN  CASE media = Unknown -> FULL_AVATAR_CROP
          [] media # Unknown /\ area = NoArea -> \* buildCenteredAvatarCrop
               LET whole == Least({media[1], media[2]})
               IN  NormalizedCrop(media[1] - whole, media[2] - whole, whole, media)
          [] media # Unknown /\ area # NoArea ->
               NormalizedCrop(Start(area.x, width, media[1]), Start(area.y, height, media[2]), side, media)

normalizeAvatarCrop(c) ==
    /\ c.x >= 0 /\ c.y >= 0 /\ c.width > 0 /\ c.height > 0
    /\ c.x < RoundFactor /\ c.y < RoundFactor /\ c.width =< RoundFactor /\ c.height =< RoundFactor
    /\ c.x + c.width =< RoundFactor + 1 /\ c.y + c.height =< RoundFactor + 1

\* resolveAvatarCropSourceRect: the size in 1 / RoundFactor pixels, the corner in halves of it.
SourceRect_Fault(c, image) ==
    LET width == clamp(c.width * image[1], RoundFactor, image[1] * RoundFactor)
        height == clamp(c.height * image[2], RoundFactor, image[2] * RoundFactor)
        size == Greatest({RoundFactor, width, height})
        Start(from, length, n) ==
            LET centre == clamp(2 * from * n + length, 0, 2 * n * RoundFactor)
            IN  clamp(centre - size, 0, Greatest({0, 2 * (n * RoundFactor - size)}))
    IN  [x |-> Start(c.x, width, image[1]), y |-> Start(c.y, height, image[2]), size |-> size]
SourceRect(c, image) ==
    LET width == clamp(c.width * image[1], RoundFactor, image[1] * RoundFactor)
        height == clamp(c.height * image[2], RoundFactor, image[2] * RoundFactor)
        size == Greatest({RoundFactor, Least({width, height})})
        Start(from, length, n) ==
            LET centre == clamp(2 * from * n + length, 0, 2 * n * RoundFactor)
            IN  clamp(centre - size, 0, Greatest({0, 2 * (n * RoundFactor - size)}))
    IN  [x |-> Start(c.x, width, image[1]), y |-> Start(c.y, height, image[2]), size |-> size]

GridInit ==
    /\ limit \in Limits
    /\ files \in UNION ({[1..n -> [image : BOOLEAN, size : Sizes]] : n \in 0..2}
                          \cup {[1..n -> [image : {TRUE}, size : Sizes]] : n \in 3..MaxPictures}
                          \cup {{[i \in 1..n |-> [image |-> TRUE, size |-> size]] : size \in Sizes} : n \in Long})
CropInit ==
    cropper = [image |-> Unknown, media |-> Unknown, area |-> NoArea,
               applied |-> FULL_AVATAR_CROP, cut |-> NoArea]
Init == GridInit /\ CropInit

\* Another picture: what is known of the last one is forgotten.
ShowImage_Fault(image) ==
    /\ cropper' = [cropper EXCEPT !.image = image, !.media = Unknown, !.cut = NoArea]
    /\ UNCHANGED <<files, limit>>
ShowImage(image) ==
    /\ cropper' = [image |-> image, media |-> Unknown, area |-> NoArea,
                   applied |-> FULL_AVATAR_CROP, cut |-> NoArea]
    /\ UNCHANGED <<files, limit>>
MediaLoaded ==
    /\ cropper.image # Unknown
    /\ cropper' = [cropper EXCEPT !.media = cropper.image]
    /\ UNCHANGED <<files, limit>>
\* The cropper reports a rectangle of the picture it has loaded.
CropComplete(area) ==
    /\ cropper.media # Unknown
    /\ area.x + area.width =< cropper.media[1] /\ area.y + area.height =< cropper.media[2]
    /\ cropper' = [cropper EXCEPT !.area = area]
    /\ UNCHANGED <<files, limit>>
\* onApply, and cropAvatarImageFile of the file behind the picture.
Apply ==
    /\ cropper.image # Unknown
    /\ LET crop == buildAvatarCropFromArea(cropper.area, cropper.media)
       IN  cropper' = [cropper EXCEPT !.applied = crop, !.cut = SourceRect(crop, cropper.image)]
    /\ UNCHANGED <<files, limit>>

Areas == [x : 0..(Greatest(Sides) - 1), y : 0..(Greatest(Sides) - 1), width : Sides, height : Sides]
CropNext ==
    \/ \E w, h \in Sides : ShowImage(<<w, h>>)
    \/ MediaLoaded \/ Apply
    \/ \E area \in Areas : CropComplete(area)
Next == CropNext
Spec == Init /\ [][Next]_layoutVars

-----------------------------------------------------------------------------
LayoutTypeOK ==
    /\ limit \in Limits /\ \A i \in DOMAIN files : files[i].image \in BOOLEAN
    /\ cropper.image \in (Sides \X Sides) \cup {Unknown}
    /\ cropper.media \in {cropper.image, Unknown}

Apart(a, b) == a.x + a.width =< b.x \/ b.x + b.width =< a.x
                 \/ a.y + a.height =< b.y \/ b.y + b.height =< a.y
AreTiles(tiles, n) ==
    /\ Len(tiles) = n
    /\ \A i \in DOMAIN tiles :
         /\ tiles[i].x >= 0 /\ tiles[i].y >= 0 /\ tiles[i].width > 0 /\ tiles[i].height > 0
         /\ tiles[i].x + tiles[i].width =< MaxWidth
    /\ \A i, j \in DOMAIN tiles : i < j => Apart(tiles[i], tiles[j])
Fits(group) == AreTiles(buildMediaTileLayout(group), Len(group))

(***************************************************************************)
(* Every picture of a message gets a tile of some size inside the collage    *)
(* that covers no other, whatever its proportions (buildMediaTileLayout).   *)
(***************************************************************************)
TilesFit == \A g \in DOMAIN chunkImageItems : Fits(chunkImageItems[g])

(***************************************************************************)
(* No picture is lost by the groups, no group is over the limit, and for    *)
(* groups of at most twelve pictures that are at most three times as high   *)
(* as wide the tiles fit (splitAttachmentRenderItems, chunkImageItems,      *)
(* layoutMediaGroup).                                                       *)
(***************************************************************************)
Ordinary(group) ==
    /\ Len(group) =< 12
    /\ \A i \in DOMAIN group : LET s == resolveAttachmentSize(group[i]) IN s[2] =< 3 * s[1]
EveryPictureIsShown ==
    /\ FoldLeft(LAMBDA a, g : a \o g, <<>>, chunkImageItems) = Images
    /\ \A g \in DOMAIN chunkImageItems :
         /\ Len(chunkImageItems[g]) \in 1..normalizeVisibleImageLimit
         /\ Ordinary(chunkImageItems[g]) => Fits(chunkImageItems[g])

(***************************************************************************)
(* The crop that is sent is one the reading side accepts, and what is cut   *)
(* out is a square inside this very picture: the chosen one, up to rounding *)
(* (AvatarCropModal, buildAvatarCropFromArea, cropAvatarImageFile).         *)
(***************************************************************************)
CutIsTheChoice ==
    cropper.cut # NoArea =>
      LET cut == cropper.cut
          n == cropper.image
          Inside(from, length) == from >= 0 /\ from + 2 * cut.size =< 2 * length * RoundFactor
      IN  /\ normalizeAvatarCrop(cropper.applied)
          /\ cut.size >= RoundFactor /\ Inside(cut.x, n[1]) /\ Inside(cut.y, n[2])
CutIsNear ==
    [][Apply /\ cropper.area # NoArea /\ cropper.area.width = cropper.area.height =>
        LET n == cropper.image
            cut == cropper'.cut
            area == cropper.area
        IN  /\ Distance(cut.size, area.width * RoundFactor) =< Greatest({n[1], n[2]})
            /\ Distance(cut.x, 2 * area.x * RoundFactor) =< 3 * n[1] + n[2]
            /\ Distance(cut.y, 2 * area.y * RoundFactor) =< 3 * n[2] + n[1]]_layoutVars
=============================================================================
