\* The timeline: one other author, two days; the message: two attachments, two fingers.
CONSTANTS
    Me = "me"
    Others = {"a"}
    Days = {0, 1, 2}
    MaxMessages = 3
    MaxFrames = 0
    MaxReads = 2
    Files = {"p", "d"}
    Pictures = {"p"}
    Fingers = {"f", "g"}
\* The text: a letter, a blank and a line break, in drafts of three characters;
\* the editor types one letter, tokens and pairs.
    Letters = {"a", "sp", "nl"}
    Keys = {"a"}
    Spaces = {"sp", "nl"}
    MaxLength = 2
    MaxDraft = 3
\* The stage: three fingers, two widths; the collage: up to four different pictures, or 5 to 12
\* of one kind; the crop of pictures of up to four by four.
    Touches = {"f", "g", "h"}
    Widths = {1, 2}
    MaxPictures = 4
    Long = {5, 7, 10, 12}
    Limits = {3, 10}
    Sides = {1, 3, 4}
    RoundFactor = 10
\* The viewer: three attachments, two of them shown in it; the player: two sources.
    Attachments = {1, 2, 3}
    Media = {1, 2}
    MaxFeed = 3
    MaxOpens = 2
    MaxBacks = 2
    Sources = {1, 2}
    MaxChanges = 4
\* The emoji: two packs of one, or a grid of up to eight cells.
    Packs = {"p", "q"}
    PackSize = 1
    MaxRefusals = 1
    MaxTasks = 3
    ScreenWidths = {0, 5, 7}
    Heights = {0, 3, 7}
    Tops = {0, 1, 5, 9}
    Counts = {0, 1, 5, 8}
    Gap = 1
    MinCell = 2
    Overscan = 1
\* The list: up to three messages of two heights.
    RowSizes = {1, 3}
    MaxList = 3
    View = 3
    Threshold = 1
SPECIFICATION MCSpec
INVARIANTS TypesOK RoomIsShown PicturesHold EmojiHold
PROPERTIES StepsHold
CHECK_DEADLOCK FALSE
