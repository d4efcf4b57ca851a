\* Signing in: a user and one with a second factor, three calls; one login,
\* two passwords with and without blanks.
CONSTANTS
    Users = {"a", "b"}
    Guarded = {"b"}
    MaxCalls = 3
    Names = {"n"}
    Words = {"p", "q"}
\* The copies of an older page of a history and of a profile, two users, one change.
    Keys = {"older", "byName"}
    MaxChanges = 1
    MaxFetches = 2
    MaxDrops = 1
\* Lookups of two subjects, three requests; a group and another one.
    Subjects = {"x", "y"}
    MaxLookups = 2
    Rooms = {"r", "s"}
    Managed = {"r", "s"}
    MaxPanelLoads = 3
    MaxUrls = 2
    MaxPanelActs = 1
\* The settings, and the counts of the wire.
    MaxImages = 3
    MaxSaves = 2
    MaxRequests = 5
    MaxUnread = 2
\* Two people, two chats with up to four files in pages of two, a zoomed portrait.
    Persons = {"a", "b"}
    MaxActs = 2
    MaxLoads = 2
    Chats = {"c", "d"}
    MaxFiles = 4
    PageSize = 2
    Base = 4
    Window = 4
    MaxZoom = 3
    Points = {0, 1, 3}
\* Who is online, and the menu of readers on small and large screens.
    MaxFaces = 1
    MaxAsks = 2
    Views = {3, 4, 8, 12}
    Sizes = {2, 3, 6}
    Gap = 1
\* The frame of the page.
    Peers = {"anna", "boris", "clara"}
    Pages = {"friends", "public", "settings"}
    MinWidth = 2
    MaxWidth = 4
    DefaultWidth = 3
    Places = {0, 1, 2, 3}
    MaxListFetches = 3
SPECIFICATION MCSpec
INVARIANTS TypesOK SessionHolds PagesHold WireHolds
PROPERTIES StepsHold
CHECK_DEADLOCK FALSE
