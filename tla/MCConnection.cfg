\* The socket: two rooms, two tokens, two retries.
CONSTANTS
    Rooms = {"a", "b"}
    Urls = {"u", "v"}
    MaxRetries = 2
    MaxOutbox = 4
\* The upload: files of two chunks and of one, one recovery attempt per chunk.
    Size <- TwoFiles
    ChunkSize = 2
    MaxRecovery = 1
\* The composer: a message, three files of which one is too big, two uploads.
    Messages = {"m"}
    Files = {"f", "g", "big"}
    TooBig = {"big"}
    Limit = 1
    Superuser = FALSE
    MaxUploads = 2
\* The notices: three of them, two at a time, two rooms.
    MaxVisible = 2
    MaxToasts = 3
    MaxVisits = 2
    MaxChanges = 2
\* The typing line: two others, five frames.
    Me = "me"
    Others = {"a", "b"}
    Days = {0}
    MaxMessages = 0
    MaxFrames = 5
    MaxReads = 0
\* The page: two users, one of them with a second factor, two calls.
    Users = {"p", "q"}
    Guarded = {"q"}
    MaxCalls = 2
    Names = {"n"}
    Words = {"w"}
SPECIFICATION MCSpec
INVARIANTS TypesOK ConnectionHolds UploadHolds PageIsHonest
PROPERTIES EverythingEnds
CHECK_DEADLOCK FALSE
