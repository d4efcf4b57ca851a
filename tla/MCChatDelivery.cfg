\* The connection: four messages, and servers that cancel it.
CONSTANTS
    MaxDeliveries = 4
    Kills = TRUE
\* The requests: a user with two tabs in the public room, two messages, two tries.
    Users = {"bob"}
    Moderators = {}
    Workers = {"tab1", "tab2"}
    Public = TRUE
    SlowCommits = FALSE
    MaxId = 2
    MaxTries = 2
SPECIFICATION MCSpec
INVARIANTS TypeOK DeliveryHolds
PROPERTIES EverythingEnds ImplementsRelay
CHECK_DEADLOCK FALSE
