\* The timeline: one message of history, one more, a page of one message.
CONSTANTS
    History = 1
    MaxId = 2
    MaxText = 1
    MaxWire = 3
    MaxMoves = 4
    PageSize = 1
    Keys = {"k"}
\* The inbox: a dialog and a group, two messages, clocks that agree.
    OwnMessages = {}
    Dialogs = {"d"}
    Groups = {"g"}
    Skew = 0
    MaxTime = 2
    MaxEvents = 3
    MaxFrames = 1
    MaxMarks = 1
SPECIFICATION MCSpec
INVARIANTS TypesOK  Converges 
CHECK_DEADLOCK FALSE
