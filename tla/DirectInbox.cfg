\* Two direct rooms and two tabs, with a request thread.
SPECIFICATION Spec
CONSTANTS
  NoRoom = NoRoom
  NoTab = NoTab
  Rooms = {roomA, roomB}
  Tabs = {tab1, tab2}
  HttpWorkers = {thread}
  ActiveTTL = 2
  IdleTimeout = 2
  MaxUnread = 1
SYMMETRY Symmetry
INVARIANTS TypeOK 
PROPERTIES LeavingKeepsOthersRoom
