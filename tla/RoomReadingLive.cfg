\* Two visits to a room of two messages, loaded one page at a time.
SPECIFICATION Spec
CONSTANTS
  OwnMessages = {2}
  MaxId = 2
  Loaded = 1
  MaxVisits = 2
  MaxFails = 1
  MaxPushes = 1
  FirstRead = 0
  FirstCount = 1
CHECK_DEADLOCK FALSE
PROPERTIES Settles
