\* One tab, one room of three messages, the second the reader's own, so that both the
\* arithmetic over foreign messages and the list have gaps.
SPECIFICATION Spec
CONSTANTS
  OwnMessages = {2}
  MaxId = 3
  Loaded = 2
  MaxVisits = 1
  MaxFails = 1
  MaxPushes = 1
  FirstRead = 0
  FirstCount = 2
CHECK_DEADLOCK FALSE
INVARIANTS TypeOK Earned ReadIsHeld 

