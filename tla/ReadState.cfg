\* An author who moderates and a reader, with two tabs between them, so that two requests
\* of one user overlap.
SPECIFICATION Spec
CONSTANTS
  Users = {"alice", "bob"}
  Moderators = {"alice"}
  Workers = {"tab1", "tab2"}
  Public = TRUE
  SlowCommits = TRUE
  MaxId = 2
  MaxTries = 2
CHECK_DEADLOCK FALSE
INVARIANTS TypeOK ReadStateHolds
PROPERTIES ReadStaysRead
