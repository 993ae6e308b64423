\* Two calls of one session; one connection at a time, so that the limit is met.
SPECIFICATION FairSpec
CONSTANTS
  Calls = {1, 2}
  Sessions = {1}
  Tools = {"read", "write", "edit", "terminal"}
  Reads = TRUE
  MaxConnections = 1
  MaxCards = 1
  MaxCancels = 1
INVARIANTS CardIsOwn NoRunawayTerminal
PROPERTIES EveryCallEnds
CHECK_DEADLOCK FALSE
