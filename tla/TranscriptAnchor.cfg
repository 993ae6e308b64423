SPECIFICATION Spec
CONSTANTS
  reply = reply
  reply2 = reply2
  thought = thought
  shell = shell
  monitor = monitor
  card = card
  Items <- MCItems
  Kind <- MCKind
  Anchor <- MCReplyAnchor
  Versions = {1, 2}
  None = None
  Views <- MCReplyViews
  Budget = 1
  PageSize = 2
  MaxQueue = 2
  MaxCrashes = 0
  MaxFaults = 0
INVARIANTS RowAfterItsAnchor
CHECK_DEADLOCK FALSE
