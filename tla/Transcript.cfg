SPECIFICATION Spec
CONSTANTS
  reply = reply
  reply2 = reply2
  thought = thought
  shell = shell
  monitor = monitor
  card = card
  Items <- MCItems
  Kind <- MCKind
  Anchor <- MCAnchor
  Versions = {1, 2}
  None = None
  Views <- MCViews
  Budget = 1
  PageSize = 2
  MaxQueue = 2
  MaxCrashes = 1
  MaxFaults = 2
INVARIANTS NoRepeat SettlesOnce NothingLost AnchorOrder
CHECK_DEADLOCK FALSE
