SPECIFICATION ShutdownSpec
CONSTANTS
  Requests = {1, 2}
  MaxHosts = 2
INVARIANTS EveryRequestAnswered NoHostOutlivesUs
PROPERTY StuckLoopStillExits
CHECK_DEADLOCK FALSE
