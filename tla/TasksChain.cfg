SPECIFICATION ChainSpec
CONSTANTS
  t1 = t1
  t2 = t2
  t3 = t3
  Tasks <- MCTasksChain_Tasks
  MaxReports = 6
  MaxCrashes = 0
  MaxLoads = 1
SYMMETRY Symm
INVARIANTS NoTwoGenerations
CHECK_DEADLOCK FALSE
