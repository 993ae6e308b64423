SPECIFICATION TasksSpec
CONSTANTS
  t1 = t1
  t2 = t2
  Tasks <- MCTasks_Tasks
  MaxReports = 4
  MaxCrashes = 1
  MaxLoads = 1
SYMMETRY Symm
INVARIANTS NoStuckTask NoTwoGenerations
CHECK_DEADLOCK FALSE
