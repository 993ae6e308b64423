SPECIFICATION Spec
CONSTANTS
    q1 = q1  q2 = q2  q3 = q3
    Prompts <- MCPair
    Versions = {1, 2}
    ViewCap = 3
    MaxTurns = 3
    MaxSteers = 1
    MaxCrashes = 1
SYMMETRY MCSymmetry
INVARIANTS AnsweredOnce NoHangingPrompt StopReachesAll
PROPERTY IdleMeansDone
CHECK_DEADLOCK FALSE
