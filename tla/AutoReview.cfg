SPECIFICATION ReviewFairSpec
CONSTANTS
    j1 = j1  j2 = j2
    Jobs <- MCPair
    SessionsPerHost = 2
    VerdictRetries = 1
    NoReject = {j1}
    NoOnce = {j2}
    MaxActs = 2
INVARIANTS VerdictIsOwn
PROPERTIES NoGhostDecision EveryReviewSettles
CHECK_DEADLOCK FALSE
