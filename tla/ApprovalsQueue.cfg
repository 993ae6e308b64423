SPECIFICATION Spec
CONSTANTS
    guided = guided  odd = odd  empty = empty
    Apps <- MCApps
    Child <- MCOddChild
    Offers <- MCOffers
    Policy <- MCPolicy
    Stages = 2
    ElicitForm = TRUE
    FreshSession = TRUE
    HistoryFails = FALSE
    EventCap = 2
    MaxOpen = 2
    MaxRare = 0
INVARIANT QueueIsShown
CHECK_DEADLOCK FALSE
