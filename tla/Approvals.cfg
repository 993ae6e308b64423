SPECIFICATION Spec
CONSTANTS
    guided = guided  odd = odd  empty = empty
    Apps <- MCApps
    Child <- MCChild
    Offers <- MCOffers
    Policy <- MCPolicy
    Stages = 2
    ElicitForm = TRUE
    FreshSession = FALSE
    HistoryFails = TRUE
    EventCap = 2
    MaxOpen = 2
    MaxRare = 1
INVARIANTS NoneForgotten DecidedOnce NoApprovalWithoutConsent OnePrompt
PROPERTY ResolvedNeverReopens
CHECK_DEADLOCK FALSE
