SPECIFICATION Spec
CONSTANTS
    a = a  b = b
    Sessions <- MCSessions
    Old <- MCOld
    Modes = {"default", "readOnly", "plan"}
    Max = 1
    Window = 1
    MaxProcs = 3
    MaxRare = 3
    MaxNow = 1
INVARIANTS ModeIsEnforced NoLeakedHost OpenIsHeld CrashFailsDeletes
PROPERTIES MovesInterruptNothing
