SPECIFICATION FairSpec
CONSTANTS
    r1 = r1  reader = reader  closer = closer
    Reqs = {r1}
    Closers <- MCClosers
    Reader <- reader
    PipeCap = 1
    MaxNoise = 1
INVARIANTS NoStrandedWaiter OneSettler
PROPERTIES SettlesOnce NoLateDelivery DeathSettles KeepsContract
CHECK_DEADLOCK FALSE
