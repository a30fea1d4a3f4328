CONSTANTS
    Conns = {c1, c2}
    Channel = 1
    MaxFrames = 2
    None = None
SPECIFICATION FairSpec
INVARIANTS
    ServedWithinBounds
    AtMostOneOverrun
PROPERTIES
    ClosedIsUnregistered
    StopsWithNextClient
CHECK_DEADLOCK FALSE
