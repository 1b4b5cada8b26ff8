\* Two peers, so that one waits, or is refused, while the other is served.
\* CHECK_DEADLOCK is off: a second start on a running thread's stack ends it.
SPECIFICATION FairSpec
CONSTANTS
    c1 = c1
    c2 = c2
    None = None
    Conn = {c1, c2}
    HexData <- MCHexData
    RecvMbox = 2
    MaxInputs = 5
    MaxNum = 1
INVARIANTS
    ServedPerEvent
    
    HexPairs
PROPERTY
    SlotFreed
CHECK_DEADLOCK FALSE
