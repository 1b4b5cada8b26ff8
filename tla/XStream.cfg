\* A two-item queue, four items.
SPECIFICATION FairSpec
CONSTANTS
    Item = {a, b}
    N = 3
    MaxAdds = 4
INVARIANTS
    NoLostWakeup
PROPERTIES
    ImplementsChannel
    ImplementsFairChannel
CHECK_DEADLOCK FALSE
