\* As many timers pending as the stream holds.
SPECIFICATION FairTimerSpec
CONSTANTS
    Item = {t1, t2, t3}
    N = 3
    MaxAdds = 3
    MaxPending = 2
INVARIANTS
    NoMisuse
    NoLeak
    NoOverflow
PROPERTY
    TimerCalls
CHECK_DEADLOCK FALSE
