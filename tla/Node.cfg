\* Three seconds to wait for one peer, two for many; commands and
\* events enough for a command to find what another left behind.
\* CHECK_DEADLOCK is off: with all lines and events handled the tasks sleep.
SPECIFICATION FairSpec
CONSTANTS
    DEFAULT_WAIT_TIME = 3
    LeisureWait = 2
    MaxIfces = 3
    MaxEvents = 3
    MaxLines = 4
INVARIANTS
    AwaitsAnswer
    IfcesFound
    ServerUp
    SelfUnanswered
    InputsNoticed
PROPERTY
    EventsServed
CHECK_DEADLOCK FALSE
