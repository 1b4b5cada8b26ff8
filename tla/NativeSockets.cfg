\* Three sockets, so that starts that fail use them up; a buffer of three bytes.
SPECIFICATION Spec
CONSTANTS
    Fd = {3, 4, 5}
    SERVER_BUFFER_SIZE = 3
    MaxReceived = 3
    MaxNum = 2
INVARIANTS
    OneServer
    FdsAccounted
    PrintedTail
\* Once the descriptors are used up and the bounds reached nothing may happen.
CHECK_DEADLOCK FALSE
