\* Two tasks with a request in flight each.
SPECIFICATION Spec
CONSTANTS
    a = a
    b = b
    c = c
    d = d
    main = main
    shell = shell
    None = None
    Transfer <- MCTransfer
    Task <- MCTask
    TaskOf <- MCTaskOf
    UriLen <- MCUriLen
    HdrLen <- MCHdrLen
    REQ_URI_MAX = 64
    BLOCKWISE_HDR_MAX = 64
    BLOCKWISE_STATES_MAX = 2
    LastBlock = 1
    Liberties = {"overlap"}
INVARIANT
    StreamEmptyOnAdd
CHECK_DEADLOCK FALSE
