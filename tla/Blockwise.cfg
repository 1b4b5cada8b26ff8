\* Clients that make one request at a time and finish with a stream whose
\* state is freed before they open another; one header is too long.
SPECIFICATION FairSpec
CONSTANTS
    a = a
    b = b
    c = c
    d = d
    main = main
    shell = shell
    None = None
    Transfer <- MCTransfer
    Task <- MCTask
    TaskOf <- MCTaskOf
    UriLen <- MCUriLen
    HdrLen <- MCHdrLen
    REQ_URI_MAX = 64
    BLOCKWISE_HDR_MAX = 64
    BLOCKWISE_STATES_MAX = 2
    LastBlock = 1
    Liberties = {"send_fails"}
INVARIANTS
    PanicsOnly
    SlotsOwned
    NextReady
PROPERTIES
    TransfersEnd
    ImplementsService
CHECK_DEADLOCK FALSE
