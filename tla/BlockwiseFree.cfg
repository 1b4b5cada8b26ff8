\* Clients that overlap requests, reuse states and close at any time.
SPECIFICATION Spec
CONSTANTS
    a = a
    b = b
    c = c
    d = d
    main = main
    shell = shell
    None = None
    Transfer <- FreeTransfer
    Task <- MCTask
    TaskOf <- FreeTaskOf
    UriLen <- FreeUriLen
    HdrLen <- FreeHdrLen
    REQ_URI_MAX = 64
    BLOCKWISE_HDR_MAX = 64
    BLOCKWISE_STATES_MAX = 1
    LastBlock = 1
    Liberties = {"overlap", "reuse"}
INVARIANT
    ResolveSafe
PROPERTY
    StaleOnlyByReuse
SYMMETRY ShellSymmetry
CHECK_DEADLOCK FALSE
