\* Lines of every kind, some too long, at any time.
SPECIFICATION FairShellSpec
CONSTANTS
    Item <- Line
    N = 2
    MaxAdds = 3
    SHELL_BUFSIZE = 3
    Kind = {"blank", "command", "request", "sleep"}
    Length = {1, 2, 3}
    MaxTyped = 3
    Requests = 2
INVARIANTS
    QueueNeverFull
    RunInOrder
    OnlyRaceRepolls
    IgnoredOnlyByLong

    
CHECK_DEADLOCK FALSE
