\* Input at any time.
SPECIFICATION ShellSpec
CONSTANTS
    Item <- Line
    N = 2
    MaxAdds = 4
    SHELL_BUFSIZE = 3
    Kind = {"command", "request"}
    Length = {2}
    MaxTyped = 4
    Requests = 2
INVARIANT
    NeverRepolled
CHECK_DEADLOCK FALSE
