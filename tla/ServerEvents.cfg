\* Two sockets, messages, handshakes and both at once.
SPECIFICATION FairServerSpec
CONSTANTS
    Item <- Event
    N = 3
    MaxAdds = 4
    Sock = {s1, s2}
    FlagSets = {{"MSG_RECV"}, {"CONN"}, {"CONN", "MSG_RECV"}}
INVARIANTS
    BoxesOwned
    OnlyMessagesOvertaken
PROPERTY
    EventsHandled
CHECK_DEADLOCK FALSE
