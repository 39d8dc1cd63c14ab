CONSTANTS
    d1 = d1
    a1 = a1
    p1 = p1
    None = None
    Dialed = {d1}
    Accepted = {a1}
    Pollers = {p1}
    Ends <- TwoAndOne
    BufLen = 2
    MaxSends = 1
    Faults = 1
SPECIFICATION FairSpec
INVARIANTS TypeOK StreamKept PopArguments Watched OneAccept
PROPERTIES SentIsRead
CHECK_DEADLOCK FALSE
