SPECIFICATION FairSpec
CONSTANTS
    Stream = {s1, s2}
    Publisher = {p1, p2}
    Capacity = 1
    MaxEvents = 2
INVARIANTS
    TypeOK
    NeverSendsOnClosed
    EveryClientIsOffered
    NothingTwice
PROPERTIES
    BroadcastsEnd
    StreamsEnd
CHECK_DEADLOCK FALSE
