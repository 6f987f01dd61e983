SPECIFICATION FairSpec
CONSTANTS
    k1 = k1
    c1 = c1
    c2 = c2
    e1 = e1
    e2 = e2
    e3 = e3
    s1 = s1
    None = None
    Client = {k1}
    Conn = {c1, c2}
    Entry = {e1, e2, e3}
    Session = {s1}
    MaxAttempts = 2
INVARIANTS
    TypeOK
    FailuresAreBounded
    AnswersMatchSessions
PROPERTY
    LockoutEnds
