SPECIFICATION RotationSpec
CONSTANTS
    m1 = m1
    m2 = m2
    i1 = i1
    i2 = i2
    r1 = r1
    r2 = r2
    None = None
    Modem = {m1}
    IP = {i1, i2}
    Request = {r1, r2}
    Interval = 2
    Timeout = 2
    DetachTime = 1
    MaxTime = 6
INVARIANTS
    RotationTypeOK
    CompletionsAreSpaced
    HistoryMatchesAnswers
PROPERTY RefusalsFollowSuccess
SYMMETRY Interchangeable
