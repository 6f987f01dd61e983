SPECIFICATION Spec
CONSTANTS
    m1 = m1
    m2 = m2
    r1 = r1
    None = None
    Modem = {m1, m2}
    Reader = {r1}
    Limit <- MCLimit
    MaxLimit = 2
    PageSize = 2
    MaxRows = 4
    MaxTime = 1
INVARIANTS
    TypeOK
    NoRowIsSkipped
    RepeatsComeFromInserts
    DashboardHasNoGap
