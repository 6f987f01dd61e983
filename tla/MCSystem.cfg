SPECIFICATION FairSystemSpec
CONSTANTS
    m1 = m1
    w1 = w1
    None = None
    Modem = {m1}
    IP = {i1}
    Worker = {w1}
    Home <- OneHome
    MaxRetries = 1
    PromptDrain = TRUE
    Request = {r1}
    Interval = 0
    Timeout = 1
    DetachTime = 0
    MaxTime = 1
PROPERTIES
    SupervisionUnaffected
    RotationUnaffected
    NotLeftDetached
    EveryRotationEnds
