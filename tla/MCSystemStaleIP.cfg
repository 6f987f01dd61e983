SPECIFICATION SystemSpec
CONSTANTS
    m1 = m1
    w1 = w1
    None = None
    Modem = {m1}
    IP = {i1, i2}
    Worker = {w1}
    Home <- OneHome
    MaxRetries = 1
    PromptDrain = TRUE
    Request = {r1}
    Interval = 0
    Timeout = 2
    DetachTime = 1
    MaxTime = 3
INVARIANT RotationMovesProxy
