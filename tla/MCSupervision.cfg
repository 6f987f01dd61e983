SPECIFICATION FairSpec
CONSTANTS
    m1 = m1
    w1 = w1
    w2 = w2
    None = None
    Modem = {m1}
    IP = {i1}
    Worker = {w1, w2}
    Home <- OneHome
    MaxRetries = 3
    PromptDrain = TRUE
INVARIANTS
    TypeOK
    ProxyFollowsState
    
    ConnectedIsServed
    OnlyOrphansSurviveShutdown
PROPERTIES
    FollowsStateMachine
    ShutdownCompletes
    RemovedWorkersEnd
    StableModemIsServed
