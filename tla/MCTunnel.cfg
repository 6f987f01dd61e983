SPECIFICATION FairSpec
CONSTANTS
    MaxData = 2
    Window = 1
INVARIANTS
    TypeOK
    LostOnlyBehindAHalfClose
    EndsOnlyByAPeer
PROPERTY
    OneEndEndsAll
CHECK_DEADLOCK FALSE
