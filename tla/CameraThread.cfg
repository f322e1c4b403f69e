SPECIFICATION FairSpec
CONSTANTS
    FaceCount = 2
INVARIANTS
    TypeOK
    NoSleepOnToken
    SleepIsOwed
PROPERTIES
    CaptureAnswered
    StopEndsOutsideWindow
