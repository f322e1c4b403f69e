SPECIFICATION FairSpec
CONSTANTS
    MaxGroup = 2
    FaceCount = 2
INVARIANTS
    TypeOK
    CameraNeverStarved
    BackPressure
    UntimedGroupExact
PROPERTIES
    EveryFaceReported
    TokenReturns
