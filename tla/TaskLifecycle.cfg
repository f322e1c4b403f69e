SPECIFICATION FairSpec
CONSTANTS
    DetectThreads = 2
    MaxPieces = 3
INVARIANTS
    TypeOK
    ReadyBeforeAcquisition
    AtRest
    KeptCameraKeepsRows
PROPERTIES
    RequestsEnd
