SPECIFICATION FairSpec
CONSTANTS
    Unreadable = Unreadable
    NoParams = NoParams
    NoModel = NoModel
    Requests <- MCRequests
    PresentFiles <- MCPresentFiles
    ImageSizes <- MCImageSizes
    CandidateSets <- MCCandidateSets
    RawDetections <- MCRawDetections
INVARIANTS
    TypeOK
    ModelsOfTask
    ModelsOnDevice
    SkeletonSettled
    AcceptedIsUsable
    CentreIsShown
    ReportedDetections
PROPERTIES
    RequestAnswered
    CancelEnds
