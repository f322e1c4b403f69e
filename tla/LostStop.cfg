SPECIFICATION FairSpec
CONSTANTS
    FaceCount = 2
PROPERTIES
    StopTerminates
