SPECIFICATION FairSpec
CONSTANTS
    Texts <- MCTexts
    EndOfLine = EndOfLine
    MaxLine = 2
    WireSize = 4
    FaceCount = 4
INVARIANTS
    TypeOK
    PictureOfItsFace
    SessionIsClosed
PROPERTIES
    StopEnds
