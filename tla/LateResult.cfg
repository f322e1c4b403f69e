SPECIFICATION Spec
CONSTANTS
    MaxGroup = 2
    FaceCount = 2
INVARIANTS
    OneResultPerGroup
