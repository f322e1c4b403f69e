SPECIFICATION Spec
CONSTANTS
    DetectThreads = 2
    MaxPieces = 3
INVARIANTS
    OneWorkpiecePerRow
