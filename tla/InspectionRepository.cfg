SPECIFICATION Spec
CONSTANTS
    Runs = {r1, r2}
    Groups = {g1}
    FaceCount = 2
    Defects = {scratch}
INVARIANTS
    TypeOK
    AnswerTrue
    RowsLinked
PROPERTIES
    SavesAtomically
