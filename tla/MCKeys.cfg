\* Two owners rotate, by pages of two rows or row by row, while rows are written and
\* one is erased; two random keys.
SPECIFICATION MCSpec
SYMMETRY MCSymmetry
CONSTANTS
    Owners = {o1, o2}
    ChunkIds <- MCChunkIds
    MessageIds <- MCMessageIds
    BATCH = 2
    MaxKeys = 2
    MaxErased = 1
INVARIANTS
    OneActiveKey
    EveryCiphertextHasAKey
    AnnouncedRotationsHappened
    NoCircularWait
PROPERTIES
    RotationMissesOnlyShifted
    ImplementsKeyList
\* When the keys are used up and every row is written nothing is left to do.
CHECK_DEADLOCK FALSE
