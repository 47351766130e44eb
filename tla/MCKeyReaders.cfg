\* What the readers of chunks assume, against a rotation: one owner is enough.
SPECIFICATION MCSpec
CONSTANTS
    Owners = {o1}
    ChunkIds <- MCChunkIds
    MessageIds <- MCMessageIds
    BATCH = 2
    MaxKeys = 1
    MaxErased = 0
INVARIANT DataStaysReadable
CHECK_DEADLOCK FALSE
