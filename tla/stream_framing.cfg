CONSTANTS
    empty = empty
    short = short
    full = full
    over = over
    twice = twice
    None = None
    Blob = {empty, short, full, over, twice}
    Size <- Sizes
    ChunkSize = 2
    MaxBlobs = 3
SPECIFICATION Spec
INVARIANTS WrittenInOrder NoMismatch AllDelivered
CHECK_DEADLOCK FALSE
