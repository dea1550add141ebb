CONSTANTS
    NSeq = 2
    Size = 6
    NSwa = 2
    UBatch = 2
    MaxLen = 5
    MaxNew = 2
    MaxOps = 4
    Modes <- AllModes
    EagerState = FALSE
    Lookahead = FALSE
SPECIFICATION Spec
CHECK_DEADLOCK FALSE
INVARIANTS
    Bookkeeping
    Intact
    NothingExtra
    NoGaps
    RoomIsFound
