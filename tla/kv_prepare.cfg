CONSTANTS
    NSeq = 2
    Size = 5
    NSwa = 2
    UBatch = 1
    MaxLen = 5
    MaxNew = 3
    MaxOps = 4
    Modes <- WindowOnly
    EagerState = FALSE
    Lookahead = TRUE
SPECIFICATION Spec
CHECK_DEADLOCK FALSE
PROPERTIES
    PrepareRestores
