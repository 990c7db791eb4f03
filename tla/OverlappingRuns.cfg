SPECIFICATION FairOverlapSpec
CONSTANTS
    Paths = {a}
    ReplayLines = 1
    NoState = NoState
    Corrupt = Corrupt
    NoRow = NoRow
    Width <- MCWidth
    HeadLines = 1
    DoUpdate = FALSE
    PromEnabled = TRUE
    MaxLines = 2
    MaxGens = 1
    MaxTail = 1
    MaxFailures = 1
    MaxOverlaps = 2
INVARIANTS
    CheckpointsCommitted
PROPERTIES
    ImplementsLoggedRows
    CatchesUp
