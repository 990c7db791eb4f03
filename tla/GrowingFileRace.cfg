SPECIFICATION Spec
CONSTANTS
    Paths = {a}
    ReplayLines = 1
    NoState = NoState
    Corrupt = Corrupt
    NoRow = NoRow
    Width <- MCWidth
    HeadLines = 1
    DoUpdate = TRUE
    PromEnabled = FALSE
    MaxLines = 2
    MaxGens = 1
    MaxTail = 1
    MaxFailures = 0
PROPERTIES
    SkippedFileIsStored
