SPECIFICATION Spec
CONSTANTS
    Paths = {a, b}
    ReplayLines = 1
    NoState = NoState
    Corrupt = Corrupt
    NoRow = NoRow
    Width <- MCWidth
    HeadLines = 1
    DoUpdate = TRUE
    PromEnabled = FALSE
    MaxLines = 1
    MaxGens = 2
    MaxTail = 1
    MaxFailures = 0
INVARIANTS
    NewNameRestarts
