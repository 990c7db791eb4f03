SPECIFICATION Spec
CONSTANTS
    Paths = {a, b}
    ReplayLines = 1
    NoState = NoState
    Corrupt = Corrupt
    NoRow = NoRow
    Width <- MCWidth
    HeadLines = 1
    DoUpdate = TRUE
    PromEnabled = TRUE
    MaxLines = 2
    MaxGens = 2
    MaxTail = 1
    MaxFailures = 1
SYMMETRY Names
INVARIANTS
    TypeOK
    CheckpointsCommitted
    StoredRowsAreTrue
    PromIsStored
    SaveAdvances
PROPERTIES
    PromNeverGoesBack
    ImplementsLoggedRows
