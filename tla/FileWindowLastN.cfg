CONSTANTS
    Mode = "last_n_files"
    LastNFiles = 2
    NamesAscend = TRUE
    HoldsLastLine = TRUE
    DoUpdate = FALSE
    MaxFiles = 3
    MaxLines = 2
    MaxClock = 2
    MaxFailures = 1
SPECIFICATION FairSpec
INVARIANTS
    RowsAreFinal
    NothingLeftBehind
PROPERTIES
    CatchesUp
