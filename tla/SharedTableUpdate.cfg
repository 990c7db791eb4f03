CONSTANTS
    NFiles = 4
    Concurrency = 3
    Keys = {1, 2, 3}
    KeysOf <- MCKeysOf
    DoUpdate = TRUE
    PromEnabled = TRUE
    NoRow = NoRow
    MaxFailures = 1
SPECIFICATION FairSpec
CHECK_DEADLOCK FALSE
INVARIANTS
    TypeOK
    PromIsWhole
PROPERTIES
    ImplementsSerialFiles
    EveryFileEnds
