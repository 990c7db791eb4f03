CONSTANTS
    k1 = k1
    k2 = k2
    k3 = k3
    s1 = s1
    s2 = s2
    s3 = s3
    c1 = c1
    c2 = c2
    Keys = {k1, k2}
    Signatures = {s1, s2, s3}
    KeyOf <- MCSpellings
    HasPrimaryKey = TRUE
    Columns = {c1, c2}
    ColumnSets <- MCColumnSets
    Absent = Absent
    Tables <- MCTables
    DoUpdate = FALSE
    BatchSize = 3
    MaxParameters = 17
    MaxRows = 5
SPECIFICATION Spec
CHECK_DEADLOCK FALSE
INVARIANTS  EveryKeyStored
