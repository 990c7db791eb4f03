CONSTANTS
    NFiles = 4
    w1 = w1
    w2 = w2
    w3 = w3
    Workers = {w1, w2, w3}
    NoResult = NoResult
SPECIFICATION FairSpec
CHECK_DEADLOCK FALSE
INVARIANTS
    TypeOK
    SendsAreSafe
    SendsNeverWait
PROPERTIES
    ImplementsFileQueue
    RunReturns
