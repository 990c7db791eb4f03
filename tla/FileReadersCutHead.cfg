CONSTANTS
    Shapes <- MCShapes
    Fragments <- MCFragments
    Delimiters <- MCDelimiters
    Detect = Detect
    FromFile = FromFile
    Headers <- MCHeaders
    MaxSkip = 1
    Addresses = {a1, a2}
    Types = {t1, t2}
    HasTypeColumn = TRUE
    Unreadable = Unreadable
    Names = {"R", "r", "a"}
    Fold <- MCFold
    Attributes = {"u"}
    Elements <- MCElements
    Texts = {"1", "x"}
    Values = {"1"}
    Fields <- MCFields
    None = None
    MaxLines = 3
    MaxBlockLines = 5
    MaxTokens = 6
SPECIFICATION Spec
INVARIANTS
    NoRowUnderCutHead
CHECK_DEADLOCK FALSE
