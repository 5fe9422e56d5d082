SPECIFICATION Spec
CONSTANTS
    Strings <- MCStrings
    EmptyString = ""
    Atoms <- MCAtoms
    Changes <- MCChanges
CHECK_DEADLOCK FALSE
INVARIANTS
    TypeOK
    NoSecretShown
    MarkedLeavesAreMasked
    ReadersAgreeWithDiff
    ReadableValuesAreClean
    DiffIsExact
    ChangedIffDifferent
    UnknownIsChanged
    BlocksStayTogether
    ListsAreInOrder
