SPECIFICATION Spec
CONSTANTS
    Chars <- MCChars
    Patterns <- MCPatterns
    Subjects <- MCSubjects
CHECK_DEADLOCK FALSE
INVARIANTS
    TypeOK
    GlobIsExact
    GreedyLosesNoMatch
