SPECIFICATION Spec
CONSTANTS
    Strings <- MCStrings
    EmptyString = ""
    Atoms <- MCAtoms
    Changes <- MaskedFamily
CHECK_DEADLOCK FALSE
INVARIANT
    MaskedOnBothSides
