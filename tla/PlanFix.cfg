SPECIFICATION Spec
CONSTANTS
    Tests <- MCTests
    Instances <- MCInstances
CHECK_DEADLOCK FALSE
INVARIANTS
    TypeOK
    AddressesAreRead
    PriorStateIsComplete
    BuiltPlansAreRead
