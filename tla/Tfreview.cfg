SPECIFICATION Spec
CONSTANTS
    Types <- MCTypes
    Addresses <- MCAddresses
    RuleIDs <- MCRuleIDs
    Bodies = {"b"}
    GlobMatches <- MCGlobMatches
    Registry <- MCRegistry
    Files <- MCFiles
    Embedded <- MCEmbedded
    Inputs <- MCInputs
    Calls <- MCCalls
CHECK_DEADLOCK FALSE
INVARIANTS
    TypeOK
    NoDestroyIsHidden
PROPERTY
    KeepsItsPromise
