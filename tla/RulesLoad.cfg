SPECIFICATION Spec
CONSTANTS
    Types <- MCTypes
    Addresses <- MCAddresses
    RuleIDs <- MCRuleIDs
    Bodies = {"b"}
    Files <- MCFiles
    GlobMatches <- MCGlobMatches
    Registry <- MCRegistry
CHECK_DEADLOCK FALSE
INVARIANTS
    TypeOK
    LoadedRulesMatchAsWritten
    IdsAreUnique
    EveryBadRuleIsNamed
