SPECIFICATION Spec
CONSTANTS
    Types <- MCTypes
    Addresses <- MCAddresses
    RuleIDs <- MCRuleIDs
    Bodies = {"b"}
    Plans <- MCPlans
    RuleSets <- MCRuleSets
CHECK_DEADLOCK FALSE
INVARIANTS
    TypeOK
    SeverityIsHighest
    MatchesFollowTheRules
PROPERTY
    ReviewsEveryChange
