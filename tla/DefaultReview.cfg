SPECIFICATION Spec
CONSTANTS
    Types <- MCTypes
    Addresses <- MCAddresses
    RuleIDs <- MCRuleIDs
    Bodies <- MCBodies
    GlobMatches <- MCGlobMatches
    Registry <- MCRegistry
    Holds <- MCHolds
    Files <- MCFiles
    Embedded <- DefaultFile
    Inputs <- MCInputs
    Calls <- MCCalls
    Strings <- MCStrings
    EmptyString = ""
    Atoms <- MCAtoms
    Names <- MCNames
    WriteOnlyVersion = {"password_wo_version"}
    Boolean <- MCBoolean
    Number <- MCNumber
    AwsManaged <- MCAwsManaged
    Protocol <- MCProtocol
    Cidr <- MCCidr
    Width4 = 2
    Width6 = 1
    PrivateRanges <- MCPrivateRanges
    MaxPort = 3
CHECK_DEADLOCK FALSE
INVARIANT
    NothingIsDownplayed
    FlagsWhatTheReadmeSays
