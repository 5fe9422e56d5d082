SPECIFICATION Spec
CONSTANTS
    Strings <- MCStrings
    EmptyString = ""
    Atoms <- MCAtoms
    Names <- MCNames
    WriteOnlyVersion = {"password_wo_version"}
    Boolean <- MCBoolean
    Number <- MCNumber
    AwsManaged <- MCAwsManaged
    Protocol <- MCProtocol
    Cidr <- MCCidr
    Width4 = 2
    Width6 = 1
    PrivateRanges <- MCPrivateRanges
    MaxPort = 3
    Calls <- IcmpCalls
CHECK_DEADLOCK FALSE
INVARIANT
    NewIngressIsFound
