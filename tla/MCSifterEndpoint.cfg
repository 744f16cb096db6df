SPECIFICATION Spec
CONSTANTS
    Configs <- MCEndpointConfigs
    Requests <- MCRequests
    RuleTexts <- MCRuleTexts
    Usages <- MCUsages
    Extras <- MCExtras
    Generates = 0
    PostRetries = 1
    NoTask = NoTask
INVARIANT LocalCallsStayHere
CHECK_DEADLOCK FALSE
