SPECIFICATION FairSpec
CONSTANTS
    Configs <- MCConfigs
    Requests <- MCRequests
    RuleTexts <- MCRuleTexts
    Usages <- MCUsages
    Extras <- MCExtras
    Generates = 1
    PostRetries = 1
    NoTask = NoTask
INVARIANTS
    TypeOK
    LocalStaysLocal
    SpendIsBounded
    OutcomeIsEarned
PROPERTIES
    AuthorityIsHuman
    RunEnds
CHECK_DEADLOCK FALSE
