CONSTANTS
    r1 = r1
    read = read
    danger = danger
    Runs = {r1}
    Tools <- MCTools
    Requests <- MCRequests
    AdminStates <- MCAdminStates
    MaxToolIterations = 1
    MaxCalls = 2
SPECIFICATION FairSpec
INVARIANTS
    TypeOK
    RetentionHonoured
    ExecutionsAuthorised
    ToolAuditTrail
    EffectsAccounted
    AnswerKept
PROPERTIES
    KeepsPromise
    RunsSettle
