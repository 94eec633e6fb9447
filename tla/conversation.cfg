SPECIFICATION Spec
CONSTANTS
    Tools <- UnprobedTools
    MaxRequests = 8
INVARIANTS
    TypeOK
    PooledInSync
    OkIsOwnAnswer
CHECK_DEADLOCK FALSE
