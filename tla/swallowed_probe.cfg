SPECIFICATION Spec
CONSTANTS
    Tools <- ProbeAndReplay
    MaxRequests = 6
INVARIANT OkIsOwnAnswer
CHECK_DEADLOCK FALSE
