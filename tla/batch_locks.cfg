SPECIFICATION FairSpec
CONSTANTS
    w1 = w1
    w2 = w2
    w3 = w3
    t1 = t1
    p1 = p1
    p2 = p2
    shell = shell
    replay = replay
    NoHolder = NoHolder
    NoPath = NoPath
    NoRequest = NoRequest
    Workers <- TwoWorkers
    Targets <- OneTarget
    Paths <- OnePath
    ExclusiveClasses <- TwoClasses
    Faults = {"borrowFails", "timeout", "stopIncomplete", "async", "lateStop", "earlyStop"}
INVARIANTS
    TypeOK
    ExclusiveMutex
    ExclusiveLockAccounted
    CaptureLockAccounted
PROPERTIES
    CallReturns
    StopFreesLock
