SPECIFICATION SpecInSession
CONSTANTS
    w1 = w1
    w2 = w2
    w3 = w3
    t1 = t1
    p1 = p1
    p2 = p2
    shell = shell
    replay = replay
    NoHolder = NoHolder
    NoPath = NoPath
    NoRequest = NoRequest
    Workers <- TwoWorkers
    Targets <- OneTarget
    Paths <- OnePath
    ExclusiveClasses <- OneClass
    Faults = {"lateStop"}
INVARIANT CaptureHeldUntilStop
