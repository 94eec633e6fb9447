SPECIFICATION Spec
CONSTANTS
    w1 = w1
    w2 = w2
    w3 = w3
    t1 = t1
    p1 = p1
    p2 = p2
    shell = shell
    replay = replay
    NoHolder = NoHolder
    NoPath = NoPath
    NoRequest = NoRequest
    Workers <- TwoWorkers
    Targets <- OneTarget
    Paths <- TwoPaths
    ExclusiveClasses <- TwoClasses
    Faults = {"borrowFails", "stopBorrowFails", "timeout", "stopIncomplete", "async"}
SYMMETRY Symmetry
INVARIANTS
    TargetExclusion
    CaptureHeldUntilStop
PROPERTIES
    ImplementsArbiter
