SPECIFICATION Spec
CONSTANTS
    h1 = h1
    w1 = w1
    w2 = w2
    w3 = w3
    p1 = p1
    shell = shell
    SYSTEM = SYSTEM
    NoHolder = NoHolder
    NoJob = NoJob
    Targets <- OneHost
    Ports <- TwoPorts
    Workers <- ThreeWorkers
    Paths <- OnePath
    ExclusiveClasses <- Classes
    Modern <- FirstModern
    Scenarios <- Alternatives
SYMMETRY Symmetry
INVARIANTS
    TypeOK
    ListenerFlagged
    FlaggedListens
    RemoveSparesListener
