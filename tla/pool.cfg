SPECIFICATION FairSpec
CONSTANTS
    a = a
    b = b
    c = c
    k1 = k1
    k2 = k2
    k3 = k3
    k4 = k4
    NoConn = NoConn
    Threads <- ThreeThreads
    Conns <- FourConns
    MaxConn = 2
    Uses = {"ok", "raise", "selfClose"}
INVARIANTS
    TypeOK
    SlotsAccounted
    OwnedOnce
    ConnBudget
    NoLostWakeup
    NoSocketLeak
PROPERTIES
    ImplementsBoundedPool
    AcquireReturns
