SPECIFICATION FairSpec
CONSTANTS
    c1 = c1
    c2 = c2
    h1 = h1
    p1 = p1
    tag = tag
    shell = shell
    READ = READ
    STOP = STOP
    CAPTURE = CAPTURE
    None = None
    NoHolder = NoHolder
    Calls <- TwoCalls
    Targets <- OneHost
    Paths <- OnePath
    ExclusiveClasses <- OneClass
    Requests <- Tagged
    Tables <- TwoRows
    MaxWorkers = 2
    MaxConn = 1
    MaxHosts = 2
    Scenarios <- Alternatives
INVARIANTS
    TypeOK
    ConnectionsBounded
    NothingKept
    NeverStuck
    LoneCallServed
    LockMatchesReply
PROPERTIES
    ImplementsHostAccess
    CallReplies
