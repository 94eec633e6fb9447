SPECIFICATION Spec
CONSTANTS
    c1 = c1
    c2 = c2
    t1 = t1
    v1 = v1
    i1 = i1
    i2 = i2
    i3 = i3
    i4 = i4
    None = None
    Calls <- TwoCalls
    Targets <- OneTarget
    Versions <- OneVersion
    Inodes <- FourInodes
    FileSize = 2
    Scenarios <- Overlapping
INVARIANT ReleaseVerified
