SPECIFICATION Spec
CONSTANTS
    p1 = p1
    p2 = p2
    s1 = s1
    s2 = s2
    i1 = i1
    i2 = i2
    b1 = b1
    b2 = b2
    old = old
    Absent = absent
    Torn = torn
    Procs <- MCProcs
    Sessions <- MCSessions
    Installs <- MCInstalls
    Builds <- MCBuilds
    Release <- MCRelease
    Stamp <- MCStamp
    Shipped <- MCShipped
    MaxRuns = 4
    MaxFaults = 1
SYMMETRY MCSymmetry
INVARIANTS StartsOnlyVerified NothingUntrustedStays TierIsAsked
CHECK_DEADLOCK FALSE
