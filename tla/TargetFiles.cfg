SPECIFICATION Spec
CONSTANTS
    shell = shell
    other = other
    handler = handler
    f = f
    g = g
    short = short
    long = long
    Clients = {shell, handler}
    Tier <- TierDef
    Paths = {f, g}
    Versions = {short, long}
    Size <- SizeDef
    Initially <- InitiallyDef
    Absent = Absent
    MaxCalls = 2
    MaxFaults = 2
INVARIANTS WholeUnlessTorn WritesEndCleanly ReadIsHonest
CHECK_DEADLOCK FALSE
