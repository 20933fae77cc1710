\* Three requests, up to four programs, one spare connection.
SPECIFICATION FairSpec
CONSTANTS
    r1 = r1  r2 = r2  r3 = r3
    Requests <- Three
    NoAnswer = NoAnswer
    Failed = Failed
    MaxOverflow = 1
    MaxStreams = 4
INVARIANTS
    TypeOK
    NothingIsMixedUp
    AppliedAtMostOnce
    RestartsAreOrderly
PROPERTIES
    EveryRequestReturns
