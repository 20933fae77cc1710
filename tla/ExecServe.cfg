\* The handshake and up to four requests about one path and one process.
SPECIFICATION FairSpec
CONSTANTS
    Keys <- OnePath
    Procs <- OneProcess
    MaxRequests = 5
    Offers <- FiveRequests
INVARIANTS
    TypeOK
    WireOrderIsKept
    TailsAreLive
PROPERTIES
    QueuesMove
