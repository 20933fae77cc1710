\* Four callers contend for two members; one of them may be cancelled.
SPECIFICATION FairSpec
CONSTANTS
    c1 = c1  c2 = c2  c3 = c3  c4 = c4
    m1 = m1  m2 = m2  m3 = m3
    Callers <- Four
    Cancellable = {c1}
    Members <- Trio
    First = m1
    NoMember = NoMember
    Limit = 2
    MaxCalls = 1
INVARIANTS
    TypeOK
    OnePlace
    WithinLimit
    NoLostWakeup
PROPERTIES
    NobodyIsForgotten
    RefinesSharedMembers
