\* Two agents whose targets derive one name, an up, a tool call and a down.
SPECIFICATION Spec
CONSTANTS
    first = first  second = second  again = again
    up = up  call = call  down = down
    srv = srv  opt = opt  other = other
    Ups = {up}
    Firsts = {first, second}
    Calls = {call}
    Downs = {down}
    Directory <- DirectoryDef
    NameOf <- NameOfDef
    SpecOf <- SpecOfDef
    Host <- HostDef
    Lands <- LandsDef
    Bare = {}
    Tilde = {}
    Candidates <- CandidatesDef
    ModeOf <- ModeOfDef
    Typed = {second}
    Fresh = {}
    MaxDeaths = 1
INVARIANTS
    ReadableUnlessTorn
    CallRunsWhereItsSessionIs
PROPERTIES
    OthersAreSpared
CHECK_DEADLOCK FALSE
