\* Two requests of one process and a probe over three connections.
SPECIFICATION Spec
CONSTANTS
    agent = agent  up = up  down = down
    one = one  two = two  trueCommand = trueCommand
    Users = {agent}
    Probes = {up}
    Downs = {}
    Requests = {one, two, trueCommand}
    Of <- OfDef
    Streamed = {one, two}
    MaxOverflow = 2
    MaxSessions = 1
SYMMETRY Same
INVARIANTS
    RetriedNeverRan
    RefusalIsEarned
    CloseCoversOwn
CHECK_DEADLOCK FALSE
