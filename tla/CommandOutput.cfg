SPECIFICATION CommandSpec
CONSTANTS
    MaxRecords = 7
    MaxTrail = 4
    MarkLen = 2
    Status <- StatusDef
    Limit = 13
    Floor = 6
    Slack = 5
    MaxResults = 5
INVARIANTS StatusIsTheCommands NoPartForTheWhole
CHECK_DEADLOCK FALSE
