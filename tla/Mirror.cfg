\* Two tool calls on one file that others change once.
SPECIFICATION MirrorSpec
CONSTANTS
    a = a  b = b  c = c
    ToolCalls <- Two
    Original = {"original"}
    Foreign = {"foreign"}
    Parts = {"part"}
    Absent = Absent
    Unknown = Unknown
    Tools <- AllTools
    MaxMeddling = 1
SYMMETRY Same
INVARIANTS
    MirrorTypeOK
    EditKeepsItsBase
    
    SuccessIsReal
