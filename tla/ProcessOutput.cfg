\* A reader follows a process that writes up to three chunks and is killed.
SPECIFICATION OutputFairSpec
CONSTANTS
    Readers <- OneReader
    PageBytes = 2
    Retain = 3
    Sizes <- ThreeWrites
INVARIANTS
    OutputTypeOK
    OutputIsKept
    EndIsTold
PROPERTIES
    PollWakes
