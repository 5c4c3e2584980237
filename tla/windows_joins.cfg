SPECIFICATION WindowsSpec
CONSTANTS
    Queue = 1
    OutLimit = 2
    MaxChunks = 2
INVARIANTS
    JoinsEnd
CHECK_DEADLOCK FALSE
