SPECIFICATION RunsSpec
CONSTANTS
    Procs = {p1, p2}
    Sessions = {s1}
    None = None
    Modes = {"submit", "watch", "resume"}
    Statuses = {"completed"}
    Refusals = {"refused", "conflict"}
    MaxEvents = 1
    Ends = {"interrupt", "deadline", "crash"}
INVARIANTS
    RunsTypeOK
    Recoverable
    
    ReportedOrFree
PROPERTIES
    JournalKeepsRun
CONSTRAINT OneIsEnded
SYMMETRY Symmetry
CHECK_DEADLOCK FALSE
