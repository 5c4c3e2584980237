SPECIFICATION RunsSpec
CONSTANTS
    Procs = {p1}
    Sessions = {s1}
    None = None
    Modes = {"submit"}
    Statuses = {"completed", "cancelled"}
    Refusals = {"refused", "conflict"}
    MaxEvents = 0
    Ends = {}
INVARIANTS
    UnconfirmedIsAmbiguous
CHECK_DEADLOCK FALSE
