SPECIFICATION EndingsSpec
CONSTANTS
    Enders = {"supervisor", "runs", "login", "installed", "windows", "probe"}
    Kinds <- StartOnly
    Allowed <- NoKinds
    AllowedAfter <- NoKinds
    Candidate = FALSE
    Lifecycle = "close-after-terminal"
    WriteOn <- StartOnly
    Frames = 1
    CloseOn <- NoKinds
    QueueCap = 1
    MaxStderr = 0
    Descendants = {"quiet", "escaped"}
    Expiries = {"run"}
    MaxOut = 1
    MaxErr = 0
    Procs = {p1}
    Sessions = {s1, s2}
    None = None
    Modes = {"submit"}
    Statuses = {"completed", "cancelled"}
    Refusals = {"refused", "conflict"}
    MaxEvents = 1
    Ends = {"interrupt", "deadline", "crash"}
    Expiry = 5
    FirstInterval = 1
    SlowStep = 2
    MaxInterval = 3
    MaxPolls = 3
    Runner = run
    Cleanups = {c1, c2}
    Adapters = {"inline", "files", "prime"}
    MaxFaults = 4
    Queue = 1
    OutLimit = 1
    MaxChunks = 1
    ProbeKinds = {"version"}
    ProbeLimit = 1
    MaxStrays = 1
INVARIANTS
    PaidAndTruthful
PROPERTIES
    EverythingEnds
CHECK_DEADLOCK FALSE
