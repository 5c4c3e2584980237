SPECIFICATION Spec
CONSTANTS
    Kinds <- BlankKinds
    Allowed <- NoKinds
    AllowedAfter <- NoKinds
    Candidate = FALSE
    Lifecycle = "none"
    WriteOn <- NoKinds
    Frames = 0
    CloseOn <- NoKinds
    QueueCap = 1
    MaxStderr = 0
    Descendants = {}
    Expiries = {}
    MaxOut = 3
    MaxErr = 0
INVARIANTS
    WholeStreamAdmitted
