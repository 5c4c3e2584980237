SPECIFICATION Spec
CONSTANTS
    Kinds <- OmpKinds
    Allowed <- OmpAllowed
    AllowedAfter <- AckOnly
    Candidate = FALSE
    Lifecycle = "close-after-terminal"
    WriteOn <- StartOnly
    Frames = 1
    CloseOn <- NoKinds
    QueueCap = 1
    MaxStderr = 0
    Descendants = {"escaped"}
    Expiries = {"startup"}
    MaxOut = 3
    MaxErr = 1
INVARIANTS
    RetainedStdin
    StreamIsAdmitted
