SPECIFICATION Spec
CONSTANTS
    Kinds <- PrimeKinds
    Allowed <- PrimeAllowed
    AllowedAfter <- NoKinds
    Candidate = TRUE
    Lifecycle = "close-after-terminal"
    WriteOn <- StartOnly
    Frames = 1
    CloseOn <- AckOnly
    QueueCap = 1
    MaxStderr = 0
    Descendants = {"group"}
    Expiries = {"cancel", "run"}
    MaxOut = 2
    MaxErr = 0
INVARIANTS
    TypeOK
    NothingLeftBehind
    OkIsEarned
PROPERTIES
    Settled
CONSTRAINT OneExpiry
