SPECIFICATION PartsSpec
CONSTANTS
    Parts = {"live"}
    Writers = {w1, w2}
    None = None
    Overlap = FALSE
    MaxWrites = 3
    MaxOutages = 2
    Expiry = 5
    FirstInterval = 1
    SlowStep = 2
    MaxInterval = 3
    MaxPolls = 3
    Fetchers = {f1, f2}
    Artifacts = {"a", "b"}
    FileCount = 2
    MaxFetchFaults = 1
    JobChanges = 1
    Unset = Unset
    Null = Null
    Unbound = Unbound
    Streams = {"codex", "sdk", "claude", "prime", "omp"}
    Messages <- BlankSpeech
    MaxMessages = 3
    MaxBlocks = 2
    MaxLines = 3
    Runner = run
    Cleanups = {c1, c2}
    Adapters = {"inline", "files", "prime"}
    MaxFaults = 4
    Queue = 1
    OutLimit = 2
    MaxChunks = 2
    Orders <- AllOrders
    Things <- TwoThings
    Savers = {s1, s2}
    SaveKinds = {"download", "show", "raw"}
    Manifests <- FileLists
    SizeOf <- Sizes
    MaxFile = 2
    MaxRun = 3
    Malformed = Malformed
    UserFiles <- MCUserFiles
    ProjectFiles <- MCProjectFiles
    Environments <- MCEnvironments
    FlagLists <- MCFlags
    NoText = NoText
    ConfigWriters = {u1, u2}
    Bundles <- MCBundles
    UnsetLists <- MCUnsetLists
    ConfigTexts <- MCTexts
    MaxEdits = 1
    Asks <- MCAsks
    MaxStirs = 0
    Releases = {"r1", "r2"}
    Editions = {"e1", "e2"}
    MaxUploads = 2
    ProbeKinds = {"version"}
    ProbeLimit = 1
    MaxStrays = 1
    ToolIds = {t1, t2}
    Previews = {"p1", "q"}
    Announcements = {"p1"}
    Kids <- MCKids
    Deliveries <- MCDeliveries
    Snapshots <- MCSnapshots
    MaxAsked = 1
    Nothing = Nothing
INVARIANTS
    LiveAcceptsValid
CHECK_DEADLOCK FALSE
