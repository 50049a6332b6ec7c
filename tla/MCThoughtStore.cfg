SPECIFICATION Spec
CONSTANTS
    p1 = p1
    p2 = p2
    s1 = s1
    NoThought = NoThought
    NoProject = NoProject
    NoProc = NoProc
    Procs <- MCProcs
    Ids = {1, 2, 3, 4}
    Contents <- MCContents
    Slugs <- MCSlugs
    Batches <- MCBatches
    Edits <- MCEdits
    CandidateLimit = 2
    MaxManual = 1
SYMMETRY Symmetry
INVARIANTS TypeOK StoreIntegrity NoSilentTwins EveryCaptureCounted
PROPERTIES TrustGate CaptureTightens CommitsAreSerial
CHECK_DEADLOCK FALSE
