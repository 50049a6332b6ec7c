SPECIFICATION FairSpec
CONSTANTS
    r1 = r1
    r2 = r2
    c1 = c1
    c2 = c2
    s1 = s1
    s2 = s2
    NoTask = NoTask
    Requests <- MCRequests
    Closers <- MCClosers
    Sessions <- MCSessions
    MaxFailures = 1
INVARIANTS TypeOK NoSessionMissed ClosedForGood
PROPERTIES ShutdownSucceeds RequestReturns
