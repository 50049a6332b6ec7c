SPECIFICATION Spec
CONSTANTS
    p1 = p1
    p2 = p2
    NoProc = NoProc
    Procs <- MCProcs
    Exclusive = FALSE
    Found <- MCFound
    MaxCrashes = 0
INVARIANTS NextOpenCanMigrate
