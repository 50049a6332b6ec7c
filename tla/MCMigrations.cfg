SPECIFICATION FairSpec
CONSTANTS
    p1 = p1
    p2 = p2
    NoProc = NoProc
    Procs <- MCProcs
    Exclusive = TRUE
    Found <- MCFound
    MaxCrashes = 2
INVARIANTS VersionIsBacked OpenedIsCurrent NextOpenCanMigrate
PROPERTIES Upgraded
