SPECIFICATION RootsFairSpec
CONSTANTS
    k1 = k1
    k2 = k2
    Empty = Empty
    Fallback = Fallback
    Error = Error
    Free = Free
    Calls <- MCCalls
    HasRoots = TRUE
    MaxChanges = 2
    MaxErrors = 1
INVARIANTS RootsTypeOK CallsAreCurrent
PROPERTIES CallsResolve Settles
