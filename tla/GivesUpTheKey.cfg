SPECIFICATION Spec
CONSTANTS
    p1 = p1
    p2 = p2
    p3 = p3
    k1 = k1
    k2 = k2
    k3 = k3
    Procs <- TwoProcs
    Keys <- TwoKeys
    NoKey = NoKey
    Blank = Blank
    NoProc = NoProc
    Retry = TRUE
    Orphans = FALSE
INVARIANT NothingWasChanged
