SPECIFICATION Spec
CONSTANTS
    Watches = {w1, w2}
    Clients = {c1}
    None = none
    Native = TRUE
    MuxErrs = FALSE
    LateLaunchErrors = TRUE
    Crashes = TRUE
CHECK_DEADLOCK FALSE
SYMMETRY WatchSymmetry
INVARIANTS WatchInv LeaseIsExclusive
PROPERTIES MonitorHonorsExit ImplementsWatchContract
