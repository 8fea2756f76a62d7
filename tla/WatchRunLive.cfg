SPECIFICATION FairSpec
CONSTANTS
    Watches = {w1}
    Clients = {c1}
    None = none
    Native = TRUE
    MuxErrs = TRUE
    LateLaunchErrors = FALSE
    Crashes = TRUE
CHECK_DEADLOCK FALSE
PROPERTIES TerminalIsFinal WatchSettles
