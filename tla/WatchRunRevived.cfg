SPECIFICATION Spec
CONSTANTS
    Watches = {w1}
    Clients = {c1}
    None = none
    Native = TRUE
    MuxErrs = FALSE
    LateLaunchErrors = TRUE
    Crashes = FALSE
CHECK_DEADLOCK FALSE
PROPERTIES TerminalIsFinal
