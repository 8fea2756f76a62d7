SPECIFICATION Spec
CONSTANTS
    Watches = {w1, w2}
    Clients = {c1}
    None = none
    Native = TRUE
    MuxErrs = FALSE
    LateLaunchErrors = FALSE
    Crashes = FALSE
CHECK_DEADLOCK FALSE
INVARIANTS NoInterleavedAgy
