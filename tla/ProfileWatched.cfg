SPECIFICATION Spec
CONSTANTS
    Names = {1}
    Ops = {o1}
    Watched = {o1}
    Admins = {a1}
    Nested = FALSE
    MaxIncarnations = 1
INVARIANTS OutHasCooldown
