SPECIFICATION Spec
CONSTANTS
    Names = {1}
    Ops = {o1, o2}
    Watched = {o2}
    Admins = {a1, a2}
    Nested = FALSE
    MaxIncarnations = 2
SYMMETRY ProcessSymmetry
INVARIANTS LifecycleInv RunKeepsProfile HomeIsOwn
PROPERTIES RegisteredDataStays
