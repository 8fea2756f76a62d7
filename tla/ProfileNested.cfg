SPECIFICATION Spec
CONSTANTS
    Names = {1, 2}
    Ops = {o1}
    Watched = {}
    Admins = {a1}
    Nested = TRUE
    MaxIncarnations = 2
PROPERTIES RegisteredDataStays
