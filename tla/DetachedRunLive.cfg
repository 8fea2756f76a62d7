SPECIFICATION FairSpec
CONSTANTS
    Clients = {c1}
    Agy = agy
    Helpers = {h1}
    PromptSpawn = FALSE
INVARIANTS CancelledIsQuiet
PROPERTIES EveryRunSettles PendingClears
