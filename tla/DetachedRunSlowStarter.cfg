SPECIFICATION Spec
CONSTANTS
    Clients = {c1}
    Agy = agy
    Helpers = {h1}
    PromptSpawn = FALSE
PROPERTIES RunningWorkerNotDeclaredExited
