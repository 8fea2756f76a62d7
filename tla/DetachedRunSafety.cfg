SPECIFICATION Spec
CONSTANTS
    Clients = {c1, c2}
    Agy = agy
    Helpers = {h1, h2}
    PromptSpawn = TRUE
SYMMETRY CallerSymmetry
INVARIANTS QuietWhenSettled CompletedMeansSuccess IInv
PROPERTIES TerminalIsFinal CancelWins PendingIsHonest StaleMeansExited ImplementsContract
