CONSTANTS
    h1 = h1
    h2 = h2
    Handlers = {h1, h2}
    Calls <- ControlCalls
    MaxBundles = 1
SPECIFICATION FairSpec
INVARIANTS
    UndisturbedIsCurrent
PROPERTIES
    ImplementsSettings
    WriteTakesEffect
