CONSTANTS
    h1 = h1
    h2 = h2
    Handlers = {h1, h2}
    Calls <- RetentionCalls
    MaxBundles = 2
SPECIFICATION Spec
INVARIANT MandatoryPreventsRetained
