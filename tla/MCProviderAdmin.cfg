CONSTANTS
    h1 = h1
    h2 = h2
    router = router
    local = local
    small = small
    Handlers = {h1, h2}
    Providers = {router, local}
    Models = {small}
    Calls <- MCCalls
    MaxKeys = 2
    MaxCopies = 2
SPECIFICATION Spec
INVARIANTS
    QuietIsServed
PROPERTIES
    DeletedStaysDeleted
    KeysAreFresh
SYMMETRY Symmetry
