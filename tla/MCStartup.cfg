CONSTANTS
    p1 = p1
    p2 = p2
    Procs = {p1, p2}
    Changes <- SeparateChanges
    MaxFaults = 2
SPECIFICATION FairSpec
INVARIANTS
    SeededOnce
    AdministratorDecides
PROPERTIES
    AllServe
CHECK_DEADLOCK FALSE
