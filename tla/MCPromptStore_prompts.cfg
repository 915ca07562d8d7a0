CONSTANTS
    h1 = h1
    h2 = h2
    f1 = f1
    f2 = f2
    k1 = k1
    k2 = k2
    tone = tone
    style = style
    short = short
    long = long
    Names = {tone, style}
    Contents = {short, long}
    Keys = {k1, k2}
    Fragments = {f1}
    Handlers = {h1, h2}
    Calls <- MCCalls
    MaxVersion = 3
SPECIFICATION Spec
INVARIANTS
    AlwaysReadable
    HistoryComplete
    VersionsIdentify
PROPERTIES
    DeletedStaysDeleted
SYMMETRY Symmetry
