CONSTANTS
    mock = mock
    mine = mine
    chat = chat
    fast = fast
    gpt = gpt
    read = read
    danger = danger
    Providers = {mock, mine}
    Byo = {mine}
    Models = {chat, fast, gpt}
    ModelsOf <- MCModelsOf
    Tools = {read, danger}
    Documents <- MCDocuments
    Requests <- MCRequests
    MultiTenant = TRUE
    Bundles <- MCBundles
    Dangerous = danger
    Tables <- MCTables
SPECIFICATION BuildSpec
INVARIANTS
    DenyOverrides
    ByoForbidden
    StrictestWins
    SelectionServed
    BundlesDecide
PROPERTIES
    OnlyNarrows
CHECK_DEADLOCK FALSE
