CONSTANTS
    h1 = h1
    h2 = h2
    alpha = alpha
    beta = beta
    read = read
    search = search
    Handlers = {h1, h2}
    Plugins = {alpha, beta}
    Scopes <- MCScopes
    Tools = {read, search}
    MockTools = {read}
    Offers <- MCOffers
    Asked <- MCAsked
    Flaky = {beta}
    Hanging = {alpha}
    Switches = {"on", "off"}
SPECIFICATION FairSpec
INVARIANTS
    QuietIsServed
    InstalledWhole
PROPERTIES
    HangingCanBeStopped
