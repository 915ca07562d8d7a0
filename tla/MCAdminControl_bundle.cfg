CONSTANTS
    h1 = h1
    h2 = h2
    Handlers = {h1}
    Calls <- BundleCalls
    MaxBundles = 2
SPECIFICATION Spec
INVARIANT BundleKeepsMandatory
