\* Imports of imports: a described method is not found.
SPECIFICATION Spec
CONSTANTS
    greet = greet
    admin = admin
    greet_proto = greet_proto
    admin_proto = admin_proto
    common = common
    base = base
    None = None
    Files <- DeepFiles
    Symbols <- MCServices
    Extensions = {}
    Services <- MCServices
    Home <- MCHome
    Imports <- DeepImports
    Clashing = {}
    Listing = Listing
INVARIANT DescribedServicesResolve
CHECK_DEADLOCK FALSE
