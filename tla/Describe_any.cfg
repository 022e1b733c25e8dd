\* Any options file, a few lists of proto files, any server.
SPECIFICATION DescribeSpec
CONSTANTS
    greet = greet
    admin = admin
    greet_proto = greet_proto
    admin_proto = admin_proto
    common = common
    base = base
    here = here
    there = there
    None = None
    Path = "/roots.pem"
    Files <- DeepFiles
    Symbols <- MCServices
    Extensions = {}
    Services <- MCServices
    Home <- MCHome
    Imports <- DeepImports
    Clashing = {base, admin_proto}
    Listing = Listing
    Directories = {here, there}
    Names <- DiskNames
    Disk <- MCDisk
    DiskImports <- MCDiskImports
    Broken <- MCBroken
    Warned <- MCWarned
    MaxErrors = 2
    Lists <- MCLists
INVARIANTS
    GivenIsRead
    VerdictIsTrue
    PrintedIsComplete
    CrashOnlyIfLost
    FreedOnce
    TlsUnlessBlank
PROPERTIES
    DescribeReturns
    WorkGetsLess
CHECK_DEADLOCK FALSE
