CONSTANTS
    Accounts = {a1, a2}
    Endpoints = {e1}
    Procs = {p1}
    HostOwned = FALSE
    Faults = {"kill", "reboot", "shimExit"}
    NoAccount = NoAccount
    NoEndpoint = NoEndpoint
SPECIFICATION LiveSpec
INVARIANTS
    AddedShimReturns
PROPERTIES
    ShimComesBack
