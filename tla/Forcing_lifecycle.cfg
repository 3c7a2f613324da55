CONSTANTS
    Accounts = {a1, a2}
    Endpoints = {e1}
    Procs = {p1}
    HostOwned = FALSE
    Faults = {"error", "kill", "reboot", "shimExit"}
    NoAccount = NoAccount
    NoEndpoint = NoEndpoint
SPECIFICATION Spec
SYMMETRY Symmetry
INVARIANTS
    TypeOK
    AddedStayForced
    ShimHasRules
    ForcingKept
