CONSTANTS
    Accounts = {a1, a2}
    Endpoints = {e1}
    Procs = {p1}
    HostOwned = TRUE
    Faults = {"error", "reboot"}
    NoAccount = NoAccount
    NoEndpoint = NoEndpoint
SPECIFICATION Spec
SYMMETRY Symmetry
INVARIANTS
    UpdatedStayForced
