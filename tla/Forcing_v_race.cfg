CONSTANTS
    Accounts = {a1, a2}
    Endpoints = {e1}
    Procs = {p1, p2}
    HostOwned = FALSE
    Faults = {"reboot"}
    NoAccount = NoAccount
    NoEndpoint = NoEndpoint
SPECIFICATION Spec
SYMMETRY Symmetry
INVARIANTS
    AddedStayForced
