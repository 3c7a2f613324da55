CONSTANTS
    Accounts = {a1}
    Endpoints = {e1, e2}
    Procs = {p1}
    HostOwned = FALSE
    Faults = {"error", "kill", "reboot", "shimExit", "tornFile", "tornLink", "users"}
    NoAccount = NoAccount
    NoEndpoint = NoEndpoint
SPECIFICATION Spec
SYMMETRY Symmetry
INVARIANTS
    SettledAgree
PROPERTIES
    OnlyRmLifts
    AddMends
