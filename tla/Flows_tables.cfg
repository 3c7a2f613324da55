CONSTANTS
    anon = anon
    shim = shim
    other = other
    noUid = noUid
    local = local
    lan = lan
    world = world
    local6 = local6
    world6 = world6
    relay = relay
    dns = dns
    socks = socks
    domain = domain
    web = web
    noConfig = noConfig
    Uid = {anon, shim, other}
    Anon = anon
    Shim = shim
    NoUid = noUid
    Loop4 = {local}
    Private = {lan}
    World4 = {world}
    V6 = {local6, world6}
    Local4 = local
    Local6 = local6
    Port = {relay, dns, socks, domain, web}
    Domain = domain
    AnonymizerPorts = {socks, domain}
    Configs <- MCConfigs
    MaxConns = 1
    NoConfig = noConfig
SPECIFICATION Spec
INVARIANTS
    TypeOK
    EitherTableDenies
    JudgedStaysIn
    NoClearDns
    EndpointClosed
    StrangersKeptOut
    OthersUntouched
    ForcedReachesShim
    ExemptReaches
