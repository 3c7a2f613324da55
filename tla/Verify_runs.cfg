CONSTANTS
    anon = anon
    shimUid = shimUid
    other = other
    nobody = nobody
    local = local
    local2 = local2
    lan = lan
    lan2 = lan2
    world = world
    local6 = local6
    world6 = world6
    relay = relay
    dns = dns
    socks = socks
    domain = domain
    web = web
    free = free
    Uid = {anon, shimUid, other, nobody}
    Anon = anon
    Shim = shimUid
    NoUid = noUid
    Nobody = nobody
    Loop4 = {local, local2}
    Private = {lan, lan2}
    World4 = {world}
    V6 = {local6, world6}
    Local4 = local
    Local6 = local6
    Port = {relay, dns, socks, domain, web, free}
    Domain = domain
    AnonymizerPorts = {socks, domain}
    Configs <- MCConfigs
    NoConfig = NoConfig
    Default <- MCDefault
    OffBox = world
    Loop2 = local2
    Free = free
    Web = web
    FirstExempt <- MCFirstExempt
    NoExempt = NoExempt
    Neighbour <- MCNeighbour
    TorShared <- MCTorShared
    ExitOf <- MCExitOf
    Hosts <- MCHosts
    NoRecord = NoRecord
    Unreadable = Unreadable
    NoMarker = NoMarker
    NoSession = NoSession
    Batches <- MCBatches
    MaxChanges = 1
SPECIFICATION Spec
INVARIANTS TypeOK GreenMeansForced HealthyIsGreen ClaimsStand JailedIsConfined
PROPERTIES RunAdvances
