SPECIFICATION Spec
CONSTANTS
    Datagram = {u1}
    Client = {t1}
    Key = {k1, k2, k3}
    NoKey = NoKey
    Asks <- MCAsks
    Answers <- MCAnswers
    Faulty = {"tcp"}
    MaxEntries = 2
    MaxTTL = 2
    MaxNegativeTTL = 1
    Wrap = 4
    MaxClock = 2
    NoTTL = NoTTL
    NoEntry = NoEntry
    Conn = {c1}
    Chunks = 1
    Together = FALSE
INVARIANTS TypeOK CachedIsCurrent ClosesForCause
PROPERTIES EvictionSparesLive EveryQueryReplied EndingEnds
CHECK_DEADLOCK FALSE
