SPECIFICATION SceneFairSpec
CONSTANTS
    c1 = c1
    c2 = c2
    c3 = c3
    Nil = Nil
    Clients = {c1, c2, c3}
    BLCount = 2
    DnsblChecks = TRUE
    NoIdent = FALSE
    NoDns = FALSE
    KillIpMismatch = TRUE
    Immediate = FALSE
    Scenes = {"auth", "history", "three", "pair", "names", "channels", "numerics", "list", "watch"}
INVARIANTS
    AuthRight
    EachHistoryRight
    EachLookupRight
    EachTablesExact
    EachChannelListed
    EachWatchRight
PROPERTIES
    EachEventuallyOver
CHECK_DEADLOCK FALSE
