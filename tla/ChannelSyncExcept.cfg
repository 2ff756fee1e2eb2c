SPECIFICATION SceneSpec
CONSTANTS
    Servers = {1, 2}
    Late = 1
    Clients = {"a", "b"}
    Home <- PairHome
    Flags = {"i", "t"}
    Keys = {}
    Limits = {}
    Masks = {"narrow", "wide"}
    Wider <- PairWider
    Excepts = TRUE
    Movers = {1, 2}
    OperModes = {}
    Clears = {}
    Chatter = FALSE
    Settled = FALSE
    TS_LAG_TIME = 5
    MaxMoves = 6
    MaxTime = 2
INVARIANTS
    BothMergeAgree
CHECK_DEADLOCK FALSE
