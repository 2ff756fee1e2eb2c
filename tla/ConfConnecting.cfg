SPECIFICATION SceneSpec
CONSTANTS
    Addrs = {"a", "b"}
    Clients = {"c1", "c2", "c3"}
    Exempt = {}
    Zlined = {"b"}
    ServerPorts = FALSE
    CloneLimit = 2
    ClonePeriod = 1
    CloneDelay = 2
    NoThrottle = FALSE
    Maximum = 1
    ExpireAfter = 1
    TimeMod = 64
    ConnMod = 16
    AttMod = 8
    MaxTries = 3
    MaxTime = 2
    MaxFails = 1
    RehashConnecting = TRUE
    Scenes = {"rehash"}
CHECK_DEADLOCK FALSE
INVARIANT
    KeptWhileInUse
