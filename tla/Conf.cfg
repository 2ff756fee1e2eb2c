SPECIFICATION SceneSpec
CONSTANTS
    Addrs = {"a", "b"}
    Clients = {"c1", "c2", "c3"}
    Exempt = {}
    Zlined = {"b"}
    ServerPorts = FALSE
    CloneLimit = 2
    ClonePeriod = 1
    CloneDelay = 2
    NoThrottle = FALSE
    Maximum = 1
    ExpireAfter = 1
    TimeMod = 64
    ConnMod = 16
    AttMod = 8
    MaxTries = 3
    MaxTime = 2
    MaxFails = 1
    RehashConnecting = FALSE
    Scenes = {"registry", "rehash", "file", "rule", "call", "settings", "mask"}
CHECK_DEADLOCK FALSE
INVARIANTS
    RegistryRight
    RehashKeepsOrder
    FileInForce
    MasksRight
