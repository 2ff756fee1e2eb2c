SPECIFICATION SceneSpec
CONSTANTS
    Conns = {1, 2}
    Sendq = 1
    Chunk = 2
    Iov = 2
    Lengths = {1}
    Room = 1
    CLIENT_FLOOD = 2
    PINGFREQUENCY = 2
    CONNECTTIMEOUT = 1
    Ahead = 1
    Slow = 1
    Delay = 1
    Ping = 1
    Commands = {"quit", "kill", "oper", "register"}
    Kinds = {"user", "server"}
    Starves = {0}
    Packets <- LifePackets
    MaxLines = 4
    MaxTime = 1
    Nil = Nil
INVARIANTS
    EachFreedInTime
    EachAwaited
    WireWholeMessages
    TimeSilentAreDropped
    EachEngineRight
CHECK_DEADLOCK FALSE
