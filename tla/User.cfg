SPECIFICATION SceneSpec
CONSTANTS
    Servers = {1, 2, 3}
    Users = {"u"}
    Home <- MiddleHome
    Lines <- AllLines
    UserModes <- Strings
    ServerModes = {}
    Services = 1
    AUTOINVISIBLE = FALSE
    MaxMoves = 6
    Scenes = {"middle", "service", "register", "names", "lists", "hosts", "bans", "talk", "silence", "targets", "presence"}
INVARIANTS
    CountsRight
    EachModesAgree
    EachRegisteredRight
    EachSeenRight
    EachHeardRight
CHECK_DEADLOCK FALSE
