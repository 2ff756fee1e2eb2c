SPECIFICATION SceneSpec
CONSTANTS
    Servers = {1, 2, 3}
    Clients = {"a", "c"}
    Home <- LineHome
    Nicks = {"n", "m"}
    Idents = {"i", "j"}
    Skew <- NoSkew
    Kills = TRUE
    Svs = {}
    MaxMoves = 4
    MaxSplits = 0
    MaxTime = 2
INVARIANTS
    NickUnique
    LineAndRelinkAgree
CHECK_DEADLOCK FALSE
