SPECIFICATION SceneSpec
CONSTANTS
    Servers <- Line
    Edges <- LineEdges
    Route <- LineRoute
    Masks <- OneMask
    Narrower <- NoWider
    ListOrder <- OneOrder
    Mask = "m"
    Users <- OneUser
    Home <- UserHome
    Matched <- LineMatch
    Lifetime = 20
    LocalScope = FALSE
    Removals = FALSE
    Uworld = {}
    LastmodTweak = FALSE
    SameSecond = FALSE
    MaxOps = 3
    MaxSplits = 0
    MaxTime = 4
CHECK_DEADLOCK FALSE
INVARIANTS
    LatestWins
    GlinedGone
PROPERTIES
    LastmodMonotonic
    IsLastWrite
    Drains
    EachListRight
