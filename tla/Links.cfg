SPECIFICATION SceneSpec
CONSTANTS
    Server <- SquareServer
    Conn <- SquareConn
    End <- SquareEnd
    Linked <- SquareLinked
    SameSecond = FALSE
    OwnClock = FALSE
    MaxSquit = 0
    MaxBreak = 0
INVARIANTS
    EachTreeAgrees
    SquareSecondYoungestBreaks
CHECK_DEADLOCK FALSE
