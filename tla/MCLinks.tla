------------------------------ MODULE MCLinks ------------------------------
\* Three small instances of Links, one of which each behaviour is of:
\*   square    two pairs of servers that are joined by two links at the same
\*             time; its constants are given in the configuration
\*   pair      1 is linked to 2; 2 and 3 connect to each other
\*   triangle  1 and 2, which are linked, both connect to 3
\* In the last two a connection may break at any moment, in the second an
\* operator's SQUIT may come too.
EXTENDS Links

VARIABLE scene

SquareServer == 1 .. 4
SquareConn == 1 .. 4
SquareEnd == <<<<1, 2>>, <<3, 4>>, <<1, 4>>, <<2, 3>>>>
SquareLinked == <<1, 1, 0, 0>>

Pair == INSTANCE Links WITH
    Server <- 1 .. 3, Conn <- 1 .. 3, End <- <<<<1, 2>>, <<2, 3>>, <<3, 2>>>>, Linked <- <<1, 0, 0>>,
    SameSecond <- FALSE, OwnClock <- TRUE, MaxSquit <- 1, MaxBreak <- 1

Triangle == INSTANCE Links WITH
    Server <- 1 .. 3, Conn <- 1 .. 3, End <- <<<<1, 2>>, <<2, 3>>, <<1, 3>>>>, Linked <- <<1, 0, 0>>,
    SameSecond <- FALSE, OwnClock <- TRUE, MaxSquit <- 0, MaxBreak <- 1

SceneInit ==
    \/ scene = "square" /\ Init
    \/ scene = "pair" /\ Pair!Init
    \/ scene = "triangle" /\ Triangle!Init

SceneNext ==
    /\ \/ scene = "square" /\ Next
       \/ scene = "pair" /\ Pair!Next
       \/ scene = "triangle" /\ Triangle!Next
    /\ UNCHANGED scene

SceneSpec == SceneInit /\ [][SceneNext]_<<vars, scene>>

\* NoLoop, TreeAgrees and NoHalfLink, in all instances: once all messages
\* have arrived the links form a tree, and every server knows it.
EachTreeAgrees ==
    CASE scene = "square" -> NoLoop /\ TreeAgrees /\ NoHalfLink
      [] scene = "pair" -> Pair!TreeAgrees /\ Pair!NoHalfLink
      [] scene = "triangle" -> Triangle!NoLoop /\ Triangle!TreeAgrees /\ Triangle!NoHalfLink

\* SecondYoungestBreaks, in the loop of four servers.
SquareSecondYoungestBreaks == scene = "square" => SecondYoungestBreaks
=============================================================================
