--------------------------- MODULE MCChannelSync ---------------------------
(* Two small instances of ChannelSync and two of Topic, one of which each  *)
(* behaviour is of:                                                        *)
(*   pair  two servers that link up in any state, with overlapping bans;   *)
(*         its constants are given in the configuration                    *)
(*   line  three servers, of which the third links to the second when      *)
(*         nothing is on its way, without bans; OPMODE and CLEARMODE, that *)
(*         carry no time stamp, are used there for a mode that no channel  *)
(*         operator changes                                                *)
(*   topic   topics, on three servers of which one comes and goes          *)
(*   strict  the same with +m and +S: operators only, colours stripped     *)
EXTENDS ChannelSync, TLC

VARIABLE scene

PairHome == "a" :> 1 @@ "b" :> 2
SetS == Change(TRUE, "flag", "s")
OpA == {Change(add, "o", "a") : add \in BOOLEAN}
PairWider == "narrow" :> {"wide"} @@ "wide" :> {}

Line == INSTANCE ChannelSync WITH
    Servers <- {1, 2, 3}, Late <- 2, Clients <- {"a", "b", "c"},
    Home <- "a" :> 1 @@ "b" :> 2 @@ "c" :> 3, Flags <- {"i", "t"}, Keys <- {}, Limits <- {},
    Masks <- {}, Wider <- [m \in {} |-> {}], Excepts <- FALSE, Movers <- {1, 3},
    OperModes <- {SetS}, Clears <- {{"s"}},
    Chatter <- FALSE, Settled <- TRUE, TS_LAG_TIME <- 5, MaxMoves <- 6, MaxTime <- 2

Free == INSTANCE Topic WITH
    Texts <- {"x", "y", ""}, Coloured <- {}, Stripped <- "x", Modes <- {}, TOPIC_BURST <- TRUE,
    SameSecond <- FALSE, ClearAnytime <- FALSE, MaxTime <- 4, MaxLinks <- 2, t <- chan
Strict == INSTANCE Topic WITH
    Texts <- {"x", "red"}, Coloured <- {"red"}, Stripped <- "x", Modes <- {"m", "S"}, TOPIC_BURST <- TRUE,
    SameSecond <- FALSE, ClearAnytime <- FALSE, MaxTime <- 3, MaxLinks <- 1, t <- chan

Zero(v) == v = 0
RestZero == Zero(net) /\ Zero(up) /\ Zero(now) /\ Zero(moves) /\ Zero(side)

SceneInit ==
    \/ scene = "pair" /\ Init
    \/ scene = "line" /\ Line!Init
    \/ scene = "topic" /\ Free!Init /\ RestZero
    \/ scene = "strict" /\ Strict!Init /\ RestZero

SceneNext ==
    /\ \/ scene = "pair" /\ Next
       \/ scene = "line" /\ Line!Next
       \/ scene = "topic" /\ Free!Next /\ UNCHANGED <<net, up, now, moves, side>>
       \/ scene = "strict" /\ Strict!Next /\ UNCHANGED <<net, up, now, moves, side>>
    /\ UNCHANGED scene

SceneSpec == SceneInit /\ [][SceneNext]_<<vars, scene>>

(* MergeAgrees in the instances of ChannelSync, and the same of topics:    *)
(* TopicsAgree and TopicShown.                                             *)
BothMergeAgree ==
    /\ scene = "pair" => MergeAgrees
    /\ scene = "line" => Line!MergeAgrees
    /\ scene = "topic" => Free!TopicsAgree /\ Free!TopicShown
    /\ scene = "strict" => Strict!TopicsAgree /\ Strict!TopicShown

(* OlderWins, in both instances of ChannelSync.                            *)
BothOlderWins ==
    /\ scene = "pair" => OlderWins
    /\ scene = "line" => Line!OlderWins
=============================================================================
