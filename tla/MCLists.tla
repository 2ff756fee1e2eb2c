------------------------------ MODULE MCLists ------------------------------
(* Small instances of the lists that all servers keep copies of, one of    *)
(* which each behaviour is of:                                             *)
(*   line     G-lines: three servers A - B - C, a client on B and global   *)
(*            changes of one G-line; its constants are given in the        *)
(*            configuration                                                *)
(*   overlap  G-lines: two servers, two masks of which "w" contains "m", a *)
(*            client on B, changes of any kind and expiry                  *)
(*   relink   G-lines: two servers whose link breaks and comes back        *)
(*   shun     shuns: global changes, the link breaks once                  *)
(*   shunany  shuns: overlapping masks, changes of any kind                *)
(*   zline    Z-lines: two masks, a client that connects to B              *)
(*   jupe     jupes for C: A - B - C, the link B - C breaks and comes back *)
(*   jupeany  jupes of any scope, which expire                             *)
(*   filter   spam filters: two filters and crossing changes               *)
(* The variables of Gline are those of line and stay as they were in       *)
(* the other scenes, whose modules have v1 to v8 in their place.           *)
EXTENDS Gline, TLC

VARIABLES scene, v1, v2, v3, v4, v5, v6, v7, v8

others == <<v1, v2, v3, v4, v5, v6, v7, v8>>

Line      == {"A", "B", "C"}
LineEdges == {{"A", "B"}, {"B", "C"}}
LineRoute == [s \in Line |-> [t \in Line |-> IF s = t \/ s = "B" THEN t ELSE "B"]]
OneMask   == {"m"}
NoWider   == "m" :> {}
OneOrder  == <<"m">>
NoHome    == [u \in {} |-> "A"]
NoMatch   == [u \in {} |-> {}]

TwoServers == {"A", "B"}
TwoEdges   == {{"A", "B"}}
TwoRoute   == [s \in TwoServers |-> [t \in TwoServers |-> t]]
TwoMasks   == {"m", "w"}
Contains   == ("m" :> {}) @@ ("w" :> {"m"})
TwoOrder   == <<"m", "w">>
OneUser    == {"u"}
UserHome   == "u" :> "B"
UserMatch  == "u" :> TwoMasks
LineMatch  == "u" :> OneMask

Overlap == INSTANCE Gline WITH
    Servers <- TwoServers, Edges <- TwoEdges, Route <- TwoRoute,
    Masks <- TwoMasks, Narrower <- Contains, ListOrder <- TwoOrder, Mask <- "m",
    Users <- OneUser, Home <- UserHome, Matched <- UserMatch,
    Lifetime <- 1, LocalScope <- TRUE, Removals <- TRUE, Uworld <- {"B"},
    LastmodTweak <- FALSE, SameSecond <- TRUE, MaxOps <- 3, MaxSplits <- 0, MaxTime <- 2,
    table <- v1, queue <- v2, up <- v3, inBurst <- v4, online <- v5, now <- v6, latest <- v7, bound <- v8

Again == INSTANCE Gline WITH
    Servers <- TwoServers, Edges <- TwoEdges, Route <- TwoRoute,
    Masks <- OneMask, Narrower <- NoWider, ListOrder <- OneOrder, Mask <- "m",
    Users <- {}, Home <- NoHome, Matched <- NoMatch,
    Lifetime <- 2, LocalScope <- TRUE, Removals <- FALSE, Uworld <- {"B"},
    LastmodTweak <- FALSE, SameSecond <- TRUE, MaxOps <- 3, MaxSplits <- 1, MaxTime <- 2,
    table <- v1, queue <- v2, up <- v3, inBurst <- v4, online <- v5, now <- v6, latest <- v7, bound <- v8

Shuns == INSTANCE Shun WITH
    Servers <- TwoServers, Edges <- TwoEdges, Route <- TwoRoute,
    Masks <- OneMask, Narrower <- NoWider, ListOrder <- OneOrder, Matched <- OneMask,
    Lifetime <- 20, LocalScope <- FALSE, Uworld <- {},
    LastmodTweak <- FALSE, MaxOps <- 3, MaxSplits <- 1, MaxTime <- 4,
    table <- v1, queue <- v2, up <- v3, inBurst <- v4, online <- v5, now <- v6, latest <- v7, bound <- v8

ShunsAny == INSTANCE Shun WITH
    Servers <- TwoServers, Edges <- TwoEdges, Route <- TwoRoute,
    Masks <- TwoMasks, Narrower <- Contains, ListOrder <- TwoOrder, Matched <- OneMask,
    Lifetime <- 2, LocalScope <- TRUE, Uworld <- {"B"},
    LastmodTweak <- FALSE, MaxOps <- 3, MaxSplits <- 0, MaxTime <- 3,
    table <- v1, queue <- v2, up <- v3, inBurst <- v4, online <- v5, now <- v6, latest <- v7, bound <- v8

Zlines == INSTANCE Zline WITH
    Servers <- TwoServers, Edges <- TwoEdges, Route <- TwoRoute,
    Masks <- TwoMasks, Narrower <- Contains, ListOrder <- TwoOrder,
    Users <- OneUser, Home <- UserHome, Matched <- UserMatch,
    Lifetime <- 2, LocalScope <- TRUE, Uworld <- {"B"},
    LastmodTweak <- FALSE, MaxOps <- 2, MaxSplits <- 1, MaxTime <- 2,
    table <- v1, queue <- v2, up <- v3, inBurst <- v4, online <- v5, now <- v6, latest <- v7, bound <- v8

Jupes == INSTANCE Jupe WITH
    Servers <- Line, Edges <- LineEdges, Route <- LineRoute,
    Named <- {"C"}, Lifetime <- 20, LocalScope <- FALSE,
    MaxOps <- 2, MaxSplits <- 1, MaxTime <- 3,
    table <- v1, queue <- v2, up <- v3, inBurst <- v4, online <- v5, now <- v6, latest <- v7, bound <- v8

JupesAny == INSTANCE Jupe WITH
    Servers <- Line, Edges <- LineEdges, Route <- LineRoute,
    Named <- {"C"}, Lifetime <- 2, LocalScope <- TRUE,
    MaxOps <- 2, MaxSplits <- 0, MaxTime <- 3,
    table <- v1, queue <- v2, up <- v3, inBurst <- v4, online <- v5, now <- v6, latest <- v7, bound <- v8

Spam == INSTANCE Spamfilter WITH
    Servers <- TwoServers, Edges <- TwoEdges, Route <- TwoRoute,
    Filters <- {"f", "g"}, React <- ("f" :> {"block", "voice"}) @@ ("g" :> {"gline", "ops"}) @@ ("c" :> {"shun", "auth"}),
    Reasons <- {"r"}, Lifetimes <- {1, 2}, ConfFilters <- <<"c">>, Slow <- {"f"}, Lifetime <- 1,
    MaxOps <- 2, MaxSplits <- 1, MaxTime <- 3,
    table <- v1, queue <- v2, up <- v3, inBurst <- v4, online <- v5, now <- v6, latest <- v7, bound <- v8

(* The shun "m" as LastWrite has it: the version each server has and those *)
(* in messages                                                             *)
ShunCopies == [s \in TwoServers |-> [at |-> v1[s]["m"].lastmod, on |-> v1[s]["m"].active]]
ShunVersions ==
    {ShunCopies[s] : s \in TwoServers}
    \cup {[at |-> m.lastmod, on |-> m.on] :
             m \in {x \in UNION {Elements(v2[s][t]) : s, t \in TwoServers} : x.type = "SU"}}

ShunEntry == INSTANCE LastWrite WITH
    Servers <- TwoServers, copy <- ShunCopies, known <- ShunVersions

OthersZero == v1 = 0 /\ v2 = 0 /\ v3 = 0 /\ v4 = 0 /\ v5 = 0 /\ v6 = 0 /\ v7 = 0 /\ v8 = 0

SceneInit ==
    /\ Init
    /\ \/ scene = "line" /\ OthersZero
       \/ scene = "overlap" /\ Overlap!Init
       \/ scene = "relink" /\ Again!Init
       \/ scene = "shun" /\ Shuns!Init
       \/ scene = "shunany" /\ ShunsAny!Init
       \/ scene = "zline" /\ Zlines!Init
       \/ scene = "jupe" /\ Jupes!Init
       \/ scene = "jupeany" /\ JupesAny!Init
       \/ scene = "filter" /\ Spam!Init

Other ==
    \/ scene = "overlap" /\ Overlap!Next
    \/ scene = "relink" /\ Again!Next
    \/ scene = "shun" /\ Shuns!Next
    \/ scene = "shunany" /\ ShunsAny!Next
    \/ scene = "zline" /\ Zlines!Next
    \/ scene = "jupe" /\ Jupes!Next
    \/ scene = "jupeany" /\ JupesAny!Next
    \/ scene = "filter" /\ Spam!Next

SceneNext ==
    /\ \/ scene = "line" /\ Next /\ UNCHANGED others
       \/ Other /\ UNCHANGED vars
    /\ UNCHANGED scene

LineRead == scene = "line" /\ Read /\ UNCHANGED <<others, scene>>

SceneSpec == SceneInit /\ [][SceneNext]_<<vars, others, scene>> /\ WF_vars(LineRead)

(* With changes of any kind, overlapping masks and broken links: nobody    *)
(* that a G-line bans is connected, and a G-line or shun that stays on a   *)
(* server never goes back to an older version.  Global changes of a shun   *)
(* are LastWrite, and copies of shuns, jupes and filters end up as the     *)
(* network was last asked for.  What a Z-line or a jupe forbids is not     *)
(* there.                                                                  *)
EachListRight ==
    /\ [](/\ scene = "overlap" => Overlap!GlinedGone
          /\ scene = "shun" => Shuns!ShunnedEverywhere
          /\ scene = "jupe" => Jupes!NeighboursAgree /\ Jupes!JupedGone
          /\ scene = "jupeany" => JupesAny!JupedGone
          /\ scene = "zline" => Zlines!ZlinedGone
          /\ scene = "filter" => Spam!FiltersLast)
    /\ scene = "shun" => ShunEntry!Init
    /\ [][/\ scene = "shun" => ShunEntry!Next \/ UNCHANGED ShunEntry!vars
          /\ scene = "overlap" => Overlap!LastmodForward
          /\ scene = "relink" => Again!LastmodForward
          /\ scene = "shunany" => ShunsAny!LastmodForward]_others
=============================================================================
