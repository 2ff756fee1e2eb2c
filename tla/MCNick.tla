------------------------------- MODULE MCNick -------------------------------
(* Four small instances of Nick, one of which each behaviour is of:        *)
(*   line     clients on the outer ones of three servers; its constants    *)
(*            are given in the configuration                               *)
(*   relink   two servers whose link breaks and comes back                 *)
(*   service  three servers, a link that breaks and forced nick changes    *)
(*   shared   two clients of one server that hand a nick on                *)
EXTENDS Nick, TLC

VARIABLE scene

LineHome == "a" :> 1 @@ "c" :> 3
NoSkew == [s \in 1..3 |-> 0]

Again == INSTANCE Nick WITH
    Servers <- {1, 2}, Clients <- {"a", "b"}, Home <- "a" :> 1 @@ "b" :> 2,
    Nicks <- {"n", "m"}, Idents <- {"i", "j"}, Skew <- [s \in {1, 2} |-> 0],
    Kills <- TRUE, Svs <- {}, MaxMoves <- 4, MaxSplits <- 1, MaxTime <- 2

Forced == INSTANCE Nick WITH
    Servers <- {1, 2, 3}, Clients <- {"a", "c"}, Home <- LineHome,
    Nicks <- {"n", "m"}, Idents <- {"i"}, Skew <- NoSkew,
    Kills <- FALSE, Svs <- {2}, MaxMoves <- 2, MaxSplits <- 1, MaxTime <- 2

Shared == INSTANCE Nick WITH
    Servers <- {1, 2}, Clients <- {"a", "d", "b"}, Home <- "a" :> 1 @@ "d" :> 1 @@ "b" :> 2,
    Nicks <- {"n", "m"}, Idents <- {"i"}, Skew <- [s \in {1, 2} |-> 0],
    Kills <- FALSE, Svs <- {}, MaxMoves <- 4, MaxSplits <- 1, MaxTime <- 2

SceneInit ==
    \/ scene = "line" /\ Init
    \/ scene = "relink" /\ Again!Init
    \/ scene = "service" /\ Forced!Init
    \/ scene = "shared" /\ Shared!Init

SceneNext ==
    /\ \/ scene = "line" /\ Next
       \/ scene = "relink" /\ Again!Next
       \/ scene = "service" /\ Forced!Next
       \/ scene = "shared" /\ Shared!Next
    /\ UNCHANGED scene

SceneSpec == SceneInit /\ [][SceneNext]_<<vars, scene>>

(* Agreement, on three servers whose links stay and on two whose link      *)
(* breaks, with nothing forced.                                            *)
LineAndRelinkAgree ==
    CASE scene = "line" -> Agreement
      [] scene = "relink" -> Again!Agreement
      [] OTHER -> TRUE
=============================================================================
