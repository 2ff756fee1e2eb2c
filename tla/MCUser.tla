------------------------------- MODULE MCUser -------------------------------
(* Small instances of what concerns a single user, one of which each       *)
(* behaviour is:                                                           *)
(*   middle    the modes of a user on the middle one of three servers, who *)
(*             may become operator by any line; its constants are given in *)
(*             the configuration                                           *)
(*   service   the modes of a user two hops from the services              *)
(*   register  connections that become users, on descriptors used again    *)
(*   names     user names and the rules for them                           *)
(*   lists     a connection on several black lists                         *)
(*   hosts     a user's host between its own modes and what services do    *)
(*   bans      a member of a channel, whose bans are looked up and cached   *)
(*   talk      messages to users on three servers                          *)
(*   silence   a silence list on two servers                               *)
(*   targets   the limit on new targets                                    *)
(*   presence  what clients and two servers see of channels' members       *)
(* The variables of Umode are those of middle and stay as they were in the *)
(* other scenes, which have w1 to w7, heard and due; the ones that a scene *)
(* does not need stay 0.                                                   *)
EXTENDS Umode, TLC

CONSTANTS
    Scenes   \* the ones of the run

VARIABLES scene, w1, w2, w3, w4, w5, w6, w7, heard, due

others == <<w1, w2, w3, w4, w5, w6, w7, heard, due>>

MiddleHome == "u" :> 2

Line(locop, rsa, privs) == [locop |-> locop, admin |-> FALSE, rsa |-> rsa, privs |-> privs]
Global == Line(FALSE, FALSE, {"PROPAGATE", "DISPLAY_MODE"})
AllLines == {Global, Line(FALSE, TRUE, {"DISPLAY_MODE"}), Line(TRUE, FALSE, {})}

Singles == {<<Change(a, c)>> : a \in BOOLEAN, c \in {"o", "O", "a", "i", "H"}}
Pairs == {<<Change(TRUE, "H"), Change(FALSE, "o")>>, <<Change(FALSE, "o"), Change(TRUE, "H")>>}
Strings == Singles \cup Pairs

(* What the proof of CountsRight supposes of mode strings holds of these.  *)
ASSUME OrderlyAssumption == OrderlyModes

Service == INSTANCE Umode WITH
    Servers <- {1, 2, 3}, Users <- {"u"}, Home <- "u" :> 1, Lines <- {Global},
    UserModes <- Singles, ServerModes <- {<<Change(TRUE, "i")>>, <<Change(FALSE, "o")>>},
    Services <- 3, AUTOINVISIBLE <- FALSE, MaxMoves <- 6,
    user <- w1, opers <- w2, inv <- w3, handler <- w4, response <- w5, net <- w6, moves <- w7

Known == [name |-> <<"a">>, refused |-> FALSE, ident |-> FALSE, same |-> FALSE, webirc |-> "", prompt |-> FALSE, fline |-> FALSE,
          exempt |-> FALSE, class |-> FALSE, sline |-> FALSE]
Block(server, name, flags, replies, rank) ==
    [server |-> server, name |-> name, flags |-> flags, replies |-> replies, rank |-> rank]
Blocks == <<Block("x", "one", {"r", "m"}, <<<<2>>, <<0, 5>>>>, 2),
            Block("y", "two", {"r", "a"}, <<<<3>>>>, 1),
            Block("x", "three", {"b", "d"}, <<<<12>>, <<4>>>>, 3)>>

Arrivals == INSTANCE Register WITH
    Fds <- {1},
    Profiles <- {Known, [Known EXCEPT !.prompt = TRUE, !.ident = TRUE],
                 [Known EXCEPT !.name = <<"A", "a", "A", "A">>],
                 [Known EXCEPT !.name = <<"A", "a", "A", "A">>, !.ident = TRUE, !.same = TRUE], [Known EXCEPT !.fline = TRUE, !.webirc = "w"]},
    Accounts <- {"a", "b"}, Blacklists <- <<>>, Answers <- {},
    DNSBL_LOC_EXEMPT <- TRUE, DNSBL_WALLOPS_ONLY <- FALSE,
    UserAgain <- FALSE, Ghosts <- FALSE, MaxConns <- 2, MaxLogins <- 2, MaxName <- 5, s <- w1

Listings == INSTANCE Register WITH
    Fds <- {1},
    Profiles <- {Known, [Known EXCEPT !.exempt = TRUE], [Known EXCEPT !.class = TRUE, !.sline = TRUE]},
    Accounts <- {"a"}, Blacklists <- Blocks,
    Answers <- {<<"x", <<127, 0, 0, 2>>>>, <<"x", <<127, 0, 0, 4>>>>, <<"x", <<127, 0, 0, 5>>>>,
                <<"y", <<127, 0, 0, 3>>>>},
    DNSBL_LOC_EXEMPT <- TRUE, DNSBL_WALLOPS_ONLY <- FALSE,
    UserAgain <- FALSE, Ghosts <- FALSE, MaxConns <- 1, MaxLogins <- 1, MaxName <- 1, s <- w1

(* As in Bans                                                              *)
Mask(ext, nick, host, arg) == [ext |-> ext, nick |-> nick, host |-> host, arg |-> arg]
AnyHost == <<"*", "">>
Real == <<"real", "">>
Masks == {Mask({}, "*", <<"set", "v">>, ""), Mask({}, "m", AnyHost, ""), Mask({"QUIET"}, "*", Real, ""),
          Mask({"NICK"}, "n", AnyHost, "")}

Hidden == INSTANCE Relay WITH
    Servers <- {1, 2, 3}, Home <- 1, Services <- 3, Vhosts <- {"v"}, Fakes <- {"p"}, Accounts <- {"a", "b"},
    Ops <- {"x", "h", "R", "M", "F"}, STYLE <- 1, HIDDEN_HOST_QUIT <- TRUE, ALLOWRMX <- FALSE,
    DNSBL_MARK_FAKEHOST <- TRUE, Marked <- FALSE, MaxMoves <- 4, Channels <- <<>>, Nicks <- {},
    BanMasks <- {}, ExceptMasks <- {}, ChanModes <- {}, Users <- {}, Lives <- <<>>, Rosters <- {},
    SilenceMasks <- {}, Texts <- {}, Kinds <- {}, MAXSILES <- 0, MAXTARGETS <- 1, STARTTARGETS <- 1,
    RESERVEDTARGETS <- 0, TARGET_DELAY <- 1, MaxMessages <- 0,
    view <- w1, me <- w2, chan <- w3, roster <- w4, silence <- w5, net <- w6, moves <- w7

Banned == INSTANCE Relay WITH
    Servers <- {1}, Home <- 1, Services <- 1, Vhosts <- {"v"}, Fakes <- {}, Accounts <- {},
    Ops <- {"x", "h"}, STYLE <- 1, HIDDEN_HOST_QUIT <- TRUE, ALLOWRMX <- FALSE,
    DNSBL_MARK_FAKEHOST <- TRUE, Marked <- FALSE, MaxMoves <- 4, Channels <- <<"c", "d">>, Nicks <- {"n", "m"},
    BanMasks <- Masks, ExceptMasks <- {Mask({}, "*", Real, ""), Mask({"QUIET"}, "n", AnyHost, "")},
    ChanModes <- {{}}, Users <- {}, Lives <- <<>>, Rosters <- {}, SilenceMasks <- {}, Texts <- {}, Kinds <- {},
    MAXSILES <- 0, MAXTARGETS <- 1, STARTTARGETS <- 1, RESERVEDTARGETS <- 0, TARGET_DELAY <- 1, MaxMessages <- 0,
    view <- w1, me <- w2, chan <- w3, roster <- w4, silence <- w5, net <- w6, moves <- w7

Person(on, flags) == [on |-> on, flags |-> flags]
Talk == INSTANCE Relay WITH
    Servers <- {1, 2, 3}, Home <- 1, Services <- 3, Vhosts <- {}, Fakes <- {}, Accounts <- {},
    Ops <- {"part", "silence", "nick"}, STYLE <- 1, HIDDEN_HOST_QUIT <- TRUE, ALLOWRMX <- FALSE,
    DNSBL_MARK_FAKEHOST <- TRUE, Marked <- FALSE, MaxMoves <- 1, Channels <- <<"c">>, Nicks <- {"n", "m"},
    BanMasks <- {Mask({"QUIET"}, "m", AnyHost, "")}, ExceptMasks <- {}, ChanModes <- {{}, {"S", "m", "n"}},
    Users <- {"a", "b", "d"}, Lives <- "a" :> 1 @@ "b" :> 3 @@ "d" :> 3,
    Rosters <- {"a" :> Person({}, {}) @@ "b" :> Person({"o"}, {"d"}) @@ "d" :> Person({"v"}, {"D", "w"}),
                "a" :> Person({"o"}, {"R"}) @@ "b" :> Person({"none"}, {"k", "w"}) @@ "d" :> Person({}, {})},
    SilenceMasks <- {[mask |-> Mask({}, "m", AnyHost, ""), exempt |-> FALSE]},
    Texts <- {{"word"}, {"colour"}},
    Kinds <- {"PRIVMSG", "NOTICE", "WALLCHOPS", "WALLHOPS", "WALLVOICES", "USER", "DIRECTED", "MASKED", "WALLOPS", "WHISPER"},
    MAXSILES <- 2, MAXTARGETS <- 1, STARTTARGETS <- 1, RESERVEDTARGETS <- 0, TARGET_DELAY <- 1, MaxMessages <- 1,
    view <- w1, me <- w2, chan <- w3, roster <- w4, silence <- w5, net <- w6, moves <- w7

Plain(nick, host) == [mask |-> Mask({}, nick, host, ""), exempt |-> FALSE]
Quiet2 == INSTANCE Relay WITH
    Servers <- {1, 2}, Home <- 1, Services <- 2, Vhosts <- {}, Fakes <- {}, Accounts <- {},
    Ops <- {"silence"}, STYLE <- 1, HIDDEN_HOST_QUIT <- TRUE, ALLOWRMX <- FALSE,
    DNSBL_MARK_FAKEHOST <- TRUE, Marked <- FALSE, MaxMoves <- 4, Channels <- <<"c">>, Nicks <- {},
    BanMasks <- {}, ExceptMasks <- {}, ChanModes <- {{}}, Users <- {"b"}, Lives <- "b" :> 2,
    Rosters <- {"b" :> Person({}, {})},
    SilenceMasks <- {Plain("n", AnyHost), Plain("n", Real), Plain("*", Real), Plain("m", AnyHost)},
    Texts <- {{"word"}}, Kinds <- {"USER"},
    MAXSILES <- 3, MAXTARGETS <- 1, STARTTARGETS <- 1, RESERVEDTARGETS <- 0, TARGET_DELAY <- 1, MaxMessages <- 1,
    view <- w1, me <- w2, chan <- w3, roster <- w4, silence <- w5, net <- w6, moves <- w7

Targets == INSTANCE Relay WITH
    Servers <- {1}, Home <- 1, Services <- 1, Vhosts <- {}, Fakes <- {}, Accounts <- {}, Ops <- {}, STYLE <- 1,
    HIDDEN_HOST_QUIT <- TRUE, ALLOWRMX <- FALSE, DNSBL_MARK_FAKEHOST <- TRUE, Marked <- FALSE, MaxMoves <- 8,
    Channels <- <<>>, Nicks <- {}, BanMasks <- {}, ExceptMasks <- {}, ChanModes <- {}, Users <- {1, 2, 3, 4},
    Lives <- <<>>, Rosters <- {}, SilenceMasks <- {}, Texts <- {}, Kinds <- {},
    MAXSILES <- 0, MAXTARGETS <- 2, STARTTARGETS <- 2, RESERVEDTARGETS <- 1, TARGET_DELAY <- 2, MaxMessages <- 5,
    view <- w1, me <- w2, chan <- w3, roster <- w4, silence <- w5, net <- w6, moves <- w7

Presence == INSTANCE Presence WITH
    Home <- "a" :> 1 @@ "b" :> 1 @@ "d" :> 2, Channels <- {"#a", "#b", "&l"}, Locals <- {"&l"}, Secret <- {"#b"},
    Invisible <- {"a"}, Joins <- {<<"#a">>, <<"#a", "#b">>, <<"#b", "0", "&l", "#a">>},
    Parts <- {<<"#a", "#a", "&l">>, <<"#b", "#a">>}, MAXCHANNELSPERUSER <- 2, MAXJOINARGS <- 2, MaxMoves <- 4, s <- w1

(* The variables that a scene leaves alone                                 *)
Rest == <<w2, w3, w4, w5, w6, w7, heard, due>>
Zero(v) == v = 0
RestZero ==
    Zero(w2) /\ Zero(w3) /\ Zero(w4) /\ Zero(w5) /\ Zero(w6) /\ Zero(w7) /\ Zero(heard) /\ Zero(due)

SceneInit ==
    /\ scene \in Scenes /\ Init
    /\ \/ scene = "middle" /\ Zero(w1) /\ RestZero
       \/ scene = "service" /\ Service!Init /\ Zero(heard) /\ Zero(due)
       \/ scene = "register" /\ Arrivals!Init /\ RestZero
       \/ scene = "names" /\ Arrivals!NamesInit /\ RestZero
       \/ scene = "lists" /\ Listings!Init /\ RestZero
       \/ scene = "presence" /\ Presence!Init /\ RestZero
       \/ scene = "hosts" /\ Hidden!HostsInit /\ Zero(w2) /\ Zero(w3) /\ Zero(w4) /\ Zero(w5) /\ Zero(heard) /\ Zero(due)
       \/ scene = "bans" /\ Banned!BansInit /\ Zero(w1) /\ Zero(w4) /\ Zero(w5) /\ Zero(w6) /\ Zero(heard) /\ Zero(due)
       \/ scene = "talk" /\ Talk!RelayInit
       \/ scene = "silence" /\ Quiet2!RelayInit
       \/ scene = "targets" /\ Targets!TargetsInit /\ Zero(w1) /\ Zero(w3) /\ Zero(w4) /\ Zero(w5) /\ Zero(w6) /\ Zero(w7) /\ Zero(heard) /\ Zero(due)

Other ==
    \/ scene = "service" /\ Service!Next /\ UNCHANGED <<heard, due>>
    \/ scene = "register" /\ Arrivals!Next /\ UNCHANGED Rest
    \/ scene = "lists" /\ Listings!Next /\ UNCHANGED Rest
    \/ scene = "presence" /\ Presence!Next /\ UNCHANGED Rest
    \/ scene = "hosts" /\ Hidden!HostsNext /\ UNCHANGED <<w2, w3, w4, w5, heard, due>>
    \/ scene = "bans" /\ Banned!BansNext /\ UNCHANGED <<w1, w4, w5, w6, heard, due>>
    \/ scene = "talk" /\ Talk!RelayNext
    \/ scene = "silence" /\ Quiet2!RelayNext
    \/ scene = "targets" /\ Targets!TargetsNext
       /\ UNCHANGED <<w1, w3, w4, w5, w6, w7, heard, due>>

SceneNext ==
    /\ \/ scene = "middle" /\ Next /\ UNCHANGED others
       \/ Other /\ UNCHANGED vars
    /\ UNCHANGED scene

SceneSpec == SceneInit /\ [][SceneNext]_<<vars, scene, others>>

(* ModesAgree, and CountsRight where services change modes as well.        *)
EachModesAgree ==
    /\ scene = "middle" => ModesAgree
    /\ scene = "service" => Service!ModesAgree /\ Service!CountsRight

(* Whoever becomes a user was let in, counted and introduced once, and has *)
(* no account but one granted to this connection: AccountGranted,          *)
(* CountsExact, IntroducedOnce, RegisteredAllowed and DenyBeatsAllow.      *)
EachRegisteredRight ==
    /\ scene = "register" => /\ Arrivals!AccountGranted /\ Arrivals!CountsExact
                             /\ Arrivals!IntroducedOnce /\ Arrivals!RegisteredAllowed
    /\ scene = "names" => Arrivals!NamesRight
    /\ scene = "lists" => /\ Listings!RegisteredAllowed /\ Listings!CountsExact
                          /\ Listings!DenyBeatsAllow

(* The host that others see is the same everywhere and fits the modes, and *)
(* cached answers about bans are the ones the lists give: HostsAgree,      *)
(* HostFits and BanCacheFresh.                                             *)
EachSeenRight ==
    /\ scene = "hosts" => Hidden!HostsAgree /\ Hidden!HostFits
    /\ scene = "bans" => Banned!BanCacheFresh

(* Messages are heard once by whom they are for, silence lists agree, new  *)
(* targets are limited, and clients and servers see the same members:      *)
(* HeardRight, SilencesAgree, TargetsLimited, ClientsShownRight,           *)
(* MembersAgree and NamesRight.                                            *)
EachHeardRight ==
    /\ scene = "talk" => Talk!HeardRight
    /\ scene = "silence" => Quiet2!HeardRight /\ Quiet2!SilencesAgree
    /\ scene = "targets" => Targets!TargetsLimited
    /\ scene = "presence" => Presence!ClientsShownRight /\ Presence!MembersAgree /\ Presence!NamesRight
=============================================================================
