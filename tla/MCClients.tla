------------------------------ MODULE MCClients ------------------------------
(* Small instances of what the server keeps about clients, one of which    *)
(* each behaviour is:                                                      *)
(*   auth      three connections and what they wait for; its constants are *)
(*             given in the configuration                                  *)
(*   history   the nicks clients had                                       *)
(*   three     three clients' names are looked up; the address of the      *)
(*             third claims a name it does not have                        *)
(*   pair      two clients with one address, and time enough to give up    *)
(*   names     clients in the table of names, two nicks to a chain         *)
(*   channels  channels in the table of names                              *)
(*   numerics  the numerics of a server's users, here and next door        *)
(*   list      LIST while channels come and go                             *)
(*   watch     two users that watch nicks of one chain                     *)
(* The variables of Auth stay as they were in the other scenes, whose      *)
(* modules have v1 to v8 in their place; the ones not needed stay 0.       *)
EXTENDS Auth, TLC

CONSTANTS
    c1, c2, c3, Nil,
    Scenes   \* the ones of the run

VARIABLES scene, v1, v2, v3, v4, v5, v6, v7, v8

others == <<v1, v2, v3, v4, v5, v6, v7, v8>>

History == INSTANCE Whowas WITH
    Slots <- {"s1", "s2", "s3"}, Clients <- {"x", "y"}, Nicks <- {"m", "n", "o"}, Lengths <- {2, 3},
    node <- v1, list <- v2, tail <- v3, alloc <- v4, hash <- v5, cwhowas <- v6,
    name <- v7, length <- v8

Three == INSTANCE Resolver WITH
    Client <- {"c1", "c2", "c3"}, Addr <- {"a1", "a2", "a3"}, Name <- {"n1", "n2"}, None <- "none",
    Ip <- ("c1" :> "a1") @@ ("c2" :> "a2") @@ ("c3" :> "a3"),
    Ptr <- ("a1" :> "n1") @@ ("a2" :> "n2") @@ ("a3" :> "n1"),
    Fwd <- ("n1" :> <<"a1">>) @@ ("n2" :> <<"a2">>),
    Retries <- 2, Timeout <- 1, ArTtl <- 2, MaxCached <- 1, MaxNow <- 4, MaxId <- 4,
    client <- v1, list <- v2, asked <- v3, cache <- v4, nextid <- v5, now <- v6, dnsTimer <- v7,
    cacheTimer <- v8

Pair == INSTANCE Resolver WITH
    Client <- {"c1", "c2"}, Addr <- {"a1", "a2"}, Name <- {"n1", "n2"}, None <- "none",
    Ip <- ("c1" :> "a1") @@ ("c2" :> "a1"), Ptr <- ("a1" :> "n1") @@ ("a2" :> "n2"),
    Fwd <- ("n1" :> <<"a1", "a2">>) @@ ("n2" :> <<"a2">>),
    Retries <- 2, Timeout <- 1, ArTtl <- 2, MaxCached <- 1, MaxNow <- 9, MaxId <- 5,
    client <- v1, list <- v2, asked <- v3, cache <- v4, nextid <- v5, now <- v6, dnsTimer <- v7,
    cacheTimer <- v8

(* Users with numerics of two bits, on a server with room for two          *)
Users       == {"u", "v"}
Base        == 2
Digits      == 2
FirstSize   == 1
Capacity    == 2
MaxConnects == 4
MaxSplits   == 1

Names == INSTANCE Hash WITH
    Clients <- {"p", "q", "r"}, Channels <- {}, Nicks <- {"n", "m"}, ServerNames <- {"A", "B"}, ChannelNames <- {},
    Juped <- <<"n", "m">>, JupeMax <- 1, Buckets <- {0, 1},
    Bucket <- ("n" :> 0) @@ ("m" :> 0) @@ ("A" :> 0) @@ ("B" :> 1), s <- v1

Tables == INSTANCE Hash WITH
    Clients <- {}, Channels <- {"x", "y", "z"}, Nicks <- {}, ServerNames <- {}, ChannelNames <- {"#c", "#d", "#e"},
    Juped <- <<>>, JupeMax <- 1, Buckets <- {0, 1},
    Bucket <- ("#c" :> 0) @@ ("#d" :> 0) @@ ("#e" :> 0), s <- v1

P(of, dir, val) == [of |-> of, dir |-> dir, val |-> val]
Chan(users, last, secret, fits) == [users |-> users, last |-> last, secret |-> secret, fits |-> fits]
Lists == INSTANCE Listing WITH
    Channels <- {"a", "b", "c"}, Bucket <- ("a" :> 0) @@ ("b" :> 0) @@ ("c" :> 1),
    Info <- ("a" :> Chan(1, 9, FALSE, TRUE)) @@ ("b" :> Chan(2, 7, FALSE, FALSE)) @@ ("c" :> Chan(3, 9, TRUE, FALSE)),
    Now <- 9, Hashsize <- 2, MaxSendq <- 4, Low <- 2, MaxLists <- 2,
    Params <- {<<>>, <<P("secret", "", 0)>>, <<P("users", ">", 1)>>, <<P("pattern", "!", 0)>>,
               <<P("active", "<", 1), P("pattern", "", 0)>>, <<P("topic", "<", 1)>>,
               <<P("users", ">", 1), P("users", "<", 2)>>, <<P("active", ">", 1), P("active", "<", 1)>>},
    DefaultParam <- <<P("users", ">", 0)>>, s <- v1

WatchNicks == {"ned", "Lea", "Cat"}
WatchWords == [op : {"+", "-"}, nick : WatchNicks] \cup [op : {"C", "l", "L"}, nick : {""}]

Watching == INSTANCE Watch WITH
    Users <- {"u", "v"}, Nicks <- WatchNicks, Letter <- ("ned" :> "") @@ ("Lea" :> "L") @@ ("Cat" :> "C"),
    Watches <- {"w1", "w2", "w3", "w4"}, Bucket <- ("ned" :> 0) @@ ("Lea" :> 0) @@ ("Cat" :> 0), Buckets <- {0},
    Commands <- {<<w>> : w \in WatchWords} \cup {<<[op |-> "+", nick |-> n], [op |-> "+", nick |-> "ned"]>> : n \in WatchNicks},
    MaxWatchs <- 2, UnregisteredRenames <- FALSE,
    s <- v1

(* The variables that a scene of one variable leaves alone                 *)
Rest == <<v2, v3, v4, v5, v6, v7, v8>>
RestZero == v2 = 0 /\ v3 = 0 /\ v4 = 0 /\ v5 = 0 /\ v6 = 0 /\ v7 = 0 /\ v8 = 0

SceneInit ==
    /\ scene \in Scenes
    /\ Init
    /\ \/ scene = "auth" /\ v1 = 0 /\ RestZero
       \/ scene = "history" /\ History!Init
       \/ scene = "three" /\ Three!Init
       \/ scene = "pair" /\ Pair!Init
       \/ scene = "names" /\ Names!Init /\ RestZero
       \/ scene = "channels" /\ Tables!Init /\ RestZero
       \/ scene = "numerics" /\ Tables!NumericsInit /\ RestZero
       \/ scene = "list" /\ Lists!Init /\ RestZero
       \/ scene = "watch" /\ Watching!Init /\ RestZero

Other ==
    \/ scene = "history" /\ History!Next
    \/ scene = "three" /\ Three!Next
    \/ scene = "pair" /\ Pair!Next
    \/ scene = "names" /\ Names!Next /\ UNCHANGED Rest
    \/ scene = "channels" /\ Tables!Next /\ UNCHANGED Rest
    \/ scene = "numerics" /\ Tables!NumericsNext /\ UNCHANGED Rest
    \/ scene = "list" /\ Lists!Next /\ UNCHANGED Rest
    \/ scene = "watch" /\ Watching!Next /\ UNCHANGED Rest

SceneNext ==
    /\ \/ scene = "auth" /\ Next /\ UNCHANGED others
       \/ Other /\ UNCHANGED vars
    /\ UNCHANGED scene

SceneSpec == SceneInit /\ [][SceneNext]_<<vars, scene, others>>

(* The timer of a request fires in the end: the event loop runs timers     *)
(* after every wait for sockets.                                           *)
SceneFairSpec ==
    /\ SceneSpec
    /\ \A c \in Clients : WF_vars(scene = "auth" /\ destroy_auth_request(c, TRUE) /\ UNCHANGED <<scene, others>>)

(* The lists of old nicks are exact, and whoever is chased by an old nick  *)
(* is found: HistoryListExact and ChaseFindsOnline.                        *)
EachHistoryRight == scene = "history" => History!HistoryListExact /\ History!ChaseFindsOnline

(* Every client and channel is found by its name, whatever else its chain  *)
(* holds, and nothing that was freed is: TablesExact.  Two servers mean    *)
(* the same user by a numeric: NumericsAgree.                              *)
EachTablesExact ==
    /\ scene = "names" => Names!TablesExact
    /\ scene = "channels" => Tables!TablesExact
    /\ scene = "numerics" => Tables!NumericsAgree

(* Every connection is let in or killed in the end, even if nobody answers *)
(* it: the timer of Auth is enough.                                        *)
EachEventuallyOver ==
    \A c \in Clients :
        (scene = "auth" /\ client[c] = "auth") ~> (scene = "auth" /\ client[c] \in {"released", "killed"})

(* A client waits for one answer, gives up in time, and is given only a    *)
(* name that leads back to its address, which it may hold on to:           *)
(* WaitsForOne, GivenUp, ForwardConfirmed and HeldEntriesStay.             *)
EachLookupRight ==
    /\ scene = "three" => Three!WaitsForOne /\ Three!ForwardConfirmed /\ Three!HeldEntriesStay
    /\ scene = "pair" => Pair!WaitsForOne /\ Pair!GivenUp /\ Pair!HeldEntriesStay

(* A listing leaves out no channel that was there all the time:            *)
(* EveryChannelListed.                                                     *)
EachChannelListed == scene = "list" => Lists!EveryChannelListed

(* Watches and their watchers point at each other, and watchers are told   *)
(* what is true: WatchesExact and WatchersTold.                            *)
EachWatchRight == scene = "watch" => Watching!WatchesExact /\ Watching!WatchersTold

(* hash.c: a listing walks consecutive buckets, so that a channel is       *)
(* listed once: ListedOnce.                                                *)
ChannelsListedOnce == scene = "list" => Lists!ListedOnce
==============================================================================
