------------------------------- MODULE MCConf -------------------------------
(* Small instances of the configuration and of the registry of addresses,  *)
(* which with it decides who may connect; each behaviour is of one:        *)
(*   registry  clients that connect from two addresses again and again;    *)
(*             its constants are given in the configuration                *)
(*   rehash    lines, classes and ports in use while files are read        *)
(*   file      the blocks of a file, of all kinds, three in a row          *)
(*   rule      connection rules of up to five tokens: operators            *)
(*   call      connection rules of up to five tokens: calls with arguments *)
(*   settings  features and messages of the day through SET and REHASH     *)
(*   mask      every pair of masks of up to three characters               *)
(* The variables of IPcheck stay as they were in the other scenes; v1 to   *)
(* v9 are those of the scene's module, in the order in which it declares   *)
(* them; the ones it does not need stay 0.                                 *)
EXTENDS IPcheck, Sequences, TLC

CONSTANTS
    RehashConnecting,  \* a REHASH may come while we connect to a server
    Scenes             \* the ones of the run

VARIABLES scene, v1, v2, v3, v4, v5, v6, v7, v8, v9

others == <<v1, v2, v3, v4, v5, v6, v7, v8, v9>>

E(kind, name, class, who) == [kind |-> kind, name |-> name, class |-> class, who |-> who]
C(name, max) == [kind |-> "class", name |-> name, max |-> max]
P(port) == [kind |-> "port", port |-> port]
L(kind, who) == [kind |-> kind, who |-> who]

OneFile == <<C("c", 3), E("client", "i", "c", {"u", "v"}), E("oper", "o", "c", {"u"}),
             E("connect", "s", "c", {"s"}), P(1)>>
TwoFile == <<C("d", 1), E("client", "i", "d", {"u", "v"}), E("connect", "s", "default", {"s"}), P(2),
             L("deny", {"u", "v"}), L("except", {"u"}), L("uworld", {"s"})>>

Lines == INSTANCE Conf WITH
    Clients <- {"u", "v", "s"}, ServersC <- {"s"}, Ports <- {1, 2},
    Files <- {OneFile, TwoFile, <<>>}, First <- OneFile, MaxRehash <- 2, Pointers <- 1..9,
    conf <- v1, listed <- v2, classes <- v3, listener <- v4, lists <- v5, client <- v6,
    rehashed <- v7, exact <- v8, stale <- v9

Blocks == INSTANCE ConfFile WITH
    Kinds <- {"connect", "client", "class", "oper", "motd", "kill", "crule", "feature", "port", "dnsbl",
              "command", "except", "spoofhost", "redirect", "webirc", "sfilter", "uworld"},
    MaxBlocks <- 3,
    scratch <- v1, n <- v2, wellformed <- v3, made <- v4

Networks == {[behind |-> ("x" :> "y") @@ ("y" :> "y"), opers |-> 0],
             [behind |-> ("z" :> "z") @@ ("y" :> "y"), opers |-> 1]}

Rule == INSTANCE Crule WITH
    Tokens <- {"connected", "directop", "!", "&&", "||", "(", ")"}, ReqNumArgs <- 1,
    Nets <- Networks, Mask <- {"x", "z"}, MaxTokens <- 5, rule <- v1, net <- v2

Calls == INSTANCE Crule WITH
    Tokens <- {"directcon", "via", "word", "(", ")", ",", "!"}, ReqNumArgs <- 2,
    Nets <- Networks, Mask <- {"x", "z"}, MaxTokens <- 5, rule <- v1, net <- v2

Defaults == [MPATH |-> "a", RPATH |-> "b", LIMIT |-> "0"]

Sets == INSTANCE Settings WITH
    Features <- {"MPATH", "RPATH", "LIMIT"}, Def <- Defaults,
    Values <- [MPATH |-> {"a", "b"}, RPATH |-> {"b"}, LIMIT |-> {"0", "1"}], Bad <- "bad", ReadOnly <- {},
    Files <- {[readable |-> FALSE, lines |-> <<>>, motds |-> <<>>],
              [readable |-> TRUE, lines |-> <<>>, motds |-> <<>>],
              [readable |-> TRUE, lines |-> <<<<"LIMIT", "1">>, <<"MPATH", "b">>, <<"LIMIT", "bad">>>>,
               motds |-> <<[path |-> "a", who |-> {"u"}], [path |-> "c", who |-> {"u", "v"}]>>]},
    Paths <- {"a", "b", "c"}, Locals <- {"u", "v"}, Remote <- "r", MaxOps <- 4, MaxVersion <- 2,
    feat <- v1, meant <- v2, motd <- v3, cache <- v4, disk <- v5, since <- v6, ops <- v7, unmarked <- v8

Texts == INSTANCE Match WITH
    Letters <- {"a", "b", "*"}, Marks <- {"a", "*", "?", "\\"}, MaxMask <- 3, MaxName <- 3, s <- v1

Unused(k) == /\ k < 1 => v1 = 0
             /\ k < 2 => v2 = 0
             /\ k < 3 => v3 = 0 /\ v4 = 0
             /\ k < 5 => v5 = 0 /\ v6 = 0 /\ v7 = 0
             /\ k < 8 => v8 = 0
             /\ k < 9 => v9 = 0

SceneInit ==
    /\ scene \in Scenes
    /\ Init
    /\ \/ scene = "registry" /\ Unused(0)
       \/ scene = "rehash" /\ Lines!Init
       \/ scene = "file" /\ Blocks!Init /\ Unused(4)
       \/ scene = "rule" /\ Rule!Init /\ Unused(2)
       \/ scene = "call" /\ Calls!Init /\ Unused(2)
       \/ scene = "settings" /\ Sets!Init /\ Unused(8)
       \/ scene = "mask" /\ Texts!Init /\ Unused(1)

Other ==
    \/ scene = "rehash" /\ Lines!Next
    \/ scene = "file" /\ Blocks!Next /\ UNCHANGED <<v5, v6, v7, v8, v9>>
    \/ scene = "rule" /\ Rule!Next /\ UNCHANGED <<v3, v4, v5, v6, v7, v8, v9>>
    \/ scene = "call" /\ Calls!Next /\ UNCHANGED <<v3, v4, v5, v6, v7, v8, v9>>
    \/ scene = "settings" /\ Sets!Next /\ UNCHANGED v9
    \/ scene = "mask" /\ Texts!Next /\ UNCHANGED <<v2, v3, v4, v5, v6, v7, v8, v9>>

SceneNext ==
    /\ \/ scene = "registry" /\ Next /\ UNCHANGED others
       \/ Other /\ UNCHANGED vars
    /\ UNCHANGED scene

SceneSpec == SceneInit /\ [][SceneNext]_<<vars, scene, others>>

(* Through any REHASH nobody holds a pointer to what is gone, classes      *)
(* count their users and the kill lines are enforced: NoDanglingConf,      *)
(* ClassCountExact, KilledGone.                                            *)
RehashKeepsOrder ==
    scene = "rehash" => Lines!NoDanglingConf /\ Lines!ClassCountExact /\ Lines!KilledGone

(* What the file says is what is in force: entries are made of their own   *)
(* block's values (OwnValues), a rule's tree has the meaning of the rule   *)
(* (TreeMeansRule), features and messages have the values last given       *)
(* (FeaturesAsMeant, MotdFresh).                                           *)
FileInForce ==
    /\ scene = "file" => Blocks!OwnValues
    /\ scene = "rule" => Rule!TreeMeansRule
    /\ scene = "call" => Calls!TreeMeansRule
    /\ scene = "settings" => Sets!FeaturesAsMeant /\ Sets!MotdFresh

(* A mask has one meaning, whether it is read as it was written, collapsed *)
(* or compiled, and is only taken to cover masks that it does cover:       *)
(* MatchRight, CompiledRight, CoversAll.                                   *)
MasksRight == scene = "mask" => Texts!MatchRight /\ Texts!CompiledRight /\ Texts!CoversAll

(* "Configuration entry is still in use by some local clients, cannot      *)
(* delete it--mark it so that it will be deleted when the last client      *)
(* exits": s_conf.c, rehash.                                               *)
KeptWhileInUse == scene = "rehash" => Lines!KeptWhileInUse
=============================================================================
