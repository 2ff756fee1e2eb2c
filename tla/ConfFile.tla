------------------------------ MODULE ConfFile ------------------------------
(* How ircd_parser.y turns the blocks of the configuration file into       *)
(* entries.  The parser keeps the value of an item in a global variable    *)
(* that blocks of many kinds share (name, pass, host, mask, dflags, ...)   *)
(* and that nothing clears but the end of some blocks, so a value can get  *)
(* from one block into an entry made from another.                         *)
(*                                                                         *)
(* A value is the number of the block it was written in, 0 when it is NULL *)
(* or the one a block starts with.  What an item means is not modelled,    *)
(* nor is a value of the wrong form: that is one way for a block to lack   *)
(* what it needs.                                                          *)
EXTENDS Naturals, FiniteSets

CONSTANTS
    Kinds,        \* the kinds of blocks in the files
    MaxBlocks     \* the length of a file

VARIABLES
    scratch,      \* the parser's global variables
    n,            \* the blocks read so far
    wellformed,   \* all of them had what they need
    made          \* the last entry: its block's number, kind, items and values

vars == <<scratch, n, wellformed, made>>

-----------------------------------------------------------------------------
(* What the parser does with a block: the variables set to their default   *)
(* where it begins, the ones its items set, the ones without which it is   *)
(* refused, and the ones cleared at its end (MyFree clears what it frees); *)
(* "both" when a refused block is cleared too.                             *)
Block(begin, items, needs, clears, both) ==
    [begin |-> begin, items |-> items, needs |-> needs, clears |-> clears, both |-> both]

connectblock ==
    LET all == {"name", "pass", "c_class", "host", "port", "maxlinks", "hub_limit", "flags", "sslfp"}
    IN  Block({"flags"}, all, {"name", "pass", "host", "c_class"}, all, TRUE)

\* Mutant: the password is not forgotten.
clientblock_pass ==
    LET all == {"host", "ip", "username", "c_class", "pass", "maxlinks", "port", "sslfp"}
    IN  Block({"maxlinks", "port"}, all, {"c_class"}, all \ {"pass"}, TRUE)

clientblock ==
    LET all == {"host", "ip", "username", "c_class", "pass", "maxlinks", "port", "sslfp"}
    IN  Block({"maxlinks", "port"}, all, {"c_class"}, all, TRUE)

classblock ==
    LET some == {"name", "tconn", "maxlinks", "sendq", "pass", "privs"}
    IN  Block({"tping"}, some \cup {"tping"}, {"name"}, some, TRUE)

operblock ==
    LET all == {"name", "pass", "hosts", "c_class", "privs", "oflags", "sslfp"}
    IN  Block({}, all, all \ {"privs", "oflags", "sslfp"}, all, TRUE)

motdblock == Block({}, {"hosts", "pass"}, {"hosts", "pass"}, {"hosts", "pass"}, TRUE)

killblock ==
    LET dconf == {"dmask", "dmessage", "dmark", "dflag"}
    IN  Block(dconf, dconf, {"dmask"}, dconf, TRUE)

cruleblock ==
    LET all == {"hosts", "pass", "tconn"} IN Block({"tconn"}, all, {"hosts", "pass"}, all, TRUE)

featureitem == Block({"stringlist"}, {"stringlist"}, {"stringlist"}, {}, TRUE)

portblock ==
    Block({"is_flags"}, {"port", "vhost", "pass", "is_flags"}, {"port"}, {"pass", "port"}, TRUE)

dnsblblock ==
    LET all == {"server", "name", "dflags", "replies", "reply", "rank"} IN Block({}, all, all, all, FALSE)

commandblock ==
    LET all == {"command", "service", "prefix"} IN Block({}, all, {"command", "service"}, all, FALSE)

exceptblock == Block({}, {"mask", "dflags"}, {"mask", "dflags"}, {}, FALSE)

spoofhostblock ==
    LET spoof == {"spoofhost", "spasswd", "swho", "sauto"}
    IN  Block(spoof, spoof, {"spoofhost"}, spoof, TRUE)

redirectblock ==
    LET all == {"mask", "server", "sport"} IN Block({}, all, all, all, FALSE)

webircblock ==
    LET all == {"mask", "pass", "dflags", "ident", "desc"} IN Block({}, all, all, all, FALSE)

sfilterblock ==
    LET some == {"regex", "rtype", "action", "reason"}
        all  == some \cup {"channel", "length"}
    IN  Block({"length"}, all, some, all, FALSE)

\* uworldblock, jupeblock, quarantineblock and forwardblock: an item is an
\* entry and no variable is used
itemblock == Block({"item"}, {"item"}, {"item"}, {"item"}, TRUE)

Grammar(k) ==
    CASE k = "connect" -> connectblock   [] k = "client" -> clientblock
      [] k = "class" -> classblock       [] k = "oper" -> operblock
      [] k = "motd" -> motdblock         [] k = "kill" -> killblock
      [] k = "crule" -> cruleblock       [] k = "feature" -> featureitem
      [] k = "port" -> portblock         [] k = "dnsbl" -> dnsblblock
      [] k = "command" -> commandblock   [] k = "except" -> exceptblock
      [] k = "spoofhost" -> spoofhostblock [] k = "redirect" -> redirectblock
      [] k = "webirc" -> webircblock     [] k = "sfilter" -> sfilterblock
      [] OTHER -> itemblock

Fields == UNION {Grammar(k).items : k \in Kinds}

-----------------------------------------------------------------------------
Init ==
    /\ scratch = [f \in Fields |-> 0]
    /\ n = 0
    /\ wellformed = TRUE
    /\ made = <<>>

(* The parser reads block number n + 1, which gives the items "given".     *)
(* Where the block lacks something it needs, neither of its own nor left   *)
(* behind, parse_error is called and no entry is made.  A class block      *)
(* leaves c_class at the class it made.                                    *)
Read(k, given) ==
    LET g     == Grammar(k)
        begun == [f \in DOMAIN scratch |-> IF f \in given THEN n + 1 ELSE IF f \in g.begin THEN 0 ELSE scratch[f]]
        ok    == \A f \in g.needs : begun[f] # 0
        ended == ok \/ g.both
    IN  /\ n < MaxBlocks
        /\ n' = n + 1
        /\ wellformed' = (wellformed /\ g.needs \subseteq given)
        /\ scratch' = [f \in DOMAIN scratch |->
               CASE k = "class" /\ ok /\ f = "c_class" -> n + 1
                 [] f \in g.clears /\ ended -> 0
                 [] OTHER -> begun[f]]
        /\ made' = IF ok THEN [block |-> n + 1, kind |-> k, given |-> given,
                               value |-> [f \in g.items |-> begun[f]]]
                         ELSE <<>>

\* a block with all its items, with one left out, or with what it needs
Given(k) ==
    LET g == Grammar(k) IN {g.items, g.needs} \cup {g.items \ {f} : f \in g.items}

Next == \E k \in Kinds : \E given \in Given(k) : Read(k, given)

Spec == Init /\ [][Next]_vars

-----------------------------------------------------------------------------
(* In a file all of whose blocks have what they need, an entry is made of  *)
(* the values its own block gives: what an earlier block said is forgotten *)
(* by then.  Left out is what the code does not clear: the vhost of a port *)
(* block goes on into the port blocks after it.                            *)
OwnValues ==
    made # <<>> /\ wellformed =>
        \A f \in DOMAIN made.value :
            made.value[f] \in {0, made.block} \/ (made.kind = "port" /\ f = "vhost")

=============================================================================
