-------------------------------- MODULE Conf --------------------------------
(* The configuration in force (s_conf.c, class.c, listener.c): lines that  *)
(* let clients, operators and servers in, the connection classes they      *)
(* belong to, the ports listened on, the kill and except lists and the     *)
(* U-lined servers; and REHASH, which replaces all of it while clients     *)
(* hold pointers into it.                                                  *)
(*                                                                         *)
(* A pointer is a number, and one that is still held is never given out    *)
(* again, so that a pointer to something freed is seen.  A file is a       *)
(* sequence of entries as ConfFile leaves them, each with what it needs.   *)
EXTENDS Naturals, FiniteSets, Sequences, Functions, FiniteSetsExt, SequencesExt

CONSTANTS
    Clients,          \* connections: users and servers
    ServersC,         \* the ones of them that are servers
    Ports,
    Files,            \* the configuration files, the first one read is First
    First,
    RehashConnecting, \* may a REHASH come while we connect to a server?
    MaxRehash,
    Pointers          \* of lines and of classes

VARIABLES
    conf,      \* lines: [kind, name, class, who, illegal, clients, pending]
    listed,    \* GlobalConfList
    classes,   \* [name, max, valid, links]
    listener,  \* per open port: [active, refs]
    lists,     \* the deny, except and uworld lists: [deny, except, uworld]
    client,    \* [st, confs, port, uworld]
    rehashed,
    exact,     \* no assertion of the code has failed and init_class not reset the count
    stale      \* a line was used after it was freed

vars == <<conf, listed, classes, listener, lists, client, rehashed, exact, stale>>

None    == 0
Default == 1                        \* the class "default", first in connClassList

\* everything a REHASH replaces, as the operators below pass it on
Db == [conf |-> conf, listed |-> listed, classes |-> classes, listener |-> listener,
       lists |-> lists, client |-> client, stale |-> stale]

Set(d) ==
    /\ conf' = d.conf /\ listed' = d.listed /\ classes' = d.classes
    /\ listener' = d.listener /\ lists' = d.lists /\ client' = d.client /\ stale' = d.stale

Held(d) == DOMAIN d.conf \cup UNION {Range(d.client[c].confs) : c \in Clients}
Fresh(used) == Min(Pointers \ used)

-----------------------------------------------------------------------------
(* Connection classes.                                                     *)

find_class(d, name) ==
    LET found == {k \in DOMAIN d.classes : d.classes[k].name = name /\ d.classes[k].valid}
    IN  IF found = {} THEN None ELSE Min(found)

\* do_find_class(name, 1): a class that is marked is used again
add_class(d, name, max) ==
    LET same == {k \in DOMAIN d.classes : d.classes[k].name = name}
        used == DOMAIN d.classes \cup {d.conf[i].class : i \in DOMAIN d.conf}
        k    == IF same = {} THEN Fresh(used) ELSE Min(same)
        p    == [name |-> name, max |-> max, valid |-> TRUE,
                 links |-> IF same = {} THEN 1 ELSE d.classes[k].links]
    IN  [d EXCEPT !.classes = [x \in DOMAIN d.classes \cup {k} |-> IF x = k THEN p ELSE d.classes[x]]]

class_mark_delete(d) ==
    [d EXCEPT !.classes = [k \in DOMAIN d.classes |->
        IF k = Default THEN d.classes[k] ELSE [d.classes[k] EXCEPT !.valid = FALSE]]]

\* Mutant: lines in use do not keep their class.
class_delete_marked_all(d) ==
    [d EXCEPT !.classes = Restrict(d.classes, {k \in DOMAIN d.classes : d.classes[k].valid})]

class_delete_marked(d) ==
    [d EXCEPT !.classes =
        Restrict(d.classes, {k \in DOMAIN d.classes : d.classes[k].valid \/ d.classes[k].links > 1})]

\* ConfLinks(i) changes by one; a class that is gone is memory that is not ours
Links(d, i, by(_)) ==
    LET k == d.conf[i].class
    IN  IF k \in DOMAIN d.classes
        THEN [d EXCEPT !.classes[k].links = by(d.classes[k].links)]
        ELSE [d EXCEPT !.stale = TRUE]

-----------------------------------------------------------------------------
(* Lines.                                                                  *)

make_conf(d, e, class, pending) ==
    LET i    == Fresh(Held(d))
        line == [kind |-> e.kind, name |-> e.name, class |-> class, who |-> e.who,
                 illegal |-> FALSE, clients |-> 0, pending |-> pending]
    IN  [d EXCEPT !.conf = [x \in DOMAIN d.conf \cup {i} |-> IF x = i THEN line ELSE d.conf[x]],
                  !.listed = <<i>> \o @]

\* delete_resolver_queries first: a lookup that is pending ends with the line
free_conf(d, i) == [d EXCEPT !.conf = Restrict(d.conf, DOMAIN d.conf \ {i})]

detach_conf(d, c, i) ==
    LET loose == [d EXCEPT !.client[c].confs = SelectSeq(@, LAMBDA x : x # i)]
        down  == Links(loose, i, LAMBDA x : IF x > 0 THEN x - 1 ELSE x)
        left  == [down EXCEPT !.conf[i].clients = @ - 1]
    IN  IF i \notin DOMAIN d.conf THEN [loose EXCEPT !.stale = TRUE]
        ELSE IF left.conf[i].clients = 0 /\ left.conf[i].illegal THEN free_conf(left, i)
        ELSE left

\* the lines of client c except those of the kinds kept
det_confs_butmask(d, c, kept) ==
    FoldLeft(LAMBDA acc, i : IF i \in DOMAIN acc.conf /\ acc.conf[i].kind \in kept THEN acc
                             ELSE detach_conf(acc, c, i),
             d, d.client[c].confs)

Full(d, i) == LET k == d.classes[d.conf[i].class] IN k.max > 0 /\ k.links >= k.max

can_attach(d, c, i) ==
    /\ i \notin Range(d.client[c].confs)
    /\ ~d.conf[i].illegal
    /\ d.conf[i].kind \in {"oper", "client"} => ~Full(d, i)

attach_conf(d, c, i) ==
    IF i \notin DOMAIN d.conf THEN [d EXCEPT !.stale = TRUE]
    ELSE IF ~can_attach(d, c, i) THEN d
    ELSE Links([d EXCEPT !.client[c].confs = <<i>> \o @, !.conf[i].clients = @ + 1], i, LAMBDA x : x + 1)

\* the lines of a kind that match a client, in the order of the list
Matching(d, kind, c) == SelectSeq(d.listed, LAMBDA i : d.conf[i].kind = kind /\ c \in d.conf[i].who)

\* attach_confs_byname, attach_confs_byhost: every line that matches
attach_confs(d, c) == FoldLeft(LAMBDA acc, i : attach_conf(acc, c, i), d, Matching(d, "connect", c))

attach_iline(d, c) ==
    LET m == Matching(d, "client", c) IN IF m = <<>> THEN d ELSE attach_conf(d, c, m[1])

\* an operator's line is passed over when it is in use as often as its class allows
find_conf_exact(d, c) ==
    SelectSeq(Matching(d, "oper", c),
              LAMBDA i : LET k == d.classes[d.conf[i].class] IN k.max = 0 \/ d.conf[i].clients < k.max)

find_kill(d, c) == c \in d.lists.deny /\ c \notin d.lists.except

-----------------------------------------------------------------------------
(* Ports.                                                                  *)

mark_listeners_closing(d) ==
    [d EXCEPT !.listener = [p \in DOMAIN d.listener |-> [d.listener[p] EXCEPT !.active = FALSE]]]

\* a port that cannot be opened is left out
add_listener(d, p, opens) ==
    IF p \in DOMAIN d.listener THEN [d EXCEPT !.listener[p].active = TRUE]
    ELSE IF ~opens THEN d
    ELSE [d EXCEPT !.listener = [x \in DOMAIN d.listener \cup {p} |->
              IF x = p THEN [active |-> TRUE, refs |-> 0] ELSE d.listener[x]]]

close_listeners(d) ==
    [d EXCEPT !.listener =
        Restrict(d.listener, {p \in DOMAIN d.listener : d.listener[p].active \/ d.listener[p].refs > 0})]

release_listener(d, p) ==
    IF p = None THEN d
    ELSE IF p \notin DOMAIN d.listener THEN [d EXCEPT !.stale = TRUE]
    ELSE IF d.listener[p].refs = 1 /\ ~d.listener[p].active
         THEN [d EXCEPT !.listener = Restrict(d.listener, DOMAIN d.listener \ {p})]
         ELSE [d EXCEPT !.listener[p].refs = @ - 1]

Gone == [st |-> "none", confs |-> <<>>, port |-> None, uworld |-> FALSE]

\* the part of close_connection about what the client holds of all this
close_connection(d, c) ==
    LET without == det_confs_butmask(d, c, {})
        freed   == release_listener(without, d.client[c].port)
    IN  [freed EXCEPT !.client[c] = Gone]

-----------------------------------------------------------------------------
(* The file.                                                               *)

update_uworld_flags(d) ==
    [d EXCEPT !.client = [c \in Clients |->
        [d.client[c] EXCEPT !.uworld = (d.client[c].st = "server" /\ c \in d.lists.uworld)]]]

\* a block of the file: a line is made when find_class knows its class
ReadEntry(d, e) ==
    CASE e.kind = "class" -> add_class(d, e.name, e.max)
      [] e.kind = "port" -> add_listener(d, e.port, TRUE)
      [] e.kind = "deny" -> [d EXCEPT !.lists.deny = @ \cup e.who]
      [] e.kind = "except" -> [d EXCEPT !.lists.except = @ \cup e.who]
      [] e.kind = "uworld" -> [d EXCEPT !.lists.uworld = @ \cup e.who]
      [] OTHER -> IF find_class(d, e.class) = None THEN d
                  ELSE make_conf(d, e, find_class(d, e.class), e.kind = "connect")

read_configuration_file(d, f) == FoldLeft(ReadEntry, d, f)

\* the lines in use are marked, the client lines among them stay listed
Unlist(d) ==
    LET used == {i \in Range(d.listed) : d.conf[i].clients > 0}
        marked == [i \in DOMAIN d.conf |->
                      IF i \in used THEN [d.conf[i] EXCEPT !.illegal = TRUE] ELSE d.conf[i]]
    IN  [d EXCEPT !.conf = Restrict(marked, DOMAIN d.conf \ (Range(d.listed) \ used)),
                  !.listed = SelectSeq(@, LAMBDA i : i \in used /\ d.conf[i].kind = "client"),
                  !.lists = [deny |-> {}, except |-> {}, uworld |-> {}]]

\* det_confs_butmask(acptr, ~CONF_ILLEGAL) for servers finds no line to drop,
\* a line's status being CONF_ILLEGAL and its kind
rehash(d, f) ==
    LET cleared == mark_listeners_closing(class_mark_delete(Unlist(d)))
        read    == class_delete_marked(close_listeners(read_configuration_file(cleared, f)))
        flushed == [read EXCEPT !.listed = SelectSeq(@, LAMBDA i : ~read.conf[i].illegal)]
        victims == SetToSeq({c \in Clients : flushed.client[c].st = "user" /\ find_kill(flushed, c)})
    IN  update_uworld_flags(FoldLeft(close_connection, flushed, victims))

-----------------------------------------------------------------------------
Empty == [conf |-> <<>>, listed |-> <<>>,
          classes |-> [k \in {Default} |-> [name |-> "default", max |-> 0, valid |-> TRUE, links |-> 1]],
          listener |-> [p \in {} |-> [active |-> TRUE, refs |-> 0]],
          lists |-> [deny |-> {}, except |-> {}, uworld |-> {}],
          client |-> [c \in Clients |-> Gone], stale |-> FALSE]

Init ==
    LET d == read_configuration_file(Empty, First)
    IN  /\ conf = d.conf /\ listed = d.listed /\ classes = d.classes /\ listener = d.listener
        /\ lists = d.lists /\ client = d.client /\ stale = d.stale
        /\ rehashed = 0
        /\ exact = TRUE

accept_connection(c, p) ==
    /\ client[c].st = "none"
    /\ p \in DOMAIN listener /\ listener[p].active
    /\ Set([Db EXCEPT !.client[c] = [Gone EXCEPT !.st = "unknown", !.port = p], !.listener[p].refs = @ + 1])
    /\ UNCHANGED <<rehashed, exact>>

\* register_user: find_kill is asked once the client has a line
conf_check_client(c) ==
    LET d == attach_iline(Db, c)
    IN  /\ c \notin ServersC /\ client[c].st = "unknown"
        /\ Set(IF d.client[c].confs = <<>> \/ find_kill(d, c) THEN close_connection(d, c)
               ELSE [d EXCEPT !.client[c].st = "user"])
        /\ UNCHANGED <<rehashed, exact>>

can_oper(c) ==
    LET m == find_conf_exact(Db, c)
    IN  /\ client[c].st = "user" /\ m # <<>>
        /\ Set(attach_conf(Db, c, m[1]))
        /\ UNCHANGED <<rehashed, exact>>

\* MODE -o
Deop(c) ==
    /\ client[c].st = "user" /\ Len(client[c].confs) > 1
    /\ Set(det_confs_butmask(Db, c, {"client"}))
    /\ UNCHANGED <<rehashed, exact>>

\* once the address of the line's host is known
connect_server(c) ==
    LET m == SelectSeq(Matching(Db, "connect", c), LAMBDA i : ~conf[i].pending)
    IN  /\ c \in ServersC /\ client[c].st = "none" /\ m # <<>>
        /\ Set(attach_confs([Db EXCEPT !.client[c].st = "connecting"], c))
        /\ UNCHANGED <<rehashed, exact>>

\* of the lines attached one is kept, after all have been let go
conf_check_server(c) ==
    LET d    == IF client[c].st = "unknown" THEN attach_confs(Db, c) ELSE Db
        mine == SelectSeq(d.client[c].confs, LAMBDA i : i \in DOMAIN d.conf => d.conf[i].kind = "connect")
        let  == det_confs_butmask(d, c, {})
    IN  /\ c \in ServersC /\ client[c].st \in {"unknown", "connecting"}
        /\ Set(IF mine = <<>> THEN close_connection(d, c)
               ELSE update_uworld_flags([attach_conf(let, c, mine[1]) EXCEPT !.client[c].st = "server"]))
        /\ UNCHANGED <<rehashed, exact>>

Close(c) ==
    /\ client[c].st # "none"
    /\ Set(close_connection(Db, c))
    /\ UNCHANGED <<rehashed, exact>>

\* conf_dns_callback, whether or not there was an answer
conf_dns_callback(i) ==
    /\ i \in DOMAIN conf /\ conf[i].pending
    /\ Set([Db EXCEPT !.conf[i].pending = FALSE])
    /\ UNCHANGED <<rehashed, exact>>

Rehash(f) ==
    /\ rehashed < MaxRehash
    /\ RehashConnecting \/ \A c \in Clients : client[c].st # "connecting"
    /\ rehashed' = rehashed + 1
    /\ Set(rehash(Db, f))
    /\ UNCHANGED exact

\* SET of a feature that init_class is told of: the count starts again
init_class ==
    /\ rehashed < MaxRehash /\ exact
    /\ classes' = [classes EXCEPT ![Default].links = 1]
    /\ exact' = (classes' = classes)
    /\ UNCHANGED <<conf, listed, listener, lists, client, rehashed, stale>>

Next ==
    \/ \E c \in Clients :
        \/ \E p \in Ports : accept_connection(c, p)
        \/ conf_check_client(c)
        \/ can_oper(c)
        \/ Deop(c)
        \/ connect_server(c)
        \/ conf_check_server(c)
        \/ Close(c)
    \/ \E i \in DOMAIN conf : conf_dns_callback(i)
    \/ \E f \in Files : Rehash(f)
    \/ init_class

Spec == Init /\ [][Next]_vars

-----------------------------------------------------------------------------
Users(i) == {c \in Clients : i \in Range(client[c].confs)}
Members(k) == {<<c, i>> \in Clients \X DOMAIN conf : i \in Range(client[c].confs) /\ conf[i].class = k}

(* Whatever a client holds a pointer to is there, and whatever is there    *)
(* only because it is held goes when it is let go: a line that a REHASH    *)
(* took out of the list lives as long as it is attached (detach_conf,      *)
(* free_conf), a line always finds its class (class_delete_marked), a      *)
(* closing port stays open for the clients it accepted (release_listener). *)
NoDanglingConf ==
    /\ ~stale
    /\ \A c \in Clients : Range(client[c].confs) \subseteq DOMAIN conf
    /\ \A i \in DOMAIN conf :
        /\ conf[i].class \in DOMAIN classes
        /\ conf[i].clients = Cardinality(Users(i))
        /\ i \in Range(listed) <=> ~conf[i].illegal
        /\ conf[i].illegal => conf[i].clients > 0
    /\ \A p \in DOMAIN listener :
        /\ listener[p].refs = Cardinality({c \in Clients : client[c].port = p})
        /\ listener[p].active \/ listener[p].refs > 0
    /\ \A c \in Clients : client[c].port # None => client[c].port \in DOMAIN listener

(* A class counts the lines of it that clients hold, on which its limit    *)
(* depends, whatever REHASH did to the lines and to the class; the class   *)
(* "default" only as long as init_class has not reset its count.           *)
ClassCountExact ==
    \A k \in DOMAIN classes :
        (k = Default => exact) => classes[k].links = 1 + Cardinality(Members(k))

(* No user stays whom the kill lines in force refuse: it is asked when a   *)
(* user registers and of all users when the lines change.                  *)
KilledGone == \A c \in Clients : client[c].st = "user" => ~find_kill(Db, c)

\* "Configuration entry is still in use by some local clients, cannot delete
\* it--mark it so that it will be deleted when the last client exits..."
KeptWhileInUse == ~stale
=============================================================================
