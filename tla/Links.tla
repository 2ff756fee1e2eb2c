------------------------------- MODULE Links -------------------------------
(***************************************************************************)
(* The server network.  Servers open connections to each other             *)
(* (connect_server, completed_connection, mr_server), tell each other      *)
(* which servers are behind them (server_estab, ms_server), find out that  *)
(* a new link made a loop (check_loop_and_lh), and take links down         *)
(* (exit_client, ms_squit).  Each server only has its own view of the      *)
(* tree; the messages on a connection are in order, and are lost when the  *)
(* connection closes.                                                      *)
(*                                                                         *)
(* Servers are numbers, so that strcmp is <.  All servers are hubs, and no *)
(* Connect block has a hop or hub limit.  The clocks of the servers agree. *)
(***************************************************************************)
EXTENDS Integers, FiniteSets, SequencesExt

CONSTANTS
    Server,         \* names of servers
    Conn,           \* connections that are ever tried, each at most once
    End,            \* End[k]: <<the server that connects, the one that accepts>>
    Linked,         \* Linked[k]: link time stamp at the start, 0: not linked
    SameSecond,     \* may two links be made in the same second?
    OwnClock,       \* does the accepting server's clock decide?
    MaxSquit,       \* SQUITs of operators
    MaxBreak        \* connections that break or time out

ASSUME LinksAssumption ==
    /\ Server \subseteq Nat \ {0}
    /\ End \in [Conn -> Server \X Server]
    /\ Linked \in [Conn -> Nat]
    /\ {SameSecond, OwnClock} \subseteq BOOLEAN

VARIABLES
    view,       \* view[s][t]: what s has hashed under the name t
    open,       \* open[k]: the ends that hold the socket
    chan,       \* chan[k][s]: messages on their way to s
    dialed,     \* connections that were tried
    now, squits, breaks

vars == <<view, open, chan, dialed, now, squits, breaks>>

-----------------------------------------------------------------------------
\* struct Client and struct Server as far as links go.  up is me for a direct
\* link, via is the connection cli_from() reads from.
Nobody == [st |-> "none", up |-> 0, ts |-> 0, via |-> 0, ghost |-> FALSE]

Ends(k) == {End[k][1], End[k][2]}
Peer(k, s) == IF s = End[k][1] THEN End[k][2] ELSE End[k][1]

\* SERVER between two servers that are not linked yet, and between servers;
\* SQUIT.  src is the prefix of the message.
Hello(s, ts)           == [cmd |-> "HELLO", src |-> s, host |-> s, ts |-> ts]
SERVER(src, host, ts)  == [cmd |-> "SERVER", src |-> src, host |-> host, ts |-> ts]
SQUIT(src, host, ts)   == [cmd |-> "SQUIT", src |-> src, host |-> host, ts |-> ts]

\* A handler of server s works on one record: its view, what it writes to
\* each connection, the connections it closes, and whether to go on.
Work(s) == [me |-> s, v |-> view[s], out |-> [k \in Conn |-> <<>>], shut |-> {}, ret |-> "loop"]

Write(w, ks, m) == [w EXCEPT !.out = [k \in Conn |-> IF k \in ks THEN Append(@[k], m) ELSE @[k]]]

FindServer(w, t) == t # w.me /\ w.v[t].st = "server"
MyConnect(w, t)  == w.v[t].st # "none" /\ w.v[t].up = w.me
\* cli_serv(&me)->down
DownLinks(w) == {t \in Server : FindServer(w, t) /\ MyConnect(w, t)}

\* cli_from(): the connection, 0 for me.
From(w, t) == IF t = w.me THEN 0 ELSE w.v[t].via

\* The servers from t to the one that is linked to me, t first.
Path(w, t) ==
    SelectSeq(FoldLeft(LAMBDA p, i : IF Last(p) = w.me THEN p ELSE Append(p, w.v[Last(p)].up),
                       <<t>>, [i \in 1 .. Cardinality(Server) |-> i]),
              LAMBDA x : x # w.me)

\* a_kills_b_too
AKillsBToo(w, a, b) == a \in ToSet(Path(w, b))

-----------------------------------------------------------------------------
\* exit_client for a victim that is hashed.  The other end of a closed
\* connection gets "SQUIT me 0"; all other neighbours but the killer's
\* direction get "SQUIT victim timestamp"; then the victim goes with all that
\* is behind it.
exit_client(w, victim, killer) ==
    LET e == w.v[victim]
        local == MyConnect(w, victim)
        told == /\ local /\ e.st \in {"server", "handshake"}
                /\ e.via # From(w, killer)
        others == {w.v[d].via : d \in {d \in DownLinks(w) \ {victim} : w.v[d].via # From(w, killer)}}
        w1 == IF told THEN Write(w, {e.via}, SQUIT(killer, w.me, 0)) ELSE w
        w2 == IF e.st = "server" THEN Write(w1, others, SQUIT(killer, victim, e.ts)) ELSE w1
        gone == {t \in Server : w.v[t].st # "none" /\ AKillsBToo(w, victim, t)}
    IN  [w2 EXCEPT !.v = [t \in Server |-> IF t \in gone THEN Nobody ELSE @[t]],
                   !.shut = @ \cup (IF local THEN {e.via} ELSE {})]

\* exit_client for the connection a handler reads from, which is not hashed
\* while the server behind it is unknown.
exit_cptr(w, k) ==
    IF w.v[Peer(k, w.me)].via = k /\ MyConnect(w, Peer(k, w.me))
    THEN exit_client(w, Peer(k, w.me), w.me)
    ELSE [w EXCEPT !.shut = @ \cup {k}]

exit_new_server(w, k, fromserver, host, ts) ==
    IF fromserver THEN Write(w, {k}, SQUIT(w.me, host, ts)) ELSE exit_cptr(w, k)

\* Mutant: the youngest link, which may be the only good one.
SecondYoungest_first(w, sptr, fromserver, host, ts) ==
    LET loop == Path(w, host) \o (IF fromserver THEN Path(w, sptr) ELSE <<>>)
        y == FoldLeft(LAMBDA c, x : IF w.v[x].ts > w.v[c].ts THEN x ELSE c, host, loop)
    IN  IF ts > w.v[y].ts THEN 0 ELSE y

\* The two youngest links of the loop that a new server closes; 0 is the new
\* link.  The loop runs from the existing server to me and, when a server told
\* me of the new one, from me to that server.
SecondYoungest(w, sptr, fromserver, host, ts) ==
    LET loop == Path(w, host) \o (IF fromserver THEN Path(w, sptr) ELSE <<>>)
        age(x) == IF x = 0 THEN ts ELSE w.v[x].ts
        y == FoldLeft(LAMBDA c, x : IF age(x) > age(c) THEN x ELSE c, host, loop)
        c3 == IF ts > age(y) THEN 0 ELSE y
        c2 == FoldLeft(LAMBDA c, x : IF x # c3 /\ age(x) > age(c) THEN x ELSE c,
                       IF c3 = 0 THEN host ELSE 0, loop)
        upper(x) == IF x # 0 THEN w.v[x].up ELSE IF fromserver THEN sptr ELSE w.me
        lower(x) == IF x # 0 THEN x ELSE host
        name(x) == Min({lower(x), upper(x)})
    IN  IF age(c2) = age(c3) /\ name(c3) > name(c2) THEN c3 ELSE c2

\* "Now squit the second youngest link": the new one, the one the news is of,
\* or, rather than believe a server that connects here, the ghost of the server.
BreakLoop(w, k, sptr, fromserver, host, ts) ==
    LET c2 == SecondYoungest(w, sptr, fromserver, host, ts)
        victim == IF w.v[Peer(k, w.me)].ghost THEN host ELSE c2
    IN  IF c2 = 0 THEN [exit_new_server(w, k, fromserver, host, ts) EXCEPT !.ret = "no"]
        ELSE IF w.v[c2].via = k \/ fromserver
        THEN [exit_client(w, victim, w.me) EXCEPT
                !.ret = IF w.v[victim].via = k THEN "no" ELSE "loop"]
        ELSE [exit_client(w, host, w.me) EXCEPT !.ret = "ghost"]

\* One turn of the loop in check_loop_and_lh.  The new server may be known
\* already because it is me, because I am connecting to it, because this is
\* that connection, or because there is a loop.
LoopTurn(w, k, sptr, fromserver, host, ts) ==
    LET a == w.v[host]
    IN  IF w.ret # "loop" THEN w
        ELSE IF host = w.me THEN [exit_cptr(w, k) EXCEPT !.ret = "no"]
        ELSE CASE a.st = "none" -> [w EXCEPT !.ret = "yes"]
               [] a.st = "connecting" -> [exit_client(w, host, w.me) EXCEPT !.ret = "yes"]
               [] a.st = "handshake" /\ a.via = k -> [w EXCEPT !.ret = "yes"]
               [] OTHER -> BreakLoop(w, k, sptr, fromserver, host, ts)

check_loop_and_lh(w, k, sptr, fromserver, host, ts) ==
    FoldLeft(LAMBDA x, i : LoopTurn(x, k, sptr, fromserver, host, ts),
             w, [i \in 1 .. Cardinality(Server) + 1 |-> i])

-----------------------------------------------------------------------------
\* Applies the work of a handler of s, on top of the channels ch.  What is
\* written to a connection the other end has closed is lost.
Apply(work, ch) ==
    \E w \in {work} :
    LET s == w.me
        open1 == [k \in Conn |-> IF k \in w.shut THEN open[k] \ {s} ELSE open[k]]
    IN  /\ view' = [view EXCEPT ![s] = w.v]
        /\ open' = open1
        /\ chan' = [k \in Conn |-> [t \in Server |->
                IF t \notin open1[k] THEN <<>>
                ELSE IF s \in Ends(k) /\ t = Peer(k, s) THEN ch[k][t] \o w.out[k]
                ELSE ch[k][t]]]

\* The clock when a server makes a link.
Clock == IF SameSecond THEN {now, now + 1} ELSE {now + 1}

\* The time stamp a connecting server proposes is later than all of its links'.
UniqueTS(w, t) ==
    LET used == {w.v[u].ts : u \in {u \in Server : MyConnect(w, u) /\ w.v[u].st \in {"server", "handshake"}}}
    IN  Max({t} \cup {ts + 1 : ts \in used})

\* A connection is started unless the server is there or is being connected to.
connect_server(k) ==
    LET s == End[k][1]
        t == End[k][2]
    IN  /\ k \notin dialed
        /\ view[s][t].st = "none"
        /\ dialed' = dialed \cup {k}
        /\ view' = [view EXCEPT ![s][t] = [Nobody EXCEPT !.st = "connecting", !.up = s, !.via = k]]
        /\ open' = [open EXCEPT ![k] = {s}]
        /\ UNCHANGED <<chan, now, squits, breaks>>

\* mo_connect: an operator's CONNECT; try_connections starts one likewise.
mo_connect(k) == ~FindServer(Work(End[k][1]), End[k][2]) /\ connect_server(k)

\* completed_connection: the socket is connected, and the accepting server has
\* an unknown client on it.
completed_connection(k) ==
    LET s == End[k][1]
        t == End[k][2]
        ts == UniqueTS(Work(s), now')
    IN  /\ view[s][t].st = "connecting" /\ view[s][t].via = k
        /\ now' \in Clock
        /\ view' = [view EXCEPT ![s][t].st = "handshake", ![s][t].ts = ts]
        /\ open' = [open EXCEPT ![k] = {s, t}]
        /\ chan' = [chan EXCEPT ![k][t] = <<Hello(s, ts)>>]
        /\ UNCHANGED <<dialed, squits, breaks>>

\* server_estab: the new neighbour t is told to the others, and is told all
\* servers that are not behind itself, each after the one it is behind.
server_estab(w, k, ts, unknown) ==
    LET t == Peer(k, w.me)
        w1 == IF unknown THEN Write(w, {k}, Hello(w.me, ts)) ELSE w
        w2 == Write(w1, {w.v[d].via : d \in DownLinks(w) \ {t}}, SERVER(w.me, t, ts))
        rest == SetToSortSeq({u \in Server : FindServer(w, u) /\ w.v[u].via # k},
                             LAMBDA a, b : Len(Path(w, a)) < Len(Path(w, b)))
    IN  FoldLeft(LAMBDA x, u : Write(x, {k}, SERVER(x.v[u].up, u, x.v[u].ts)), w2, rest)

\* SERVER on a connection that is not a server yet.  Accepting servers may put
\* their own clock in place of the time stamp (check_start_timestamp).
mr_server(s, k, m, ch) ==
    \E w0 \in {check_loop_and_lh(Work(s), k, m.host, FALSE, m.host, m.ts)} :
    LET unknown == view[s][m.host].via # k
        accept(ts) ==
            LET e == [st |-> "server", up |-> s, ts |-> ts, via |-> k, ghost |-> w0.ret = "ghost"]
                w == [w0 EXCEPT !.v[m.host] = e]
            IN  server_estab(w, k, ts, unknown)
    IN  \/ w0.ret = "no" /\ Apply(w0, ch) /\ UNCHANGED now
        \/ w0.ret # "no" /\ Apply(accept(m.ts), ch) /\ UNCHANGED now
        \/ /\ w0.ret # "no" /\ unknown /\ OwnClock
           /\ now' \in Clock /\ Apply(accept(now'), ch)

\* Mutants: the new server is not passed on, and it is behind nobody.
ms_server_kept(s, k, m, ch) ==
    \E w0 \in {check_loop_and_lh(Work(s), k, m.src, TRUE, m.host, m.ts)} :
    LET e == [st |-> "server", up |-> m.src, ts |-> m.ts, via |-> k, ghost |-> FALSE]
    IN  /\ Apply(IF w0.ret = "no" THEN w0 ELSE [w0 EXCEPT !.v[m.host] = e], ch)
        /\ UNCHANGED now

ms_server(s, k, m, ch) ==
    \E w0 \in {check_loop_and_lh(Work(s), k, m.src, TRUE, m.host, m.ts)} :
    LET e == [st |-> "server", up |-> m.src, ts |-> m.ts, via |-> k, ghost |-> FALSE]
        w1 == [w0 EXCEPT !.v[m.host] = e]
        others == {w1.v[d].via : d \in DownLinks(w1)} \ {k}
    IN  /\ Apply(IF w0.ret = "no" THEN w0 ELSE Write(w1, others, m), ch)
        /\ UNCHANGED now

\* SQUIT from a server.  A time stamp that is not the link's is of another
\* link; 0 comes from the neighbour that closes the connection.
ms_squit(s, k, m, src, ch) ==
    LET w == Work(s)
        victim == IF m.host = s THEN Peer(k, s) ELSE m.host
        meant == /\ m.host = s \/ FindServer(w, m.host)
                 /\ m.ts = 0 \/ m.ts = w.v[victim].ts
    IN  /\ Apply(IF meant THEN exit_client(w, victim, src) ELSE w, ch)
        /\ UNCHANGED now

\* parse_server: a prefix that is not known, or is known to be elsewhere.
Receive(s, k) ==
    LET m == Head(chan[k][s])
        ch == [chan EXCEPT ![k][s] = Tail(@)]
        w == Work(s)
        cptr == Peer(k, s)
        server == w.v[cptr].st = "server" /\ w.v[cptr].via = k
        known == m.src = s \/ FindServer(w, m.src)
        src == IF ~known /\ m.cmd = "SQUIT" THEN cptr ELSE m.src
        heard == server /\ (known \/ m.cmd = "SQUIT") /\ From(w, src) = k
    IN  /\ s \in open[k] /\ chan[k][s] # <<>>
        /\ \/ ~server /\ m.cmd = "HELLO" /\ mr_server(s, k, m, ch)
           \/ heard /\ m.cmd = "SERVER" /\ ms_server(s, k, m, ch)
           \/ heard /\ m.cmd = "SQUIT" /\ ms_squit(s, k, m, src, ch)
           \/ /\ ~heard /\ (server \/ m.cmd # "HELLO")
              /\ Apply(w, ch) /\ UNCHANGED now
        /\ UNCHANGED <<dialed, squits, breaks>>

\* The connection is gone: read_packet fails, and what was not read is lost.
Eof(s, k) ==
    /\ s \in open[k] /\ Cardinality(open[k]) = 1
    /\ \/ view[s][Peer(k, s)].st # "connecting"
       \/ view[s][Peer(k, s)].via # k
    /\ Apply(exit_cptr(Work(s), k), chan)
    /\ UNCHANGED <<dialed, now, squits, breaks>>

\* check_pings gives up a connection, or the network breaks it.
PingTimeout(s, k) ==
    /\ breaks < MaxBreak
    /\ s \in open[k]
    /\ breaks' = breaks + 1
    /\ Apply(exit_cptr(Work(s), k), chan)
    /\ UNCHANGED <<dialed, now, squits>>

\* mo_squit
mo_squit(s, t) ==
    /\ squits < MaxSquit
    /\ FindServer(Work(s), t)
    /\ squits' = squits + 1
    /\ Apply(exit_client(Work(s), t, s), chan)
    /\ UNCHANGED <<dialed, now, breaks>>

\* Twenty seconds after a ghost.
GhostForgotten(s, t) ==
    /\ view[s][t].ghost
    /\ view' = [view EXCEPT ![s][t].ghost = FALSE]
    /\ UNCHANGED <<open, chan, dialed, now, squits, breaks>>

-----------------------------------------------------------------------------
\* The servers that the links ks connect with those in ss.
Around(ss, ks) == ss \cup UNION {Ends(k) : k \in {k \in ks : Ends(k) \cap ss # {}}}

Reach(s, ks) == FoldLeft(LAMBDA ss, i : Around(ss, ks), {s}, [i \in 1 .. Cardinality(Server) |-> i])

\* The view of a server when every message about the links ks has arrived,
\* whose time stamps are lt: t is behind its neighbour on the side of s.
TreeView(s, ks, lt) ==
    LET hop(t) == CHOOSE k \in ks : t \in Ends(k) /\ s \in Reach(Peer(k, t), ks \ {k})
        first(t) == CHOOSE k \in ks : s \in Ends(k) /\ t \in Reach(Peer(k, s), ks \ {k})
    IN  [t \in Server |->
            IF t = s \/ t \notin Reach(s, ks) THEN Nobody
            ELSE [st |-> "server", up |-> Peer(hop(t), t), ts |-> lt[hop(t)], via |-> first(t), ghost |-> FALSE]]

Init ==
    LET ks == {k \in Conn : Linked[k] > 0}
    IN  /\ view = [s \in Server |-> TreeView(s, ks, Linked)]
        /\ open = [k \in Conn |-> IF k \in ks THEN Ends(k) ELSE {}]
        /\ chan = [k \in Conn |-> [s \in Server |-> <<>>]]
        /\ dialed = ks
        /\ now = Max({Linked[k] : k \in Conn})
        /\ squits = 0 /\ breaks = 0

Next ==
    \/ \E k \in Conn : mo_connect(k) \/ completed_connection(k)
    \/ \E k \in Conn : \E s \in Ends(k) : Receive(s, k) \/ Eof(s, k) \/ PingTimeout(s, k)
    \/ \E s, t \in Server : mo_squit(s, t) \/ GhostForgotten(s, t)

Spec == Init /\ [][Next]_vars

-----------------------------------------------------------------------------
\* Connections that are links at both ends.
Links == {k \in Conn : \A s \in Ends(k) : view[s][Peer(k, s)].st = "server" /\ view[s][Peer(k, s)].via = k}

LinkTS == [k \in Conn |-> view[End[k][1]][End[k][2]].ts]

\* Nothing is on its way.
Quiet == /\ \A k \in Conn : k \in Links \/ open[k] = {}
         /\ \A k \in Conn, s \in Server : chan[k][s] = <<>>

\* check_loop_and_lh: the links form no loop once all messages have arrived.
NoLoop == Quiet => \A k \in Links : End[k][2] \notin Reach(End[k][1], Links \ {k})

\* server_estab, ms_server and exit_client: once all messages have arrived
\* every server knows exactly the servers it is connected with, each behind
\* the right one and with the time stamp of that link: there are no ghosts,
\* and nobody is forgotten.
TreeAgrees ==
    Quiet => \A s \in Server :
                [t \in Server |-> [view[s][t] EXCEPT !.ghost = FALSE]] = TreeView(s, Links, LinkTS)

\* mr_server and exit_client: a connection both ends hold, with nothing on its
\* way, is a link at both ends with the same time stamp: neither end waits for
\* the other, and the two agree on how old the link is (src/doc/p10.txt {62}).
NoHalfLink ==
    \A k \in Conn :
        Cardinality(open[k]) = 2 /\ (\A s \in Ends(k) : chan[k][s] = <<>>)
        => /\ k \in Links
           /\ view[End[k][2]][End[k][1]].ts = LinkTS[k]

\* src/doc/p10.txt {631}: of the loop's links sorted by time stamp the one in
\* second place, among those with its time stamp the one with the greatest
\* server name.  The link is found wherever in the loop the collision happens.
LoopLinks(w, sptr, host, ts) ==
    LET link(a, b, t) == [ts |-> t, hi |-> Max({a, b}), lo |-> Min({a, b})]
    IN  {link(x, w.v[x].up, w.v[x].ts) : x \in ToSet(Path(w, host) \o Path(w, sptr))}
           \cup {link(host, sptr, ts)}

Documented(ls) ==
    LET young == {l \in ls : \A o \in ls : o.ts <= l.ts}
        second == IF Cardinality(young) > 1 THEN young
                  ELSE {l \in ls \ young : \A o \in ls \ young : o.ts <= l.ts}
    IN  CHOOSE l \in second : \A o \in second : o.hi < l.hi \/ (o.hi = l.hi /\ o.lo <= l.lo)

\* Whenever a SERVER message is about a server that is already there, the
\* link check_loop_and_lh breaks is the documented one.
SecondYoungestBreaks ==
    \A k \in Conn : \A s \in Ends(k) :
        LET m == Head(chan[k][s])
            w == Work(s)
            c2 == SecondYoungest(w, m.src, TRUE, m.host, m.ts)
            l == Documented(LoopLinks(w, m.src, m.host, m.ts))
        IN  /\ s \in open[k] /\ chan[k][s] # <<>> /\ m.cmd = "SERVER"
            /\ FindServer(w, m.src) /\ From(w, m.src) = k /\ FindServer(w, m.host)
            => {l.hi, l.lo} = IF c2 = 0 THEN {m.host, m.src} ELSE {c2, w.v[c2].up}
=============================================================================
