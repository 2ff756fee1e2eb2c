-------------------------------- MODULE Nick --------------------------------
(***************************************************************************)
(* Nicks on a network of servers: sign on, nick changes, quits and kills   *)
(* spread over FIFO links, and every server settles by itself the          *)
(* collisions it meets (m_nick.c, m_kill.c, m_quit.c, numnicks.c, the nick *)
(* part of s_user.c, s_misc.c and s_serv.c).                               *)
(*                                                                         *)
(* The servers 1, 2, ... stand in a line.  A client is named by its        *)
(* numeric; SetLocalNumNick gives the numerics out in turn, so that none   *)
(* comes back while messages still name it (bound.used).                   *)
(***************************************************************************)
EXTENDS Integers, Sequences, SequencesExt, FiniteSets

CONSTANTS
    Servers,     \* 1..n
    Clients, Home,
    Nicks,
    Idents,      \* user name and address of a client: "differ" compares them
    Skew,        \* Skew[s]: how far TStime() of s is ahead
    Kills,       \* operators use KILL
    Svs,         \* the servers that get SVSNICK from a service
    MaxMoves, MaxSplits, MaxTime

ASSUME NickAssumption ==
    /\ Servers = 1..Cardinality(Servers)
    /\ Home \in [Clients -> Servers]
    /\ Skew \in [Servers -> Nat]
    /\ Kills \in BOOLEAN
    /\ Svs \subseteq Servers
    /\ {MaxMoves, MaxSplits, MaxTime} \subseteq Nat

VARIABLES
    user,    \* user[s][c]: what s knows of client c, or NoUser
    chan,    \* chan[s][t]: what s sent to t and t has not read
    conn,    \* conn[s]: the neighbours s has a link with
    known,   \* known[s]: the servers s knows of
    now,     \* the time
    bound    \* moves and splits so far, numerics given out

vars == <<user, chan, conn, known, now, bound>>

NoUser == [st |-> "none", nick |-> "*", lastnick |-> 0, ident |-> "*"]

Init ==
    /\ user = [s \in Servers |-> [c \in Clients |-> NoUser]]
    /\ chan = [s \in Servers |-> [t \in Servers |-> <<>>]]
    /\ conn = [s \in Servers |-> {s - 1, s + 1} \cap Servers]
    /\ known = [s \in Servers |-> Servers]
    /\ now = 1
    /\ bound = [moves |-> 0, splits |-> 0, used |-> {}]

TStime(s) == now + Skew[s]

(* cli_from: the link of s that leads to server t                          *)
Toward(s, t) == IF t = s THEN s ELSE IF t > s THEN s + 1 ELSE s - 1
From(s, c) == Toward(s, Home[c])

N(c, r) == [type |-> "N", c |-> c, nick |-> r.nick, lastnick |-> r.lastnick,
            ident |-> r.ident]
NC(c, r) == [type |-> "NC", c |-> c, nick |-> r.nick, lastnick |-> r.lastnick]
Q(c) == [type |-> "Q", c |-> c]
D(c) == [type |-> "D", c |-> c]
SN(c, n) == [type |-> "SN", c |-> c, nick |-> n]
SERVER(t) == [type |-> "S", server |-> t]
SQUIT(t) == [type |-> "SQ", server |-> t]

-----------------------------------------------------------------------------
(* A handler is computed on h: the server, its clients, and what it has    *)
(* sent to its neighbours so far.                                          *)
Start(s) == [s |-> s, u |-> user[s], out |-> chan[s]]

Commit(h) ==
    /\ user' = [user EXCEPT ![h.s] = h.u]
    /\ chan' = [chan EXCEPT ![h.s] = h.out]

(* What is sent into a link that the other end has closed is lost.         *)
sendcmdto_one(h, t, m) ==
    IF t \in conn[h.s] /\ h.s \in conn[t] THEN [h EXCEPT !.out[t] = Append(@, m)] ELSE h

sendcmdto_serv_butone(h, one, m) ==
    [h EXCEPT !.out = [t \in Servers |->
        IF t \in conn[h.s] \ {one} /\ h.s \in conn[t] THEN Append(@[t], m) ELSE @[t]]]

exit_one_client(h, c) == [h EXCEPT !.u[c] = NoUser]

(* exit_client with a source that is behind link one; FLAG_KILLED is clear *)
exit_client(h, c, one) ==
    exit_one_client(IF h.u[c].st = "user" THEN sendcmdto_serv_butone(h, one, Q(c)) ELSE h, c)

Killed(h, c) == exit_one_client(sendcmdto_serv_butone(h, h.s, D(c)), c)

(* FindClient: the holders of a nick                                       *)
FindClient(h, n) == {c \in Clients : h.u[c].st # "none" /\ h.u[c].nick = n}

(* An unregistered local client that holds the nick is dropped for the new *)
(* one.                                                                    *)
IsUnknown(h, c) == h.u[c].st = "unknown"

-----------------------------------------------------------------------------
(* Local clients                                                           *)

Free(h, c, n) == \A x \in FindClient(h, n) : x = c \/ IsUnknown(h, x)

Overridden(h, c, n) ==
    [h EXCEPT !.u = [x \in Clients |-> IF x \in FindClient(h, n) \ {c} THEN NoUser
                                       ELSE h.u[x]]]

Move ==
    /\ bound.moves < MaxMoves
    /\ bound' = [bound EXCEPT !.moves = @ + 1]
    /\ UNCHANGED <<conn, known, now>>

(* make_client and the first NICK: registration waits for USER and PONG.   *)
m_nick_first(c, n, i) ==
    LET h == Start(Home[c])
    IN  /\ h.u[c].st = "none"
        /\ Free(h, c, n)
        /\ c \notin bound.used
        /\ Commit([Overridden(h, c, n) EXCEPT
                !.u[c] = [st |-> "unknown", nick |-> n,
                          lastnick |-> TStime(h.s), ident |-> i]])
        /\ Move

(* register_user for a local client that has passed all checks             *)
register_user(c) ==
    LET h == Start(Home[c])
    IN  /\ h.u[c].st = "unknown"
        /\ Commit(sendcmdto_serv_butone([h EXCEPT !.u[c].st = "user"], h.s, N(c, h.u[c])))
        /\ bound' = [bound EXCEPT !.used = @ \cup {c}]
        /\ UNCHANGED <<conn, known, now>>

(* set_nick_name for a client that changes its nick                        *)
SetNick(h, c, n, ts, one) ==
    LET r == [h.u[c] EXCEPT !.nick = n, !.lastnick = ts]
        g == [h EXCEPT !.u[c] = r]
    IN  IF r.st = "user" THEN sendcmdto_serv_butone(g, one, NC(c, r)) ELSE g

m_nick(c, n) ==
    LET h == Start(Home[c])
    IN  /\ h.u[c].st # "none"
        /\ h.u[c].nick # n
        /\ Free(h, c, n)
        /\ Commit(SetNick(Overridden(h, c, n), c, n, TStime(h.s), h.s))
        /\ Move

m_quit(c) ==
    LET h == Start(Home[c])
    IN  /\ h.u[c].st # "none"
        /\ Commit(exit_client(h, c, h.s))
        /\ Move

(* mo_kill: the victim of a local KILL quits, a remote one is killed.      *)
mo_kill(s, c) ==
    LET h == Start(s)
    IN  /\ Kills
        /\ h.u[c].st = "user"
        /\ Commit(IF Home[c] = s THEN exit_client(h, c, s) ELSE Killed(h, c))
        /\ Move

-----------------------------------------------------------------------------
(* Messages from server p                                                  *)

(* set_nick_name for a client that a server introduces.  SetRemoteNumNick  *)
(* exits a client that had the same numeric.                               *)
Introduce(h, p, m) ==
    LET g == IF h.u[m.c].st = "none" THEN h ELSE exit_client(h, m.c, p)
        r == [st |-> "user", nick |-> m.nick, lastnick |-> m.lastnick, ident |-> m.ident]
    IN  sendcmdto_serv_butone([g EXCEPT !.u[m.c] = r], p, N(m.c, r))

Accept(h, p, m) ==
    IF m.type = "N" THEN Introduce(h, p, m) ELSE SetNick(h, m.c, m.nick, m.lastnick, p)

(* The new nick is the one to go: it is killed where it came from, or      *)
(* everywhere if the client is known.                                      *)
Refuse(h, p, m) ==
    IF m.type = "N" THEN sendcmdto_one(h, p, D(m.c)) ELSE Killed(h, m.c)

(* ms_nick when x holds the nick.  A holder of ours leaves with a KILL to  *)
(* all; the QUIT that the link of the new nick gets as well says the same  *)
(* and is left out.                                                        *)
(* A slip: with equal time stamps the new nick stays. *)
NewLoses_older(differ, ts, old) == IF differ THEN ts > old ELSE ts <= old

NewLoses(differ, ts, old) == IF differ THEN ts >= old ELSE ts <= old

(* A slip: the holder is not killed. *)
Collide_keep(h, p, m, x) == Accept(h, p, m)

Collide(h, p, m, x) ==
    LET old == h.u[x].lastnick
        ident == IF m.type = "N" THEN m.ident ELSE h.u[m.c].ident
        loses == /\ From(h.s, x) # p
                 /\ NewLoses(h.u[x].ident # ident, m.lastnick, old)
        g == IF loses THEN Refuse(h, p, m) ELSE h
    IN  IF loses /\ m.lastnick # old THEN g
        ELSE IF m.lastnick = old THEN Killed(g, x)
        ELSE Accept(Killed(g, x), p, m)

ms_nick(h, p, m) ==
    LET holders == FindClient(h, m.nick)
        x == CHOOSE y \in holders : TRUE
    IN  IF holders = {} THEN Accept(h, p, m)
        ELSE IF m.type = "NC" /\ x = m.c THEN h
        ELSE IF IsUnknown(h, x) THEN Accept(exit_one_client(h, x), p, m)
        ELSE Collide(h, p, m, x)

(* parse_server: a nick change of a client that is not known               *)
UnknownPrefix(h, p, m) ==
    IF Home[m.c] \in known[h.s] /\ From(h.s, m.c) = p
    THEN sendcmdto_one(h, p, D(m.c)) ELSE h

(* A KILL that reaches the victim's server is sent back: it may have       *)
(* crossed a NICK with the same numeric.                                   *)
ms_kill(h, p, m) ==
    LET g == IF Home[m.c] = h.s THEN sendcmdto_one(h, p, D(m.c)) ELSE h
    IN  IF h.u[m.c].st = "user"
        THEN exit_one_client(sendcmdto_serv_butone(g, p, D(m.c)), m.c)
        ELSE h

(* Every server on the way gives the client its new nick, with a time      *)
(* stamp of its own.  A client that holds the nick exits as if it had quit.*)
ms_svsnick(h, p, c, n) ==
    LET g == [h EXCEPT !.u = [x \in Clients |-> IF x \in FindClient(h, n) THEN NoUser
                                                ELSE h.u[x]],
                       !.out = [t \in Servers |-> IF t \in conn[h.s] /\ h.s \in conn[t]
                                THEN @[t] \o SetToSeq({Q(x) : x \in
                                        {y \in FindClient(h, n) : ~IsUnknown(h, y)}})
                                ELSE @[t]]]
    IN  IF h.u[c].st # "user" \/ h.u[c].nick = n THEN h
        ELSE sendcmdto_serv_butone(SetNick(g, c, n, TStime(h.s), From(h.s, c)), p, SN(c, n))

ms_quit(h, p, m) == exit_client(h, m.c, p)

(* parse_server finds who a message is from, drops what a client says from *)
(* the wrong direction and calls the handler of the command.               *)
Handle(h, p, m) ==
    CASE m.type = "N" -> IF Home[m.c] \in known[h.s] THEN ms_nick(h, p, m) ELSE h
      [] m.type = "NC" -> IF h.u[m.c].st # "user" THEN UnknownPrefix(h, p, m)
                          ELSE IF From(h.s, m.c) = p THEN ms_nick(h, p, m) ELSE h
      [] m.type = "Q" -> IF h.u[m.c].st = "user" /\ From(h.s, m.c) = p
                         THEN ms_quit(h, p, m) ELSE h
      [] m.type = "D" -> ms_kill(h, p, m)
      [] m.type = "SN" -> ms_svsnick(h, p, m.c, m.nick)

Receive(p, s) ==
    LET m == Head(chan[p][s])
        h == Handle(Start(s), p, m)
    IN  /\ chan[p][s] # <<>>
        /\ m.type \in {"N", "NC", "Q", "D", "SN"}
        /\ user' = [user EXCEPT ![s] = h.u]
        /\ chan' = [chan EXCEPT ![s] = h.out, ![p][s] = Tail(@)]
        /\ UNCHANGED <<conn, known, now, bound>>

(* A service behind server s, which is not modelled, sends SVSNICK.        *)
Service(s, c, n) ==
    /\ s \in Svs
    /\ Commit(ms_svsnick(Start(s), s, c, n))
    /\ Move

-----------------------------------------------------------------------------
(* Links                                                                   *)

(* exit_client of server t: the servers behind it and their clients go     *)
(* (exit_downlinks), and the other neighbours are told.                    *)
Gone(s, t) == {x \in Servers : IF t > s THEN x >= t ELSE x <= t}

Squit(h, t, one) ==
    sendcmdto_serv_butone(
        [h EXCEPT !.u = [c \in Clients |-> IF Home[c] \in Gone(h.s, t) THEN NoUser
                                           ELSE h.u[c]]],
        one, SQUIT(t))

(* s closes its link with t: a read error, a ping timeout, a SQUIT.        *)
Close(s, t) ==
    LET h == Squit(sendcmdto_one(Start(s), t, SQUIT(s)), t, t)
    IN  /\ bound.splits < MaxSplits
        /\ t \in conn[s] /\ s \in conn[t]
        /\ user' = [user EXCEPT ![s] = h.u]
        /\ chan' = [chan EXCEPT ![s] = h.out, ![t][s] = <<>>]
        /\ conn' = [conn EXCEPT ![s] = @ \ {t}]
        /\ known' = [known EXCEPT ![s] = @ \ Gone(s, t)]
        /\ bound' = [bound EXCEPT !.splits = @ + 1]
        /\ UNCHANGED <<now>>

(* ms_squit: of the neighbour itself, or of a server behind it             *)
ms_squit(p, s) ==
    LET t == Head(chan[p][s]).server
        h == Squit(Start(s), t, p)
    IN  /\ chan[p][s] # <<>>
        /\ Head(chan[p][s]).type = "SQ"
        /\ user' = [user EXCEPT ![s] = h.u]
        /\ chan' = [chan EXCEPT ![s] = h.out, ![p][s] = Tail(@)]
        /\ conn' = [conn EXCEPT ![s] = @ \ {t}]
        /\ known' = [known EXCEPT ![s] = @ \ Gone(s, t)]
        /\ UNCHANGED <<now, bound>>

(* server_estab: the servers and the clients s knows go to its new         *)
(* neighbour t, and t to the other neighbours.                             *)
Burst(s, t) ==
    LET nearFirst == SetToSortSeq(known[s] \ {s}, LAMBDA x, y : IF t > s THEN x > y ELSE x < y)
        users == SetToSeq({c \in Clients : user[s][c].st = "user"})
    IN  [i \in DOMAIN nearFirst |-> SERVER(nearFirst[i])]
        \o [i \in DOMAIN users |-> N(users[i], user[s][users[i]])]

server_estab(s, t) ==
    /\ t = s + 1 /\ {s, t} \subseteq Servers
    /\ t \notin conn[s] /\ s \notin conn[t]
    /\ conn' = [conn EXCEPT ![s] = @ \cup {t}, ![t] = @ \cup {s}]
    /\ known' = [known EXCEPT ![s] = @ \cup {t}, ![t] = @ \cup {s}]
    /\ chan' = [chan EXCEPT
            ![s] = [x \in Servers |-> IF x = t THEN Burst(s, t)
                                      ELSE IF x \in conn[s] /\ s \in conn[x]
                                      THEN Append(@[x], SERVER(t)) ELSE @[x]],
            ![t] = [x \in Servers |-> IF x = s THEN Burst(t, s)
                                      ELSE IF x \in conn[t] /\ t \in conn[x]
                                      THEN Append(@[x], SERVER(s)) ELSE @[x]]]
    /\ UNCHANGED <<user, now, bound>>

ms_server(p, s) ==
    LET m == Head(chan[p][s])
    IN  /\ chan[p][s] # <<>>
        /\ m.type = "S"
        /\ known' = [known EXCEPT ![s] = @ \cup {m.server}]
        /\ chan' = [chan EXCEPT ![s] = sendcmdto_serv_butone(Start(s), p, m).out,
                                ![p][s] = Tail(@)]
        /\ UNCHANGED <<user, conn, now, bound>>

Tick ==
    /\ now < MaxTime
    /\ now' = now + 1
    /\ UNCHANGED <<user, chan, conn, known, bound>>

Next ==
    \/ \E c \in Clients, n \in Nicks, i \in Idents : m_nick_first(c, n, i)
    \/ \E c \in Clients : register_user(c) \/ m_quit(c)
    \/ \E c \in Clients, n \in Nicks : m_nick(c, n)
    \/ \E s \in Servers, c \in Clients : mo_kill(s, c)
    \/ \E s \in Servers, c \in Clients, n \in Nicks : Service(s, c, n)
    \/ \E p, s \in Servers : Receive(p, s) \/ ms_squit(p, s) \/ ms_server(p, s)
    \/ \E s, t \in Servers : Close(s, t) \/ server_estab(s, t)
    \/ Tick

Spec == Init /\ [][Next]_vars

-----------------------------------------------------------------------------
Quiet == \A s, t \in Servers : chan[s][t] = <<>>

(* The hash table has one client per nick: FindClient has one answer.      *)
NickUnique ==
    \A s \in DOMAIN user : \A c, d \in DOMAIN user[s] :
        /\ c # d
        /\ user[s][c].st # "none"
        /\ user[s][d].st # "none"
        => user[s][c].nick # user[s][d].nick

(* However nicks collide and kills cross, once all messages are read the   *)
(* servers that are linked agree on who is online under which nick and     *)
(* since when: no ghost is left, nobody is missing.                        *)
Agreement ==
    Quiet => \A s \in Servers : \A t \in known[s] :
        /\ s \in known[t]
        /\ \A c \in Clients : \/ user[s][c] = user[t][c]
                              \/ user[s][c].st # "user" /\ user[t][c].st # "user"
=============================================================================
