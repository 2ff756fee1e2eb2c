------------------------------- MODULE Umode -------------------------------
(***************************************************************************)
(* User modes and operator status on a line of servers: set_user_mode and  *)
(* send_umode_out of s_user.c, OPER and CHALLENGE, PRIVS, SVSMODE and the  *)
(* counters UserStats.opers and UserStats.inv_clients of every server.     *)
(* The modes kept are o, O, a, i and H (hidden operator); the others are   *)
(* set and cleared by themselves as i is.  FEAT_OPERFLAGS is on.           *)
(***************************************************************************)
EXTENDS Integers, Sequences, FiniteSets, FiniteSetTheorems, Filter

CONSTANTS
    Servers,        \* 1..n
    Users, Home,
    Lines,          \* O: lines
    UserModes,      \* mode strings users send, as sequences of changes
    ServerModes,    \* mode strings a services server sends
    Services,       \* the server it is behind
    AUTOINVISIBLE,  \* FEAT_AUTOINVISIBLE
    MaxMoves

ASSUME UmodeAssumption ==
    /\ IsFiniteSet(Servers) /\ Servers = 1..Cardinality(Servers)
    /\ Home \in [Users -> Servers]
    /\ Services \in Servers
    /\ Lines \subseteq [locop : BOOLEAN, admin : BOOLEAN, rsa : BOOLEAN,
                         privs : SUBSET {"PROPAGATE", "DISPLAY_MODE"}]
    /\ AUTOINVISIBLE \in BOOLEAN
    /\ MaxMoves \in Nat

VARIABLES
    user,     \* user[s][u]: what server s knows of user u
    opers,    \* opers[s]: UserStats.opers of server s
    inv,      \* inv[s]: UserStats.inv_clients
    handler,  \* handler[u]: the command table the user's own server uses
    response, \* response[u]: the lines whose challenge the user is to answer
    net,      \* net[s][t]: messages from s to t
    moves

vars == <<user, opers, inv, handler, response, net, moves>>

NoUser == [on |-> FALSE, flags |-> {}, privs |-> {}]

Init ==
    /\ user = [s \in Servers |-> [u \in Users |-> NoUser]]
    /\ opers = [s \in Servers |-> 0]
    /\ inv = [s \in Servers |-> 0]
    /\ handler = [u \in Users |-> "CLIENT"]
    /\ response = [u \in Users |-> {}]
    /\ net = [s \in Servers |-> [t \in Servers |-> <<>>]]
    /\ moves = 0

Modes == {"o", "O", "a", "i", "H"}
Change(add, c) == [add |-> add, c |-> c]
N(u, flags) == [type |-> "N", u |-> u, flags |-> flags]
Q(u) == [type |-> "Q", u |-> u]
P(u, privs) == [type |-> "P", u |-> u, privs |-> privs]
M(u, changes) == [type |-> "M", u |-> u, changes |-> changes]
ServerM(u, changes) == [type |-> "ServerM", u |-> u, changes |-> changes]
SvsMode(u, changes) == [type |-> "SvsMode", u |-> u, changes |-> changes]

-----------------------------------------------------------------------------
(* A handler works on h: a server, the user it is about, the counters and  *)
(* what is sent.                                                           *)
Start(s, u) == [s |-> s, u |-> u, user |-> user[s][u], opers |-> opers[s], inv |-> inv[s],
                handler |-> handler[u], out |-> net[s]]

Commit(h) ==
    /\ user' = [user EXCEPT ![h.s][h.u] = h.user]
    /\ opers' = [opers EXCEPT ![h.s] = h.opers]
    /\ inv' = [inv EXCEPT ![h.s] = h.inv]
    /\ handler' = [handler EXCEPT ![h.u] = h.handler]

sendcmdto_serv_butone(h, one, m) ==
    [h EXCEPT !.out = [t \in Servers |->
        IF t \in {h.s - 1, h.s + 1} \ {one} THEN Append(@[t], m) ELSE @[t]]]

Local(h) == Home[h.u] = h.s
Count(cond) == IF cond THEN 1 ELSE 0

(* send_umode: the difference between the old and the new flags, in the    *)
(* order of userModeList; O is a local mode, and o is sent only if told.   *)
Diff(old, new, prop) ==
    LET same == {c \in Modes : (c \in old <=> c \in new) \/ (c = "o" /\ ~prop)}
        sent == Drop(<<"o", "i", "a", "H">>, same)
    IN  [i \in 1 .. Len(sent) |-> Change(sent[i] \in new, sent[i])]

send_umode_out(h, one, old, prop) ==
    LET changes == Diff(old, h.user.flags, prop)
    IN  IF changes = <<>> THEN h ELSE sendcmdto_serv_butone(h, one, M(h.u, changes))

-----------------------------------------------------------------------------
(* One letter of a mode string.  With force (a server changes the modes of *)
(* a local user) -i clears the flag of the server, not of the user.        *)
Letter(h, x, force) ==
    LET f == h.user.flags
        off == IF x.c = "o" THEN {"a", "o", "O"} ELSE {"o", "O"}
    IN  CASE x.c \in {"a", "H"} -> [h EXCEPT !.user.flags = IF x.add THEN f \cup {x.c} ELSE f \ {x.c}]
          [] x.c = "i" /\ x.add -> [h EXCEPT !.user.flags = f \cup {"i"}]
          [] x.c = "i" /\ ~x.add ->
                 IF force \/ (AUTOINVISIBLE /\ "o" \notin f) THEN h
                 ELSE [h EXCEPT !.user.flags = f \ {"i"}]
          [] x.c \in {"o", "O"} /\ x.add ->
                 [h EXCEPT !.user.flags = f \cup {x.c}, !.handler = IF force THEN "OPER" ELSE @]
          [] x.c \in {"o", "O"} /\ ~x.add ->
                 [h EXCEPT !.user.flags = f \ off, !.handler = IF Local(h) THEN "CLIENT" ELSE @]

Letters(h, changes, force) ==
    LET F[i \in 0..Len(changes)] == IF i = 0 THEN h ELSE Letter(F[i - 1], changes[i], force)
    IN  F[Len(changes)]

(* What users may not give themselves                                      *)
Rules(h, old) ==
    LET f == h.user.flags \ ({"a", "o", "O"} \ old)
        hide == "DISPLAY_MODE" \in h.user.privs /\ "o" \in f
    IN  [h EXCEPT !.user.flags = IF "H" \in old \/ hide THEN f ELSE f \ {"H"}]

Deoper_always(h, old) ==
    IF "o" \in old /\ "o" \notin h.user.flags
    THEN [h EXCEPT !.user.flags = @ \ {"H"}, !.user.privs = {}, !.opers = @ - 1]
    ELSE h

(* The counters, and what goes with the operator status                    *)
Deoper(h, old) ==
    IF "o" \in old /\ "o" \notin h.user.flags
    THEN [h EXCEPT !.user.flags = @ \ {"H"}, !.user.privs = {},
                   !.opers = @ - Count("H" \notin old)]
    ELSE h

Counters(h, old) ==
    LET g == Deoper([h EXCEPT !.opers = @ + Count("o" \notin old /\ "o" \in h.user.flags
                                                  /\ "H" \notin h.user.flags)], old)
        f == g.user.flags
        still == "o" \in old /\ "o" \in f
    IN  [g EXCEPT !.opers = @ - Count(still /\ "H" \notin old /\ "H" \in f)
                              + Count(still /\ "H" \in old /\ "H" \notin f),
                  !.inv = @ - Count("i" \in old /\ "i" \notin f)
                            + Count("i" \notin old /\ "i" \in f)]

set_user_mode_late(h0, one, by, changes) ==
    LET old == h0.user.flags
        force == by = "server" /\ Local(h0)
        h1 == Letters(h0, changes, force)
        h2 == Counters(IF by = "user" /\ Local(h0) THEN Rules(h1, old) ELSE h1, old)
        h3 == send_umode_out(h2, one, old, "PROPAGATE" \in h2.user.privs)
    IN  IF force THEN send_umode_out(h3, 0, old, TRUE) ELSE h3

(* by is "user", "server" (a server in the direction of one) or "svsmode". *)
set_user_mode(h0, one, by, changes) ==
    LET old == h0.user.flags
        force == by = "server" /\ Local(h0)
        h1 == Letters(h0, changes, force)
        h2 == IF by = "user" /\ Local(h0) THEN Rules(h1, old) ELSE h1
        prop == "PROPAGATE" \in h2.user.privs
        h3 == send_umode_out(Counters(h2, old), one, old, prop)
    IN  IF force THEN send_umode_out(h3, 0, old, TRUE) ELSE h3

-----------------------------------------------------------------------------
(* Local users                                                             *)

Move == moves < MaxMoves /\ moves' = moves + 1

Send(h) == Move /\ Commit(h) /\ net' = [net EXCEPT ![h.s] = h.out]

Do(h) == Send(h) /\ UNCHANGED response

register_user(u) ==
    LET flags == IF AUTOINVISIBLE THEN {"i"} ELSE {}
        h == Start(Home[u], u)
    IN  /\ ~h.user.on
        /\ \A s \in Servers : ~user[s][u].on   \* a numeric is not reused while it is known
        /\ Do(sendcmdto_serv_butone(
               [h EXCEPT !.user = [on |-> TRUE, flags |-> flags, privs |-> {}],
                         !.inv = @ + Cardinality(flags), !.handler = "CLIENT"], 0, N(u, flags)))

(* exit_one_client                                                         *)
Exit(h, one) ==
    sendcmdto_serv_butone(
        [h EXCEPT !.user = NoUser,
                  !.opers = @ - Count("o" \in h.user.flags /\ "H" \notin h.user.flags),
                  !.inv = @ - Count("i" \in h.user.flags)], one, Q(h.u))

m_quit(u) ==
    /\ user[Home[u]][u].on
    /\ response' = [response EXCEPT ![u] = {}]
    /\ Send(Exit(Start(Home[u], u), 0))

(* An operator's commands go to another table, where OPER and CHALLENGE do *)
(* nothing.  The privileges are sent before the modes.                     *)
Opered(u, line) ==
    LET h == Start(Home[u], u)
        old == h.user.flags
        flags == IF line.locop THEN (old \ {"o"}) \cup {"O"}
                 ELSE (old \ {"O", "a"}) \cup (IF line.admin THEN {"o", "a"} ELSE {"o"})
        g == [h EXCEPT !.user.flags = flags, !.user.privs = line.privs,
                       !.opers = @ + Count(~line.locop), !.handler = "OPER"]
    IN  send_umode_out(sendcmdto_serv_butone(g, 0, P(u, line.privs)), 0, old,
                       "PROPAGATE" \in line.privs)

Asks(u) == user[Home[u]][u].on /\ handler[u] = "CLIENT"

m_oper(u, line) ==
    /\ Asks(u)
    /\ ~line.rsa
    /\ Do(Opered(u, line))

m_challenge(u, line) ==
    /\ Asks(u)
    /\ line.rsa
    /\ response' = [response EXCEPT ![u] = {line}]
    /\ Send(Start(Home[u], u))

(* The answer is emptied and the line's name kept: the line stays open to  *)
(* the next answer, an empty one.                                          *)
m_challenge_response(u) ==
    /\ Asks(u)
    /\ \E line \in response[u] : Do(Opered(u, line))

m_mode(u, changes) ==
    /\ user[Home[u]][u].on
    /\ Do(set_user_mode(Start(Home[u], u), 0, "user", changes))

(* A services server sends MODE or SVSMODE for a user it knows.            *)
service_mode(u, changes, m) ==
    LET h == Start(Services, u)
    IN  /\ h.user.on
        /\ Home[u] # Services
        /\ Do(sendcmdto_serv_butone(h, 0, m))

-----------------------------------------------------------------------------
(* Messages from server p.  A user the server does not know is ignored.    *)

ms_nick(h, p, m) ==
    IF h.user.on THEN h
    ELSE sendcmdto_serv_butone(
             [h EXCEPT !.user = [on |-> TRUE, flags |-> m.flags, privs |-> {}],
                       !.opers = @ + Count("o" \in m.flags /\ "H" \notin m.flags),
                       !.inv = @ + Count("i" \in m.flags)], p, m)

ms_privs(h, p, m) == sendcmdto_serv_butone([h EXCEPT !.user.privs = @ \cup m.privs], p, m)

(* A MODE from a server is carried to the user's server, which applies it. *)
ms_server_mode(h, p, m) ==
    IF Local(h) THEN set_user_mode(h, p, "server", m.changes)
    ELSE sendcmdto_serv_butone(h, p, m)

ms_svsmode(h, p, m) ==
    IF Local(h) THEN set_user_mode(h, 0, "svsmode", m.changes)
    ELSE sendcmdto_serv_butone(h, p, m)

Handle(h, p, m) ==
    IF m.type = "N" THEN ms_nick(h, p, m)
    ELSE IF ~h.user.on THEN h
    ELSE CASE m.type = "Q" -> Exit(h, p)
           [] m.type = "P" -> ms_privs(h, p, m)
           [] m.type = "M" -> set_user_mode(h, p, "user", m.changes)
           [] m.type = "ServerM" -> ms_server_mode(h, p, m)
           [] m.type = "SvsMode" -> ms_svsmode(h, p, m)

Receive(p, s) ==
    LET m == Head(net[p][s])
        h == Handle(Start(s, m.u), p, m)
    IN  /\ net[p][s] # <<>>
        /\ Commit(h)
        /\ net' = [net EXCEPT ![s] = h.out, ![p][s] = Tail(@)]
        /\ UNCHANGED <<response, moves>>

Next ==
    \/ \E u \in Users : register_user(u) \/ m_quit(u)
    \/ \E u \in Users, line \in Lines : m_oper(u, line) \/ m_challenge(u, line)
    \/ \E u \in Users : m_challenge_response(u)
    \/ \E u \in Users, x \in UserModes : m_mode(u, x)
    \/ \E u \in Users, x \in ServerModes :
           service_mode(u, x, ServerM(u, x)) \/ service_mode(u, x, SvsMode(u, x))
    \/ \E p, s \in Servers : Receive(p, s)

Spec == Init /\ [][Next]_vars

-----------------------------------------------------------------------------
(* UserStats.opers is the number of operators that do not hide, and        *)
(* UserStats.inv_clients the number of invisible users, whatever order     *)
(* OPER, mode changes, hiding and quits come in (LUSERS reports them).     *)
CountsRight ==
    \A s \in Servers :
        /\ opers[s] = Cardinality({u \in Users : "o" \in user[s][u].flags /\ "H" \notin user[s][u].flags})
        /\ inv[s] = Cardinality({u \in Users : "i" \in user[s][u].flags})

Quiet == \A s, t \in Servers : net[s][t] = <<>>

(* set_user_mode sends what makes the other servers update correctly: when *)
(* no message is on its way every server has the user's global modes, o    *)
(* only if the user's operator status is propagated.  Its own server       *)
(* handles it as an operator if and only if it is one.                     *)
ModesAgree ==
    /\ \A u \in Users : LET here == user[Home[u]][u]
                        IN  here.on => (handler[u] = "OPER" <=> here.flags \cap {"o", "O"} # {})
    /\ Quiet => \A u \in Users, s \in Servers :
           LET here == user[Home[u]][u]
               shown == IF "PROPAGATE" \in here.privs THEN {"o", "a", "i", "H"} ELSE {"a", "i", "H"}
           IN  user[s][u].on = here.on
               /\ (s # Home[u] => user[s][u].flags = here.flags \cap shown)

-----------------------------------------------------------------------------
(* Proof of CountsRight, for any users, servers and lines                  *)

Changes == [add : BOOLEAN, c : Modes]
Oper == {"o", "O"}

(* A string that does not take the operator status and give it back.  The  *)
(* user's command table would not come back with it, and a second OPER     *)
(* would be counted again.                                                 *)
NoReoper(x) ==
    \A i, j \in 1 .. Len(x) : i < j /\ x[i].c \in Oper /\ ~x[i].add /\ x[j].c \in Oper => ~x[j].add

(* A string that makes nobody an operator or hidden                        *)
NoGrant(x) == \A i \in 1 .. Len(x) : x[i].add => x[i].c \in {"a", "i"}

(* What users and services ask for                                         *)
OrderlyModes ==
    /\ IsFiniteSet(Users)
    /\ \A x \in UserModes : x \in Seq(Changes) /\ NoReoper(x)
    /\ \A x \in ServerModes : x \in Seq(Changes) /\ NoGrant(x)

Privs == {"PROPAGATE", "DISPLAY_MODE"}
Record == [on : BOOLEAN, flags : SUBSET Modes, privs : SUBSET Privs]
Message ==
    [type : {"N"}, u : Users, flags : SUBSET {"i"}] \cup [type : {"Q"}, u : Users]
    \cup [type : {"P"}, u : Users, privs : SUBSET Privs]
    \cup {m \in [type : {"M"}, u : Users, changes : Seq(Changes)] : NoReoper(m.changes)}
    \cup {m \in [type : {"ServerM", "SvsMode"}, u : Users, changes : Seq(Changes)] : NoGrant(m.changes)}
Outs == [Servers -> Seq(Message)]
Nets == {n \in [Servers -> Outs] : \A s \in Servers : n[s][s] = <<>>}
Tables == {"CLIENT", "OPER"}

Typed ==
    /\ user \in [Servers -> [Users -> Record]]
    /\ opers \in [Servers -> Int] /\ inv \in [Servers -> Int]
    /\ handler \in [Users -> Tables]
    /\ response \in [Users -> SUBSET Lines]
    /\ net \in Nets

(* A user's own server handles it as an operator if it is one, and only an *)
(* operator hides.                                                         *)
AtHome(r, table) ==
    /\ r.flags \cap Oper # {} => table = "OPER"
    /\ "H" \in r.flags => "o" \in r.flags

Shown(r) == "o" \in r.flags /\ "H" \notin r.flags

UInv ==
    /\ Typed /\ CountsRight
    /\ \A s \in Servers, u \in Users : ~user[s][u].on => user[s][u].flags = {}
    /\ \A u \in Users : AtHome(user[Home[u]][u], handler[u])

(* What a handler works on                                                 *)
Work ==
    {h \in [s : Servers, u : Users, user : Record, opers : Int, inv : Int, handler : Tables, out : Outs] :
        h.out[h.s] = <<>>}

(* What a handler makes of it: the counters go with the flags.             *)
Fits(h, g) ==
    /\ g \in Work /\ g.s = h.s /\ g.u = h.u
    /\ g.opers = h.opers - Count(Shown(h.user)) + Count(Shown(g.user))
    /\ g.inv = h.inv - Count("i" \in h.user.flags) + Count("i" \in g.user.flags)
    /\ ~g.user.on => g.user.flags = {}
    /\ IF Local(g) THEN AtHome(g.user, g.handler) ELSE g.handler = h.handler

LEMMA StartOK ==
  ASSUME OrderlyModes, UInv, NEW s \in Servers, NEW u \in Users
  PROVE  LET h == Start(s, u)
         IN  /\ h \in Work /\ h.s = s /\ h.u = u
             /\ ~h.user.on => h.user.flags = {}
             /\ Local(h) => AtHome(h.user, h.handler)
             /\ Fits(h, h)
             /\ h.user = user[s][u] /\ h.handler = handler[u]
<1> DEFINE h == Start(s, u)
<1>1. /\ user[s][u] \in Record /\ opers[s] \in Int /\ inv[s] \in Int /\ handler[u] \in Tables
      /\ net[s] \in Outs /\ net[s][s] = <<>>
  BY DEF UInv, Typed, Nets
<1>2. /\ h.s = s /\ h.u = u /\ h.user = user[s][u] /\ h.opers = opers[s] /\ h.inv = inv[s]
      /\ h.handler = handler[u] /\ h.out = net[s]
  BY DEF Start
<1>3. h \in Work
  BY <1>1 DEF Start, Work
<1>4. ~h.user.on => h.user.flags = {}
  BY <1>2 DEF UInv
<1>5. Local(h) => AtHome(h.user, h.handler)
  BY <1>2 DEF UInv, Local
<1> HIDE DEF h
<1>6. Fits(h, h)
  BY <1>1, <1>2, <1>3, <1>4, <1>5 DEF Fits, Count
<1> QED
  BY <1>2, <1>3, <1>4, <1>5, <1>6 DEF h

(* One member of a set comes or goes.                                      *)
LEMMA CountOne ==
  ASSUME NEW U, IsFiniteSet(U), NEW A \in SUBSET U, NEW B \in SUBSET U, NEW u \in U,
         \A v \in U : v # u => (v \in A <=> v \in B)
  PROVE  Cardinality(B) = Cardinality(A) - Count(u \in A) + Count(u \in B)
<1> DEFINE C == A \ {u}
<1>1. IsFiniteSet(C) /\ u \notin C
  BY FS_Subset
<1>2. Cardinality(C) \in Nat /\ Cardinality(C \cup {u}) = Cardinality(C) + 1
  BY <1>1, FS_CardinalityType, FS_AddElement
<1>3. A = IF u \in A THEN C \cup {u} ELSE C
  OBVIOUS
<1>4. B = IF u \in B THEN C \cup {u} ELSE C
  OBVIOUS
<1> HIDE DEF C
<1>5. Cardinality(A) = Cardinality(C) + Count(u \in A)
  <2>1. CASE u \in A
    <3>1. A = C \cup {u} /\ Count(u \in A) = 1
      BY <1>3, <2>1 DEF Count
    <3> QED
      BY <1>2, <3>1
  <2>2. CASE u \notin A
    <3>1. A = C /\ Count(u \in A) = 0
      BY <1>3, <2>2 DEF Count
    <3> QED
      BY <1>2, <3>1
  <2> QED
    BY <2>1, <2>2
<1>6. Cardinality(B) = Cardinality(C) + Count(u \in B)
  <2>1. CASE u \in B
    <3>1. B = C \cup {u} /\ Count(u \in B) = 1
      BY <1>4, <2>1 DEF Count
    <3> QED
      BY <1>2, <3>1
  <2>2. CASE u \notin B
    <3>1. B = C /\ Count(u \in B) = 0
      BY <1>4, <2>2 DEF Count
    <3> QED
      BY <1>2, <3>1
  <2> QED
    BY <2>1, <2>2
<1>7. Count(u \in A) \in Int /\ Count(u \in B) \in Int
  BY DEF Count
<1> QED
  BY <1>2, <1>5, <1>6, <1>7

(* The counters of a server, after what its handler did                    *)
LEMMA CommitOK ==
  ASSUME OrderlyModes, UInv, NEW s \in Servers, NEW u \in Users, NEW g, Fits(Start(s, u), g),
         Commit(g), net' \in Nets, response' \in [Users -> SUBSET Lines]
  PROVE  UInv'
<1> DEFINE h == Start(s, u)
<1>1. /\ user \in [Servers -> [Users -> Record]] /\ opers \in [Servers -> Int] /\ inv \in [Servers -> Int]
      /\ handler \in [Users -> Tables]
  BY DEF UInv, Typed
<1>2. /\ g \in Work /\ g.s = s /\ g.u = u
      /\ g.user \in Record /\ g.opers \in Int /\ g.inv \in Int /\ g.handler \in Tables
      /\ g.opers = opers[s] - Count(Shown(user[s][u])) + Count(Shown(g.user))
      /\ g.inv = inv[s] - Count("i" \in user[s][u].flags) + Count("i" \in g.user.flags)
      /\ ~g.user.on => g.user.flags = {}
      /\ IF Home[u] = s THEN AtHome(g.user, g.handler) ELSE g.handler = handler[u]
  BY DEF Fits, Start, Work, Local
<1>3. /\ user' = [user EXCEPT ![s][u] = g.user] /\ opers' = [opers EXCEPT ![s] = g.opers]
      /\ inv' = [inv EXCEPT ![s] = g.inv] /\ handler' = [handler EXCEPT ![u] = g.handler]
  BY <1>2 DEF Commit
<1>4. \A t \in Servers, v \in Users : user'[t][v] = IF t = s /\ v = u THEN g.user ELSE user[t][v]
  BY <1>1, <1>3
<1>5. \A t \in Servers : /\ opers'[t] = IF t = s THEN g.opers ELSE opers[t]
                         /\ inv'[t] = IF t = s THEN g.inv ELSE inv[t]
  BY <1>1, <1>3
<1>6. \A v \in Users : handler'[v] = IF v = u THEN g.handler ELSE handler[v]
  BY <1>1, <1>3
<1>7. Typed'
  BY <1>1, <1>2, <1>3 DEF Typed
<1>8. \A t \in Servers, v \in Users : ~user'[t][v].on => user'[t][v].flags = {}
  BY <1>2, <1>4 DEF UInv
<1>9. \A v \in Users : AtHome(user'[Home[v]][v], handler'[v])
  <2> TAKE v \in Users
  <2>1. Home[v] \in Servers /\ AtHome(user[Home[v]][v], handler[v])
    BY UmodeAssumption DEF UInv
  <2>2. CASE v = u /\ Home[v] = s
    BY <1>2, <1>4, <1>6, <2>1, <2>2
  <2>3. CASE v = u /\ Home[v] # s
    BY <1>2, <1>4, <1>6, <2>1, <2>3
  <2>4. CASE v # u
    BY <1>4, <1>6, <2>1, <2>4
  <2> QED
    BY <2>2, <2>3, <2>4
<1>10. CountsRight'
  <2> SUFFICES ASSUME NEW t \in Servers
               PROVE  /\ opers'[t] = Cardinality({v \in Users : Shown(user'[t][v])})
                      /\ inv'[t] = Cardinality({v \in Users : "i" \in user'[t][v].flags})
    BY DEF CountsRight, Shown
  <2> DEFINE A == {v \in Users : Shown(user[t][v])}
             B == {v \in Users : Shown(user'[t][v])}
             C == {v \in Users : "i" \in user[t][v].flags}
             D == {v \in Users : "i" \in user'[t][v].flags}
  <2>1. opers[t] = Cardinality(A) /\ inv[t] = Cardinality(C)
    BY DEF UInv, CountsRight, Shown
  <2>2. CASE t # s
    BY <1>4, <1>5, <2>1, <2>2
  <2>3. CASE t = s
    <3>1. A \in SUBSET Users /\ B \in SUBSET Users /\ C \in SUBSET Users /\ D \in SUBSET Users
      OBVIOUS
    <3>2. /\ u \in A <=> Shown(user[s][u])
          /\ u \in B <=> Shown(g.user)
          /\ u \in C <=> "i" \in user[s][u].flags
          /\ u \in D <=> "i" \in g.user.flags
      BY <1>4, <2>3
    <3>3. \A v \in Users : v # u => (v \in A <=> v \in B) /\ (v \in C <=> v \in D)
      BY <1>4, <2>3
    <3>4. opers'[t] = g.opers /\ inv'[t] = g.inv
      BY <1>5, <2>3
    <3>5. /\ Count(Shown(user[s][u])) = Count(u \in A) /\ Count(Shown(g.user)) = Count(u \in B)
          /\ Count("i" \in user[s][u].flags) = Count(u \in C) /\ Count("i" \in g.user.flags) = Count(u \in D)
      BY <3>2 DEF Count
    <3> HIDE DEF A, B, C, D
    <3>6. Cardinality(B) = Cardinality(A) - Count(u \in A) + Count(u \in B)
      BY <3>1, <3>3, CountOne DEF OrderlyModes
    <3>7. Cardinality(D) = Cardinality(C) - Count(u \in C) + Count(u \in D)
      BY <3>1, <3>3, CountOne DEF OrderlyModes
    <3>8. opers'[t] = Cardinality(B) /\ inv'[t] = Cardinality(D)
      BY <1>2, <2>1, <2>3, <3>4, <3>5, <3>6, <3>7
    <3> QED
      BY <3>8 DEF B, D
  <2> QED
    BY <2>2, <2>3
<1> QED
  BY <1>7, <1>8, <1>9, <1>10 DEF UInv

-----------------------------------------------------------------------------
(* Sending changes nothing but what is under way.                          *)
Sent(h, g) == \E o \in Outs : o[h.s] = <<>> /\ g = [h EXCEPT !.out = o]

LEMMA SentOK ==
  ASSUME NEW h \in Work, NEW g, Sent(h, g)
  PROVE  /\ g \in Work /\ g.s = h.s /\ g.u = h.u /\ g.user = h.user /\ g.opers = h.opers
         /\ g.inv = h.inv /\ g.handler = h.handler
         /\ \A f : Sent(g, f) => Sent(h, f)
<1>1. PICK o \in Outs : o[h.s] = <<>> /\ g = [h EXCEPT !.out = o]
  BY DEF Sent
<1>2. /\ g \in Work /\ g.s = h.s /\ g.u = h.u /\ g.user = h.user /\ g.opers = h.opers
      /\ g.inv = h.inv /\ g.handler = h.handler
  BY <1>1 DEF Work
<1>3. ASSUME NEW f, Sent(g, f) PROVE Sent(h, f)
  <2>1. PICK p \in Outs : p[g.s] = <<>> /\ f = [g EXCEPT !.out = p]
    BY <1>3 DEF Sent
  <2>2. f = [h EXCEPT !.out = p]
    BY <1>1, <2>1 DEF Work
  <2> QED
    BY <1>2, <2>1, <2>2 DEF Sent
<1> QED
  BY <1>2, <1>3

LEMMA SentFits ==
  ASSUME NEW h, NEW g, Fits(h, g), NEW f, Sent(g, f)
  PROVE  Fits(h, f)
<1>1. g \in Work
  BY DEF Fits
<1>2. /\ f \in Work /\ f.s = g.s /\ f.u = g.u /\ f.user = g.user /\ f.opers = g.opers
      /\ f.inv = g.inv /\ f.handler = g.handler
  BY <1>1, SentOK
<1> QED
  BY <1>2 DEF Fits, Local

LEMMA Sends ==
  ASSUME NEW h \in Work, NEW one, NEW m \in Message
  PROVE  Sent(h, sendcmdto_serv_butone(h, one, m))
<1> DEFINE o == [t \in Servers |-> IF t \in {h.s - 1, h.s + 1} \ {one} THEN Append(h.out[t], m) ELSE h.out[t]]
<1>1. h.s \in Servers /\ h.out \in Outs /\ h.out[h.s] = <<>> /\ h.s \in Int
  <2>1. h.s \in Servers /\ h.out \in Outs /\ h.out[h.s] = <<>>
    BY DEF Work
  <2>2. Cardinality(Servers) \in Nat
    BY UmodeAssumption, FS_CardinalityType
  <2>3. Servers = 1..Cardinality(Servers)
    BY UmodeAssumption
  <2> HIDE DEF o
  <2> QED
    BY <2>1, <2>2, <2>3
<1>2. o \in Outs
  BY <1>1 DEF Outs
<1>3. o[h.s] = <<>>
  BY <1>1
<1>4. sendcmdto_serv_butone(h, one, m) = [h EXCEPT !.out = o]
  BY DEF sendcmdto_serv_butone, Work
<1> HIDE DEF o
<1> QED
  BY <1>2, <1>3, <1>4 DEF Sent

(* A difference of flags names every mode once.                            *)
LEMMA DiffOK ==
  ASSUME NEW old, NEW new, NEW prop
  PROVE  Diff(old, new, prop) \in Seq(Changes) /\ NoReoper(Diff(old, new, prop))
<1> DEFINE list == <<"o", "i", "a", "H">>
           same == {c \in Modes : (c \in old <=> c \in new) \/ (c = "o" /\ ~prop)}
           sent == Drop(list, same)
           d == [i \in 1 .. Len(sent) |-> Change(sent[i] \in new, sent[i])]
<1>1. list \in Seq(Modes \ {"O"}) /\ Injective(list)
  <2>1. Len(list) = 4 /\ list[1] = "o" /\ list[2] = "i" /\ list[3] = "a" /\ list[4] = "H"
    OBVIOUS
  <2>2. 1 .. 4 = {1, 2, 3, 4}
    OBVIOUS
  <2> QED
    BY <2>1, <2>2 DEF Injective, Modes
<1> HIDE DEF list, same
<1>2. sent \in Seq(Modes \ {"O"}) /\ Injective(sent)
  BY <1>1, DropOK
<1>3. Diff(old, new, prop) = d
  BY DEF Diff, list, same
<1> HIDE DEF sent
<1>4. Len(sent) \in Nat /\ \A i \in 1 .. Len(sent) : sent[i] \in Modes /\ sent[i] # "O"
  BY <1>2
<1>5. \A i \in 1 .. Len(sent) : d[i] \in Changes /\ d[i].c = sent[i]
  BY <1>4 DEF Change, Changes
<1>6. d \in Seq(Changes) /\ Len(d) = Len(sent)
  <2>1. d = [i \in 1 .. Len(sent) |-> d[i]]
    OBVIOUS
  <2> HIDE DEF d
  <2> QED
    BY <1>4, <1>5, <2>1
<1> HIDE DEF d
<1>7. NoReoper(d)
  <2> SUFFICES ASSUME NEW i \in 1 .. Len(sent), NEW j \in 1 .. Len(sent), i < j,
                      d[i].c \in Oper, d[j].c \in Oper
               PROVE  FALSE
    BY <1>6 DEF NoReoper
  <2>1. sent[i] = "o" /\ sent[j] = "o"
    BY <1>4, <1>5 DEF Oper
  <2>2. i = j
    BY <1>2, <2>1 DEF Injective
  <2> QED
    BY <1>4, <2>2
<1> QED
  BY <1>3, <1>6, <1>7

LEMMA SendsModes ==
  ASSUME NEW h \in Work, NEW one, NEW old, NEW prop
  PROVE  Sent(h, send_umode_out(h, one, old, prop))
<1> DEFINE changes == Diff(old, h.user.flags, prop)
<1>1. changes \in Seq(Changes) /\ NoReoper(changes)
  BY DiffOK
<1> HIDE DEF changes
<1>2. M(h.u, changes) \in Message
  BY <1>1 DEF M, Message, Work
<1>3. Sent(h, h)
  <2>1. h.out \in Outs /\ h.out[h.s] = <<>> /\ h = [h EXCEPT !.out = h.out]
    BY DEF Work
  <2> QED
    BY <2>1 DEF Sent
<1>4. Sent(h, sendcmdto_serv_butone(h, one, M(h.u, changes)))
  BY <1>2, Sends
<1> QED
  BY <1>3, <1>4 DEF send_umode_out, changes

-----------------------------------------------------------------------------
(* The letters of a mode string                                            *)

(* Flags and command table are replaced.                                   *)
Put(h, f, table) == [h EXCEPT !.user.flags = f, !.handler = table]

LEMMA PutOK ==
  ASSUME NEW h \in Work, NEW f \in SUBSET Modes, NEW table \in Tables, NEW g, g = Put(h, f, table)
  PROVE  /\ g \in Work /\ g.s = h.s /\ g.u = h.u /\ g.opers = h.opers /\ g.inv = h.inv
         /\ g.user.flags = f /\ g.user.on = h.user.on /\ g.user.privs = h.user.privs
         /\ g.handler = table
         /\ \A e, t : Put(g, e, t) = Put(h, e, t)
BY DEF Put, Work, Record

LEMMA LetterOK ==
  ASSUME NEW h \in Work, NEW x \in Changes, NEW force \in BOOLEAN, force => Local(h)
  PROVE  \E f \in SUBSET Modes, table \in Tables :
            /\ Letter(h, x, force) = Put(h, f, table)
            /\ IF x.c \in Oper /\ ~x.add THEN f \cap Oper = {} ELSE table \in {h.handler, "OPER"}
            /\ (x.c \in Oper /\ x.add) \/ f \cap Oper \subseteq h.user.flags
            /\ (x.add /\ x.c \notin {"a", "i"}) \/ f \cap {"o", "O", "H"} \subseteq h.user.flags
            /\ Local(h) \/ table = h.handler
<1> DEFINE f == h.user.flags
           off == IF x.c = "o" THEN {"a", "o", "O"} ELSE {"o", "O"}
<1>1. /\ f \in SUBSET Modes /\ h.handler \in Tables /\ x.add \in BOOLEAN /\ x.c \in Modes
      /\ h = Put(h, f, h.handler) /\ "OPER" \in Tables /\ "CLIENT" \in Tables
  BY DEF Work, Record, Changes, Put, Tables
<1>2. \A e : Put(h, e, h.handler) = [h EXCEPT !.user.flags = e]
  BY DEF Put, Work, Record
<1>3. CASE x.c \in {"a", "H"}
  <2> DEFINE e == IF x.add THEN f \cup {x.c} ELSE f \ {x.c}
  <2>1. Letter(h, x, force) = Put(h, e, h.handler)
    BY <1>2, <1>3 DEF Letter
  <2>2. e \in SUBSET Modes
    BY <1>1
  <2> QED
    BY <1>1, <1>3, <2>1, <2>2 DEF Oper
<1>4. CASE x.c = "i" /\ x.add
  <2> DEFINE e == f \cup {"i"}
  <2>1. Letter(h, x, force) = Put(h, e, h.handler)
    BY <1>2, <1>4 DEF Letter
  <2>2. e \in SUBSET Modes
    BY <1>1 DEF Modes
  <2> QED
    BY <1>1, <1>4, <2>1, <2>2 DEF Oper
<1>5. CASE x.c = "i" /\ ~x.add
  <2> DEFINE e == IF force \/ (AUTOINVISIBLE /\ "o" \notin f) THEN f ELSE f \ {"i"}
  <2>1. Letter(h, x, force) = Put(h, e, h.handler)
    BY <1>1, <1>2, <1>5 DEF Letter
  <2>2. e \in SUBSET Modes
    BY <1>1
  <2> QED
    BY <1>1, <1>5, <2>1, <2>2 DEF Oper
<1>6. CASE x.c \in {"o", "O"} /\ x.add
  <2> DEFINE e == f \cup {x.c}
             t == IF force THEN "OPER" ELSE h.handler
  <2>1. Letter(h, x, force) = Put(h, e, t)
    BY <1>6 DEF Letter, Put
  <2>2. e \in SUBSET Modes /\ t \in Tables
    BY <1>1
  <2>3. t \in {h.handler, "OPER"} /\ (Local(h) \/ t = h.handler)
    OBVIOUS
  <2> HIDE DEF e, t
  <2> QED
    BY <1>6, <2>1, <2>2, <2>3 DEF Oper
<1>7. CASE x.c \in {"o", "O"} /\ ~x.add
  <2> DEFINE e == f \ off
             t == IF Local(h) THEN "CLIENT" ELSE h.handler
  <2>1. Letter(h, x, force) = Put(h, e, t)
    BY <1>7 DEF Letter, Put, Local
  <2>2. e \in SUBSET Modes /\ t \in Tables
    BY <1>1
  <2>3. e \cap Oper = {} /\ e \subseteq f /\ (Local(h) \/ t = h.handler)
    BY DEF Oper
  <2> HIDE DEF e, t
  <2> QED
    BY <1>7, <2>1, <2>2, <2>3 DEF Oper
<1> QED
  BY <1>1, <1>3, <1>4, <1>5, <1>6, <1>7 DEF Modes

(* The function that Letters is defined by exists.                         *)
LEMMA LettersDef ==
  ASSUME NEW h, NEW x, NEW force, Len(x) \in Nat
  PROVE  \E F : /\ F = [i \in 0..Len(x) |-> IF i = 0 THEN h ELSE Letter(F[i - 1], x[i], force)]
                /\ Letters(h, x, force) = F[Len(x)]
<1> DEFINE B(F, i) == IF i = 0 THEN h ELSE Letter(F[i - 1], x[i], force)
           S == {n \in Nat : \E F : F = [i \in 0..n |-> B(F, i)]}
<1>1. 0 \in S
  <2> DEFINE F == [i \in 0..0 |-> h]
  <2>1. F = [i \in 0..0 |-> B(F, i)]
    OBVIOUS
  <2> QED
    BY <2>1
<1>2. ASSUME NEW n \in Nat, n \in S PROVE n + 1 \in S
  <2>1. PICK F : F = [i \in 0..n |-> B(F, i)]
    BY <1>2
  <2> DEFINE G == [i \in 0..(n + 1) |-> IF i <= n THEN F[i] ELSE B(F, n + 1)]
  <2>2. \A i \in 0..(n + 1) : G[i] = B(G, i)
    <3> TAKE i \in 0..(n + 1)
    <3>1. CASE i = 0
      BY <2>1, <3>1
    <3>2. CASE i # 0 /\ i <= n
      <4>1. i - 1 \in 0..n /\ i - 1 \in 0..(n + 1) /\ i \in 0..n
        BY <3>2
      <4>2. G[i - 1] = F[i - 1] /\ G[i] = F[i]
        BY <3>2, <4>1
      <4>3. F[i] = B(F, i)
        BY <2>1, <4>1
      <4> QED
        BY <3>2, <4>2, <4>3
    <3>3. CASE i = n + 1
      <4>1. n \in 0..(n + 1) /\ i - 1 = n /\ ~(i <= n)
        BY <3>3
      <4>2. G[i - 1] = F[n] /\ G[i] = B(F, n + 1) /\ F[i - 1] = F[n]
        BY <3>3, <4>1
      <4> HIDE DEF G
      <4> QED
        BY <3>3, <4>1, <4>2
    <3> QED
      BY <3>1, <3>2, <3>3
  <2>3. G = [i \in 0..(n + 1) |-> G[i]]
    OBVIOUS
  <2> HIDE DEF G
  <2>4. G = [i \in 0..(n + 1) |-> B(G, i)]
    BY <2>2, <2>3
  <2> QED
    BY <2>4
<1>3. Len(x) \in S
  BY <1>1, <1>2, Induction
<1>4. \E F : F = [i \in 0..Len(x) |-> B(F, i)]
  BY <1>3
<1> DEFINE H == CHOOSE F : F = [i \in 0..Len(x) |-> B(F, i)]
<1>5. H = [i \in 0..Len(x) |-> B(H, i)]
  BY <1>4
<1>6. Letters(h, x, force) = H[Len(x)]
  BY DEF Letters
<1> HIDE DEF H
<1> QED
  BY <1>5, <1>6

(* What a mode string makes of the flags and the command table             *)
LEMMA LettersOK ==
  ASSUME NEW h \in Work, NEW x \in Seq(Changes), NEW force \in BOOLEAN, force => Local(h)
  PROVE  \E f \in SUBSET Modes, table \in Tables :
            /\ Letters(h, x, force) = Put(h, f, table)
            /\ NoReoper(x) => f \cap Oper = {} \/ table \in {h.handler, "OPER"}
            /\ NoGrant(x) => f \cap {"o", "O", "H"} \subseteq h.user.flags
            /\ Local(h) \/ table = h.handler
<1>1. Len(x) \in Nat /\ \A i \in 1..Len(x) : x[i] \in Changes
  BY LenProperties, ElementOfSeq
<1>2. PICK F : /\ F = [i \in 0..Len(x) |-> IF i = 0 THEN h ELSE Letter(F[i - 1], x[i], force)]
               /\ Letters(h, x, force) = F[Len(x)]
  BY <1>1, LettersDef
<1> DEFINE Gone(i) == \E j \in 1..i : x[j].c \in Oper /\ ~x[j].add
           K(i, f, t) == /\ F[i] = Put(h, f, t)
                         /\ IF Gone(i) THEN NoReoper(x) => f \cap Oper = {}
                            ELSE t \in {h.handler, "OPER"}
                         /\ NoGrant(x) => f \cap {"o", "O", "H"} \subseteq h.user.flags
                         /\ Local(h) \/ t = h.handler
           S == {i \in Nat : i <= Len(x) => \E f \in SUBSET Modes, t \in Tables : K(i, f, t)}
<1>3. 0 \in S
  <2>1. F[0] = h
    BY <1>1, <1>2
  <2>2. h.user.flags \in SUBSET Modes /\ h.handler \in Tables /\ h = Put(h, h.user.flags, h.handler)
    BY DEF Work, Record, Put
  <2>3. ~Gone(0)
    OBVIOUS
  <2>4. K(0, h.user.flags, h.handler)
    BY <2>1, <2>2, <2>3
  <2> HIDE DEF K
  <2> QED
    BY <2>2, <2>4
<1>4. ASSUME NEW n \in Nat, n \in S PROVE n + 1 \in S
  <2> SUFFICES ASSUME n + 1 <= Len(x)
               PROVE  \E f \in SUBSET Modes, t \in Tables : K(n + 1, f, t)
    OBVIOUS
  <2>1. PICK f \in SUBSET Modes, t \in Tables : K(n, f, t)
    <3> HIDE DEF K
    <3> QED
      BY <1>1, <1>4
  <2> DEFINE g == Put(h, f, t)
             y == x[n + 1]
  <2>2. /\ g \in Work /\ g.s = h.s /\ g.u = h.u /\ g.user.flags = f /\ g.handler = t
        /\ \A e, v : Put(g, e, v) = Put(h, e, v)
    BY PutOK
  <2>3. Local(g) <=> Local(h)
    BY <2>2 DEF Local
  <2>4. n + 1 \in 1..Len(x) /\ y \in Changes
    BY <1>1
  <2>5. F[n + 1] = Letter(g, y, force)
    <3>1. n + 1 \in 0..Len(x) /\ n + 1 # 0 /\ (n + 1) - 1 = n
      BY <1>1
    <3>2. F[n + 1] = IF n + 1 = 0 THEN h ELSE Letter(F[(n + 1) - 1], x[n + 1], force)
      BY <1>2, <3>1
    <3>3. F[n] = g
      BY <2>1
    <3> HIDE DEF g
    <3> QED
      BY <3>1, <3>2, <3>3
  <2> HIDE DEF g, y
  <2>6. PICK e \in SUBSET Modes, v \in Tables :
            /\ Letter(g, y, force) = Put(g, e, v)
            /\ IF y.c \in Oper /\ ~y.add THEN e \cap Oper = {} ELSE v \in {g.handler, "OPER"}
            /\ (y.c \in Oper /\ y.add) \/ e \cap Oper \subseteq g.user.flags
            /\ (y.add /\ y.c \notin {"a", "i"}) \/ e \cap {"o", "O", "H"} \subseteq g.user.flags
            /\ Local(g) \/ v = g.handler
    BY <2>2, <2>3, <2>4, LetterOK
  <2>7. F[n + 1] = Put(h, e, v)
    BY <2>2, <2>5, <2>6
  <2>8. Gone(n + 1) <=> Gone(n) \/ (y.c \in Oper /\ ~y.add)
    <3>1. 1..(n + 1) = 1..n \cup {n + 1}
      OBVIOUS
    <3> QED
      BY <3>1 DEF y
  <2>9. Gone(n) /\ NoReoper(x) => ~(y.c \in Oper /\ y.add)
    <3> SUFFICES ASSUME NEW j \in 1..n, x[j].c \in Oper, ~x[j].add, NoReoper(x)
                 PROVE  ~(y.c \in Oper /\ y.add)
      OBVIOUS
    <3>1. j \in 1..Len(x) /\ j < n + 1
      BY <1>1, <2>4
    <3> QED
      BY <2>4, <3>1 DEF NoReoper, y
  <2>10. IF Gone(n + 1) THEN NoReoper(x) => e \cap Oper = {} ELSE v \in {h.handler, "OPER"}
    <3> HIDE DEF Gone
    <3>1. CASE Gone(n)
      <4>1. NoReoper(x) => f \cap Oper = {}
        BY <2>1, <3>1
      <4> QED
        BY <2>2, <2>6, <2>8, <2>9, <3>1, <4>1
    <3>2. CASE ~Gone(n)
      <4>1. t \in {h.handler, "OPER"}
        BY <2>1, <3>2
      <4> QED
        BY <2>2, <2>6, <2>8, <3>2, <4>1
    <3> QED
      BY <3>1, <3>2
  <2>11. NoGrant(x) => e \cap {"o", "O", "H"} \subseteq h.user.flags
    <3> SUFFICES ASSUME NoGrant(x) PROVE e \cap {"o", "O", "H"} \subseteq h.user.flags
      OBVIOUS
    <3>1. f \cap {"o", "O", "H"} \subseteq h.user.flags
      BY <2>1
    <3>2. ~(y.add /\ y.c \notin {"a", "i"})
      BY <2>4 DEF NoGrant, y
    <3> QED
      BY <2>2, <2>6, <3>1, <3>2
  <2>12. Local(h) \/ v = h.handler
    BY <2>1, <2>2, <2>3, <2>6
  <2>13. K(n + 1, e, v)
    BY <2>7, <2>10, <2>11, <2>12
  <2> HIDE DEF K
  <2> QED
    BY <2>13
<1>5. PICK f \in SUBSET Modes, t \in Tables : K(Len(x), f, t)
  <2> HIDE DEF K
  <2>1. S = Nat
    <3>1. \A n \in Nat : n \in S => n + 1 \in S
      BY <1>4
    <3> HIDE DEF S
    <3>2. S \subseteq Nat
      BY DEF S
    <3> QED
      BY <1>3, <3>1, <3>2, Induction
  <2> QED
    BY <1>1, <2>1
<1> HIDE DEF Gone
<1> QED
  BY <1>2, <1>5

(* A string that makes nobody an operator does not give the status back.   *)
LEMMA GrantsNothing ==
  ASSUME NEW x, NoGrant(x)
  PROVE  NoReoper(x)
BY DEF NoGrant, NoReoper, Oper

LEMMA RulesOK ==
  ASSUME NEW h \in Work, NEW old
  PROVE  \E f \in SUBSET Modes :
            /\ Rules(h, old) = Put(h, f, h.handler)
            /\ f \cap Oper \subseteq old /\ f \subseteq h.user.flags
            /\ "H" \in f => "H" \in old \/ "o" \in f
<1> DEFINE e == h.user.flags \ ({"a", "o", "O"} \ old)
           hide == "DISPLAY_MODE" \in h.user.privs /\ "o" \in e
           f == IF "H" \in old \/ hide THEN e ELSE e \ {"H"}
<1>1. Rules(h, old) = Put(h, f, h.handler)
  BY DEF Rules, Put, Work, Record
<1>2. f \in SUBSET Modes /\ f \subseteq h.user.flags
  BY DEF Work, Record
<1>3. f \cap Oper \subseteq old /\ ("H" \in f => "H" \in old \/ "o" \in f)
  BY DEF Oper
<1> HIDE DEF f
<1> QED
  BY <1>1, <1>2, <1>3

(* The counters go with the flags, whatever they were and are.             *)
Counted(h, old, k) ==
    /\ k \in Work /\ k.s = h.s /\ k.u = h.u /\ k.user.on = h.user.on /\ k.handler = h.handler
    /\ k.user.flags = IF "o" \in old /\ "o" \notin h.user.flags
                      THEN h.user.flags \ {"H"} ELSE h.user.flags
    /\ k.opers = h.opers - Count("o" \in old /\ "H" \notin old) + Count(Shown(k.user))
    /\ k.inv = h.inv - Count("i" \in old) + Count("i" \in k.user.flags)

LEMMA CountersOK ==
  ASSUME NEW h \in Work, NEW old
  PROVE  Counted(h, old, Counters(h, old))
<1> DEFINE f == h.user.flags
           fall == "o" \in old /\ "o" \notin f
           n == h.opers + Count("o" \notin old /\ "o" \in f /\ "H" \notin f)
           h1 == [h EXCEPT !.opers = n]
           h2 == Deoper(h1, old)
           e == IF fall THEN f \ {"H"} ELSE f
           still == "o" \in old /\ "o" \in e
<1>1. f \in SUBSET Modes /\ h.opers \in Int /\ h.inv \in Int /\ n \in Int
  BY DEF Work, Record, Count
<1>2. h1 \in Work /\ h1.user = h.user /\ h1.opers = n /\ h1.s = h.s /\ h1.u = h.u /\ h1.inv = h.inv /\ h1.handler = h.handler
  <2> HIDE DEF n
  <2> QED
    BY <1>1 DEF Work
<1> HIDE DEF h1, n
<1>3. /\ h2 \in Work /\ h2.s = h.s /\ h2.u = h.u /\ h2.user.on = h.user.on /\ h2.handler = h.handler
      /\ h2.inv = h.inv /\ h2.user.flags = e
      /\ h2.opers = IF fall THEN n - Count("H" \notin old) ELSE n
  <2>1. CASE fall
    <3> DEFINE c == n - Count("H" \notin old)
               r == [h1.user EXCEPT !.flags = f \ {"H"}, !.privs = {}]
    <3>1. c \in Int
      BY <1>1 DEF Count
    <3>2. h1.user \in Record /\ h1.user.flags = f
      BY <1>2 DEF Work
    <3>3. r \in Record /\ r.on = h.user.on /\ r.flags = f \ {"H"}
      BY <1>2, <3>2 DEF Record
    <3>4. h2 = [h1 EXCEPT !.user = r, !.opers = c]
      BY <1>2, <2>1, <3>2 DEF Deoper, Work, Record
    <3> HIDE DEF r, c
    <3>5. [h1 EXCEPT !.user = r, !.opers = c] \in Work
      BY <1>2, <3>1, <3>3 DEF Work
    <3>6. h2.user = r /\ h2.opers = c /\ h2.s = h1.s /\ h2.u = h1.u /\ h2.inv = h1.inv /\ h2.handler = h1.handler
      BY <1>2, <3>4 DEF Work
    <3> QED
      BY <1>2, <2>1, <3>3, <3>4, <3>5, <3>6 DEF c
  <2>2. CASE ~fall
    BY <1>1, <1>2, <2>2 DEF Deoper
  <2> QED
    BY <2>1, <2>2
<1> DEFINE a == h2.opers - Count(still /\ "H" \notin old /\ "H" \in e) + Count(still /\ "H" \in old /\ "H" \notin e)
           b == h2.inv - Count("i" \in old /\ "i" \notin e) + Count("i" \notin old /\ "i" \in e)
           g == [h2 EXCEPT !.opers = a, !.inv = b]
<1>4. Counters(h, old) = g
  BY <1>3 DEF Counters, h1, n
<1> HIDE DEF h2
<1>5. a \in Int /\ b \in Int
  BY <1>3 DEF Count, Work
<1>6. a = h.opers - Count("o" \in old /\ "H" \notin old) + Count("o" \in e /\ "H" \notin e)
  BY <1>1, <1>3 DEF Count, n
<1>7. b = h.inv - Count("i" \in old) + Count("i" \in e)
  BY <1>1, <1>3 DEF Count
<1> HIDE DEF a, b, e
<1>8. g \in Work /\ g.s = h.s /\ g.u = h.u /\ g.user = h2.user /\ g.handler = h.handler /\ g.opers = a /\ g.inv = b
  BY <1>3, <1>5 DEF Work
<1> HIDE DEF g
<1>9. /\ g.user.flags = e /\ g.user.on = h.user.on
      /\ g.opers = h.opers - Count("o" \in old /\ "H" \notin old) + Count(Shown(g.user))
  BY <1>3, <1>6, <1>8 DEF Shown
<1>10. Counted(h, old, g)
  BY <1>7, <1>8, <1>9 DEF e, Counted
<1> QED
  BY <1>4, <1>10

(* set_user_mode, for the user itself or by services                       *)
Online(r) == r.on

LEMMA SetUserModeOK ==
  ASSUME NEW h \in Work, Online(h.user), Local(h) => AtHome(h.user, h.handler), NEW one,
         NEW by, NEW x \in Seq(Changes), NoReoper(x), by # "user" => NoGrant(x)
  PROVE  Fits(h, set_user_mode(h, one, by, x))
<1> DEFINE old == h.user.flags
           force == by = "server" /\ Local(h)
           h1 == Letters(h, x, force)
           h2 == IF by = "user" /\ Local(h) THEN Rules(h1, old) ELSE h1
           prop == "PROPAGATE" \in h2.user.privs
           h3 == Counters(h2, old)
           h4 == send_umode_out(h3, one, old, prop)
           h5 == IF force THEN send_umode_out(h4, 0, old, TRUE) ELSE h4
<1>1. set_user_mode(h, one, by, x) = h5
  BY DEF set_user_mode
<1>2. force \in BOOLEAN /\ (force => Local(h)) /\ old \in SUBSET Modes
  BY DEF Work, Record
<1> HIDE DEF force
<1>3. PICK f \in SUBSET Modes, t \in Tables :
         /\ h1 = Put(h, f, t)
         /\ f \cap Oper = {} \/ t \in {h.handler, "OPER"}
         /\ NoGrant(x) => f \cap {"o", "O", "H"} \subseteq old
         /\ Local(h) \/ t = h.handler
  BY <1>2, LettersOK
<1> HIDE DEF h1
<1>4. /\ h1 \in Work /\ h1.s = h.s /\ h1.u = h.u /\ h1.opers = h.opers /\ h1.inv = h.inv
      /\ h1.user.flags = f /\ h1.user.on = h.user.on /\ h1.handler = t
      /\ \A e, v : Put(h1, e, v) = Put(h, e, v)
  <2>1. h1 = Put(h, f, t)
    BY <1>3
  <2> QED
    BY <2>1, PutOK
<1>5. PICK e \in SUBSET Modes :
         /\ h2 = Put(h, e, t) /\ e \subseteq f
         /\ Local(h) => e \cap Oper \subseteq old /\ ("H" \in e => "H" \in old \/ "o" \in e)
  <2>1. CASE by = "user" /\ Local(h)
    <3>1. PICK e \in SUBSET Modes :
             /\ Rules(h1, old) = Put(h1, e, h1.handler)
             /\ e \cap Oper \subseteq old /\ e \subseteq h1.user.flags
             /\ "H" \in e => "H" \in old \/ "o" \in e
      BY <1>4, RulesOK
    <3>2. h2 = Put(h, e, t)
      BY <1>4, <2>1, <3>1
    <3> QED
      BY <1>4, <3>1, <3>2
  <2>2. CASE ~(by = "user" /\ Local(h))
    <3>1. h2 = Put(h, f, t)
      BY <1>3, <2>2
    <3>2. Local(h) => f \cap {"o", "O", "H"} \subseteq old
      BY <1>3, <2>2
    <3> QED
      BY <3>1, <3>2 DEF Oper
  <2> QED
    BY <2>1, <2>2
<1> HIDE DEF h2
<1>6. /\ h2 \in Work /\ h2.s = h.s /\ h2.u = h.u /\ h2.opers = h.opers /\ h2.inv = h.inv
      /\ h2.user.flags = e /\ h2.user.on = h.user.on /\ h2.handler = t
      /\ \A d, v : Put(h2, d, v) = Put(h, d, v)
  <2>1. h2 = Put(h, e, t)
    BY <1>5
  <2> QED
    BY <2>1, PutOK
<1> DEFINE fall == "o" \in old /\ "o" \notin e
<1>7. /\ h3 \in Work /\ h3.s = h.s /\ h3.u = h.u /\ h3.user.on = h.user.on /\ h3.handler = t
      /\ h3.user.flags = IF fall THEN e \ {"H"} ELSE e
      /\ h3.opers = h.opers - Count("o" \in old /\ "H" \notin old) + Count(Shown(h3.user))
      /\ h3.inv = h.inv - Count("i" \in old) + Count("i" \in h3.user.flags)
  <2>1. Counted(h2, old, h3)
    <3>1. h2 \in Work
      BY <1>6
    <3> HIDE DEF old
    <3> QED
      BY <3>1, CountersOK
  <2> HIDE DEF h3
  <2> QED
    BY <1>6, <2>1 DEF Counted
<1> HIDE DEF h3
<1>8. Local(h) => AtHome(h3.user, h3.handler)
  <2> SUFFICES ASSUME Local(h) PROVE AtHome(h3.user, h3.handler)
    OBVIOUS
  <2>1. AtHome(h.user, h.handler) /\ h3.user.flags \subseteq e
    BY <1>7
  <2>2. ASSUME h3.user.flags \cap Oper # {} PROVE h3.handler = "OPER"
    <3>1. e \cap Oper # {} /\ f \cap Oper # {} /\ old \cap Oper # {}
      BY <1>5, <2>1, <2>2
    <3>2. h.handler = "OPER"
      BY <2>1, <3>1 DEF AtHome
    <3> QED
      BY <1>3, <1>7, <3>1, <3>2
  <2>3. ASSUME "H" \in h3.user.flags PROVE "o" \in h3.user.flags
    <3>1. "H" \in e /\ ~fall
      BY <1>7, <2>3
    <3>2. "H" \in old => "o" \in old
      BY <2>1 DEF AtHome
    <3>3. "o" \in e
      BY <1>5, <3>1, <3>2
    <3> QED
      BY <1>7, <3>1, <3>3
  <2> QED
    BY <2>2, <2>3 DEF AtHome
<1>9. Fits(h, h3)
  <2>1. Local(h3) <=> Local(h)
    BY <1>7 DEF Local
  <2>2. Count("o" \in old /\ "H" \notin old) = Count(Shown(h.user))
    BY DEF Shown
  <2> QED
    BY <1>3, <1>7, <1>8, <2>1, <2>2 DEF Fits, Online
<1>10. Sent(h3, h4)
  BY <1>7, SendsModes
<1>11. h4 \in Work /\ Fits(h, h4)
  BY <1>7, <1>9, <1>10, SentOK, SentFits
<1> HIDE DEF h4
<1>12. Fits(h, h5)
  <2>1. Sent(h4, send_umode_out(h4, 0, old, TRUE))
    BY <1>11, SendsModes
  <2>2. Fits(h, send_umode_out(h4, 0, old, TRUE))
    BY <1>11, <2>1, SentFits
  <2> QED
    BY <1>11, <2>2
<1> QED
  BY <1>1, <1>12

-----------------------------------------------------------------------------
(* exit_one_client                                                         *)
LEMMA ExitOK ==
  ASSUME NEW h \in Work, NEW one
  PROVE  Fits(h, Exit(h, one))
<1> DEFINE a == h.opers - Count("o" \in h.user.flags /\ "H" \notin h.user.flags)
           b == h.inv - Count("i" \in h.user.flags)
           g == [h EXCEPT !.user = NoUser, !.opers = a, !.inv = b]
<1>1. a \in Int /\ b \in Int /\ NoUser \in Record /\ NoUser.flags = {}
  BY DEF Count, Work, Record, NoUser
<1>2. Exit(h, one) = sendcmdto_serv_butone(g, one, Q(h.u)) /\ h.u \in Users
  BY DEF Exit, Work
<1>3. /\ a = h.opers - Count(Shown(h.user)) + Count(Shown(NoUser))
      /\ b = h.inv - Count("i" \in h.user.flags) + Count("i" \in NoUser.flags)
  BY <1>1 DEF Count, Shown, Work
<1> HIDE DEF a, b
<1>4. g \in Work /\ g.s = h.s /\ g.u = h.u /\ g.user = NoUser /\ g.opers = a /\ g.inv = b /\ g.handler = h.handler
  BY <1>1 DEF Work
<1> HIDE DEF g
<1>5. Fits(h, g)
  BY <1>1, <1>3, <1>4 DEF Fits, AtHome
<1>6. Q(h.u) \in Message
  BY <1>2 DEF Q, Message
<1> QED
  BY <1>2, <1>4, <1>5, <1>6, Sends, SentFits

(* register_user                                                           *)
LEMMA RegisterOK ==
  ASSUME NEW h \in Work, Local(h), h.user.flags = {}, NEW flags, flags = {"i"} \/ flags = {}
  PROVE  Fits(h, sendcmdto_serv_butone(
                     [h EXCEPT !.user = [on |-> TRUE, flags |-> flags, privs |-> {}],
                               !.inv = @ + Cardinality(flags), !.handler = "CLIENT"], 0, N(h.u, flags)))
<1> DEFINE r == [on |-> TRUE, flags |-> flags, privs |-> {}]
           b == h.inv + Cardinality(flags)
           g == [h EXCEPT !.user = r, !.inv = b, !.handler = "CLIENT"]
<1>1. Cardinality(flags) = Count("i" \in flags)
  BY FS_EmptySet, FS_Singleton DEF Count
<1>2. r \in Record /\ r.on /\ r.flags = flags /\ flags \in SUBSET {"i"} /\ h.inv \in Int /\ h.opers \in Int /\ h.u \in Users
  BY DEF Record, Modes, Work
<1>3. b \in Int /\ b = h.inv - Count("i" \in h.user.flags) + Count("i" \in r.flags)
  BY <1>1, <1>2 DEF Count
<1>4. h.opers = h.opers - Count(Shown(h.user)) + Count(Shown(r))
  BY <1>2 DEF Shown, Count
<1> HIDE DEF b, r
<1>5. g \in Work /\ g.s = h.s /\ g.u = h.u /\ g.user = r /\ g.opers = h.opers /\ g.inv = b /\ g.handler = "CLIENT"
  BY <1>2, <1>3 DEF Work, Tables
<1> HIDE DEF g
<1>6. AtHome(r, "CLIENT")
  BY <1>2 DEF AtHome, Oper
<1>7. Fits(h, g)
  BY <1>2, <1>3, <1>4, <1>5, <1>6 DEF Fits, Local
<1>8. N(h.u, flags) \in Message
  BY <1>2 DEF N, Message
<1> QED
  BY <1>5, <1>7, <1>8, Sends, SentFits DEF g, r, b

(* OPER and CHALLENGE, for a user that is no operator                      *)
LEMMA OperedOK ==
  ASSUME OrderlyModes, UInv, NEW u \in Users, Asks(u), NEW line \in Lines
  PROVE  Fits(Start(Home[u], u), Opered(u, line))
<1> DEFINE h == Start(Home[u], u)
           old == h.user.flags
           flags == IF line.locop THEN (old \ {"o"}) \cup {"O"}
                    ELSE (old \ {"O", "a"}) \cup (IF line.admin THEN {"o", "a"} ELSE {"o"})
           n == h.opers + Count(~line.locop)
           g == [h EXCEPT !.user.flags = flags, !.user.privs = line.privs, !.opers = n, !.handler = "OPER"]
           g1 == sendcmdto_serv_butone(g, 0, P(u, line.privs))
           g2 == send_umode_out(g1, 0, old, "PROPAGATE" \in line.privs)
<1>1. Opered(u, line) = g2
  BY DEF Opered
<1>2. Home[u] \in Servers /\ line.locop \in BOOLEAN /\ line.admin \in BOOLEAN /\ line.privs \in SUBSET Privs
  BY UmodeAssumption DEF Privs
<1>3. /\ h \in Work /\ h.s = Home[u] /\ h.u = u /\ h.user.on /\ h.handler = "CLIENT"
      /\ Local(h) /\ AtHome(h.user, h.handler)
  <2>1. /\ h \in Work /\ h.s = Home[u] /\ h.u = u /\ h.user = user[Home[u]][u] /\ h.handler = handler[u]
        /\ Local(h) => AtHome(h.user, h.handler)
    BY <1>2, StartOK
  <2> HIDE DEF h
  <2> QED
    BY <2>1 DEF Asks, Local
<1> HIDE DEF h
<1>4. old \in SUBSET Modes /\ old \cap Oper = {} /\ "H" \notin old /\ h.opers \in Int /\ h.inv \in Int
  <2>1. h.user \in Record /\ h.opers \in Int /\ h.inv \in Int
    BY <1>3 DEF Work
  <2>2. old \cap Oper = {}
    BY <1>3 DEF AtHome
  <2> QED
    BY <1>3, <2>1, <2>2 DEF AtHome, Oper, Record
<1>5. /\ flags \in SUBSET Modes /\ "H" \notin flags /\ ("i" \in flags <=> "i" \in old)
      /\ "o" \in flags <=> ~line.locop
  BY <1>2, <1>4 DEF Modes, Oper
<1>6. n \in Int /\ n = h.opers - Count(Shown(h.user)) + Count("o" \in flags /\ "H" \notin flags)
  BY <1>4, <1>5 DEF Count, Shown, Oper
<1> HIDE DEF flags, n
<1> DEFINE r == [h.user EXCEPT !.flags = flags, !.privs = line.privs]
<1>7. r \in Record /\ r.flags = flags /\ r.on = h.user.on
  BY <1>2, <1>3, <1>5 DEF Work, Record
<1>8. g = [h EXCEPT !.user = r, !.opers = n, !.handler = "OPER"]
  BY <1>3 DEF Work, Record
<1> HIDE DEF r, g
<1>9. g \in Work /\ g.s = h.s /\ g.u = h.u /\ g.user = r /\ g.opers = n /\ g.inv = h.inv /\ g.handler = "OPER"
  BY <1>3, <1>6, <1>7, <1>8 DEF Work, Tables
<1>10. Fits(h, g)
  <2>1. AtHome(g.user, g.handler)
    BY <1>5, <1>7, <1>9 DEF AtHome
  <2>2. h.inv = h.inv - Count("i" \in old) + Count("i" \in flags)
    BY <1>4, <1>5 DEF Count
  <2> QED
    BY <1>3, <1>6, <1>7, <1>9, <2>1, <2>2 DEF Fits, Shown, Local
<1>11. P(u, line.privs) \in Message
  BY <1>2 DEF P, Message
<1>12. Sent(g, g1)
  BY <1>9, <1>11, Sends
<1>13. Fits(h, g1) /\ g1 \in Work
  BY <1>9, <1>10, <1>12, SentFits, SentOK
<1> HIDE DEF g1
<1>14. Fits(h, g2)
  BY <1>13, SendsModes, SentFits
<1> QED
  BY <1>1, <1>14 DEF h

(* ms_nick                                                                 *)
LEMMA NickOK ==
  ASSUME NEW h \in Work, NEW p, NEW m \in Message, m.type = "N", ~h.user.on => h.user.flags = {},
         Fits(h, h)
  PROVE  Fits(h, ms_nick(h, p, m))
<1> SUFFICES ASSUME ~h.user.on PROVE Fits(h, ms_nick(h, p, m))
  BY DEF ms_nick
<1> DEFINE r == [on |-> TRUE, flags |-> m.flags, privs |-> {}]
           a == h.opers + Count("o" \in m.flags /\ "H" \notin m.flags)
           b == h.inv + Count("i" \in m.flags)
           g == [h EXCEPT !.user = r, !.opers = a, !.inv = b]
<1>1. m.flags \in SUBSET {"i"} /\ h.opers \in Int /\ h.inv \in Int
  BY DEF Message, Work
<1>2. r \in Record /\ r.on /\ r.flags = m.flags
  BY <1>1 DEF Record, Modes
<1>3. /\ a \in Int /\ a = h.opers - Count(Shown(h.user)) + Count(Shown(r))
      /\ b \in Int /\ b = h.inv - Count("i" \in h.user.flags) + Count("i" \in r.flags)
  BY <1>1, <1>2 DEF Count, Shown
<1>4. ms_nick(h, p, m) = sendcmdto_serv_butone(g, p, m)
  BY DEF ms_nick
<1> HIDE DEF a, b, r
<1>5. g \in Work /\ g.s = h.s /\ g.u = h.u /\ g.user = r /\ g.opers = a /\ g.inv = b /\ g.handler = h.handler
  BY <1>2, <1>3 DEF Work
<1>6. AtHome(r, h.handler)
  BY <1>1, <1>2 DEF AtHome, Oper
<1> HIDE DEF g
<1>7. Fits(h, g)
  BY <1>2, <1>3, <1>5, <1>6 DEF Fits
<1> QED
  BY <1>4, <1>5, <1>7, Sends, SentFits

(* ms_privs                                                                *)
LEMMA PrivsOK ==
  ASSUME NEW h \in Work, NEW p, NEW m \in Message, m.type = "P", h.user.on, Fits(h, h)
  PROVE  Fits(h, ms_privs(h, p, m))
<1> DEFINE q == h.user.privs \cup m.privs
           r == [h.user EXCEPT !.privs = q]
           g == [h EXCEPT !.user.privs = q]
<1>1. m.privs \in SUBSET Privs /\ h.user \in Record
  BY DEF Message, Work
<1>2. q \in SUBSET Privs
  BY <1>1 DEF Record
<1> HIDE DEF q
<1>3. r \in Record /\ r.flags = h.user.flags /\ r.on = h.user.on /\ g = [h EXCEPT !.user = r]
  BY <1>1, <1>2 DEF Record, Work
<1>4. ms_privs(h, p, m) = sendcmdto_serv_butone(g, p, m)
  BY DEF ms_privs, q
<1> HIDE DEF r, g
<1>5. /\ g \in Work /\ g.s = h.s /\ g.u = h.u /\ g.user = r /\ g.opers = h.opers /\ g.inv = h.inv
      /\ g.handler = h.handler
  BY <1>3 DEF Work
<1>6. Fits(h, g)
  BY <1>3, <1>5 DEF Fits, Shown, AtHome, Local
<1> QED
  BY <1>4, <1>5, <1>6, Sends, SentFits

(* A message, about a user the server may know or not                      *)
LEMMA HandleOK ==
  ASSUME NEW h \in Work, Fits(h, h), NEW p, NEW m \in Message
  PROVE  Fits(h, Handle(h, p, m))
<1>1. (~h.user.on => h.user.flags = {}) /\ (Local(h) => AtHome(h.user, h.handler))
  BY DEF Fits
<1>2. Fits(h, sendcmdto_serv_butone(h, p, m))
  BY Sends, SentFits
<1>3. CASE m.type = "N"
  <2>1. Handle(h, p, m) = ms_nick(h, p, m)
    BY <1>3 DEF Handle
  <2> QED
    BY <1>1, <1>3, <2>1, NickOK
<1>4. CASE m.type # "N" /\ ~Online(h.user)
  <2>1. Handle(h, p, m) = h
    BY <1>4 DEF Handle, Online
  <2> QED
    BY <2>1
<1>5. CASE m.type # "N" /\ Online(h.user)
  <2>1. m.type \in {"Q", "P", "M", "ServerM", "SvsMode"}
    BY <1>5 DEF Message
  <2>2. CASE m.type = "Q"
    <3>1. Handle(h, p, m) = Exit(h, p)
      BY <1>5, <2>2 DEF Handle, Online
    <3> QED
      BY <3>1, ExitOK
  <2>3. CASE m.type = "P"
    <3>1. Handle(h, p, m) = ms_privs(h, p, m)
      BY <1>5, <2>3 DEF Handle, Online
    <3>2. h.user.on
      BY <1>5 DEF Online
    <3> QED
      BY <2>3, <3>1, <3>2, PrivsOK
  <2>4. CASE m.type = "M"
    <3>1. Handle(h, p, m) = set_user_mode(h, p, "user", m.changes)
      BY <1>5, <2>4 DEF Handle, Online
    <3>2. m.changes \in Seq(Changes) /\ NoReoper(m.changes)
      BY <2>4 DEF Message
    <3>3. Fits(h, set_user_mode(h, p, "user", m.changes))
      BY <1>1, <1>5, <3>2, SetUserModeOK
    <3> QED
      BY <3>1, <3>3
  <2>5. CASE m.type \in {"ServerM", "SvsMode"}
    <3>1. m.changes \in Seq(Changes) /\ NoGrant(m.changes) /\ NoReoper(m.changes)
      BY <2>5, GrantsNothing DEF Message
    <3>2. /\ Fits(h, set_user_mode(h, p, "server", m.changes))
          /\ Fits(h, set_user_mode(h, 0, "svsmode", m.changes))
      BY <1>1, <1>5, <3>1, SetUserModeOK
    <3>3. CASE m.type = "ServerM"
      <4>1. Handle(h, p, m) = ms_server_mode(h, p, m)
        BY <1>5, <3>3 DEF Handle, Online
      <4> QED
        BY <1>2, <3>2, <4>1 DEF ms_server_mode
    <3>4. CASE m.type = "SvsMode"
      <4>1. Handle(h, p, m) = ms_svsmode(h, p, m)
        BY <1>5, <3>4 DEF Handle, Online
      <4> QED
        BY <1>2, <3>2, <4>1 DEF ms_svsmode
    <3> QED
      BY <2>5, <3>3, <3>4
  <2> QED
    BY <2>1, <2>2, <2>3, <2>4, <2>5
<1> QED
  BY <1>3, <1>4, <1>5

-----------------------------------------------------------------------------
(* What each action makes of the invariant                                 *)

LEMMA SendOK ==
  ASSUME OrderlyModes, UInv, NEW s \in Servers, NEW u \in Users, NEW g, Fits(Start(s, u), g), Send(g),
         response' \in [Users -> SUBSET Lines]
  PROVE  UInv'
<1>1. g \in Work /\ g.s = s
  BY StartOK DEF Fits
<1>2. g.out \in Outs /\ g.out[s] = <<>>
  BY <1>1 DEF Work
<1>3. net \in Nets /\ net' = [net EXCEPT ![s] = g.out]
  BY <1>1 DEF UInv, Typed, Send
<1>4. net' \in Nets
  BY <1>2, <1>3 DEF Nets
<1> QED
  BY <1>4, CommitOK DEF Send

LEMMA ReceiveOK ==
  ASSUME OrderlyModes, UInv, NEW p \in Servers, NEW s \in Servers, Receive(p, s)
  PROVE  UInv'
<1> DEFINE m == Head(net[p][s])
           h == Start(s, m.u)
           g == Handle(h, p, m)
<1>1. /\ net \in [Servers -> Outs] /\ \A t \in Servers : net[t][t] = <<>>
      /\ net[p] \in Outs /\ net[p][s] \in Seq(Message) /\ net[p][s] # <<>>
  BY DEF UInv, Typed, Nets, Outs, Receive
<1>2. m \in Message /\ Tail(net[p][s]) \in Seq(Message) /\ p # s
  BY <1>1
<1>3. m.u \in Users
  BY <1>2 DEF Message
<1>4. Commit(g) /\ net' = [net EXCEPT ![s] = g.out, ![p][s] = Tail(@)] /\ response' = response
  BY DEF Receive
<1> HIDE DEF m
<1>5. h \in Work /\ h.s = s /\ Fits(h, h)
  BY <1>3, StartOK
<1>6. Fits(h, g)
  <2> HIDE DEF h
  <2> QED
    BY <1>2, <1>5, HandleOK
<1> HIDE DEF g
<1>7. g.out \in Outs /\ g.out[s] = <<>>
  <2>1. g \in Work /\ g.s = s
    BY <1>5, <1>6 DEF Fits
  <2> QED
    BY <2>1 DEF Work
<1>8. net' \in Nets
  <2> DEFINE o == [net[p] EXCEPT ![s] = Tail(net[p][s])]
  <2>1. net' = [net EXCEPT ![s] = g.out, ![p] = o]
    BY <1>1, <1>2, <1>4
  <2>2. o \in Outs /\ o[p] = <<>>
    BY <1>1, <1>2 DEF Outs
  <2> HIDE DEF o
  <2> QED
    BY <1>1, <1>7, <2>1, <2>2 DEF Nets
<1>9. response' \in [Users -> SUBSET Lines]
  BY <1>4 DEF UInv, Typed
<1> QED
  BY <1>3, <1>4, <1>6, <1>8, <1>9, CommitOK DEF h

LEMMA InitOK ==
  ASSUME OrderlyModes, Init
  PROVE  UInv
<1>1. \A s \in Servers, u \in Users : user[s][u] = NoUser
  BY DEF Init
<1>2. NoUser \in Record /\ NoUser.flags = {}
  BY DEF NoUser, Record
<1>3. net \in Nets
  BY DEF Init, Nets, Outs
<1>4. Typed
  BY <1>2, <1>3 DEF Init, Typed, Tables
<1>5. CountsRight
  <2> SUFFICES ASSUME NEW s \in Servers
               PROVE  /\ opers[s] = Cardinality({u \in Users : "o" \in user[s][u].flags /\ "H" \notin user[s][u].flags})
                      /\ inv[s] = Cardinality({u \in Users : "i" \in user[s][u].flags})
    BY DEF CountsRight
  <2>1. /\ {u \in Users : "o" \in user[s][u].flags /\ "H" \notin user[s][u].flags} = {}
        /\ {u \in Users : "i" \in user[s][u].flags} = {}
    BY <1>1, <1>2
  <2>2. opers[s] = 0 /\ inv[s] = 0 /\ Cardinality({}) = 0
    BY FS_EmptySet DEF Init
  <2> QED
    BY <2>1, <2>2
<1>6. \A u \in Users : AtHome(user[Home[u]][u], handler[u])
  BY <1>1, <1>2, UmodeAssumption DEF AtHome, Oper
<1> QED
  BY <1>1, <1>2, <1>4, <1>5, <1>6 DEF UInv

LEMMA StepOK ==
  ASSUME OrderlyModes, UInv, [Next]_vars
  PROVE  UInv'
<1>1. /\ response \in [Users -> SUBSET Lines]
      /\ \A u \in Users : Home[u] \in Servers
  BY UmodeAssumption DEF UInv, Typed
<1>2. \A u \in Users : LET h == Start(Home[u], u)
                       IN  h \in Work /\ h.s = Home[u] /\ h.u = u /\ Local(h) /\ Fits(h, h)
                           /\ h.user = user[Home[u]][u]
  BY <1>1, StartOK DEF Local
<1>3. ASSUME NEW u \in Users, register_user(u) PROVE UInv'
  <2> DEFINE flags == IF AUTOINVISIBLE THEN {"i"} ELSE {}
             h == Start(Home[u], u)
             g == sendcmdto_serv_butone(
                      [h EXCEPT !.user = [on |-> TRUE, flags |-> flags, privs |-> {}],
                                !.inv = @ + Cardinality(flags), !.handler = "CLIENT"], 0, N(u, flags))
  <2>1. Send(g) /\ response' = response /\ ~h.user.on
    BY <1>3 DEF register_user, Do
  <2>2. flags = {"i"} \/ flags = {}
    OBVIOUS
  <2>3. h \in Work /\ h.u = u /\ Local(h) /\ Fits(h, h)
    BY <1>2
  <2> HIDE DEF flags, h
  <2>4. h.user.flags = {}
    BY <2>1, <2>3 DEF Fits
  <2>5. Fits(h, g)
    BY <2>2, <2>3, <2>4, RegisterOK
  <2> HIDE DEF g
  <2> QED
    BY <1>1, <2>1, <2>5, SendOK DEF h
<1>4. ASSUME NEW u \in Users, m_quit(u) PROVE UInv'
  <2> DEFINE h == Start(Home[u], u)
             g == Exit(h, 0)
  <2>1. Send(g) /\ response' = [response EXCEPT ![u] = {}]
    BY <1>4 DEF m_quit
  <2>2. Fits(h, g)
    BY <1>2, ExitOK
  <2> HIDE DEF g
  <2>3. response' \in [Users -> SUBSET Lines]
    BY <1>1, <2>1
  <2> QED
    BY <1>1, <2>1, <2>2, <2>3, SendOK
<1>5. ASSUME NEW u \in Users, NEW line \in Lines, m_oper(u, line) PROVE UInv'
  <2>1. Asks(u) /\ Send(Opered(u, line)) /\ response' = response
    BY <1>5 DEF m_oper, Do
  <2>2. Fits(Start(Home[u], u), Opered(u, line))
    BY <2>1, OperedOK
  <2> QED
    BY <1>1, <2>1, <2>2, SendOK
<1>6. ASSUME NEW u \in Users, NEW line \in Lines, m_challenge(u, line) PROVE UInv'
  <2> DEFINE h == Start(Home[u], u)
  <2>1. Send(h) /\ response' = [response EXCEPT ![u] = {line}]
    BY <1>6 DEF m_challenge
  <2>2. Fits(h, h)
    BY <1>2
  <2>3. response' \in [Users -> SUBSET Lines]
    BY <1>1, <2>1
  <2> QED
    BY <1>1, <2>1, <2>2, <2>3, SendOK
<1>7. ASSUME NEW u \in Users, m_challenge_response(u) PROVE UInv'
  <2>1. PICK line \in response[u] : Send(Opered(u, line)) /\ response' = response
    BY <1>7 DEF m_challenge_response, Do
  <2>2. Asks(u)
    BY <1>7 DEF m_challenge_response
  <2>3. line \in Lines
    BY <1>1
  <2>4. Fits(Start(Home[u], u), Opered(u, line))
    BY <2>2, <2>3, OperedOK
  <2> QED
    BY <1>1, <2>1, <2>4, SendOK
<1>8. ASSUME NEW u \in Users, NEW x \in UserModes, m_mode(u, x) PROVE UInv'
  <2> DEFINE h == Start(Home[u], u)
             g == set_user_mode(h, 0, "user", x)
  <2>1. Send(g) /\ response' = response /\ Online(user[Home[u]][u])
    BY <1>8 DEF m_mode, Do, Online
  <2>2. h \in Work /\ Local(h) /\ Fits(h, h) /\ h.user = user[Home[u]][u]
    BY <1>2
  <2>3. x \in Seq(Changes) /\ NoReoper(x)
    BY DEF OrderlyModes
  <2> HIDE DEF h
  <2>4. AtHome(h.user, h.handler)
    BY <2>2 DEF Fits
  <2>5. Fits(h, g)
    BY <2>1, <2>2, <2>3, <2>4, SetUserModeOK
  <2> HIDE DEF g
  <2> QED
    BY <1>1, <2>1, <2>5, SendOK DEF h
<1>9. ASSUME NEW u \in Users, NEW x \in ServerModes, NEW m \in {ServerM(u, x), SvsMode(u, x)},
             service_mode(u, x, m)
      PROVE  UInv'
  <2> DEFINE h == Start(Services, u)
             g == sendcmdto_serv_butone(h, 0, m)
  <2>1. Send(g) /\ response' = response
    BY <1>9 DEF service_mode, Do
  <2>2. x \in Seq(Changes) /\ NoGrant(x)
    BY DEF OrderlyModes
  <2>3. m \in Message
    BY <2>2 DEF ServerM, SvsMode, Message
  <2>4. Services \in Servers
    BY UmodeAssumption
  <2>5. h \in Work /\ Fits(h, h)
    BY <2>4, StartOK
  <2> HIDE DEF h
  <2>6. Fits(h, g)
    BY <2>3, <2>5, Sends, SentFits
  <2> HIDE DEF g
  <2> QED
    BY <1>1, <2>1, <2>4, <2>6, SendOK DEF h
<1>10. ASSUME UNCHANGED vars PROVE UInv'
  BY <1>10 DEF vars, UInv, Typed, CountsRight
<1> QED
  BY <1>3, <1>4, <1>5, <1>6, <1>7, <1>8, <1>9, <1>10, ReceiveOK DEF Next

(* For any number of servers, users and operator lines, and whatever order *)
(* registrations, OPER, CHALLENGE, mode changes, SVSMODE, quits and the    *)
(* messages about them come in, every server's UserStats.opers and         *)
(* UserStats.inv_clients are the numbers of shown operators and of         *)
(* invisible users it knows, if no mode string takes the operator status   *)
(* and gives it back, and services make nobody an operator or hidden.      *)
THEOREM CountsRightHolds == ASSUME OrderlyModes PROVE Spec => []CountsRight
<1>1. Init => UInv
  BY InitOK
<1>2. UInv /\ [Next]_vars => UInv'
  BY StepOK
<1>3. UInv => CountsRight
  BY DEF UInv
<1> QED
  BY <1>1, <1>2, <1>3, PTL DEF Spec
=============================================================================
