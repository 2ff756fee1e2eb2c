----------------------------- MODULE NickProofs -----------------------------
(***************************************************************************)
(* Every server has at most one client per nick, for any network of        *)
(* servers in a line, any clients, clocks and messages in flight.          *)
(*                                                                         *)
(* What a message says matters little: a handler looks the nick up before  *)
(* it gives it away, and the one holder it finds is all there is, because  *)
(* the nicks were unique before.  So the invariant speaks of the tables of *)
(* the servers alone, and of the shape of what is in them.                 *)
(***************************************************************************)
EXTENDS Nick, TLAPS

IsUser(r) == r = [st |-> r.st, nick |-> r.nick, lastnick |-> r.lastnick, ident |-> r.ident]

Table(u) == u = [c \in Clients |-> u[c]] /\ \A c \in Clients : IsUser(u[c])

Unique(u) == \A c, d \in Clients : /\ c # d
                                   /\ u[c].st # "none"
                                   /\ u[d].st # "none"
                                   => u[c].nick # u[d].nick

Without(u, S) == [x \in Clients |-> IF x \in S THEN NoUser ELSE u[x]]

(* Nobody but c has nick n.                                                *)
NoOther(u, c, n) == \A x \in Clients : x # c /\ u[x].st # "none" => u[x].nick # n

Handler(h) == h = [s |-> h.s, u |-> h.u, out |-> h.out]
Good(h) == Handler(h) /\ Table(h.u) /\ Unique(h.u)

IInv ==
    /\ user = [s \in Servers |-> user[s]]
    /\ \A s \in Servers : Table(user[s]) /\ Unique(user[s])

-----------------------------------------------------------------------------
(* A client that changes its nick keeps the shape of its record.           *)
Renamed(e, n, ts) == [e EXCEPT !.nick = n, !.lastnick = ts]

(* Its new record has the new nick, and the rest of the old one.           *)
LEMMA NewNick ==
  ASSUME NEW e, IsUser(e), NEW n, NEW ts
  PROVE  LET r == Renamed(e, n, ts) IN IsUser(r) /\ r.nick = n /\ r.st = e.st
<1>1. \E a, b, c, d : e = [st |-> a, nick |-> b, lastnick |-> c, ident |-> d]
  BY DEF IsUser
<1>2. PICK a, b, c, d : e = [st |-> a, nick |-> b, lastnick |-> c, ident |-> d]
  BY <1>1
<1> DEFINE f == [e EXCEPT !.nick = n]
<1>3. Renamed(e, n, ts) = [f EXCEPT !.lastnick = ts]
  BY <1>2 DEF Renamed
<1>4. f = [st |-> a, nick |-> n, lastnick |-> c, ident |-> d]
  BY <1>2
<1> HIDE DEF f
<1>5. [f EXCEPT !.lastnick = ts] = [st |-> a, nick |-> n, lastnick |-> ts, ident |-> d]
  BY <1>4
<1> QED
  BY <1>2, <1>3, <1>5 DEF IsUser

(* Tables                                                                  *)

(* A client that gets a nick nobody else has leaves the table unique.      *)
LEMMA Put ==
  ASSUME NEW u, Table(u), Unique(u), NEW c, NEW r, IsUser(r), NoOther(u, c, r.nick)
  PROVE  LET v == [u EXCEPT ![c] = r] IN Table(v) /\ Unique(v)
<1> DEFINE v == [u EXCEPT ![c] = r]
<1>1. v = [x \in Clients |-> IF x = c THEN r ELSE u[x]]
  BY DEF Table
<1> HIDE DEF v
<1>2. Table(v)
  BY <1>1 DEF Table
<1>3. Unique(v)
  BY <1>1 DEF Unique, NoOther
<1> QED
  BY <1>2, <1>3 DEF v

(* Removing clients leaves the table unique.                               *)
LEMMA RemoveClients ==
  ASSUME NEW u, Table(u), Unique(u), NEW S
  PROVE  Table(Without(u, S)) /\ Unique(Without(u, S))
<1> DEFINE v == Without(u, S)
<1>1. IsUser(NoUser) /\ NoUser.st = "none"
  BY DEF IsUser, NoUser
<1>2. v = [x \in Clients |-> v[x]] /\ \A x \in Clients : v[x] = IF x \in S THEN NoUser ELSE u[x]
  BY DEF Without
<1> HIDE DEF v
<1>3. Table(v)
  BY <1>1, <1>2 DEF Table
<1>4. Unique(v)
  BY <1>1, <1>2 DEF Unique
<1> QED
  BY <1>3, <1>4 DEF v

-----------------------------------------------------------------------------
(* What a handler is made of                                               *)

(* Changing one field of a handler keeps the others.                       *)
LEMMA Fields ==
  ASSUME NEW h, Handler(h), NEW x
  PROVE  /\ [h EXCEPT !.out = x] = [s |-> h.s, u |-> h.u, out |-> x]
         /\ [h EXCEPT !.u = x] = [s |-> h.s, u |-> x, out |-> h.out]
         /\ Handler([s |-> h.s, u |-> h.u, out |-> x])
         /\ Handler([s |-> h.s, u |-> x, out |-> h.out])
<1>1. h = [s |-> h.s, u |-> h.u, out |-> h.out]
  BY DEF Handler
<1>2. [h EXCEPT !.out = x] = [s |-> h.s, u |-> h.u, out |-> x]
  BY <1>1
<1>3. [h EXCEPT !.u = x] = [s |-> h.s, u |-> x, out |-> h.out]
  BY <1>1
<1> QED
  BY <1>2, <1>3 DEF Handler

(* Sending changes no client.                                              *)
LEMMA Send ==
  ASSUME NEW h, Handler(h), NEW t, NEW m
  PROVE  /\ LET g == sendcmdto_one(h, t, m) IN Handler(g) /\ g.u = h.u /\ g.s = h.s
         /\ LET g == sendcmdto_serv_butone(h, t, m) IN Handler(g) /\ g.u = h.u /\ g.s = h.s
<1>1. \A x : [h EXCEPT !.out = x] = [s |-> h.s, u |-> h.u, out |-> x]
             /\ Handler([s |-> h.s, u |-> h.u, out |-> x])
  BY Fields
<1>2. sendcmdto_one(h, t, m) \in {h, [h EXCEPT !.out = [h.out EXCEPT ![t] = Append(@, m)]]}
  BY DEF sendcmdto_one
<1>3. \E x : sendcmdto_serv_butone(h, t, m) = [h EXCEPT !.out = x]
  BY DEF sendcmdto_serv_butone
<1> QED
  BY <1>1, <1>2, <1>3

(* exit_one_client takes one client out.                                   *)
LEMMA ExitOne ==
  ASSUME NEW h, Good(h), NEW c
  PROVE  /\ Good(exit_one_client(h, c))
         /\ exit_one_client(h, c).s = h.s
         /\ exit_one_client(h, c).u = Without(h.u, {c})
<1> DEFINE v == [h.u EXCEPT ![c] = NoUser]
           w == Without(h.u, {c})
<1>1. h = [s |-> h.s, u |-> h.u, out |-> h.out] /\ Table(h.u) /\ Unique(h.u)
  BY DEF Good, Handler
<1>2. v = w
  BY <1>1 DEF Table, Without
<1>3. Table(w) /\ Unique(w)
  BY <1>1, RemoveClients
<1>4. exit_one_client(h, c) = [s |-> h.s, u |-> v, out |-> h.out]
  BY <1>1 DEF exit_one_client
<1> HIDE DEF v, w
<1> QED
  BY <1>2, <1>3, <1>4 DEF Good, Handler, w

(* So does exit_client.                                                    *)
LEMMA ExitClient ==
  ASSUME NEW h, Good(h), NEW c, NEW one
  PROVE  /\ Good(exit_client(h, c, one))
         /\ exit_client(h, c, one).s = h.s
         /\ exit_client(h, c, one).u = Without(h.u, {c})
<1> DEFINE a == IF h.u[c].st = "user" THEN sendcmdto_serv_butone(h, one, Q(c)) ELSE h
<1>1. Handler(a) /\ a.u = h.u /\ a.s = h.s
  BY Send DEF Good
<1>2. exit_client(h, c, one) = exit_one_client(a, c)
  BY DEF exit_client
<1> HIDE DEF a
<1>3. Good(a)
  BY <1>1 DEF Good
<1> QED
  BY <1>1, <1>2, <1>3, ExitOne

(* So does the kill of a client.                                           *)
LEMMA KilledClient ==
  ASSUME NEW h, Good(h), NEW c
  PROVE  /\ Good(Killed(h, c))
         /\ Killed(h, c).s = h.s
         /\ Killed(h, c).u = Without(h.u, {c})
<1> DEFINE a == sendcmdto_serv_butone(h, h.s, D(c))
<1>1. Handler(a) /\ a.u = h.u /\ a.s = h.s
  BY Send DEF Good
<1>2. Killed(h, c) = exit_one_client(a, c)
  BY DEF Killed
<1> HIDE DEF a
<1>3. Good(a)
  BY <1>1 DEF Good
<1> QED
  BY <1>1, <1>2, <1>3, ExitOne

(* set_nick_name gives a nick that nobody else has.                        *)
LEMMA SetNickGood ==
  ASSUME NEW h, Good(h), NEW c, NEW n, NEW ts, NEW one, NoOther(h.u, c, n)
  PROVE  Good(SetNick(h, c, n, ts, one)) /\ SetNick(h, c, n, ts, one).s = h.s
<1> DEFINE r == [h.u[c] EXCEPT !.nick = n, !.lastnick = ts]
           g == [h EXCEPT !.u[c] = r]
           v == [h.u EXCEPT ![c] = r]
<1>1. h = [s |-> h.s, u |-> h.u, out |-> h.out] /\ Table(h.u) /\ Unique(h.u)
  BY DEF Good, Handler
<1>2. c \in Clients => IsUser(h.u[c])
  BY <1>1 DEF Table
<1>3. c \in Clients => IsUser(r) /\ r.nick = n
  <2>1. r = Renamed(h.u[c], n, ts)
    BY DEF Renamed
  <2> HIDE DEF r
  <2> QED
    BY <1>2, <2>1, NewNick
<1>4. g = [s |-> h.s, u |-> v, out |-> h.out]
  BY <1>1
<1>5. SetNick(h, c, n, ts, one) = IF r.st = "user" THEN sendcmdto_serv_butone(g, one, NC(c, r)) ELSE g
  BY DEF SetNick
<1> HIDE DEF r
<1>6. Table(v) /\ Unique(v)
  <2>1. CASE c \in Clients
    BY <1>1, <1>3, <2>1, Put
  <2>2. CASE c \notin Clients
    <3>1. v = h.u
      BY <1>1, <2>2 DEF Table
    <3> QED
      BY <1>1, <3>1
  <2> QED
    BY <2>1, <2>2
<1> HIDE DEF v, g
<1>7. Handler(g) /\ g.u = v /\ g.s = h.s
  BY <1>4 DEF Handler
<1> QED
  BY <1>5, <1>6, <1>7, Send DEF Good

-----------------------------------------------------------------------------
(* Messages                                                                *)

(* Removing a client leaves a nick with whoever else had it alone.         *)
LEMMA StillNoOther ==
  ASSUME NEW u, NEW S, NEW c, NEW n, NoOther(u, c, n)
  PROVE  NoOther(Without(u, S), c, n)
BY DEF NoOther, NoUser, Without

(* The one holder of a nick gone, nobody has it.                           *)
LEMMA HolderGone ==
  ASSUME NEW h, Good(h), NEW n, NEW x \in FindClient(h, n), NEW c
  PROVE  NoOther(Without(h.u, {x}), c, n)
BY DEF NoOther, NoUser, Without, Good, Unique, FindClient

(* A nick that nobody else has may be given to the client that asks.       *)
LEMMA AcceptGood ==
  ASSUME NEW h, Good(h), NEW p, NEW m, NoOther(h.u, m.c, m.nick)
  PROVE  Good(Accept(h, p, m)) /\ Accept(h, p, m).s = h.s
<1>1. CASE m.type # "N"
  BY <1>1, SetNickGood DEF Accept
<1>2. CASE m.type = "N"
  <2> DEFINE g == IF h.u[m.c].st = "none" THEN h ELSE exit_client(h, m.c, p)
             r == [st |-> "user", nick |-> m.nick, lastnick |-> m.lastnick, ident |-> m.ident]
             v == [g.u EXCEPT ![m.c] = r]
             f == [g EXCEPT !.u[m.c] = r]
  <2>1. Accept(h, p, m) = sendcmdto_serv_butone(f, p, N(m.c, r))
    BY <1>2 DEF Accept, Introduce
  <2>2. Good(g) /\ g.s = h.s /\ NoOther(g.u, m.c, m.nick)
    <3>1. /\ Good(exit_client(h, m.c, p))
          /\ exit_client(h, m.c, p).s = h.s
          /\ exit_client(h, m.c, p).u = Without(h.u, {m.c})
      BY ExitClient
    <3>2. NoOther(Without(h.u, {m.c}), m.c, m.nick)
      BY StillNoOther
    <3>3. g = h \/ g = exit_client(h, m.c, p)
      OBVIOUS
    <3> HIDE DEF g
    <3> QED
      BY <3>1, <3>2, <3>3
  <2>3. IsUser(r) /\ r.nick = m.nick
    BY DEF IsUser
  <2> HIDE DEF g, r
  <2>4. Table(v) /\ Unique(v)
    BY <2>2, <2>3, Put DEF Good
  <2>5. f = [g EXCEPT !.u = v]
    OBVIOUS
  <2> HIDE DEF v, f
  <2>6. Handler(f) /\ f.u = v /\ f.s = h.s
    <3>1. g = [s |-> g.s, u |-> g.u, out |-> g.out]
      BY <2>2 DEF Good, Handler
    <3>2. f = [s |-> g.s, u |-> v, out |-> g.out]
      BY <2>5, <3>1
    <3> QED
      BY <2>2, <3>2 DEF Handler
  <2> QED
    BY <2>1, <2>4, <2>6, Send DEF Good
<1> QED
  BY <1>1, <1>2

(* Refusing a nick at most takes its client out.                           *)
LEMMA RefuseGood ==
  ASSUME NEW h, Good(h), NEW p, NEW m
  PROVE  Good(Refuse(h, p, m)) /\ Refuse(h, p, m).s = h.s
<1>1. CASE m.type = "N"
  BY <1>1, Send DEF Refuse, Good
<1>2. CASE m.type # "N"
  BY <1>2, KilledClient DEF Refuse
<1> QED
  BY <1>1, <1>2

(* When the nick is given after a collision, its holder was killed first.  *)
LEMMA CollideGood ==
  ASSUME NEW h, Good(h), NEW p, NEW m, NEW x \in FindClient(h, m.nick)
  PROVE  Good(Collide(h, p, m, x)) /\ Collide(h, p, m, x).s = h.s
<1> DEFINE old == h.u[x].lastnick
           ident == IF m.type = "N" THEN m.ident ELSE h.u[m.c].ident
           loses == /\ From(h.s, x) # p
                    /\ NewLoses(h.u[x].ident # ident, m.lastnick, old)
           g == IF loses THEN Refuse(h, p, m) ELSE h
<1>1. Collide(h, p, m, x) = IF loses /\ m.lastnick # old THEN g
                            ELSE IF m.lastnick = old THEN Killed(g, x)
                            ELSE Accept(Killed(g, x), p, m)
  BY DEF Collide
<1>2. Good(g) /\ g.s = h.s
  BY RefuseGood
<1>3. Good(Killed(g, x)) /\ Killed(g, x).s = h.s
  BY <1>2, KilledClient
<1>4. ASSUME ~loses
      PROVE  Good(Accept(Killed(g, x), p, m)) /\ Accept(Killed(g, x), p, m).s = h.s
  <2>1. g = h
    BY <1>4
  <2>2. Killed(h, x).u = Without(h.u, {x})
    BY KilledClient
  <2>3. NoOther(Killed(h, x).u, m.c, m.nick)
    BY <2>2, HolderGone
  <2> QED
    BY <1>3, <2>1, <2>3, AcceptGood
<1> HIDE DEF g, loses
<1> QED
  BY <1>1, <1>2, <1>3, <1>4

(* A nick from another server ends with one holder or none.                *)
LEMMA NickGood ==
  ASSUME NEW h, Good(h), NEW p, NEW m
  PROVE  Good(ms_nick(h, p, m)) /\ ms_nick(h, p, m).s = h.s
<1> DEFINE holders == FindClient(h, m.nick)
           x == CHOOSE y \in holders : TRUE
<1>1. ms_nick(h, p, m) = IF holders = {} THEN Accept(h, p, m)
                         ELSE IF m.type = "NC" /\ x = m.c THEN h
                         ELSE IF IsUnknown(h, x) THEN Accept(exit_one_client(h, x), p, m)
                         ELSE Collide(h, p, m, x)
  BY DEF ms_nick
<1>2. holders # {} => x \in holders
  OBVIOUS
<1> HIDE DEF x
<1>3. CASE holders = {}
  <2>1. NoOther(h.u, m.c, m.nick)
    BY <1>3 DEF NoOther, FindClient
  <2> QED
    BY <1>1, <1>3, <2>1, AcceptGood
<1>4. CASE holders # {}
  <2>1. Good(exit_one_client(h, x)) /\ exit_one_client(h, x).s = h.s
        /\ NoOther(exit_one_client(h, x).u, m.c, m.nick)
    <3>1. NoOther(Without(h.u, {x}), m.c, m.nick)
      BY <1>2, <1>4, HolderGone
    <3> QED
      BY <3>1, ExitOne
  <2>2. Good(Accept(exit_one_client(h, x), p, m)) /\ Accept(exit_one_client(h, x), p, m).s = h.s
    BY <2>1, AcceptGood
  <2>3. Good(Collide(h, p, m, x)) /\ Collide(h, p, m, x).s = h.s
    BY <1>2, <1>4, CollideGood
  <2> QED
    BY <1>1, <1>4, <2>2, <2>3
<1> QED
  BY <1>3, <1>4

(* SVSNICK takes all holders of the nick out before it gives it away.      *)
LEMMA SvsnickGood ==
  ASSUME NEW h, Good(h), NEW p, NEW c, NEW n
  PROVE  Good(ms_svsnick(h, p, c, n)) /\ ms_svsnick(h, p, c, n).s = h.s
<1> DEFINE v == Without(h.u, FindClient(h, n))
           o == [t \in Servers |-> IF t \in conn[h.s] /\ h.s \in conn[t]
                    THEN h.out[t] \o SetToSeq({Q(x) : x \in
                            {y \in FindClient(h, n) : ~IsUnknown(h, y)}})
                    ELSE h.out[t]]
           g == [h EXCEPT !.u = v, !.out = o]
           k == SetNick(g, c, n, TStime(h.s), From(h.s, c))
<1>1. ms_svsnick(h, p, c, n) = IF h.u[c].st # "user" \/ h.u[c].nick = n THEN h
                               ELSE sendcmdto_serv_butone(k, p, SN(c, n))
  BY DEF ms_svsnick, Without
<1>2. h = [s |-> h.s, u |-> h.u, out |-> h.out] /\ Table(h.u) /\ Unique(h.u)
  BY DEF Good, Handler
<1>3. Table(v) /\ Unique(v)
  BY <1>2, RemoveClients
<1>4. NoOther(v, c, n)
  BY DEF NoOther, FindClient, NoUser, Without
<1> HIDE DEF v, o
<1>5. g = [s |-> h.s, u |-> v, out |-> o]
  <2> DEFINE q == [h EXCEPT !.u = v]
  <2>1. g = [q EXCEPT !.out = o]
    BY <1>2
  <2>2. q = [s |-> h.s, u |-> v, out |-> h.out]
    BY <1>2
  <2> HIDE DEF q, g
  <2> QED
    BY <2>1, <2>2
<1>6. Good(g) /\ g.s = h.s /\ g.u = v
  BY <1>3, <1>5 DEF Good, Handler
<1> HIDE DEF g
<1>7. Good(k) /\ k.s = h.s
  BY <1>4, <1>6, SetNickGood
<1> HIDE DEF k
<1> QED
  BY <1>1, <1>7, Send DEF Good

(* Every handler of a message keeps the nicks of its server unique.        *)
LEMMA HandleGood ==
  ASSUME NEW h, Good(h), NEW p, NEW m, m.type \in {"N", "NC", "Q", "D", "SN"}
  PROVE  Good(Handle(h, p, m)) /\ Handle(h, p, m).s = h.s
<1>1. CASE m.type = "N"
  BY <1>1, NickGood DEF Handle
<1>2. CASE m.type = "NC"
  <2>1. Good(UnknownPrefix(h, p, m)) /\ UnknownPrefix(h, p, m).s = h.s
    BY Send DEF UnknownPrefix, Good
  <2>2. Handle(h, p, m) = IF h.u[m.c].st # "user" THEN UnknownPrefix(h, p, m)
                          ELSE IF From(h.s, m.c) = p THEN ms_nick(h, p, m) ELSE h
    BY <1>2 DEF Handle
  <2> QED
    BY <2>1, <2>2, NickGood
<1>3. CASE m.type = "Q"
  <2>1. Handle(h, p, m) = IF h.u[m.c].st = "user" /\ From(h.s, m.c) = p
                          THEN exit_client(h, m.c, p) ELSE h
    BY <1>3 DEF Handle, ms_quit
  <2> QED
    <3>1. Good(exit_client(h, m.c, p)) /\ exit_client(h, m.c, p).s = h.s
      BY ExitClient
    <3> QED
      BY <2>1, <3>1
<1>4. CASE m.type = "D"
  <2> DEFINE g == IF Home[m.c] = h.s THEN sendcmdto_one(h, p, D(m.c)) ELSE h
             k == sendcmdto_serv_butone(g, p, D(m.c))
  <2>1. Handle(h, p, m) = IF h.u[m.c].st = "user" THEN exit_one_client(k, m.c) ELSE h
    BY <1>4 DEF Handle, ms_kill
  <2>2. Good(g) /\ g.s = h.s
    BY Send DEF Good
  <2> HIDE DEF g
  <2>3. Good(k) /\ k.s = h.s
    BY <2>2, Send DEF Good
  <2> HIDE DEF k
  <2> QED
    <3>1. Good(exit_one_client(k, m.c)) /\ exit_one_client(k, m.c).s = h.s
      BY <2>3, ExitOne
    <3> QED
      BY <2>1, <3>1
<1>5. CASE m.type = "SN"
  <2>1. Handle(h, p, m) = ms_svsnick(h, p, m.c, m.nick)
    BY <1>5 DEF Handle
  <2> QED
    BY <2>1, SvsnickGood
<1> QED
  BY <1>1, <1>2, <1>3, <1>4, <1>5

-----------------------------------------------------------------------------
(* Steps                                                                   *)

(* What a server knows at the start of a handler is right.                 *)
LEMMA StartGood ==
  ASSUME IInv, NEW s \in Servers
  PROVE  Good(Start(s)) /\ Start(s).s = s /\ Start(s).u = user[s]
BY DEF IInv, Good, Handler, Start

(* A step that puts a right table in place of one server's keeps IInv.     *)
LEMMA OneServer ==
  ASSUME IInv, NEW s, NEW u, Table(u), Unique(u), user' = [user EXCEPT ![s] = u]
  PROVE  IInv'
<1>1. user' = [t \in Servers |-> IF t = s THEN u ELSE user[t]]
  BY DEF IInv
<1>2. \A t \in Servers : Table(user'[t]) /\ Unique(user'[t])
  BY <1>1 DEF IInv
<1>3. user' = [t \in Servers |-> user'[t]]
  BY <1>1
<1> QED
  BY <1>2, <1>3 DEF IInv

(* A handler that ends right keeps IInv.                                   *)
LEMMA CommitInv ==
  ASSUME IInv, NEW h, Good(h), Commit(h)
  PROVE  IInv'
<1>1. user' = [user EXCEPT ![h.s] = h.u] /\ Table(h.u) /\ Unique(h.u)
  BY DEF Commit, Good
<1> DEFINE u == h.u
           s == h.s
<1> HIDE DEF u, s
<1>2. user' = [user EXCEPT ![s] = u] /\ Table(u) /\ Unique(u)
  BY <1>1 DEF u, s
<1> QED
  BY <1>2, OneServer

(* The unregistered holders of a nick are dropped: it is free.             *)
LEMMA OverriddenGood ==
  ASSUME NEW h, Good(h), NEW c, NEW n
  PROVE  LET g == Overridden(h, c, n)
         IN  Good(g) /\ g.s = h.s /\ NoOther(g.u, c, n)
<1> DEFINE v == Without(h.u, FindClient(h, n) \ {c})
           g == Overridden(h, c, n)
<1>1. Handler(h) /\ Table(h.u) /\ Unique(h.u)
  BY DEF Good
<1>2. Table(v) /\ Unique(v)
  BY <1>1, RemoveClients
<1>3. NoOther(v, c, n)
  BY DEF NoOther, FindClient, NoUser, Without
<1>4. g = [h EXCEPT !.u = v]
  BY DEF Overridden, Without
<1> HIDE DEF v
<1>5. h = [s |-> h.s, u |-> h.u, out |-> h.out]
  BY <1>1 DEF Handler
<1>6. g = [s |-> h.s, u |-> v, out |-> h.out]
  BY <1>4, <1>5
<1> HIDE DEF g
<1>7. Good(g) /\ g.s = h.s /\ NoOther(g.u, c, n)
  BY <1>2, <1>3, <1>6 DEF Good, Handler
<1> QED
  BY <1>7 DEF g

(* The first NICK of a connection                                          *)
LEMMA FirstNickInv ==
  ASSUME IInv, NEW c \in Clients, NEW n, NEW i, m_nick_first(c, n, i)
  PROVE  IInv'
<1> DEFINE h == Start(Home[c])
           g == Overridden(h, c, n)
           r == [st |-> "unknown", nick |-> n, lastnick |-> TStime(h.s), ident |-> i]
           v == [g.u EXCEPT ![c] = r]
           f == [g EXCEPT !.u[c] = r]
<1>1. Commit(f)
  BY DEF m_nick_first
<1>2. Home[c] \in Servers
  BY NickAssumption
<1>3. Good(h)
  BY <1>2, StartGood
<1> HIDE DEF h
<1>4. Good(g) /\ NoOther(g.u, c, n)
  BY <1>3, OverriddenGood
<1>5. IsUser(r) /\ r.nick = n
  BY DEF IsUser
<1> HIDE DEF g, r
<1>6. Table(v) /\ Unique(v)
  BY <1>4, <1>5, Put DEF Good
<1>7. g = [s |-> g.s, u |-> g.u, out |-> g.out]
  BY <1>4 DEF Good, Handler
<1>8. f = [s |-> g.s, u |-> v, out |-> g.out]
  BY <1>7
<1> HIDE DEF v, f
<1>9. Good(f)
  BY <1>6, <1>8 DEF Good, Handler
<1> QED
  BY <1>1, <1>9, CommitInv

(* Registration keeps the nick.                                            *)
LEMMA RegisterInv ==
  ASSUME IInv, NEW c \in Clients, register_user(c)
  PROVE  IInv'
<1> DEFINE h == Start(Home[c])
           e == h.u[c]
           r == [e EXCEPT !.st = "user"]
           v == [h.u EXCEPT ![c] = r]
           f == [h EXCEPT !.u[c].st = "user"]
           g == sendcmdto_serv_butone(f, h.s, N(c, e))
<1>1. e.st = "unknown" /\ Commit(g)
  BY DEF register_user
<1>2. Home[c] \in Servers
  BY NickAssumption
<1>3. Good(h)
  BY <1>2, StartGood
<1> HIDE DEF h
<1>4. h = [s |-> h.s, u |-> h.u, out |-> h.out] /\ Table(h.u) /\ Unique(h.u)
  BY <1>3 DEF Good, Handler
<1>5. f = [s |-> h.s, u |-> v, out |-> h.out]
  BY <1>4
<1>6. IsUser(e)
  BY <1>4 DEF Table
<1>7. NoOther(h.u, c, e.nick)
  BY <1>1, <1>4 DEF Unique, NoOther
<1> HIDE DEF e
<1>8. IsUser(r) /\ r.nick = e.nick
  <2>1. \E k, x, y, z : e = [st |-> k, nick |-> x, lastnick |-> y, ident |-> z]
    BY <1>6 DEF IsUser
  <2>2. PICK k, x, y, z : e = [st |-> k, nick |-> x, lastnick |-> y, ident |-> z]
    BY <2>1
  <2>3. r = [st |-> "user", nick |-> x, lastnick |-> y, ident |-> z]
    BY <2>2
  <2> QED
    BY <2>2, <2>3 DEF IsUser
<1> HIDE DEF r
<1>9. Table(v) /\ Unique(v)
  BY <1>4, <1>7, <1>8, Put
<1> HIDE DEF v, f
<1>10. Handler(f) /\ f.u = v
  BY <1>5 DEF Handler
<1>11. Handler(g) /\ g.u = v
  BY <1>10, Send
<1> HIDE DEF g
<1> QED
  BY <1>1, <1>9, <1>11, CommitInv DEF Good

(* A local nick change                                                     *)
LEMMA ChangeInv ==
  ASSUME IInv, NEW c \in Clients, NEW n, m_nick(c, n)
  PROVE  IInv'
<1> DEFINE h == Start(Home[c])
           g == Overridden(h, c, n)
<1>1. Commit(SetNick(g, c, n, TStime(h.s), h.s))
  BY DEF m_nick
<1>2. Home[c] \in Servers
  BY NickAssumption
<1>3. Good(h)
  BY <1>2, StartGood
<1> HIDE DEF h
<1>4. Good(g) /\ NoOther(g.u, c, n)
  BY <1>3, OverriddenGood
<1> HIDE DEF g
<1>5. Good(SetNick(g, c, n, TStime(h.s), h.s))
  BY <1>4, SetNickGood
<1> QED
  BY <1>1, <1>5, CommitInv

(* A QUIT, and a KILL by an operator                                       *)
LEMMA LeaveInv ==
  ASSUME IInv, NEW c \in Clients, NEW s \in Servers, m_quit(c) \/ mo_kill(s, c)
  PROVE  IInv'
<1>1. CASE m_quit(c)
  <2> DEFINE h == Start(Home[c])
  <2>1. Commit(exit_client(h, c, h.s))
    BY <1>1 DEF m_quit
  <2>2. Home[c] \in Servers
    BY NickAssumption
  <2>3. Good(h)
    BY <2>2, StartGood
  <2> HIDE DEF h
  <2>4. Good(exit_client(h, c, h.s))
    BY <2>3, ExitClient
  <2> QED
    BY <2>1, <2>4, CommitInv
<1>2. CASE mo_kill(s, c)
  <2> DEFINE h == Start(s)
  <2>1. Commit(exit_client(h, c, s)) \/ Commit(Killed(h, c))
    BY <1>2 DEF mo_kill
  <2>2. Good(h)
    BY StartGood
  <2> HIDE DEF h
  <2>3. Good(exit_client(h, c, s)) /\ Good(Killed(h, c))
    BY <2>2, ExitClient, KilledClient
  <2> QED
    BY <2>1, <2>3, CommitInv
<1> QED
  BY <1>1, <1>2

(* A message, and a nick forced by a service                               *)
LEMMA MessageInv ==
  ASSUME IInv, NEW p \in Servers, NEW s \in Servers, NEW c, NEW n,
         Receive(p, s) \/ Service(s, c, n)
  PROVE  IInv'
<1>1. Good(Start(s))
  BY StartGood
<1>2. CASE Receive(p, s)
  <2> DEFINE m == Head(chan[p][s])
             h == Handle(Start(s), p, m)
  <2>1. m.type \in {"N", "NC", "Q", "D", "SN"} /\ user' = [user EXCEPT ![s] = h.u]
    BY <1>2 DEF Receive
  <2> HIDE DEF m
  <2>2. Good(h)
    BY <1>1, <2>1, HandleGood
  <2> HIDE DEF h
  <2>3. Table(h.u) /\ Unique(h.u)
    BY <2>2 DEF Good
  <2> QED
    BY <2>1, <2>3, OneServer
<1>3. CASE Service(s, c, n)
  <2>1. Commit(ms_svsnick(Start(s), s, c, n))
    BY <1>3 DEF Service
  <2>2. Good(ms_svsnick(Start(s), s, c, n))
    BY <1>1, SvsnickGood
  <2> QED
    BY <2>1, <2>2, CommitInv
<1> QED
  BY <1>2, <1>3

(* A server that is lost takes its clients along.                          *)
LEMMA SquitGood ==
  ASSUME NEW h, Good(h), NEW t, NEW one
  PROVE  Table(Squit(h, t, one).u) /\ Unique(Squit(h, t, one).u)
<1> DEFINE S == {c \in Clients : Home[c] \in Gone(h.s, t)}
           v == Without(h.u, S)
           f == [h EXCEPT !.u = v]
<1>1. h = [s |-> h.s, u |-> h.u, out |-> h.out] /\ Table(h.u) /\ Unique(h.u)
  BY DEF Good, Handler
<1>2. Table(v) /\ Unique(v)
  BY <1>1, RemoveClients
<1>3. v = [c \in Clients |-> IF Home[c] \in Gone(h.s, t) THEN NoUser ELSE h.u[c]]
  BY DEF Without
<1>4. Squit(h, t, one) = sendcmdto_serv_butone(f, one, SQUIT(t))
  BY <1>3 DEF Squit
<1> HIDE DEF v
<1>5. f = [s |-> h.s, u |-> v, out |-> h.out]
  BY <1>1
<1> HIDE DEF f
<1>6. Handler(f) /\ f.u = v
  BY <1>5 DEF Handler
<1>7. Squit(h, t, one).u = v
  BY <1>4, <1>6, Send
<1> QED
  BY <1>2, <1>7

(* A link that breaks, here or elsewhere                                   *)
LEMMA SplitInv ==
  ASSUME IInv, NEW s \in Servers, NEW t \in Servers, Close(s, t) \/ ms_squit(t, s)
  PROVE  IInv'
<1>1. Good(Start(s))
  BY StartGood
<1>2. CASE Close(s, t)
  <2> DEFINE g == sendcmdto_one(Start(s), t, SQUIT(s))
  <2>1. user' = [user EXCEPT ![s] = Squit(g, t, t).u]
    BY <1>2 DEF Close
  <2>2. Good(g)
    BY <1>1, Send DEF Good
  <2> HIDE DEF g
  <2>3. Table(Squit(g, t, t).u) /\ Unique(Squit(g, t, t).u)
    BY <2>2, SquitGood
  <2> QED
    BY <2>1, <2>3, OneServer
<1>3. CASE ms_squit(t, s)
  <2> DEFINE x == Head(chan[t][s]).server
  <2>1. user' = [user EXCEPT ![s] = Squit(Start(s), x, t).u]
    BY <1>3 DEF ms_squit
  <2> HIDE DEF x
  <2>2. Table(Squit(Start(s), x, t).u) /\ Unique(Squit(Start(s), x, t).u)
    BY <1>1, SquitGood
  <2> QED
    BY <2>1, <2>2, OneServer
<1> QED
  BY <1>2, <1>3

(* A step without clients                                                  *)
LEMMA SameUsers == ASSUME IInv, user' = user PROVE IInv'
BY DEF IInv

(* No server starts with a client.                                         *)
LEMMA InitInv == Init => IInv
<1> SUFFICES ASSUME Init PROVE IInv
  OBVIOUS
<1>1. user = [s \in Servers |-> [c \in Clients |-> NoUser]]
  BY DEF Init
<1>2. IsUser(NoUser) /\ NoUser.st = "none"
  BY DEF IsUser, NoUser
<1>3. Table([c \in Clients |-> NoUser]) /\ Unique([c \in Clients |-> NoUser])
  BY <1>2 DEF Table, Unique
<1> QED
  BY <1>1, <1>3 DEF IInv

(* IInv is inductive.                                                      *)
LEMMA NextInv == IInv /\ [Next]_vars => IInv'
<1> SUFFICES ASSUME IInv, [Next]_vars PROVE IInv'
  OBVIOUS
<1>1. CASE \E c \in Clients, n \in Nicks, i \in Idents : m_nick_first(c, n, i)
  BY <1>1, FirstNickInv
<1>2. CASE \E c \in Clients : register_user(c)
  BY <1>2, RegisterInv
<1>3. CASE \E c \in Clients : m_quit(c)
  <2>1. PICK c \in Clients : m_quit(c)
    BY <1>3
  <2>2. Home[c] \in Servers
    BY NickAssumption
  <2> QED
    BY <2>1, <2>2, LeaveInv
<1>4. CASE \E c \in Clients, n \in Nicks : m_nick(c, n)
  BY <1>4, ChangeInv
<1>5. CASE \E s \in Servers, c \in Clients : mo_kill(s, c)
  BY <1>5, LeaveInv
<1>6. CASE \E s \in Servers, c \in Clients, n \in Nicks : Service(s, c, n)
  BY <1>6, MessageInv
<1>7. CASE \E p, s \in Servers : Receive(p, s)
  BY <1>7, MessageInv
<1>8. CASE \E s, t \in Servers : Close(s, t) \/ ms_squit(t, s)
  BY <1>8, SplitInv
<1>9. CASE (\E s, t \in Servers : server_estab(s, t)) \/ (\E p, s \in Servers : ms_server(p, s))
           \/ Tick \/ UNCHANGED vars
  <2>1. user' = user
    BY <1>9 DEF server_estab, ms_server, Tick, vars
  <2> QED
    BY <2>1, SameUsers
<1> QED
  BY <1>1, <1>2, <1>3, <1>4, <1>5, <1>6, <1>7, <1>8, <1>9 DEF Next

(* On no server do two clients ever hold one nick: FindClient has one      *)
(* answer at most, whatever nicks collide, kills cross, links break and    *)
(* services force.                                                         *)
THEOREM NicksUnique == Spec => []NickUnique
<1>1. IInv => NickUnique
  <2> SUFFICES ASSUME IInv, NEW s \in DOMAIN user, NEW c \in DOMAIN user[s], NEW d \in DOMAIN user[s],
                      c # d, user[s][c].st # "none", user[s][d].st # "none"
               PROVE  user[s][c].nick # user[s][d].nick
    BY DEF NickUnique
  <2>1. s \in Servers
    BY DEF IInv
  <2>2. Table(user[s]) /\ Unique(user[s])
    BY <2>1 DEF IInv
  <2>3. c \in Clients /\ d \in Clients
    BY <2>2 DEF Table
  <2> QED
    BY <2>2, <2>3 DEF Unique
<1> QED
  BY <1>1, InitInv, NextInv, PTL DEF Spec
=============================================================================
