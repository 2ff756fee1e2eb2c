---------------------------- MODULE GlineProofs ----------------------------
(***************************************************************************)
(* G-lines on any tree of servers, with any masks, clients and operators:  *)
(* who is banned is gone, no G-line goes back to an older version, and the *)
(* flooding of global changes implements LastWrite.                        *)
(***************************************************************************)
EXTENDS Gline

Record ==
    [local : BOOLEAN, active : BOOLEAN, ldeact : BOOLEAN, lastmod : Nat, expire : Int]

GLs ==
    [type : {"GL"}, mask : Masks, on : BOOLEAN, lastmod : Nat, ttl : Int,
     target : Servers \cup {"*"}]
Message == GLs \cup [type : {"RM"}, mask : Masks] \cup {EB, EA}

Tables == [Servers -> [Masks -> Record]]
Queues(M) == [Servers -> [Servers -> Seq(M)]]

Typed ==
    /\ table \in Tables
    /\ queue \in Queues(Message)
    /\ online \subseteq Users
    /\ now \in Nat
    /\ bound \in [ops : Nat, splits : Nat, stamp : Nat]

(* The G-line as a server tells it to another                              *)
Told(m, r) == GL(m, GlineIsRemActive(r), r.lastmod, r.expire - now)

-----------------------------------------------------------------------------
(* What is sent and read, for messages of any set M                        *)

(* What s sends to some of its neighbours is added to what they may read.  *)
LEMMA ToServersIn ==
  ASSUME NEW M, NEW q \in Queues(M), NEW s \in Servers, NEW one, NEW msg \in M
  PROVE  ToServers(q, s, one, msg) \in Queues(M)
BY DEF ToServers, Queues

(* The same for one neighbour.                                             *)
LEMMA ToOneIn ==
  ASSUME NEW M, NEW q \in Queues(M), NEW s \in Servers, NEW t \in Servers, NEW msg \in M
  PROVE  ToOne(q, s, t, msg) \in Queues(M)
BY DEF ToOne, Queues

(* A message that is read was sent.                                        *)
LEMMA ReadIn ==
  ASSUME NEW M, NEW q \in Queues(M), NEW s \in Servers, NEW t \in Servers, q[t][s] # <<>>
  PROVE  /\ Head(q[t][s]) \in M
         /\ [q EXCEPT ![t][s] = Tail(@)] \in Queues(M)
<1>1. q[t][s] \in Seq(M)
  BY DEF Queues
<1>2. Head(q[t][s]) \in M /\ Tail(q[t][s]) \in Seq(M)
  BY <1>1
<1> QED
  BY <1>2 DEF Queues

(* A G-line of global scope is told to the neighbours.                     *)
LEMMA PropagateIn ==
  ASSUME NEW M, NEW q \in Queues(M), NEW s \in Servers, NEW one, NEW m, NEW r,
         ~r.local => Told(m, r) \in M
  PROVE  gline_propagate(q, s, one, m, r) \in Queues(M)
BY ToServersIn DEF gline_propagate, Told

(* A newer G-line is told to the neighbour that has an older one.          *)
LEMMA ResendIn ==
  ASSUME NEW M, NEW q \in Queues(M), NEW s \in Servers, NEW t \in Servers, NEW m, NEW r,
         ~r.local /\ r.lastmod # 0 => Told(m, r) \in M
  PROVE  gline_resend(q, s, t, m, r) \in Queues(M)
BY ToOneIn DEF gline_resend, Told

(* What a server bursts are G-lines it has, as it has them.                *)
LEMMA BurstIn ==
  ASSUME NEW M, NEW s \in Servers, EB \in M,
         \A m \in Masks : LET r == table[s][m] IN
            Present(r) /\ ~r.local /\ r.lastmod # 0 => Told(m, r) \in M
  PROVE  gline_burst(s) \o <<EB>> \in Seq(M)
<1> DEFINE Sent(m) == LET r == table[s][m] IN Present(r) /\ ~r.local /\ r.lastmod # 0
           C  == {m \in Masks : ~Sent(m)}
           ms == Drop(ListOrder, C)
           b  == [i \in 1 .. Len(ms) |-> Told(ms[i], table[s][ms[i]])]
<1>1. ms \in Seq(Masks) /\ Elements(ms) = Elements(ListOrder) \ C
  BY DropOK, GlineAssumption
<1>2. gline_burst(s) = b
  BY DEF gline_burst, Told
<1> HIDE DEF ms
<1>3. Len(ms) \in Nat /\ \A i \in 1 .. Len(ms) : ms[i] \in Masks /\ Sent(ms[i])
  <2>1. Len(ms) \in Nat /\ \A i \in 1 .. Len(ms) : ms[i] \in Masks /\ ms[i] \in Elements(ms)
    BY <1>1, LenProperties, ElementOfSeq DEF Elements
  <2> QED
    BY <1>1, <2>1
<1>4. \A i \in 1 .. Len(ms) : b[i] \in M
  BY <1>3
<1>5. b \in Seq(M)
  BY <1>3, <1>4
<1> HIDE DEF b
<1> QED
  BY <1>2, <1>5

-----------------------------------------------------------------------------
(* What a change does to the G-lines of the server that makes it           *)

Banning(r) == Present(r) /\ GlineIsActive(r)

Forward(a, b) ==
    Present(a) /\ Present(b) /\ ~a.local /\ ~b.local =>
        /\ b.lastmod >= a.lastmod
        /\ ~(b.active <=> a.active) /\ a.lastmod # 0 => b.lastmod > a.lastmod

(* The clients that m matches on s have left.                              *)
Left(s, m, on) == \A u \in on : ~(Home[u] = s /\ m \in Matched[u])

Effect(s, w) ==
    /\ table' \in Tables
    /\ \A x \in Servers : x # s => table'[x] = table[x]
    /\ \A m \in Masks : m # w /\ m \notin Narrower[w] => table'[s][m] = table[s][m]
    /\ \A m \in Masks : Forward(table[s][m], table'[s][m])
    /\ online' \subseteq online
    /\ \A m \in Masks :
          Banning(table'[s][m]) => Banning(table[s][m]) \/ Left(s, m, online')

Activated(r, lastmod, loc) ==
    IF loc THEN [r EXCEPT !.ldeact = FALSE]
    ELSE [r EXCEPT !.active = TRUE, !.lastmod = Bump(@, lastmod)]

Deactivated(r, lastmod, loc) ==
    IF loc THEN [r EXCEPT !.ldeact = TRUE]
    ELSE [r EXCEPT !.active = FALSE, !.lastmod = Bump(@, lastmod)]

(* A later version of a G-line is later than the one it replaces.          *)
LEMMA BumpUp ==
  ASSUME NEW old \in Nat, NEW lastmod \in Nat
  PROVE  LET b == Bump(old, lastmod)
         IN  b \in Nat /\ b >= old /\ (old # 0 => b > old) /\ (old = 0 => b = 0)
                       /\ (old # 0 /\ old < lastmod => b = lastmod)
BY DEF Bump

(* A record with another state and version keeps the rest.                 *)
LEMMA Changed ==
  ASSUME NEW r \in Record, NEW on \in BOOLEAN, NEW l \in Nat
  PROVE  LET n == [r EXCEPT !.active = on, !.lastmod = l]
         IN  /\ n \in Record /\ n.expire = r.expire
             /\ n.local <=> r.local
             /\ n.ldeact <=> r.ldeact
             /\ n.active <=> on
             /\ n.lastmod = l
<1> DEFINE f == [r EXCEPT !.active = on]
           g == [f EXCEPT !.lastmod = l]
           n == [r EXCEPT !.active = on, !.lastmod = l]
<1>1. n = g
  BY DEF Record
<1>2. /\ f \in Record /\ f.expire = r.expire
      /\ f.local <=> r.local
      /\ f.ldeact <=> r.ldeact
      /\ f.active <=> on
  BY DEF Record
<1> HIDE DEF f
<1>3. /\ g \in Record /\ g.expire = f.expire
      /\ g.local <=> f.local
      /\ g.ldeact <=> f.ldeact
      /\ g.active <=> f.active
      /\ g.lastmod = l
  BY <1>2 DEF Record
<1> HIDE DEF g, n
<1>4. /\ n \in Record /\ n.expire = r.expire
      /\ n.local <=> r.local
      /\ n.ldeact <=> r.ldeact
      /\ n.active <=> on
      /\ n.lastmod = l
  BY <1>1, <1>2, <1>3
<1> QED
  BY <1>4 DEF n

(* A local change keeps all but the local state.                           *)
LEMMA ChangedHere ==
  ASSUME NEW r \in Record, NEW off \in BOOLEAN
  PROVE  LET n == [r EXCEPT !.ldeact = off]
         IN  /\ n \in Record /\ n.expire = r.expire
             /\ n.local <=> r.local
             /\ n.active <=> r.active
             /\ n.ldeact <=> off
             /\ n.lastmod = r.lastmod
BY DEF Record

(* gline_activate leaves a G-line that is on, with a later version.        *)
LEMMA ActivatedOK ==
  ASSUME NEW r \in Record, NEW lastmod \in Nat, NEW loc \in BOOLEAN
  PROVE  LET n == Activated(r, lastmod, loc)
         IN  /\ n \in Record /\ n.expire = r.expire
             /\ n.local <=> r.local
             /\ n.lastmod = IF loc THEN r.lastmod ELSE Bump(r.lastmod, lastmod)
             /\ n.active <=> r.active \/ ~loc
             /\ n.ldeact <=> r.ldeact /\ ~loc
             /\ Forward(r, n)
             /\ Banning(r) => Banning(n)
<1> DEFINE n == Activated(r, lastmod, loc)
           b == Bump(r.lastmod, lastmod)
<1>1. r.lastmod \in Nat /\ r.active \in BOOLEAN /\ r.ldeact \in BOOLEAN
  BY DEF Record
<1>2. b \in Nat /\ b >= r.lastmod /\ (r.lastmod # 0 => b > r.lastmod)
  BY <1>1, BumpUp
<1> HIDE DEF b
<1>3. CASE loc
  <2>1. n = [r EXCEPT !.ldeact = FALSE]
    BY <1>3 DEF Activated
  <2> HIDE DEF n
  <2>2. /\ n \in Record /\ n.expire = r.expire
        /\ n.local <=> r.local
        /\ n.active <=> r.active
        /\ ~n.ldeact
        /\ n.lastmod = r.lastmod
    BY <2>1, ChangedHere
  <2>3. Forward(r, n) /\ (Banning(r) => Banning(n))
    BY <2>2, <1>1 DEF Forward, Banning, Present, GlineIsActive
  <2> QED
    BY <1>3, <2>2, <2>3 DEF n
<1>4. CASE ~loc
  <2>1. n = [r EXCEPT !.active = TRUE, !.lastmod = b]
    BY <1>4 DEF Activated, b
  <2> HIDE DEF n
  <2>2. /\ n \in Record /\ n.expire = r.expire
        /\ n.local <=> r.local
        /\ n.ldeact <=> r.ldeact
        /\ n.active
        /\ n.lastmod = b
    BY <2>1, <1>2, Changed
  <2>3. Forward(r, n) /\ (Banning(r) => Banning(n))
    BY <2>2, <1>1, <1>2 DEF Forward, Banning, Present, GlineIsActive
  <2> QED
    BY <1>4, <2>2, <2>3 DEF n, b
<1> QED
  BY <1>3, <1>4

(* gline_deactivate leaves one that is off, with a later version.          *)
LEMMA DeactivatedOK ==
  ASSUME NEW r \in Record, NEW lastmod \in Nat, NEW loc \in BOOLEAN
  PROVE  LET n == Deactivated(r, lastmod, loc)
         IN  /\ n \in Record /\ n.expire = r.expire
             /\ n.local <=> r.local
             /\ n.lastmod = IF loc THEN r.lastmod ELSE Bump(r.lastmod, lastmod)
             /\ n.active <=> r.active /\ loc
             /\ n.ldeact <=> r.ldeact \/ loc
             /\ Forward(r, n)
             /\ ~GlineIsActive(n)
<1> DEFINE n == Deactivated(r, lastmod, loc)
           b == Bump(r.lastmod, lastmod)
<1>1. r.lastmod \in Nat /\ r.active \in BOOLEAN /\ r.ldeact \in BOOLEAN
  BY DEF Record
<1>2. b \in Nat /\ b >= r.lastmod /\ (r.lastmod # 0 => b > r.lastmod)
  BY <1>1, BumpUp
<1> HIDE DEF b
<1>3. CASE loc
  <2>1. n = [r EXCEPT !.ldeact = TRUE]
    BY <1>3 DEF Deactivated
  <2> HIDE DEF n
  <2>2. /\ n \in Record /\ n.expire = r.expire
        /\ n.local <=> r.local
        /\ n.active <=> r.active
        /\ n.ldeact
        /\ n.lastmod = r.lastmod
    BY <2>1, ChangedHere
  <2>3. Forward(r, n) /\ ~GlineIsActive(n)
    BY <2>2, <1>1 DEF Forward, Present, GlineIsActive
  <2> QED
    BY <1>3, <2>2, <2>3 DEF n
<1>4. CASE ~loc
  <2>1. n = [r EXCEPT !.active = FALSE, !.lastmod = b]
    BY <1>4 DEF Deactivated, b
  <2> HIDE DEF n
  <2>2. /\ n \in Record /\ n.expire = r.expire
        /\ n.local <=> r.local
        /\ n.ldeact <=> r.ldeact
        /\ ~n.active
        /\ n.lastmod = b
    BY <2>1, <1>2, Changed
  <2>3. Forward(r, n) /\ ~GlineIsActive(n)
    BY <2>2, <1>1, <1>2 DEF Forward, Present, GlineIsActive
  <2> QED
    BY <1>4, <2>2, <2>3 DEF n, b
<1> QED
  BY <1>3, <1>4

(* One record changes.                                                     *)
LEMMA OneRecord ==
  ASSUME Typed, NEW s \in Servers, NEW m \in Masks, NEW n \in Record,
         table' = [table EXCEPT ![s][m] = n],
         Forward(table[s][m], n), online' \subseteq online,
         Banning(n) => Banning(table[s][m]) \/ Left(s, m, online')
  PROVE  Effect(s, m)
<1>1. table \in Tables
  BY DEF Typed
<1>2. table' \in Tables /\ (\A x \in Servers : x # s => table'[x] = table[x])
  BY <1>1 DEF Tables
<1>3. \A v \in Masks : table'[s][v] = IF v = m THEN n ELSE table[s][v]
  BY <1>1 DEF Tables
<1>4. \A v \in Masks : table[s][v].lastmod \in Nat
  BY <1>1 DEF Tables, Record
<1>5. \A v \in Masks : Forward(table[s][v], table'[s][v])
  BY <1>3, <1>4 DEF Forward
<1>6. \A v \in Masks : Banning(table'[s][v]) => Banning(table[s][v]) \/ Left(s, v, online')
  BY <1>3
<1> QED
  BY <1>2, <1>3, <1>5, <1>6 DEF Effect

(* Whom do_gline throws out                                                *)
LEMMA DoGline ==
  ASSUME NEW s, NEW m, NEW n, online' = do_gline(s, m, n)
  PROVE  online' \subseteq online /\ (Banning(n) => Left(s, m, online'))
BY DEF do_gline, Banning, Left

(* gline_activate                                                          *)
LEMMA Activate ==
  ASSUME Typed, NEW s \in Servers, NEW m \in Masks, NEW M, NEW q \in Queues(M), NEW one,
         NEW lastmod \in Nat, NEW loc \in BOOLEAN,
         ~loc /\ ~table[s][m].local => Told(m, Activated(table[s][m], lastmod, loc)) \in M,
         gline_activate(q, s, one, m, lastmod, loc)
  PROVE  /\ Effect(s, m) /\ queue' \in Queues(M)
         /\ table' = [table EXCEPT ![s][m] = Activated(table[s][m], lastmod, loc)]
<1> DEFINE r == table[s][m]
           n == Activated(r, lastmod, loc)
<1>1. r \in Record
  BY DEF Typed, Tables
<1>2. /\ table' = [table EXCEPT ![s][m] = n]
      /\ IF GlineIsActive(r)
         THEN queue' = q /\ UNCHANGED online
         ELSE /\ queue' = IF loc THEN q ELSE gline_propagate(q, s, one, m, n)
              /\ online' = do_gline(s, m, n)
  BY DEF gline_activate, Activated
<1>3. ~loc /\ ~r.local => Told(m, n) \in M
  OBVIOUS
<1> HIDE DEF r
<1>4. /\ n \in Record /\ n.expire = r.expire
      /\ n.local <=> r.local
      /\ Forward(r, n)
  BY <1>1, ActivatedOK
<1> HIDE DEF n
<1>5. queue' \in Queues(M)
  BY <1>2, <1>3, <1>4, PropagateIn
<1>6. online' \subseteq online /\ (Banning(n) => Banning(r) \/ Left(s, m, online'))
  BY <1>2, <1>4, DoGline DEF Banning, Present
<1>7. Effect(s, m)
  BY <1>2, <1>4, <1>6, OneRecord DEF r
<1> QED
  BY <1>2, <1>5, <1>7 DEF n, r

(* A free record bans nobody and has no version.                           *)
LEMMA Free ==
  /\ NoGline \in Record /\ ~GlineIsActive(NoGline) /\ NoGline.lastmod = 0
  /\ ~NoGline.local /\ ~NoGline.active /\ ~NoGline.ldeact
  /\ now \in Nat => ~Present(NoGline)
BY DEF NoGline, Record, GlineIsActive, Present

(* gline_deactivate                                                        *)
LEMMA Deactivate ==
  ASSUME Typed, NEW s \in Servers, NEW m \in Masks, NEW M, NEW q \in Queues(M), NEW one,
         NEW lastmod \in Nat, NEW loc \in BOOLEAN,
         ~loc /\ ~table[s][m].local => Told(m, Deactivated(table[s][m], lastmod, loc)) \in M,
         gline_deactivate(q, s, one, m, lastmod, loc)
  PROVE  /\ Effect(s, m) /\ queue' \in Queues(M)
         /\ ~table[s][m].local /\ (table[s][m].lastmod # 0 \/ loc) =>
               table' = [table EXCEPT ![s][m] = Deactivated(table[s][m], lastmod, loc)]
<1> DEFINE r == table[s][m]
           n == Deactivated(r, lastmod, loc)
           removed == r.local \/ (r.lastmod = 0 /\ ~loc)
           x == IF removed THEN NoGline ELSE n
<1>1. r \in Record /\ now \in Nat
  BY DEF Typed, Tables
<1>2. /\ table' = [table EXCEPT ![s][m] = x]
      /\ queue' = IF loc \/ (~removed /\ ~GlineIsActive(r)) THEN q
                  ELSE gline_propagate(q, s, one, m, n)
      /\ UNCHANGED online
  BY DEF gline_deactivate, Deactivated
<1>3. ~loc /\ ~r.local => Told(m, n) \in M
  OBVIOUS
<1> HIDE DEF r
<1>4. /\ n \in Record /\ n.expire = r.expire
      /\ n.local <=> r.local
      /\ Forward(r, n)
      /\ ~GlineIsActive(n)
  BY <1>1, DeactivatedOK
<1> HIDE DEF n
<1>5. queue' \in Queues(M)
  BY <1>2, <1>3, <1>4, PropagateIn
<1>6. x \in Record /\ Forward(r, x) /\ ~Banning(x)
  BY <1>1, <1>4, Free DEF Forward, Banning
<1>7. x = IF removed THEN NoGline ELSE n
  OBVIOUS
<1> HIDE DEF x
<1>8. Effect(s, m)
  BY <1>2, <1>6, OneRecord DEF r
<1> QED
  BY <1>2, <1>5, <1>7, <1>8 DEF n, r

(* gline_remove                                                            *)
LEMMA Remove ==
  ASSUME Typed, NEW s \in Servers, NEW m \in Masks, NEW M, NEW q \in Queues(M), NEW one,
         RM(m) \in M, gline_remove(q, s, one, m)
  PROVE  Effect(s, m) /\ queue' \in Queues(M)
<1>1. queue' \in Queues(M)
  BY ToServersIn DEF gline_remove
<1>2. NoGline \in Record /\ Forward(table[s][m], NoGline) /\ ~Banning(NoGline)
  BY Free DEF Typed, Forward, Banning
<1>3. table' = [table EXCEPT ![s][m] = NoGline] /\ online' \subseteq online
  BY DEF gline_remove
<1> QED
  BY <1>1, <1>2, <1>3, OneRecord

(* gline_add: the G-line, which is free, of local scope or expired, is     *)
(* replaced, and those that it contains may be freed.                      *)
New(on, ttl, lastmod, loc) ==
    [local |-> loc, active |-> on, ldeact |-> FALSE, lastmod |-> lastmod, expire |-> now + ttl]

LEMMA Add ==
  ASSUME Typed, NEW s \in Servers, NEW m \in Masks, NEW M, NEW q \in Queues(M), NEW one,
         NEW on \in BOOLEAN, NEW ttl \in Int, NEW lastmod \in Nat, NEW loc \in BOOLEAN,
         ~Present(table[s][m]) \/ table[s][m].local,
         ~loc => GL(m, on, lastmod, ttl) \in M,
         gline_add(q, s, one, m, on, ttl, lastmod, loc)
  PROVE  /\ Effect(s, m) /\ queue' \in Queues(M)
         /\ table' = [table EXCEPT ![s] = make_gline(s, m, New(on, ttl, lastmod, loc))]
<1> DEFINE r == table[s][m]
           n == New(on, ttl, lastmod, loc)
           row == make_gline(s, m, n)
<1>1. /\ table' = [table EXCEPT ![s] = row]
      /\ IF Outlived(s, m, n)
         THEN queue' = q /\ UNCHANGED online
         ELSE /\ queue' = gline_propagate(q, s, one, m, n)
              /\ online' = do_gline(s, m, n)
  BY DEF gline_add, New
<1>2. /\ n \in Record /\ n.expire - now = ttl
      /\ n.local <=> loc
      /\ n.active <=> on
      /\ n.lastmod = lastmod
  BY DEF New, Record, Typed
<1>3. Told(m, n) = GL(m, on, lastmod, ttl)
  <2>1. n.active = on /\ n.lastmod = lastmod /\ n.expire - now = ttl
    BY <1>2 DEF New
  <2> QED
    BY <2>1 DEF Told, GlineIsRemActive
<1>4. table \in Tables /\ now \in Nat
  BY DEF Typed
<1>5. \A v \in Masks : row[v] = IF v = m THEN IF Outlived(s, m, n) THEN NoGline ELSE n
                                ELSE IF /\ v \in Narrower[m] /\ ~Outlived(s, m, n)
                                        /\ table[s][v].local = n.local
                                        /\ table[s][v].expire <= n.expire
                                     THEN NoGline ELSE table[s][v]
  BY DEF make_gline
<1>6. row \in [Masks -> Record]
  <2>1. row = [v \in Masks |-> row[v]]
    BY DEF make_gline
  <2>2. \A v \in Masks : row[v] \in Record
    BY <1>2, <1>4, <1>5, Free DEF Tables
  <2> HIDE DEF row
  <2> QED
    BY <2>1, <2>2
<1> HIDE DEF n, row
<1>7. queue' \in Queues(M)
  <2>1. CASE Outlived(s, m, n)
    BY <1>1, <2>1
  <2>2. CASE ~Outlived(s, m, n)
    <3>1. queue' = gline_propagate(q, s, one, m, n)
      BY <1>1, <2>2
    <3> QED
      BY <3>1, <1>2, <1>3, PropagateIn
  <2> QED
    BY <2>1, <2>2
<1>8. online' \subseteq online /\ (~Outlived(s, m, n) /\ Banning(n) => Left(s, m, online'))
  BY <1>1, DoGline
<1>9. /\ table' \in Tables
      /\ \A x \in Servers : x # s => table'[x] = table[x]
      /\ table'[s] = row
  BY <1>1, <1>4, <1>6 DEF Tables
<1>10. \A v \in Masks : row[v] = NoGline \/ (v # m /\ row[v] = table[s][v])
                        \/ (v = m /\ row[v] = n /\ ~Outlived(s, m, n))
  BY <1>5
<1>11. \A v \in Masks : Forward(table[s][v], row[v])
  <2> TAKE v \in Masks
  <2>1. table[s][v].lastmod \in Nat
    BY <1>4 DEF Tables, Record
  <2> QED
    BY <1>4, <1>10, <2>1, Free DEF Forward
<1>12. \A v \in Masks : Banning(row[v]) => Banning(table[s][v]) \/ Left(s, v, online')
  BY <1>8, <1>10, Free DEF Banning
<1>13. \A v \in Masks : v # m /\ v \notin Narrower[m] => row[v] = table[s][v]
  BY <1>5
<1>14. Effect(s, m)
  BY <1>8, <1>9, <1>11, <1>12, <1>13 DEF Effect
<1> QED
  BY <1>1, <1>7, <1>14 DEF n, row

(* Nothing changes but what is under way.                                  *)
LEMMA NoEffect ==
  ASSUME Typed, NEW s \in Servers, NEW w, UNCHANGED <<table, online>>
  PROVE  Effect(s, w)
<1>1. table \in Tables /\ table' = table /\ online' = online
  BY DEF Typed
<1>2. \A m \in Masks : table[s][m].lastmod \in Nat
  BY <1>1 DEF Tables, Record
<1>3. \A m \in Masks : Forward(table[s][m], table'[s][m])
  BY <1>1, <1>2 DEF Forward
<1> QED
  BY <1>1, <1>3 DEF Effect

(* What a server tells of a record is a message.                           *)
LEMMA ToldOK ==
  ASSUME NEW m \in Masks, NEW r \in Record, now \in Nat
  PROVE  Told(m, r) \in GLs /\ Told(m, r).mask = m
BY DEF Told, GL, GLs, Record, GlineIsRemActive

(* It is one of M if those about the mask are.                             *)
LEMMA ToldIn ==
  ASSUME NEW m \in Masks, NEW r \in Record, now \in Nat, NEW M,
         \A x \in GLs : x.mask = m => x \in M
  PROVE  Told(m, r) \in M
BY ToldOK

-----------------------------------------------------------------------------
(* The handlers                                                            *)

(* The time that ms_gline goes by                                          *)
Lastmod(msg) == IF msg.lastmod = 0 /\ LastmodTweak THEN now ELSE msg.lastmod

(* The lifetime that it reads: "* -mask" has none.                         *)
Ttl(msg) == IF msg.lastmod = 0 /\ ~msg.on THEN 0 ELSE msg.ttl

(* ms_gline, case by case                                                  *)
LEMMA MsGlineCases ==
  ASSUME NEW q, NEW s, NEW t, NEW msg, ms_gline(q, s, t, msg)
  PROVE  LET m == msg.mask
             r == table[s][m]
             loc == msg.target = s
             l == Lastmod(msg)
             Same == UNCHANGED <<table, online>>
         IN  \/ /\ msg.target \notin {s, "*"}
                /\ queue' = IF Route[s][msg.target] \in Neighbours(s)
                            THEN ToOne(q, s, Route[s][msg.target], msg) ELSE q
                /\ Same
             \/ /\ msg.target \in {s, "*"} /\ ~Present(r) /\ msg.lastmod = 0
                /\ queue' = IF loc THEN q ELSE ToServers(q, s, t, msg)
                /\ Same
             \/ /\ msg.target \in {s, "*"} /\ (~Present(r) \/ (r.local /\ ~loc))
                /\ gline_add(q, s, t, m, msg.on, Ttl(msg), l, loc)
             \/ /\ msg.target \in {s, "*"} /\ Present(r) /\ l = 0
                /\ queue' = gline_propagate(q, s, t, m, r) /\ Same
             \/ /\ msg.target \in {s, "*"} /\ Present(r) /\ (l = 0 \/ r.lastmod < l)
                /\ \/ msg.on /\ gline_activate(q, s, t, m, l, loc)
                   \/ ~msg.on /\ gline_deactivate(q, s, t, m, l, loc)
             \/ queue' = q /\ Same
             \/ /\ msg.target \in {s, "*"} /\ Present(r)
                /\ queue' = gline_resend(q, s, t, m, r) /\ Same
BY DEF ms_gline, Lastmod, Ttl

(* ms_gline has the effect of a change on the server that reads.           *)
LEMMA MsGlineOK ==
  ASSUME Typed, NEW s \in Servers, NEW t \in Servers, NEW M, NEW q \in Queues(M), NEW msg \in GLs,
         \A x \in GLs : x.mask = msg.mask => x \in M,
         ms_gline(q, s, t, msg)
  PROVE  Effect(s, msg.mask) /\ queue' \in Queues(M)
<1> DEFINE m == msg.mask
           r == table[s][m]
           loc == msg.target = s
           l == Lastmod(msg)
           Same == UNCHANGED <<table, online>>
<1>1. /\ m \in Masks /\ msg.on \in BOOLEAN /\ msg.lastmod \in Nat /\ msg.ttl \in Int
      /\ msg.target \in Servers \cup {"*"} /\ msg \in M
  BY DEF GLs
<1>2. l \in Nat /\ loc \in BOOLEAN /\ Ttl(msg) \in Int
  BY <1>1 DEF Lastmod, Ttl, Typed
<1>3. r \in Record /\ now \in Nat
  BY <1>1 DEF Typed, Tables
<1>4. Told(m, r) \in M
  BY <1>1, <1>3, ToldIn
<1>5. Told(m, Activated(r, l, loc)) \in M
  <2>1. Activated(r, l, loc) \in Record
    BY <1>2, <1>3, ActivatedOK
  <2> QED
    BY <1>1, <1>3, <2>1, ToldIn
<1>6. Told(m, Deactivated(r, l, loc)) \in M
  <2>1. Deactivated(r, l, loc) \in Record
    BY <1>2, <1>3, DeactivatedOK
  <2> QED
    BY <1>1, <1>3, <2>1, ToldIn
<1>7. GL(m, msg.on, l, Ttl(msg)) \in M
  <2>1. GL(m, msg.on, l, Ttl(msg)) \in GLs /\ GL(m, msg.on, l, Ttl(msg)).mask = m
    BY <1>1, <1>2 DEF GL, GLs
  <2> QED
    BY <2>1
<1> SUFFICES Effect(s, m) /\ queue' \in Queues(M)
  OBVIOUS
<1> HIDE DEF m, l, loc
<1>8. ASSUME Same, queue' \in Queues(M) PROVE Effect(s, m) /\ queue' \in Queues(M)
  BY <1>8, NoEffect
<1>9. CASE /\ msg.target \notin {s, "*"}
           /\ queue' = IF Route[s][msg.target] \in Neighbours(s)
                       THEN ToOne(q, s, Route[s][msg.target], msg) ELSE q
           /\ Same
  <2>1. Route[s][msg.target] \in Servers
    BY <1>1, <1>9, GlineAssumption
  <2>2. ToOne(q, s, Route[s][msg.target], msg) \in Queues(M)
    BY <1>1, <2>1, ToOneIn
  <2> QED
    BY <1>8, <1>9, <2>2
<1>10. CASE queue' = (IF loc THEN q ELSE ToServers(q, s, t, msg)) /\ Same
  BY <1>1, <1>8, <1>10, ToServersIn
<1>11. CASE /\ ~Present(r) \/ r.local
            /\ gline_add(q, s, t, m, msg.on, Ttl(msg), l, loc)
  BY <1>1, <1>2, <1>7, <1>11, Add
<1>12. CASE queue' = gline_propagate(q, s, t, m, r) /\ Same
  BY <1>4, <1>8, <1>12, PropagateIn
<1>13. CASE gline_activate(q, s, t, m, l, loc)
  <2>1. m \in Masks /\ l \in Nat /\ loc \in BOOLEAN
    BY <1>1, <1>2
  <2> QED
    BY <1>5, <1>13, <2>1, Activate
<1>14. CASE gline_deactivate(q, s, t, m, l, loc)
  <2>1. m \in Masks /\ l \in Nat /\ loc \in BOOLEAN
    BY <1>1, <1>2
  <2> QED
    BY <1>6, <1>14, <2>1, Deactivate
<1>15. CASE queue' = q /\ Same
  BY <1>8, <1>15
<1>16. CASE queue' = gline_resend(q, s, t, m, r) /\ Same
  BY <1>4, <1>8, <1>16, ResendIn
<1>17. \/ /\ msg.target \notin {s, "*"}
          /\ queue' = IF Route[s][msg.target] \in Neighbours(s)
                      THEN ToOne(q, s, Route[s][msg.target], msg) ELSE q
          /\ Same
       \/ queue' = (IF loc THEN q ELSE ToServers(q, s, t, msg)) /\ Same
       \/ /\ ~Present(r) \/ r.local
          /\ gline_add(q, s, t, m, msg.on, Ttl(msg), l, loc)
       \/ queue' = gline_propagate(q, s, t, m, r) /\ Same
       \/ gline_activate(q, s, t, m, l, loc)
       \/ gline_deactivate(q, s, t, m, l, loc)
       \/ queue' = q /\ Same
       \/ queue' = gline_resend(q, s, t, m, r) /\ Same
  BY MsGlineCases DEF m, l, loc
<1> QED
  BY <1>9, <1>10, <1>11, <1>12, <1>13, <1>14, <1>15, <1>16, <1>17

(* A G-line of an operator: mo_gline changes the server it is given on.    *)
LEMMA MoGlineOK ==
  ASSUME Typed, NEW s \in Servers, NEW m \in Masks, NEW on \in BOOLEAN, NEW loc \in BOOLEAN,
         NEW M, queue \in Queues(M), \A x \in GLs : x.mask = m => x \in M,
         mo_gline(s, m, on, loc)
  PROVE  Effect(s, m) /\ queue' \in Queues(M)
<1> DEFINE r == table[s][m]
           keep  == Present(r) /\ (r.local => loc)
           loc2  == loc \/ r.lastmod = 0
           stamp == IF r.lastmod = 0 THEN 0 ELSE now
<1>1. IF keep
      THEN IF on THEN gline_activate(queue, s, s, m, stamp, loc2)
                 ELSE gline_deactivate(queue, s, s, m, stamp, loc2)
      ELSE gline_add(queue, s, s, m, on, Lifetime, now, loc)
  BY DEF mo_gline
<1>2. /\ r \in Record /\ now \in Nat /\ stamp \in Nat /\ loc2 \in BOOLEAN
      /\ queue \in Queues(M) /\ Lifetime \in Int
  BY GlineAssumption DEF Typed, Tables
<1> HIDE DEF loc2, stamp
<1>3. CASE keep /\ on
  <2>1. Told(m, Activated(r, stamp, loc2)) \in M
    BY <1>2, ActivatedOK, ToldIn
  <2>2. gline_activate(queue, s, s, m, stamp, loc2)
    BY <1>1, <1>3
  <2>3. stamp \in Nat /\ loc2 \in BOOLEAN /\ queue \in Queues(M)
    BY <1>2
  <2> QED
    BY <2>1, <2>2, <2>3, Activate
<1>4. CASE keep /\ ~on
  <2>1. Told(m, Deactivated(r, stamp, loc2)) \in M
    BY <1>2, DeactivatedOK, ToldIn
  <2>2. gline_deactivate(queue, s, s, m, stamp, loc2)
    BY <1>1, <1>4
  <2>3. stamp \in Nat /\ loc2 \in BOOLEAN /\ queue \in Queues(M)
    BY <1>2
  <2> QED
    BY <2>1, <2>2, <2>3, Deactivate
<1>5. CASE ~keep
  <2>1. ~Present(r) \/ r.local
    BY <1>5
  <2>2. GL(m, on, now, Lifetime) \in M
    <3>1. GL(m, on, now, Lifetime) \in GLs /\ GL(m, on, now, Lifetime).mask = m
      BY <1>2 DEF GL, GLs
    <3> QED
      BY <3>1
  <2> QED
    BY <1>1, <1>2, <1>5, <2>1, <2>2, Add
<1> QED
  BY <1>3, <1>4, <1>5

-----------------------------------------------------------------------------
(* Steps                                                                   *)

(* A change on a server bans nobody who stays, and is forward.             *)
LEMMA FromEffect ==
  ASSUME Typed, GlinedGone, NEW s \in Servers, NEW w, Effect(s, w), now' = now
  PROVE  table' \in Tables /\ online' \subseteq Users /\ GlinedGone' /\ LastmodForward
<1>1. table' \in Tables /\ online' \subseteq online /\ online \subseteq Users /\ table \in Tables
  BY DEF Effect, Typed
<1>2. ASSUME NEW u \in online', NEW m \in Matched[u]
      PROVE  ~Banning(table'[Home[u]][m])
  <2>1. Home[u] \in Servers /\ m \in Masks
    BY <1>1, GlineAssumption
  <2>2. ~Banning(table[Home[u]][m])
    BY <1>1 DEF GlinedGone, gline_lookup, Banning
  <2>3. CASE Home[u] # s
    BY <2>1, <2>2, <2>3 DEF Effect
  <2>4. CASE Home[u] = s
    BY <2>1, <2>2, <2>4 DEF Effect, Left
  <2> QED
    BY <2>3, <2>4
<1>3. GlinedGone'
  BY <1>2 DEF GlinedGone, gline_lookup, Banning, Present
<1>4. ASSUME NEW x \in Servers, NEW m \in Masks
      PROVE  Forward(table[x][m], table'[x][m])
  <2>1. CASE x = s
    BY <2>1 DEF Effect
  <2>2. CASE x # s
    <3>1. table'[x] = table[x] /\ table[x][m].lastmod \in Nat
      BY <1>1, <2>2 DEF Effect, Tables, Record
    <3> QED
      BY <3>1 DEF Forward
  <2> QED
    BY <2>1, <2>2
<1>5. ASSUME NEW x \in Servers, NEW m \in Masks
      PROVE  /\ table[x][m].active \in BOOLEAN
             /\ table'[x][m].active \in BOOLEAN
  BY <1>1 DEF Tables, Record
<1>6. LastmodForward
  <2> SUFFICES ASSUME NEW x \in Servers, NEW m \in Masks,
                      Present(table[x][m]), table'[x][m].expire > now',
                      ~table[x][m].local, ~table'[x][m].local
               PROVE  /\ table'[x][m].lastmod >= table[x][m].lastmod
                      /\ table'[x][m].active # table[x][m].active /\ table[x][m].lastmod # 0
                         => table'[x][m].lastmod > table[x][m].lastmod
    BY DEF LastmodForward
  <2> QED
    BY <1>4, <1>5 DEF Forward, Present
<1> QED
  BY <1>1, <1>3, <1>6

(* Reading a message                                                       *)
LEMMA ReceiveOK ==
  ASSUME Typed, NEW s \in Servers, NEW t \in Servers, Receive(t, s)
  PROVE  (\E w : Effect(s, w)) /\ queue' \in Queues(Message) /\ now' = now /\ bound' = bound
<1> DEFINE msg == Head(queue[t][s])
           q   == [queue EXCEPT ![t][s] = Tail(@)]
<1>1. queue \in Queues(Message) /\ queue[t][s] # <<>> /\ now' = now /\ bound' = bound
  BY DEF Typed, Receive
<1>2. msg \in Message /\ q \in Queues(Message)
  BY <1>1, ReadIn
<1>3. /\ msg.type \in {"GL", "RM", "EB", "EA"}
      /\ msg.type = "GL" => msg \in GLs
      /\ msg.type = "RM" => msg.mask \in Masks
  BY <1>2 DEF Message, GLs, EB, EA
<1>4. \/ msg.type = "GL" /\ ms_gline(q, s, t, msg)
      \/ msg.type = "RM" /\ gline_remove(q, s, t, msg.mask)
      \/ queue' = ToOne(q, s, t, EA) /\ UNCHANGED <<table, online>>
      \/ queue' = q /\ UNCHANGED <<table, online>>
  BY <1>3 DEF Receive
<1> HIDE DEF msg, q
<1>5. CASE msg.type = "GL" /\ ms_gline(q, s, t, msg)
  <2>1. \A x \in GLs : x.mask = msg.mask => x \in Message
    BY DEF Message
  <2> QED
    BY <1>1, <1>2, <1>3, <1>5, <2>1, MsGlineOK
<1>6. CASE msg.type = "RM" /\ gline_remove(q, s, t, msg.mask)
  <2>1. RM(msg.mask) \in Message
    BY <1>3, <1>6 DEF RM, Message
  <2> QED
    BY <1>1, <1>2, <1>3, <1>6, <2>1, Remove
<1>7. CASE queue' = ToOne(q, s, t, EA) /\ UNCHANGED <<table, online>>
  <2>1. EA \in Message
    BY DEF Message
  <2> QED
    BY <1>1, <1>2, <1>7, <2>1, ToOneIn, NoEffect
<1>8. CASE queue' = q /\ UNCHANGED <<table, online>>
  BY <1>1, <1>2, <1>8, NoEffect
<1> QED
  BY <1>4, <1>5, <1>6, <1>7, <1>8

IInv == Typed /\ GlinedGone

(* Every step keeps the invariant and is forward.                          *)
LEMMA StepOK ==
  ASSUME IInv, Next
  PROVE  IInv' /\ LastmodForward
<1> USE DEF IInv
<1>1. ASSUME NEW s \in Servers, NEW w, Effect(s, w), queue' \in Queues(Message), now' = now,
             bound' \in [ops : Nat, splits : Nat, stamp : Nat]
      PROVE  IInv' /\ LastmodForward
  BY <1>1, FromEffect DEF Typed
<1>2. /\ now \in Nat /\ queue \in Queues(Message)
      /\ bound.ops \in Nat /\ bound.splits \in Nat /\ bound.stamp \in Nat
      /\ bound \in [ops : Nat, splits : Nat, stamp : Nat]
  BY DEF Typed
<1>3. /\ [bound EXCEPT !.ops = @ + 1] \in [ops : Nat, splits : Nat, stamp : Nat]
      /\ [bound EXCEPT !.splits = @ + 1] \in [ops : Nat, splits : Nat, stamp : Nat]
      /\ [bound EXCEPT !.ops = @ + 1, !.stamp = now] \in [ops : Nat, splits : Nat, stamp : Nat]
  <2> DEFINE f == [bound EXCEPT !.ops = @ + 1]
  <2>1. f \in [ops : Nat, splits : Nat, stamp : Nat]
    BY <1>2
  <2>2. [bound EXCEPT !.splits = @ + 1] \in [ops : Nat, splits : Nat, stamp : Nat]
    BY <1>2
  <2>3. [bound EXCEPT !.ops = @ + 1, !.stamp = now] = [f EXCEPT !.stamp = now]
    BY <1>2
  <2> HIDE DEF f
  <2>4. [f EXCEPT !.stamp = now] \in [ops : Nat, splits : Nat, stamp : Nat]
    BY <1>2, <2>1
  <2> QED
    BY <2>1, <2>2, <2>3, <2>4 DEF f
<1>4. ASSUME NEW s \in Servers, NEW m \in Masks, NEW on \in BOOLEAN, NEW loc \in BOOLEAN,
             mo_gline(s, m, on, loc)
      PROVE  IInv' /\ LastmodForward
  <2>1. Effect(s, m) /\ queue' \in Queues(Message)
    BY <1>2, <1>4, MoGlineOK DEF Message
  <2>2. now' = now /\ bound' = [bound EXCEPT !.ops = @ + 1, !.stamp = now]
    BY <1>4 DEF mo_gline
  <2> QED
    BY <1>1, <1>3, <2>1, <2>2
<1>5. ASSUME NEW s \in Servers, NEW t \in Servers, NEW m \in Masks, NEW on \in BOOLEAN,
             mo_gline_remote(s, t, m, on)
      PROVE  IInv' /\ LastmodForward
  <2> DEFINE msg == [GL(m, on, now, Lifetime) EXCEPT !.target = t]
  <2>1. msg \in Message
    <3>1. \A g \in GLs : [g EXCEPT !.target = t] \in GLs
      BY DEF GLs
    <3>2. GL(m, on, now, Lifetime) \in GLs
      BY <1>2, GlineAssumption DEF GL, GLs
    <3> QED
      BY <3>1, <3>2 DEF Message
  <2>2. /\ queue' = ToOne(queue, s, Route[s][t], msg)
        /\ now' = now /\ bound' = [bound EXCEPT !.ops = @ + 1, !.stamp = now]
        /\ UNCHANGED <<table, online>>
    BY <1>5 DEF mo_gline_remote
  <2> HIDE DEF msg
  <2>3. Route[s][t] \in Servers
    BY GlineAssumption
  <2>4. Effect(s, m) /\ queue' \in Queues(Message)
    BY <1>2, <2>1, <2>2, <2>3, ToOneIn, NoEffect
  <2> QED
    BY <1>1, <1>3, <2>2, <2>4
<1>6. ASSUME NEW s \in Servers, NEW m \in Masks, NEW on \in BOOLEAN, UworldGline(s, m, on)
      PROVE  IInv' /\ LastmodForward
  <2> DEFINE msg == GL(m, on, 0, IF on THEN Lifetime ELSE 0)
  <2>1. msg \in GLs
    BY <1>2, GlineAssumption DEF GL, GLs
  <2>2. /\ ms_gline(queue, s, s, msg)
        /\ now' = now /\ bound' = [bound EXCEPT !.ops = @ + 1]
    BY <1>6 DEF UworldGline
  <2> HIDE DEF msg
  <2>3. \A x \in GLs : x.mask = msg.mask => x \in Message
    BY DEF Message
  <2>4. Effect(s, msg.mask) /\ queue' \in Queues(Message)
    BY <1>2, <2>1, <2>2, <2>3, MsGlineOK
  <2> QED
    BY <1>1, <1>3, <2>2, <2>4
<1>7. ASSUME NEW s \in Servers, NEW m \in Masks, mo_remove(s, m)
      PROVE  IInv' /\ LastmodForward
  <2>1. /\ gline_remove(queue, s, s, m)
        /\ now' = now /\ bound' = [bound EXCEPT !.ops = @ + 1]
    BY <1>7 DEF mo_remove
  <2>2. RM(m) \in Message
    BY DEF RM, Message
  <2>3. Effect(s, m) /\ queue' \in Queues(Message)
    BY <1>2, <2>1, <2>2, Remove
  <2> QED
    BY <1>1, <1>3, <2>1, <2>3
<1>8. ASSUME NEW s \in Servers, NEW t \in Servers, Receive(t, s)
      PROVE  IInv' /\ LastmodForward
  BY <1>1, <1>2, <1>8, ReceiveOK
<1>9. ASSUME queue' \in Queues(Message), UNCHANGED <<table, online, now>>,
             bound' \in [ops : Nat, splits : Nat, stamp : Nat]
      PROVE  IInv' /\ LastmodForward
  <2>1. CASE Servers = {}
    BY <1>9, <2>1 DEF Typed, GlinedGone, gline_lookup, Present, LastmodForward
  <2>2. CASE Servers # {}
    <3>1. PICK s \in Servers : TRUE
      BY <2>2
    <3>2. Effect(s, {})
      BY <1>9, <3>1, NoEffect
    <3> QED
      BY <1>1, <1>9, <3>2
  <2> QED
    BY <2>1, <2>2
<1>10. ASSUME NEW e \in Edges, Split(e)
       PROVE  IInv' /\ LastmodForward
  <2>1. queue' \in Queues(Message)
    BY <1>2, <1>10 DEF Split, Queues
  <2>2. UNCHANGED <<table, online, now>> /\ bound' = [bound EXCEPT !.splits = @ + 1]
    BY <1>10 DEF Split
  <2> QED
    BY <1>3, <1>9, <2>1, <2>2
<1>11. ASSUME NEW e \in Edges, Relink(e)
       PROVE  IInv' /\ LastmodForward
  <2>1. ASSUME NEW s \in Servers PROVE gline_burst(s) \o <<EB>> \in Seq(Message)
    <3>1. EB \in Message
      BY DEF Message
    <3>2. \A m \in Masks : Told(m, table[s][m]) \in Message
      BY <1>2, ToldOK DEF Typed, Tables, Message
    <3> QED
      BY <3>1, <3>2, BurstIn
  <2>2. queue' \in Queues(Message)
    BY <1>2, <1>11, <2>1 DEF Relink, Queues
  <2>3. UNCHANGED <<table, online, now, bound>>
    BY <1>11 DEF Relink
  <2> QED
    BY <1>2, <1>9, <2>2, <2>3
<1>12. ASSUME NEW u \in Users, Connect(u)
       PROVE  IInv' /\ LastmodForward
  <2>1. IInv'
    BY <1>12 DEF Connect, Typed, GlinedGone, gline_lookup, Present
  <2>2. table' = table /\ now' = now
    BY <1>12 DEF Connect
  <2>3. \A s \in Servers, m \in Masks : table[s][m].lastmod \in Nat
    BY DEF Typed, Tables, Record
  <2>4. LastmodForward
    BY <2>2, <2>3 DEF LastmodForward
  <2> QED
    BY <2>1, <2>4
<1>13. ASSUME Tick
       PROVE  IInv' /\ LastmodForward
  <2>1. now' = now + 1 /\ UNCHANGED <<queue, online, bound>>
    BY <1>13 DEF Tick
  <2>2. \A s \in Servers, m \in Masks : table[s][m] \in Record
    BY DEF Typed, Tables
  <2>3. \A s \in Servers, m \in Masks :
           table'[s][m] = IF table[s][m].expire <= now + 1 THEN NoGline ELSE table[s][m]
    BY <1>13, <2>1 DEF Tick
  <2>4. table' \in Tables
    BY <1>13, <2>2, Free DEF Tick, Tables
  <2>5. LastmodForward
    <3> SUFFICES ASSUME NEW s \in Servers, NEW m \in Masks, table'[s][m].expire > now'
                 PROVE  table'[s][m] = table[s][m]
      BY <2>2 DEF LastmodForward, Record
    <3> QED
      BY <1>2, <2>1, <2>3 DEF NoGline
  <2>6. GlinedGone'
    <3> SUFFICES ASSUME NEW u \in online, NEW m \in Matched[u],
                        table'[Home[u]][m].expire > now', GlineIsActive(table'[Home[u]][m])
                 PROVE  FALSE
      BY <2>1 DEF GlinedGone, gline_lookup, Present
    <3>1. Home[u] \in Servers /\ m \in Masks
      BY GlineAssumption DEF Typed
    <3>2. table'[Home[u]][m] = table[Home[u]][m]
      BY <1>2, <2>1, <2>3, <3>1 DEF NoGline
    <3>3. table[Home[u]][m].expire \in Int
      BY <2>2, <3>1 DEF Record
    <3>4. Present(table[Home[u]][m]) /\ GlineIsActive(table[Home[u]][m])
      BY <1>2, <2>1, <3>2, <3>3 DEF Present
    <3> QED
      BY <3>4 DEF GlinedGone, gline_lookup
  <2> QED
    BY <1>2, <2>1, <2>4, <2>5, <2>6 DEF Typed
<1> QED
  BY <1>4, <1>5, <1>6, <1>7, <1>8, <1>10, <1>11, <1>12, <1>13 DEF Next, Read

(* IInv is an invariant.                                                   *)
LEMMA IInvHolds == Spec => []IInv
<1>1. Init => IInv
  <2> SUFFICES ASSUME Init PROVE IInv
    OBVIOUS
  <2>1. table \in Tables
    BY Free DEF Init, Tables
  <2>2. queue \in Queues(Message)
    BY DEF Init, Queues
  <2> QED
    BY <2>1, <2>2 DEF Init, IInv, Typed, GlinedGone
<1>2. IInv /\ [Next]_vars => IInv'
  <2>1. ASSUME IInv, UNCHANGED vars PROVE IInv'
    BY <2>1 DEF IInv, Typed, GlinedGone, gline_lookup, Present, vars
  <2> QED
    BY <2>1, StepOK
<1> QED
  BY <1>1, <1>2, PTL DEF Spec

(* A client that an active G-line matches is gone, on any network and      *)
(* whoever made the G-line active: an operator here or elsewhere, Uworld,  *)
(* a burst, a wider G-line or a local reactivation (do_gline and           *)
(* gline_lookup together leave nobody).                                    *)
THEOREM GlinedGoneHolds == Spec => []GlinedGone
<1>1. IInv => GlinedGone
  BY DEF IInv
<1> QED
  BY <1>1, IInvHolds, PTL

(* "modification time that must be monotonically increasing": whatever is  *)
(* read, relayed, resent, burst or asked for in the same second, a G-line  *)
(* that stays on a server goes to later versions only, and is not switched *)
(* without one.                                                            *)
THEOREM LastmodMonotonicHolds == Spec => LastmodMonotonic
<1>1. IInv /\ [Next]_vars => [LastmodForward]_vars
  BY StepOK
<1> QED
  BY <1>1, IInvHolds, PTL DEF Spec, LastmodMonotonic

-----------------------------------------------------------------------------
(* Global changes of one G-line implement LastWrite.                       *)

(* Nothing but global changes, in different seconds, is asked for, and no  *)
(* wider G-line or expiry interferes.                                      *)
GlobalChanges ==
    /\ Mask \in Masks /\ \A w \in Masks : Mask \notin Narrower[w]
    /\ Servers # {} /\ Uworld = {}
    /\ ~LocalScope /\ ~Removals /\ ~SameSecond
    /\ 0 < MaxTime /\ MaxTime < Lifetime

(* The messages that may be under way at a time, when the last change was  *)
(* made at st and the versions of the G-line are in K                      *)
Fit(at, st, K) ==
    {x \in Message :
        /\ x.type # "RM"
        /\ About(x) => /\ x.target = "*"
                       /\ x.lastmod \in 1 .. st
                       /\ at + x.ttl > MaxTime
                       /\ Version(x.lastmod, x.on) \in K}

Kept(r, st) ==
    r = NoGline \/ (~r.local /\ ~r.ldeact /\ r.lastmod \in 1 .. st /\ r.expire > MaxTime)

(* The invariant of the refinement                                         *)
RInv ==
    /\ now \in 1 .. MaxTime /\ bound.stamp <= now
    /\ \A s \in Servers : Kept(table[s][Mask], bound.stamp)
    /\ queue \in Queues(Fit(now, bound.stamp, Versions))

(* A sequence whose elements are of a set                                  *)
LEMMA SeqIn ==
  ASSUME NEW A, NEW B, NEW f \in Seq(A), \A i \in 1 .. Len(f) : f[i] \in B
  PROVE  f \in Seq(B)
BY LenProperties, SeqDef

(* The versions under way are those that messages fit.                     *)
LEMMA VersionsIn ==
  ASSUME NEW at, NEW st, NEW K, NEW c, NEW q \in Queues(Fit(at, st, K)),
         \A s \in Servers : c[s] \in K
  PROVE  /\ VersionsOf(c, q) \subseteq K
         /\ q \in Queues(Fit(at, st, VersionsOf(c, q)))
<1> DEFINE V == VersionsOf(c, q)
<1>1. ASSUME NEW s \in Servers, NEW t \in Servers
      PROVE  /\ q[s][t] \in Seq(Fit(at, st, K))
             /\ \A i \in 1 .. Len(q[s][t]) :
                   q[s][t][i] \in Fit(at, st, K) /\ q[s][t][i] \in OnWay(q)
  <2>1. q[s][t] \in Seq(Fit(at, st, K))
    BY DEF Queues
  <2>2. \A i \in 1 .. Len(q[s][t]) : q[s][t][i] \in Fit(at, st, K)
    BY <2>1, ElementOfSeq
  <2>3. \A i \in 1 .. Len(q[s][t]) : q[s][t][i] \in OnWay(q)
    <3>1. \A i \in 1 .. Len(q[s][t]) : q[s][t][i] \in Elements(q[s][t])
      BY DEF Elements
    <3>2. Elements(q[s][t]) \subseteq OnWay(q)
      BY DEF OnWay
    <3> QED
      BY <3>1, <3>2
  <2> QED
    BY <2>1, <2>2, <2>3
<1>2. \A x \in OnWay(q) : x \in Fit(at, st, K)
  BY <1>1 DEF OnWay, Elements
<1>3. V \subseteq K
  BY <1>2 DEF VersionsOf, Fit
<1>4. \A x \in OnWay(q) : x \in Fit(at, st, V)
  BY <1>2 DEF VersionsOf, Fit
<1> HIDE DEF V
<1>5. ASSUME NEW s \in Servers, NEW t \in Servers
      PROVE  q[s][t] \in Seq(Fit(at, st, V))
  BY <1>1, <1>4, SeqIn
<1>6. q \in Queues(Fit(at, st, V))
  BY <1>5 DEF Queues
<1> QED
  BY <1>3, <1>6 DEF V

(* Queues of messages of a larger set                                      *)
LEMMA QueuesMore ==
  ASSUME NEW A, NEW B, A \subseteq B, NEW q \in Queues(A)
  PROVE  q \in Queues(B)
<1>1. ASSUME NEW s \in Servers, NEW t \in Servers PROVE q[s][t] \in Seq(B)
  <2>1. q[s][t] \in Seq(A)
    BY DEF Queues
  <2> QED
    BY <2>1, SeqIn, ElementOfSeq
<1> QED
  BY <1>1 DEF Queues

(* What fits goes on to fit.                                               *)
LEMMA FitMore ==
  ASSUME NEW at \in Nat, NEW at2 \in Nat, at <= at2, NEW st \in Nat, NEW st2 \in Nat, st <= st2,
         NEW K, NEW K2, K \subseteq K2
  PROVE  Fit(at, st, K) \subseteq Fit(at2, st2, K2)
<1> SUFFICES ASSUME NEW x \in Fit(at, st, K) PROVE x \in Fit(at2, st2, K2)
  OBVIOUS
<1>1. x \in Message /\ x.type # "RM"
  BY DEF Fit
<1>2. CASE About(x)
  <2>1. x \in GLs
    BY <1>1, <1>2 DEF About, Message, GLs, EB, EA
  <2>2. x.ttl \in Int /\ x.lastmod \in Nat /\ MaxTime \in Nat
    BY <2>1, GlineAssumption DEF GLs
  <2>3. /\ x.target = "*" /\ x.lastmod \in 1 .. st /\ at + x.ttl > MaxTime
        /\ Version(x.lastmod, x.on) \in K
    BY <1>2 DEF Fit
  <2>4. at2 + x.ttl > MaxTime /\ x.lastmod \in 1 .. st2
    BY <2>2, <2>3
  <2> QED
    BY <1>1, <2>3, <2>4 DEF Fit
<1>3. CASE ~About(x)
  BY <1>1, <1>3 DEF Fit
<1> QED
  BY <1>2, <1>3

(* A G-line that is told fits.                                             *)
LEMMA ToldFit ==
  ASSUME NEW r \in Record, NEW st, NEW K, Mask \in Masks, now \in Nat,
         r.lastmod \in 1 .. st, r.expire > MaxTime, VersionOf(r) \in K
  PROVE  Told(Mask, r) \in Fit(now, st, K)
<1> DEFINE x == Told(Mask, r)
<1>1. x \in Message
  BY ToldOK DEF Message
<1>2. /\ x.type = "GL" /\ x.target = "*" /\ x.lastmod = r.lastmod /\ x.on = r.active
      /\ x.ttl = r.expire - now
  BY DEF Told, GL, GlineIsRemActive
<1>3. r.expire \in Int /\ MaxTime \in Nat
  BY GlineAssumption DEF Record
<1>4. now + x.ttl > MaxTime
  BY <1>2, <1>3
<1> HIDE DEF x
<1> QED
  BY <1>1, <1>2, <1>4 DEF Fit, x, VersionOf

(* What is not about the G-line fits.                                      *)
LEMMA OthersFit ==
  ASSUME NEW at, NEW st, NEW K, NEW w, w # Mask
  PROVE  \A x \in GLs : x.mask = w => x \in Fit(at, st, K)
BY DEF Fit, GLs, Message, About

(* A step after which every server has the G-line as before, and nothing   *)
(* new is told of it.                                                      *)
LEMMA QuietStep ==
  ASSUME GlobalChanges, IInv, IInv', RInv,
         \A s \in Servers : table'[s][Mask] = table[s][Mask],
         queue' \in Queues(Fit(now, bound.stamp, Versions)),
         now' \in now .. MaxTime, bound'.stamp \in bound.stamp .. now'
  PROVE  RInv' /\ Entry!Next
<1> DEFINE V == Versions
           F2 == Fit(now', bound'.stamp, V)
<1>1. /\ now \in Nat /\ now' \in Nat /\ now <= now' /\ now' \in 1 .. MaxTime
      /\ bound.stamp \in Nat /\ bound'.stamp \in Nat /\ bound.stamp <= bound'.stamp
      /\ bound'.stamp <= now'
  BY GlineAssumption DEF IInv, Typed, RInv
<1>2. Copies' = Copies
  BY DEF Copies
<1>3. queue' \in Queues(F2)
  <2>1. Fit(now, bound.stamp, V) \subseteq F2
    BY <1>1, FitMore
  <2> QED
    BY <2>1, QueuesMore
<1>4. \A s \in Servers : Copies'[s] \in V
  BY <1>2 DEF Versions, VersionsOf
<1>5. /\ Versions' = VersionsOf(Copies', queue')
      /\ VersionsOf(Copies', queue') \subseteq V
      /\ queue' \in Queues(Fit(now', bound'.stamp, VersionsOf(Copies', queue')))
  <2>1. Versions' = VersionsOf(Copies', queue')
    BY DEF Versions
  <2> HIDE DEF V
  <2>2. /\ VersionsOf(Copies', queue') \subseteq V
        /\ queue' \in Queues(Fit(now', bound'.stamp, VersionsOf(Copies', queue')))
    BY <1>3, <1>4, VersionsIn
  <2> QED
    BY <2>1, <2>2
<1>6. \A s \in Servers : Kept(table'[s][Mask], bound'.stamp)
  <2> TAKE s \in Servers
  <2>1. Kept(table[s][Mask], bound.stamp) /\ table'[s][Mask] = table[s][Mask]
    BY DEF RInv
  <2> QED
    BY <1>1, <2>1 DEF Kept
<1>7. RInv'
  BY <1>1, <1>5, <1>6 DEF RInv
<1>8. Entry!Held'
  BY <1>5 DEF Entry!Held, VersionsOf
<1>9. Entry!Forget
  BY <1>2, <1>5 DEF Entry!Forget
<1> QED
  BY <1>7, <1>8, <1>9 DEF Entry!Next

(* A step after which server s has another version of the G-line, of which *)
(* it may tell.                                                            *)
LEMMA NewVersion ==
  ASSUME GlobalChanges, IInv, IInv', RInv, NEW s \in Servers, NEW n \in Record, NEW st \in Nat,
         \A x \in Servers : table'[x][Mask] = IF x = s THEN n ELSE table[x][Mask],
         queue' \in Queues(Fit(now, st, Versions \cup {VersionOf(n)})),
         now' = now, bound'.stamp = st, st \in bound.stamp .. now,
         Kept(n, st)
  PROVE  /\ RInv' /\ Entry!Held'
         /\ Copies' = [Copies EXCEPT ![s] = VersionOf(n)]
         /\ VersionOf(n) \in Versions'
         /\ Versions' \subseteq Versions \cup {VersionOf(n)}
<1> DEFINE K == Versions \cup {VersionOf(n)}
<1>1. now \in Nat /\ now \in 1 .. MaxTime /\ bound.stamp \in Nat
  BY DEF IInv, Typed, RInv
<1>2. Copies' = [Copies EXCEPT ![s] = VersionOf(n)]
  BY DEF Copies
<1>3. \A x \in Servers : Copies'[x] \in K
  BY <1>2 DEF Copies, Versions, VersionsOf
<1>4. Copies'[s] = VersionOf(n)
  BY <1>2 DEF Copies
<1>5. Versions' = VersionsOf(Copies', queue')
  BY DEF Versions
<1> HIDE DEF K
<1>6. /\ VersionsOf(Copies', queue') \subseteq K
      /\ queue' \in Queues(Fit(now, st, VersionsOf(Copies', queue')))
  BY <1>3, VersionsIn DEF K
<1>7. \A x \in Servers : Kept(table'[x][Mask], st)
  <2> TAKE x \in Servers
  <2>1. Kept(table[x][Mask], bound.stamp)
    BY DEF RInv
  <2> QED
    BY <1>1, <2>1 DEF Kept
<1>8. RInv'
  BY <1>1, <1>5, <1>6, <1>7 DEF RInv
<1>9. Entry!Held'
  BY <1>5 DEF Entry!Held, VersionsOf
<1> QED
  BY <1>2, <1>4, <1>5, <1>6, <1>8, <1>9 DEF VersionsOf, K

(* All versions are of the time of the last change or earlier.             *)
LEMMA VersionsOld ==
  ASSUME GlobalChanges, IInv, RInv, NEW v \in Versions
  PROVE  v.at \in Nat /\ v.at <= bound.stamp
<1>1. bound.stamp \in Nat
  BY DEF IInv, Typed
<1>2. CASE \E s \in Servers : v = Copies[s]
  <2>1. PICK s \in Servers : v = VersionOf(table[s][Mask])
    BY <1>2 DEF Copies
  <2>2. Kept(table[s][Mask], bound.stamp)
    BY DEF RInv
  <2>3. table[s][Mask].lastmod \in Nat /\ table[s][Mask].lastmod <= bound.stamp
    BY <1>1, <2>2, Free DEF Kept
  <2> QED
    BY <2>1, <2>3 DEF VersionOf, Version
<1>3. CASE \E x \in OnWay(queue) : About(x) /\ v = Version(x.lastmod, x.on)
  <2>1. PICK x \in OnWay(queue) : About(x) /\ v = Version(x.lastmod, x.on)
    BY <1>3
  <2>2. PICK s \in Servers, t \in Servers : x \in Elements(queue[s][t])
    BY <2>1 DEF OnWay
  <2>3. PICK i \in 1 .. Len(queue[s][t]) : x = queue[s][t][i]
    BY <2>2 DEF Elements
  <2>4. queue[s][t] \in Seq(Fit(now, bound.stamp, Versions))
    BY DEF RInv, Queues
  <2>5. x \in Fit(now, bound.stamp, Versions)
    BY <2>3, <2>4, ElementOfSeq
  <2>6. x.lastmod \in 1 .. bound.stamp
    BY <2>1, <2>5 DEF Fit
  <2> QED
    BY <1>1, <2>1, <2>6 DEF Version
<1> QED
  BY <1>2, <1>3 DEF Versions, VersionsOf

(* A later version is a version in the sense of LastWrite.                 *)
LEMMA IsVersion ==
  ASSUME NEW r \in Record
  PROVE  VersionOf(r) \in Entry!Version
BY DEF Record, VersionOf, Version, Entry!Version

(* A change that an operator asks for is a Write.                          *)
LEMMA WriteStep ==
  ASSUME GlobalChanges, IInv, IInv', RInv, NEW s \in Servers, NEW n \in Record,
         n.lastmod = now, now > bound.stamp, Kept(n, now),
         \A x \in Servers : table'[x][Mask] = IF x = s THEN n ELSE table[x][Mask],
         queue' \in Queues(Fit(now, now, Versions \cup {VersionOf(n)})),
         now' = now, bound'.stamp = now
  PROVE  RInv' /\ Entry!Next
<1>1. now \in Nat /\ bound.stamp \in Nat /\ now \in bound.stamp .. now
  BY DEF IInv, Typed, RInv
<1>2. /\ RInv' /\ Entry!Held'
      /\ Copies' = [Copies EXCEPT ![s] = VersionOf(n)]
      /\ VersionOf(n) \in Versions'
      /\ Versions' \subseteq Versions \cup {VersionOf(n)}
  BY <1>1, NewVersion
<1>3. VersionOf(n).at = now
  BY DEF VersionOf, Version
<1>4. \A w \in Versions : w.at < VersionOf(n).at
  BY <1>1, <1>3, VersionsOld
<1>5. Entry!Write(s)
  BY <1>2, <1>4, IsVersion DEF Entry!Write
<1> QED
  BY <1>2, <1>5 DEF Entry!Next

(* A message about a later version than the server's makes a Learn.        *)
LEMMA LearnStep ==
  ASSUME GlobalChanges, IInv, IInv', RInv, NEW s \in Servers, NEW n \in Record,
         n.lastmod > table[s][Mask].lastmod, Kept(n, bound.stamp), VersionOf(n) \in Versions,
         \A x \in Servers : table'[x][Mask] = IF x = s THEN n ELSE table[x][Mask],
         queue' \in Queues(Fit(now, bound.stamp, Versions)),
         now' = now, bound'.stamp = bound.stamp
  PROVE  RInv' /\ Entry!Next
<1>1. now \in Nat /\ bound.stamp \in Nat /\ bound.stamp \in bound.stamp .. now
  BY DEF IInv, Typed, RInv
<1>2. Versions \cup {VersionOf(n)} = Versions
  OBVIOUS
<1>3. /\ RInv' /\ Entry!Held'
      /\ Copies' = [Copies EXCEPT ![s] = VersionOf(n)]
      /\ Versions' \subseteq Versions \cup {VersionOf(n)}
  <2>1. queue' \in Queues(Fit(now, bound.stamp, Versions \cup {VersionOf(n)}))
    BY <1>2
  <2> QED
    BY <1>1, <2>1, NewVersion
<1>4. VersionOf(n).at > Copies[s].at
  BY DEF Copies, VersionOf, Version
<1>5. Entry!Learn(s)
  BY <1>2, <1>3, <1>4 DEF Entry!Learn
<1> QED
  BY <1>3, <1>5 DEF Entry!Next

(* A wider G-line never stands in the way.                                 *)
LEMMA NotOutlived ==
  ASSUME GlobalChanges, NEW s, NEW n
  PROVE  ~Outlived(s, Mask, n) /\ make_gline(s, Mask, n)[Mask] = n
BY DEF GlobalChanges, Outlived, make_gline

(* Adding the G-line where there is none                                   *)
LEMMA Added ==
  ASSUME GlobalChanges, IInv, NEW s \in Servers, NEW M, NEW q \in Queues(M), NEW one,
         NEW on \in BOOLEAN, NEW ttl \in Int, NEW lastmod \in Nat, NEW loc \in BOOLEAN, ~loc,
         table[s][Mask] = NoGline, GL(Mask, on, lastmod, ttl) \in M,
         gline_add(q, s, one, Mask, on, ttl, lastmod, loc)
  PROVE  /\ queue' \in Queues(M)
         /\ \A x \in Servers : table'[x][Mask] = IF x = s THEN New(on, ttl, lastmod, loc)
                                                 ELSE table[x][Mask]
<1>1. Typed /\ Mask \in Masks /\ table \in Tables /\ now \in Nat
  BY DEF IInv, GlobalChanges, Typed
<1>2. ~Present(table[s][Mask])
  BY <1>1, Free
<1> DEFINE n == New(on, ttl, lastmod, loc)
           row == make_gline(s, Mask, n)
<1>3. /\ Effect(s, Mask) /\ queue' \in Queues(M)
      /\ table' = [table EXCEPT ![s] = row]
  BY <1>1, <1>2, Add
<1>4. row[Mask] = n
  BY NotOutlived
<1> HIDE DEF n, row
<1>5. \A x \in Servers : table'[x][Mask] = IF x = s THEN n ELSE table[x][Mask]
  BY <1>1, <1>3, <1>4 DEF Tables
<1> QED
  BY <1>3, <1>5 DEF n

(* Switching the G-line                                                    *)
LEMMA Switched ==
  ASSUME GlobalChanges, IInv, NEW s \in Servers, NEW M, NEW q \in Queues(M), NEW one,
         NEW on \in BOOLEAN, NEW lastmod \in Nat, NEW loc \in BOOLEAN, ~loc,
         ~table[s][Mask].local, table[s][Mask].lastmod # 0, table[s][Mask].lastmod < lastmod,
         NEW n, n = IF on THEN Activated(table[s][Mask], lastmod, loc)
                          ELSE Deactivated(table[s][Mask], lastmod, loc),
         Told(Mask, n) \in M,
         IF on THEN gline_activate(q, s, one, Mask, lastmod, loc)
               ELSE gline_deactivate(q, s, one, Mask, lastmod, loc)
  PROVE  /\ queue' \in Queues(M)
         /\ \A x \in Servers : table'[x][Mask] = IF x = s THEN n ELSE table[x][Mask]
<1>1. Typed /\ Mask \in Masks /\ table \in Tables
  BY DEF IInv, GlobalChanges, Typed
<1>2. queue' \in Queues(M) /\ table' = [table EXCEPT ![s][Mask] = n]
  <2>1. CASE on
    <3>1. /\ gline_activate(q, s, one, Mask, lastmod, loc)
          /\ n = Activated(table[s][Mask], lastmod, loc)
      BY <2>1
    <3> QED
      BY <1>1, <3>1, Activate
  <2>2. CASE ~on
    <3>1. /\ gline_deactivate(q, s, one, Mask, lastmod, loc)
          /\ n = Deactivated(table[s][Mask], lastmod, loc)
      BY <2>2
    <3> QED
      BY <1>1, <3>1, Deactivate
  <2> QED
    BY <2>1, <2>2
<1> QED
  BY <1>1, <1>2 DEF Tables

(* What the switched G-line is                                             *)
LEMMA SwitchedTo ==
  ASSUME NEW r \in Record, NEW on \in BOOLEAN, NEW lastmod \in Nat, NEW loc \in BOOLEAN, ~loc,
         r.lastmod # 0, r.lastmod < lastmod, ~r.ldeact, ~r.local,
         NEW n, n = IF on THEN Activated(r, lastmod, loc) ELSE Deactivated(r, lastmod, loc)
  PROVE  /\ n \in Record /\ n.expire = r.expire /\ n.lastmod = lastmod
         /\ ~n.local /\ ~n.ldeact
         /\ VersionOf(n) = Version(lastmod, on)
<1>1. r.lastmod \in Nat
  BY DEF Record
<1>2. Bump(r.lastmod, lastmod) = lastmod
  BY <1>1, BumpUp
<1>3. CASE on
  <2>1. n = Activated(r, lastmod, loc)
    BY <1>3
  <2>2. /\ n \in Record /\ n.expire = r.expire /\ n.lastmod = lastmod
        /\ ~n.local /\ ~n.ldeact /\ n.active
    BY <1>2, <2>1, ActivatedOK
  <2>3. n.active \in BOOLEAN
    BY <2>2 DEF Record
  <2> QED
    BY <1>3, <2>2, <2>3 DEF VersionOf
<1>4. CASE ~on
  <2>1. n = Deactivated(r, lastmod, loc)
    BY <1>4
  <2>2. /\ n \in Record /\ n.expire = r.expire /\ n.lastmod = lastmod
        /\ ~n.local /\ ~n.ldeact /\ ~n.active
    BY <1>2, <2>1, DeactivatedOK
  <2>3. n.active \in BOOLEAN
    BY <2>2 DEF Record
  <2> QED
    BY <1>4, <2>2, <2>3 DEF VersionOf
<1> QED
  BY <1>3, <1>4

(* A new G-line                                                            *)
LEMMA NewOK ==
  ASSUME NEW on \in BOOLEAN, NEW ttl \in Int, NEW lastmod \in Nat, NEW loc \in BOOLEAN, ~loc, now \in Nat, MaxTime \in Nat,
         now + ttl > MaxTime
  PROVE  LET n == New(on, ttl, lastmod, loc)
         IN  /\ n \in Record /\ n.lastmod = lastmod /\ ~n.local /\ ~n.ldeact /\ n.expire > MaxTime
             /\ VersionOf(n) = Version(lastmod, on)
             /\ Told(Mask, n) = GL(Mask, on, lastmod, ttl)
<1> DEFINE n == New(on, ttl, lastmod, loc)
<1>1. n \in Record /\ n.lastmod = lastmod /\ ~n.local /\ ~n.ldeact /\ n.expire > MaxTime
  BY DEF New, Record
<1>2. n.active = on /\ n.lastmod = lastmod /\ n.expire - now = ttl
  BY DEF New
<1> HIDE DEF n
<1>3. VersionOf(n) = Version(lastmod, on)
  BY <1>2 DEF VersionOf
<1>4. Told(Mask, n) = GL(Mask, on, lastmod, ttl)
  BY <1>2 DEF Told, GlineIsRemActive
<1> QED
  BY <1>1, <1>3, <1>4 DEF n

(* The G-line that a server has, when nothing but global changes are made  *)
LEMMA HasKept ==
  ASSUME GlobalChanges, IInv, RInv, NEW s \in Servers
  PROVE  LET r == table[s][Mask]
         IN  /\ r \in Record
             /\ \/ r = NoGline /\ ~Present(r)
                \/ /\ Present(r) /\ ~r.local /\ ~r.ldeact
                   /\ r.lastmod \in 1 .. bound.stamp /\ r.expire > MaxTime
             /\ VersionOf(r) \in Versions
<1> DEFINE r == table[s][Mask]
<1>1. r \in Record /\ now \in Nat /\ now \in 1 .. MaxTime /\ MaxTime \in Nat
  BY GlineAssumption DEF GlobalChanges, IInv, Typed, Tables, RInv
<1>2. Kept(r, bound.stamp)
  BY DEF RInv
<1>3. VersionOf(r) = Copies[s]
  BY DEF Copies
<1>4. VersionOf(r) \in Versions
  BY <1>3 DEF Versions, VersionsOf
<1> HIDE DEF r
<1>5. r.expire \in Int
  BY <1>1 DEF Record
<1>6. r.expire > MaxTime => Present(r)
  BY <1>1, <1>5 DEF Present
<1> QED
  BY <1>1, <1>2, <1>4, <1>6, Free DEF Kept, r

(* A change of another G-line tells nothing of this one.                   *)
LEMMA OtherMask ==
  ASSUME GlobalChanges, IInv, IInv', RInv, NEW s \in Servers, NEW w \in Masks, w # Mask,
         Effect(s, w), queue' \in Queues(Fit(now, bound.stamp, Versions)),
         now' = now, bound'.stamp \in bound.stamp .. now
  PROVE  RInv' /\ Entry!Next
<1>1. Mask \in Masks /\ Mask \notin Narrower[w]
  BY DEF GlobalChanges
<1>2. \A x \in Servers : table'[x][Mask] = table[x][Mask]
  BY <1>1 DEF Effect
<1>3. now' \in now .. MaxTime
  BY GlineAssumption DEF RInv
<1> QED
  BY <1>2, <1>3, QuietStep

(* mo_gline writes, or changes another G-line.                             *)
LEMMA MoGlineWrites ==
  ASSUME GlobalChanges, IInv, IInv', RInv, NEW s \in Servers, NEW m \in Masks,
         NEW on \in BOOLEAN, NEW loc \in BOOLEAN, mo_gline(s, m, on, loc)
  PROVE  RInv' /\ Entry!Next
<1>1. /\ Typed /\ now \in Nat /\ bound.stamp \in Nat /\ bound \in [ops : Nat, splits : Nat, stamp : Nat]
      /\ now \in 1 .. MaxTime /\ bound.stamp <= now /\ MaxTime \in Nat /\ Lifetime \in Int
      /\ queue \in Queues(Fit(now, bound.stamp, Versions))
  BY GlineAssumption DEF IInv, Typed, RInv
<1>2. /\ ~loc /\ now > bound.stamp /\ now' = now
      /\ bound' = [bound EXCEPT !.ops = @ + 1, !.stamp = now]
  BY DEF mo_gline, GlobalChanges
<1>3. bound'.stamp = now
  BY <1>1, <1>2
<1>4. CASE m # Mask
  <2> DEFINE M == Fit(now, bound.stamp, Versions)
  <2>1. \A x \in GLs : x.mask = m => x \in M
    BY <1>4, OthersFit
  <2> HIDE DEF M
  <2>2. Effect(s, m) /\ queue' \in Queues(M)
    BY <1>1, <2>1, MoGlineOK DEF M
  <2>3. bound'.stamp \in bound.stamp .. now
    BY <1>1, <1>3
  <2> QED
    BY <1>2, <1>4, <2>2, <2>3, OtherMask DEF M
<1>5. CASE m = Mask
  <2> DEFINE r == table[s][Mask]
             K(n) == Versions \cup {VersionOf(n)}
             loc2 == loc \/ r.lastmod = 0
  <2>1. /\ r \in Record
        /\ \/ r = NoGline /\ ~Present(r)
           \/ /\ Present(r) /\ ~r.local /\ ~r.ldeact
              /\ r.lastmod \in 1 .. bound.stamp /\ r.expire > MaxTime
    BY HasKept
  <2>2. ASSUME NEW n PROVE queue \in Queues(Fit(now, now, K(n)))
    <3>1. Fit(now, bound.stamp, Versions) \subseteq Fit(now, now, K(n))
      BY <1>1, FitMore
    <3> QED
      BY <1>1, <3>1, QueuesMore
  <2>3. CASE r = NoGline /\ ~Present(r)
    <3> DEFINE n == New(on, Lifetime, now, loc)
               M == Fit(now, now, K(n))
    <3>1. gline_add(queue, s, s, Mask, on, Lifetime, now, loc)
      BY <1>5, <2>3 DEF mo_gline
    <3>2. /\ n \in Record /\ n.lastmod = now /\ ~n.local /\ ~n.ldeact /\ n.expire > MaxTime
          /\ Told(Mask, n) = GL(Mask, on, now, Lifetime)
      <4>1. now + Lifetime > MaxTime
        BY <1>1 DEF GlobalChanges
      <4> QED
        BY <1>1, <1>2, <4>1, NewOK
    <3> HIDE DEF n
    <3>3. Told(Mask, n) \in M
      <4>1. VersionOf(n) \in K(n) /\ n.lastmod \in 1 .. now /\ Mask \in Masks
        BY <1>1, <3>2 DEF GlobalChanges
      <4> HIDE DEF K
      <4> QED
        BY <1>1, <3>2, <4>1, ToldFit
    <3>4. queue \in Queues(M)
      BY <2>2
    <3> HIDE DEF M
    <3>5. /\ queue' \in Queues(M)
          /\ \A x \in Servers : table'[x][Mask] = IF x = s THEN n ELSE table[x][Mask]
      BY <1>1, <1>2, <2>3, <3>1, <3>2, <3>3, <3>4, Added DEF n
    <3>6. Kept(n, now)
      BY <1>1, <3>2 DEF Kept
    <3> QED
      BY <1>2, <1>3, <3>2, <3>5, <3>6, WriteStep DEF M
  <2>4. CASE /\ Present(r) /\ ~r.local /\ ~r.ldeact
             /\ r.lastmod \in 1 .. bound.stamp /\ r.expire > MaxTime
    <3> DEFINE n == IF on THEN Activated(r, now, loc) ELSE Deactivated(r, now, loc)
               M == Fit(now, now, K(n))
    <3>1. IF on THEN gline_activate(queue, s, s, Mask, now, loc)
                ELSE gline_deactivate(queue, s, s, Mask, now, loc)
      <4>1. r.lastmod # 0
        BY <1>1, <2>4
      <4>2. (loc \/ r.lastmod = 0) = loc
        BY <4>1
      <4> QED
        BY <1>5, <2>4, <4>1, <4>2 DEF mo_gline
    <3>2. r.lastmod \in Nat /\ r.lastmod # 0 /\ r.lastmod < now
      BY <1>1, <1>2, <2>4
    <3>3. /\ n \in Record /\ n.expire = r.expire /\ n.lastmod = now
          /\ ~n.local /\ ~n.ldeact
      BY <1>1, <1>2, <2>1, <2>4, <3>2, SwitchedTo
    <3>4. n = IF on THEN Activated(r, now, loc) ELSE Deactivated(r, now, loc)
      OBVIOUS
    <3> HIDE DEF n
    <3>5. Told(Mask, n) \in M
      <4>1. VersionOf(n) \in K(n) /\ n.lastmod \in 1 .. now /\ Mask \in Masks /\ n.expire > MaxTime
        BY <1>1, <2>4, <3>3 DEF GlobalChanges
      <4> HIDE DEF K
      <4> QED
        BY <1>1, <3>3, <4>1, ToldFit
    <3>6. queue \in Queues(M)
      BY <2>2
    <3> HIDE DEF M
    <3>7. /\ queue' \in Queues(M)
          /\ \A x \in Servers : table'[x][Mask] = IF x = s THEN n ELSE table[x][Mask]
      BY <1>1, <1>2, <2>4, <3>1, <3>2, <3>4, <3>5, <3>6, Switched
    <3>8. Kept(n, now)
      BY <1>1, <2>4, <3>3 DEF Kept
    <3> QED
      BY <1>2, <1>3, <3>3, <3>7, <3>8, WriteStep DEF M
  <2> QED
    BY <2>1, <2>3, <2>4
<1> QED
  BY <1>4, <1>5

(* ms_gline learns a version that it is told of, or answers with its own.  *)
LEMMA MsGlineLearns ==
  ASSUME GlobalChanges, IInv, IInv', RInv, NEW s \in Servers, NEW t \in Servers,
         NEW msg \in Fit(now, bound.stamp, Versions), About(msg),
         NEW q \in Queues(Fit(now, bound.stamp, Versions)),
         Version(msg.lastmod, msg.on) \in Versions,
         ms_gline(q, s, t, msg), now' = now, bound' = bound
  PROVE  RInv' /\ Entry!Next
<1> DEFINE M == Fit(now, bound.stamp, Versions)
           r == table[s][Mask]
           loc == msg.target = s
           l == Lastmod(msg)
           Same == UNCHANGED <<table, online>>
<1>1. /\ Typed /\ now \in Nat /\ bound.stamp \in Nat /\ now \in 1 .. MaxTime /\ bound.stamp <= now
      /\ MaxTime \in Nat /\ Mask \in Masks
  BY GlineAssumption DEF IInv, Typed, RInv, GlobalChanges
<1>2. /\ msg \in GLs /\ msg.target = "*" /\ msg.mask = Mask /\ msg.lastmod \in 1 .. bound.stamp
      /\ now + msg.ttl > MaxTime
  BY DEF Fit, About, Message, GLs, EB, EA
<1>3. msg.on \in BOOLEAN /\ msg.ttl \in Int /\ msg.lastmod \in Nat /\ msg.lastmod # 0
  BY <1>1, <1>2 DEF GLs
<1>4. l = msg.lastmod /\ Ttl(msg) = msg.ttl /\ ~loc /\ loc \in BOOLEAN
  BY <1>2, <1>3, GlineAssumption DEF Lastmod, Ttl
<1>5. /\ r \in Record
      /\ \/ r = NoGline /\ ~Present(r)
         \/ /\ Present(r) /\ ~r.local /\ ~r.ldeact
            /\ r.lastmod \in 1 .. bound.stamp /\ r.expire > MaxTime
      /\ VersionOf(r) \in Versions
  BY HasKept
<1>6. \/ /\ ~Present(r) \/ r.local
         /\ gline_add(q, s, t, Mask, msg.on, msg.ttl, l, loc)
      \/ /\ Present(r) /\ r.lastmod < l
         /\ IF msg.on THEN gline_activate(q, s, t, Mask, l, loc)
                      ELSE gline_deactivate(q, s, t, Mask, l, loc)
      \/ queue' = q /\ Same
      \/ Present(r) /\ queue' = gline_resend(q, s, t, Mask, r) /\ Same
  BY <1>2, <1>3, <1>4, MsGlineCases
<1>7. ASSUME queue' \in Queues(M), Same PROVE RInv' /\ Entry!Next
  <2>1. now' \in now .. MaxTime /\ bound'.stamp \in bound.stamp .. now'
    BY <1>1
  <2> QED
    BY <1>7, <2>1, QuietStep
<1> HIDE DEF loc, l
<1>8. CASE /\ ~Present(r) \/ r.local
           /\ gline_add(q, s, t, Mask, msg.on, msg.ttl, l, loc)
  <2> DEFINE n == New(msg.on, msg.ttl, l, loc)
  <2>1. r = NoGline
    BY <1>5, <1>8
  <2>2. /\ n \in Record /\ n.lastmod = l /\ ~n.local /\ ~n.ldeact /\ n.expire > MaxTime
        /\ VersionOf(n) = Version(l, msg.on)
        /\ Told(Mask, n) = GL(Mask, msg.on, l, msg.ttl)
    <3> DEFINE on  == msg.on
               ttl == msg.ttl
               k   == New(on, ttl, l, loc)
    <3>1. /\ on \in BOOLEAN /\ ttl \in Int /\ l \in Nat /\ loc \in BOOLEAN /\ ~loc
          /\ now \in Nat /\ MaxTime \in Nat /\ now + ttl > MaxTime
      BY <1>1, <1>2, <1>3, <1>4
    <3> HIDE DEF on, ttl
    <3>2. /\ k \in Record /\ k.lastmod = l /\ ~k.local /\ ~k.ldeact /\ k.expire > MaxTime
          /\ VersionOf(k) = Version(l, on)
          /\ Told(Mask, k) = GL(Mask, on, l, ttl)
      BY <3>1, NewOK
    <3> QED
      BY <3>2 DEF on, ttl
  <2> HIDE DEF n
  <2>3. Told(Mask, n) \in M
    <3>1. VersionOf(n) \in Versions /\ n.lastmod \in 1 .. bound.stamp
      BY <1>2, <1>4, <2>2
    <3> QED
      BY <1>1, <2>2, <3>1, ToldFit
  <2> HIDE DEF M
  <2>4. /\ queue' \in Queues(M)
        /\ \A x \in Servers : table'[x][Mask] = IF x = s THEN n ELSE table[x][Mask]
    <3>1. q \in Queues(M)
      BY DEF M
    <3> QED
      BY <1>3, <1>4, <1>8, <2>1, <2>2, <2>3, <3>1, Added DEF n
  <2>5. Kept(n, bound.stamp)
    BY <1>2, <1>4, <2>2 DEF Kept
  <2>6. n.lastmod > r.lastmod
    BY <1>3, <1>4, <2>1, <2>2, Free
  <2>7. VersionOf(n) \in Versions
    BY <1>4, <2>2
  <2> QED
    BY <2>2, <2>4, <2>5, <2>6, <2>7, LearnStep DEF M
<1>9. CASE /\ Present(r) /\ r.lastmod < l
           /\ IF msg.on THEN gline_activate(q, s, t, Mask, l, loc)
                        ELSE gline_deactivate(q, s, t, Mask, l, loc)
  <2> DEFINE n == IF msg.on THEN Activated(r, l, loc) ELSE Deactivated(r, l, loc)
  <2>1. /\ ~r.local /\ ~r.ldeact
        /\ r.lastmod \in 1 .. bound.stamp /\ r.expire > MaxTime
    BY <1>5, <1>9
  <2>2. r.lastmod \in Nat /\ r.lastmod # 0
    BY <1>1, <2>1
  <2>3. /\ n \in Record /\ n.expire = r.expire /\ n.lastmod = l
        /\ ~n.local /\ ~n.ldeact
        /\ VersionOf(n) = Version(l, msg.on)
    BY <1>3, <1>4, <1>5, <1>9, <2>1, <2>2, SwitchedTo
  <2>4. n = IF msg.on THEN Activated(r, l, loc) ELSE Deactivated(r, l, loc)
    OBVIOUS
  <2> HIDE DEF n
  <2>5. Told(Mask, n) \in M
    BY <1>1, <1>2, <1>4, <2>1, <2>3, ToldFit
  <2> HIDE DEF M
  <2>6. /\ queue' \in Queues(M)
        /\ \A x \in Servers : table'[x][Mask] = IF x = s THEN n ELSE table[x][Mask]
    <3>1. q \in Queues(M)
      BY DEF M
    <3> QED
      BY <1>3, <1>4, <1>9, <2>1, <2>2, <2>4, <2>5, <3>1, Switched
  <2>7. Kept(n, bound.stamp)
    BY <1>2, <1>4, <2>1, <2>3 DEF Kept
  <2>8. n.lastmod > r.lastmod
    BY <1>3, <1>4, <1>9, <2>2, <2>3
  <2>9. VersionOf(n) \in Versions
    BY <1>4, <2>3
  <2> QED
    BY <2>3, <2>6, <2>7, <2>8, <2>9, LearnStep DEF M
<1>10. CASE queue' = q /\ Same
  BY <1>7, <1>10
<1>11. CASE Present(r) /\ queue' = gline_resend(q, s, t, Mask, r) /\ Same
  <2>1. Told(Mask, r) \in M
    BY <1>1, <1>5, <1>11, ToldFit
  <2> HIDE DEF M
  <2>2. q \in Queues(M)
    BY DEF M
  <2>3. gline_resend(q, s, t, Mask, r) \in Queues(M)
    BY <2>1, <2>2, ResendIn
  <2> QED
    BY <1>7, <1>11, <2>3 DEF M
<1> QED
  BY <1>6, <1>8, <1>9, <1>10, <1>11

(* Reading a message                                                       *)
LEMMA ReceiveLearns ==
  ASSUME GlobalChanges, IInv, IInv', RInv, NEW s \in Servers, NEW t \in Servers, Receive(t, s)
  PROVE  RInv' /\ Entry!Next
<1> DEFINE M   == Fit(now, bound.stamp, Versions)
           msg == Head(queue[t][s])
           q   == [queue EXCEPT ![t][s] = Tail(@)]
<1>1. /\ Typed /\ now \in Nat /\ bound.stamp \in Nat /\ now \in 1 .. MaxTime /\ bound.stamp <= now
      /\ MaxTime \in Nat /\ queue \in Queues(M) /\ queue[t][s] # <<>>
      /\ now' = now /\ bound' = bound
  BY GlineAssumption DEF IInv, Typed, RInv, Receive
<1>2. now' \in now .. MaxTime /\ bound'.stamp \in bound.stamp .. now'
  BY <1>1
<1>3. msg \in M /\ q \in Queues(M)
  <2> HIDE DEF M
  <2> QED
    BY <1>1, ReadIn
<1>4. msg \in Message /\ msg.type \in {"GL", "EB", "EA"} /\ (msg.type = "GL" => msg \in GLs)
  BY <1>3 DEF Fit, Message, GLs, EB, EA
<1>5. \/ msg.type = "GL" /\ ms_gline(q, s, t, msg)
      \/ queue' = ToOne(q, s, t, EA) /\ UNCHANGED table
      \/ queue' = q /\ UNCHANGED table
  BY <1>4 DEF Receive
<1> HIDE DEF msg, q
<1>6. CASE queue' = ToOne(q, s, t, EA) /\ UNCHANGED table
  <2>1. EA \in M
    BY DEF Fit, Message, About, EA, EB
  <2> HIDE DEF M
  <2>2. queue' \in Queues(M)
    BY <1>3, <1>6, <2>1, ToOneIn
  <2> QED
    BY <1>2, <1>6, <2>2, QuietStep DEF M
<1>7. CASE queue' = q /\ UNCHANGED table
  BY <1>2, <1>3, <1>7, QuietStep
<1>8. CASE msg.type = "GL" /\ ms_gline(q, s, t, msg) /\ msg.mask # Mask
  <2>1. \A x \in GLs : x.mask = msg.mask => x \in M
    BY <1>8, OthersFit
  <2>2. msg \in GLs /\ msg.mask \in Masks
    BY <1>4, <1>8 DEF GLs
  <2> HIDE DEF M
  <2>3. Effect(s, msg.mask) /\ queue' \in Queues(M)
    BY <1>1, <1>3, <1>8, <2>1, <2>2, MsGlineOK
  <2> QED
    BY <1>1, <1>2, <1>8, <2>2, <2>3, OtherMask DEF M
<1>9. CASE msg.type = "GL" /\ ms_gline(q, s, t, msg) /\ msg.mask = Mask
  <2>1. About(msg)
    BY <1>9 DEF About
  <2>2. Version(msg.lastmod, msg.on) \in Versions
    BY <1>3, <2>1 DEF Fit
  <2> QED
    BY <1>1, <1>3, <1>9, <2>1, <2>2, MsGlineLearns
<1> QED
  BY <1>5, <1>6, <1>7, <1>8, <1>9

(* What a server bursts of the G-line fits.                                *)
LEMMA BurstFit ==
  ASSUME GlobalChanges, IInv, RInv, NEW s \in Servers
  PROVE  gline_burst(s) \o <<EB>> \in Seq(Fit(now, bound.stamp, Versions))
<1> DEFINE M == Fit(now, bound.stamp, Versions)
<1>1. EB \in M
  BY DEF Fit, Message, About, EB
<1>2. Typed /\ now \in Nat /\ Mask \in Masks
  BY DEF IInv, Typed, GlobalChanges
<1>3. ASSUME NEW m \in Masks, m # Mask PROVE Told(m, table[s][m]) \in M
  <2>1. table[s][m] \in Record
    BY <1>2 DEF Typed, Tables
  <2>2. Told(m, table[s][m]) \in GLs /\ Told(m, table[s][m]).mask = m
    BY <1>2, <2>1, ToldOK DEF Told, GL
  <2> HIDE DEF M
  <2> QED
    BY <1>3, <2>2, OthersFit DEF M
<1>4. ASSUME Present(table[s][Mask]) PROVE Told(Mask, table[s][Mask]) \in M
  <2> DEFINE r == table[s][Mask]
  <2>1. /\ r \in Record /\ r.lastmod \in 1 .. bound.stamp /\ r.expire > MaxTime
        /\ VersionOf(r) \in Versions
    BY <1>4, HasKept
  <2> HIDE DEF r
  <2>2. Told(Mask, r) \in Fit(now, bound.stamp, Versions)
    BY <1>2, <2>1, ToldFit
  <2> QED
    BY <2>2 DEF r
<1> HIDE DEF M
<1>5. \A m \in Masks : LET r == table[s][m] IN
         Present(r) /\ ~r.local /\ r.lastmod # 0 => Told(m, r) \in M
  BY <1>3, <1>4
<1>6. gline_burst(s) \o <<EB>> \in Seq(M)
  BY <1>1, <1>5, BurstIn
<1> QED
  BY <1>6 DEF M

(* The G-line outlives the runs that are considered.                       *)
LEMMA TickKeeps ==
  ASSUME GlobalChanges, IInv, RInv, Tick
  PROVE  \A s \in Servers : table'[s][Mask] = table[s][Mask]
<1> TAKE s \in Servers
<1> DEFINE r == table[s][Mask]
<1>1. r \in Record /\ (r = NoGline \/ r.expire > MaxTime)
  BY HasKept
<1>2. table'[s][Mask] = IF r.expire <= now' THEN NoGline ELSE r
  BY DEF Tick, GlobalChanges
<1> HIDE DEF r
<1>3. r.expire \in Int
  BY <1>1 DEF Record
<1>4. now' = now + 1 /\ now < MaxTime /\ now \in Nat /\ MaxTime \in Nat
  BY GlineAssumption DEF Tick, IInv, Typed
<1>5. r.expire > MaxTime => ~(r.expire <= now')
  BY <1>3, <1>4
<1> QED
  BY <1>1, <1>2, <1>5 DEF r

(* A link that breaks or comes back, a client that connects and time that  *)
(* passes change no version.                                               *)
LEMMA QuietActions ==
  ASSUME GlobalChanges, IInv, IInv', RInv,
         \/ \E e \in Edges : Split(e) \/ Relink(e)
         \/ \E u \in Users : Connect(u)
         \/ Tick
  PROVE  RInv' /\ Entry!Next
<1> DEFINE M == Fit(now, bound.stamp, Versions)
<1>1. /\ now \in Nat /\ bound.stamp \in Nat /\ now \in 1 .. MaxTime /\ bound.stamp <= now
      /\ bound \in [ops : Nat, splits : Nat, stamp : Nat]
      /\ MaxTime \in Nat /\ Mask \in Masks /\ queue \in Queues(M)
  BY GlineAssumption DEF IInv, Typed, RInv, GlobalChanges
<1>2. \A s \in Servers : gline_burst(s) \o <<EB>> \in Seq(M)
  BY BurstFit
<1> HIDE DEF M
<1>3. now' \in now .. MaxTime /\ bound'.stamp \in bound.stamp .. now'
  <2>1. now' \in {now, now + 1} /\ now' <= MaxTime /\ bound'.stamp = bound.stamp
    BY <1>1 DEF Split, Relink, Connect, Tick
  <2> QED
    BY <1>1, <2>1
<1>4. queue' \in Queues(M)
  <2>1. ASSUME NEW e \in Edges, Split(e) PROVE queue' \in Queues(M)
    BY <1>1, <2>1 DEF Split, Queues
  <2>2. ASSUME NEW e \in Edges, Relink(e) PROVE queue' \in Queues(M)
    <3> DEFINE b(s) == gline_burst(s) \o <<EB>>
    <3>1. queue' = [s \in Servers |-> [t \in Servers |->
                       IF {s, t} = e /\ s # t THEN b(s) ELSE queue[s][t]]]
      BY <2>2 DEF Relink
    <3>2. \A s \in Servers : b(s) \in Seq(M)
      BY <1>2
    <3> HIDE DEF b
    <3> QED
      BY <1>1, <3>1, <3>2 DEF Queues
  <2> QED
    BY <1>1, <2>1, <2>2 DEF Connect, Tick
<1>5. \A s \in Servers : table'[s][Mask] = table[s][Mask]
  <2>1. CASE Tick
    BY <2>1, TickKeeps
  <2> QED
    BY <2>1 DEF Split, Relink, Connect
<1> QED
  BY <1>3, <1>4, <1>5, QuietStep DEF M

(* Every step is one of LastWrite.                                         *)
LEMMA RefineStep ==
  ASSUME GlobalChanges, IInv, IInv', RInv, Next
  PROVE  RInv' /\ Entry!Next
<1>1. /\ \A s, t \in Servers, m \in Masks, on \in BOOLEAN : ~mo_gline_remote(s, t, m, on)
      /\ \A s \in Servers, m \in Masks, on \in BOOLEAN : ~UworldGline(s, m, on)
      /\ \A s \in Servers, m \in Masks : ~mo_remove(s, m)
  BY DEF GlobalChanges, mo_gline_remote, UworldGline, mo_remove
<1>2. \/ \E s \in Servers, m \in Masks, on, loc \in BOOLEAN : mo_gline(s, m, on, loc)
      \/ \E s, t \in Servers : Receive(t, s)
      \/ \E e \in Edges : Split(e) \/ Relink(e)
      \/ \E u \in Users : Connect(u)
      \/ Tick
  BY <1>1 DEF Next, Read
<1>3. ASSUME NEW s \in Servers, NEW m \in Masks, NEW on \in BOOLEAN, NEW loc \in BOOLEAN,
             mo_gline(s, m, on, loc)
      PROVE  RInv' /\ Entry!Next
  BY <1>3, MoGlineWrites
<1>4. ASSUME NEW s \in Servers, NEW t \in Servers, Receive(t, s)
      PROVE  RInv' /\ Entry!Next
  BY <1>4, ReceiveLearns
<1>5. CASE \/ \E e \in Edges : Split(e) \/ Relink(e)
           \/ \E u \in Users : Connect(u)
           \/ Tick
  BY <1>5, QuietActions
<1> QED
  BY <1>2, <1>3, <1>4, <1>5

(* No G-line, and nothing under way                                        *)
LEMMA RefineInit ==
  ASSUME GlobalChanges, Init
  PROVE  RInv /\ Entry!Init
<1>1. Mask \in Masks /\ Servers # {} /\ MaxTime \in Nat /\ 0 < MaxTime
  BY GlineAssumption DEF GlobalChanges
<1>2. Copies = [s \in Servers |-> Entry!None]
  BY <1>1 DEF Init, Copies, VersionOf, Version, NoGline, Entry!None
<1>3. OnWay(queue) = {}
  BY DEF Init, OnWay, Elements
<1>4. Versions = {Entry!None}
  BY <1>1, <1>2, <1>3 DEF Versions, VersionsOf
<1>5. queue \in Queues(Fit(now, bound.stamp, Versions))
  BY DEF Init, Queues
<1>6. now \in 1 .. MaxTime /\ bound.stamp <= now
  BY <1>1 DEF Init
<1>7. \A s \in Servers : Kept(table[s][Mask], bound.stamp)
  BY <1>1 DEF Init, Kept
<1> QED
  BY <1>2, <1>4, <1>5, <1>6, <1>7 DEF RInv, Entry!Init

(* The servers' G-lines and the messages fit each other.                   *)
LEMMA RInvHolds == ASSUME GlobalChanges PROVE Spec => []RInv
<1>1. Init => RInv
  BY RefineInit
<1>2. IInv /\ IInv' /\ RInv /\ [Next]_vars => RInv'
  <2>1. ASSUME RInv, UNCHANGED vars PROVE RInv'
    BY <2>1 DEF RInv, vars, Versions, Copies, VersionOf
  <2> QED
    BY <2>1, RefineStep
<1> QED
  BY <1>1, <1>2, IInvHolds, PTL DEF Spec

(* Flooding, answers with one's own version, bursts after a split and what *)
(* is lost on the way amount to versions that are made once and replaced   *)
(* by later ones: on any tree, from whichever servers and in whatever      *)
(* order the changes come (ms_gline).                                      *)
THEOREM IsLastWriteHolds == ASSUME GlobalChanges PROVE Spec => IsLastWrite
<1>1. Init => RInv /\ Entry!Init
  BY RefineInit
<1>2. IInv /\ IInv' /\ RInv /\ [Next]_vars => [Entry!Next]_(Entry!vars)
  <2>1. ASSUME UNCHANGED vars PROVE UNCHANGED Entry!vars
    BY <2>1 DEF vars, Entry!vars, Versions, Copies, VersionOf
  <2> QED
    BY <2>1, RefineStep
<1> QED
  BY <1>1, <1>2, IInvHolds, RInvHolds, PTL DEF Spec, IsLastWrite, Entry!Spec

(* Two servers that have the G-line with the same modification time have   *)
(* it in the same state, whoever changed it (what ms_gline assumes when it *)
(* ignores such a message).                                                *)
COROLLARY SameTimeSameState ==
  ASSUME GlobalChanges
  PROVE  Spec => []Entry!OneStatePerVersion
BY IsLastWriteHolds, Entry!OneStatePerVersionHolds, PTL DEF IsLastWrite

-----------------------------------------------------------------------------
(* Global changes of one G-line settle on the last one.                    *)

(* The servers form one network, no link of which breaks.                  *)
Connected ==
    /\ MaxSplits = 0
    /\ \A S \in SUBSET Servers :
          S # {} /\ (\A s \in S, t \in Servers : {s, t} \in Edges => t \in S) => S = Servers

(* What is under way on a link: something about the G-line; nothing later  *)
(* than a version; and, as the last thing about it, a state or a version   *)
(* earlier than the reader's, which the reader answers                     *)
Holds(q) == \E i \in 1 .. Len(q) : About(q[i])
AtMost(q, at) == \A i \in 1 .. Len(q) : About(q[i]) => q[i].lastmod <= at
LastSays(q, on, at) ==
    \A i \in 1 .. Len(q) :
        About(q[i]) /\ (\A j \in 1 .. Len(q) : j > i => ~About(q[j])) =>
            q[i].on = on \/ q[i].lastmod < at

(* The same state of the G-line, whatever the versions                     *)
Alike(r, n) == (r.lastmod = 0 <=> n.lastmod = 0) /\ r.active = n.active

Rec(s) == table[s][Mask]

(* A server's messages are not later than its version, and the last one on *)
(* a link has its state unless the reader will answer it.  Neighbours that *)
(* differ have something to tell each other.                               *)
Told1(q) == \A s, t \in Servers : AtMost(q[s][t], Rec(s).lastmod)
Told2(q) == \A s \in Servers : \A t \in Neighbours(s) :
                LastSays(q[s][t], Rec(s).active, Rec(t).lastmod)
Pending(q, s, t) == Alike(Rec(s), Rec(t)) \/ Holds(q[s][t]) \/ Holds(q[t][s])

(* s has the latest version.                                               *)
Newest(s) ==
    /\ Rec(s).lastmod > 0
    /\ Rec(s).active <=> latest[Mask] = "+"
    /\ \A t \in Servers : Rec(t).lastmod <= Rec(s).lastmod

(* The invariant of settling                                               *)
SInv ==
    /\ up = Edges /\ inBurst = [s \in Servers |-> {}]
    /\ latest \in [Masks -> {"none", "+", "-"}]
    /\ Told1(queue) /\ Told2(queue)
    /\ \A s \in Servers : \A t \in Neighbours(s) : Pending(queue, s, t)
    /\ latest[Mask] = "none" \/ \E s \in Servers : Newest(s)

(* Something about another G-line, or nothing about any, is added.         *)
LEMMA OtherAdded ==
  ASSUME NEW q \in Seq(Message), NEW x \in Message, ~About(x)
  PROVE  LET p == Append(q, x)
         IN  /\ Holds(p) <=> Holds(q)
             /\ \A at : AtMost(q, at) => AtMost(p, at)
             /\ \A on, at : LastSays(q, on, at) => LastSays(p, on, at)
<1> DEFINE p == Append(q, x)
<1>1. /\ Len(p) = Len(q) + 1 /\ Len(q) \in Nat
      /\ \A i \in 1 .. Len(q) : p[i] = q[i]
      /\ p[Len(p)] = x
  OBVIOUS
<1> HIDE DEF p
<1>2. Holds(p) <=> Holds(q)
  BY <1>1 DEF Holds
<1>3. \A at : AtMost(q, at) => AtMost(p, at)
  BY <1>1 DEF AtMost
<1>4. \A on, at : LastSays(q, on, at) => LastSays(p, on, at)
  <2> SUFFICES ASSUME NEW on, NEW at, LastSays(q, on, at), NEW i \in 1 .. Len(p), About(p[i]),
                      \A j \in 1 .. Len(p) : j > i => ~About(p[j])
               PROVE  p[i].on = on \/ p[i].lastmod < at
    BY DEF LastSays
  <2>1. i \in 1 .. Len(q) /\ p[i] = q[i]
    BY <1>1
  <2>2. \A j \in 1 .. Len(q) : j > i => ~About(q[j])
    BY <1>1
  <2> QED
    BY <2>1, <2>2 DEF LastSays
<1> QED
  BY <1>2, <1>3, <1>4 DEF p

(* Something about the G-line is added.                                    *)
LEMMA AboutAdded ==
  ASSUME NEW q \in Seq(Message), NEW x \in Message, About(x)
  PROVE  LET p == Append(q, x)
         IN  /\ Holds(p)
             /\ \A at : AtMost(q, at) /\ x.lastmod <= at => AtMost(p, at)
             /\ \A at : LastSays(p, x.on, at)
<1> DEFINE p == Append(q, x)
<1>1. /\ Len(p) = Len(q) + 1 /\ Len(q) \in Nat
      /\ \A i \in 1 .. Len(q) : p[i] = q[i]
      /\ p[Len(p)] = x
  OBVIOUS
<1> HIDE DEF p
<1>2. Holds(p)
  BY <1>1 DEF Holds
<1>3. \A at : AtMost(q, at) /\ x.lastmod <= at => AtMost(p, at)
  BY <1>1 DEF AtMost
<1>4. \A at : LastSays(p, x.on, at)
  BY <1>1 DEF LastSays
<1> QED
  BY <1>2, <1>3, <1>4 DEF p

(* The first message is read.                                              *)
LEMMA FirstRead ==
  ASSUME NEW q \in Seq(Message), q # <<>>
  PROVE  LET p == Tail(q)
             x == Head(q)
         IN  /\ \A at : AtMost(q, at) => AtMost(p, at) /\ (About(x) => x.lastmod <= at)
             /\ \A on, at : LastSays(q, on, at) => LastSays(p, on, at)
             /\ \A on, at : LastSays(q, on, at) /\ About(x) =>
                               Holds(p) \/ x.on = on \/ x.lastmod < at
             /\ ~About(x) => (Holds(p) <=> Holds(q))
<1> DEFINE p == Tail(q)
           x == Head(q)
<1>1. /\ Len(p) = Len(q) - 1 /\ Len(q) \in Nat /\ Len(q) > 0
      /\ \A i \in 1 .. Len(p) : p[i] = q[i + 1]
      /\ x = q[1]
  OBVIOUS
<1> HIDE DEF p, x
<1>2. \A i \in 1 .. Len(q) : i = 1 \/ (i - 1 \in 1 .. Len(p) /\ q[i] = p[i - 1])
  BY <1>1
<1>3. \A at : AtMost(q, at) => AtMost(p, at) /\ (About(x) => x.lastmod <= at)
  BY <1>1 DEF AtMost
<1>4. \A on, at : LastSays(q, on, at) => LastSays(p, on, at)
  <2> SUFFICES ASSUME NEW on, NEW at, LastSays(q, on, at), NEW i \in 1 .. Len(p), About(p[i]),
                      \A j \in 1 .. Len(p) : j > i => ~About(p[j])
               PROVE  p[i].on = on \/ p[i].lastmod < at
    BY DEF LastSays
  <2>1. i + 1 \in 1 .. Len(q) /\ p[i] = q[i + 1]
    BY <1>1
  <2>2. \A j \in 1 .. Len(q) : j > i + 1 => ~About(q[j])
    BY <1>1, <1>2
  <2> QED
    BY <2>1, <2>2 DEF LastSays
<1>5. ASSUME NEW on, NEW at, LastSays(q, on, at), About(x), ~Holds(p)
      PROVE  x.on = on \/ x.lastmod < at
  <2>1. \A j \in 1 .. Len(q) : j > 1 => ~About(q[j])
    BY <1>2, <1>5 DEF Holds
  <2> QED
    BY <1>1, <1>5, <2>1 DEF LastSays
<1>6. ~About(x) => (Holds(p) <=> Holds(q))
  <2>1. Holds(p) => Holds(q)
    BY <1>1 DEF Holds
  <2>2. ~About(x) /\ Holds(q) => Holds(p)
    BY <1>1, <1>2 DEF Holds
  <2> QED
    BY <2>1, <2>2
<1> QED
  BY <1>3, <1>4, <1>5, <1>6 DEF p, x

(* What is said stays true while the reader's version goes up.             *)
LEMMA SaysOn ==
  ASSUME NEW q \in Seq(Message), NEW on, NEW at \in Nat, NEW at2 \in Nat, at <= at2, LastSays(q, on, at)
  PROVE  LastSays(q, on, at2)
<1>1. \A i \in 1 .. Len(q) : About(q[i]) => q[i].lastmod \in Nat
  BY ElementOfSeq DEF About, Message, GLs, EB, EA
<1> QED
  BY <1>1 DEF LastSays

(* Nor does a later version of the sender make its messages too late.      *)
LEMMA AtMostOn ==
  ASSUME NEW q \in Seq(Message), NEW at \in Nat, NEW at2 \in Nat, at <= at2, AtMost(q, at)
  PROVE  AtMost(q, at2)
<1>1. \A i \in 1 .. Len(q) : About(q[i]) => q[i].lastmod \in Nat
  BY ElementOfSeq DEF About, Message, GLs, EB, EA
<1> QED
  BY <1>1 DEF AtMost

(* The last thing said about the G-line is of some version.                *)
LEMMA SaysOther ==
  ASSUME NEW q \in Seq(Message), NEW on, NEW at \in Nat, NEW at2 \in Nat, at < at2, AtMost(q, at)
  PROVE  LastSays(q, on, at2)
<1>1. \A i \in 1 .. Len(q) : About(q[i]) => q[i].lastmod \in Nat
  BY ElementOfSeq DEF About, Message, GLs, EB, EA
<1> QED
  BY <1>1 DEF LastSays, AtMost

(* The servers whose states a step may change, and their types             *)
LEMMA Types ==
  ASSUME GlobalChanges, IInv
  PROVE  /\ \A s \in Servers : /\ Rec(s) \in Record /\ Rec(s).lastmod \in Nat
                               /\ Rec(s).active \in BOOLEAN
         /\ \A s, t \in Servers : queue[s][t] \in Seq(Message)
         /\ \A s \in Servers : Neighbours(s) \subseteq Servers /\ s \notin Neighbours(s)
         /\ \A s \in Servers : \A t \in Neighbours(s) : s \in Neighbours(t)
<1>1. \A s \in Servers : Rec(s) \in Record
  BY DEF GlobalChanges, IInv, Typed, Tables, Rec
<1>2. \A s \in Servers : Rec(s).lastmod \in Nat /\ Rec(s).active \in BOOLEAN
  BY <1>1 DEF Record
<1>3. \A s, t \in Servers : queue[s][t] \in Seq(Message)
  BY DEF IInv, Typed, Queues
<1>4. \A s, t \in Servers : {s, t} = {t, s}
  OBVIOUS
<1> QED
  BY <1>1, <1>2, <1>3, <1>4 DEF Neighbours

(* What is under way of the G-line is as it was.                           *)
Keeps(p, q) ==
    /\ Holds(p) <=> Holds(q)
    /\ \A at : AtMost(q, at) => AtMost(p, at)
    /\ \A on, at : LastSays(q, on, at) => LastSays(p, on, at)

(* A step that does not concern the G-line                                 *)
LEMMA OtherStep ==
  ASSUME SInv, \A s \in Servers : Rec(s)' = Rec(s),
         \A s, t \in Servers : Keeps(queue'[s][t], queue[s][t]),
         up' = up, inBurst' = inBurst,
         latest' \in [Masks -> {"none", "+", "-"}], latest'[Mask] = latest[Mask]
  PROVE  SInv'
<1>1. \A s \in Servers : Neighbours(s)' = Neighbours(s) /\ Neighbours(s) \subseteq Servers
  BY DEF Neighbours
<1>2. Told1(queue)'
  BY DEF SInv, Told1, Keeps
<1>3. Told2(queue)'
  <2> SUFFICES ASSUME NEW s \in Servers, NEW t \in Neighbours(s)
               PROVE  LastSays(queue'[s][t], Rec(s)'.active, Rec(t)'.lastmod)
    BY <1>1 DEF Told2
  <2>1. t \in Servers /\ LastSays(queue[s][t], Rec(s).active, Rec(t).lastmod)
    BY <1>1 DEF SInv, Told2
  <2>2. Keeps(queue'[s][t], queue[s][t]) /\ Rec(s)' = Rec(s) /\ Rec(t)' = Rec(t)
    BY <2>1
  <2> QED
    BY <2>1, <2>2 DEF Keeps
<1>4. \A s \in Servers : \A t \in Neighbours(s)' : Pending(queue, s, t)'
  BY <1>1 DEF SInv, Pending, Alike, Keeps
<1>5. (latest[Mask] = "none" \/ \E s \in Servers : Newest(s))'
  BY DEF SInv, Newest
<1> QED
  BY <1>2, <1>3, <1>4, <1>5 DEF SInv

(* The queue after s has told its neighbours but one of the G-line         *)
Spread(q, s, one, n, x, y) ==
    IF x = s /\ y \in Neighbours(s) \ {one} THEN Append(q[x][y], Told(Mask, n)) ELSE q[x][y]

(* What is left to say when s goes on to version n of the G-line and tells *)
(* its neighbours, if they are to know: all but one, which told it of a    *)
(* version that is not earlier.                                            *)
LEMMA Settles ==
  ASSUME GlobalChanges, IInv, IInv', NEW q, \A x, y \in Servers : q[x][y] \in Seq(Message),
         NEW s \in Servers, NEW one \in Servers, NEW n \in Record, n.lastmod > Rec(s).lastmod,
         Told1(q), Told2(q), up' = up,
         \A x \in Servers : \A y \in Neighbours(x) : {x, y} # {s, one} => Pending(q, x, y),
         one # s => Rec(one).lastmod >= n.lastmod,
         one \in Neighbours(s) => Alike(n, Rec(one)) \/ Holds(q[one][s]),
         \A x \in Servers : Rec(x)' = IF x = s THEN n ELSE Rec(x),
         \/ \A x, y \in Servers : queue'[x][y] = Spread(q, s, one, n, x, y)
         \/ /\ \A x, y \in Servers : queue'[x][y] = q[x][y]
            /\ Alike(n, Rec(s))
  PROVE  /\ Told1(queue)' /\ Told2(queue)'
         /\ \A x \in Servers : \A y \in Neighbours(x)' : Pending(queue, x, y)'
<1> DEFINE m == Told(Mask, n)
<1>1. /\ \A x \in Servers : /\ Rec(x).lastmod \in Nat
                            /\ Neighbours(x) \subseteq Servers /\ x \notin Neighbours(x)
      /\ \A x \in Servers : \A y \in Neighbours(x) : x \in Neighbours(y)
      /\ n.lastmod \in Nat
  BY Types DEF Record
<1>2. \A x \in Servers : Neighbours(x)' = Neighbours(x)
  BY DEF Neighbours
<1>3. m \in Message /\ About(m) /\ m.lastmod = n.lastmod /\ m.on = n.active
  <2>1. now \in Nat /\ Mask \in Masks
    BY DEF IInv, Typed, GlobalChanges
  <2> QED
    BY <2>1, ToldOK DEF Message, Told, About, GL, GlineIsRemActive
<1>4. \A x, y \in Servers : queue'[x][y] \in Seq(Message)
  BY DEF IInv, Typed, Queues
<1> HIDE DEF m
<1>5. ASSUME NEW x \in Servers, NEW y \in Servers
      PROVE  \/ queue'[x][y] = q[x][y]
             \/ /\ x = s /\ y \in Neighbours(s) \ {one}
                /\ Holds(queue'[x][y])
                /\ \A at : AtMost(q[x][y], at) /\ n.lastmod <= at => AtMost(queue'[x][y], at)
                /\ \A at : LastSays(queue'[x][y], n.active, at)
  <2>1. CASE queue'[x][y] = Append(q[x][y], m) /\ x = s /\ y \in Neighbours(s) \ {one}
    <3>1. LET p == Append(q[x][y], m)
          IN  /\ Holds(p)
              /\ \A at : AtMost(q[x][y], at) /\ m.lastmod <= at => AtMost(p, at)
              /\ \A at : LastSays(p, m.on, at)
      BY <1>3, AboutAdded
    <3> QED
      BY <1>3, <2>1, <3>1
  <2> QED
    BY <2>1 DEF Spread, m
<1>6. \A x, y \in Servers : Holds(q[x][y]) => Holds(queue'[x][y])
  BY <1>5
<1>7. Told1(queue)'
  <2> SUFFICES ASSUME NEW x \in Servers, NEW y \in Servers
               PROVE  AtMost(queue'[x][y], Rec(x)'.lastmod)
    BY DEF Told1
  <2>1. AtMost(q[x][y], Rec(x).lastmod)
    BY DEF Told1
  <2>2. Rec(x)'.lastmod \in Nat /\ Rec(x).lastmod <= Rec(x)'.lastmod
    BY <1>1
  <2>3. AtMost(q[x][y], Rec(x)'.lastmod)
    BY <1>1, <2>1, <2>2, AtMostOn
  <2>4. x = s => n.lastmod <= Rec(x)'.lastmod
    BY <1>1
  <2> QED
    BY <1>5, <2>3, <2>4
<1>8. Told2(queue)'
  <2> SUFFICES ASSUME NEW x \in Servers, NEW y \in Neighbours(x)
               PROVE  LastSays(queue'[x][y], Rec(x)'.active, Rec(y)'.lastmod)
    BY <1>2 DEF Told2
  <2>1. y \in Servers /\ y # x
    BY <1>1
  <2>2. LastSays(q[x][y], Rec(x).active, Rec(y).lastmod)
    BY DEF Told2
  <2>3. Rec(y).lastmod \in Nat /\ Rec(y)'.lastmod \in Nat /\ Rec(y).lastmod <= Rec(y)'.lastmod
    BY <1>1, <2>1
  <2>4. LastSays(q[x][y], Rec(x).active, Rec(y)'.lastmod)
    BY <2>1, <2>2, <2>3, SaysOn
  <2>5. CASE queue'[x][y] = q[x][y] /\ Rec(x)'.active = Rec(x).active
    BY <2>4, <2>5
  <2>6. CASE queue'[x][y] # q[x][y]
    BY <1>5, <2>1, <2>6
  <2>7. CASE queue'[x][y] = q[x][y] /\ Rec(x)'.active # Rec(x).active
    <3>1. x = s /\ ~Alike(n, Rec(s))
      BY <2>7 DEF Alike
    <3>2. queue'[x][y] = Spread(q, s, one, n, x, y)
      BY <2>1, <3>1
    <3>3. y = one
      <4>1. ASSUME y # one PROVE FALSE
        <5>1. Append(q[x][y], m) = q[x][y]
          BY <2>7, <3>1, <3>2, <4>1 DEF Spread, m
        <5>2. Len(Append(q[x][y], m)) = Len(q[x][y]) + 1 /\ Len(q[x][y]) \in Nat
          BY <1>3, <2>1
        <5> QED
          BY <5>1, <5>2
      <4> QED
        BY <4>1
    <3>4. Rec(s).lastmod < Rec(y)'.lastmod
      BY <1>1, <2>1, <3>1, <3>3
    <3>5. AtMost(q[x][y], Rec(s).lastmod)
      BY <2>1, <3>1 DEF Told1
    <3> QED
      BY <1>1, <2>1, <2>3, <2>7, <3>4, <3>5, SaysOther
  <2> QED
    BY <2>5, <2>6, <2>7
<1>9. ASSUME NEW x \in Servers, NEW y \in Neighbours(x) PROVE Pending(queue, x, y)'
  <2>1. y \in Servers /\ y # x /\ x \in Neighbours(y)
    BY <1>1
  <2>2. CASE {x, y} = {s, one}
    <3>1. one # s /\ \/ x = s /\ y = one
                     \/ x = one /\ y = s
      <4>1. x \in {s, one} /\ y \in {s, one}
        BY <2>2
      <4> QED
        BY <2>1, <4>1
    <3>2. Alike(n, Rec(one)) \/ Holds(q[one][s])
      BY <2>1, <3>1
    <3> QED
      BY <1>6, <2>1, <3>1, <3>2 DEF Pending, Alike
  <2>3. CASE {x, y} # {s, one} /\ x # s /\ y # s
    <3>1. Pending(q, x, y)
      BY <2>3
    <3> QED
      BY <1>6, <2>1, <2>3, <3>1 DEF Pending
  <2>4. CASE {x, y} # {s, one} /\ (x = s \/ y = s)
    <3>1. PICK z \in Servers : /\ z \in Neighbours(s) \ {one}
                               /\ \/ x = s /\ y = z
                                  \/ x = z /\ y = s
      <4>1. CASE x = s
        <5>1. y # one
          BY <2>4, <4>1
        <5> QED
          BY <2>1, <4>1, <5>1
      <4>2. CASE y = s
        <5>1. x # one
          BY <2>4, <4>2
        <5> QED
          BY <2>1, <4>2, <5>1
      <4> QED
        BY <2>4, <4>1, <4>2
    <3>2. CASE \A a, b \in Servers : queue'[a][b] = Spread(q, s, one, n, a, b)
      <4>1. queue'[s][z] = Append(q[s][z], m)
        BY <3>1, <3>2 DEF Spread, m
      <4>2. Holds(queue'[s][z])
        <5>1. q[s][z] \in Seq(Message)
          BY <3>1
        <5> QED
          BY <1>3, <4>1, <5>1, AboutAdded
      <4> QED
        BY <3>1, <4>2 DEF Pending
    <3>3. CASE Alike(n, Rec(s))
      <4>1. Pending(q, x, y)
        BY <2>4
      <4> QED
        BY <1>6, <2>1, <3>1, <3>3, <4>1 DEF Pending, Alike
    <3> QED
      BY <3>2, <3>3
  <2> QED
    BY <2>2, <2>3, <2>4
<1> QED
  BY <1>2, <1>7, <1>8, <1>9

(* Nothing but what is not about the G-line is sent.                       *)
Adds(q) ==
    \A x, y \in Servers :
        \/ queue'[x][y] = q[x][y]
        \/ \E z \in Message : ~About(z) /\ queue'[x][y] = Append(q[x][y], z)

(* Telling the neighbours of another G-line                                *)
LEMMA PropagateAdds ==
  ASSUME NEW q \in Queues(Message), NEW s \in Servers, NEW t \in Servers, NEW one, now \in Nat,
         NEW m \in Masks, m # Mask, NEW r \in Record,
         \/ queue' = q
         \/ queue' = gline_propagate(q, s, one, m, r)
         \/ queue' = gline_resend(q, s, t, m, r)
  PROVE  Adds(q)
<1>1. Told(m, r) \in Message /\ ~About(Told(m, r))
  BY ToldOK DEF Message, About, Told, GL
<1>2. \/ queue' = q
      \/ queue' = ToServers(q, s, one, Told(m, r))
      \/ queue' = ToOne(q, s, t, Told(m, r))
  BY DEF gline_propagate, gline_resend, Told
<1>3. ASSUME NEW x \in Servers, NEW y \in Servers
      PROVE  queue'[x][y] = q[x][y] \/ queue'[x][y] = Append(q[x][y], Told(m, r))
  <2>1. CASE queue' = ToServers(q, s, one, Told(m, r))
    BY <2>1 DEF ToServers, Queues
  <2>2. CASE queue' = ToOne(q, s, t, Told(m, r))
    BY <2>2 DEF ToOne, Queues
  <2> QED
    BY <1>2, <2>1, <2>2
<1> QED
  BY <1>1, <1>3 DEF Adds

(* Changing another G-line                                                 *)
LEMMA ChangeAdds ==
  ASSUME Typed, NEW q \in Queues(Message), NEW s \in Servers, NEW one, NEW m \in Masks, m # Mask,
         NEW on \in BOOLEAN, NEW ttl \in Int, NEW lastmod \in Nat, NEW loc \in BOOLEAN,
         \/ gline_activate(q, s, one, m, lastmod, loc)
         \/ gline_deactivate(q, s, one, m, lastmod, loc)
         \/ gline_add(q, s, one, m, on, ttl, lastmod, loc)
  PROVE  Adds(q)
<1> DEFINE r == table[s][m]
<1>1. r \in Record /\ now \in Nat
  BY DEF Typed, Tables
<1>2. \E n \in Record : queue' = q \/ queue' = gline_propagate(q, s, one, m, n)
  <2>1. CASE gline_activate(q, s, one, m, lastmod, loc)
    <3>1. Activated(r, lastmod, loc) \in Record
      BY <1>1, ActivatedOK
    <3>2. \/ queue' = q
          \/ queue' = gline_propagate(q, s, one, m, Activated(r, lastmod, loc))
      BY <2>1 DEF gline_activate, Activated
    <3> QED
      BY <3>1, <3>2
  <2>2. CASE gline_deactivate(q, s, one, m, lastmod, loc)
    <3>1. Deactivated(r, lastmod, loc) \in Record
      BY <1>1, DeactivatedOK
    <3>2. \/ queue' = q
          \/ queue' = gline_propagate(q, s, one, m, Deactivated(r, lastmod, loc))
      BY <2>2 DEF gline_deactivate, Deactivated
    <3> QED
      BY <3>1, <3>2
  <2>3. CASE gline_add(q, s, one, m, on, ttl, lastmod, loc)
    <3>1. New(on, ttl, lastmod, loc) \in Record
      BY <1>1 DEF New, Record
    <3>2. \/ queue' = q
          \/ queue' = gline_propagate(q, s, one, m, New(on, ttl, lastmod, loc))
      BY <2>3 DEF gline_add, New
    <3> QED
      BY <3>1, <3>2
  <2> QED
    BY <2>1, <2>2, <2>3
<1> QED
  BY <1>1, <1>2, PropagateAdds

(* Reading about another G-line                                            *)
LEMMA MsGlineAdds ==
  ASSUME Typed, NEW q \in Queues(Message), NEW s \in Servers, NEW t \in Servers, NEW msg \in GLs,
         msg.mask # Mask, ms_gline(q, s, t, msg)
  PROVE  Adds(q)
<1> DEFINE m == msg.mask
           r == table[s][m]
           loc == msg.target = s
           l == Lastmod(msg)
           Sent(p) == \A x, y \in Servers : p[x][y] = q[x][y] \/ p[x][y] = Append(q[x][y], msg)
<1>1. /\ m \in Masks /\ msg.on \in BOOLEAN /\ msg.lastmod \in Nat /\ msg.ttl \in Int
      /\ msg.target \in Servers \cup {"*"} /\ msg \in Message /\ ~About(msg)
  BY DEF GLs, Message, About
<1>2. r \in Record /\ now \in Nat /\ l \in Nat /\ loc \in BOOLEAN /\ Ttl(msg) \in Int
  BY <1>1 DEF Typed, Tables, Lastmod, Ttl
<1>3. \/ queue' = q
      \/ queue' = ToOne(q, s, Route[s][msg.target], msg) /\ msg.target \in Servers
      \/ queue' = ToServers(q, s, t, msg)
      \/ queue' = gline_propagate(q, s, t, m, r)
      \/ queue' = gline_resend(q, s, t, m, r)
      \/ gline_activate(q, s, t, m, l, loc)
      \/ gline_deactivate(q, s, t, m, l, loc)
      \/ gline_add(q, s, t, m, msg.on, Ttl(msg), l, loc)
  BY <1>1, MsGlineCases
<1>4. Sent(queue') => Adds(q)
  BY <1>1 DEF Adds
<1> HIDE DEF m, r, loc, l
<1>5. CASE queue' = q \/ queue' = gline_propagate(q, s, t, m, r) \/ queue' = gline_resend(q, s, t, m, r)
  BY <1>1, <1>2, <1>5, PropagateAdds DEF m
<1>6. CASE queue' = ToOne(q, s, Route[s][msg.target], msg) /\ msg.target \in Servers
  <2>1. Route[s][msg.target] \in Servers
    BY <1>6, GlineAssumption
  <2>2. Sent(queue')
    BY <1>6, <2>1 DEF ToOne, Queues
  <2> QED
    BY <1>4, <2>2
<1>7. CASE queue' = ToServers(q, s, t, msg)
  <2>1. Sent(queue')
    BY <1>7 DEF ToServers, Queues
  <2> QED
    BY <1>4, <2>1
<1>8. CASE \/ gline_activate(q, s, t, m, l, loc)
           \/ gline_deactivate(q, s, t, m, l, loc)
           \/ gline_add(q, s, t, m, msg.on, Ttl(msg), l, loc)
  BY <1>1, <1>2, <1>8, ChangeAdds DEF m
<1> QED
  BY <1>3, <1>5, <1>6, <1>7, <1>8

(* An operator changes another G-line.                                     *)
LEMMA MoGlineAdds ==
  ASSUME Typed, NEW s \in Servers, NEW m \in Masks, m # Mask, NEW on \in BOOLEAN,
         NEW loc \in BOOLEAN, mo_gline(s, m, on, loc)
  PROVE  Adds(queue)
<1> DEFINE r == table[s][m]
           loc2  == loc \/ r.lastmod = 0
           stamp == IF r.lastmod = 0 THEN 0 ELSE now
<1>1. /\ r \in Record /\ now \in Nat /\ stamp \in Nat /\ loc2 \in BOOLEAN
      /\ queue \in Queues(Message) /\ Lifetime \in Int
  BY GlineAssumption DEF Typed, Tables
<1>2. \/ gline_activate(queue, s, s, m, stamp, loc2)
      \/ gline_deactivate(queue, s, s, m, stamp, loc2)
      \/ gline_add(queue, s, s, m, on, Lifetime, now, loc)
  BY DEF mo_gline
<1> HIDE DEF stamp, loc2
<1> QED
  BY <1>1, <1>2, ChangeAdds

(* What is added that is not about the G-line, after a message that is not *)
(* has been read, keeps what is under way of it.                           *)
LEMMA AddsKeep ==
  ASSUME queue \in Queues(Message), NEW q \in Queues(Message), Adds(q),
         \A x, y \in Servers : Keeps(q[x][y], queue[x][y])
  PROVE  \A x, y \in Servers : Keeps(queue'[x][y], queue[x][y])
<1> TAKE x, y \in Servers
<1>1. q[x][y] \in Seq(Message) /\ Keeps(q[x][y], queue[x][y])
  BY DEF Queues
<1>2. CASE queue'[x][y] = q[x][y]
  BY <1>1, <1>2
<1>3. ASSUME NEW z \in Message, ~About(z), queue'[x][y] = Append(q[x][y], z)
      PROVE  Keeps(queue'[x][y], queue[x][y])
  BY <1>1, <1>3, OtherAdded DEF Keeps
<1> QED
  BY <1>2, <1>3 DEF Adds

(* A new G-line is told to all neighbours but one.                         *)
LEMMA AddSpreads ==
  ASSUME GlobalChanges, NEW q \in Queues(Message), NEW s \in Servers, NEW one,
         NEW on, NEW ttl, NEW lastmod, NEW loc, ~loc,
         gline_add(q, s, one, Mask, on, ttl, lastmod, loc)
  PROVE  \A x, y \in Servers : queue'[x][y] = Spread(q, s, one, New(on, ttl, lastmod, loc), x, y)
<1> DEFINE n == New(on, ttl, lastmod, loc)
<1>1. queue' = gline_propagate(q, s, one, Mask, n)
  <2>1. ~Outlived(s, Mask, n)
    BY NotOutlived
  <2> QED
    BY <2>1 DEF gline_add, New
<1>2. ~n.local
  BY DEF New
<1> HIDE DEF n
<1>3. queue' = ToServers(q, s, one, Told(Mask, n))
  BY <1>1, <1>2 DEF gline_propagate, Told
<1>4. \A x, y \in Servers : queue'[x][y] = Spread(q, s, one, n, x, y)
  BY <1>3 DEF ToServers, Queues, Spread
<1> QED
  BY <1>4 DEF n

(* One that is switched is told to them if its state changes.              *)
LEMMA SwitchSpreads ==
  ASSUME GlobalChanges, IInv, NEW q \in Queues(Message), NEW s \in Servers, NEW one,
         NEW on \in BOOLEAN, NEW lastmod \in Nat, NEW loc \in BOOLEAN, ~loc,
         ~Rec(s).local, ~Rec(s).ldeact, Rec(s).lastmod # 0, Rec(s).lastmod < lastmod,
         NEW n, n = IF on THEN Activated(Rec(s), lastmod, loc) ELSE Deactivated(Rec(s), lastmod, loc),
         IF on THEN gline_activate(q, s, one, Mask, lastmod, loc)
               ELSE gline_deactivate(q, s, one, Mask, lastmod, loc)
  PROVE  \/ \A x, y \in Servers : queue'[x][y] = Spread(q, s, one, n, x, y)
         \/ queue' = q /\ Alike(n, Rec(s))
<1> DEFINE r == Rec(s)
<1>1. r \in Record /\ r.active \in BOOLEAN /\ r.lastmod \in Nat
  BY Types
<1>2. n \in Record /\ n.lastmod = lastmod /\ ~n.local /\ (n.active <=> on)
  <2>1. VersionOf(n) = Version(lastmod, on) /\ n \in Record /\ n.lastmod = lastmod /\ ~n.local
    BY <1>1, SwitchedTo
  <2>2. VersionOf(n).on = n.active /\ Version(lastmod, on).on = on
    BY DEF VersionOf, Version
  <2> QED
    BY <2>1, <2>2
<1>3. \/ queue' = gline_propagate(q, s, one, Mask, n)
      \/ queue' = q /\ r.active = on
  <2>1. CASE on
    <3>1. n = Activated(table[s][Mask], lastmod, loc) /\ gline_activate(q, s, one, Mask, lastmod, loc)
      BY <2>1 DEF Rec
    <3>2. \/ queue' = gline_propagate(q, s, one, Mask, n)
          \/ queue' = q /\ GlineIsActive(table[s][Mask])
      BY <3>1 DEF gline_activate, Activated
    <3> QED
      BY <1>1, <2>1, <3>2 DEF GlineIsActive, Rec
  <2>2. CASE ~on
    <3>1. n = Deactivated(table[s][Mask], lastmod, loc) /\ gline_deactivate(q, s, one, Mask, lastmod, loc)
      BY <2>2 DEF Rec
    <3>2. \/ queue' = gline_propagate(q, s, one, Mask, n)
          \/ queue' = q /\ ~GlineIsActive(table[s][Mask])
      BY <3>1 DEF gline_deactivate, Deactivated
    <3> QED
      BY <1>1, <2>2, <3>2 DEF GlineIsActive, Rec
  <2> QED
    BY <2>1, <2>2
<1>4. CASE queue' = gline_propagate(q, s, one, Mask, n)
  <2>1. queue' = ToServers(q, s, one, Told(Mask, n))
    BY <1>2, <1>4 DEF gline_propagate, Told
  <2> QED
    BY <2>1 DEF ToServers, Queues, Spread
<1>5. CASE queue' = q /\ r.active = on
  <2>1. n.active \in BOOLEAN
    BY <1>2 DEF Record
  <2> QED
    BY <1>1, <1>2, <1>5, <2>1 DEF Alike
<1> QED
  BY <1>3, <1>4, <1>5

(* What a server does with a message about the G-line, when nothing but    *)
(* global changes are made and no burst is under way                       *)
LEMMA MsGlineExact ==
  ASSUME GlobalChanges, IInv, RInv, NEW s \in Servers, NEW t \in Servers, inBurst[s] = {},
         NEW msg \in Fit(now, bound.stamp, Versions), About(msg), NEW q, ms_gline(q, s, t, msg)
  PROVE  LET loc == msg.target = s
             l   == msg.lastmod
         IN  \/ /\ Rec(s) = NoGline
                /\ gline_add(q, s, t, Mask, msg.on, msg.ttl, l, loc)
             \/ /\ Rec(s).lastmod # 0 /\ Rec(s).lastmod < l
                /\ ~Rec(s).local /\ ~Rec(s).ldeact
                /\ IF msg.on THEN gline_activate(q, s, t, Mask, l, loc)
                             ELSE gline_deactivate(q, s, t, Mask, l, loc)
             \/ Rec(s).lastmod = l /\ queue' = q /\ UNCHANGED table
             \/ /\ Rec(s).lastmod > l /\ UNCHANGED table
                /\ queue' = ToOne(q, s, t, Told(Mask, Rec(s)))
<1> DEFINE r == Rec(s)
           l == msg.lastmod
<1>1. /\ msg \in GLs /\ msg.target = "*" /\ msg.mask = Mask /\ msg.lastmod \in 1 .. bound.stamp
  BY DEF Fit, About, Message, GLs, EB, EA
<1>2. msg.on \in BOOLEAN /\ l \in Nat /\ l # 0 /\ msg.target # s
  BY <1>1, GlineAssumption DEF GLs
<1>3. /\ r \in Record
      /\ \/ r = NoGline /\ ~Present(r)
         \/ /\ Present(r) /\ ~r.local /\ ~r.ldeact /\ r.lastmod \in 1 .. bound.stamp
  BY HasKept DEF Rec
<1>4. r.lastmod \in Nat
  BY <1>3 DEF Record
<1>5. table[s][msg.mask] = r
  BY <1>1 DEF Rec
<1> HIDE DEF r, l
<1>6. CASE ~Present(r)
  <2>1. gline_add(q, s, t, Mask, msg.on, msg.ttl, l, msg.target = s)
    BY <1>1, <1>2, <1>5, <1>6 DEF ms_gline, l
  <2> QED
    BY <1>3, <1>6, <2>1 DEF r, l
<1>7. CASE Present(r) /\ r.lastmod < l
  <2>1. IF msg.on THEN gline_activate(q, s, t, Mask, l, msg.target = s)
                  ELSE gline_deactivate(q, s, t, Mask, l, msg.target = s)
    BY <1>1, <1>2, <1>3, <1>5, <1>7, Free DEF ms_gline, l
  <2>2. r.lastmod # 0 /\ ~r.local /\ ~r.ldeact
    BY <1>3, <1>7, Free
  <2> QED
    BY <1>7, <2>1, <2>2 DEF r, l
<1>8. CASE Present(r) /\ r.lastmod = l
  <2>1. queue' = q /\ UNCHANGED table
    BY <1>1, <1>2, <1>3, <1>4, <1>5, <1>8, Free DEF ms_gline, l, Ignored
  <2> QED
    BY <1>8, <2>1 DEF r, l
<1>9. CASE Present(r) /\ r.lastmod > l
  <2>1. ~Ignored(s, t, r, l)
    BY <1>2, <1>4, <1>9 DEF Ignored
  <2>2. queue' = gline_resend(q, s, t, Mask, r) /\ UNCHANGED table
    BY <1>1, <1>2, <1>3, <1>4, <1>5, <1>9, <2>1, Free DEF ms_gline, l
  <2>3. r.lastmod # 0 /\ ~r.local
    BY <1>2, <1>3, <1>4, <1>9
  <2>4. queue' = ToOne(q, s, t, Told(Mask, r))
    BY <2>2, <2>3 DEF gline_resend, Told
  <2> QED
    BY <1>9, <2>2, <2>4 DEF r, l
<1> QED
  BY <1>2, <1>4, <1>6, <1>7, <1>8, <1>9

(* What the step of an operator leaves under way                           *)
LEMMA MoGlineSettles ==
  ASSUME GlobalChanges, IInv, IInv', RInv, SInv, NEW s \in Servers, NEW m \in Masks,
         NEW on \in BOOLEAN, NEW loc \in BOOLEAN, mo_gline(s, m, on, loc)
  PROVE  SInv'
<1>1. /\ Typed /\ now \in Nat /\ bound.stamp \in Nat /\ now \in 1 .. MaxTime
      /\ MaxTime \in Nat /\ Lifetime \in Int /\ queue \in Queues(Message) /\ Mask \in Masks
      /\ latest \in [Masks -> {"none", "+", "-"}]
      /\ up = Edges /\ \A x \in Servers : inBurst[x] = {}
  BY GlineAssumption DEF IInv, Typed, RInv, GlobalChanges, SInv
<1>2. ~loc /\ now > bound.stamp /\ up' = up /\ inBurst' = inBurst /\ now' = now
  BY DEF mo_gline, GlobalChanges
<1>3. latest' \in [Masks -> {"none", "+", "-"}]
  BY <1>1 DEF mo_gline
<1>4. CASE m # Mask
  <2>1. Effect(s, m)
    <3>1. \A x \in GLs : x.mask = m => x \in Message
      BY DEF Message
    <3> QED
      BY <1>1, <3>1, MoGlineOK
  <2>2. \A x \in Servers : Rec(x)' = Rec(x)
    BY <1>1, <1>4, <2>1 DEF Effect, GlobalChanges, Rec
  <2>3. \A x, y \in Servers : Keeps(queue'[x][y], queue[x][y])
    <3>1. \A x, y \in Servers : Keeps(queue[x][y], queue[x][y])
      BY DEF Keeps
    <3> QED
      BY <1>1, <1>4, <3>1, MoGlineAdds, AddsKeep
  <2>4. latest'[Mask] = latest[Mask]
    BY <1>1, <1>4 DEF mo_gline
  <2> QED
    BY <1>1, <1>2, <1>3, <2>2, <2>3, <2>4, OtherStep
<1>5. CASE m = Mask
  <2> DEFINE r == Rec(s)
  <2>1. /\ r \in Record /\ r = table[s][Mask]
        /\ \/ r = NoGline /\ ~Present(r)
           \/ /\ Present(r) /\ ~r.local /\ ~r.ldeact
              /\ r.lastmod \in 1 .. bound.stamp
    BY HasKept DEF Rec
  <2>2. \A x \in Servers : Rec(x).lastmod \in Nat /\ Rec(x).lastmod < now
    <3> TAKE x \in Servers
    <3>1. Kept(Rec(x), bound.stamp) /\ Rec(x).lastmod \in Nat
      BY Types DEF RInv, Rec
    <3> QED
      BY <1>1, <1>2, <3>1, Free DEF Kept
  <2>3. \E n \in Record :
           /\ n.lastmod = now /\ (n.active <=> on)
           /\ \A x \in Servers : Rec(x)' = IF x = s THEN n ELSE Rec(x)
           /\ \/ \A x, y \in Servers : queue'[x][y] = Spread(queue, s, s, n, x, y)
              \/ queue' = queue /\ Alike(n, Rec(s))
    <3>1. CASE r = NoGline /\ ~Present(r)
      <4> DEFINE n == New(on, Lifetime, now, loc)
      <4>1. gline_add(queue, s, s, Mask, on, Lifetime, now, loc)
        BY <1>5, <2>1, <3>1 DEF mo_gline
      <4>2. n \in Record /\ n.lastmod = now /\ (n.active <=> on)
        BY <1>1 DEF New, Record
      <4>3. \A x \in Servers : table'[x][Mask] = IF x = s THEN n ELSE table[x][Mask]
        <5>1. GL(Mask, on, now, Lifetime) \in Message
          BY <1>1 DEF GL, GLs, Message
        <5>2. table[s][Mask] = NoGline
          BY <2>1, <3>1
        <5> HIDE DEF r, n
        <5> QED
          BY <1>1, <1>2, <4>1, <5>1, <5>2, Added DEF n
      <4>4. \A x, y \in Servers : queue'[x][y] = Spread(queue, s, s, n, x, y)
        BY <1>1, <1>2, <4>1, AddSpreads
      <4> QED
        BY <4>2, <4>3, <4>4 DEF Rec
    <3>2. CASE /\ Present(r) /\ ~r.local /\ ~r.ldeact
               /\ r.lastmod \in 1 .. bound.stamp
      <4> DEFINE n == IF on THEN Activated(r, now, loc) ELSE Deactivated(r, now, loc)
      <4>1. r.lastmod # 0 /\ r.lastmod < now
        BY <1>1, <2>2, <3>2
      <4>2. IF on THEN gline_activate(queue, s, s, Mask, now, loc)
                  ELSE gline_deactivate(queue, s, s, Mask, now, loc)
        <5>1. (loc \/ r.lastmod = 0) = loc
          BY <4>1
        <5> QED
          BY <1>5, <2>1, <3>2, <4>1, <5>1 DEF mo_gline
      <4>3. n \in Record /\ n.lastmod = now /\ VersionOf(n) = Version(now, on)
        BY <1>1, <1>2, <2>1, <3>2, <4>1, SwitchedTo
      <4>4. n.active <=> on
        <5>1. VersionOf(n).on = n.active /\ Version(now, on).on = on
          BY DEF VersionOf, Version
        <5> QED
          BY <4>3, <5>1
      <4>5. n = IF on THEN Activated(r, now, loc) ELSE Deactivated(r, now, loc)
        OBVIOUS
      <4> HIDE DEF n
      <4>6. \A x \in Servers : table'[x][Mask] = IF x = s THEN n ELSE table[x][Mask]
        <5>1. Told(Mask, n) \in Message
          BY <1>1, <4>3, ToldOK DEF Message
        <5> QED
          BY <1>1, <1>2, <2>1, <3>2, <4>1, <4>2, <4>5, <5>1, Switched
      <4>7. \/ \A x, y \in Servers : queue'[x][y] = Spread(queue, s, s, n, x, y)
            \/ queue' = queue /\ Alike(n, Rec(s))
        BY <1>1, <1>2, <3>2, <4>1, <4>2, <4>5, SwitchSpreads
      <4> QED
        BY <4>3, <4>4, <4>6, <4>7 DEF Rec
    <3> QED
      BY <2>1, <3>1, <3>2
  <2>4. PICK n \in Record :
           /\ n.lastmod = now /\ (n.active <=> on)
           /\ \A x \in Servers : Rec(x)' = IF x = s THEN n ELSE Rec(x)
           /\ \/ \A x, y \in Servers : queue'[x][y] = Spread(queue, s, s, n, x, y)
              \/ queue' = queue /\ Alike(n, Rec(s))
    BY <2>3
  <2>5. /\ Told1(queue)' /\ Told2(queue)'
        /\ \A x \in Servers : \A y \in Neighbours(x)' : Pending(queue, x, y)'
    <3>1. \A x, y \in Servers : queue[x][y] \in Seq(Message)
      BY Types
    <3>2. /\ Told1(queue) /\ Told2(queue)
          /\ \A x \in Servers : \A y \in Neighbours(x) : Pending(queue, x, y)
      BY DEF SInv
    <3>3. s \notin Neighbours(s)
      BY Types
    <3>4. n.lastmod > Rec(s).lastmod
      BY <2>2, <2>4
    <3> QED
      BY <1>2, <2>4, <3>1, <3>2, <3>3, <3>4, Settles
  <2>6. latest'[Mask] = IF on THEN "+" ELSE "-"
    <3>1. Present(r) => r.lastmod # 0
      BY <1>1, <2>1
    <3> QED
      BY <1>1, <1>2, <1>5, <2>1, <3>1 DEF mo_gline
  <2>7. Newest(s)'
    <3>1. Rec(s)'.lastmod > 0 /\ (Rec(s)'.active <=> latest'[Mask] = "+")
      BY <1>1, <2>4, <2>6
    <3>2. \A t \in Servers : Rec(t)'.lastmod <= Rec(s)'.lastmod
      BY <1>1, <2>2, <2>4
    <3> QED
      BY <3>1, <3>2 DEF Newest
  <2> QED
    BY <1>1, <1>2, <1>3, <2>5, <2>7 DEF SInv
<1> QED
  BY <1>4, <1>5

(* Reading what is not about the G-line                                    *)
LEMMA ReadOther ==
  ASSUME GlobalChanges, IInv, RInv, SInv, NEW s \in Servers, NEW t \in Servers,
         Receive(t, s), ~About(Head(queue[t][s]))
  PROVE  SInv'
<1> DEFINE msg == Head(queue[t][s])
           q   == [queue EXCEPT ![t][s] = Tail(@)]
<1>1. /\ Typed /\ queue \in Queues(Message) /\ queue[t][s] # <<>> /\ Mask \in Masks
      /\ queue[t][s] \in Seq(Message)
      /\ latest' = latest /\ up' = up /\ inBurst = [x \in Servers |-> {}]
  BY DEF IInv, Typed, GlobalChanges, Receive, SInv, Queues
<1>2. msg \in Fit(now, bound.stamp, Versions)
  <2> DEFINE M == Fit(now, bound.stamp, Versions)
  <2>1. queue \in Queues(M)
    BY DEF RInv
  <2> HIDE DEF M
  <2>2. msg \in M
    BY <1>1, <2>1, ReadIn
  <2> QED
    BY <2>2 DEF M
<1>3. q \in Queues(Message)
  BY <1>1, ReadIn
<1>4. msg \in Message /\ msg.type \in {"GL", "EB", "EA"} /\ (msg.type = "GL" => msg \in GLs)
  BY <1>2 DEF Fit, Message, GLs, EB, EA
<1>5. \A x, y \in Servers : Keeps(q[x][y], queue[x][y])
  <2>1. Keeps(Tail(queue[t][s]), queue[t][s])
    BY <1>1, FirstRead DEF Keeps
  <2>2. \A x, y \in Servers : q[x][y] = IF x = t /\ y = s THEN Tail(queue[t][s]) ELSE queue[x][y]
    BY <1>1 DEF Queues
  <2>3. \A x, y \in Servers : Keeps(queue[x][y], queue[x][y])
    BY DEF Keeps
  <2> HIDE DEF q
  <2> QED
    BY <2>1, <2>2, <2>3
<1>6. \/ /\ msg.type = "GL" /\ ms_gline(q, s, t, msg)
         /\ UNCHANGED inBurst
      \/ queue' = ToOne(q, s, t, EA) /\ UNCHANGED <<table, inBurst>>
      \/ /\ queue' = q /\ UNCHANGED table
         /\ inBurst' = [inBurst EXCEPT ![s] = @ \ {t}]
  BY <1>4 DEF Receive
<1> HIDE DEF msg, q
<1>7. inBurst' = inBurst
  BY <1>1, <1>6
<1>8. Adds(q) /\ \A x \in Servers : Rec(x)' = Rec(x)
  <2>1. CASE msg.type = "GL" /\ ms_gline(q, s, t, msg)
    <3>1. msg \in GLs /\ msg.mask # Mask /\ msg.mask \in Masks
      <4>1. msg \in GLs /\ ~About(msg)
        BY <1>4, <2>1 DEF msg
      <4> QED
        BY <2>1, <4>1 DEF GLs, About
    <3>2. Effect(s, msg.mask)
      <4>1. \A x \in GLs : x.mask = msg.mask => x \in Message
        BY DEF Message
      <4> QED
        BY <1>1, <1>3, <2>1, <3>1, <4>1, MsGlineOK
    <3>3. Adds(q)
      BY <1>1, <1>3, <2>1, <3>1, MsGlineAdds
    <3> QED
      BY <1>1, <3>1, <3>2, <3>3 DEF Effect, GlobalChanges, Rec
  <2>2. CASE queue' = ToOne(q, s, t, EA) /\ UNCHANGED table
    <3>1. EA \in Message /\ ~About(EA)
      BY DEF Message, About, EA
    <3>2. \A x, y \in Servers : queue'[x][y] = q[x][y] \/ queue'[x][y] = Append(q[x][y], EA)
      BY <1>3, <2>2 DEF ToOne, Queues
    <3> QED
      BY <2>2, <3>1, <3>2 DEF Adds, Rec
  <2>3. CASE queue' = q /\ UNCHANGED table
    BY <2>3 DEF Adds, Rec
  <2> QED
    BY <1>6, <2>1, <2>2, <2>3
<1>9. \A x, y \in Servers : Keeps(queue'[x][y], queue[x][y])
  BY <1>1, <1>3, <1>5, <1>8, AddsKeep
<1>10. latest' \in [Masks -> {"none", "+", "-"}] /\ latest'[Mask] = latest[Mask]
  BY <1>1 DEF SInv
<1> QED
  BY <1>1, <1>7, <1>8, <1>9, <1>10, OtherStep

(* Reading about the G-line                                                *)
LEMMA ReadAbout ==
  ASSUME GlobalChanges, IInv, IInv', RInv, SInv, Entry!OneStatePerVersion,
         NEW s \in Servers, NEW t \in Servers, Receive(t, s), About(Head(queue[t][s]))
  PROVE  SInv'
<1> DEFINE msg == Head(queue[t][s])
           q   == [queue EXCEPT ![t][s] = Tail(@)]
           l   == msg.lastmod
           loc == msg.target = s
<1>1. /\ Typed /\ queue \in Queues(Message) /\ queue[t][s] # <<>> /\ Mask \in Masks
      /\ queue[t][s] \in Seq(Message) /\ now \in Nat
      /\ latest' = latest /\ up' = up /\ inBurst[s] = {} /\ up = Edges
      /\ inBurst = [x \in Servers |-> {}]
      /\ latest \in [Masks -> {"none", "+", "-"}]
      /\ Told1(queue) /\ Told2(queue)
      /\ \A x \in Servers : \A y \in Neighbours(x) : Pending(queue, x, y)
  BY DEF IInv, Typed, GlobalChanges, Receive, SInv, Queues
<1>2. msg \in Fit(now, bound.stamp, Versions)
  <2> DEFINE M == Fit(now, bound.stamp, Versions)
  <2>1. queue \in Queues(M)
    BY DEF RInv
  <2> HIDE DEF M
  <2>2. msg \in M
    BY <1>1, <2>1, ReadIn
  <2> QED
    BY <2>2 DEF M
<1>3. q \in Queues(Message)
  BY <1>1, ReadIn
<1>4. /\ msg \in GLs /\ msg.type = "GL" /\ msg.target = "*" /\ msg.mask = Mask
      /\ l \in Nat /\ l # 0 /\ msg.on \in BOOLEAN /\ msg.ttl \in Int /\ ~loc
      /\ Version(l, msg.on) \in Versions
  BY <1>2, GlineAssumption DEF Fit, About, Message, GLs, EB, EA
<1>5. ms_gline(q, s, t, msg) /\ inBurst' = inBurst
  BY <1>4 DEF Receive
<1>6. \A x, y \in Servers : q[x][y] = IF x = t /\ y = s THEN Tail(queue[t][s]) ELSE queue[x][y]
  BY <1>1 DEF Queues
<1>7. /\ \A at : AtMost(queue[t][s], at) => AtMost(Tail(queue[t][s]), at) /\ l <= at
      /\ \A on, at : LastSays(queue[t][s], on, at) => LastSays(Tail(queue[t][s]), on, at)
      /\ \A on, at : LastSays(queue[t][s], on, at) =>
                        Holds(Tail(queue[t][s])) \/ msg.on = on \/ l < at
  BY <1>1, FirstRead
<1>8. /\ \A x \in Servers : /\ Rec(x) \in Record /\ Rec(x).lastmod \in Nat
                            /\ Rec(x).active \in BOOLEAN
                            /\ Neighbours(x) \subseteq Servers /\ x \notin Neighbours(x)
      /\ \A x \in Servers : \A y \in Neighbours(x) : x \in Neighbours(y)
      /\ \A x, y \in Servers : q[x][y] \in Seq(Message)
  BY <1>3, Types DEF Queues
<1>9. \/ /\ Rec(s) = NoGline
         /\ gline_add(q, s, t, Mask, msg.on, msg.ttl, l, loc)
      \/ /\ Rec(s).lastmod # 0 /\ Rec(s).lastmod < l
         /\ ~Rec(s).local /\ ~Rec(s).ldeact
         /\ IF msg.on THEN gline_activate(q, s, t, Mask, l, loc)
                      ELSE gline_deactivate(q, s, t, Mask, l, loc)
      \/ Rec(s).lastmod = l /\ queue' = q /\ UNCHANGED table
      \/ /\ Rec(s).lastmod > l /\ UNCHANGED table
         /\ queue' = ToOne(q, s, t, Told(Mask, Rec(s)))
  BY <1>1, <1>2, <1>5, MsGlineExact
<1> HIDE DEF msg, q, l, loc
<1>10. Told1(q)
  BY <1>1, <1>6, <1>7 DEF Told1
<1>11. Told2(q)
  BY <1>1, <1>6, <1>7, <1>8 DEF Told2
<1>12. \A x \in Servers : \A y \in Neighbours(x) : {x, y} # {s, t} => Pending(q, x, y)
  <2> SUFFICES ASSUME NEW x \in Servers, NEW y \in Neighbours(x), {x, y} # {s, t}
               PROVE  Pending(q, x, y)
    OBVIOUS
  <2>1. ~(x = s /\ y = t) /\ ~(x = t /\ y = s) /\ y \in Servers
    BY <1>8
  <2>2. q[x][y] = queue[x][y] /\ q[y][x] = queue[y][x]
    BY <1>6, <2>1
  <2> QED
    BY <1>1, <2>2 DEF Pending
<1>13. Rec(t).lastmod >= l /\ Rec(t).lastmod # 0
  <2>1. AtMost(queue[t][s], Rec(t).lastmod)
    BY <1>1 DEF Told1
  <2> QED
    BY <1>4, <1>7, <1>8, <2>1
<1>14. t \in Neighbours(s) => Holds(q[t][s]) \/ msg.on = Rec(t).active \/ l < Rec(s).lastmod
  <2> SUFFICES ASSUME t \in Neighbours(s)
               PROVE  Holds(q[t][s]) \/ msg.on = Rec(t).active \/ l < Rec(s).lastmod
    OBVIOUS
  <2>1. LastSays(queue[t][s], Rec(t).active, Rec(s).lastmod)
    BY <1>1, <1>8 DEF Told2
  <2> QED
    BY <1>6, <1>7, <2>1
<1>15. SUFFICES /\ Told1(queue)' /\ Told2(queue)'
                /\ \A x \in Servers : \A y \in Neighbours(x)' : Pending(queue, x, y)'
                /\ \A x \in Servers : \/ Rec(x)'.lastmod = Rec(x).lastmod /\ Rec(x)' = Rec(x)
                                      \/ /\ x = s /\ l > Rec(s).lastmod /\ Rec(s)'.lastmod = l
  <2>1. ASSUME NEW z \in Servers, Newest(z) PROVE Newest(z)'
    <3>1. z # s \/ Rec(s)' = Rec(s)
      BY <1>4, <1>8, <1>13, <1>15, <2>1 DEF Newest
    <3>2. Rec(z)' = Rec(z)
      BY <1>15, <3>1
    <3>3. \A x \in Servers : Rec(x)'.lastmod <= Rec(z)'.lastmod
      BY <1>4, <1>8, <1>13, <1>15, <2>1, <3>2 DEF Newest
    <3> QED
      BY <1>1, <2>1, <3>2, <3>3 DEF Newest
  <2> QED
    BY <1>1, <1>5, <1>15, <2>1 DEF SInv
<1>16. ASSUME l > Rec(s).lastmod, NEW n \in Record, n.lastmod = l, n.active <=> msg.on,
              \A x \in Servers : Rec(x)' = IF x = s THEN n ELSE Rec(x),
              \/ \A x, y \in Servers : queue'[x][y] = Spread(q, s, t, n, x, y)
              \/ queue' = q /\ Alike(n, Rec(s))
       PROVE  /\ Told1(queue)' /\ Told2(queue)'
              /\ \A x \in Servers : \A y \in Neighbours(x)' : Pending(queue, x, y)'
              /\ \A x \in Servers : \/ Rec(x)'.lastmod = Rec(x).lastmod /\ Rec(x)' = Rec(x)
                                    \/ /\ x = s /\ l > Rec(s).lastmod /\ Rec(s)'.lastmod = l
  <2>1. t \in Neighbours(s) => Alike(n, Rec(t)) \/ Holds(q[t][s])
    <3>1. n.active \in BOOLEAN
      BY <1>16 DEF Record
    <3> QED
      BY <1>4, <1>8, <1>13, <1>14, <1>16, <3>1 DEF Alike
  <2>2. /\ Told1(queue)' /\ Told2(queue)'
        /\ \A x \in Servers : \A y \in Neighbours(x)' : Pending(queue, x, y)'
    <3>1. /\ n.lastmod > Rec(s).lastmod /\ up' = up
          /\ t # s => Rec(t).lastmod >= n.lastmod
      BY <1>1, <1>13, <1>16
    <3>2. \A x, y \in Servers : q[x][y] \in Seq(Message)
      BY <1>8
    <3>3. \/ \A x, y \in Servers : queue'[x][y] = Spread(q, s, t, n, x, y)
          \/ /\ \A x, y \in Servers : queue'[x][y] = q[x][y]
             /\ Alike(n, Rec(s))
      BY <1>16
    <3>4. \A x \in Servers : Rec(x)' = IF x = s THEN n ELSE Rec(x)
      BY <1>16
    <3> QED
      BY <1>10, <1>11, <1>12, <1>16, <2>1, <3>1, <3>2, <3>3, <3>4, Settles, ZenonT(60)
  <2> QED
    BY <1>16, <2>2
<1>17. CASE /\ Rec(s) = NoGline
            /\ gline_add(q, s, t, Mask, msg.on, msg.ttl, l, loc)
  <2> DEFINE n == New(msg.on, msg.ttl, l, loc)
  <2>1. n \in Record /\ n.lastmod = l /\ (n.active <=> msg.on)
    BY <1>1, <1>4 DEF New, Record, loc
  <2>2. \A x \in Servers : table'[x][Mask] = IF x = s THEN n ELSE table[x][Mask]
    <3> DEFINE on  == msg.on
               ttl == msg.ttl
    <3>1. GL(Mask, on, l, ttl) \in Message
      BY <1>1, <1>4 DEF GL, GLs, Message
    <3>2. table[s][Mask] = NoGline /\ on \in BOOLEAN /\ ttl \in Int /\ loc \in BOOLEAN
      BY <1>4, <1>17 DEF Rec, loc
    <3>3. gline_add(q, s, t, Mask, on, ttl, l, loc)
      BY <1>17
    <3> HIDE DEF on, ttl
    <3>4. q \in Queues(Message) /\ l \in Nat /\ ~loc
      BY <1>3, <1>4
    <3> DEFINE M == Message
    <3>5. q \in Queues(M) /\ GL(Mask, on, l, ttl) \in M
      BY <3>1, <3>4
    <3> HIDE DEF M
    <3>6. /\ queue' \in Queues(M)
          /\ \A x \in Servers : table'[x][Mask] = IF x = s THEN New(on, ttl, l, loc) ELSE table[x][Mask]
      BY <3>2, <3>3, <3>4, <3>5, Added
    <3> QED
      BY <3>6 DEF on, ttl
  <2>3. \A x, y \in Servers : queue'[x][y] = Spread(q, s, t, n, x, y)
    BY <1>3, <1>4, <1>17, AddSpreads
  <2>4. l > Rec(s).lastmod
    BY <1>4, <1>17, Free
  <2> HIDE DEF n
  <2> QED
    BY <1>16, <2>1, <2>2, <2>3, <2>4 DEF Rec
<1>18. CASE /\ Rec(s).lastmod # 0 /\ Rec(s).lastmod < l
            /\ ~Rec(s).local /\ ~Rec(s).ldeact
            /\ IF msg.on THEN gline_activate(q, s, t, Mask, l, loc)
                         ELSE gline_deactivate(q, s, t, Mask, l, loc)
  <2> DEFINE on == msg.on
             n  == IF on THEN Activated(Rec(s), l, loc) ELSE Deactivated(Rec(s), l, loc)
  <2>1. /\ on \in BOOLEAN /\ loc \in BOOLEAN /\ Rec(s) \in Record /\ Rec(s) = table[s][Mask]
        /\ IF on THEN gline_activate(q, s, t, Mask, l, loc) ELSE gline_deactivate(q, s, t, Mask, l, loc)
    BY <1>4, <1>8, <1>18 DEF Rec, loc
  <2>2. n = IF on THEN Activated(Rec(s), l, loc) ELSE Deactivated(Rec(s), l, loc)
    OBVIOUS
  <2> HIDE DEF n, on
  <2>3. n \in Record /\ n.lastmod = l /\ VersionOf(n) = Version(l, on)
    BY <1>4, <1>18, <2>1, <2>2, SwitchedTo
  <2>4. n.active <=> on
    <3>1. VersionOf(n).on = n.active /\ Version(l, on).on = on
      BY DEF VersionOf, Version
    <3> QED
      BY <2>3, <3>1
  <2>5. \A x \in Servers : table'[x][Mask] = IF x = s THEN n ELSE table[x][Mask]
    <3>1. Told(Mask, n) \in Message
      BY <1>1, <2>3, ToldOK DEF Message
    <3>2. /\ n = IF on THEN Activated(table[s][Mask], l, loc) ELSE Deactivated(table[s][Mask], l, loc)
          /\ ~table[s][Mask].local /\ ~table[s][Mask].ldeact /\ table[s][Mask].lastmod # 0
          /\ table[s][Mask].lastmod < l
      BY <1>18, <2>1, <2>2
    <3> QED
      BY <1>3, <1>4, <2>1, <3>1, <3>2, Switched
  <2>6. \/ \A x, y \in Servers : queue'[x][y] = Spread(q, s, t, n, x, y)
        \/ queue' = q /\ Alike(n, Rec(s))
    <3>1. q \in Queues(Message) /\ l \in Nat /\ ~loc /\ on \in BOOLEAN /\ loc \in BOOLEAN
      BY <1>3, <1>4, <2>1
    <3>2. ~Rec(s).local /\ ~Rec(s).ldeact /\ Rec(s).lastmod # 0 /\ Rec(s).lastmod < l
      BY <1>18
    <3>3. IF on THEN gline_activate(q, s, t, Mask, l, loc) ELSE gline_deactivate(q, s, t, Mask, l, loc)
      BY <2>1
    <3> QED
      BY <2>2, <3>1, <3>2, <3>3, SwitchSpreads
  <2> QED
    BY <1>16, <1>18, <1>8, <1>4, <2>3, <2>4, <2>5, <2>6 DEF Rec, on
<1>19. CASE Rec(s).lastmod = l /\ queue' = q /\ UNCHANGED table
  <2>1. Neighbours(s)' = Neighbours(s) /\ \A x \in Servers : Neighbours(x)' = Neighbours(x) /\ Rec(x)' = Rec(x)
    BY <1>1, <1>19 DEF Neighbours, Rec
  <2>2. msg.on = Rec(s).active
    <3>1. VersionOf(Rec(s)) \in Versions
      BY HasKept DEF Rec
    <3>2. VersionOf(Rec(s)).at = Version(l, msg.on).at
      BY <1>19 DEF VersionOf, Version
    <3>3. VersionOf(Rec(s)) = Version(l, msg.on)
      BY <1>4, <3>1, <3>2 DEF Entry!OneStatePerVersion
    <3>4. VersionOf(Rec(s)).on = Rec(s).active /\ Version(l, msg.on).on = msg.on
      BY DEF VersionOf, Version
    <3> QED
      BY <3>3, <3>4
  <2>3. ASSUME NEW x \in Servers, NEW y \in Neighbours(x) PROVE Pending(q, x, y)
    <3>1. CASE {x, y} # {s, t}
      BY <1>12, <3>1
    <3>2. CASE {x, y} = {s, t}
      <4>1. x \in {s, t} /\ y \in {s, t} /\ x # y
        BY <1>8, <3>2
      <4>2. \/ x = s /\ y = t
            \/ x = t /\ y = s
        BY <4>1
      <4>3. t \in Neighbours(s)
        BY <1>8, <4>2
      <4>4. Alike(Rec(s), Rec(t)) \/ Holds(q[t][s])
        BY <1>4, <1>8, <1>13, <1>14, <1>19, <2>2, <4>3 DEF Alike
      <4> QED
        BY <4>2, <4>4 DEF Pending, Alike
    <3> QED
      BY <3>1, <3>2
  <2>4. Told1(queue)' /\ Told2(queue)'
    <3> SUFFICES /\ \A x, y \in Servers : AtMost(queue'[x][y], Rec(x)'.lastmod)
                 /\ \A x \in Servers : \A y \in Neighbours(x)' :
                       LastSays(queue'[x][y], Rec(x)'.active, Rec(y)'.lastmod)
      BY DEF Told1, Told2
    <3>1. \A x, y \in Servers : AtMost(queue'[x][y], Rec(x)'.lastmod)
      BY <1>10, <1>19, <2>1 DEF Told1
    <3>2. ASSUME NEW x \in Servers, NEW y \in Neighbours(x)'
          PROVE  LastSays(queue'[x][y], Rec(x)'.active, Rec(y)'.lastmod)
      <4>1. y \in Neighbours(x) /\ y \in Servers
        BY <1>8, <2>1
      <4>2. LastSays(q[x][y], Rec(x).active, Rec(y).lastmod)
        BY <1>11, <4>1 DEF Told2
      <4> QED
        BY <1>19, <2>1, <4>1, <4>2
    <3> QED
      BY <3>1, <3>2
  <2>5. ASSUME NEW x \in Servers, NEW y \in Neighbours(x)' PROVE Pending(queue, x, y)'
    <3>1. y \in Neighbours(x) /\ y \in Servers
      BY <1>8, <2>1
    <3>2. Pending(q, x, y)
      BY <2>3, <3>1
    <3> QED
      BY <1>19, <2>1, <3>1, <3>2 DEF Pending
  <2> QED
    BY <2>1, <2>4, <2>5
<1>20. CASE /\ Rec(s).lastmod > l /\ UNCHANGED table
            /\ queue' = ToOne(q, s, t, Told(Mask, Rec(s)))
  <2> DEFINE m == Told(Mask, Rec(s))
  <2>1. \A x \in Servers : Neighbours(x)' = Neighbours(x) /\ Rec(x)' = Rec(x)
    BY <1>1, <1>20 DEF Neighbours, Rec
  <2>2. m \in Message /\ About(m) /\ m.lastmod = Rec(s).lastmod /\ m.on = Rec(s).active
    BY <1>1, <1>8, ToldOK DEF Message, Told, About, GL, GlineIsRemActive
  <2>3. \A x, y \in Servers : queue'[x][y] = IF x = s /\ y = t THEN Append(q[x][y], m) ELSE q[x][y]
    BY <1>3, <1>20 DEF ToOne, Queues
  <2> HIDE DEF m
  <2>4. /\ Holds(queue'[s][t])
        /\ \A at : AtMost(q[s][t], at) /\ m.lastmod <= at => AtMost(queue'[s][t], at)
        /\ \A at : LastSays(queue'[s][t], m.on, at)
    <3>1. q[s][t] \in Seq(Message) /\ queue'[s][t] = Append(q[s][t], m)
      BY <1>8, <2>3
    <3> QED
      BY <2>2, <3>1, AboutAdded
  <2>5. Told1(queue)'
    <3> SUFFICES ASSUME NEW x \in Servers, NEW y \in Servers
                 PROVE  AtMost(queue'[x][y], Rec(x).lastmod)
      BY <2>1 DEF Told1
    <3>1. AtMost(q[x][y], Rec(x).lastmod)
      BY <1>10 DEF Told1
    <3>2. CASE x = s /\ y = t
      BY <1>8, <2>2, <2>4, <3>1, <3>2
    <3> QED
      BY <2>3, <3>1, <3>2
  <2>6. Told2(queue)'
    <3> SUFFICES ASSUME NEW x \in Servers, NEW y \in Neighbours(x)
                 PROVE  LastSays(queue'[x][y], Rec(x).active, Rec(y).lastmod)
      BY <1>8, <2>1 DEF Told2
    <3>1. LastSays(q[x][y], Rec(x).active, Rec(y).lastmod) /\ y \in Servers
      BY <1>8, <1>11 DEF Told2
    <3>2. CASE x = s /\ y = t
      BY <2>2, <2>4, <3>2
    <3> QED
      BY <2>3, <3>1, <3>2
  <2>7. \A x \in Servers : \A y \in Neighbours(x)' : Pending(queue, x, y)'
    <3> SUFFICES ASSUME NEW x \in Servers, NEW y \in Neighbours(x)
                 PROVE  Alike(Rec(x), Rec(y)) \/ Holds(queue'[x][y]) \/ Holds(queue'[y][x])
      BY <1>8, <2>1 DEF Pending
    <3>1. CASE {x, y} # {s, t}
      <4>1. Pending(q, x, y) /\ y \in Servers /\ ~(x = s /\ y = t) /\ ~(x = t /\ y = s)
        BY <1>8, <1>12, <3>1
      <4> QED
        BY <2>3, <4>1 DEF Pending
    <3>2. CASE {x, y} = {s, t}
      <4>1. x \in {s, t} /\ y \in {s, t} /\ x # y
        BY <1>8, <3>2
      <4> QED
        BY <2>4, <4>1
    <3> QED
      BY <3>1, <3>2
  <2> QED
    BY <2>1, <2>5, <2>6, <2>7
<1> QED
  BY <1>9, <1>17, <1>18, <1>19, <1>20

(* Clients and time change nothing of the G-line; no link breaks, so none  *)
(* is set up again.                                                        *)
LEMMA QuietSettles ==
  ASSUME GlobalChanges, Connected, IInv, RInv, SInv,
         \/ \E e \in Edges : Split(e) \/ Relink(e)
         \/ \E u \in Users : Connect(u)
         \/ Tick
  PROVE  SInv'
<1>1. bound.splits \in Nat /\ up = Edges /\ MaxSplits = 0
  BY DEF IInv, Typed, SInv, Connected
<1>2. \A e \in Edges : ~Split(e) /\ ~Relink(e)
  BY <1>1 DEF Split, Relink
<1>3. Tick \/ \E u \in Users : Connect(u)
  BY <1>2
<1>4. \A s \in Servers : Rec(s)' = Rec(s)
  BY <1>3, TickKeeps DEF Connect, Rec
<1>5. queue' = queue /\ up' = up /\ inBurst' = inBurst /\ latest' = latest
  BY <1>3 DEF Connect, Tick
<1>6. \A s, t \in Servers : Keeps(queue'[s][t], queue[s][t])
  BY <1>5 DEF Keeps
<1>7. latest' \in [Masks -> {"none", "+", "-"}] /\ latest'[Mask] = latest[Mask]
  BY <1>5 DEF SInv
<1> QED
  BY <1>4, <1>5, <1>6, <1>7, OtherStep

(* Every step keeps what is left to say.                                   *)
LEMMA SettleStep ==
  ASSUME GlobalChanges, Connected, IInv, IInv', RInv, Entry!OneStatePerVersion, SInv, Next
  PROVE  SInv'
<1>1. /\ \A s, t \in Servers, m \in Masks, on \in BOOLEAN : ~mo_gline_remote(s, t, m, on)
      /\ \A s \in Servers, m \in Masks, on \in BOOLEAN : ~UworldGline(s, m, on)
      /\ \A s \in Servers, m \in Masks : ~mo_remove(s, m)
  BY DEF GlobalChanges, mo_gline_remote, UworldGline, mo_remove
<1>2. \/ \E s \in Servers, m \in Masks, on, loc \in BOOLEAN : mo_gline(s, m, on, loc)
      \/ \E s, t \in Servers : Receive(t, s)
      \/ \E e \in Edges : Split(e) \/ Relink(e)
      \/ \E u \in Users : Connect(u)
      \/ Tick
  BY <1>1 DEF Next, Read
<1>3. ASSUME NEW s \in Servers, NEW m \in Masks, NEW on \in BOOLEAN, NEW loc \in BOOLEAN,
             mo_gline(s, m, on, loc)
      PROVE  SInv'
  BY <1>3, MoGlineSettles
<1>4. ASSUME NEW s \in Servers, NEW t \in Servers, Receive(t, s)
      PROVE  SInv'
  BY <1>4, ReadOther, ReadAbout
<1>5. CASE \/ \E e \in Edges : Split(e) \/ Relink(e)
           \/ \E u \in Users : Connect(u)
           \/ Tick
  BY <1>5, QuietSettles
<1> QED
  BY <1>2, <1>3, <1>4, <1>5

(* Nothing has been changed or said.                                       *)
LEMMA SettleInit ==
  ASSUME GlobalChanges, Init
  PROVE  SInv
<1>1. Mask \in Masks /\ \A s \in Servers : Rec(s) = NoGline
  BY DEF Init, Rec, GlobalChanges
<1>2. \A s, t \in Servers : queue[s][t] = <<>>
  BY DEF Init
<1>3. \A s \in Servers : Neighbours(s) \subseteq Servers
  BY DEF Neighbours
<1>4. Told1(queue) /\ Told2(queue)
  BY <1>2, <1>3 DEF Told1, Told2, AtMost, LastSays
<1>5. \A s \in Servers : \A t \in Neighbours(s) : Pending(queue, s, t)
  BY <1>1, <1>3 DEF Pending, Alike
<1>6. latest \in [Masks -> {"none", "+", "-"}] /\ latest[Mask] = "none"
  BY <1>1 DEF Init
<1> QED
  BY <1>4, <1>5, <1>6 DEF Init, SInv

(* When nothing is left to say, neighbours are alike, so all are.          *)
LEMMA Settled ==
  ASSUME GlobalChanges, Connected, IInv, RInv, SInv
  PROVE  LatestWins
<1> SUFFICES ASSUME Quiet, latest[Mask] # "none"
             PROVE  \A s \in Servers : /\ Present(table[s][Mask])
                                       /\ GlineIsRemActive(table[s][Mask]) <=> latest[Mask] = "+"
  BY DEF LatestWins
<1>1. PICK z \in Servers : Newest(z)
  BY DEF SInv
<1>2. \A s \in Servers : \A t \in Neighbours(s) : Alike(Rec(s), Rec(t))
  <2> SUFFICES ASSUME NEW s \in Servers, NEW t \in Neighbours(s) PROVE Alike(Rec(s), Rec(t))
    OBVIOUS
  <2>1. t \in Servers
    BY DEF Neighbours
  <2>2. queue[s][t] = <<>> /\ queue[t][s] = <<>>
    BY <2>1 DEF Quiet
  <2>3. ~Holds(queue[s][t]) /\ ~Holds(queue[t][s])
    BY <2>2 DEF Holds
  <2> QED
    BY <2>3 DEF SInv, Pending
<1> DEFINE S == {s \in Servers : Alike(Rec(s), Rec(z))}
<1>3. ASSUME NEW s \in S, NEW t \in Servers, {s, t} \in Edges PROVE t \in S
  <2>1. CASE t = s
    BY <2>1
  <2>2. CASE t # s
    <3>1. t \in Neighbours(s) /\ s \in Servers
      BY <1>3, <2>2 DEF SInv, Neighbours
    <3>2. Alike(Rec(s), Rec(t)) /\ Alike(Rec(s), Rec(z))
      BY <1>2, <3>1
    <3> QED
      BY <3>2 DEF Alike
  <2> QED
    BY <2>1, <2>2
<1>4. S = Servers
  <2>1. z \in S /\ S \subseteq Servers
    BY DEF Alike
  <2> HIDE DEF S
  <2> QED
    BY <1>3, <2>1 DEF Connected
<1> TAKE s \in Servers
<1>5. Alike(Rec(s), Rec(z))
  BY <1>4
<1>6. Rec(s).lastmod # 0 /\ (Rec(s).active <=> latest[Mask] = "+")
  <2>1. Rec(z).lastmod \in Nat /\ Rec(s).active \in BOOLEAN
    BY Types
  <2> QED
    BY <1>1, <1>5, <2>1 DEF Alike, Newest
<1>7. Present(Rec(s))
  BY <1>6, HasKept DEF Rec, NoGline
<1> QED
  BY <1>6, <1>7 DEF Rec, GlineIsRemActive

(* "there must be some way of resolving conflicting states, which is the   *)
(* reason for [lastmod]": on any network of servers, after any number of   *)
(* global changes of a G-line, made on whichever servers and relayed in    *)
(* whatever order, every server that has read what was sent to it has the  *)
(* G-line, in the state that the last change gave it (ms_gline's answers). *)
THEOREM LatestWinsHolds ==
  ASSUME GlobalChanges, Connected
  PROVE  Spec => []LatestWins
<1>1. Init => SInv
  BY SettleInit
<1>2. IInv /\ IInv' /\ RInv /\ Entry!OneStatePerVersion /\ SInv /\ [Next]_vars => SInv'
  <2>1. ASSUME SInv, UNCHANGED vars PROVE SInv'
    BY <2>1 DEF SInv, vars, Told1, Told2, Pending, Newest, Rec, Neighbours
  <2> QED
    BY <2>1, SettleStep
<1>3. IInv /\ RInv /\ SInv => LatestWins
  BY Settled
<1> QED
  BY <1>1, <1>2, <1>3, IInvHolds, RInvHolds, SameTimeSameState, PTL DEF Spec
=============================================================================
