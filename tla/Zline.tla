-------------------------------- MODULE Zline --------------------------------
(***************************************************************************)
(* Z-lines (zline.c, m_zline.c): masks of addresses.  They are kept and    *)
(* flooded like G-lines, but looked up only when a connection is accepted  *)
(* (add_connection); do_zline throws out the clients that have sent NICK   *)
(* or USER, so one that is between the two is seen by neither.             *)
(***************************************************************************)
EXTENDS Flood

CONSTANTS
    Masks,
    Narrower,    \* Narrower[m]: the masks that m strictly contains (mmatch)
    Users, Home, \* clients, and the server each one connects to
    Matched,     \* Matched[u]: the masks that match the client's address
    ListOrder,   \* the order of GlobalZlineList
    Uworld,      \* the servers with a U-lined neighbour that sets zlines
    LocalScope,  \* operators also use Z-lines of local scope and REMOVE
    LastmodTweak \* FEAT_LASTMOD_TWEAK

NoZline == [local |-> FALSE, active |-> FALSE, ldeact |-> FALSE,
            lastmod |-> 0, expire |-> 0]

Present(r) == r.expire > now
ZlineIsActive(r) == r.active /\ ~r.ldeact
ZlineIsRemActive(r) == r.active

ZL(m, on, lastmod, ttl) ==
    [type |-> "ZL", mask |-> m, on |-> on, lastmod |-> lastmod, ttl |-> ttl,
     target |-> "*"]
RM(m) == [type |-> "RM", mask |-> m]

Init ==
    /\ table = [s \in Servers |-> [m \in Masks |-> NoZline]]
    /\ online = [u \in Users |-> "no"]
    /\ latest = {}
    /\ FloodInit

-----------------------------------------------------------------------------
zline_propagate(q, s, one, m, r) ==
    IF r.local THEN q
    ELSE ToServers(q, s, one, ZL(m, ZlineIsRemActive(r), r.lastmod, r.expire - now))

zline_resend(q, s, t, m, r) ==
    IF r.local \/ r.lastmod = 0 THEN q
    ELSE ToOne(q, s, t, ZL(m, ZlineIsRemActive(r), r.lastmod, r.expire - now))

(* The clients of s with a struct User that an active Z-line matches exit; *)
(* latest keeps those in their handshake, which are passed over.           *)
do_zline(s, m, n) ==
    LET hit == {u \in Users : /\ ZlineIsActive(n) /\ Home[u] = s
                              /\ m \in Matched[u]}
    IN  /\ online' = [u \in Users |-> IF u \in hit /\ online[u] = "user" THEN "no"
                                      ELSE online[u]]
        /\ latest' = latest \cup {u \in hit : online[u] = "accepted"}

Bump(old, lastmod) ==
    IF old = 0 THEN 0 ELSE IF old >= lastmod THEN old + 1 ELSE lastmod

zline_activate(q, s, one, m, lastmod, loc) ==
    LET r == table[s][m]
        n == IF loc THEN [r EXCEPT !.ldeact = FALSE]
             ELSE [r EXCEPT !.active = TRUE, !.lastmod = Bump(@, lastmod)]
    IN  /\ table' = [table EXCEPT ![s][m] = n]
        /\ queue' = IF loc \/ ZlineIsActive(r) THEN q
                    ELSE zline_propagate(q, s, one, m, n)
        /\ IF ZlineIsActive(r) THEN UNCHANGED <<online, latest>>
                               ELSE do_zline(s, m, n)

zline_deactivate(q, s, one, m, lastmod, loc) ==
    LET r == table[s][m]
        removed == r.local \/ (r.lastmod = 0 /\ ~loc)
        n == IF loc THEN [r EXCEPT !.ldeact = TRUE]
             ELSE [r EXCEPT !.active = FALSE, !.lastmod = Bump(@, lastmod)]
    IN  /\ table' = [table EXCEPT ![s][m] = IF removed THEN NoZline ELSE n]
        /\ queue' = IF loc \/ (~removed /\ ~ZlineIsActive(r)) THEN q
                    ELSE zline_propagate(q, s, one, m, n)
        /\ UNCHANGED <<online, latest>>

(* make_zline: a Z-line that a wider one of the same scope outlives is not *)
(* made; it frees those it contains that do not outlive it.                *)
Outlived(s, m, n) ==
    \E w \in Masks : /\ m \in Narrower[w]
                     /\ Present(table[s][w])
                     /\ table[s][w].local = n.local
                     /\ n.expire <= table[s][w].expire

make_zline(s, m, n) ==
    [v \in Masks |->
        IF v = m THEN n
        ELSE IF /\ v \in Narrower[m]
                /\ table[s][v].local = n.local
                /\ table[s][v].expire <= n.expire
        THEN NoZline ELSE table[s][v]]

zline_add(q, s, one, m, on, ttl, lastmod, loc) ==
    LET n == [local |-> loc, active |-> on, ldeact |-> FALSE,
              lastmod |-> lastmod, expire |-> now + ttl]
    IN  IF Outlived(s, m, n)
        THEN /\ table' = [table EXCEPT ![s][m] = NoZline] /\ queue' = q
             /\ UNCHANGED <<online, latest>>
        ELSE /\ table' = [table EXCEPT ![s] = make_zline(s, m, n)]
             /\ queue' = zline_propagate(q, s, one, m, n)
             /\ do_zline(s, m, n)

(* Every Z-line that contains the mask is freed, not only the mask itself. *)
zline_remove(q, s, one, m) ==
    /\ table' = [table EXCEPT ![s] = [v \in Masks |->
                     IF v = m \/ m \in Narrower[v] THEN NoZline ELSE @[v]]]
    /\ queue' = ToServers(q, s, one, RM(m))
    /\ UNCHANGED <<online, latest>>

-----------------------------------------------------------------------------
(* An operator of s gives "+mask" or "-mask" for the network or, loc, for  *)
(* this server only; a Z-line that Uworld set is only changed locally.     *)
mo_zline(s, m, on, loc) ==
    LET r     == table[s][m]
        keep  == Present(r) /\ (r.local => loc)
        loc2  == loc \/ r.lastmod = 0
        stamp == IF r.lastmod = 0 THEN 0 ELSE now
    IN  /\ loc => LocalScope
        /\ IF keep
           THEN IF on THEN zline_activate(queue, s, s, m, stamp, loc2)
                      ELSE zline_deactivate(queue, s, s, m, stamp, loc2)
           ELSE zline_add(queue, s, s, m, on, Lifetime, now, loc)
        /\ Operator

mo_zline_remote(s, t, m, on) ==
    /\ LocalScope /\ s # t
    /\ queue' = Forward(queue, s, [ZL(m, on, now, Lifetime) EXCEPT !.target = t])
    /\ UNCHANGED <<table, online, latest>>
    /\ Operator

mo_remove(s, m) ==
    /\ LocalScope
    /\ zline_remove(queue, s, s, m)
    /\ Operator

(* A ZLINE read from link t; q is the queue without it.  One that is older *)
(* than ours is answered with ours, unless the peer is still bursting.     *)
ms_zline(q, s, t, msg) ==
    LET m       == msg.mask
        r       == table[s][m]
        loc     == msg.target = s
        lastmod == IF msg.lastmod = 0 /\ LastmodTweak THEN now ELSE msg.lastmod
        Answer(a) == queue' = a /\ UNCHANGED <<table, online, latest>>
    IN  IF msg.target \notin {s, "*"} THEN Answer(Forward(q, s, msg))
        ELSE IF ~Present(r) /\ msg.lastmod = 0 /\ ~msg.on              \* "* -mask"
        THEN Answer(IF loc THEN q ELSE ToServers(q, s, t, msg))
        ELSE IF ~Present(r) \/ (r.local /\ ~loc)
        THEN zline_add(q, s, t, m, msg.on, msg.ttl, lastmod, loc)
        ELSE IF lastmod = 0 /\ msg.on = ZlineIsRemActive(r)
        THEN Answer(zline_propagate(q, s, t, m, r))
        ELSE IF lastmod = 0 \/ r.lastmod < lastmod
        THEN IF msg.on THEN zline_activate(q, s, t, m, lastmod, loc)
                       ELSE zline_deactivate(q, s, t, m, lastmod, loc)
        ELSE IF r.lastmod = lastmod \/ t \in inBurst[s] THEN Answer(q)
        ELSE Answer(zline_resend(q, s, t, m, r))

UworldZline(s, m, on) ==
    /\ s \in Uworld
    /\ ms_zline(queue, s, s, ZL(m, on, 0, IF on THEN Lifetime ELSE 0))
    /\ Operator

Receive(t, s) ==
    LET msg == Head(queue[t][s])
        q   == [queue EXCEPT ![t][s] = Tail(@)]
    IN  /\ queue[t][s] # <<>>
        /\ CASE msg.type = "ZL" -> ms_zline(q, s, t, msg) /\ UNCHANGED inBurst
             [] msg.type = "RM" -> zline_remove(q, s, t, msg.mask) /\ UNCHANGED inBurst
             [] OTHER -> EndOfBurst(q, s, t, msg) /\ UNCHANGED <<table, online, latest>>
        /\ UNCHANGED <<up, now, bound>>

(* The Z-lines of global scope that have a modification time.              *)
zline_burst(s) ==
    LET Sent(m) == LET r == table[s][m]
                   IN  Present(r) /\ ~r.local /\ r.lastmod # 0
        ms == SelectSeq(ListOrder, Sent)
    IN  [i \in 1 .. Len(ms) |-> LET r == table[s][ms[i]] IN
            ZL(ms[i], ZlineIsRemActive(r), r.lastmod, r.expire - now)]

Relink(e) == RelinkWith(e, zline_burst)

(* zline_lookup_oc                                                         *)
zline_lookup(u) ==
    {m \in Matched[u] : Present(table[Home[u]][m])
                         /\ ZlineIsActive(table[Home[u]][m])}

(* add_connection: the address is looked up as soon as it is accepted.     *)
Accept(u) ==
    /\ online[u] = "no"
    /\ zline_lookup(u) = {}
    /\ online' = [online EXCEPT ![u] = "accepted"]
    /\ latest' = latest \ {u}
    /\ UNCHANGED <<table, queue, up, inBurst, now, bound>>

(* make_user by the first NICK or USER; the list is not asked again.       *)
MakeUser(u) ==
    /\ online[u] = "accepted"
    /\ online' = [online EXCEPT ![u] = "user"]
    /\ UNCHANGED <<table, queue, up, inBurst, now, latest, bound>>

Tick ==
    /\ now < MaxTime
    /\ now' = now + 1
    /\ table' = [s \in Servers |-> [m \in Masks |->
                    IF table[s][m].expire <= now' THEN NoZline ELSE table[s][m]]]
    /\ UNCHANGED <<queue, up, inBurst, online, latest, bound>>

Next ==
    \/ \E s \in Servers, m \in Masks, on, loc \in BOOLEAN : mo_zline(s, m, on, loc)
    \/ \E s, t \in Servers, m \in Masks, on \in BOOLEAN : mo_zline_remote(s, t, m, on)
    \/ \E s \in Servers, m \in Masks : mo_remove(s, m)
    \/ \E s \in Servers, m \in Masks, on \in BOOLEAN : UworldZline(s, m, on)
    \/ \E s, t \in Servers : Receive(t, s)
    \/ \E e \in Edges : Split(e)
    \/ \E e \in Edges : Relink(e)
    \/ \E u \in Users : Accept(u) \/ MakeUser(u)
    \/ Tick

(* No client that an active Z-line of its server matches has a nick or a   *)
(* user name, unless it was in its handshake when the Z-line came.         *)
ZlinedGone ==
    \A u \in Users : online[u] = "user" /\ zline_lookup(u) # {} => u \in latest
=============================================================================
