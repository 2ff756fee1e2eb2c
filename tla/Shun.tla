-------------------------------- MODULE Shun --------------------------------
(***************************************************************************)
(* Shuns (shun.c, m_shun.c): masks of clients whose commands are ignored.  *)
(* They are kept and flooded like G-lines, but nobody is thrown out: the   *)
(* list is asked again at each command, and do_shun only tells the client. *)
(* A record whose time is over is freed by whichever function walks the    *)
(* list next (expire_shuns before each command), so Tick takes it away.    *)
(***************************************************************************)
EXTENDS Flood

CONSTANTS
    Masks,
    Narrower,    \* Narrower[m]: the masks that m strictly contains (mmatch)
    Matched,     \* the masks that match the client the properties speak of
    ListOrder,   \* the order of GlobalShunList
    Uworld,      \* the servers with a U-lined neighbour that sets shuns
    LocalScope,  \* operators also use shuns of local scope and REMOVE
    LastmodTweak \* FEAT_LASTMOD_TWEAK

NoShun == [local |-> FALSE, active |-> FALSE, ldeact |-> FALSE,
           lastmod |-> 0, expire |-> 0]

Present(r) == r.expire > now
ShunIsActive(r) == r.active /\ ~r.ldeact
ShunIsRemActive(r) == r.active

SU(m, on, lastmod, ttl) ==
    [type |-> "SU", mask |-> m, on |-> on, lastmod |-> lastmod, ttl |-> ttl,
     target |-> "*"]
RM(m) == [type |-> "RM", mask |-> m]

Init ==
    /\ table = [s \in Servers |-> [m \in Masks |-> NoShun]]
    /\ online = {}
    /\ latest = [m \in Masks |-> "none"]
    /\ FloodInit

-----------------------------------------------------------------------------
shun_propagate(q, s, one, m, r) ==
    IF r.local THEN q
    ELSE ToServers(q, s, one, SU(m, ShunIsRemActive(r), r.lastmod, r.expire - now))

shun_resend(q, s, t, m, r) ==
    IF r.local \/ r.lastmod = 0 THEN q
    ELSE ToOne(q, s, t, SU(m, ShunIsRemActive(r), r.lastmod, r.expire - now))

Bump(old, lastmod) ==
    IF old = 0 THEN 0 ELSE IF old >= lastmod THEN old + 1 ELSE lastmod

shun_activate(q, s, one, m, lastmod, loc) ==
    LET r == table[s][m]
        n == IF loc THEN [r EXCEPT !.ldeact = FALSE]
             ELSE [r EXCEPT !.active = TRUE, !.lastmod = Bump(@, lastmod)]
    IN  /\ table' = [table EXCEPT ![s][m] = n]
        /\ queue' = IF loc \/ ShunIsActive(r) THEN q
                    ELSE shun_propagate(q, s, one, m, n)

shun_deactivate(q, s, one, m, lastmod, loc) ==
    LET r == table[s][m]
        removed == r.local \/ (r.lastmod = 0 /\ ~loc)
        n == IF loc THEN [r EXCEPT !.ldeact = TRUE]
             ELSE [r EXCEPT !.active = FALSE, !.lastmod = Bump(@, lastmod)]
    IN  /\ table' = [table EXCEPT ![s][m] = IF removed THEN NoShun ELSE n]
        /\ queue' = IF loc \/ (~removed /\ ~ShunIsActive(r)) THEN q
                    ELSE shun_propagate(q, s, one, m, n)

(* make_shun: a shun that a wider one of the same scope outlives is not    *)
(* made; it frees those it contains that do not outlive it.                *)
Outlived(s, m, n) ==
    \E w \in Masks : /\ m \in Narrower[w]
                     /\ Present(table[s][w])
                     /\ table[s][w].local = n.local
                     /\ n.expire <= table[s][w].expire

make_shun(s, m, n) ==
    [v \in Masks |->
        IF v = m THEN n
        ELSE IF /\ v \in Narrower[m]
                /\ table[s][v].local = n.local
                /\ table[s][v].expire <= n.expire
        THEN NoShun ELSE table[s][v]]

shun_add(q, s, one, m, on, ttl, lastmod, loc) ==
    LET n == [local |-> loc, active |-> on, ldeact |-> FALSE,
              lastmod |-> lastmod, expire |-> now + ttl]
    IN  IF Outlived(s, m, n)
        THEN table' = [table EXCEPT ![s][m] = NoShun] /\ queue' = q
        ELSE /\ table' = [table EXCEPT ![s] = make_shun(s, m, n)]
             /\ queue' = shun_propagate(q, s, one, m, n)

shun_remove(q, s, one, m) ==
    /\ table' = [table EXCEPT ![s][m] = NoShun]
    /\ queue' = ToServers(q, s, one, RM(m))

-----------------------------------------------------------------------------
(* An operator of s gives "+mask" or "-mask" for the network or, loc, for  *)
(* this server only; a shun that Uworld set is only changed locally.       *)
mo_shun(s, m, on, loc) ==
    LET r     == table[s][m]
        keep  == Present(r) /\ (r.local => loc)
        loc2  == loc \/ r.lastmod = 0
        stamp == IF r.lastmod = 0 THEN 0 ELSE now
    IN  /\ loc => LocalScope
        /\ IF keep
           THEN IF on THEN shun_activate(queue, s, s, m, stamp, loc2)
                      ELSE shun_deactivate(queue, s, s, m, stamp, loc2)
           ELSE shun_add(queue, s, s, m, on, Lifetime, now, loc)
        /\ latest' = IF loc \/ (keep /\ loc2) \/ latest[m] = "crossed" THEN latest
                     ELSE [latest EXCEPT ![m] =
                              IF \E t \in Servers : inBurst[t] # {} THEN "crossed"
                              ELSE IF on THEN "+" ELSE "-"]
        /\ UNCHANGED online
        /\ Operator

mo_shun_remote(s, t, m, on) ==
    /\ LocalScope /\ s # t
    /\ queue' = Forward(queue, s, [SU(m, on, now, Lifetime) EXCEPT !.target = t])
    /\ UNCHANGED <<table, online, latest>>
    /\ Operator

mo_remove(s, m) ==
    /\ LocalScope
    /\ shun_remove(queue, s, s, m)
    /\ UNCHANGED <<online, latest>>
    /\ Operator

(* A SHUN read from link t; q is the queue without it.  One that is older  *)
(* than ours is answered with ours, unless the peer is still bursting.     *)
ms_shun(q, s, t, msg) ==
    LET m       == msg.mask
        r       == table[s][m]
        loc     == msg.target = s
        lastmod == IF msg.lastmod = 0 /\ LastmodTweak THEN now ELSE msg.lastmod
        Answer(a) == queue' = a /\ UNCHANGED table
    IN  IF msg.target \notin {s, "*"} THEN Answer(Forward(q, s, msg))
        ELSE IF ~Present(r) /\ msg.lastmod = 0 /\ ~msg.on              \* "* -mask"
        THEN Answer(IF loc THEN q ELSE ToServers(q, s, t, msg))
        ELSE IF ~Present(r) \/ (r.local /\ ~loc)
        THEN shun_add(q, s, t, m, msg.on, msg.ttl, lastmod, loc)
        ELSE IF lastmod = 0 /\ msg.on = ShunIsRemActive(r)
        THEN Answer(shun_propagate(q, s, t, m, r))
        ELSE IF lastmod = 0 \/ r.lastmod < lastmod
        THEN IF msg.on THEN shun_activate(q, s, t, m, lastmod, loc)
                       ELSE shun_deactivate(q, s, t, m, lastmod, loc)
        ELSE IF r.lastmod = lastmod \/ t \in inBurst[s] THEN Answer(q)
        ELSE Answer(shun_resend(q, s, t, m, r))

UworldShun(s, m, on) ==
    /\ s \in Uworld
    /\ ms_shun(queue, s, s, SU(m, on, 0, IF on THEN Lifetime ELSE 0))
    /\ UNCHANGED <<online, latest>>
    /\ Operator

Receive(t, s) ==
    LET msg == Head(queue[t][s])
        q   == [queue EXCEPT ![t][s] = Tail(@)]
    IN  /\ queue[t][s] # <<>>
        /\ CASE msg.type = "SU" -> ms_shun(q, s, t, msg) /\ UNCHANGED inBurst
             [] msg.type = "RM" -> shun_remove(q, s, t, msg.mask) /\ UNCHANGED inBurst
             [] OTHER -> EndOfBurst(q, s, t, msg) /\ UNCHANGED table
        /\ UNCHANGED <<up, online, now, latest, bound>>

(* The shuns of global scope that have a modification time.                *)
shun_burst(s) ==
    LET Sent(m) == LET r == table[s][m]
                   IN  Present(r) /\ ~r.local /\ r.lastmod # 0
        ms == SelectSeq(ListOrder, Sent)
    IN  [i \in 1 .. Len(ms) |-> LET r == table[s][ms[i]] IN
            SU(ms[i], ShunIsRemActive(r), r.lastmod, r.expire - now)]

Relink(e) == RelinkWith(e, shun_burst)

(* The shuns for which the client's commands are ignored at s.             *)
shun_lookup(s) ==
    {m \in Matched : Present(table[s][m]) /\ ShunIsActive(table[s][m])}

Tick ==
    /\ now < MaxTime
    /\ now' = now + 1
    /\ table' = [s \in Servers |-> [m \in Masks |->
                    IF table[s][m].expire <= now' THEN NoShun ELSE table[s][m]]]
    /\ UNCHANGED <<queue, up, inBurst, online, latest, bound>>

Next ==
    \/ \E s \in Servers, m \in Masks, on, loc \in BOOLEAN : mo_shun(s, m, on, loc)
    \/ \E s, t \in Servers, m \in Masks, on \in BOOLEAN : mo_shun_remote(s, t, m, on)
    \/ \E s \in Servers, m \in Masks : mo_remove(s, m)
    \/ \E s \in Servers, m \in Masks, on \in BOOLEAN : UworldShun(s, m, on)
    \/ \E s, t \in Servers : Receive(t, s)
    \/ \E e \in Edges : Split(e)
    \/ \E e \in Edges : Relink(e)
    \/ Tick

(* A shun that stays on a server never goes back to an older version, and  *)
(* is not switched without a newer one.                                    *)
LastmodForward ==
    \A s \in Servers, m \in Masks :
        LET a == table[s][m]
            b == table'[s][m]
        IN  Present(a) /\ b.expire > now' /\ ~a.local /\ ~b.local =>
              /\ b.lastmod >= a.lastmod
              /\ b.active # a.active /\ a.lastmod # 0 => b.lastmod > a.lastmod

(* Once every link is up and everything sent is read, a client is shunned  *)
(* on every server or on none, as the last change for the mask says, even  *)
(* if the links were broken meanwhile.  A change made while a burst is     *)
(* under way is left out: it may be ignored for the burst's sake by a      *)
(* server whose own change was not worth telling.                          *)
ShunnedEverywhere ==
    up = Edges /\ Quiet =>
        \A s \in Servers, m \in Masks :
            latest[m] \in {"+", "-"} /\ (\E t \in Servers : Present(table[t][m])) =>
                (m \in Matched => (m \in shun_lookup(s) <=> latest[m] = "+"))
=============================================================================
