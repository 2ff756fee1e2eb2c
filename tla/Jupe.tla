-------------------------------- MODULE Jupe --------------------------------
(***************************************************************************)
(* Jupes (jupe.c, m_jupe.c): names of servers that may not be linked.  An  *)
(* active jupe makes the server that has the named one for a neighbour     *)
(* drop that link, and refuse it when it comes back (mr_server).           *)
(***************************************************************************)
EXTENDS Flood

CONSTANTS
    Named,       \* the servers that operators jupe
    LocalScope   \* operators also use jupes of local scope

NoJupe == [local |-> FALSE, active |-> FALSE, ldeact |-> FALSE,
           lastmod |-> 0, expire |-> 0]

Present(r) == r.expire > now
JupeIsActive(r) == r.active /\ ~r.ldeact
JupeIsRemActive(r) == r.active

JU(j, on, lastmod, ttl) ==
    [type |-> "JU", server |-> j, on |-> on, lastmod |-> lastmod, ttl |-> ttl,
     target |-> "*"]

Init ==
    /\ table = [s \in Servers |-> [j \in Named |-> NoJupe]]
    /\ online = {}
    /\ latest = {}
    /\ FloodInit

-----------------------------------------------------------------------------
propagate_jupe(q, s, one, j, r) ==
    IF r.local THEN q
    ELSE ToServers(q, s, one, JU(j, JupeIsRemActive(r), r.lastmod, r.expire - now))

jupe_resend(q, s, t, j, r) ==
    IF r.local THEN q
    ELSE ToOne(q, s, t, JU(j, JupeIsRemActive(r), r.lastmod, r.expire - now))

(* The link to the named server is dropped when it is one of ours; q is    *)
(* the queue after the jupe was passed on.                                 *)
do_jupe(q, s, j, r) ==
    IF JupeIsActive(r) /\ j \in Neighbours(s)
    THEN /\ up' = up \ {{s, j}}
         /\ queue' = Cut(q, {s, j})
         /\ inBurst' = ForgetBurst({s, j})
    ELSE queue' = q /\ UNCHANGED <<up, inBurst>>

jupe_add(q, s, one, j, on, ttl, lastmod, loc) ==
    LET n == [local |-> loc, active |-> on, ldeact |-> FALSE,
              lastmod |-> lastmod, expire |-> now + ttl]
    IN  /\ table' = [table EXCEPT ![s][j] = n]
        /\ do_jupe(propagate_jupe(q, s, one, j, n), s, j, n)

Bump(old, lastmod) == IF old >= lastmod THEN old + 1 ELSE lastmod

jupe_activate(q, s, one, j, lastmod, loc) ==
    LET r == table[s][j]
        n == IF loc THEN [r EXCEPT !.ldeact = FALSE]
             ELSE [r EXCEPT !.active = TRUE, !.lastmod = Bump(@, lastmod)]
    IN  /\ table' = [table EXCEPT ![s][j] = n]
        /\ IF JupeIsActive(r) THEN queue' = q /\ UNCHANGED <<up, inBurst>>
           ELSE do_jupe(IF loc THEN q ELSE propagate_jupe(q, s, one, j, n), s, j, n)

jupe_deactivate(q, s, one, j, lastmod, loc) ==
    LET r == table[s][j]
        n == IF loc THEN [r EXCEPT !.ldeact = TRUE]
             ELSE [r EXCEPT !.active = FALSE, !.lastmod = Bump(@, lastmod)]
    IN  /\ table' = [table EXCEPT ![s][j] = IF r.local THEN NoJupe ELSE n]
        /\ queue' = IF loc \/ r.local \/ ~JupeIsActive(r) THEN q
                    ELSE propagate_jupe(q, s, one, j, n)
        /\ UNCHANGED <<up, inBurst>>

-----------------------------------------------------------------------------
(* A jupe change that is not an addition: a global one replaces a local    *)
(* jupe.                                                                   *)
Change(q, s, one, j, on, ttl, lastmod, loc) ==
    LET r == table[s][j]
    IN  IF ~Present(r) \/ (r.local /\ ~loc)
        THEN jupe_add(q, s, one, j, on, ttl, lastmod, loc)
        ELSE IF on THEN jupe_activate(q, s, one, j, lastmod, loc)
        ELSE jupe_deactivate(q, s, one, j, lastmod, loc)

Counted(j) ==
    /\ bound.ops < MaxOps
    /\ now > bound.stamp
    /\ bound' = [bound EXCEPT !.ops = @ + 1, !.stamp = now]
    /\ latest' = IF \E s \in Servers : inBurst[s] # {} THEN latest \cup {j} ELSE latest
    /\ UNCHANGED <<now, online>>

mo_jupe(s, j, on, loc) ==
    /\ loc => LocalScope
    /\ Change(queue, s, s, j, on, Lifetime, now, loc)
    /\ Counted(j)

mo_jupe_remote(s, t, j, on) ==
    /\ LocalScope /\ s # t
    /\ queue' = Forward(queue, s, [JU(j, on, now, Lifetime) EXCEPT !.target = t])
    /\ UNCHANGED <<table, up, inBurst>>
    /\ Counted(j)

(* A JUPE read from link t; q is the queue without it.                     *)
ms_jupe(q, s, t, msg) ==
    LET r   == table[s][msg.server]
        loc == msg.target = s
        old == Present(r) /\ (r.local => loc) /\ r.lastmod >= msg.lastmod
        Answer(a) == queue' = a /\ UNCHANGED <<table, up, inBurst>>
    IN  IF msg.target \notin {s, "*"} THEN Answer(Forward(q, s, msg))
        ELSE IF ~old
        THEN Change(q, s, t, msg.server, msg.on, msg.ttl, msg.lastmod, loc)
        ELSE IF r.lastmod = msg.lastmod \/ t \in inBurst[s] THEN Answer(q)
        ELSE Answer(jupe_resend(q, s, t, msg.server, r))

Receive(t, s) ==
    LET msg == Head(queue[t][s])
        q   == [queue EXCEPT ![t][s] = Tail(@)]
    IN  /\ queue[t][s] # <<>>
        /\ IF msg.type = "JU" THEN ms_jupe(q, s, t, msg)
           ELSE EndOfBurst(q, s, t, msg) /\ UNCHANGED <<table, up>>
        /\ UNCHANGED <<online, now, latest, bound>>

jupe_burst(s) ==
    LET order == CHOOSE f \in [1 .. Cardinality(Named) -> Named] :
                    \A i, k \in DOMAIN f : f[i] = f[k] => i = k
        Sent(j) == Present(table[s][j]) /\ ~table[s][j].local
        js == SelectSeq(order, Sent)
    IN  [i \in 1 .. Len(js) |-> LET r == table[s][js[i]] IN
            JU(js[i], JupeIsRemActive(r), r.lastmod, r.expire - now)]

(* jupe_find in mr_server, m_connect and try_connections: neither side     *)
(* makes or accepts a link to a server it has an active jupe for.          *)
Juped(s, j) == j \in Named /\ Present(table[s][j]) /\ JupeIsActive(table[s][j])

Relink(e) ==
    /\ \A s, t \in e : s # t => ~Juped(s, t)
    /\ RelinkWith(e, jupe_burst)

Tick ==
    /\ now < MaxTime
    /\ now' = now + 1
    /\ table' = [s \in Servers |-> [j \in Named |->
                    IF table[s][j].expire <= now' THEN NoJupe ELSE table[s][j]]]
    /\ UNCHANGED <<queue, up, inBurst, online, latest, bound>>

Next ==
    \/ \E s \in Servers, j \in Named, on, loc \in BOOLEAN : mo_jupe(s, j, on, loc)
    \/ \E s, t \in Servers, j \in Named, on \in BOOLEAN : mo_jupe_remote(s, t, j, on)
    \/ \E s, t \in Servers : Receive(t, s)
    \/ \E e \in Edges : Split(e)
    \/ \E e \in Edges : Relink(e)
    \/ Tick

(* No server is linked to one it has an active jupe for, whichever of      *)
(* creation, activation, relay, burst or relink came last.                 *)
JupedGone == \A s \in Servers : \A j \in Neighbours(s) : ~Juped(s, j)

(* Servers that are linked agree about the jupes of the network once what  *)
(* one sent to the other is read, also after the link was broken and after *)
(* a jupe that broke it was lifted.  A jupe that was changed while a burst *)
(* was under way is left out, as for shuns (latest holds those).           *)
NeighboursAgree ==
    \A s, t \in Servers, j \in Named \ latest :
        /\ {s, t} \in up /\ s # t
        /\ \A v, w \in Servers : queue[v][w] = <<>>
        /\ ~table[s][j].local /\ ~table[t][j].local
        => table[s][j].active = table[t][j].active
=============================================================================
