------------------------------- MODULE Gline -------------------------------
(***************************************************************************)
(* Network-wide bans.  Every server keeps a list of G-lines; a change made *)
(* by an operator on one server floods the tree of servers, each of which  *)
(* compares the modification time it receives with its own.  gline.c and   *)
(* m_gline.c are modelled; shun.c and zline.c keep their lists likewise.   *)
(*                                                                         *)
(* A record whose expire is not after now is freed by whichever function   *)
(* walks the list next and never returned by one, so it is the same as no  *)
(* record: Tick replaces it by NoGline.                                    *)
(***************************************************************************)
EXTENDS Integers, Sequences, FiniteSets, Filter

CONSTANTS
    Servers,
    Edges,       \* the links of the tree: pairs {s, t}
    Route,       \* Route[s][t]: the neighbour of s on the way to t
    Masks,
    Narrower,    \* Narrower[m]: the masks that m strictly contains (mmatch)
    Users, Home, \* local clients, and the server each one connects to
    Matched,     \* Matched[u]: the masks that match the client
    ListOrder,   \* the order of GlobalGlineList
    Lifetime,    \* the expiration an operator gives
    LocalScope,  \* operators also use G-lines of local scope
    Removals,    \* operators also use REMOVE
    Uworld,      \* the servers with a U-lined neighbour that sets G-lines
    LastmodTweak,\* FEAT_LASTMOD_TWEAK
    SameSecond,  \* two modifications may carry the same TStime()
    Mask,        \* the G-line that LatestWins and IsLastWrite are about
    MaxOps, MaxSplits, MaxTime

ASSUME GlineAssumption ==
    /\ "*" \notin Servers
    /\ Edges \subseteq {{s, t} : s, t \in Servers}
    /\ Route \in [Servers -> [Servers -> Servers]]
    /\ Narrower \in [Masks -> SUBSET Masks]
    /\ \A m \in Masks : m \notin Narrower[m]
    /\ \A m \in Masks : \A n \in Narrower[m] : Narrower[n] \subseteq Narrower[m]
    /\ Home \in [Users -> Servers]
    /\ Matched \in [Users -> SUBSET Masks]
    /\ ListOrder \in Seq(Masks)
    /\ Lifetime \in Nat \ {0}
    /\ {LocalScope, Removals, LastmodTweak, SameSecond} \subseteq BOOLEAN
    /\ Uworld \subseteq Servers
    /\ {MaxOps, MaxSplits, MaxTime} \subseteq Nat

VARIABLES
    table,    \* table[s][m]: the G-line of s for m, or NoGline
    queue,    \* queue[s][t]: what s sent to t and t has not read
    up,       \* the links that are established
    inBurst,  \* inBurst[s]: peers with FLAG_BURST or FLAG_BURST_ACK at s
    online,   \* the clients connected to their servers
    now,      \* CurrentTime and TStime(), equal on all servers
    latest,   \* history: latest[m] is the last global "+" or "-" for m
    bound     \* ops, splits so far; stamp of the last global modification

vars == <<table, queue, up, inBurst, online, now, latest, bound>>

NoGline == [local |-> FALSE, active |-> FALSE, ldeact |-> FALSE,
            lastmod |-> 0, expire |-> 0]

(* gline_find with GLINE_EXACT finds the record of a mask, table[s][m], if *)
(* it has not expired.                                                     *)
Present(r) == r.expire > now
GlineIsActive(r) == r.active /\ ~r.ldeact
GlineIsRemActive(r) == r.active
Neighbours(s) == {t \in Servers : {s, t} \in up /\ t # s}

GL(m, on, lastmod, ttl) ==
    [type |-> "GL", mask |-> m, on |-> on, lastmod |-> lastmod, ttl |-> ttl,
     target |-> "*"]
RM(m) == [type |-> "RM", mask |-> m]
EB == [type |-> "EB"]
EA == [type |-> "EA"]

Init ==
    /\ table = [s \in Servers |-> [m \in Masks |-> NoGline]]
    /\ queue = [s \in Servers |-> [t \in Servers |-> <<>>]]
    /\ up = Edges
    /\ inBurst = [s \in Servers |-> {}]
    /\ online = {}
    /\ now = 1
    /\ latest = [m \in Masks |-> "none"]
    /\ bound = [ops |-> 0, splits |-> 0, stamp |-> 0]

-----------------------------------------------------------------------------
(* Sending                                                                 *)

(* sendcmdto_serv_butone: every neighbour of s but one.                    *)
ToServers(q, s, one, msg) ==
    [q EXCEPT ![s] = [t \in Servers |->
        IF t \in Neighbours(s) \ {one} THEN Append(@[t], msg) ELSE @[t]]]

ToOne(q, s, t, msg) == [q EXCEPT ![s][t] = Append(@, msg)]

(* gline_propagate and gline_resend.  The removal of a G-line without      *)
(* lastmod has no lifetime on the wire: ms_gline reads that one as 0.      *)
\* Mutant: the time of the relay, not of the change
gline_propagate_now(q, s, one, m, r) ==
    IF r.local THEN q
    ELSE ToServers(q, s, one, GL(m, GlineIsRemActive(r), now, r.expire - now))

gline_propagate(q, s, one, m, r) ==
    IF r.local THEN q
    ELSE ToServers(q, s, one, GL(m, GlineIsRemActive(r), r.lastmod, r.expire - now))

gline_resend_silent(q, s, t, m, r) == q

gline_resend(q, s, t, m, r) ==
    IF r.local \/ r.lastmod = 0 THEN q
    ELSE ToOne(q, s, t, GL(m, GlineIsRemActive(r), r.lastmod, r.expire - now))

(* do_gline: the local clients that an active G-line matches exit.         *)
do_gline_global(s, m, r) ==
    IF Present(r) /\ GlineIsActive(r) /\ ~r.local
    THEN online \ {u \in online : Home[u] = s /\ m \in Matched[u]}
    ELSE online

\* Mutant: only a G-line that is made disconnects
do_gline_made(s, m, r) ==
    IF ~Present(table[s][m]) /\ Present(r) /\ GlineIsActive(r)
    THEN online \ {u \in online : Home[u] = s /\ m \in Matched[u]}
    ELSE online

do_gline(s, m, r) ==
    IF Present(r) /\ GlineIsActive(r)
    THEN online \ {u \in online : Home[u] = s /\ m \in Matched[u]}
    ELSE online

-----------------------------------------------------------------------------
(* Changing one G-line.  q is the queue after what the handler has sent,   *)
(* one the link the change came from; each action sets table', queue' and  *)
(* online'.                                                                *)

(* "force lastmod to increase"                                             *)
Bump_Old(old, lastmod) == old

Bump(old, lastmod) ==
    IF old = 0 THEN 0 ELSE IF old >= lastmod THEN old + 1 ELSE lastmod

gline_activate(q, s, one, m, lastmod, loc) ==
    LET r == table[s][m]
        n == IF loc THEN [r EXCEPT !.ldeact = FALSE]
             ELSE [r EXCEPT !.active = TRUE, !.lastmod = Bump(@, lastmod)]
    IN  /\ table' = [table EXCEPT ![s][m] = n]
        /\ IF GlineIsActive(r)
           THEN queue' = q /\ UNCHANGED online
           ELSE /\ queue' = IF loc THEN q ELSE gline_propagate(q, s, one, m, n)
                /\ online' = do_gline(s, m, n)

gline_deactivate(q, s, one, m, lastmod, loc) ==
    LET r == table[s][m]
        n == IF loc THEN [r EXCEPT !.ldeact = TRUE]
             ELSE [r EXCEPT !.active = FALSE, !.lastmod = Bump(@, lastmod)]
        removed == r.local \/ (r.lastmod = 0 /\ ~loc)
    IN  /\ table' = [table EXCEPT ![s][m] = IF removed THEN NoGline ELSE n]
        /\ queue' = IF loc \/ (~removed /\ ~GlineIsActive(r)) THEN q
                    ELSE gline_propagate(q, s, one, m, n)
        /\ UNCHANGED online

(* make_gline: a G-line that a wider one of the same scope outlives is not *)
(* made; one that contains others that do not outlive it replaces them.    *)
(* The loop frees as it goes, but a list never holds both one that the new *)
(* G-line replaces and one that outlives the new one: the latter would     *)
(* have replaced or refused the former.                                    *)
Outlived(s, m, n) ==
    \E w \in Masks : /\ m \in Narrower[w]
                     /\ Present(table[s][w])
                     /\ table[s][w].local = n.local
                     /\ n.expire <= table[s][w].expire

make_gline(s, m, n) ==
    [v \in Masks |->
        IF v = m THEN IF Outlived(s, m, n) THEN NoGline ELSE n
        ELSE IF /\ v \in Narrower[m] /\ ~Outlived(s, m, n)
                /\ table[s][v].local = n.local
                /\ table[s][v].expire <= n.expire
        THEN NoGline ELSE table[s][v]]

(* gline_add: nobody is told of a G-line that was not made.                *)
gline_add(q, s, one, m, on, ttl, lastmod, loc) ==
    LET n == [local |-> loc, active |-> on, ldeact |-> FALSE,
              lastmod |-> lastmod, expire |-> now + ttl]
    IN  /\ table' = [table EXCEPT ![s] = make_gline(s, m, n)]
        /\ IF Outlived(s, m, n)
           THEN queue' = q /\ UNCHANGED online
           ELSE /\ queue' = gline_propagate(q, s, one, m, n)
                /\ online' = do_gline(s, m, n)

-----------------------------------------------------------------------------
(* Handlers                                                                *)

(* mo_gline: an operator of s gives "+mask" or "-mask" with target "*"     *)
(* (loc = FALSE) or this server.  A global command replaces a local G-line *)
(* and one that Uworld set is only changed locally.  The mask is one that  *)
(* gline_add takes: what it refuses (too wide, too many users hit) is not  *)
(* among Masks.                                                            *)
mo_gline(s, m, on, loc) ==
    LET r     == table[s][m]
        keep  == Present(r) /\ (r.local => loc)
        loc2  == loc \/ r.lastmod = 0
        stamp == IF r.lastmod = 0 THEN 0 ELSE now
    IN  /\ bound.ops < MaxOps
        /\ loc => LocalScope
        /\ SameSecond \/ now > bound.stamp
        /\ IF keep
           THEN IF on THEN gline_activate(queue, s, s, m, stamp, loc2)
                      ELSE gline_deactivate(queue, s, s, m, stamp, loc2)
           ELSE gline_add(queue, s, s, m, on, Lifetime, now, loc)
        /\ latest' = IF loc \/ (keep /\ loc2) THEN latest
                     ELSE [latest EXCEPT ![m] = IF on THEN "+" ELSE "-"]
        /\ bound' = [bound EXCEPT !.ops = @ + 1, !.stamp = now]
        /\ UNCHANGED <<up, inBurst, now>>

(* mo_gline with the name of another server as target: the change is sent  *)
(* there and not made here.                                                *)
mo_gline_remote(s, t, m, on) ==
    /\ LocalScope
    /\ s # t
    /\ bound.ops < MaxOps
    /\ SameSecond \/ now > bound.stamp
    /\ Route[s][t] \in Neighbours(s)
    /\ queue' = ToOne(queue, s, Route[s][t],
                      [GL(m, on, now, Lifetime) EXCEPT !.target = t])
    /\ bound' = [bound EXCEPT !.ops = @ + 1, !.stamp = now]
    /\ UNCHANGED <<table, up, inBurst, online, now, latest>>

(* A modification that is not newer is answered with our own, unless it is *)
(* the same one or the peer is still in its burst (and gets ours in ours). *)
Ignored_never(s, t, r, lastmod) == FALSE

Ignored(s, t, r, lastmod) == r.lastmod = lastmod \/ t \in inBurst[s]

(* ms_gline for a message read from link t (s itself for its U-lined       *)
(* neighbour, which gives no lastmod); q is the queue without it.          *)
ms_gline(q, s, t, msg) ==
    LET m       == msg.mask
        r       == table[s][m]
        loc     == msg.target = s
        short   == msg.lastmod = 0 /\ ~msg.on              \* "* -mask"
        ttl     == IF short THEN 0 ELSE msg.ttl
        lastmod == IF msg.lastmod = 0 /\ LastmodTweak THEN now ELSE msg.lastmod
        Same    == UNCHANGED <<table, online>>
    IN  IF msg.target \notin {s, "*"}
        THEN /\ queue' = IF Route[s][msg.target] \in Neighbours(s)
                         THEN ToOne(q, s, Route[s][msg.target], msg) ELSE q
             /\ Same
        ELSE IF ~Present(r) /\ short
        THEN queue' = (IF loc THEN q ELSE ToServers(q, s, t, msg)) /\ Same
        ELSE IF ~Present(r) \/ (r.local /\ ~loc)
        THEN gline_add(q, s, t, m, msg.on, ttl, lastmod, loc)
        ELSE IF lastmod = 0 /\ msg.on = GlineIsRemActive(r)
        THEN queue' = gline_propagate(q, s, t, m, r) /\ Same
        ELSE IF lastmod = 0 \/ r.lastmod < lastmod
        THEN IF msg.on THEN gline_activate(q, s, t, m, lastmod, loc)
                       ELSE gline_deactivate(q, s, t, m, lastmod, loc)
        ELSE IF Ignored(s, t, r, lastmod)
        THEN queue' = q /\ Same
        ELSE queue' = gline_resend(q, s, t, m, r) /\ Same

(* gline_remove by mo_remove and ms_remove: the G-line is freed, whatever  *)
(* its version, and REMOVE is passed on.                                   *)
gline_remove(q, s, one, m) ==
    /\ table' = [table EXCEPT ![s][m] = NoGline]
    /\ queue' = ToServers(q, s, one, RM(m))
    /\ UNCHANGED online

mo_remove(s, m) ==
    /\ Removals
    /\ bound.ops < MaxOps
    /\ gline_remove(queue, s, s, m)
    /\ bound' = [bound EXCEPT !.ops = @ + 1]
    /\ UNCHANGED <<up, inBurst, now, latest>>

(* s reads the next message of its neighbour t.                            *)
Receive(t, s) ==
    LET msg == Head(queue[t][s])
        q   == [queue EXCEPT ![t][s] = Tail(@)]
    IN  /\ queue[t][s] # <<>>
        /\ CASE msg.type = "GL" -> /\ ms_gline(q, s, t, msg)
                                   /\ UNCHANGED inBurst
             [] msg.type = "RM" -> /\ gline_remove(q, s, t, msg.mask)
                                   /\ UNCHANGED inBurst
             [] msg.type = "EB" -> /\ queue' = ToOne(q, s, t, EA)
                                   /\ UNCHANGED <<table, online, inBurst>>
             [] msg.type = "EA" -> /\ inBurst' = [inBurst EXCEPT ![s] = @ \ {t}]
                                   /\ queue' = q
                                   /\ UNCHANGED <<table, online>>
        /\ UNCHANGED <<up, now, latest, bound>>

(* The U-lined neighbour of s sets or removes a G-line.                    *)
UworldGline(s, m, on) ==
    /\ s \in Uworld
    /\ bound.ops < MaxOps
    /\ ms_gline(queue, s, s, GL(m, on, 0, IF on THEN Lifetime ELSE 0))
    /\ bound' = [bound EXCEPT !.ops = @ + 1]
    /\ UNCHANGED <<up, inBurst, now, latest>>

-----------------------------------------------------------------------------
(* Links, clients, time                                                    *)

Split(e) ==
    /\ e \in up
    /\ bound.splits < MaxSplits
    /\ up' = up \ {e}
    /\ queue' = [s \in Servers |-> [t \in Servers |->
                    IF {s, t} = e THEN <<>> ELSE queue[s][t]]]
    /\ inBurst' = [s \in Servers |-> IF s \in e THEN inBurst[s] \ e ELSE inBurst[s]]
    /\ bound' = [bound EXCEPT !.splits = @ + 1]
    /\ UNCHANGED <<table, online, now, latest>>

(* gline_burst: the G-lines of global scope that have a modification time. *)
gline_burst(s) ==
    LET Sent(m) == LET r == table[s][m]
                   IN  Present(r) /\ ~r.local /\ r.lastmod # 0
        ms == Drop(ListOrder, {m \in Masks : ~Sent(m)})
    IN  [i \in 1 .. Len(ms) |-> LET r == table[s][ms[i]] IN
            GL(ms[i], GlineIsRemActive(r), r.lastmod, r.expire - now)]

(* server_estab on both sides: each one sends its G-lines, the rest of its *)
(* burst and END_OF_BURST.                                                 *)
Relink(e) ==
    /\ e \in Edges \ up
    /\ up' = up \cup {e}
    /\ queue' = [s \in Servers |-> [t \in Servers |->
                    IF {s, t} = e /\ s # t THEN gline_burst(s) \o <<EB>>
                    ELSE queue[s][t]]]
    /\ inBurst' = [s \in Servers |->
                      IF s \in e THEN inBurst[s] \cup (e \ {s}) ELSE inBurst[s]]
    /\ UNCHANGED <<table, online, now, latest, bound>>

(* register_user: a client is let in unless gline_lookup finds an active   *)
(* G-line for it.                                                          *)
gline_lookup(u) ==
    {m \in Matched[u] : Present(table[Home[u]][m])
                         /\ GlineIsActive(table[Home[u]][m])}

Connect(u) ==
    /\ u \notin online
    /\ gline_lookup(u) = {}
    /\ online' = online \cup {u}
    /\ UNCHANGED <<table, queue, up, inBurst, now, latest, bound>>

Tick ==
    /\ now < MaxTime
    /\ now' = now + 1
    /\ table' = [s \in Servers |-> [m \in Masks |->
                    IF table[s][m].expire <= now' THEN NoGline ELSE table[s][m]]]
    /\ UNCHANGED <<queue, up, inBurst, online, latest, bound>>

-----------------------------------------------------------------------------
Read == \E s, t \in Servers : Receive(t, s)

Next ==
    \/ \E s \in Servers, m \in Masks, on, loc \in BOOLEAN : mo_gline(s, m, on, loc)
    \/ \E s, t \in Servers, m \in Masks, on \in BOOLEAN : mo_gline_remote(s, t, m, on)
    \/ \E s \in Servers, m \in Masks, on \in BOOLEAN : UworldGline(s, m, on)
    \/ \E s \in Servers, m \in Masks : mo_remove(s, m)
    \/ Read
    \/ \E e \in Edges : Split(e)
    \/ \E e \in Edges : Relink(e)
    \/ \E u \in Users : Connect(u)
    \/ Tick

Spec == Init /\ [][Next]_vars

(* The event loop serves every readable socket: what was sent is read.     *)
FairSpec == Spec /\ WF_vars(Read)

-----------------------------------------------------------------------------
Quiet == \A s, t \in Servers : queue[s][t] = <<>>

(* "Since GLINEs are propagated during netbursts, there must be some way   *)
(* of resolving conflicting states, which is the reason for [lastmod]":    *)
(* once every link is up and everything sent has been read, every server   *)
(* has the G-line in the state the network's last modification gave it.    *)
LatestWins ==
    /\ up = Edges /\ Quiet /\ latest[Mask] # "none"
    /\ \E t \in Servers : Present(table[t][Mask])
    => \A s \in Servers : /\ Present(table[s][Mask])
                          /\ GlineIsRemActive(table[s][Mask]) <=> latest[Mask] = "+"

(* "G-lines that were not set by a U-lined service have a modification     *)
(* time that must be monotonically increasing": a G-line that stays on a   *)
(* server never goes back to an older version.                             *)
LastmodForward ==
    \A s \in Servers, m \in Masks :
        LET a == table[s][m]
            b == table'[s][m]
        IN  Present(a) /\ b.expire > now' /\ ~a.local /\ ~b.local =>
              /\ b.lastmod >= a.lastmod
              /\ b.active # a.active /\ a.lastmod # 0 => b.lastmod > a.lastmod

(* Whatever is read, relayed, resent, burst or asked for, versions of a    *)
(* G-line on a server only go forward.                                     *)
LastmodMonotonic == [][LastmodForward]_vars

(* No client that an active G-line of its server matches stays connected,  *)
(* whichever of creation, activation, local reactivation, relay or burst   *)
(* made it active (do_gline, gline_lookup).                                *)
GlinedGone ==
    \A u \in online : gline_lookup(u) = {}

(* Resends and relays die out: servers never answer each other's G-lines   *)
(* for ever (ms_gline, gline_resend).                                      *)
Drains == <>[]Quiet

-----------------------------------------------------------------------------
(* The G-line as an entry of LastWrite                                     *)

Version(at, on) == [at |-> at, on |-> on]
VersionOf(r) == Version(r.lastmod, r.active)

(* The versions that servers have, and those in messages                   *)
Copies == [s \in Servers |-> VersionOf(table[s][Mask])]
About(x) == x.type = "GL" /\ x.mask = Mask
OnWay(q) == UNION {Elements(q[s][t]) : s, t \in Servers}
VersionsOf(c, q) ==
    {c[s] : s \in Servers} \cup {Version(x.lastmod, x.on) : x \in {y \in OnWay(q) : About(y)}}
Versions == VersionsOf(Copies, queue)

Entry == INSTANCE LastWrite WITH copy <- Copies, known <- Versions

(* Flooding, answers with one's own version, bursts after a split and what *)
(* is lost on the way amount to versions that are made once and replaced   *)
(* by later ones: nothing makes a version that nobody asked for or gives a *)
(* version another state.                                                  *)
IsLastWrite == Entry!Spec
=============================================================================
