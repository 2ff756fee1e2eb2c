---------------------------- MODULE ChannelSync ----------------------------
(***************************************************************************)
(* One channel on a line of servers, of which one link comes up later: the *)
(* channel's time stamp, modes, key, limit, ban and exception lists and    *)
(* who is operator, as CREATE, JOIN, MODE, OPMODE, CLEARMODE, KICK and the *)
(* net burst carry them (m_burst.c, m_create.c, m_mode.c, m_opmode.c,      *)
(* m_clearmode.c and the mode parser and buffer of channel.c).  Halfops,   *)
(* voices and channel redirects follow operators and keys and are left     *)
(* out, as are topics.                                                     *)
(***************************************************************************)
EXTENDS Integers, Sequences, SequencesExt, FiniteSets

CONSTANTS
    Servers,     \* 1..n
    Late,        \* the link Late -- Late+1 comes up later
    Clients, Home,
    Flags,       \* modes without a parameter; "i" is invite only
    Keys,        \* as numbers, in the order of ircd_strcmp
    Limits,
    Masks,       \* of bans and exceptions
    Wider,       \* Wider[m]: the other masks that match all that m matches
    Excepts,     \* exceptions are used
    Movers,      \* the servers whose clients change modes
    OperModes,   \* the changes IRC operators there make with OPMODE
    Clears,      \* and what they clear: sets of flags, "o", "b", ...
    Chatter,     \* and they do so when all links are up
    Settled,     \* the link comes up only when nothing is on its way
    TS_LAG_TIME,
    MaxMoves, MaxTime

ASSUME ChannelSyncAssumption ==
    /\ Servers = 1..Cardinality(Servers)
    /\ {Late, Late + 1} \subseteq Servers
    /\ Home \in [Clients -> Servers]
    /\ Keys \cup Limits \subseteq Nat \ {0}
    /\ Wider \in [Masks -> SUBSET Masks]
    /\ \A m \in Masks : m \notin Wider[m]
    /\ Movers \subseteq Servers
    /\ {Excepts, Chatter, Settled} \subseteq BOOLEAN
    /\ {TS_LAG_TIME, MaxMoves, MaxTime} \subseteq Nat

VARIABLES
    chan,    \* chan[s]: the channel as server s knows it
    net,     \* net[s][t]: messages from s to t
    up,      \* the late link is up
    now,
    moves,
    side     \* history: the time stamps of both sides when the link came up

vars == <<chan, net, up, now, moves, side>>

NoChannel == [ts |-> 0, modes |-> {}, key |-> 0, limit |-> 0, bans |-> {},
              excepts |-> {}, mem |-> [c \in Clients |-> "none"]]

Members(ch) == {c \in Clients : ch.mem[c] # "none"}
Ops(ch) == {c \in Clients : ch.mem[c] = "op"}

Init ==
    /\ chan = [s \in Servers |-> NoChannel]
    /\ net = [s \in Servers |-> [t \in Servers |-> <<>>]]
    /\ up = FALSE
    /\ now = 1
    /\ moves = 0
    /\ side = <<0, 0>>

Linked(s, t) ==
    /\ t \in {s - 1, s + 1} \cap Servers
    /\ up \/ {s, t} # {Late, Late + 1}

From(s, c) == IF Home[c] > s THEN s + 1 ELSE IF Home[c] < s THEN s - 1 ELSE s

-----------------------------------------------------------------------------
(* A handler works on h: a server, its channel, and what it sends.         *)
Start(s) == [s |-> s, ch |-> chan[s], out |-> net[s]]

sendcmdto_one(h, t, m) == [h EXCEPT !.out[t] = Append(@, m)]

sendcmdto_serv_butone(h, one, m) ==
    [h EXCEPT !.out = [t \in Servers |->
        IF Linked(h.s, t) /\ t # one THEN Append(@[t], m) ELSE @[t]]]

(* The last member takes the channel with it (sub1_from_channel).          *)
remove_user_from_channel(ch, who) ==
    LET left == [ch EXCEPT !.mem = [c \in Clients |-> IF c \in who THEN "none" ELSE @[c]]]
    IN  IF Members(left) = {} THEN NoChannel ELSE left

C(c, ts) == [type |-> "C", c |-> c, ts |-> ts]
J(c, ts) == [type |-> "J", c |-> c, ts |-> ts]
K(c) == [type |-> "K", c |-> c]
M(src, changes, ts) == [type |-> "M", src |-> src, changes |-> changes, ts |-> ts]
OM(changes) == [type |-> "OM", changes |-> changes]
CM(what) == [type |-> "CM", what |-> what]
Server == "server"

-----------------------------------------------------------------------------
(* The mode parser.  A change is [add, kind, arg].                         *)
Change(add, kind, arg) == [add |-> add, kind |-> kind, arg |-> arg]

Narrower(list, mask) == {m \in list : mask \in Wider[m]}

(* mode_parse_ban, mode_process_bans: a new mask replaces those it covers, *)
(* and is not added if one on the list covers it - unless it is to be      *)
(* bounced.                                                                *)
ListChanges(kind, list, x, bounce) ==
    IF ~x.add THEN IF x.arg \in list THEN <<x>> ELSE <<>>
    ELSE IF x.arg \in list THEN <<>>
    ELSE SetToSeq({Change(FALSE, kind, m) : m \in Narrower(list, x.arg)})
         \o (IF bounce \/ Wider[x.arg] \cap list = {} THEN <<x>> ELSE <<>>)

mode_process_bans(ch, x, bounce) == ListChanges("b", ch.bans, x, bounce)
mode_process_excepts(ch, x, bounce) == ListChanges("e", ch.excepts, x, bounce)

(* mode_parse_key.  To bounce a change is to name the old key, or to take  *)
(* the new one away: senses are reversed later.                            *)
KeyChanges(ch, x, force, bounce) ==
    LET allowed == IF x.add THEN force \/ ch.key = 0 ELSE force \/ ch.key = x.arg
    IN  IF ~allowed \/ (x.add /\ ch.key = x.arg) THEN <<>>
        ELSE IF ~bounce THEN <<x>>
        ELSE IF ch.key # 0 THEN <<Change(FALSE, "k", ch.key)>>
        ELSE <<Change(TRUE, "k", x.arg)>>

mode_process_clients(ch, x) ==
    IF ch.mem[x.arg] = (IF x.add THEN "deop" ELSE "op") THEN <<x>> ELSE <<>>

(* What goes into the mode buffer for a change                             *)
mode_parse(ch, x, force, bounce) ==
    CASE x.kind = "flag" -> IF x.add # (x.arg \in ch.modes) THEN <<x>> ELSE <<>>
      [] x.kind = "k" -> KeyChanges(ch, x, force, bounce)
      [] x.kind = "l" -> IF (IF x.add THEN x.arg # ch.limit ELSE ch.limit # 0) THEN <<x>> ELSE <<>>
      [] x.kind = "b" -> mode_process_bans(ch, x, bounce)
      [] x.kind = "e" -> mode_process_excepts(ch, x, bounce)
      [] x.kind = "o" -> mode_process_clients(ch, x)

Switch(set, x) == IF x.add THEN set \cup {x.arg} ELSE set \ {x.arg}

(* What a change does to the channel (MODE_PARSE_SET)                      *)
SetMode(ch, x) ==
    CASE x.kind = "flag" -> [ch EXCEPT !.modes = Switch(@, x)]
      [] x.kind = "k" -> [ch EXCEPT !.key = IF x.add THEN x.arg ELSE 0]
      [] x.kind = "l" -> [ch EXCEPT !.limit = IF x.add THEN x.arg ELSE 0,
                                    !.modes = Switch(@, [x EXCEPT !.arg = "l"])]
      [] x.kind = "b" -> [ch EXCEPT !.bans = Switch(@, x)]
      [] x.kind = "e" -> [ch EXCEPT !.excepts = Switch(@, x)]
      [] x.kind = "o" -> [ch EXCEPT !.mem[x.arg] = IF x.add THEN "op" ELSE "deop"]

(* The parser and the buffer for all changes of a message                  *)
RECURSIVE SetModes(_, _, _)
SetModes(ch, xs, force) ==
    IF xs = <<>> THEN [ch |-> ch, buf |-> <<>>]
    ELSE LET b == mode_parse(ch, Head(xs), force, FALSE)
             r == SetModes(FoldLeft(SetMode, ch, b), Tail(xs), force)
         IN  [r EXCEPT !.buf = b \o @]

(* modebuf_flush_int with MODEBUF_DEST_BOUNCE: senses are reversed.  A     *)
(* limit that was taken away comes back without its value, so that "+l"    *)
(* takes the next parameter, the time stamp.                               *)
Reversed(x, ts) ==
    CASE x.kind = "l" /\ x.add -> Change(FALSE, "l", 0)
      [] x.kind = "l" /\ ~x.add -> Change(TRUE, "l", ts)
      [] OTHER -> [x EXCEPT !.add = ~@]

Bounce(h, p, src, buf) ==
    LET back == [i \in DOMAIN buf |-> Reversed(buf[i], h.ch.ts)]
        gone == \E i \in DOMAIN back : back[i].kind = "l" /\ back[i].add
    IN  IF buf = <<>> THEN h
        ELSE sendcmdto_one(h, p, M(Server, <<Change(FALSE, "o", src)>> \o back,
                                   IF gone THEN 0 ELSE h.ch.ts))
-----------------------------------------------------------------------------
(* Local clients                                                           *)

Move == /\ moves < MaxMoves
        /\ moves' = moves + 1
        /\ UNCHANGED <<up, now, side>>

Commit(h) ==
    /\ chan' = [chan EXCEPT ![h.s] = h.ch]
    /\ net' = [net EXCEPT ![h.s] = h.out]

(* can_join for a client that knows the key and matches no ban             *)
can_join(ch) ==
    /\ "i" \notin ch.modes
    /\ ch.limit = 0 \/ Cardinality(Members(ch)) < ch.limit

(* m_join: the first member creates the channel and is its operator.       *)
m_join(c) ==
    LET h == Start(Home[c])
        new == Members(h.ch) = {}
        ts == IF new THEN now ELSE h.ch.ts
        g == [h EXCEPT !.ch.mem[c] = IF new THEN "op" ELSE "deop", !.ch.ts = ts]
    IN  /\ h.ch.mem[c] = "none"
        /\ can_join(h.ch)
        /\ Commit(sendcmdto_serv_butone(g, h.s, IF new THEN C(c, ts) ELSE J(c, ts)))
        /\ Move

m_mode(c, x) ==
    LET h == Start(Home[c])
        r == SetModes(h.ch, <<x>>, FALSE)
    IN  /\ h.s \in Movers
        /\ Chatter \/ ~up
        /\ h.ch.mem[c] = "op"
        /\ r.buf # <<>>
        /\ Commit(sendcmdto_serv_butone([h EXCEPT !.ch = r.ch], h.s, M(c, r.buf, 0)))
        /\ Move

(* IRC operators: OPMODE, which no server refuses, and CLEARMODE.          *)
opmode(h, one, m) ==
    LET r == SetModes(h.ch, m.changes, TRUE)
    IN  IF Members(h.ch) = {} \/ r.buf = <<>> THEN h
        ELSE sendcmdto_serv_butone([h EXCEPT !.ch = r.ch], one, OM(r.buf))

do_clearmode(h, one, what) ==
    LET ch == [h.ch EXCEPT
                !.modes = @ \ what,
                !.key = IF "k" \in what THEN 0 ELSE @,
                !.limit = IF "l" \in what THEN 0 ELSE @,
                !.bans = IF "b" \in what THEN {} ELSE @,
                !.excepts = IF "e" \in what THEN {} ELSE @,
                !.mem = [c \in Clients |-> IF "o" \in what /\ @[c] = "op" THEN "deop" ELSE @[c]]]
    IN  IF Members(h.ch) = {} THEN h
        ELSE sendcmdto_serv_butone([h EXCEPT !.ch = ch], one, CM(what))

ByOper(s) == /\ s \in Movers
             /\ Chatter \/ ~up
             /\ Members(chan[s]) # {}
             /\ Move

mo_opmode(s, x) == ByOper(s) /\ Commit(opmode(Start(s), s, OM(<<x>>)))

mo_clearmode(s, what) == ByOper(s) /\ Commit(do_clearmode(Start(s), s, what))

-----------------------------------------------------------------------------
(* Messages from server p                                                  *)

(* A channel with an older time stamp keeps its operators: the newcomer is *)
(* deopped where it came from.                                             *)
ms_create(h, p, m) ==
    LET badop == /\ Members(h.ch) # {}
                 /\ now - m.ts > TS_LAG_TIME \/ m.ts > h.ch.ts
        g == IF badop
             THEN sendcmdto_one(h, p, M(Server, <<Change(FALSE, "o", m.c)>>, h.ch.ts))
             ELSE [h EXCEPT !.ch.ts = m.ts]
    IN  IF h.ch.mem[m.c] # "none" THEN h
        ELSE sendcmdto_serv_butone([g EXCEPT !.ch.mem[m.c] = IF badop THEN "deop" ELSE "op"],
                                   p, IF badop THEN J(m.c, g.ch.ts) ELSE m)

ms_join(h, p, m) ==
    LET g == IF Members(h.ch) = {} THEN [h EXCEPT !.ch.ts = m.ts] ELSE h
    IN  IF h.ch.mem[m.c] # "none" THEN h
        ELSE sendcmdto_serv_butone([g EXCEPT !.ch.mem[m.c] = "deop"], p, J(m.c, g.ch.ts))

(* What a server or an operator sets is forced; what others set is sent    *)
(* back.                                                                   *)
ms_mode(h, p, m) ==
    LET r == SetModes(h.ch, m.changes, TRUE)
        ts == IF m.src = Server /\ m.ts # 0 /\ m.ts < h.ch.ts THEN m.ts ELSE h.ch.ts
        bounced == FlattenSeq([i \in DOMAIN m.changes |->
                                  mode_parse(h.ch, m.changes[i], FALSE, TRUE)])
    IN  IF Members(h.ch) = {} THEN h
        ELSE IF m.src # Server /\ h.ch.mem[m.src] # "op" THEN Bounce(h, p, m.src, bounced)
        ELSE IF r.buf = <<>> THEN [h EXCEPT !.ch.ts = ts]
        ELSE sendcmdto_serv_butone([h EXCEPT !.ch = [r.ch EXCEPT !.ts = ts]], p,
                                   M(m.src, r.buf, IF m.src = Server THEN ts ELSE 0))

(* The kick of a net rider by its own server                               *)
ms_kick(h, p, m) ==
    IF Members(h.ch) = {} THEN h
    ELSE sendcmdto_serv_butone([h EXCEPT !.ch = remove_user_from_channel(@, {m.c})], p, m)

-----------------------------------------------------------------------------
(* The net burst                                                           *)

(* send_channel_modes                                                      *)
B(ts, modes, key, limit, bans, excepts, mem) ==
    [type |-> "B", ts |-> ts, modes |-> modes, key |-> key, limit |-> limit,
     bans |-> bans, excepts |-> excepts, mem |-> mem]

send_channel_modes(s) ==
    LET ch == chan[s]
    IN  IF Members(ch) = {} THEN <<>>
        ELSE <<B(ch.ts, ch.modes \ {"l"}, ch.key, ch.limit, ch.bans, ch.excepts, ch.mem)>>

HasModes(m) == m.modes # {} \/ m.key # 0 \/ m.limit # 0

(* Anti net ride: local members of the younger channel that could not have *)
(* joined the older one are kicked, and the channel may go away.           *)
netride_modes(ch, m) == "i" \in m.modes \/ (m.key # 0 /\ m.key # ch.key)

NetRiders(h, m) ==
    IF netride_modes(h.ch, m)
    THEN {c \in Members(h.ch) : Home[c] = h.s} ELSE {}

KickRiders_silent(h, m) ==
    [h EXCEPT !.ch = IF Members(@) = {} THEN NoChannel
                     ELSE remove_user_from_channel(@, NetRiders(h, m))]

KickRiders(h, m) ==
    LET g == FoldLeft(LAMBDA acc, c : sendcmdto_serv_butone(acc, h.s, K(c)), h,
                      SetToSeq(NetRiders(h, m)))
    IN  [g EXCEPT !.ch = IF Members(@) = {} THEN NoChannel
                         ELSE remove_user_from_channel(@, NetRiders(h, m))]

(* mode_parse with MODE_PARSE_BURST: of two limits the lower one stays, of *)
(* two keys the first in the alphabet.                                     *)
BurstLimit(ch, m, wipe) ==
    IF m.limit = 0 \/ ("l" \in ch.modes /\ ch.limit < m.limit) \/ (~wipe /\ m.limit = ch.limit)
    THEN 0 ELSE m.limit

BurstKey(ch, m) == IF m.key = 0 \/ (ch.key # 0 /\ ch.key <= m.key) THEN 0 ELSE m.key

(* A list from a burst: masks that are on the list are not passed on; with *)
(* wipeout, masks that are not in the burst go.                            *)
BurstList(list, new, wipe) ==
    LET kept == IF wipe THEN list \cap new ELSE list
        added == {m \in new \ list : Wider[m] \cap kept = {}}
    IN  [list |-> {m \in kept : Wider[m] \cap added = {}} \cup added, added |-> added]

(* The mark for wipeout is never put on exceptions.                        *)
BurstExcepts(list, new) == BurstList(list, new, FALSE)

(* A member that is not in the burst, when the channel of the burst is     *)
(* older.                                                                  *)
Deopped_kept(status) == status

Deopped(status) == IF status = "op" THEN "deop" ELSE status

ms_burst(h0, p, m) ==
    LET older == h0.ch.ts = 0 \/ h0.ch.ts > m.ts
        h == IF older /\ HasModes(m) THEN KickRiders(h0, m) ELSE h0
        set == older \/ h0.ch.ts = m.ts
        base == IF older THEN [h.ch EXCEPT !.ts = m.ts, !.modes = {}] ELSE h.ch
        limit == IF set THEN BurstLimit(base, m, older) ELSE 0
        key == IF set THEN BurstKey(base, m) ELSE 0
        flags == IF set THEN m.modes \ base.modes ELSE {}
        bans == BurstList(base.bans, m.bans, older)
        excepts == BurstExcepts(base.excepts, m.excepts)
        joined == [c \in Clients |->
            IF From(h.s, c) # p \/ m.mem[c] = "none" THEN "none"
            ELSE IF set THEN m.mem[c] ELSE "deop"]
        mem == [c \in Clients |->
            IF joined[c] # "none" THEN joined[c]
            ELSE IF older THEN Deopped(base.mem[c]) ELSE base.mem[c]]
        ch == [base EXCEPT
            !.modes = @ \cup flags \cup (IF limit # 0 THEN {"l"} ELSE {}),
            !.limit = IF limit # 0 THEN limit ELSE @,
            !.key = IF key # 0 THEN key ELSE @,
            !.bans = IF set THEN bans.list ELSE @,
            !.excepts = IF set THEN excepts.list ELSE @,
            !.mem = mem]
    IN  sendcmdto_serv_butone([h EXCEPT !.ch = ch], p,
            B(ch.ts, flags, key, limit, IF set THEN bans.added ELSE {},
              IF set THEN excepts.added ELSE {}, joined))

-----------------------------------------------------------------------------
Handle(h, p, m) ==
    CASE m.type = "C" -> ms_create(h, p, m)
      [] m.type = "J" -> ms_join(h, p, m)
      [] m.type = "M" -> ms_mode(h, p, m)
      [] m.type = "OM" -> opmode(h, p, m)
      [] m.type = "CM" -> do_clearmode(h, p, m.what)
      [] m.type = "K" -> ms_kick(h, p, m)
      [] m.type = "B" -> ms_burst(h, p, m)

Receive(p, s) ==
    LET h == Handle(Start(s), p, Head(net[p][s]))
    IN  /\ net[p][s] # <<>>
        /\ chan' = [chan EXCEPT ![s] = h.ch]
        /\ net' = [net EXCEPT ![s] = h.out, ![p][s] = Tail(@)]
        /\ UNCHANGED <<up, now, moves, side>>

(* server_estab on both ends                                               *)
server_estab ==
    /\ ~up
    /\ Settled => \A s, t \in Servers : net[s][t] = <<>>
    /\ up' = TRUE
    /\ net' = [net EXCEPT ![Late][Late + 1] = send_channel_modes(Late),
                          ![Late + 1][Late] = send_channel_modes(Late + 1)]
    /\ side' = <<chan[Late].ts, chan[Late + 1].ts>>
    /\ UNCHANGED <<chan, now, moves>>

Tick ==
    /\ now < MaxTime
    /\ now' = now + 1
    /\ UNCHANGED <<chan, net, up, moves, side>>

Changes ==
    {Change(a, "flag", f) : a \in BOOLEAN, f \in Flags}
    \cup {Change(a, "k", k) : a \in BOOLEAN, k \in Keys}
    \cup {Change(TRUE, "l", n) : n \in Limits}
    \cup (IF Limits = {} THEN {} ELSE {Change(FALSE, "l", 0)})
    \cup {Change(a, k, b) : a \in BOOLEAN, k \in IF Excepts THEN {"b", "e"} ELSE {"b"}, b \in Masks}
    \cup {Change(a, "o", c) : a \in BOOLEAN, c \in Clients}

Next ==
    \/ \E c \in Clients : m_join(c)
    \/ \E c \in Clients, x \in Changes : m_mode(c, x)
    \/ \E s \in Servers, x \in OperModes : mo_opmode(s, x)
    \/ \E s \in Servers, what \in Clears : mo_clearmode(s, what)
    \/ \E p, s \in Servers : Receive(p, s)
    \/ server_estab
    \/ Tick

Spec == Init /\ [][Next]_vars

-----------------------------------------------------------------------------
Quiet == up /\ \A s, t \in Servers : net[s][t] = <<>>

(* When the burst is over the servers agree on the channel.                *)
MergeAgrees == Quiet => \A s, t \in Servers : chan[s] = chan[t]

(* ms_burst, the wipeout of old operators: when the burst is over, whoever *)
(* is operator was on the side with the older time stamp, or on either if  *)
(* the time stamps were equal.                                             *)
OlderWins ==
    Quiet /\ side[1] # 0 /\ side[2] # 0 =>
        \A s \in Servers : \A c \in Ops(chan[s]) :
            side[IF Home[c] <= Late THEN 1 ELSE 2] <= side[IF Home[c] <= Late THEN 2 ELSE 1]
=============================================================================
