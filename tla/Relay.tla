------------------------------- MODULE Relay -------------------------------
(***************************************************************************)
(* Messages of a user to a channel, to users and to masks of servers, as   *)
(* they go from server to server (m_privmsg.c, m_notice.c, m_wall*.c,      *)
(* m_cprivmsg.c, ircd_relay.c, send.c), with the silence lists that every  *)
(* server keeps of every user (m_silence.c, s_user.c), and the limit on    *)
(* how many targets a user may address (s_user.c).                         *)
(*                                                                         *)
(* The speaker is on server Home of a line of servers; view[s] is what     *)
(* server s knows of it.  There is one channel, Channels[1].               *)
(***************************************************************************)
EXTENDS Bans

CONSTANTS
    Users, Lives,    \* the others; Lives[u]: the server of u
    Rosters,         \* what they may be: functions of Users to records of on
                     \* (flags on the channel, "none" for not there) and flags
    SilenceMasks,    \* <<mask, exempt>>
    Texts,           \* sets of what a text has in it
    Kinds,           \* the commands used
    MAXSILES, MAXTARGETS, STARTTARGETS, RESERVEDTARGETS, TARGET_DELAY,
    MaxMessages

VARIABLES
    roster,   \* roster[s][u]: u's profile as server s knows it
    silence,  \* silence[s][u]: u's silence list as server s knows it
    heard,    \* heard[i][u]: the texts of message i that u was sent
    due       \* due[i]: who should hear message i, and who may

Chan == Channels[1]
OnIt(p) == p.on # {"none"}
Toward(s, t) == IF t < s THEN s - 1 ELSE s + 1

-----------------------------------------------------------------------------
(* Silence lists: sequences of [mask, exempt], the newest first            *)
Covers(m, n) == (m.nick = "*" \/ m.nick = n.nick) /\ (m.host = AnyHost \/ m.host = n.host)

(* The visible host; the real one too where another one hides it; and the  *)
(* address for masks of addresses                                          *)
SilenceMatches(u, m) ==
    /\ m.nick \in {"*", u.nick}
    /\ IF m.host = Ip THEN TRUE
       ELSE m.host \in {AnyHost, u.host} \/ (m.host = Real /\ (HasHiddenHost(u) \/ HasSetHost(u)))

is_silenced(u, list) == \E k \in DOMAIN list : ~list[k].exempt /\ SilenceMatches(u, list[k].mask)
is_silence_exempted(u, list) == \E k \in DOMAIN list : list[k].exempt /\ SilenceMatches(u, list[k].mask)
Silences(u, list) == is_silenced(u, list) /\ ~is_silence_exempted(u, list)

del_silence(list, e) == SelectSeq(list, LAMBDA x : ~(Covers(e.mask, x.mask) /\ x.exempt = e.exempt))

(* The list is walked from the newest entry: entries within the new mask   *)
(* go, whatever their kind, until one refuses it.  For a local user the    *)
(* list may be full, and a mask within another of its kind is refused.     *)
Refuses(list, k, e, mine) ==
    \/ list[k].mask = e.mask
    \/ /\ mine
       /\ ~Covers(e.mask, list[k].mask)
       /\ \/ Cardinality({j \in 1..k : ~Covers(e.mask, list[j].mask)}) >= MAXSILES
          \/ Covers(list[k].mask, e.mask) /\ list[k].exempt = e.exempt

add_silence(list, e, mine) ==
    LET at == {k \in DOMAIN list : Refuses(list, k, e, mine)}
        first == CHOOSE k \in at : \A j \in at : k <= j
        Without(q) == SelectSeq(q, LAMBDA x : ~Covers(e.mask, x.mask))
    IN  IF at = {} THEN [ok |-> TRUE, list |-> <<e>> \o Without(list)]
        ELSE [ok |-> FALSE,
              list |-> Without(SubSeq(list, 1, first - 1)) \o SubSeq(list, first, Len(list))]

-----------------------------------------------------------------------------
(* To whom a server hands a message on: users of its own, and links.       *)
Reach(s, users, butone) ==
    [local |-> {u \in users : Lives[u] = s},
     links |-> {Toward(s, Lives[u]) : u \in {v \in users : Lives[v] # s}} \ {butone}]

(* SKIP_NONOPS, SKIP_NONHOPS, SKIP_NONVOICES                               *)
Ranks == [PRIVMSG |-> {}, NOTICE |-> {}, WALLCHOPS |-> {"o"}, WALLHOPS |-> {"o", "h"},
          WALLVOICES |-> {"o", "h", "v"}]

\* Mutant: sends a copy for every member behind a link
sendcmdto_channel_butone_each(s, kind, butone) ==
    LET users == {u \in Users : OnIt(roster[s][u])}
    IN  [local |-> {u \in users : Lives[u] = s}, links |-> {t \in Servers : t \in {s - 1, s + 1}}]

(* Links are past their burst, members are no zombies (those are in        *)
(* ChannelMembers), and no F:line forwards the channel to a service.       *)
sendcmdto_channel_butone(s, kind, butone) ==
    Reach(s, {u \in Users : /\ OnIt(roster[s][u])
                            /\ "d" \notin roster[s][u].flags
                            /\ Ranks[kind] # {} => Ranks[kind] \cap roster[s][u].on # {}
                            /\ ~Silences(view[s], silence[s][u])}, butone)

sendcmdto_match_butone(s, server, butone) == Reach(s, {u \in Users : Lives[u] = server}, butone)

sendwallto_group_butone(s, butone) ==
    [local |-> {u \in Users : Lives[u] = s /\ "w" \in roster[s][u].flags},
     links |-> {t \in Servers : t \in {s - 1, s + 1}} \ {butone}]

sendcmdto_one(s, u) == Reach(s, {u}, 0)
ToServer(s, t) == [local |-> {}, links |-> {Toward(s, t)}]
Nobody == [local |-> {}, links |-> {}]

-----------------------------------------------------------------------------
(* What the speaker's own server checks                                    *)
StripColour(text) == text \ {"colour"}

(* A ban on a word replaces it.                                            *)
textban_replace(u, text) ==
    IF \E m \in chan[Chan].bans : "REPLACE" \in m.ext /\ m.arg \in text /\ user_matches_host(u, m)
    THEN (text \ {"word"}) \cup {"other"} ELSE text

(* A text is refused (nothing is left), or goes on as it is, without       *)
(* colours, or replaced.                                                   *)
ChannelText(u, text, total) ==
    LET modes == chan[Chan].modes
        strip == IF "S" \in modes THEN StripColour(text) ELSE text
    IN  IF \/ "T" \in modes /\ total > 1
           \/ "c" \in modes /\ "colour" \in text
           \/ "C" \in modes /\ "ctcp" \in text /\ "action" \notin text
           \/ strip = {}
        THEN {}
        ELSE IF FreshExcepted(u, Chan) THEN strip
        ELSE IF \E w \in strip : ext_text_ban(u, Chan, w) THEN {}
        ELSE textban_replace(u, strip)

(* limited: the speaker has addressed too many others, which counts on a   *)
(* channel with +n, but not for WALLHOPS.                                  *)
MaySpeak(u, limited) == client_can_send_to_channel(u, Chan, TRUE).ok /\ ~("n" \in chan[Chan].modes /\ limited)

relay_channel_message(u, text, total, limited) ==
    IF MaySpeak(u, limited) THEN ChannelText(u, text, total) ELSE {}
relay_channel_notice(u, text, total, limited) ==
    IF MaySpeak(u, limited) /\ "N" \notin chan[Chan].modes THEN ChannelText(u, text, total) ELSE {}
wall_channel(u, text, limited) == IF MaySpeak(u, limited) THEN text ELSE {}

(* +R, +D and +q of the one addressed                                      *)
Unwilling(u, p) ==
    /\ "o" \notin u.flags
    /\ \/ "R" \in p.flags /\ ~IsAccount(u)
       \/ "D" \in p.flags
       \/ "q" \in p.flags /\ ~(OnIt(p) /\ Chan \in DOMAIN u.on)

relay_private_message(s, u, x, limited) ==
    IF \/ "k" \notin roster[s][x].flags /\ limited
       \/ Silences(u, silence[s][x])
       \/ Unwilling(u, roster[s][x])
    THEN Nobody ELSE sendcmdto_one(s, x)
relay_private_notice(s, u, x, limited) == relay_private_message(s, u, x, limited)

server_relay_private_message(s, u, x) ==
    IF Silences(u, silence[s][x]) THEN Nobody ELSE sendcmdto_one(s, x)

(* NICK@server: a message goes to a service there only, a notice to anyone *)
Directed(s, u, x) ==
    IF \/ Lives[x] # s
       \/ Unwilling(u, roster[s][x])
       \/ Silences(u, silence[s][x])
    THEN Nobody ELSE sendcmdto_one(s, x)
relay_directed_message(s, u, x, server) ==
    IF server # s THEN IF server = Services THEN ToServer(s, server) ELSE Nobody
    ELSE IF "k" \in roster[s][x].flags /\ s = Services THEN Directed(s, u, x) ELSE Nobody
relay_directed_notice(s, u, x, server) ==
    IF server # s THEN ToServer(s, server) ELSE Directed(s, u, x)

whisper(s, u, x) ==
    IF \/ Chan \notin DOMAIN u.on \/ u.on[Chan] = {} \/ ~OnIt(roster[s][x])
       \/ Silences(u, silence[s][x])
       \/ "o" \notin u.flags /\ ("D" \in roster[s][x].flags \/ ("R" \in roster[s][x].flags /\ ~IsAccount(u)))
    THEN Nobody ELSE sendcmdto_one(s, x)

-----------------------------------------------------------------------------
Msg(type, kind, to, server, text) ==
    [type |-> type, kind |-> kind, to |-> to, server |-> server, text |-> text, id |-> Len(heard) + 1]

(* Where server s hands message m on, that came over link butone           *)
server_relay_channel_message(s, m, butone) ==
    IF client_can_send_to_channel(view[s], Chan, s = Home).ok
    THEN sendcmdto_channel_butone(s, m.kind, butone) ELSE Nobody
relay_masked_message(s, m, butone) ==
    IF "o" \in view[s].flags THEN sendcmdto_match_butone(s, m.server, butone) ELSE Nobody

Hand(s, m, butone) ==
    CASE m.type = "channel" -> server_relay_channel_message(s, m, butone)
      [] m.type = "private" -> server_relay_private_message(s, view[s], m.to)
      [] m.type = "directed" /\ m.kind = "PRIVMSG" -> relay_directed_message(s, view[s], m.to, m.server)
      [] m.type = "directed" /\ m.kind = "NOTICE" -> relay_directed_notice(s, view[s], m.to, m.server)
      [] m.type = "masked" -> relay_masked_message(s, m, butone)
      [] m.type = "wallops" -> sendwallto_group_butone(s, butone)

(* The client_can_send_to_channel of a channel message caches its answers. *)
Cached(s, m) == IF m.type = "channel" THEN client_can_send_to_channel(view[s], Chan, s = Home).u ELSE view[s]

Put(n, s, links, m) == [n EXCEPT ![s] = [t \in DOMAIN @ |-> IF t \in links THEN Append(@[t], m) ELSE @[t]]]

Hear(h, m, users) ==
    [h EXCEPT ![m.id] = [u \in Users |-> IF u \in users THEN Append(@[u], m.text) ELSE @[u]]]

(* Who should hear it: as the speaker's server sees them all               *)
Audience(m) ==
    {u \in Users :
        LET p == roster[Lives[u]][u]
        IN  CASE m.type = "channel" ->
                   /\ OnIt(p) /\ "d" \notin p.flags /\ ~Silences(view[Home], silence[Lives[u]][u])
                   /\ Ranks[m.kind] # {} => Ranks[m.kind] \cap p.on # {}
              [] m.type \in {"private", "directed"} ->
                   /\ u = m.to /\ ~Silences(view[Home], silence[Lives[u]][u])
                   /\ m.type = "directed" => ~Unwilling(view[Home], p)
              [] m.type = "masked" -> Lives[u] = m.server
              [] m.type = "wallops" -> "w" \in p.flags}

(* The speaker's server sends m to r, where it goes anywhere at all.       *)
Send(m, r) ==
    /\ heard' = Hear(Append(heard, [u \in Users |-> <<>>]), m, r.local)
    /\ due' = Append(due, [should |-> IF r = Nobody /\ m.type \notin {"channel", "masked", "wallops"} THEN {}
                                      ELSE Audience(m), may |-> {}, text |-> m.text])
    /\ net' = Put(net, Home, r.links, m)
    /\ view' = [view EXCEPT ![Home] = Cached(Home, m)]
    /\ UNCHANGED <<moves, me, chan, roster, silence>>

Speaking == Len(heard) < MaxMessages
Filtered(text) == "spam" \in text /\ "o" \notin view[Home].flags

SayChannel(kind, said) ==
    /\ Speaking /\ kind \in Kinds
    /\ said # {}
    /\ Send(Msg("channel", kind, "", 0, said), sendcmdto_channel_butone(Home, kind, 0))
m_privmsg_channel(text, total, limited) ==
    ~Filtered(text) /\ SayChannel("PRIVMSG", relay_channel_message(view[Home], text, total, limited))
m_notice_channel(text, total, limited) ==
    ~Filtered(text) /\ SayChannel("NOTICE", relay_channel_notice(view[Home], text, total, limited))
m_wallchops(text, limited) == SayChannel("WALLCHOPS", wall_channel(view[Home], text, limited))
m_wallhops(text) == SayChannel("WALLHOPS", wall_channel(view[Home], text, FALSE))
m_wallvoices(text, limited) == SayChannel("WALLVOICES", wall_channel(view[Home], text, limited))

SayUser(kind, x, text, r) ==
    /\ Speaking /\ "USER" \in Kinds
    /\ ~Filtered(text)
    /\ Send(Msg("private", kind, x, 0, text), r)
m_privmsg_user(x, text, limited) ==
    SayUser("PRIVMSG", x, text, relay_private_message(Home, view[Home], x, limited))
m_notice_user(x, text, limited) ==
    SayUser("NOTICE", x, text, relay_private_notice(Home, view[Home], x, limited))

SayDirected(kind, x, server, text, r) ==
    /\ Speaking /\ "DIRECTED" \in Kinds
    /\ ~Filtered(text)
    /\ Lives[x] = server /\ server = Services /\ "k" \in roster[Home][x].flags
    /\ Send(Msg("directed", kind, x, server, text), r)
m_privmsg_directed(x, server, text) ==
    SayDirected("PRIVMSG", x, server, text, relay_directed_message(Home, view[Home], x, server))
m_notice_directed(x, server, text) ==
    SayDirected("NOTICE", x, server, text, relay_directed_notice(Home, view[Home], x, server))

mo_privmsg_masked(kind, server, text) ==
    /\ Speaking /\ "MASKED" \in Kinds /\ "o" \in view[Home].flags
    /\ LET m == Msg("masked", kind, "", server, text) IN Send(m, relay_masked_message(Home, m, 0))

mo_wallops(text) ==
    /\ Speaking /\ "WALLOPS" \in Kinds /\ "o" \in view[Home].flags
    /\ Send(Msg("wallops", "WALLOPS", "", 0, text), sendwallto_group_butone(Home, 0))

m_cprivmsg(x, text) ==
    /\ Speaking /\ "WHISPER" \in Kinds
    /\ Send(Msg("private", "PRIVMSG", x, 0, text), whisper(Home, view[Home], x))

-----------------------------------------------------------------------------
(* What changes meanwhile: a user parts, sets a silence or the speaker     *)
(* changes its nick.  Messages under way may or may not reach that user.   *)
Unsure(u) == due' = [i \in DOMAIN due |-> [due[i] EXCEPT !.should = @ \ {u}, !.may = @ \cup {u}]]
Changing == moves < MaxMoves /\ moves' = moves + 1

part(u) ==
    LET s == Lives[u]
    IN  /\ Changing /\ "part" \in Ops
        /\ OnIt(roster[s][u])
        /\ roster' = [roster EXCEPT ![s][u].on = {"none"}]
        /\ net' = Put(net, s, DOMAIN net[s], [type |-> "part", who |-> u])
        /\ Unsure(u)
        /\ UNCHANGED <<view, me, chan, silence, heard>>

m_silence(u, add, e) ==
    LET s == Lives[u]
        list == silence[s][u]
        r == IF add THEN add_silence(list, e, TRUE)
             ELSE [ok |-> del_silence(list, e) # list, list |-> del_silence(list, e)]
    IN  /\ Changing /\ "silence" \in Ops
        /\ silence' = [silence EXCEPT ![s][u] = r.list]
        /\ net' = IF r.ok THEN Put(net, s, DOMAIN net[s], [type |-> "silence", who |-> u, add |-> add, entry |-> e])
                  ELSE net
        /\ Unsure(u)
        /\ UNCHANGED <<view, me, chan, roster, heard>>

nick(n) ==
    /\ Changing /\ "nick" \in Ops
    /\ n # view[Home].nick
    /\ view' = [view EXCEPT ![Home] = set_nick_name(@, n)]
    /\ net' = Put(net, Home, DOMAIN net[Home], [type |-> "nick", nick |-> n])
    /\ UNCHANGED <<me, chan, roster, silence, heard, due>>

(* Server s takes what t sent it.  Another server does not clear what it   *)
(* cached of a remote user that changes its nick.                          *)
Take(s, t) ==
    LET m == net[t][s][1]
        rest == [net EXCEPT ![t][s] = Tail(@)]
        on == DOMAIN net[s] \ {t}
        r == Hand(s, m, t)
        u == m.who
    IN  /\ net[t][s] # <<>>
        /\ CASE m.type = "part" ->
                   /\ roster' = [roster EXCEPT ![s][u].on = {"none"}]
                   /\ net' = Put(rest, s, on, m)
                   /\ UNCHANGED <<view, silence, heard>>
             [] m.type = "silence" ->
                   /\ silence' = [silence EXCEPT ![s][u] =
                                    IF m.add THEN add_silence(@, m.entry, FALSE).list ELSE del_silence(@, m.entry)]
                   /\ net' = Put(rest, s, on, m)
                   /\ UNCHANGED <<view, roster, heard>>
             [] m.type = "nick" ->
                   /\ view' = [view EXCEPT ![s].nick = m.nick]
                   /\ net' = Put(rest, s, on, m)
                   /\ UNCHANGED <<roster, silence, heard>>
             [] OTHER ->
                   /\ heard' = Hear(heard, m, r.local)
                   /\ net' = Put(rest, s, r.links, m)
                   /\ view' = [view EXCEPT ![s] = Cached(s, m)]
                   /\ UNCHANGED <<roster, silence>>
        /\ UNCHANGED <<moves, me, chan, due>>

RelayInit ==
    /\ \E status \in {{}, {"v"}}, flags \in {{}, {"o"}} :
          view = [s \in Servers |->
                    [nick |-> "n", flags |-> flags, host |-> Real, fake |-> "", account |-> "", info |-> "me",
                     marks |-> {}, on |-> [c \in {Chan} |-> status], cache |-> [c \in {Chan} |-> Unknown]]]
    /\ \E p \in Rosters : roster = [s \in Servers |-> p]
    /\ \E b \in SUBSET BanMasks, x \in ChanModes : chan = [c \in {Chan} |-> [bans |-> b, excepts |-> {}, modes |-> x]]
    /\ silence = [s \in Servers |-> [u \in Users |-> <<>>]]
    /\ net = [s \in Servers |-> [t \in Neighbours(s) |-> <<>>]]
    /\ heard = <<>> /\ due = <<>> /\ moves = 0 /\ me = 0

RelayNext ==
    \/ \E text \in Texts, total \in {1, 2}, limited \in BOOLEAN :
          m_privmsg_channel(text, total, limited) \/ m_notice_channel(text, total, limited)
    \/ \E text \in Texts, limited \in BOOLEAN :
          m_wallchops(text, limited) \/ m_wallvoices(text, limited)
    \/ \E text \in Texts : m_wallhops(text)
    \/ \E x \in Users, text \in Texts, limited \in BOOLEAN :
          m_privmsg_user(x, text, limited) \/ m_notice_user(x, text, limited)
    \/ \E x \in Users, server \in Servers, text \in Texts :
          m_privmsg_directed(x, server, text) \/ m_notice_directed(x, server, text)
    \/ \E kind \in {"PRIVMSG", "NOTICE"}, server \in Servers, text \in Texts : mo_privmsg_masked(kind, server, text)
    \/ \E text \in Texts : mo_wallops(text)
    \/ \E x \in Users, text \in Texts : m_cprivmsg(x, text)
    \/ \E u \in Users : part(u)
    \/ \E u \in Users, add \in BOOLEAN, e \in SilenceMasks : m_silence(u, add, e)
    \/ \E n \in Nicks : nick(n)
    \/ \E s \in Servers : \E t \in Neighbours(s) : Take(s, t)

AtRest == \A s \in Servers : \A t \in DOMAIN net[s] : net[s][t] = <<>>

(* Nobody hears a message twice or unasked, and once nothing is under way  *)
(* everybody it was for has heard it, wherever they are and whatever they  *)
(* have set against others.                                                *)
HeardRight ==
    \A i \in DOMAIN heard : \A u \in Users :
        /\ heard[i][u] \in {<<>>, <<due[i].text>>}
        /\ heard[i][u] # <<>> => u \in due[i].should \cup due[i].may
        /\ AtRest /\ u \in due[i].should => heard[i][u] # <<>>

(* With nothing under way all servers have the same silence list of every  *)
(* user.                                                                   *)
SilencesAgree == AtRest => \A s \in Servers : silence[s] = silence[Home]

-----------------------------------------------------------------------------
(* The targets of a local user: me holds the hashes of the last ones, the  *)
(* time from which a new one is allowed, the time, and when new ones were  *)
(* taken.                                                                  *)
InTable(t, hash) == \E k \in DOMAIN t.targets : t.targets[k] = hash
Move1(seq, from, to, hash) ==
    [k \in DOMAIN seq |-> IF k = from THEN hash ELSE IF k \in (from + 1)..to THEN seq[k - 1] ELSE seq[k]]

(* Someone wrote to the user: it may answer.                               *)
add_target(t, hash) ==
    IF InTable(t, hash) THEN t
    ELSE [t EXCEPT !.targets = Move1(@, RESERVEDTARGETS + 1, MAXTARGETS, hash)]

Later(a, b) == IF a < b THEN b ELSE a

check_target_limit(t, hash, created) ==
    IF InTable(t, hash)
    THEN LET at == CHOOSE k \in DOMAIN t.targets : t.targets[k] = hash /\ \A j \in 1..(k - 1) : t.targets[j] # hash
         IN  [t EXCEPT !.targets = Move1(@, 1, at, hash)]
    ELSE IF ~created /\ t.now < t.next
    THEN [t EXCEPT !.next = IF @ - t.now < TARGET_DELAY + 8 THEN @ + 2 ELSE @]
    ELSE [t EXCEPT !.targets = Move1(@, 1, MAXTARGETS, hash),
                   !.next = IF created THEN @ ELSE Later(@ + TARGET_DELAY, t.now - TARGET_DELAY * (MAXTARGETS - 1)),
                   !.taken = IF created THEN @ ELSE Append(@, t.now)]

TargetsInit == me = [targets |-> [k \in 1..MAXTARGETS |-> 0], next |-> 0 - TARGET_DELAY * (STARTTARGETS - 1),
                     now |-> 0, taken |-> <<>>]

TargetsNext ==
    \/ /\ Len(me.taken) < MaxMessages
       /\ \E hash \in Users, created \in BOOLEAN : me' = check_target_limit(me, hash, created)
    \/ \E hash \in Users : me' = add_target(me, hash)
    \/ me.now < MaxMoves /\ me' = [me EXCEPT !.now = @ + 1]

(* In any stretch of time the user addresses no more new targets than one  *)
(* for every TARGET_DELAY and the ones that can be saved up.               *)
TargetsLimited ==
    \A i, j \in DOMAIN me.taken :
        i < j => (me.taken[j] - me.taken[i]) + TARGET_DELAY * MAXTARGETS >= TARGET_DELAY * (j - i)
=============================================================================
