-------------------------------- MODULE Bans --------------------------------
(***************************************************************************)
(* The host that others see of a user, and whom a channel's bans hit.      *)
(*                                                                         *)
(* The host (s_user.c: hide_hostmask, unhide_hostmask, set_hostmask)       *)
(* depends on the modes +x and +h that the user sets at its own server and *)
(* on the account and fake host that services give it (m_account.c,        *)
(* m_fakehost.c, m_sethost.c); a change of it means something for the bans *)
(* that were looked up before.  One user on server Home of a line of       *)
(* servers, with services on server Services.  A host is a pair of its     *)
(* kind and what it is made of.                                            *)
(*                                                                         *)
(* The bans and exceptions (channel.c: is_banned, is_excepted,             *)
(* is_ext_banned, member_can_send_to_channel; s_user.c: set_nick_name) are *)
(* of channels that one local user is on, and a membership caches the      *)
(* answers.  A mask is a record: ext, the kinds of extended ban it is      *)
(* (none for a plain one), nick and host, the pattern that names are       *)
(* matched with, and arg, what follows the kind of an extended ban.        *)
(***************************************************************************)
EXTENDS Integers, Sequences, FiniteSets

CONSTANTS
    Servers, Home, Services,  \* Servers = 1..n
    Vhosts, Fakes, Accounts,  \* hosts for SETHOST and FAKEHOST, accounts
    Ops,                      \* what is done: letters of MODE, types of ACCOUNT
    STYLE,                    \* FEAT_HOST_HIDING_STYLE: 1 account hosts, 2 cloaks
    HIDDEN_HOST_QUIT, ALLOWRMX, DNSBL_MARK_FAKEHOST,
    Marked,                   \* a black list marked the user (host "mark")
    MaxMoves

VARIABLES
    view,    \* view[s]: what server s knows of the user
    net,     \* net[s][t]: messages from s to its neighbour t
    moves

Real == <<"real", "">>
Virtual == <<"virtual", "">>
Unknown == [ban |-> "unknown", except |-> "unknown"]

IsHiddenHost(u) == "x" \in u.flags
HasSetHost(u) == "h" \in u.flags
HasFakeHost(u) == "f" \in u.flags
IsAccount(u) == u.account # ""
HasHiddenHost(u) == IsHiddenHost(u) /\ (IsAccount(u) \/ HasFakeHost(u))

Newcomer ==
    [nick |-> "n", flags |-> IF Marked THEN {"f", "x"} ELSE {}, host |-> IF Marked THEN <<"fake", "mark">> ELSE Real,
     fake |-> IF Marked THEN "mark" ELSE "", account |-> "", cache |-> <<>>]

(* ClearBanValid and ClearExceptValid on all the user's channels           *)
Invalidate(u) == [u EXCEPT !.cache = [c \in DOMAIN @ |-> Unknown]]

make_hidden_hostmask(u) == IF HasFakeHost(u) THEN <<"fake", u.fake>> ELSE <<"account", u.account>>

hide_hostmask(u) ==
    LET v == IF HIDDEN_HOST_QUIT THEN Invalidate(u) ELSE u
    IN  IF (STYLE = 1 /\ ~HasHiddenHost(u)) \/ (STYLE = 2 /\ ~IsHiddenHost(u)) THEN u
        ELSE IF HasSetHost(u) THEN [v EXCEPT !.flags = @ \cup {"x"}]
        ELSE [v EXCEPT !.host = IF STYLE = 2 /\ ~HasFakeHost(u) THEN Virtual
                                ELSE IF HasFakeHost(u) \/ IsAccount(u) THEN make_hidden_hostmask(u) ELSE @]

unhide_hostmask(u) ==
    LET v == IF HIDDEN_HOST_QUIT THEN Invalidate(u) ELSE u
    IN  IF HasSetHost(u) THEN [v EXCEPT !.flags = @ \ {"x"}] ELSE [v EXCEPT !.host = Real]

(* hostmask = "" restores the host; the result tells whether all went well *)
set_hostmask(u, hostmask) ==
    IF hostmask = ""
    THEN IF ~HasSetHost(u) THEN [ok |-> FALSE, u |-> u]
         ELSE [ok |-> TRUE,
               u |-> Invalidate([u EXCEPT !.flags = @ \ {"h"},
                                          !.host = IF HasHiddenHost(u) THEN make_hidden_hostmask(u) ELSE Real])]
    ELSE IF HasSetHost(u) /\ u.host = <<"set", hostmask>> THEN [ok |-> FALSE, u |-> u]
    ELSE [ok |-> TRUE, u |-> Invalidate([u EXCEPT !.flags = @ \cup {"h"}, !.host = <<"set", hostmask>>])]

-----------------------------------------------------------------------------
(* set_user_mode, for the letters x and h.  A change is a letter, what to  *)
(* do with it and its parameter.                                           *)
Mode(add, letter, arg) == [type |-> "MODE", add |-> add, letter |-> letter, arg |-> arg]

ModeX(u, add) ==
    IF add
    THEN IF IsHiddenHost(u) THEN u ELSE hide_hostmask([u EXCEPT !.flags = @ \cup {"x"}])
    ELSE IF STYLE = 2 THEN [unhide_hostmask(u) EXCEPT !.flags = @ \ {"x"}]
    ELSE IF ~ALLOWRMX THEN u
    ELSE IF ~IsAccount(u) THEN [u EXCEPT !.flags = @ \ {"x"}]
    ELSE IF IsHiddenHost(u) THEN [unhide_hostmask(u) EXCEPT !.flags = @ \ {"x"}]
    ELSE u

(* The user after the change, and what send_umode_out tells the others: +h *)
(* is sent whenever it succeeded.                                          *)
set_user_mode(u, m) ==
    LET h == set_hostmask(u, IF m.add THEN m.arg ELSE "")
        v == IF m.letter = "x" THEN ModeX(u, m.add) ELSE h.u
    IN  [u |-> v,
         out |-> IF m.letter = "x"
                 THEN IF IsHiddenHost(u) = IsHiddenHost(v) THEN <<>> ELSE <<m>>
                 ELSE IF h.ok THEN <<m>> ELSE <<>>]

-----------------------------------------------------------------------------
(* ms_account: R, U and M.  A host made by a black list's mark goes when   *)
(* the user logs in.                                                       *)
AccountMsg(type, account) == [type |-> type, account |-> account]

ms_account(u, m) ==
    LET r == IF HasFakeHost(u) /\ u.fake = "mark" /\ Marked /\ DNSBL_MARK_FAKEHOST
             THEN [u EXCEPT !.flags = @ \ {"f"}] ELSE u
        v == [r EXCEPT !.account = m.account]
    IN  CASE m.type = "R" -> IF HasHiddenHost(r) THEN v ELSE hide_hostmask(v)
          [] m.type = "U" -> LET w == [u EXCEPT !.account = ""]
                             IN  IF HasHiddenHost(u) /\ STYLE = 1 THEN unhide_hostmask(w) ELSE w
          [] m.type = "M" -> LET w == [u EXCEPT !.account = m.account]
                             IN  IF HasHiddenHost(w) /\ STYLE = 1 THEN hide_hostmask(w) ELSE w

AccountRefused(u, m) == (m.type = "R" /\ IsAccount(u)) \/ (m.type = "U" /\ ~IsAccount(u))

ms_fakehost(u, fake) == hide_hostmask([u EXCEPT !.flags = @ \cup {"f"}, !.fake = fake])

-----------------------------------------------------------------------------
Neighbours(s) == {t \in Servers : t = s + 1 \/ s = t + 1}

(* sendcmdto_serv_butone                                                   *)
Relay(s, from, msgs) ==
    net' = [net EXCEPT ![s] = [t \in DOMAIN @ |-> IF t = from THEN @[t] ELSE @[t] \o msgs]]

m_mode(m) ==
    LET r == set_user_mode(view[Home], m)
    IN  /\ m.letter \in Ops
        /\ moves < MaxMoves
        /\ moves' = moves + 1
        /\ view' = [view EXCEPT ![Home] = r.u]
        /\ Relay(Home, 0, r.out)

(* Services change the account or the fake host.                           *)
services_account(m) ==
    /\ m.type \in Ops
    /\ moves < MaxMoves
    /\ moves' = moves + 1
    /\ ~AccountRefused(view[Services], m)
    /\ m.type = "M" => IsAccount(view[Services])
    /\ view' = [view EXCEPT ![Services] = ms_account(@, m)]
    /\ Relay(Services, 0, <<m>>)

services_fakehost(fake) ==
    /\ "F" \in Ops
    /\ moves < MaxMoves
    /\ moves' = moves + 1
    /\ ~(HasFakeHost(view[Services]) /\ view[Services].fake = fake)
    /\ view' = [view EXCEPT ![Services] = ms_fakehost(@, fake)]
    /\ Relay(Services, 0, <<[type |-> "FAKEHOST", fake |-> fake]>>)

Receive(s, t) ==
    LET m == net[t][s][1]
        u == view[s]
        taken == [net EXCEPT ![t][s] = Tail(@)]
        r == CASE m.type = "MODE" -> set_user_mode(u, m)
               [] m.type = "FAKEHOST" ->
                     IF HasFakeHost(u) /\ u.fake = m.fake THEN [u |-> u, out |-> <<>>]
                     ELSE [u |-> ms_fakehost(u, m.fake), out |-> <<m>>]
               [] OTHER ->
                     IF AccountRefused(u, m) THEN [u |-> u, out |-> <<>>]
                     ELSE [u |-> ms_account(u, m), out |-> <<m>>]
    IN  /\ net[t][s] # <<>>
        /\ view' = [view EXCEPT ![s] = r.u]
        /\ net' = [taken EXCEPT ![s] = [x \in DOMAIN @ |-> IF x = t THEN @[x] ELSE @[x] \o r.out]]
        /\ UNCHANGED moves

HostsInit ==
    /\ view = [s \in Servers |-> Newcomer]
    /\ net = [s \in Servers |-> [t \in Neighbours(s) |-> <<>>]]
    /\ moves = 0

HostsNext ==
    \/ \E add \in BOOLEAN : m_mode(Mode(add, "x", ""))
    \/ \E v \in Vhosts : m_mode(Mode(TRUE, "h", v))
    \/ m_mode(Mode(FALSE, "h", ""))
    \/ \E a \in Accounts, type \in {"R", "M"} : services_account(AccountMsg(type, a))
    \/ services_account(AccountMsg("U", ""))
    \/ \E f \in Fakes : services_fakehost(f)
    \/ \E s \in Servers : \E t \in Neighbours(s) : Receive(s, t)

-----------------------------------------------------------------------------
Quiet == \A s \in Servers : \A t \in DOMAIN net[s] : net[s][t] = <<>>

(* With nothing under way all servers show the same host and modes, in     *)
(* whatever order the user's modes and the services' changes met.          *)
HostsAgree == Quiet => \A s \in Servers : view[s] = view[Home]

(* The host shown is the one that the modes call for: the one set, else    *)
(* the fake or the account's where it is hidden, else the real one.        *)
HostFits ==
    \A s \in Servers :
        LET u == view[s]
        IN  IF HasSetHost(u) THEN u.host[1] = "set"
            ELSE IF HasHiddenHost(u) THEN u.host = make_hidden_hostmask(u)
            ELSE IF STYLE = 2 /\ IsHiddenHost(u) THEN u.host = Virtual
            ELSE u.host = Real

-----------------------------------------------------------------------------
(* Bans and exceptions                                                     *)

CONSTANTS
    Channels,    \* as a sequence: the order of the user's memberships
    Nicks,
    BanMasks, ExceptMasks,  \* what can be set
    ChanModes    \* a channel's modes, a subset of {"m", "n", "r", "M"}

VARIABLES
    me,      \* the user: as in view, with its channels' flags (on), its
             \* real name (info) and the lists that marked it (marks)
    chan     \* chan[c]: the channel's bans, excepts and modes

AnyHost == <<"*", "">>
Ip == <<"ip", "">>
Mask(ext, nick, host, arg) == [ext |-> ext, nick |-> nick, host |-> host, arg |-> arg]

-----------------------------------------------------------------------------
(* The hosts a mask is tried with: the visible one, the real one behind a  *)
(* set host, the fake one, the account's host or the real one behind it,   *)
(* the address, and one for each mark.                                     *)
HostsOf(u) ==
    {u.host, Ip}
        \cup {Real : x \in {y \in {"h"} : HasSetHost(u)}}
        \cup {<<"fake", u.fake>> : x \in {y \in {"f"} : HasFakeHost(u)}}
        \cup (IF STYLE = 1
              THEN IF ~IsAccount(u) THEN {}
                   ELSE {IF HasHiddenHost(u) /\ ~HasSetHost(u) THEN Real ELSE make_hidden_hostmask(u)}
              ELSE {IF IsHiddenHost(u) /\ ~HasSetHost(u) THEN Real ELSE Virtual})
        \cup {<<"mark", l>> : l \in u.marks}

user_matches_host(u, m) ==
    /\ m.nick \in {"*", u.nick}
    /\ m.host = AnyHost \/ m.host \in HostsOf(u)

(* ~c: a channel the user is on, with a flag where the mask asks for one   *)
OnChannel(u, m) == m.arg[2] \in DOMAIN u.on /\ (m.arg[1] = "#" \/ m.arg[1] \in u.on[m.arg[2]])
Reversed(m, hit) == hit # ("REVERSE" \in m.ext)

(* Everything but ~j.  A plain mask has no ext; the text of an extended    *)
(* one, which begins with its kind, matches nobody by itself.              *)
BanHits(u, m) ==
    \/ m.ext = {} /\ user_matches_host(u, m)
    \/ "CHAN" \in m.ext /\ Reversed(m, OnChannel(u, m))
    \/ "REAL" \in m.ext /\ Reversed(m, m.arg = u.info)
    \/ "ACCOUNT" \in m.ext /\ Reversed(m, m.arg = u.account)

(* Exceptions know no reversed kinds.                                      *)
ExceptHits(u, m) ==
    \/ m.ext = {} /\ user_matches_host(u, m)
    \/ "CHAN" \in m.ext /\ OnChannel(u, m)
    \/ "REAL" \in m.ext /\ m.arg = u.info
    \/ "ACCOUNT" \in m.ext /\ m.arg = u.account

(* ~j asks another channel's list, which is not followed further.          *)
Shared(m) == {c \in {m.arg} : "SHARE" \in m.ext /\ c \in DOMAIN chan}

FreshBanned(u, c) ==
    \E m \in chan[c].bans : BanHits(u, m) \/ \E d \in Shared(m) : \E n \in chan[d].bans : BanHits(u, n)
FreshExcepted(u, c) ==
    \E m \in chan[c].excepts :
        ExceptHits(u, m) \/ \E d \in Shared(m) : \E n \in chan[d].excepts : ExceptHits(u, n)

Answer(yes) == IF yes THEN "yes" ELSE "no"

(* The answer for a member comes from the cache when it is there; it is    *)
(* kept otherwise.                                                         *)
is_banned(u, c) ==
    IF c \in DOMAIN u.cache /\ u.cache[c].ban # "unknown" THEN u.cache[c].ban = "yes" ELSE FreshBanned(u, c)
is_excepted(u, c) ==
    IF c \in DOMAIN u.cache /\ u.cache[c].except # "unknown" THEN u.cache[c].except = "yes"
    ELSE FreshExcepted(u, c)
KeepBanned(u, c) == [u EXCEPT !.cache[c].ban = Answer(is_banned(u, c))]
KeepExcepted(u, c) == [u EXCEPT !.cache[c].except = Answer(is_excepted(u, c))]

is_ext_banned(u, c, kind) == \E m \in chan[c].bans : kind \in m.ext /\ user_matches_host(u, m)
is_ext_excepted(u, c, kind) == \E m \in chan[c].excepts : kind \in m.ext /\ user_matches_host(u, m)

(* A ban on texts stops a text unless an exception for it is set.          *)
ext_text_ban(u, c, text) ==
    /\ \E m \in chan[c].bans : "TEXT" \in m.ext /\ m.arg = text /\ user_matches_host(u, m)
    /\ ~\E m \in chan[c].excepts : "TEXT" \in m.ext /\ m.arg = text /\ user_matches_host(u, m)

-----------------------------------------------------------------------------
(* The result and the user with what was cached on the way.                *)
ExtRefused(u, c, kind) ==
    IF ~is_ext_banned(u, c, kind) THEN [yes |-> FALSE, u |-> u]
    ELSE [yes |-> ~is_excepted(u, c) \/ is_ext_excepted(u, c, kind), u |-> KeepExcepted(u, c)]

BanRefused(u, c) ==
    IF ~is_banned(u, c) THEN [yes |-> FALSE, u |-> KeepBanned(u, c)]
    ELSE [yes |-> ~is_excepted(u, c), u |-> KeepExcepted(KeepBanned(u, c), c)]

(* mine: MyUser.  Other servers' users are not looked up in the bans.      *)
member_can_send_to_channel(u, c, mine) ==
    LET q == ExtRefused(u, c, "QUIET")
        b == BanRefused(q.u, c)
    IN  IF u.on[c] # {} THEN [ok |-> TRUE, u |-> u]
        ELSE IF q.yes \/ "m" \in chan[c].modes THEN [ok |-> FALSE, u |-> q.u]
        ELSE IF mine THEN [ok |-> ~b.yes, u |-> b.u]
        ELSE [ok |-> TRUE, u |-> q.u]

(* +r, +O, +a and +Z keep out who is not on the channel.                   *)
Kept(u, modes) ==
    \/ "r" \in modes /\ ~IsAccount(u)
    \/ "O" \in modes /\ {"o", "O"} \cap u.flags = {}
    \/ "a" \in modes /\ "a" \notin u.flags
    \/ "Z" \in modes /\ "z" \notin u.flags

client_can_send_to_channel(u, c, mine) ==
    IF {"k", "X"} \cap u.flags # {} THEN [ok |-> TRUE, u |-> u]
    ELSE IF c \notin DOMAIN u.on
    THEN [ok |-> /\ {"m", "n"} \cap chan[c].modes = {}
                 /\ ~Kept(u, chan[c].modes)
                 /\ ~FreshBanned(u, c),
          u |-> u]
    ELSE IF "M" \in chan[c].modes /\ u.on[c] = {} /\ ~IsAccount(u) THEN [ok |-> FALSE, u |-> u]
    ELSE member_can_send_to_channel(u, c, mine)

(* The memberships in their order up to the first that refuses             *)
Upto(u, Refuses(_)) ==
    {k \in DOMAIN Channels :
        /\ Channels[k] \in DOMAIN u.on
        /\ \A j \in 1..(k - 1) : Channels[j] \in DOMAIN u.on => ~Refuses(Channels[j])}

find_no_nickchange_channel(u) ==
    LET Refuses(c) == u.on[c] = {} /\ BanRefused(u, c).yes
        seen == {Channels[k] : k \in Upto(u, Refuses)}
    IN  [yes |-> \E c \in seen : Refuses(c),
         u |-> [u EXCEPT !.cache = [c \in DOMAIN @ |->
                   IF c \in seen /\ u.on[c] = {} THEN BanRefused(u, c).u.cache[c] ELSE @[c]]]]

(* m_nick refuses on ~n bans before set_nick_name looks at the others.     *)
NickRefused(u) ==
    LET Refuses(c) == ExtRefused(u, c, "NICK").yes
        seen == {Channels[k] : k \in Upto(u, Refuses)}
    IN  [yes |-> \E c \in seen : Refuses(c),
         u |-> [u EXCEPT !.cache = [c \in DOMAIN @ |->
                   IF c \in seen THEN ExtRefused(u, c, "NICK").u.cache[c] ELSE @[c]]]]

-----------------------------------------------------------------------------
Move == moves < MaxMoves /\ moves' = moves + 1

\* Mutant: keeps the answers for the old nick
set_nick_name_keep(u, nick) == [u EXCEPT !.nick = nick]

set_nick_name(u, nick) == Invalidate([u EXCEPT !.nick = nick])

(* tooFast: the user changed its nick a moment ago.                        *)
m_nick(nick, tooFast) ==
    LET e == NickRefused(me)
        b == find_no_nickchange_channel(e.u)
    IN  /\ Move
        /\ nick # me.nick
        /\ me' = IF e.yes THEN e.u
                 ELSE IF (b.yes /\ "X" \notin me.flags) \/ tooFast THEN b.u
                 ELSE set_nick_name(b.u, nick)
        /\ UNCHANGED chan

svsnick(nick) ==
    /\ Move
    /\ nick # me.nick
    /\ me' = set_nick_name(find_no_nickchange_channel(me).u, nick)
    /\ UNCHANGED chan

speak(c) ==
    /\ Move
    /\ me' = client_can_send_to_channel(me, c, TRUE).u
    /\ UNCHANGED chan

(* The user's own modes, and what services do to it                        *)
change(u) ==
    /\ Move
    /\ me' = u
    /\ UNCHANGED chan

(* mode_process_bans and mode_process_excepts                              *)
mode_ban_invalidate(u, c) == IF c \in DOMAIN u.cache THEN [u EXCEPT !.cache[c].ban = "unknown"] ELSE u
mode_except_invalidate(u, c) ==
    IF c \in DOMAIN u.cache THEN [u EXCEPT !.cache[c].except = "unknown"] ELSE u

mode_b(c, m) ==
    /\ Move
    /\ chan' = [chan EXCEPT ![c].bans = IF m \in @ THEN @ \ {m} ELSE @ \cup {m}]
    /\ me' = mode_ban_invalidate(me, c)
mode_e(c, m) ==
    /\ Move
    /\ chan' = [chan EXCEPT ![c].excepts = IF m \in @ THEN @ \ {m} ELSE @ \cup {m}]
    /\ me' = mode_except_invalidate(me, c)

mode_v(c) ==
    /\ Move
    /\ c \in DOMAIN me.on
    /\ me' = [me EXCEPT !.on[c] = IF @ = {} THEN {"v"} ELSE {}]
    /\ UNCHANGED chan

JoinPart(c) ==
    LET on == IF c \in DOMAIN me.on THEN DOMAIN me.on \ {c} ELSE DOMAIN me.on \cup {c}
    IN  /\ Move
        /\ me' = [me EXCEPT !.on = [d \in on |-> IF d = c THEN {} ELSE me.on[d]],
                            !.cache = [d \in on |-> IF d = c THEN Unknown ELSE me.cache[d]]]
        /\ UNCHANGED chan

BansInit ==
    /\ me = [nick |-> "n", flags |-> {}, host |-> Real, fake |-> "", account |-> "", info |-> "me",
             marks |-> {}, on |-> [c \in {Channels[1]} |-> {}], cache |-> [c \in {Channels[1]} |-> Unknown]]
    /\ chan \in [{Channels[k] : k \in DOMAIN Channels} ->
                 {[bans |-> {}, excepts |-> {}, modes |-> x] : x \in ChanModes}]
    /\ moves = 0

BansNext ==
    \/ \E n \in Nicks, tooFast \in BOOLEAN : m_nick(n, tooFast)
    \/ \E n \in Nicks : svsnick(n)
    \/ \E c \in DOMAIN chan : speak(c) \/ mode_v(c) \/ JoinPart(c)
    \/ \E c \in DOMAIN chan, m \in BanMasks : mode_b(c, m)
    \/ \E c \in DOMAIN chan, m \in ExceptMasks : mode_e(c, m)
    \/ "x" \in Ops /\ \E add \in BOOLEAN : change(set_user_mode(me, Mode(add, "x", "")).u)
    \/ "h" \in Ops /\ \E v \in Vhosts : change(set_user_mode(me, Mode(TRUE, "h", v)).u)
    \/ "h" \in Ops /\ change(set_user_mode(me, Mode(FALSE, "h", "")).u)
    \/ "F" \in Ops /\ \E f \in Fakes : change(ms_fakehost(me, f))
    \/ "R" \in Ops /\ ~IsAccount(me) /\ \E a \in Accounts : change(ms_account(me, AccountMsg("R", a)))

(* What a membership has cached is what the lists say of the user now, in  *)
(* whatever order the user changed its nick and host and others the lists. *)
BanCacheFresh ==
    \A c \in DOMAIN me.cache :
        /\ me.cache[c].ban \in {"unknown", Answer(FreshBanned(me, c))}
        /\ me.cache[c].except \in {"unknown", Answer(FreshExcepted(me, c))}
=============================================================================
