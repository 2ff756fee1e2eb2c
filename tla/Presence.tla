------------------------------ MODULE Presence ------------------------------
(* Who is shown to be on a channel.  Two servers linked by a connection    *)
(* in each direction keep members and zombies (kicked users whose server   *)
(* has not parted them yet); each client has displayed what it was told by *)
(* JOIN, PART, KICK and QUIT and by the NAMES reply to its own JOIN.       *)
(*                                                                         *)
(* A command names several channels.  joinbuf_join collects what other     *)
(* servers are told of new and left channels, joinbuf_flush sends it, and  *)
(* a user that parts stays a member until then.  Whether a channel lets a  *)
(* user in, operators and channel times are in ChannelMembers, Channel and *)
(* ChannelSync: here everybody may join and every member may kick.         *)
EXTENDS Integers, FiniteSets, Sequences, SequencesExt

CONSTANTS
    Home,               \* the server, 1 or 2, of each user
    Channels,           \* the names of channels
    Locals,             \* those that begin with & and stay on one server
    Secret,             \* the channels that are +s or +p
    Invisible,          \* the users that are +i
    Joins, Parts,       \* the lists of names that users give; "0" is JOIN 0
    MAXCHANNELSPERUSER, \* the feature
    MAXJOINARGS,        \* the names that a buffer holds
    MaxMoves            \* commands and changes that users make

VARIABLE s

People == DOMAIN Home
Both == {1, 2}
Other(v) == 3 - v

(* s.on[v][c][u]    what server v has of u on channel c                    *)
(* s.seen[u][c]     the users that the client of u displays on c           *)
(* s.link[v]        what is under way to server v                          *)
(* s.own            who was kicked from what on its own server             *)
(* s.odd            a client was told that someone joins whom it displays, *)
(*                  or leaves whom it does not                             *)
Init ==
    s = [on |-> [v \in Both |-> [c \in Channels |-> [u \in People |-> "no"]]],
         seen |-> [u \in People |-> [c \in Channels |-> {}]],
         link |-> [v \in Both |-> <<>>],
         gone |-> {}, own |-> {}, moves |-> 0, odd |-> FALSE]

(* The users of server v that are not zombies on c; FindChannel            *)
Shown(S, v, c) == {u \in People : S.on[v][c][u] \in {"in", "parting"}}
Mine(v) == {u \in People : Home[u] = v}
Exists(S, v, c) == \E u \in People : S.on[v][c][u] # "no"
find_member_link(S, v, c, u) == S.on[v][c][u] # "no"

Sent(S, v, m) == [S EXCEPT !.link[Other(v)] = Append(@, m)]
Msg(cmd, u, chans, who) == [cmd |-> cmd, user |-> u, chans |-> chans, who |-> who]

-----------------------------------------------------------------------------
(* What clients are told                                                   *)

sendcmdto_channel_butserv_butone(S, v, c, one) == (Shown(S, v, c) \cap Mine(v)) \ {one}

ToldJoin(S, v, c, u, one) ==
    LET H == sendcmdto_channel_butserv_butone(S, v, c, one)
    IN  [S EXCEPT !.seen = [m \in People |-> IF m \in H THEN [@[m] EXCEPT ![c] = @ \cup {u}] ELSE @[m]],
                  !.odd = @ \/ \E m \in H : u \in S.seen[m][c]]

(* PART of u, or KICK                                                      *)
ToldPart(S, v, c, u) ==
    LET H == sendcmdto_channel_butserv_butone(S, v, c, "")
    IN  [S EXCEPT !.seen = [m \in People |-> IF m = u /\ m \in H THEN [@[m] EXCEPT ![c] = {}]
                                             ELSE IF m \in H THEN [@[m] EXCEPT ![c] = @ \ {u}] ELSE @[m]],
                  !.odd = @ \/ \E m \in H : u \notin S.seen[m][c]]

(* QUIT of u goes once to each client that shares a channel with it, save  *)
(* for channels where u is a zombie.                                       *)
sendcmdto_common_channels_butone(S, v, u, one) ==
    {m \in Mine(v) \ {one} : \E c \in Channels : u \in Shown(S, v, c) /\ find_member_link(S, v, c, m)}

ToldQuit(S, v, u, one) ==
    LET H == sendcmdto_common_channels_butone(S, v, u, one)
    IN  [S EXCEPT !.seen = [m \in People |-> IF m \in H THEN [c \in Channels |-> @[m][c] \ {u}] ELSE @[m]],
                  !.odd = @ \/ \E m \in H : \A c \in Channels : u \notin S.seen[m][c]]

(* do_names: the users that the reply to `asker' names.  filter is "ALL",  *)
(* or "VIS" for one who is not on the channel.                             *)
ShowChannel(S, v, c, asker) == c \notin Secret \/ asker \in Shown(S, v, c)

do_names(S, v, asker, c, filter) ==
    IF ~ShowChannel(S, v, c, asker) THEN {}
    ELSE {u \in People : /\ filter = "VIS" => u \notin Invisible
                         /\ u \in Shown(S, v, c) \/ (u = asker /\ find_member_link(S, v, c, u))}

(* m_names: whom NAMES of channel c names, and NAMES 0, every channel and  *)
(* then the others                                                         *)
m_names(S, v, asker, c) ==
    IF ~Exists(S, v, c) THEN {}
    ELSE do_names(S, v, asker, c, IF find_member_link(S, v, c, asker) THEN "ALL" ELSE "VIS")

names_0(S, v, asker) ==
    LET Open == {c \in Channels : Exists(S, v, c) /\ ShowChannel(S, v, c, asker)}
        Listed(c) == do_names(S, v, asker, c, IF asker \in Shown(S, v, c) THEN "ALL" ELSE "VIS")
        Skipped(u) == \E c \in Channels : find_member_link(S, v, c, u) /\ ShowChannel(S, v, c, asker)
    IN  UNION {Listed(c) : c \in Open}
        \cup {u \in People \ S.gone : (u = asker \/ u \notin Invisible) /\ ~Skipped(u)}

(* ms_names: a user of the other server asks this one.                     *)
ms_names(S, v, asker, c) == IF c = "0" THEN names_0(S, v, asker) ELSE m_names(S, v, asker, c)

-----------------------------------------------------------------------------
(* Members and the buffers                                                 *)

(* With the last member that is not a zombie the channel goes.             *)
remove_user_from_channel(S, v, c, u) ==
    LET left == [S.on[v][c] EXCEPT ![u] = "no"]
    IN  [S EXCEPT !.on[v][c] = IF \A m \in People : left[m] \in {"no", "zombie"}
                               THEN [m \in People |-> "no"] ELSE left]

(* A buffer: J.s is the state so far, J.type what is done, J.user on       *)
(* server J.at, J.chans what is kept for the other servers; J.full says    *)
(* that a user with too many channels gave up the rest of its list.        *)
joinbuf_init(S, v, u, type) == [s |-> S, at |-> v, user |-> u, type |-> type, chans |-> <<>>, full |-> FALSE]

joinbuf_flush(J) ==
    IF J.chans = <<>> THEN J
    ELSE LET Removed == FoldLeft(LAMBDA S, c : remove_user_from_channel(S, J.at, c, J.user), J.s, J.chans)
             S == IF J.type = "PART" THEN Removed ELSE J.s
         IN  [J EXCEPT !.s = IF J.user \in Mine(J.at) THEN Sent(S, J.at, Msg(J.type, J.user, J.chans, "")) ELSE S,
                       !.chans = <<>>]

(* The channel is kept for the other servers, and the buffer is sent when  *)
(* it is full.                                                             *)
Kept(J, c) ==
    LET K == [J EXCEPT !.chans = Append(@, c)]
    IN  IF c \in Locals THEN J
        ELSE IF Len(K.chans) >= MAXJOINARGS THEN joinbuf_flush(K) ELSE K

(* joinbuf_join of a PART or, with type PARTALL, of JOIN 0.  A member that *)
(* is marked as parting is left alone.                                     *)
joinbuf_part(J, c) ==
    LET S == J.s  v == J.at  u == J.user
        told == IF S.on[v][c][u] = "zombie" THEN S ELSE ToldPart(S, v, c, u)
        marked == [told EXCEPT !.on[v][c][u] = "parting"]
        removed == remove_user_from_channel(told, v, c, u)
    IN  IF S.on[v][c][u] = "parting" THEN J
        ELSE IF J.type = "PARTALL" THEN [J EXCEPT !.s = removed]
        ELSE Kept([J EXCEPT !.s = IF c \in Locals THEN removed ELSE marked], c)

(* joinbuf_join that adds the user: a JOIN is sent on at once, a CREATE    *)
(* when the buffer is flushed.                                             *)
joinbuf_join(J, c, type) ==
    LET v == J.at  u == J.user
        added == [J.s EXCEPT !.on[v][c][u] = "in"]
        T == ToldJoin(added, v, c, u, "")
    IN  IF type = "CREATE" THEN Kept([J EXCEPT !.s = T], c)
        ELSE [J EXCEPT !.s = IF u \in Mine(v) /\ c \notin Locals THEN Sent(T, v, Msg("JOIN", u, <<c>>, "")) ELSE T]

(* join0: other servers are told at once, then every channel is left.      *)
join0(J) ==
    LET S == IF J.user \in Mine(J.at) THEN Sent(J.s, J.at, Msg("JOIN 0", J.user, <<>>, "")) ELSE J.s
        on == SetToSeq({c \in Channels : find_member_link(S, J.at, c, J.user)})
        P == FoldLeft(joinbuf_part, joinbuf_init(S, J.at, J.user, "PARTALL"), on)
    IN  [J EXCEPT !.s = P.s]

(* last0: what comes before the last "0" of a list is not looked at.       *)
last0(list) ==
    LET zeros == {i \in DOMAIN list : list[i] = "0"}
    IN  IF zeros = {} THEN list ELSE SubSeq(list, CHOOSE i \in zeros : \A k \in zeros : k <= i, Len(list))

-----------------------------------------------------------------------------
(* Commands of users                                                       *)

joined(S, v, u) == Cardinality({c \in Channels : find_member_link(S, v, c, u)})

(* One name of a JOIN, with the NAMES reply to it                          *)
JoinName(J, n) ==
    IF J.full THEN J
    ELSE IF n = "0" THEN join0(J)
    ELSE IF find_member_link(J.s, J.at, n, J.user) THEN J
    ELSE IF joined(J.s, J.at, J.user) >= MAXCHANNELSPERUSER THEN [J EXCEPT !.full = TRUE]
    ELSE LET K == joinbuf_join(J, n, IF Exists(J.s, J.at, n) THEN "JOIN" ELSE "CREATE")
         IN  [K EXCEPT !.s.seen[J.user][n] = @ \cup do_names(K.s, J.at, J.user, n, "ALL")]

Moved == s.moves < MaxMoves
Move(S) == s' = [S EXCEPT !.moves = @ + 1]

do_join(u, list) ==
    /\ Moved /\ u \notin s.gone
    /\ Move(joinbuf_flush(FoldLeft(JoinName, joinbuf_init(s, Home[u], u, "CREATE"), last0(list))).s)

m_part(u, list) ==
    /\ Moved /\ u \notin s.gone
    /\ LET PartName(J, n) == IF find_member_link(J.s, J.at, n, u) THEN joinbuf_part(J, n) ELSE J
       IN  Move(joinbuf_flush(FoldLeft(PartName, joinbuf_init(s, Home[u], u, "PART"), list)).s)

(* make_zombie: a local user is removed, and if the KICK came from the     *)
(* other server that one gets a PART; one whose own server sent the KICK   *)
(* is removed too; another becomes a zombie unless no others are left.     *)
make_zombie(S, v, c, u, remote) ==
    LET Z == [S EXCEPT !.on[v][c][u] = "zombie"]
        P == IF remote THEN Sent(S, v, Msg("PART", u, <<c>>, "")) ELSE S
    IN  IF u \in Mine(v) THEN remove_user_from_channel(P, v, c, u)
        ELSE IF remote \/ Shown(Z, v, c) = {} THEN remove_user_from_channel(Z, v, c, u) ELSE Z

m_kick(u, c, who) ==
    LET v == Home[u]
    IN  /\ Moved /\ u \notin s.gone
        /\ u \in Shown(s, v, c) /\ who \in Shown(s, v, c)
        /\ LET S == IF c \in Locals THEN s ELSE Sent(s, v, Msg("KICK", u, <<c>>, who))
               T == make_zombie(ToldPart(S, v, c, who), v, c, who, FALSE)
           IN  Move([T EXCEPT !.own = IF who \in Mine(v) THEN @ \cup {<<c, who>>} ELSE @])

(* exit_one_client of a user, on its own server and on the other           *)
exit_one_client(S, v, u) ==
    LET S1 == [ToldQuit(S, v, u, "") EXCEPT !.seen[u] = [c \in Channels |-> {}]]
    IN  FoldLeft(LAMBDA T, c : remove_user_from_channel(T, v, c, u), S1,
                 SetToSeq({c \in Channels : find_member_link(S, v, c, u)}))

Quit(u) ==
    /\ Moved /\ u \notin s.gone
    /\ Move([Sent(exit_one_client(s, Home[u], u), Home[u], Msg("QUIT", u, <<>>, "")) EXCEPT !.gone = @ \cup {u}])

(* A new host: hide_hostmask and the functions like it let the user quit   *)
(* and join again in the eyes of the others; each server does so.          *)
HostShown(S, v, u) ==
    FoldLeft(LAMBDA T, c : ToldJoin(T, v, c, u, u), ToldQuit(S, v, u, u),
             SetToSeq({c \in Channels : u \in Shown(S, v, c)}))

hide_hostmask(u) ==
    /\ Moved /\ u \notin s.gone
    /\ \E c \in Channels : u \in Shown(s, Home[u], c)
    /\ Move(Sent(HostShown(s, Home[u], u), Home[u], Msg("HOST", u, <<>>, "")))

-----------------------------------------------------------------------------
(* What the other server says                                              *)

ms_join(S, v, u, c) ==
    LET z == find_member_link(S, v, c, u)
        T == IF z THEN remove_user_from_channel(S, v, c, u) ELSE S
    IN  IF u \in Shown(S, v, c) THEN S ELSE joinbuf_join(joinbuf_init(T, v, u, "JOIN"), c, "JOIN").s

ms_create(J, c) ==
    IF find_member_link(J.s, J.at, c, J.user) THEN J ELSE joinbuf_join(J, c, "CREATE")

ms_part(S, v, u, chans) ==
    LET PartName(J, n) == IF find_member_link(J.s, v, n, u) THEN joinbuf_part(J, n) ELSE J
    IN  joinbuf_flush(FoldLeft(PartName, joinbuf_init(S, v, u, "PART"), chans)).s

(* A KICK of one who is no member here changes nothing; one by a user who  *)
(* is not on the channel is undone by a JOIN of the victim.                *)
ms_kick(S, v, u, c, who) ==
    IF who \notin Shown(S, v, c) THEN S
    ELSE IF who \in Mine(v) /\ ~find_member_link(S, v, c, u) THEN Sent(S, v, Msg("JOIN", who, <<c>>, ""))
    ELSE make_zombie(ToldPart(S, v, c, who), v, c, who, TRUE)

Receive(v) ==
    /\ s.link[v] # <<>>
    /\ LET m == Head(s.link[v])
           S == [s EXCEPT !.link[v] = Tail(@)]
       IN  s' = CASE m.cmd = "JOIN"   -> ms_join(S, v, m.user, m.chans[1])
                  [] m.cmd = "JOIN 0" -> join0(joinbuf_init(S, v, m.user, "JOIN")).s
                  [] m.cmd = "CREATE" ->
                       joinbuf_flush(FoldLeft(ms_create, joinbuf_init(S, v, m.user, "CREATE"), m.chans)).s
                  [] m.cmd = "PART"   -> ms_part(S, v, m.user, m.chans)
                  [] m.cmd = "KICK"   -> ms_kick(S, v, m.user, m.chans[1], m.who)
                  [] m.cmd = "QUIT"   -> exit_one_client(S, v, m.user)
                  [] m.cmd = "HOST"   -> HostShown(S, v, m.user)

Next ==
    \/ \E u \in People :
         \/ \E list \in Joins : (Home[u] = 2 => \A i \in DOMAIN list : list[i] \notin Locals) /\ do_join(u, list)
         \/ \E list \in Parts : m_part(u, list)
         \/ \E c \in Channels, who \in People : m_kick(u, c, who)
         \/ Quit(u)
         \/ hide_hostmask(u)
    \/ \E v \in Both : Receive(v)

-----------------------------------------------------------------------------
(* Each client displays on its channels exactly the members that its       *)
(* server would name, nothing on others, and was never told of a join or a *)
(* leave that did not fit what it displays.                                *)
ClientsShownRight ==
    /\ ~s.odd
    /\ \A u \in People, c \in Channels :
         s.seen[u][c] = IF u \in Shown(s, Home[u], c) THEN m_names(s, Home[u], u, c) ELSE {}

(* When nothing is under way the servers have the same members on every    *)
(* global channel, and no zombies but of users that were kicked on their   *)
(* own server as well (ms_kick ignores the second KICK, and the PART that  *)
(* would remove the zombie is never sent).  Nobody is left marked as       *)
(* parting, and who is gone is on no channel.                              *)
MembersAgree ==
    /\ \A v \in Both, c \in Channels, u \in People : s.on[v][c][u] # "parting"
    /\ (\A v \in Both : s.link[v] = <<>>) =>
          /\ \A c \in Channels \ Locals : Shown(s, 1, c) = Shown(s, 2, c)
          /\ \A v \in Both, c \in Channels, u \in People :
                /\ s.on[v][c][u] = "zombie" => <<c, u>> \in s.own /\ v # Home[u]
                /\ u \in s.gone => s.on[v][c][u] = "no"

(* NAMES and NAMES 0 never name an invisible user to one who shares no     *)
(* channel with it, as far as the server that is asked knows, and NAMES 0  *)
(* names every other user who is online, unless it was kicked from a       *)
(* channel and its server does not know yet.  One who was kicked itself    *)
(* and asks another server is taken for a member.                          *)
NamesRight ==
    \A v \in Both, asker \in People \ s.gone, u \in People \ s.gone :
        LET all == IF v = Home[asker] THEN names_0(s, v, asker) ELSE ms_names(s, v, asker, "0")
            Named(c) == IF v = Home[asker] THEN m_names(s, v, asker, c) ELSE ms_names(s, v, asker, c)
            Common == \E c \in Channels : asker \in Shown(s, v, c) /\ u \in Shown(s, v, c)
            Kicked(w) == \E c \in Channels : s.on[v][c][w] = "zombie"
        IN  /\ (u \in Invisible /\ u # asker /\ ~Common) =>
                  u \notin all /\ \A c \in Channels : u \in Named(c) => Kicked(asker)
            /\ u \in all \/ u \in Invisible \/ Kicked(u)
=============================================================================
