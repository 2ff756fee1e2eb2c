--------------------------- MODULE ChannelMembers ---------------------------
(***************************************************************************)
(* The channels of one server: who is on them, who was kicked but has not  *)
(* been seen leaving (zombies), who is invited, and when a channel goes    *)
(* away.  Local users act through m_join, m_part, m_kick, m_invite; remote *)
(* users and servers through the ms_ handlers, whose messages arrive in    *)
(* any order the network may produce.                                      *)
(***************************************************************************)
EXTENDS Integers, FiniteSets, Filter

CONSTANTS
    Users,        \* the clients of the network
    UINT,         \* 2^32 in the code: the modulus of an unsigned int
    Channels,     \* global channel names
    Local,        \* the users connected to this server (MyUser)
    Links,        \* its directly connected servers
    From,         \* From[u]: the link a remote user is behind (cli_from)
    MaxChannels,  \* FEAT_MAXCHANNELSPERUSER
    Unlimited,    \* local users with PRIV_CHAN_LIMIT or +B
    Registered    \* the channels services use MODE_PERSIST (+z) on

ASSUME ChannelAssumption ==
    /\ IsFiniteSet(Users)
    /\ UINT \in Nat
    /\ Cardinality(Users) < UINT

ASSUME MembersAssumption ==
    /\ Local \subseteq Users
    /\ From \in [Users \ Local -> Links]
    /\ MaxChannels \in Nat \ {0}
    /\ Unlimited \subseteq Local
    /\ Registered \subseteq Channels

-----------------------------------------------------------------------------
(* One struct Channel and its chain of struct Membership, as the functions *)
(* of channel.c edit them:                                                 *)
(*   alive       the channel is in the hash table and GlobalChannelList    *)
(*   persist     MODE_PERSIST (+z)                                         *)
(*   burstAdded  MODE_BURSTADDED                                           *)
(*   users       chptr->users, an unsigned int: arithmetic modulo UINT     *)
(*   member      the clients with a Membership on chptr->members           *)
(*   zombie, op  the members whose status has CHFL_ZOMBIE, CHFL_CHANOP (or *)
(*               CHFL_HALFOP: the two are told apart only by who may kick  *)
(*               or set modes on whom, which changes no list)              *)
ChannelRec ==
    [alive : BOOLEAN, persist : BOOLEAN, burstAdded : BOOLEAN,
     users : 0 .. (UINT - 1),
     member : SUBSET Users, zombie : SUBSET Users, op : SUBSET Users]

(* The value of a name that no channel has: a destroyed channel keeps no   *)
(* member, no count and no mode (sub1_from_channel frees the block, and    *)
(* get_channel clears the next one it allocates).                          *)
NoChannel ==
    [alive |-> FALSE, persist |-> FALSE, burstAdded |-> FALSE, users |-> 0,
     member |-> {}, zombie |-> {}, op |-> {}]

(* get_channel(..., CGT_CREATE).  FEAT_AUTOCHANMODES_LIST, which a local   *)
(* user's new channel starts with, is taken not to hold z.                 *)
get_channel(k) == IF k.alive THEN k ELSE [NoChannel EXCEPT !.alive = TRUE]

(* add_user_to_channel: links a Membership and counts it, whether or not   *)
(* the client was on the channel already.                                  *)
add_user_to_channel(k, u, isop) ==
    [k EXCEPT !.member = @ \cup {u},
              !.zombie = @ \ {u},
              !.op     = IF isop THEN @ \cup {u} ELSE @ \ {u},
              !.users  = (@ + 1) % UINT]

(* sub1_from_channel: it returns 1 exactly when Sub1Keeps holds.           *)
Sub1Keeps(k) == k.users > 1 /\ k.member # {}

sub1_from_channel_twice(k) ==
    LET d == [k EXCEPT !.users = @ - 1]
    IN  IF d.users > 0 THEN d
        ELSE IF k.persist THEN [d EXCEPT !.users = @ - 1] ELSE NoChannel

sub1_from_channel(k) ==
    IF k.users > 1
    THEN IF k.member = {} THEN k ELSE [k EXCEPT !.users = @ - 1]
    ELSE IF k.persist THEN [k EXCEPT !.users = (@ - 1) % UINT] ELSE NoChannel

Unlink(k, u) ==
    [k EXCEPT !.member = @ \ {u}, !.zombie = @ \ {u}, !.op = @ \ {u}]

remove_member_from_channel(k, u) == sub1_from_channel(Unlink(k, u))

channel_all_zombies(k) == ~k.persist /\ k.member \subseteq k.zombie

(* remove_user_from_channel.  When only zombies are left, the loop removes *)
(* the head of the list until sub1_from_channel destroys the channel.      *)
remove_user_keepzombies(k, u) ==
    IF u \in k.member THEN remove_member_from_channel(k, u) ELSE k

remove_user_from_channel(k, u) ==
    IF u \notin k.member
    THEN k
    ELSE IF Sub1Keeps(Unlink(k, u))
            /\ channel_all_zombies(remove_member_from_channel(k, u))
         THEN NoChannel
         ELSE remove_member_from_channel(k, u)

(* remove_user_from_channel for the clients of S one after the other, in   *)
(* any order: the channel goes with the last of them that is no zombie.    *)
RemoveUsers(k, S) ==
    IF S \cap k.member = {}
    THEN k
    ELSE IF ~k.persist /\ (k.member \ S) \subseteq k.zombie
         THEN NoChannel
         ELSE [k EXCEPT !.member = @ \ S, !.zombie = @ \ S, !.op = @ \ S,
                        !.users = (@ - Cardinality(S \cap k.member)) % UINT]

(* make_zombie.  gone: the client is local (cases b and c) or the kicker   *)
(* is behind the client's own server (case d); otherwise case a).          *)
make_zombie_leavelast(k, u, gone) ==
    IF gone THEN remove_user_from_channel(k, u)
            ELSE [k EXCEPT !.zombie = @ \cup {u}]

make_zombie_alwaysmark(k, u, gone) ==
    LET z == [k EXCEPT !.zombie = @ \cup {u}]
    IN  IF channel_all_zombies(z) THEN remove_user_from_channel(z, u) ELSE z

make_zombie(k, u, gone) ==
    LET z == [k EXCEPT !.zombie = @ \cup {u}]
    IN  IF gone \/ channel_all_zombies(z)
        THEN remove_user_from_channel(z, u)
        ELSE z

-----------------------------------------------------------------------------
(* What a channel record promises: the user count is the length of the     *)
(* member list, status bits belong to members, and a freed channel holds   *)
(* nothing.                                                                *)
ChanOK(k) ==
    /\ k \in ChannelRec
    /\ k.users = Cardinality(k.member)
    /\ k.zombie \subseteq k.member
    /\ k.op \subseteq k.member
    /\ ~k.alive => k = NoChannel

-----------------------------------------------------------------------------
VARIABLES
    online,   \* clients known to this server
    chan,     \* chan[c]: the channel record
    inv       \* invitations: byChan = chptr->invites, byUser =
              \* cli_user()->invited (oldest first), count = ->invites

vars == <<online, chan, inv>>

Remote == Users \ Local
joined(u) == Cardinality({c \in Channels : u \in chan[c].member})
find_channel_member(u, c) == u \in chan[c].member \ chan[c].zombie
is_chan_op(u, c) == find_channel_member(u, c) /\ u \in chan[c].op

Init ==
    /\ online = {}
    /\ chan = [c \in Channels |-> NoChannel]
    /\ inv = [byChan |-> [c \in Channels |-> {}],
              byUser |-> [u \in Users |-> <<>>],
              count  |-> [u \in Users |-> 0]]

-----------------------------------------------------------------------------
(* Invitations                                                             *)

del_invite(v, u, c) ==
    [byChan |-> [v.byChan EXCEPT ![c] = @ \ {u}],
     byUser |-> [v.byUser EXCEPT ![u] = Drop(@, {c})],
     count  |-> [v.count EXCEPT ![u] =
                     IF u \in v.byChan[c] THEN @ - 1 ELSE @]]

add_invite_unbounded(v, u, c) ==
    LET d == del_invite(v, u, c)
    IN  [byChan |-> [d.byChan EXCEPT ![c] = @ \cup {u}],
         byUser |-> [d.byUser EXCEPT ![u] = Append(@, c)],
         count  |-> [d.count EXCEPT ![u] = @ + 1]]

add_invite(v, u, c) ==
    LET d == del_invite(v, u, c)
        e == IF d.count[u] >= MaxChannels
             THEN del_invite(d, u, Head(d.byUser[u])) ELSE d
    IN  [byChan |-> [e.byChan EXCEPT ![c] = @ \cup {u}],
         byUser |-> [e.byUser EXCEPT ![u] = Append(@, c)],
         count  |-> [e.count EXCEPT ![u] = @ + 1]]

(* del_invite for every client on the invite lists of the channels in C:   *)
(* mode_invite_clear, and the first loop of sub1_from_channel when it      *)
(* frees a channel.                                                        *)
mode_invite_clear(v, C) ==
    [byChan |-> [c \in Channels |-> IF c \in C THEN {} ELSE v.byChan[c]],
     byUser |-> [u \in Users |->
                    Drop(v.byUser[u], {c \in C : u \in v.byChan[c]})],
     count  |-> [u \in Users |->
                    v.count[u] - Cardinality({c \in C : u \in v.byChan[c]})]]

(* The channels freed by this step: sub1_from_channel deletes the invites. *)
Freed == {c \in Channels : chan[c].alive /\ ~chan'[c].alive}

DropFreedInvites == inv' = mode_invite_clear(inv, Freed)

-----------------------------------------------------------------------------
(* Clients come and go                                                     *)

(* register_user for a local client, NICK for a remote one                 *)
UserArrives(u) ==
    /\ u \notin online
    /\ online' = online \cup {u}
    /\ UNCHANGED <<chan, inv>>

(* exit_one_client for each client of S: it leaves every channel, then its *)
(* own invitations are deleted from both sides.                            *)
exit_one_client_local(S) ==
    /\ online' = online \ S
    /\ chan' = [c \in Channels |-> RemoveUsers(chan[c], S \cap Local)]
    /\ inv' = mode_invite_clear(inv, Freed)

exit_one_client(S) ==
    /\ online' = online \ S
    /\ chan' = [c \in Channels |-> RemoveUsers(chan[c], S)]
    /\ LET v == mode_invite_clear(inv, Freed)
       IN  inv' = [byChan |-> [c \in Channels |-> v.byChan[c] \ S],
                   byUser |-> [u \in Users |->
                                  IF u \in S THEN <<>> ELSE v.byUser[u]],
                   count  |-> [u \in Users |->
                                  IF u \in S
                                  THEN v.count[u] - Cardinality(
                                         {c \in Channels : u \in v.byChan[c]})
                                  ELSE v.count[u]]]

Quit(u) == u \in online /\ exit_one_client({u})

(* exit_client of a directly linked server: exit_downlinks takes every     *)
(* client behind it.                                                       *)
Squit(l) ==
    LET S == {u \in Remote \cap online : From[u] = l}
    IN  S # {} /\ exit_one_client(S)

-----------------------------------------------------------------------------
(* JOIN, CREATE, PART                                                      *)

(* m_join.  Bans, keys and limits decide only whether can_join refuses,    *)
(* which changes nothing; the creator of a channel gets CHFL_CHANOP.       *)
m_join(u, c) ==
    /\ u \in Local \cap online
    /\ u \notin chan[c].member
    /\ joined(u) < MaxChannels \/ u \in Unlimited
    /\ chan' = [chan EXCEPT ![c] =
                   add_user_to_channel(get_channel(@), u, ~@.alive)]
    /\ inv' = del_invite(inv, u, c)
    /\ UNCHANGED online

(* ms_join.  A zombie that joins again is first removed; when that freed   *)
(* the channel, FindChannel finds nothing and joinbuf_join(NULL) passes    *)
(* the join on as "JOIN 0" without adding the user.                        *)
ms_join(u, c) ==
    /\ u \in Remote \cap online
    /\ ~find_channel_member(u, c)
    /\ LET k == chan[c]
           r == remove_user_from_channel(k, u)
       IN  chan' = [chan EXCEPT ![c] =
                       IF k.alive /\ ~r.alive
                       THEN r
                       ELSE add_user_to_channel(get_channel(r), u, FALSE)]
    /\ DropFreedInvites
    /\ UNCHANGED online

(* ms_create.  badop: our channel is older, so the user joins without op.  *)
ms_create(u, c, badop) ==
    /\ u \in Remote \cap online
    /\ u \notin chan[c].member
    /\ badop => chan[c].alive
    /\ chan' = [chan EXCEPT ![c] =
                   add_user_to_channel(get_channel(@), u, ~badop)]
    /\ UNCHANGED <<online, inv>>

(* m_part and ms_part: joinbuf_join marks the membership, joinbuf_flush    *)
(* removes it.                                                             *)
Part(u, c) ==
    /\ u \in online
    /\ u \in chan[c].member
    /\ chan' = [chan EXCEPT ![c] = remove_user_from_channel(@, u)]
    /\ DropFreedInvites
    /\ UNCHANGED online

(* JOIN 0: join0 parts every channel of the user.                          *)
join0(u) ==
    /\ u \in online
    /\ joined(u) > 0
    /\ chan' = [c \in Channels |-> RemoveUsers(chan[c], {u})]
    /\ DropFreedInvites
    /\ UNCHANGED online

-----------------------------------------------------------------------------
(* KICK                                                                    *)

m_kick(s, u, c) ==
    /\ s \in Local
    /\ is_chan_op(s, c)
    /\ find_channel_member(u, c)
    /\ chan' = [chan EXCEPT ![c] = make_zombie(@, u, u \in Local)]
    /\ DropFreedInvites
    /\ UNCHANGED online

(* ms_kick received on link l from a server (src = "server", or "own" when *)
(* it is the server of u itself) or from a user who is an operator here    *)
(* ("op") or is not ("nonop").  below: the source is behind u's server.    *)
ms_kick(l, src, below, u, c) ==
    /\ chan[c].alive
    /\ u \in chan[c].member
    /\ src = "own" => u \in Remote /\ From[u] = l
    /\ below => u \in Remote /\ From[u] = l
    /\ chan' = [chan EXCEPT ![c] =
          IF u \in @.zombie
          THEN IF src = "own" THEN remove_user_from_channel(@, u) ELSE @
          ELSE IF src = "nonop" /\ (u \in Local \/ From[u] # l)
               THEN @                       \* bounced: JOIN sent back
               ELSE make_zombie(@, u, u \in Local \/ below \/ src = "own")]
    /\ DropFreedInvites
    /\ UNCHANGED online

-----------------------------------------------------------------------------
(* MODE                                                                    *)

ModeOp(u, c, add) ==
    /\ u \in chan[c].member
    /\ chan' = [chan EXCEPT ![c].op = IF add THEN @ \cup {u} ELSE @ \ {u}]
    /\ UNCHANGED <<online, inv>>

(* MODE +z/-z by a service: mode_parse only sets the bit.                  *)
ModePersist(c, add) ==
    /\ c \in Registered
    /\ chan[c].alive
    /\ chan' = [chan EXCEPT ![c].persist = add]
    /\ UNCHANGED <<online, inv>>

(* MODE -i: mode_parse clears the invitations.                             *)
ModeNoInviteOnly(c) ==
    /\ chan[c].alive
    /\ inv' = mode_invite_clear(inv, {c})
    /\ UNCHANGED <<online, chan>>

-----------------------------------------------------------------------------
(* INVITE                                                                  *)

(* m_invite by a local operator (or half-op) and ms_invite from the        *)
(* network; only the invited user's own server records the invitation, the *)
(* others pass it on.                                                      *)
m_invite(s, u, c) ==
    /\ s \in Local /\ is_chan_op(s, c)
    /\ u \in online /\ ~find_channel_member(u, c)
    /\ inv' = IF u \in Local THEN add_invite(inv, u, c) ELSE inv
    /\ UNCHANGED <<online, chan>>

(* ms_invite: the inviter is on the channel or is a channel service.       *)
ms_invite(u, c) ==
    /\ u \in Local \cap online
    /\ chan[c].alive
    /\ ~find_channel_member(u, c)
    /\ inv' = add_invite(inv, u, c)
    /\ UNCHANGED <<online, chan>>

-----------------------------------------------------------------------------
(* BURST and END_OF_BURST                                                  *)

(* ms_burst.  ts compares the received timestamp with ours; ridden holds   *)
(* the local members kicked as net riders (the received modes keep them    *)
(* out), z says that the received modes have 'z', J are the joining        *)
(* clients (all behind link l) and opJ those with ":o".                    *)
(* The net riders leave one after the other.  The code's walk goes on from *)
(* the membership after the one it removed; where that was freed with the  *)
(* last one that is no zombie, what is modelled is that none is left.      *)
BurstKick(k, ridden) == RemoveUsers(k, ridden)

(* The joining clients are new on the channel: a peer bursts what it knew  *)
(* when it linked, and a client behind it that is a member here got there  *)
(* through that peer.                                                      *)
ms_burst(l, c, ts, netride, ridden, z, J, opJ) ==
    LET k     == chan[c]
        older == ~k.alive \/ ts = "older"
        k1    == IF older THEN BurstKick(get_channel(k), ridden) ELSE k
        fresh == ~k.alive \/ ~k1.alive
        k2    == get_channel(k1)
        wipe  == older
        set   == older \/ ts = "equal"
        k3    == [k2 EXCEPT
                    !.burstAdded = @ \/ fresh,
                    !.persist = IF wipe THEN z ELSE @ \/ (set /\ z),
                    !.op = (IF wipe THEN {} ELSE @)
                               \cup (IF set THEN opJ ELSE {}),
                    !.member = @ \cup J,
                    !.users = (@ + Cardinality(J)) % UINT]
    IN  /\ J \subseteq {u \in Remote \cap online :
                            From[u] = l /\ u \notin k.member}
        /\ opJ \subseteq J
        /\ z => c \in Registered
        /\ ridden # {} => netride
        /\ netride => older
        /\ ridden \subseteq (k.member \ k.zombie) \cap Local
        /\ chan' = [chan EXCEPT ![c] = k3]
        /\ inv' = IF netride \/ (k.alive /\ fresh)
                  THEN mode_invite_clear(inv, {c}) ELSE inv
        /\ UNCHANGED online

IsEmpty_anymode(k) == k.alive /\ k.member = {}

IsEmpty(k) == k.alive /\ k.member = {} /\ ~k.persist

(* ms_end_of_burst walks GlobalChannelList: the first empty channel it     *)
(* meets is destroyed and the walk ends; the channels before it lose       *)
(* MODE_BURSTADDED.                                                        *)
ms_end_of_burst ==
    /\ \/ /\ ~\E c \in Channels : IsEmpty(chan[c])
          /\ chan' = [c \in Channels |-> [chan[c] EXCEPT !.burstAdded = FALSE]]
       \/ \E e \in {c \in Channels : IsEmpty(chan[c])},
             seen \in SUBSET {c \in Channels : ~IsEmpty(chan[c])} :
              chan' = [c \in Channels |->
                          IF c = e THEN sub1_from_channel(chan[c])
                          ELSE IF c \in seen
                               THEN [chan[c] EXCEPT !.burstAdded = FALSE]
                               ELSE chan[c]]
    /\ DropFreedInvites
    /\ UNCHANGED online

-----------------------------------------------------------------------------
Next ==
    \/ \E u \in Users : UserArrives(u)
    \/ \E u \in Users : Quit(u)
    \/ \E l \in Links : Squit(l)
    \/ \E u \in Users : join0(u)
    \/ \E u \in Users, c \in Channels : m_join(u, c)
    \/ \E u \in Users, c \in Channels : ms_join(u, c)
    \/ \E u \in Users, c \in Channels, b \in BOOLEAN : ms_create(u, c, b)
    \/ \E u \in Users, c \in Channels : Part(u, c)
    \/ \E s, u \in Users, c \in Channels : m_kick(s, u, c)
    \/ \E l \in Links, src \in {"server", "own", "op", "nonop"},
          below \in BOOLEAN, u \in Users, c \in Channels :
              ms_kick(l, src, below, u, c)
    \/ \E u \in Users, c \in Channels, b \in BOOLEAN : ModeOp(u, c, b)
    \/ \E c \in Channels, b \in BOOLEAN : ModePersist(c, b)
    \/ \E c \in Channels : ModeNoInviteOnly(c)
    \/ \E u \in Users, c \in Channels : ms_invite(u, c) \/ \E s \in Users : m_invite(s, u, c)
    \/ \E l \in Links, c \in Channels, ts \in {"older", "equal", "newer"},
          netride, z \in BOOLEAN, ridden \in SUBSET Local,
          J, opJ \in SUBSET Remote :
              ms_burst(l, c, ts, netride, ridden, z, J, opJ)
    \/ ms_end_of_burst

Spec == Init /\ [][Next]_vars

-----------------------------------------------------------------------------
TypeOK ==
    /\ online \subseteq Users
    /\ chan \in [Channels -> ChannelRec]
    /\ inv.byChan \in [Channels -> SUBSET Users]
    /\ inv.byUser \in [Users -> Seq(Channels)]
    /\ inv.count \in [Users -> Int]

(* chptr->users always equals the length of chptr->members, whatever mix   *)
(* of joins, kicks, bursts and splits edited the two: sub1_from_channel    *)
(* frees a channel by the counter and asserts that the list is empty.      *)
UsersExact == \A c \in Channels : ChanOK(chan[c])

(* Referential integrity: a membership never outlives its client, and only *)
(* a live channel has members (exit_one_client, sub1_from_channel).        *)
NoDanglingMember ==
    \A c \in Channels :
        /\ chan[c].member \subseteq online
        /\ chan[c].member # {} => chan[c].alive

(* m_part asserts "Local users should never zombie".                       *)
LocalNeverZombie == \A c \in Channels : chan[c].zombie \cap Local = {}

(* The two invitation lists mirror each other, only name live channels and *)
(* local online users, and the counter asserted by add_invite is their     *)
(* length and never exceeds FEAT_MAXCHANNELSPERUSER.                       *)
InvitesMirror ==
    \A u \in Users :
        /\ inv.count[u] = Len(inv.byUser[u])
        /\ inv.count[u] <= MaxChannels
        /\ \A c \in Channels :
              /\ u \in inv.byChan[c] <=>
                    \E i \in DOMAIN inv.byUser[u] : inv.byUser[u][i] = c
              /\ u \in inv.byChan[c] => chan[c].alive /\ u \in online

(* make_zombie: "Remove the user immedeately when no users are left on the *)
(* channel": a channel that never was +z never holds only zombies.         *)
NoZombieOnlyChannel ==
    \A c \in Channels \ Registered :
        chan[c].member # {} => ~channel_all_zombies(chan[c])

(* ms_join and ms_kick remove a zombie and then go on using the channel:   *)
(* ms_join adds the user again, ms_kick formats its name into the KICK it  *)
(* passes on.  So the removal must never be the one that frees it.         *)
ZombieRemovalKeepsChannel ==
    [][\A u \in Users, c \in Channels \ Registered :
          /\ u \in chan[c].zombie
          /\ \/ ms_join(u, c)
             \/ \E l \in Links, below \in BOOLEAN : ms_kick(l, "own", below, u, c)
          => chan'[c].alive]_vars
=============================================================================
