------------------------ MODULE ChannelMembersProofs ------------------------
(***************************************************************************)
(* The channel lists of one server, for any number of channels, users and  *)
(* links: the user count is exact, no membership outlives its client, no   *)
(* local user is a zombie and, unless services registered it, no channel   *)
(* is left to zombies and no handler frees the channel it goes on using.   *)
(***************************************************************************)
EXTENDS ChannelMembers, FiniteSetTheorems, TLAPS

-----------------------------------------------------------------------------
(* What the operations of channel.c on one channel record preserve, for    *)
(* any finite set of clients and any width of the user counter that can    *)
(* count them.                                                             *)

(* A user count below UINT is not changed by the reduction modulo UINT.    *)
LEMMA ModSmall ==
  ASSUME NEW m \in Nat, NEW x \in Nat, x < m
  PROVE  x % m = x
OBVIOUS

(* Every member list is finite and shorter than UINT.                      *)
LEMMA MemberCount ==
  ASSUME NEW S \in SUBSET Users
  PROVE  IsFiniteSet(S) /\ Cardinality(S) \in Nat /\ Cardinality(S) < UINT
<1>1. IsFiniteSet(Users) /\ UINT \in Nat /\ Cardinality(Users) < UINT
  BY ChannelAssumption
<1>2. IsFiniteSet(S) /\ Cardinality(S) <= Cardinality(Users)
  BY <1>1, FS_Subset
<1>3. Cardinality(S) \in Nat /\ Cardinality(Users) \in Nat
  BY <1>1, <1>2, FS_CardinalityType
<1> QED
  BY <1>1, <1>2, <1>3

(* A destroyed channel holds nothing.                                      *)
LEMMA NoChannelOK == ChanOK(NoChannel)
<1>1. Cardinality({}) = 0
  BY FS_EmptySet
<1>2. 0 \in 0 .. (UINT - 1)
  <2>1. {} \in SUBSET Users
    OBVIOUS
  <2>2. 0 < UINT
    BY <1>1, <2>1, MemberCount
  <2> QED
    BY <2>2, ChannelAssumption
<1> QED
  BY <1>1, <1>2 DEF ChanOK, NoChannel, ChannelRec

(* get_channel finds the channel as it is, or creates an empty one.        *)
LEMMA GetChannelOK ==
  ASSUME NEW k, ChanOK(k)
  PROVE  /\ ChanOK(get_channel(k))
         /\ get_channel(k).alive
         /\ get_channel(k).member = k.member
         /\ get_channel(k).zombie = k.zombie
         /\ get_channel(k).op = k.op
         /\ get_channel(k).persist = k.persist
<1>1. CASE k.alive
  BY <1>1 DEF get_channel
<1>2. CASE ~k.alive
  BY <1>2, NoChannelOK DEF get_channel, ChanOK, NoChannel, ChannelRec
<1> QED
  BY <1>1, <1>2

(* add_user_to_channel of a client that is not on the channel keeps the    *)
(* count exact.                                                            *)
LEMMA AddUserOK ==
  ASSUME NEW k, ChanOK(k), k.alive, NEW u \in Users \ k.member,
         NEW isop \in BOOLEAN
  PROVE  LET r == add_user_to_channel(k, u, isop)
         IN  /\ ChanOK(r)
             /\ r.alive
             /\ r.member = k.member \cup {u}
             /\ r.zombie = k.zombie
             /\ r.persist = k.persist
<1> DEFINE M == k.member \cup {u}
<1>1. k \in ChannelRec /\ k.users = Cardinality(k.member)
      /\ k.zombie \subseteq k.member /\ k.op \subseteq k.member
  BY DEF ChanOK
<1>2. k.member \in SUBSET Users /\ M \in SUBSET Users
  BY <1>1 DEF ChannelRec
<1>3. Cardinality(M) = k.users + 1
  BY <1>1, <1>2, MemberCount, FS_AddElement
<1>4. Cardinality(M) \in Nat /\ Cardinality(M) < UINT
  BY <1>2, MemberCount
<1>5. (k.users + 1) % UINT = Cardinality(M)
  BY <1>3, <1>4, ModSmall, ChannelAssumption
<1>6. (k.users + 1) % UINT \in 0 .. (UINT - 1)
  BY <1>4, <1>5, ChannelAssumption
<1> QED
  BY <1>1, <1>2, <1>5, <1>6 DEF ChanOK, ChannelRec, add_user_to_channel

(* Removing the clients of S keeps the count exact; a channel that loses a *)
(* member and lives on is persistent or still has a member who is no       *)
(* zombie.                                                                 *)
LEMMA RemoveUsersOK ==
  ASSUME NEW k, ChanOK(k), NEW S
  PROVE  LET r == RemoveUsers(k, S)
         IN  /\ ChanOK(r)
             /\ r.member \subseteq k.member \ S
             /\ r.zombie \subseteq k.zombie
             /\ r.alive => r.alive = k.alive /\ r.persist = k.persist
             /\ ~r.alive => r = NoChannel
             /\ ~r.persist /\ S \cap k.member # {} /\ r.alive
                   => ~(r.member \subseteq r.zombie)
             /\ S \cap k.member = {} => r = k
<1> DEFINE M == k.member \ S
<1>1. k \in ChannelRec /\ k.users = Cardinality(k.member)
      /\ k.zombie \subseteq k.member /\ k.op \subseteq k.member
      /\ (~k.alive => k = NoChannel)
  BY DEF ChanOK
<1>2. k.member \in SUBSET Users /\ M \in SUBSET Users
      /\ S \cap k.member \in SUBSET Users
  BY <1>1 DEF ChannelRec
<1>3. Cardinality(k.member) = Cardinality(M) + Cardinality(S \cap k.member)
  <2>1. M \cup (S \cap k.member) = k.member /\ M \cap (S \cap k.member) = {}
    BY <1>2
  <2>2. Cardinality(M \cup (S \cap k.member))
          = Cardinality(M) + Cardinality(S \cap k.member)
                - Cardinality(M \cap (S \cap k.member))
    BY <1>2, MemberCount, FS_Union
  <2>3. Cardinality(M \cap (S \cap k.member)) = 0
    BY <2>1, FS_EmptySet
  <2> QED
    BY <1>2, <2>1, <2>2, <2>3, MemberCount
<1>4. Cardinality(M) \in Nat /\ Cardinality(M) < UINT
      /\ Cardinality(S \cap k.member) \in Nat
  BY <1>2, MemberCount
<1>5. (k.users - Cardinality(S \cap k.member)) % UINT = Cardinality(M)
  BY <1>1, <1>3, <1>4, ModSmall, ChannelAssumption
<1>6. Cardinality(M) \in 0 .. (UINT - 1)
  BY <1>4, ChannelAssumption
<1>7. CASE S \cap k.member = {}
  BY <1>1, <1>7 DEF RemoveUsers
<1>8. CASE S \cap k.member # {} /\ ~k.persist /\ M \subseteq k.zombie
  BY <1>8, NoChannelOK DEF RemoveUsers, NoChannel
<1>9. CASE S \cap k.member # {} /\ ~(~k.persist /\ M \subseteq k.zombie)
  <2>1. k.alive
    BY <1>1, <1>9 DEF NoChannel
  <2> QED
    BY <1>1, <1>2, <1>5, <1>6, <1>9, <2>1
    DEF RemoveUsers, ChanOK, ChannelRec
<1> QED
  BY <1>7, <1>8, <1>9

(* remove_user_from_channel, with its loop over the zombies that are left, *)
(* is RemoveUsers for one client: sub1_from_channel sees the exact count.  *)
LEMMA RemoveUserIsRemoveUsers ==
  ASSUME NEW k, ChanOK(k), NEW u
  PROVE  remove_user_from_channel(k, u) = RemoveUsers(k, {u})
<1>1. k \in ChannelRec /\ k.users = Cardinality(k.member)
      /\ k.zombie \subseteq k.member
  BY DEF ChanOK
<1>2. CASE u \notin k.member
  BY <1>2 DEF remove_user_from_channel, RemoveUsers
<1>3. CASE u \in k.member
  <2> DEFINE M == k.member \ {u}
  <2>1. k.member \in SUBSET Users /\ M \in SUBSET Users
    BY <1>1 DEF ChannelRec
  <2>2. Cardinality(M) = k.users - 1 /\ Cardinality(M) \in Nat
        /\ (Cardinality(M) = 0 <=> M = {}) /\ Cardinality(M) < UINT
        /\ k.users \in Nat
    <3>1. IsFiniteSet(k.member) /\ k.users \in Nat
      BY <1>1, <2>1, MemberCount
    <3>2. IsFiniteSet(M) /\ Cardinality(M) \in Nat /\ Cardinality(M) < UINT
      BY <2>1, MemberCount
    <3>3. Cardinality(M) = k.users - 1
      BY <1>1, <1>3, <3>1, FS_RemoveElement
    <3>4. Cardinality(M) = 0 <=> M = {}
      BY <3>2, FS_EmptySet
    <3> QED
      BY <3>1, <3>2, <3>3, <3>4
  <2>3. {u} \cap k.member = {u} /\ Cardinality({u}) = 1
    BY <1>3, FS_Singleton
  <2>4. (k.users - 1) % UINT = k.users - 1
    BY <2>2, ModSmall, ChannelAssumption
  <2>5. Unlink(k, u) = [k EXCEPT !.member = M, !.zombie = k.zombie \ {u},
                                 !.op = k.op \ {u}]
    BY DEF Unlink
  <2>6. k.users > 1 <=> M # {}
    BY <2>2
  <2>7. CASE M # {}
    <3>1. remove_member_from_channel(k, u)
            = [k EXCEPT !.member = M, !.zombie = k.zombie \ {u},
                        !.op = k.op \ {u}, !.users = k.users - 1]
      BY <1>1, <2>5, <2>6, <2>7
      DEF remove_member_from_channel, sub1_from_channel, ChannelRec
    <3>2. Sub1Keeps(Unlink(k, u))
      BY <1>1, <2>5, <2>6, <2>7 DEF Sub1Keeps, ChannelRec
    <3>3. channel_all_zombies(remove_member_from_channel(k, u))
            <=> ~k.persist /\ M \subseteq k.zombie
      BY <1>1, <3>1 DEF channel_all_zombies, ChannelRec
    <3> QED
      BY <1>1, <1>3, <2>3, <2>4, <3>1, <3>2, <3>3
      DEF remove_user_from_channel, RemoveUsers, ChannelRec
  <2>8. CASE M = {}
    <3>1. ~Sub1Keeps(Unlink(k, u))
      BY <1>1, <2>5, <2>8 DEF Sub1Keeps, ChannelRec
    <3>2. k.users = 1
      BY <2>2, <2>8
    <3>3. CASE k.persist
      <4> DEFINE R == [k EXCEPT !.member = k.member \ {u},
                                !.zombie = k.zombie \ {u},
                                !.op = k.op \ {u},
                                !.users = 0]
      <4>0. (k.users - 1) % UINT = 0
        BY <2>4, <3>2
      <4>1. RemoveUsers(k, {u}) = R
        BY <1>3, <2>3, <3>3, <4>0 DEF RemoveUsers
      <4>2. /\ Unlink(k, u).users = k.users
            /\ Unlink(k, u).persist
            /\ [Unlink(k, u) EXCEPT !.users = 0] = R
        BY <1>1, <2>5, <3>3 DEF ChannelRec
      <4>3. remove_member_from_channel(k, u) = R
        BY <3>2, <4>0, <4>2 DEF remove_member_from_channel, sub1_from_channel
      <4> QED
        BY <1>3, <3>1, <4>1, <4>3 DEF remove_user_from_channel
    <3>4. CASE ~k.persist
      BY <1>1, <1>3, <2>3, <2>5, <2>8, <3>1, <3>2, <3>4
      DEF remove_user_from_channel, RemoveUsers, remove_member_from_channel,
          sub1_from_channel, ChannelRec
    <3> QED
      BY <3>3, <3>4
  <2> QED
    BY <2>7, <2>8
<1> QED
  BY <1>2, <1>3

(* make_zombie keeps the count exact, marks only the kicked client, and    *)
(* leaves no unregistered channel to zombies.                              *)
LEMMA MakeZombieOK ==
  ASSUME NEW k, ChanOK(k), NEW u \in k.member, NEW gone \in BOOLEAN
  PROVE  LET r == make_zombie(k, u, gone)
         IN  /\ ChanOK(r)
             /\ r.member \subseteq k.member
             /\ r.zombie \subseteq k.zombie \cup {u}
             /\ gone => r.zombie \subseteq k.zombie
             /\ r.alive => r.persist = k.persist
             /\ ~r.alive => r = NoChannel
             /\ ~r.persist /\ r.alive => ~(r.member \subseteq r.zombie)
<1> DEFINE z == [k EXCEPT !.zombie = @ \cup {u}]
<1>1. k \in ChannelRec /\ u \in Users
  BY DEF ChanOK, ChannelRec
<1>2. z \in ChannelRec /\ z.member = k.member /\ z.persist = k.persist
      /\ z.alive = k.alive /\ z.zombie = k.zombie \cup {u}
  BY <1>1 DEF ChannelRec
<1>3. k.alive
  BY DEF ChanOK, NoChannel
<1>4. ChanOK(z)
  BY <1>1, <1>2, <1>3 DEF ChanOK, ChannelRec
<1>5. CASE gone \/ channel_all_zombies(z)
  <2>1. make_zombie(k, u, gone) = RemoveUsers(z, {u})
    BY <1>4, <1>5, RemoveUserIsRemoveUsers DEF make_zombie
  <2> DEFINE r == RemoveUsers(z, {u})
  <2>0. {u} \cap z.member # {}
    BY <1>2
  <2> HIDE DEF z
  <2>2. ChanOK(r) /\ r.member \subseteq k.member \ {u}
        /\ r.zombie \subseteq k.zombie \cup {u}
        /\ (r.alive => r.persist = k.persist)
        /\ (~r.alive => r = NoChannel)
        /\ (~r.persist /\ r.alive => ~(r.member \subseteq r.zombie))
    BY <1>2, <1>4, <2>0, RemoveUsersOK
  <2>3. r.zombie \subseteq k.zombie
    BY <2>2 DEF ChanOK
  <2> QED
    BY <2>1, <2>2, <2>3
<1>6. CASE ~(gone \/ channel_all_zombies(z))
  BY <1>2, <1>3, <1>4, <1>6 DEF make_zombie, channel_all_zombies
<1> QED
  BY <1>5, <1>6

-----------------------------------------------------------------------------
(* The inductive invariant, one channel at a time.                         *)
Good(k, on, c) ==
    /\ ChanOK(k)
    /\ k.member \subseteq on
    /\ k.zombie \cap Local = {}
    /\ c \notin Registered =>
          /\ ~k.persist
          /\ k.member # {} => ~(k.member \subseteq k.zombie)

IInv ==
    /\ online \subseteq Users
    /\ chan \in [Channels -> ChannelRec]
    /\ \A c \in Channels : Good(chan[c], online, c)

(* A channel that does not exist is good whoever is online.                *)
LEMMA GoodNoChannel ==
  ASSUME NEW on, NEW c PROVE Good(NoChannel, on, c)
BY NoChannelOK DEF Good, NoChannel

(* A client joins a channel it is not on.                                  *)
LEMMA GoodAdd ==
  ASSUME NEW c, NEW on \in SUBSET Users, NEW k, Good(k, on, c),
         NEW u \in on \ k.member, NEW isop \in BOOLEAN
  PROVE  Good(add_user_to_channel(get_channel(k), u, isop), on, c)
<1> DEFINE g == get_channel(k)
<1>1. ChanOK(k)
  BY DEF Good
<1>2. ChanOK(g) /\ g.alive /\ g.member = k.member /\ g.zombie = k.zombie
      /\ g.persist = k.persist
  BY <1>1, GetChannelOK
<1> HIDE DEF g
<1> DEFINE r == add_user_to_channel(g, u, isop)
<1>3. u \in Users \ g.member
  BY <1>2
<1>4. ChanOK(r) /\ r.member = g.member \cup {u} /\ r.zombie = g.zombie
      /\ r.persist = g.persist
  BY <1>2, <1>3, AddUserOK
<1>5. k.zombie \subseteq k.member
  BY <1>1 DEF ChanOK
<1> HIDE DEF r
<1> QED
  <2>1. Good(r, on, c)
    BY <1>2, <1>4, <1>5 DEF Good
  <2> QED
    BY <2>1 DEF r, g

(* Clients leave a channel, whether or not they stay online.               *)
LEMMA GoodRemove ==
  ASSUME NEW c, NEW on, NEW k, Good(k, on, c), NEW S
  PROVE  Good(RemoveUsers(k, S), on, c) /\ Good(RemoveUsers(k, S), on \ S, c)
<1> DEFINE r == RemoveUsers(k, S)
<1>1. ChanOK(k)
  BY DEF Good
<1>2. /\ ChanOK(r)
      /\ r.member \subseteq k.member \ S
      /\ r.zombie \subseteq k.zombie
      /\ r.alive => r.persist = k.persist
      /\ ~r.alive => r = NoChannel
      /\ ~r.persist /\ S \cap k.member # {} /\ r.alive
            => ~(r.member \subseteq r.zombie)
      /\ S \cap k.member = {} => r = k
  BY <1>1, RemoveUsersOK
<1> HIDE DEF r
<1>3. CASE ~r.alive
  BY <1>2, <1>3, GoodNoChannel DEF r
<1>4. CASE r.alive /\ S \cap k.member = {}
  <2>1. r = k /\ k.member \subseteq on \ S
    BY <1>2, <1>4 DEF Good
  <2> QED
    BY <2>1 DEF Good, r
<1>5. CASE r.alive /\ S \cap k.member # {}
  <2>1. c \notin Registered => ~r.persist /\ ~(r.member \subseteq r.zombie)
    BY <1>2, <1>5 DEF Good
  <2>2. Good(r, on, c) /\ Good(r, on \ S, c)
    BY <1>2, <2>1 DEF Good
  <2> QED
    BY <2>2 DEF r
<1> QED
  BY <1>3, <1>4, <1>5

(* One client leaves a channel.                                            *)
LEMMA GoodRemoveOne ==
  ASSUME NEW c, NEW on, NEW k, Good(k, on, c), NEW u
  PROVE  Good(remove_user_from_channel(k, u), on, c)
<1>1. ChanOK(k)
  BY DEF Good
<1>2. remove_user_from_channel(k, u) = RemoveUsers(k, {u})
  BY <1>1, RemoveUserIsRemoveUsers
<1>3. Good(RemoveUsers(k, {u}), on, c)
  BY GoodRemove
<1> QED
  BY <1>2, <1>3

(* A member is kicked.                                                     *)
LEMMA GoodZombie ==
  ASSUME NEW c, NEW on, NEW k, Good(k, on, c), NEW u \in k.member,
         NEW gone \in BOOLEAN, u \in Local => gone
  PROVE  Good(make_zombie(k, u, gone), on, c)
<1> DEFINE r == make_zombie(k, u, gone)
<1>1. ChanOK(k)
  BY DEF Good
<1>2. /\ ChanOK(r)
      /\ r.member \subseteq k.member
      /\ r.zombie \subseteq k.zombie \cup {u}
      /\ gone => r.zombie \subseteq k.zombie
      /\ r.alive => r.persist = k.persist
      /\ ~r.alive => r = NoChannel
      /\ ~r.persist /\ r.alive => ~(r.member \subseteq r.zombie)
  BY <1>1, MakeZombieOK
<1> HIDE DEF r
<1>3. Good(r, on, c)
  <2>1. CASE ~r.alive
    BY <1>2, <2>1, GoodNoChannel
  <2>2. CASE r.alive
    BY <1>2, <2>2 DEF Good
  <2> QED
    BY <2>1, <2>2
<1> QED
  BY <1>3 DEF r

(* An update of one channel that keeps it good keeps the invariant.        *)
LEMMA OneChannel ==
  ASSUME IInv, NEW c \in Channels, NEW k, Good(k, online, c),
         chan' = [chan EXCEPT ![c] = k], online' = online
  PROVE  IInv'
<1>1. k \in ChannelRec
  BY DEF Good, ChanOK
<1> QED
  BY <1>1 DEF IInv

(* The invariant holds initially.                                          *)
LEMMA InitInv == Init => IInv
<1> SUFFICES ASSUME Init PROVE IInv
  OBVIOUS
<1>1. NoChannel \in ChannelRec
  BY NoChannelOK DEF ChanOK
<1>2. \A c \in Channels : Good(NoChannel, online, c)
  BY GoodNoChannel
<1> QED
  BY <1>1, <1>2 DEF Init, IInv

(* BURST merges the received channel into ours.                            *)
LEMMA BurstInv ==
  ASSUME IInv, NEW l \in Links, NEW c \in Channels, NEW ts, NEW netride \in BOOLEAN,
         NEW ridden \in SUBSET Local, NEW z \in BOOLEAN,
         NEW J \in SUBSET Remote, NEW opJ \in SUBSET Remote,
         ms_burst(l, c, ts, netride, ridden, z, J, opJ)
  PROVE  IInv'
<1> DEFINE k == chan[c]
           older == ~k.alive \/ ts = "older"
           k0 == get_channel(k)
           k1 == IF older THEN BurstKick(k0, ridden) ELSE k
           fresh == ~k.alive \/ ~k1.alive
           k2 == get_channel(k1)
           set == older \/ ts = "equal"
           k3 == [k2 EXCEPT
                    !.burstAdded = @ \/ fresh,
                    !.persist = IF older THEN z ELSE @ \/ (set /\ z),
                    !.op = (IF older THEN {} ELSE @)
                               \cup (IF set THEN opJ ELSE {}),
                    !.member = @ \cup J,
                    !.users = (@ + Cardinality(J)) % UINT]
<1>1. Good(k, online, c) /\ online \subseteq Users
  BY DEF IInv
<1>2. /\ J \subseteq online /\ J \cap k.member = {}
      /\ opJ \subseteq J
      /\ z => c \in Registered
      /\ chan' = [chan EXCEPT ![c] = k3]
      /\ online' = online
  BY DEF ms_burst, Remote
<1> HIDE DEF older, set, fresh
<1>3. ChanOK(k) /\ k.zombie \subseteq k.member
  BY <1>1 DEF Good, ChanOK
<1>4. ChanOK(k0) /\ k0.member = k.member /\ k0.zombie = k.zombie
      /\ k0.persist = k.persist
  BY <1>3, GetChannelOK
<1>5. Good(k0, online, c)
  BY <1>1, <1>4 DEF Good
<1> HIDE DEF k, k0
<1>6. Good(k1, online, c) /\ k1.member \subseteq k.member
  <2>1. Good(RemoveUsers(k0, ridden), online, c)
    BY <1>5, GoodRemove
  <2>2. RemoveUsers(k0, ridden).member \subseteq k0.member
    BY <1>4, RemoveUsersOK
  <2> QED
    BY <1>1, <1>4, <2>1, <2>2 DEF BurstKick
<1> HIDE DEF k1
<1>7. ChanOK(k1)
  BY <1>6 DEF Good
<1>8. ChanOK(k2) /\ k2.alive /\ k2.member = k1.member /\ k2.zombie = k1.zombie
      /\ k2.persist = k1.persist
  BY <1>7, GetChannelOK
<1> HIDE DEF k2
<1>9. k2 \in ChannelRec /\ k2.users = Cardinality(k2.member)
      /\ k2.zombie \subseteq k2.member /\ k2.op \subseteq k2.member
  BY <1>8 DEF ChanOK
<1>10. k2.member \cap J = {} /\ k2.member \subseteq Users /\ J \subseteq Users
  BY <1>1, <1>2, <1>6, <1>8, <1>9 DEF ChannelRec
<1>11. (k2.users + Cardinality(J)) % UINT = Cardinality(k2.member \cup J)
       /\ Cardinality(k2.member \cup J) \in 0 .. (UINT - 1)
  <2>1. k2.member \in SUBSET Users /\ J \in SUBSET Users
        /\ k2.member \cup J \in SUBSET Users
    BY <1>10
  <2>2. IsFiniteSet(k2.member) /\ IsFiniteSet(J)
        /\ Cardinality(k2.member) \in Nat /\ Cardinality(J) \in Nat
        /\ Cardinality(k2.member \cup J) \in Nat
        /\ Cardinality(k2.member \cup J) < UINT
    BY <2>1, MemberCount
  <2>3. Cardinality(k2.member \cup J) = Cardinality(k2.member)
          + Cardinality(J) - Cardinality(k2.member \cap J)
    BY <2>2, FS_Union
  <2>4. Cardinality(k2.member \cap J) = 0
    BY <1>10, FS_EmptySet
  <2>5. k2.users + Cardinality(J) = Cardinality(k2.member \cup J)
    BY <1>9, <2>2, <2>3, <2>4
  <2> QED
    BY <2>2, <2>5, ModSmall, ChannelAssumption
<1>12. /\ k3.alive /\ k3.member = k2.member \cup J /\ k3.zombie = k2.zombie
       /\ k3.users = Cardinality(k2.member \cup J)
       /\ k3.op \subseteq k2.op \cup J
       /\ k3.persist = (IF older THEN z ELSE k2.persist \/ (set /\ z))
       /\ k3.burstAdded = (k2.burstAdded \/ fresh)
       /\ k3.op \subseteq Users
  BY <1>2, <1>8, <1>9, <1>10, <1>11 DEF ChannelRec
<1>13. k3 \in ChannelRec
  <2>1. k3.op \in SUBSET Users /\ k3.member \in SUBSET Users
        /\ k3.users \in 0 .. (UINT - 1) /\ k3.persist \in BOOLEAN
        /\ k3.burstAdded \in BOOLEAN
    <3>1. older \in BOOLEAN /\ set \in BOOLEAN /\ fresh \in BOOLEAN
      BY DEF older, set, fresh
    <3>2. k2.persist \in BOOLEAN /\ k2.burstAdded \in BOOLEAN
      BY <1>9 DEF ChannelRec
    <3> QED
      BY <1>10, <1>11, <1>12, <3>1, <3>2
  <2> QED
    BY <1>9, <2>1 DEF ChannelRec
<1> HIDE DEF k3
<1>14. ChanOK(k3)
  BY <1>9, <1>12, <1>13 DEF ChanOK
<1>15. Good(k3, online, c)
  <2>1. k1.zombie \cap Local = {} /\ k1.member \subseteq online
    BY <1>6 DEF Good
  <2>2. c \notin Registered => ~k3.persist
    BY <1>2, <1>6, <1>8, <1>12 DEF Good
  <2>3. c \notin Registered /\ k3.member # {} => ~(k3.member \subseteq k3.zombie)
    <3>1. CASE J = {}
      BY <1>6, <1>8, <1>12, <3>1 DEF Good
    <3>2. CASE J # {}
      BY <1>9, <1>10, <1>12, <3>2
    <3> QED
      BY <3>1, <3>2
  <2> QED
    BY <1>2, <1>8, <1>12, <1>14, <2>1, <2>2, <2>3 DEF Good
<1> QED
  BY <1>2, <1>15, OneChannel

(* Every action preserves the invariant.                                   *)
LEMMA NextInv == IInv /\ [Next]_vars => IInv'
<1> SUFFICES ASSUME IInv, [Next]_vars PROVE IInv'
  OBVIOUS
<1> USE DEF IInv
<1>1. ASSUME NEW u \in Users, UserArrives(u) PROVE IInv'
  BY <1>1 DEF UserArrives, Good
<1>2. ASSUME NEW S, exit_one_client(S) PROVE IInv'
  <2>1. online' = online \ S
        /\ chan' = [c \in Channels |-> RemoveUsers(chan[c], S)]
    BY <1>2 DEF exit_one_client
  <2>2. \A c \in Channels : Good(RemoveUsers(chan[c], S), online \ S, c)
    BY GoodRemove
  <2>3. \A c \in Channels : RemoveUsers(chan[c], S) \in ChannelRec
    BY <2>2 DEF Good, ChanOK
  <2> QED
    BY <2>1, <2>2, <2>3
<1>3. ASSUME NEW u \in Users, Quit(u) PROVE IInv'
  BY <1>2, <1>3 DEF Quit
<1>4. ASSUME NEW l \in Links, Squit(l) PROVE IInv'
  BY <1>2, <1>4 DEF Squit
<1>5. ASSUME NEW u \in Users, join0(u) PROVE IInv'
  <2>1. online' = online
        /\ chan' = [c \in Channels |-> RemoveUsers(chan[c], {u})]
    BY <1>5 DEF join0
  <2>2. \A c \in Channels : Good(RemoveUsers(chan[c], {u}), online, c)
    BY GoodRemove
  <2>3. \A c \in Channels : RemoveUsers(chan[c], {u}) \in ChannelRec
    BY <2>2 DEF Good, ChanOK
  <2> QED
    BY <2>1, <2>2, <2>3
<1>6. ASSUME NEW u \in Users, NEW c \in Channels, m_join(u, c) PROVE IInv'
  <2>1. chan' = [chan EXCEPT ![c] =
                   add_user_to_channel(get_channel(chan[c]), u, ~chan[c].alive)]
        /\ online' = online /\ u \in online \ chan[c].member
    BY <1>6 DEF m_join
  <2>2. (~chan[c].alive) \in BOOLEAN
    OBVIOUS
  <2>3. Good(add_user_to_channel(get_channel(chan[c]), u, ~chan[c].alive), online, c)
    BY <2>1, <2>2, GoodAdd
  <2> QED
    BY <2>1, <2>3, OneChannel
<1>7. ASSUME NEW u \in Users, NEW c \in Channels, ms_join(u, c) PROVE IInv'
  <2> DEFINE k == chan[c]
             r == RemoveUsers(k, {u})
             n == IF k.alive /\ ~r.alive THEN r
                  ELSE add_user_to_channel(get_channel(r), u, FALSE)
  <2>0. Good(k, online, c)
    OBVIOUS
  <2>1. Good(k, online, c) /\ Good(r, online, c) /\ ChanOK(k)
    <3>1. Good(r, online, c)
      BY <2>0, GoodRemove
    <3> QED
      BY <2>0, <3>1 DEF Good
  <2>2. r = remove_user_from_channel(k, u)
    BY <2>1, RemoveUserIsRemoveUsers
  <2>3. chan' = [chan EXCEPT ![c] = n] /\ online' = online /\ u \in online
    BY <1>7, <2>2 DEF ms_join
  <2>4. r.member \subseteq k.member \ {u}
    BY <2>1, RemoveUsersOK
  <2> HIDE DEF r
  <2>5. Good(add_user_to_channel(get_channel(r), u, FALSE), online, c)
    BY <2>1, <2>3, <2>4, GoodAdd
  <2>6. Good(n, online, c)
    BY <2>1, <2>5
  <2> QED
    BY <2>3, <2>6, OneChannel
<1>8. ASSUME NEW u \in Users, NEW c \in Channels, NEW b \in BOOLEAN,
             ms_create(u, c, b)
      PROVE IInv'
  <2>1. chan' = [chan EXCEPT ![c] =
                   add_user_to_channel(get_channel(chan[c]), u, ~b)]
        /\ online' = online /\ u \in online \ chan[c].member
    BY <1>8 DEF ms_create
  <2>2. Good(add_user_to_channel(get_channel(chan[c]), u, ~b), online, c)
    BY <2>1, GoodAdd
  <2> QED
    BY <2>1, <2>2, OneChannel
<1>9. ASSUME NEW u \in Users, NEW c \in Channels, Part(u, c) PROVE IInv'
  <2>1. chan' = [chan EXCEPT ![c] = remove_user_from_channel(chan[c], u)]
        /\ online' = online
    BY <1>9 DEF Part
  <2>2. Good(remove_user_from_channel(chan[c], u), online, c)
    BY GoodRemoveOne
  <2> QED
    BY <2>1, <2>2, OneChannel
<1>10. ASSUME NEW s \in Users, NEW u \in Users, NEW c \in Channels,
              m_kick(s, u, c)
       PROVE IInv'
  <2>1. chan' = [chan EXCEPT ![c] = make_zombie(chan[c], u, u \in Local)]
        /\ online' = online /\ u \in chan[c].member
    BY <1>10 DEF m_kick, find_channel_member
  <2>2. Good(make_zombie(chan[c], u, u \in Local), online, c)
    <3>1. (u \in Local) \in BOOLEAN
      OBVIOUS
    <3> QED
      BY <2>1, <3>1, GoodZombie
  <2> QED
    BY <2>1, <2>2, OneChannel
<1>11. ASSUME NEW l \in Links, NEW src, NEW below \in BOOLEAN,
              NEW u \in Users, NEW c \in Channels, ms_kick(l, src, below, u, c)
       PROVE IInv'
  <2> DEFINE k == chan[c]
             gone == u \in Local \/ below \/ src = "own"
  <2>1. u \in k.member /\ online' = online
    BY <1>11 DEF ms_kick
  <2>2. Good(k, online, c) /\ ChanOK(k)
    BY DEF Good
  <2>3. Good(remove_user_from_channel(k, u), online, c)
    BY <2>2, GoodRemoveOne
  <2>4. Good(make_zombie(k, u, gone), online, c)
    BY <2>1, <2>2, GoodZombie
  <2>5. \E n \in {k, remove_user_from_channel(k, u), make_zombie(k, u, gone)} :
           chan' = [chan EXCEPT ![c] = n]
    BY <1>11 DEF ms_kick
  <2> QED
    BY <2>1, <2>2, <2>3, <2>4, <2>5, OneChannel
<1>12. ASSUME NEW u \in Users, NEW c \in Channels, NEW b \in BOOLEAN,
              ModeOp(u, c, b)
       PROVE IInv'
  <2> DEFINE k == [chan[c] EXCEPT !.op = IF b THEN @ \cup {u} ELSE @ \ {u}]
  <2>1. chan' = [chan EXCEPT ![c] = k] /\ online' = online
        /\ u \in chan[c].member
    BY <1>12 DEF ModeOp
  <2>2. Good(chan[c], online, c) /\ chan[c] \in ChannelRec
    OBVIOUS
  <2>3. k \in ChannelRec /\ k.member = chan[c].member /\ k.users = chan[c].users
        /\ k.zombie = chan[c].zombie /\ k.alive = chan[c].alive
        /\ k.persist = chan[c].persist /\ k.op \subseteq chan[c].op \cup {u}
    BY <2>2 DEF ChannelRec
  <2>4. chan[c].alive
    BY <2>1, <2>2 DEF Good, ChanOK, NoChannel
  <2> HIDE DEF k
  <2>5. Good(k, online, c)
    BY <2>1, <2>2, <2>3, <2>4 DEF Good, ChanOK
  <2> QED
    BY <2>1, <2>5, OneChannel
<1>13. ASSUME NEW c \in Channels, NEW b \in BOOLEAN, ModePersist(c, b)
       PROVE IInv'
  <2> DEFINE k == [chan[c] EXCEPT !.persist = b]
  <2>1. chan' = [chan EXCEPT ![c] = k] /\ online' = online /\ c \in Registered
        /\ chan[c].alive
    BY <1>13 DEF ModePersist
  <2>2. Good(chan[c], online, c) /\ chan[c] \in ChannelRec
    OBVIOUS
  <2>3. k \in ChannelRec /\ k.member = chan[c].member /\ k.users = chan[c].users
        /\ k.zombie = chan[c].zombie /\ k.alive = chan[c].alive
        /\ k.op = chan[c].op
    BY <2>2 DEF ChannelRec
  <2> HIDE DEF k
  <2>4. Good(k, online, c)
    BY <2>1, <2>2, <2>3 DEF Good, ChanOK
  <2> QED
    BY <2>1, <2>4, OneChannel
<1>14. ASSUME NEW c \in Channels, ModeNoInviteOnly(c) PROVE IInv'
  BY <1>14 DEF ModeNoInviteOnly
<1>15. ASSUME NEW u \in Users, NEW c \in Channels,
              ms_invite(u, c) \/ \E s \in Users : m_invite(s, u, c)
       PROVE  IInv'
  BY <1>15 DEF ms_invite, m_invite
<1>16. ASSUME ms_end_of_burst PROVE IInv'
  <2>1. ASSUME NEW c, NEW k, Good(k, online, c)
        PROVE  Good([k EXCEPT !.burstAdded = FALSE], online, c)
    <3> DEFINE r == [k EXCEPT !.burstAdded = FALSE]
    <3>1. k \in ChannelRec
      BY <2>1 DEF Good, ChanOK
    <3>2. r \in ChannelRec /\ r.member = k.member /\ r.users = k.users
          /\ r.zombie = k.zombie /\ r.alive = k.alive
          /\ r.op = k.op /\ r.persist = k.persist
      BY <3>1 DEF ChannelRec
    <3>3. k = NoChannel => r = NoChannel
      <4>1. ASSUME NEW q \in ChannelRec, q.burstAdded = FALSE
            PROVE  [q EXCEPT !.burstAdded = FALSE] = q
        BY <4>1 DEF ChannelRec
      <4>2. NoChannel.burstAdded = FALSE
        BY DEF NoChannel
      <4> QED
        BY <3>1, <4>1, <4>2
    <3> HIDE DEF r
    <3>4. Good(r, online, c)
      BY <2>1, <3>2, <3>3 DEF Good, ChanOK
    <3> QED
      BY <3>4 DEF r
  <2>2. ASSUME NEW c, NEW k, Good(k, online, c), IsEmpty(k)
        PROVE  sub1_from_channel(k) = NoChannel
    <3>1. k.users = 0
      BY <2>2, FS_EmptySet DEF Good, ChanOK, IsEmpty
    <3> QED
      BY <2>2, <3>1 DEF sub1_from_channel, IsEmpty
  <2>3. online' = online /\ \A c \in Channels : Good(chan'[c], online, c)
    <3>1. CASE chan' = [c \in Channels |-> [chan[c] EXCEPT !.burstAdded = FALSE]]
      BY <1>16, <2>1, <3>1 DEF ms_end_of_burst
    <3>2. ASSUME NEW e \in {c \in Channels : IsEmpty(chan[c])},
                 NEW seen \in SUBSET {c \in Channels : ~IsEmpty(chan[c])},
                 chan' = [c \in Channels |->
                            IF c = e THEN sub1_from_channel(chan[c])
                            ELSE IF c \in seen
                                 THEN [chan[c] EXCEPT !.burstAdded = FALSE]
                                 ELSE chan[c]]
          PROVE \A c \in Channels : Good(chan'[c], online, c)
      <4> TAKE c \in Channels
      <4>1. Good(chan[c], online, c)
        OBVIOUS
      <4>2. CASE c = e
        BY <2>2, <3>2, <4>1, <4>2, GoodNoChannel
      <4>3. CASE c # e
        BY <2>1, <3>2, <4>1, <4>3
      <4> QED
        BY <4>2, <4>3
    <3> QED
      BY <1>16, <3>1, <3>2 DEF ms_end_of_burst
  <2>4. DOMAIN chan' = Channels /\ chan' = [c \in Channels |-> chan'[c]]
    BY <1>16 DEF ms_end_of_burst
  <2>5. \A c \in Channels : chan'[c] \in ChannelRec
    BY <2>3 DEF Good, ChanOK
  <2> QED
    BY <2>3, <2>4, <2>5
<1>17. CASE UNCHANGED vars
  BY <1>17 DEF vars
<1> HIDE DEF IInv
<1> QED
  BY <1>1, <1>3, <1>4, <1>5, <1>6, <1>7, <1>8, <1>9, <1>10, <1>11, <1>12,
     <1>13, <1>14, <1>15, <1>16, <1>17, BurstInv DEF Next

(* The invariant holds in every reachable state.                           *)
THEOREM InvariantHolds == Spec => []IInv
BY InitInv, NextInv, PTL DEF Spec

(* chptr->users is the length of chptr->members for every network.         *)
THEOREM UsersExactHolds == Spec => []UsersExact
<1>1. IInv => UsersExact
  BY DEF IInv, Good, UsersExact
<1> QED
  BY <1>1, InvariantHolds, PTL

(* No membership outlives its client or its channel.                       *)
THEOREM NoDanglingMemberHolds == Spec => []NoDanglingMember
<1>1. IInv => NoDanglingMember
  BY DEF IInv, Good, ChanOK, NoChannel, NoDanglingMember
<1> QED
  BY <1>1, InvariantHolds, PTL

(* The assertion of m_part: a local user is never a zombie.                *)
THEOREM LocalNeverZombieHolds == Spec => []LocalNeverZombie
<1>1. IInv => LocalNeverZombie
  BY DEF IInv, Good, LocalNeverZombie
<1> QED
  BY <1>1, InvariantHolds, PTL

(* Kicks, bursts and splits never leave a channel that is not registered   *)
(* to zombies.                                                             *)
THEOREM NoZombieOnlyChannelHolds == Spec => []NoZombieOnlyChannel
<1>1. IInv => NoZombieOnlyChannel
  BY DEF IInv, Good, NoZombieOnlyChannel, channel_all_zombies
<1> QED
  BY <1>1, InvariantHolds, PTL

(* The zombie that ms_join or ms_kick removes is never the last member of  *)
(* a channel that is not registered: the channel they go on using is still *)
(* there.                                                                  *)
THEOREM ZombieRemovalKeepsChannelHolds == Spec => ZombieRemovalKeepsChannel
<1> DEFINE A == \A u \in Users, c \in Channels \ Registered :
                  /\ u \in chan[c].zombie
                  /\ \/ ms_join(u, c)
                     \/ \E l \in Links, below \in BOOLEAN :
                            ms_kick(l, "own", below, u, c)
                  => chan'[c].alive
<1>1. IInv => A
  <2> SUFFICES ASSUME IInv, NEW u \in Users, NEW c \in Channels \ Registered,
                      u \in chan[c].zombie,
                      \/ ms_join(u, c)
                      \/ \E l \in Links, below \in BOOLEAN :
                             ms_kick(l, "own", below, u, c)
               PROVE  chan'[c].alive
    OBVIOUS
  <2> DEFINE k == chan[c]
             r == remove_user_from_channel(k, u)
  <2>1. ChanOK(k) /\ ~k.persist /\ ~(k.member \subseteq k.zombie)
        /\ k.zombie \subseteq k.member /\ chan \in [Channels -> ChannelRec]
    BY DEF IInv, Good, ChanOK
  <2>2. r = RemoveUsers(k, {u})
    BY <2>1, RemoveUserIsRemoveUsers
  <2>3. k.alive
    BY <2>1 DEF ChanOK, NoChannel
  <2>4. r.alive
    <3>1. ~(k.member \ {u} \subseteq k.zombie)
      BY <2>1
    <3>2. RemoveUsers(k, {u}).alive = k.alive
      BY <2>1, <3>1 DEF RemoveUsers, ChanOK, ChannelRec
    <3> QED
      BY <2>2, <2>3, <3>2
  <2>5. ChanOK(r)
    BY <2>1, <2>2, RemoveUsersOK
  <2> HIDE DEF r
  <2>6. add_user_to_channel(get_channel(r), u, FALSE).alive
    BY <2>4, <2>5 DEF add_user_to_channel, get_channel, ChanOK, ChannelRec
  <2>7. CASE ms_join(u, c)
    BY <2>1, <2>4, <2>6, <2>7 DEF ms_join, r
  <2>8. ASSUME NEW l \in Links, NEW below \in BOOLEAN,
               ms_kick(l, "own", below, u, c)
        PROVE  chan'[c].alive
    BY <2>1, <2>4, <2>8 DEF ms_kick, r
  <2> QED
    BY <2>7, <2>8
<1>2. IInv => [A]_vars
  BY <1>1
<1> HIDE DEF A
<1>3. Spec => [][A]_vars
  BY <1>2, InvariantHolds, PTL
<1> QED
  BY <1>3 DEF ZombieRemovalKeepsChannel, A

-----------------------------------------------------------------------------
(* Invitations.  Both lists are kept by every operation that edits one of  *)
(* them, and the list of a client names no channel twice: only so does the *)
(* counter say how long it is.                                             *)

Invited(v, u) == {c \in Channels : u \in v.byChan[c]}

ListsOK(v) ==
    /\ v.byChan \in [Channels -> SUBSET Users]
    /\ v.byUser \in [Users -> Seq(Channels)]
    /\ v.count \in [Users -> Nat]
    /\ \A u \in Users : /\ Injective(v.byUser[u])
                        /\ Elements(v.byUser[u]) = Invited(v, u)
                        /\ v.count[u] = Len(v.byUser[u])

InvitesInv ==
    /\ ListsOK(inv)
    /\ \A u \in Users : inv.count[u] <= MaxChannels
    /\ \A u \in Users, c \in Channels :
          u \in inv.byChan[c] => chan[c].alive /\ u \in online

(* A list without repetitions is as long as the set of its elements.       *)
LEMMA LenIsCardinality ==
  ASSUME NEW T, NEW s \in Seq(T), Injective(s)
  PROVE  /\ IsFiniteSet(Elements(s))
         /\ Len(s) = Cardinality(Elements(s))
         /\ Len(s) \in Nat
<1> DEFINE n == Len(s)
           f == [i \in 1..n |-> s[i]]
<1>1. n \in Nat
  BY LenProperties
<1>2. IsFiniteSet(1..n) /\ Cardinality(1..n) = n
  <2>1. IsFiniteSet(1..n) /\ Cardinality(1..n) = IF 1 > n THEN 0 ELSE n - 1 + 1
    BY <1>1, FS_Interval
  <2> QED
    BY <1>1, <2>1
<1>3. f \in Bijection(1..n, Elements(s))
  BY DEF Bijection, Injection, Surjection, IsInjective, Injective, Elements
<1>4. ExistsBijection(1..n, Elements(s))
  BY <1>3 DEF ExistsBijection
<1> QED
  BY <1>1, <1>2, <1>4, FS_Bijection

(* Dropping channels from a list shortens it by as many as were on it.     *)
LEMMA DropLen ==
  ASSUME NEW T, NEW s \in Seq(T), Injective(s), NEW C, C \subseteq Elements(s)
  PROVE  /\ IsFiniteSet(C) /\ Cardinality(C) \in Nat
         /\ Len(Drop(s, C)) = Len(s) - Cardinality(C)
         /\ Len(Drop(s, C)) \in Nat
<1>1. Drop(s, C) \in Seq(T) /\ Injective(Drop(s, C)) /\ Elements(Drop(s, C)) = Elements(s) \ C
  BY DropOK
<1>2. IsFiniteSet(Elements(s)) /\ Len(s) = Cardinality(Elements(s)) /\ Len(s) \in Nat
  BY LenIsCardinality
<1>3. Len(Drop(s, C)) = Cardinality(Elements(s) \ C) /\ Len(Drop(s, C)) \in Nat
  BY <1>1, LenIsCardinality
<1>4. IsFiniteSet(C) /\ Cardinality(C) \in Nat
  BY <1>2, FS_Subset, FS_CardinalityType
<1>5. Elements(s) \cap C = C
  OBVIOUS
<1>6. Cardinality(Elements(s) \ C) = Cardinality(Elements(s)) - Cardinality(Elements(s) \cap C)
  BY <1>2, <1>4, FS_Difference
<1> QED
  BY <1>2, <1>3, <1>4, <1>5, <1>6

(* del_invite takes one invitation off both lists, if there is one.        *)
LEMMA DelInviteOK ==
  ASSUME NEW v, ListsOK(v), NEW u \in Users, NEW c \in Channels
  PROVE  LET w == del_invite(v, u, c)
         IN  /\ ListsOK(w)
             /\ \A x \in Users : w.count[x] <= v.count[x]
             /\ c \in Invited(v, u) => w.count[u] = v.count[u] - 1
             /\ \A d \in Channels : w.byChan[d] \subseteq v.byChan[d]
             /\ u \notin w.byChan[c]
<1> DEFINE w == del_invite(v, u, c)
           s == v.byUser[u]
<1>1. /\ v.byChan \in [Channels -> SUBSET Users]
      /\ v.byUser \in [Users -> Seq(Channels)]
      /\ v.count \in [Users -> Nat]
  BY DEF ListsOK
<1>2. s \in Seq(Channels) /\ Injective(s) /\ Elements(s) = Invited(v, u) /\ v.count[u] = Len(s)
  BY DEF ListsOK
<1>3. /\ w.byChan = [v.byChan EXCEPT ![c] = @ \ {u}]
      /\ w.byUser = [v.byUser EXCEPT ![u] = Drop(s, {c})]
      /\ w.count = [v.count EXCEPT ![u] = IF u \in v.byChan[c] THEN @ - 1 ELSE @]
  BY DEF del_invite
<1> HIDE DEF w, s
<1>4. /\ Drop(s, {c}) \in Seq(Channels)
      /\ Elements(Drop(s, {c})) = Elements(s) \ {c}
      /\ Injective(Drop(s, {c}))
  BY <1>2, DropOK
<1>5. c \in Invited(v, u) <=> u \in v.byChan[c]
  BY DEF Invited
<1>6. Len(Drop(s, {c})) = (IF u \in v.byChan[c] THEN Len(s) - 1 ELSE Len(s))
      /\ Len(Drop(s, {c})) \in Nat /\ Len(s) \in Nat
  <2>1. IsFiniteSet(Elements(s)) /\ Len(s) = Cardinality(Elements(s)) /\ Len(s) \in Nat
    BY <1>2, LenIsCardinality
  <2>2. Len(Drop(s, {c})) = Cardinality(Elements(s) \ {c}) /\ Len(Drop(s, {c})) \in Nat
    BY <1>4, LenIsCardinality
  <2>3. CASE u \in v.byChan[c]
    <3>1. Cardinality(Elements(s) \ {c}) = Cardinality(Elements(s)) - 1
      <4>1. c \in Elements(s)
        BY <1>2, <1>5, <2>3
      <4> QED
        BY <2>1, <4>1, FS_RemoveElement
    <3> QED
      BY <2>1, <2>2, <2>3, <3>1
  <2>4. CASE u \notin v.byChan[c]
    <3>1. Elements(s) \ {c} = Elements(s)
      BY <1>2, <1>5, <2>4
    <3> QED
      BY <2>1, <2>2, <2>4, <3>1
  <2> QED
    BY <2>3, <2>4
<1>7. \A x \in Users : Invited(w, x) = IF x = u THEN Invited(v, x) \ {c} ELSE Invited(v, x)
  BY <1>1, <1>3 DEF Invited
<1>8. /\ w.byChan \in [Channels -> SUBSET Users]
      /\ w.byUser \in [Users -> Seq(Channels)]
  BY <1>1, <1>3, <1>4
<1>9. /\ w.count \in [Users -> Nat]
      /\ \A x \in Users : w.count[x] = IF x = u THEN Len(Drop(s, {c})) ELSE v.count[x]
  BY <1>1, <1>2, <1>3, <1>6
<1>10. \A x \in Users : /\ Injective(w.byUser[x])
                        /\ Elements(w.byUser[x]) = Invited(w, x)
                        /\ w.count[x] = Len(w.byUser[x])
  <2> TAKE x \in Users
  <2>1. CASE x = u
    BY <1>1, <1>2, <1>3, <1>4, <1>7, <1>9, <2>1
  <2>2. CASE x # u
    <3>1. w.byUser[x] = v.byUser[x] /\ w.count[x] = v.count[x] /\ Invited(w, x) = Invited(v, x)
      BY <1>1, <1>3, <1>7, <1>9, <2>2
    <3> QED
      BY <3>1 DEF ListsOK
  <2> QED
    BY <2>1, <2>2
<1>11. ListsOK(w)
  BY <1>8, <1>9, <1>10 DEF ListsOK
<1>12. \A x \in Users : w.count[x] <= v.count[x]
  <2> TAKE x \in Users
  <2>1. v.count[x] \in Nat
    BY <1>1
  <2>2. CASE x = u
    <3>1. w.count[x] = Len(Drop(s, {c})) /\ v.count[x] = Len(s)
      BY <1>2, <1>9, <2>2
    <3> QED
      BY <1>6, <3>1
  <2>3. CASE x # u
    BY <1>9, <2>1, <2>3
  <2> QED
    BY <2>2, <2>3
<1>13. c \in Invited(v, u) => w.count[u] = v.count[u] - 1
  BY <1>2, <1>5, <1>6, <1>9
<1>14. (\A d \in Channels : w.byChan[d] \subseteq v.byChan[d]) /\ u \notin w.byChan[c]
  BY <1>1, <1>3
<1> QED
  BY <1>11, <1>12, <1>13, <1>14 DEF w

(* add_invite puts the channel last on the client's list, and takes the    *)
(* first one off when the list is full.                                    *)
LEMMA AddInviteOK ==
  ASSUME NEW v, ListsOK(v), NEW u \in Users, NEW c \in Channels,
         \A x \in Users : v.count[x] <= MaxChannels
  PROVE  LET w == add_invite(v, u, c)
         IN  /\ ListsOK(w)
             /\ \A x \in Users : w.count[x] <= MaxChannels
             /\ \A d \in Channels : w.byChan[d] \subseteq v.byChan[d] \cup {x \in {u} : d = c}
<1> DEFINE d == del_invite(v, u, c)
           h == Head(d.byUser[u])
           e == IF d.count[u] >= MaxChannels THEN del_invite(d, u, h) ELSE d
           w == add_invite(v, u, c)
           s == e.byUser[u]
<1>1. /\ w.byChan = [e.byChan EXCEPT ![c] = @ \cup {u}]
      /\ w.byUser = [e.byUser EXCEPT ![u] = Append(@, c)]
      /\ w.count = [e.count EXCEPT ![u] = @ + 1]
  BY DEF add_invite
<1>2. /\ ListsOK(d)
      /\ \A x \in Users : d.count[x] <= v.count[x]
      /\ \A y \in Channels : d.byChan[y] \subseteq v.byChan[y]
      /\ u \notin d.byChan[c]
  BY DelInviteOK
<1> HIDE DEF d, w
<1>3. MaxChannels \in Nat \ {0}
  BY MembersAssumption
<1>4. \A x \in Users : d.count[x] \in Nat /\ v.count[x] \in Nat
  BY <1>2 DEF ListsOK
<1>5. /\ ListsOK(e)
      /\ \A x \in Users : e.count[x] <= MaxChannels
      /\ e.count[u] < MaxChannels
      /\ \A y \in Channels : e.byChan[y] \subseteq v.byChan[y]
      /\ u \notin e.byChan[c]
  <2>1. CASE d.count[u] >= MaxChannels
    <3>1. d.byUser[u] \in Seq(Channels) /\ d.count[u] = Len(d.byUser[u])
          /\ Elements(d.byUser[u]) = Invited(d, u)
      BY <1>2 DEF ListsOK
    <3>2. Len(d.byUser[u]) \in Nat /\ 1 \in 1..Len(d.byUser[u])
      BY <1>3, <1>4, <2>1, <3>1
    <3>3. h = d.byUser[u][1]
      BY <3>1
    <3>4. h \in Invited(d, u) /\ h \in Channels
      BY <3>1, <3>2, <3>3, ElementOfSeq DEF Elements
    <3> HIDE DEF h
    <3>5. e = del_invite(d, u, h)
      BY <2>1
    <3> HIDE DEF e
    <3>6. /\ ListsOK(e)
          /\ \A x \in Users : e.count[x] <= d.count[x]
          /\ e.count[u] = d.count[u] - 1
          /\ \A y \in Channels : e.byChan[y] \subseteq d.byChan[y]
      BY <1>2, <3>4, <3>5, DelInviteOK
    <3>7. \A x \in Users : e.count[x] \in Nat
      BY <3>6 DEF ListsOK
    <3>8. \A x \in Users : e.count[x] <= MaxChannels
      BY <1>2, <1>3, <1>4, <3>6, <3>7
    <3> QED
      BY <1>2, <1>3, <1>4, <3>6, <3>8
  <2>2. CASE ~(d.count[u] >= MaxChannels)
    <3>1. e = d
      BY <2>2
    <3> HIDE DEF e
    <3>2. \A x \in Users : d.count[x] <= MaxChannels
      BY <1>2, <1>3, <1>4
    <3> QED
      BY <1>2, <1>3, <1>4, <2>2, <3>1, <3>2
  <2> QED
    BY <2>1, <2>2
<1> HIDE DEF e, s
<1>6. /\ e.byChan \in [Channels -> SUBSET Users]
      /\ e.byUser \in [Users -> Seq(Channels)]
      /\ e.count \in [Users -> Nat]
  BY <1>5 DEF ListsOK
<1>7. s \in Seq(Channels) /\ Injective(s) /\ Elements(s) = Invited(e, u) /\ e.count[u] = Len(s)
      /\ c \notin Elements(s)
  BY <1>5 DEF ListsOK, Invited, s
<1> DEFINE a == Append(s, c)
<1>8. a \in Seq(Channels) /\ Injective(a) /\ Elements(a) = Elements(s) \cup {c} /\ Len(a) = Len(s) + 1
  BY <1>7, AppendOK
<1>9. \A x \in Users : Invited(w, x) = IF x = u THEN Invited(e, x) \cup {c} ELSE Invited(e, x)
  BY <1>1, <1>6 DEF Invited
<1> HIDE DEF a
<1>10. w.byUser = [e.byUser EXCEPT ![u] = a]
  BY <1>1 DEF a, s
<1>11. /\ w.byChan \in [Channels -> SUBSET Users]
       /\ w.byUser \in [Users -> Seq(Channels)]
       /\ w.count \in [Users -> Nat]
       /\ \A x \in Users : w.count[x] = IF x = u THEN e.count[x] + 1 ELSE e.count[x]
  BY <1>1, <1>6, <1>8, <1>10
<1>12. \A x \in Users : /\ Injective(w.byUser[x])
                        /\ Elements(w.byUser[x]) = Invited(w, x)
                        /\ w.count[x] = Len(w.byUser[x])
  <2> TAKE x \in Users
  <2>1. CASE x = u
    BY <1>6, <1>7, <1>8, <1>9, <1>10, <1>11, <2>1
  <2>2. CASE x # u
    <3>1. w.byUser[x] = e.byUser[x] /\ w.count[x] = e.count[x] /\ Invited(w, x) = Invited(e, x)
      BY <1>6, <1>9, <1>10, <1>11, <2>2
    <3> QED
      BY <1>5, <3>1 DEF ListsOK
  <2> QED
    BY <2>1, <2>2
<1>13. ListsOK(w)
  BY <1>11, <1>12 DEF ListsOK
<1>14. \A x \in Users : w.count[x] <= MaxChannels
  <2> TAKE x \in Users
  <2>1. e.count[x] \in Nat /\ e.count[u] \in Nat /\ e.count[x] <= MaxChannels
    BY <1>5, <1>6
  <2>2. CASE x = u
    <3>1. w.count[x] = e.count[u] + 1
      BY <1>11, <2>2
    <3> QED
      BY <1>3, <1>5, <2>1, <3>1
  <2>3. CASE x # u
    BY <1>11, <2>1, <2>3
  <2> QED
    BY <2>2, <2>3
<1>15. \A y \in Channels : w.byChan[y] \subseteq v.byChan[y] \cup {x \in {u} : y = c}
  BY <1>1, <1>5, <1>6
<1> QED
  BY <1>13, <1>14, <1>15 DEF w

(* mode_invite_clear takes the channels of C off every client's list.      *)
LEMMA ClearOK ==
  ASSUME NEW v, ListsOK(v), NEW C \in SUBSET Channels
  PROVE  LET w == mode_invite_clear(v, C)
         IN  /\ ListsOK(w)
             /\ \A x \in Users : w.count[x] <= v.count[x]
             /\ \A d \in Channels : w.byChan[d] = IF d \in C THEN {} ELSE v.byChan[d]
<1> DEFINE w == mode_invite_clear(v, C)
           D(x) == {c \in C : x \in v.byChan[c]}
<1>1. /\ v.byChan \in [Channels -> SUBSET Users]
      /\ v.byUser \in [Users -> Seq(Channels)]
      /\ v.count \in [Users -> Nat]
  BY DEF ListsOK
<1>2. /\ w.byChan = [c \in Channels |-> IF c \in C THEN {} ELSE v.byChan[c]]
      /\ w.byUser = [x \in Users |-> Drop(v.byUser[x], D(x))]
      /\ w.count = [x \in Users |-> v.count[x] - Cardinality(D(x))]
  BY DEF mode_invite_clear
<1> HIDE DEF w
<1>3. \A x \in Users : Invited(w, x) = Invited(v, x) \ D(x)
  BY <1>1, <1>2 DEF Invited
<1>4. ASSUME NEW x \in Users
      PROVE  /\ w.byUser[x] \in Seq(Channels) /\ Injective(w.byUser[x])
             /\ Elements(w.byUser[x]) = Invited(w, x)
             /\ w.count[x] \in Nat /\ w.count[x] = Len(w.byUser[x])
             /\ w.count[x] <= v.count[x]
  <2> DEFINE s == v.byUser[x]
             E == D(x)
  <2>1. s \in Seq(Channels) /\ Injective(s) /\ Elements(s) = Invited(v, x) /\ v.count[x] = Len(s)
        /\ v.count[x] \in Nat
    BY <1>1 DEF ListsOK
  <2>2. E \subseteq Elements(s)
    BY <2>1 DEF Invited
  <2>3. w.byUser[x] = Drop(s, E) /\ w.count[x] = v.count[x] - Cardinality(E)
        /\ Invited(w, x) = Elements(s) \ E
    BY <1>2, <1>3, <2>1
  <2> HIDE DEF s, E
  <2>4. Drop(s, E) \in Seq(Channels) /\ Injective(Drop(s, E)) /\ Elements(Drop(s, E)) = Elements(s) \ E
    BY <2>1, DropOK
  <2>5. Cardinality(E) \in Nat /\ Len(Drop(s, E)) = Len(s) - Cardinality(E)
        /\ Len(Drop(s, E)) \in Nat
    BY <2>1, <2>2, DropLen
  <2> QED
    BY <2>1, <2>3, <2>4, <2>5
<1>5. w.byChan \in [Channels -> SUBSET Users]
  BY <1>1, <1>2
<1>6. w.byUser = [x \in Users |-> w.byUser[x]] /\ w.count = [x \in Users |-> w.count[x]]
  BY <1>2
<1>7. w.byUser \in [Users -> Seq(Channels)] /\ w.count \in [Users -> Nat]
  BY <1>4, <1>6
<1>8. ListsOK(w)
  BY <1>4, <1>5, <1>7 DEF ListsOK
<1>9. \A d \in Channels : w.byChan[d] = IF d \in C THEN {} ELSE v.byChan[d]
  BY <1>2
<1> QED
  BY <1>4, <1>8, <1>9 DEF w

(* A step that only takes invitations away, and those of whatever channel  *)
(* or client goes, keeps InvitesInv.                                       *)
LEMMA FewerInvites ==
  ASSUME InvitesInv, ListsOK(inv'),
         \A u \in Users : inv'.count[u] <= inv.count[u],
         \A u \in Users, c \in Channels :
            u \in inv'.byChan[c] => u \in inv.byChan[c],
         \A u \in Users, c \in Channels :
            u \in inv'.byChan[c] /\ chan[c].alive /\ u \in online => chan'[c].alive /\ u \in online'
  PROVE  InvitesInv'
<1>1. \A u \in Users : inv'.count[u] \in Nat /\ inv.count[u] \in Nat
                       /\ inv.count[u] <= MaxChannels /\ MaxChannels \in Nat
  BY MembersAssumption DEF InvitesInv, ListsOK
<1>2. \A u \in Users : inv'.count[u] <= MaxChannels
  BY <1>1
<1>3. \A u \in Users, c \in Channels : u \in inv.byChan[c] => chan[c].alive /\ u \in online
  BY DEF InvitesInv
<1>4. \A u \in Users, c \in Channels : u \in inv'.byChan[c] => chan'[c].alive /\ u \in online'
  BY <1>3
<1> QED
  BY <1>2, <1>4 DEF InvitesInv

(* A step that frees channels and deletes their invitations                *)
LEMMA DropFreedInv ==
  ASSUME InvitesInv, DropFreedInvites, online' = online
  PROVE  InvitesInv'
<1>1. inv' = mode_invite_clear(inv, Freed) /\ Freed \in SUBSET Channels /\ ListsOK(inv)
  BY DEF DropFreedInvites, Freed, InvitesInv
<1>2. /\ ListsOK(inv')
      /\ \A u \in Users : inv'.count[u] <= inv.count[u]
      /\ \A c \in Channels : inv'.byChan[c] = IF c \in Freed THEN {} ELSE inv.byChan[c]
  BY <1>1, ClearOK
<1>3. \A c \in Channels : c \notin Freed /\ chan[c].alive => chan'[c].alive
  BY DEF Freed
<1> QED
  BY <1>2, <1>3, FewerInvites

(* A step that frees no channel and changes no invitation                  *)
LEMMA SameInvites ==
  ASSUME InvitesInv, inv' = inv, online \subseteq online',
         \A c \in Channels : chan[c].alive => chan'[c].alive
  PROVE  InvitesInv'
<1>1. \A u \in Users, c \in Channels : u \in inv.byChan[c] => chan'[c].alive /\ u \in online'
  BY DEF InvitesInv
<1>2. ListsOK(inv) /\ \A u \in Users : inv.count[u] <= MaxChannels
  BY DEF InvitesInv
<1>3. ListsOK(inv')
  BY <1>2 DEF ListsOK, Invited
<1> QED
  BY <1>1, <1>2, <1>3 DEF InvitesInv

(* Whoever leaves the network loses the invitations it had.                *)
LEMMA ExitInvites ==
  ASSUME InvitesInv, NEW S, exit_one_client(S)
  PROVE  InvitesInv'
<1> DEFINE v == mode_invite_clear(inv, Freed)
<1>1. /\ online' = online \ S
      /\ inv'.byChan = [c \in Channels |-> v.byChan[c] \ S]
      /\ inv'.byUser = [u \in Users |-> IF u \in S THEN <<>> ELSE v.byUser[u]]
      /\ inv'.count = [u \in Users |-> IF u \in S
                          THEN v.count[u] - Cardinality({c \in Channels : u \in v.byChan[c]})
                          ELSE v.count[u]]
  BY DEF exit_one_client
<1>2. ListsOK(inv) /\ Freed \in SUBSET Channels
  BY DEF InvitesInv, Freed
<1>3. /\ ListsOK(v)
      /\ \A x \in Users : v.count[x] <= inv.count[x]
      /\ \A d \in Channels : v.byChan[d] = IF d \in Freed THEN {} ELSE inv.byChan[d]
  BY <1>2, ClearOK
<1> HIDE DEF v
<1>4. /\ v.byChan \in [Channels -> SUBSET Users]
      /\ v.byUser \in [Users -> Seq(Channels)]
      /\ v.count \in [Users -> Nat]
      /\ inv.count \in [Users -> Nat]
  BY <1>2, <1>3 DEF ListsOK
<1>5. <<>> \in Seq(Channels) /\ Len(<<>>) = 0 /\ Injective(<<>>) /\ Elements(<<>>) = {}
  BY DEF Injective, Elements
<1>6. ASSUME NEW u \in Users
      PROVE  /\ inv'.byUser[u] \in Seq(Channels)
             /\ inv'.count[u] \in Nat
             /\ Injective(inv'.byUser[u])
             /\ Elements(inv'.byUser[u]) = Invited(inv', u)
             /\ inv'.count[u] = Len(inv'.byUser[u])
             /\ inv'.count[u] <= inv.count[u]
  <2>1. Injective(v.byUser[u]) /\ Elements(v.byUser[u]) = Invited(v, u)
        /\ v.count[u] = Len(v.byUser[u]) /\ v.byUser[u] \in Seq(Channels)
        /\ v.count[u] \in Nat /\ inv.count[u] \in Nat /\ v.count[u] <= inv.count[u]
    BY <1>3, <1>4 DEF ListsOK
  <2>2. CASE u \in S
    <3>1. inv'.byUser[u] = <<>> /\ inv'.count[u] = v.count[u] - Cardinality(Invited(v, u))
      BY <1>1, <2>2 DEF Invited
    <3>2. Len(v.byUser[u]) = Cardinality(Invited(v, u))
      BY <2>1, LenIsCardinality
    <3>3. inv'.count[u] = 0
      BY <2>1, <3>1, <3>2
    <3>4. Invited(inv', u) = {}
      BY <1>1, <2>2 DEF Invited
    <3> QED
      BY <1>5, <2>1, <3>1, <3>3, <3>4
  <2>3. CASE u \notin S
    <3>1. inv'.byUser[u] = v.byUser[u] /\ inv'.count[u] = v.count[u]
      BY <1>1, <2>3
    <3>2. Invited(inv', u) = Invited(v, u)
      BY <1>1, <2>3 DEF Invited
    <3> QED
      BY <2>1, <3>1, <3>2
  <2> QED
    BY <2>2, <2>3
<1>7. inv'.byChan \in [Channels -> SUBSET Users]
  BY <1>1, <1>4
<1>8. inv'.byUser = [u \in Users |-> inv'.byUser[u]] /\ inv'.count = [u \in Users |-> inv'.count[u]]
  BY <1>1
<1>9. inv'.byUser \in [Users -> Seq(Channels)] /\ inv'.count \in [Users -> Nat]
  BY <1>6, <1>8
<1>10. ListsOK(inv')
  BY <1>6, <1>7, <1>9 DEF ListsOK
<1>11. \A u \in Users, c \in Channels :
          u \in inv'.byChan[c] => u \in inv.byChan[c] /\ c \notin Freed /\ u \notin S
  BY <1>1, <1>3
<1>12. \A u \in Users, c \in Channels :
          u \in inv'.byChan[c] /\ chan[c].alive /\ u \in online => chan'[c].alive /\ u \in online'
  BY <1>1, <1>11 DEF Freed
<1> QED
  BY <1>6, <1>10, <1>11, <1>12, FewerInvites

(* An invitation to a channel that exists, for a client that is online.    *)
LEMMA AddInviteInv ==
  ASSUME InvitesInv, NEW u \in Users, NEW c \in Channels,
         u \in online, chan[c].alive, inv' = add_invite(inv, u, c),
         UNCHANGED <<online, chan>>
  PROVE  InvitesInv'
<1>1. ListsOK(inv) /\ (\A x \in Users : inv.count[x] <= MaxChannels)
      /\ \A x \in Users, d \in Channels : x \in inv.byChan[d] => chan[d].alive /\ x \in online
  BY DEF InvitesInv
<1>2. /\ ListsOK(inv')
      /\ \A x \in Users : inv'.count[x] <= MaxChannels
      /\ \A d \in Channels : inv'.byChan[d] \subseteq inv.byChan[d] \cup {x \in {u} : d = c}
  BY <1>1, AddInviteOK
<1>3. \A x \in Users, d \in Channels : x \in inv'.byChan[d] => chan'[d].alive /\ x \in online'
  BY <1>1, <1>2
<1> QED
  BY <1>2, <1>3 DEF InvitesInv

(* A step that clears the invitations of some channels and frees none.     *)
LEMMA ClearInvites ==
  ASSUME InvitesInv, NEW C \in SUBSET Channels, inv' = mode_invite_clear(inv, C),
         online' = online, \A c \in Channels : chan[c].alive => chan'[c].alive
  PROVE  InvitesInv'
<1>1. ListsOK(inv)
  BY DEF InvitesInv
<1>2. /\ ListsOK(inv')
      /\ \A x \in Users : inv'.count[x] <= inv.count[x]
      /\ \A d \in Channels : inv'.byChan[d] = IF d \in C THEN {} ELSE inv.byChan[d]
  BY <1>1, ClearOK
<1> QED
  BY <1>2, FewerInvites

(* At the start nobody is invited.                                         *)
LEMMA InitInvites == Init => InvitesInv
<1> SUFFICES ASSUME Init PROVE InvitesInv
  OBVIOUS
<1>1. <<>> \in Seq(Channels) /\ Len(<<>>) = 0 /\ Injective(<<>>) /\ Elements(<<>>) = {}
  BY DEF Injective, Elements
<1>2. /\ inv.byChan = [c \in Channels |-> {}]
      /\ inv.byUser = [u \in Users |-> <<>>]
      /\ inv.count = [u \in Users |-> 0]
  BY DEF Init
<1>3. \A u \in Users : Invited(inv, u) = {}
  BY <1>2 DEF Invited
<1>4. ListsOK(inv)
  <2>1. /\ inv.byChan \in [Channels -> SUBSET Users]
        /\ inv.byUser \in [Users -> Seq(Channels)]
        /\ inv.count \in [Users -> Nat]
    BY <1>1, <1>2
  <2>2. \A u \in Users : inv.byUser[u] = <<>> /\ inv.count[u] = 0
    BY <1>2
  <2>3. \A u \in Users : /\ Injective(inv.byUser[u])
                         /\ Elements(inv.byUser[u]) = Invited(inv, u)
                         /\ inv.count[u] = Len(inv.byUser[u])
    BY <1>1, <1>3, <2>2
  <2> QED
    BY <2>1, <2>3 DEF ListsOK
<1>5. \A u \in Users : inv.count[u] <= MaxChannels
  BY <1>2, MembersAssumption
<1> QED
  BY <1>2, <1>4, <1>5 DEF InvitesInv

(* A local user joins: its invitation is used up and the channel exists.   *)
LEMMA JoinInvites ==
  ASSUME IInv, InvitesInv, NEW u \in Users, NEW c \in Channels, m_join(u, c)
  PROVE  InvitesInv'
<1> DEFINE k == chan[c]
           b == ~k.alive
           g == get_channel(k)
           r == add_user_to_channel(g, u, b)
<1>1. /\ chan' = [chan EXCEPT ![c] = r] /\ chan \in [Channels -> ChannelRec]
      /\ inv' = del_invite(inv, u, c)
      /\ online' = online /\ u \notin k.member /\ ChanOK(k) /\ b \in BOOLEAN
  BY DEF m_join, IInv, Good
<1> HIDE DEF b, k
<1>2. ChanOK(g) /\ g.alive /\ g.member = k.member
  BY <1>1, GetChannelOK
<1> HIDE DEF g
<1>3. r.alive
  BY <1>1, <1>2, AddUserOK
<1> HIDE DEF r
<1>4. \A d \in Channels : chan[d].alive => chan'[d].alive
  BY <1>1, <1>3
<1>5. ListsOK(inv)
  BY DEF InvitesInv
<1>6. /\ ListsOK(inv')
      /\ \A x \in Users : inv'.count[x] <= inv.count[x]
      /\ \A d \in Channels : inv'.byChan[d] \subseteq inv.byChan[d]
  BY <1>1, <1>5, DelInviteOK
<1> QED
  BY <1>1, <1>4, <1>6, FewerInvites

(* CREATE adds a client to a channel that exists then.                     *)
LEMMA CreateInvites ==
  ASSUME IInv, InvitesInv, NEW u \in Users, NEW c \in Channels, NEW b \in BOOLEAN,
         ms_create(u, c, b)
  PROVE  InvitesInv'
<1> DEFINE k == chan[c]
           p == ~b
           g == get_channel(k)
           r == add_user_to_channel(g, u, p)
<1>1. /\ chan' = [chan EXCEPT ![c] = r] /\ chan \in [Channels -> ChannelRec]
      /\ inv' = inv /\ online' = online /\ u \notin k.member /\ ChanOK(k) /\ p \in BOOLEAN
  BY DEF ms_create, IInv, Good
<1> HIDE DEF p, k
<1>2. ChanOK(g) /\ g.alive /\ g.member = k.member
  BY <1>1, GetChannelOK
<1> HIDE DEF g
<1>3. r.alive
  BY <1>1, <1>2, AddUserOK
<1> HIDE DEF r
<1>4. \A d \in Channels : chan[d].alive => chan'[d].alive
  BY <1>1, <1>3
<1> QED
  BY <1>1, <1>4, SameInvites

(* BURST clears the invitations of a channel it overrides, and leaves no   *)
(* channel dead.                                                           *)
LEMMA BurstInvites ==
  ASSUME IInv, InvitesInv, NEW l \in Links, NEW c \in Channels, NEW ts, NEW netride \in BOOLEAN,
         NEW ridden \in SUBSET Local, NEW z \in BOOLEAN,
         NEW J \in SUBSET Remote, NEW opJ \in SUBSET Remote,
         ms_burst(l, c, ts, netride, ridden, z, J, opJ)
  PROVE  InvitesInv'
<1> DEFINE k == chan[c]
           older == ~k.alive \/ ts = "older"
           k0 == get_channel(k)
           k1 == IF older THEN BurstKick(k0, ridden) ELSE k
           fresh == ~k.alive \/ ~k1.alive
           k2 == get_channel(k1)
           set == older \/ ts = "equal"
           k3 == [k2 EXCEPT
                    !.burstAdded = @ \/ fresh,
                    !.persist = IF older THEN z ELSE @ \/ (set /\ z),
                    !.op = (IF older THEN {} ELSE @)
                               \cup (IF set THEN opJ ELSE {}),
                    !.member = @ \cup J,
                    !.users = (@ + Cardinality(J)) % UINT]
<1>1. /\ chan' = [chan EXCEPT ![c] = k3] /\ chan \in [Channels -> ChannelRec]
      /\ online' = online /\ ChanOK(k)
      /\ inv' = inv \/ inv' = mode_invite_clear(inv, {c})
  BY DEF ms_burst, IInv, Good
<1> HIDE DEF k, older, fresh, set
<1>2. ChanOK(k0)
  BY <1>1, GetChannelOK
<1> HIDE DEF k0
<1>3. ChanOK(k1)
  BY <1>1, <1>2, RemoveUsersOK DEF BurstKick
<1> HIDE DEF k1
<1>4. k2.alive /\ k2 \in ChannelRec
  BY <1>3, GetChannelOK DEF ChanOK
<1> HIDE DEF k2
<1>5. k3.alive
  BY <1>4 DEF ChannelRec
<1> HIDE DEF k3
<1>6. \A d \in Channels : chan[d].alive => chan'[d].alive
  BY <1>1, <1>5
<1> QED
  BY <1>1, <1>6, SameInvites, ClearInvites

(* Every action preserves the invariant of the invitations.                *)
LEMMA NextInvites == IInv /\ InvitesInv /\ [Next]_vars => InvitesInv'
<1> SUFFICES ASSUME IInv, InvitesInv, [Next]_vars PROVE InvitesInv'
  OBVIOUS
<1>0. chan \in [Channels -> ChannelRec] /\ \A c \in Channels : ChanOK(chan[c])
  BY DEF IInv, Good
<1>1. ASSUME NEW u \in Users, UserArrives(u) PROVE InvitesInv'
  BY <1>1, SameInvites DEF UserArrives
<1>2. ASSUME NEW u \in Users, Quit(u) PROVE InvitesInv'
  BY <1>2, ExitInvites DEF Quit
<1>3. ASSUME NEW l \in Links, Squit(l) PROVE InvitesInv'
  BY <1>3, ExitInvites DEF Squit
<1>4. ASSUME NEW u \in Users, join0(u) PROVE InvitesInv'
  BY <1>4, DropFreedInv DEF join0
<1>5. ASSUME NEW u \in Users, NEW c \in Channels, ms_join(u, c) PROVE InvitesInv'
  BY <1>5, DropFreedInv DEF ms_join
<1>6. ASSUME NEW u \in Users, NEW c \in Channels, Part(u, c) PROVE InvitesInv'
  BY <1>6, DropFreedInv DEF Part
<1>7. ASSUME NEW s \in Users, NEW u \in Users, NEW c \in Channels, m_kick(s, u, c)
      PROVE  InvitesInv'
  BY <1>7, DropFreedInv DEF m_kick
<1>8. ASSUME NEW l \in Links, NEW src, NEW below \in BOOLEAN,
             NEW u \in Users, NEW c \in Channels, ms_kick(l, src, below, u, c)
      PROVE  InvitesInv'
  BY <1>8, DropFreedInv DEF ms_kick
<1>9. ASSUME NEW u \in Users, NEW c \in Channels, NEW b \in BOOLEAN, ModeOp(u, c, b)
      PROVE  InvitesInv'
  <2>1. online' = online /\ inv' = inv
        /\ chan' = [chan EXCEPT ![c].op = IF b THEN @ \cup {u} ELSE @ \ {u}]
    BY <1>9 DEF ModeOp
  <2>2. \A d \in Channels : chan[d].alive => chan'[d].alive
    BY <1>0, <2>1 DEF ChannelRec
  <2> QED
    BY <2>1, <2>2, SameInvites
<1>10. ASSUME NEW c \in Channels, NEW b \in BOOLEAN, ModePersist(c, b) PROVE InvitesInv'
  <2>1. online' = online /\ inv' = inv /\ chan' = [chan EXCEPT ![c].persist = b]
    BY <1>10 DEF ModePersist
  <2>2. \A d \in Channels : chan[d].alive => chan'[d].alive
    BY <1>0, <2>1 DEF ChannelRec
  <2> QED
    BY <2>1, <2>2, SameInvites
<1>11. ASSUME NEW c \in Channels, ModeNoInviteOnly(c) PROVE InvitesInv'
  BY <1>11, ClearInvites DEF ModeNoInviteOnly
<1>12. ASSUME NEW u \in Users, NEW c \in Channels, ms_invite(u, c) PROVE InvitesInv'
  BY <1>12, AddInviteInv DEF ms_invite
<1>13. ASSUME NEW s \in Users, NEW u \in Users, NEW c \in Channels, m_invite(s, u, c)
       PROVE  InvitesInv'
  <2>1. chan[c].alive
    BY <1>0, <1>13 DEF m_invite, is_chan_op, find_channel_member, ChanOK, NoChannel
  <2>2. CASE u \in Local
    BY <1>13, <2>1, <2>2, AddInviteInv DEF m_invite
  <2>3. CASE u \notin Local
    <3>1. online' = online /\ chan' = chan /\ inv' = inv
      BY <1>13, <2>3 DEF m_invite
    <3> QED
      BY <3>1, SameInvites
  <2> QED
    BY <2>2, <2>3
<1>14. ASSUME ms_end_of_burst PROVE InvitesInv'
  BY <1>14, DropFreedInv DEF ms_end_of_burst
<1>15. CASE UNCHANGED vars
  BY <1>15, SameInvites DEF vars
<1> QED
  BY <1>1, <1>2, <1>3, <1>4, <1>5, <1>6, <1>7, <1>8, <1>9, <1>10, <1>11, <1>12,
     <1>13, <1>14, <1>15, JoinInvites, CreateInvites, BurstInvites DEF Next

(* The lists that add_invite, del_invite, the end of a channel and the end *)
(* of a client edit from two sides mirror each other on every network, the *)
(* counter is their length and it never passes FEAT_MAXCHANNELSPERUSER.    *)
THEOREM InvitesMirrorHolds == Spec => []InvitesMirror
<1>1. InvitesInv => InvitesMirror
  <2> SUFFICES ASSUME InvitesInv, NEW u \in Users
               PROVE  /\ inv.count[u] = Len(inv.byUser[u])
                      /\ inv.count[u] <= MaxChannels
                      /\ \A c \in Channels :
                            /\ u \in inv.byChan[c] <=>
                                  \E i \in DOMAIN inv.byUser[u] : inv.byUser[u][i] = c
                            /\ u \in inv.byChan[c] => chan[c].alive /\ u \in online
    BY DEF InvitesMirror
  <2>1. inv.count[u] = Len(inv.byUser[u]) /\ inv.count[u] <= MaxChannels
        /\ inv.byUser[u] \in Seq(Channels) /\ Elements(inv.byUser[u]) = Invited(inv, u)
    BY DEF InvitesInv, ListsOK
  <2>2. DOMAIN inv.byUser[u] = 1..Len(inv.byUser[u])
    BY <2>1, LenProperties
  <2>3. \A c \in Channels : u \in inv.byChan[c] <=>
                               \E i \in DOMAIN inv.byUser[u] : inv.byUser[u][i] = c
    BY <2>1, <2>2 DEF Elements, Invited
  <2> QED
    BY <2>1, <2>3 DEF InvitesInv
<1> QED
  BY <1>1, InitInv, NextInv, InitInvites, NextInvites, PTL DEF Spec

(* Every variable keeps its type: a channel's count never leaves its width *)
(* and the counters of invitations are numbers.                            *)
THEOREM TypeOKHolds == Spec => []TypeOK
<1>1. IInv /\ InvitesInv => TypeOK
  <2> SUFFICES ASSUME IInv, InvitesInv PROVE TypeOK
    OBVIOUS
  <2>1. /\ inv.byChan \in [Channels -> SUBSET Users]
        /\ inv.byUser \in [Users -> Seq(Channels)]
        /\ inv.count \in [Users -> Nat]
    BY DEF InvitesInv, ListsOK
  <2>2. inv.count \in [Users -> Int]
    BY <2>1
  <2> QED
    BY <2>1, <2>2 DEF TypeOK, IInv
<1> QED
  BY <1>1, InitInv, NextInv, InitInvites, NextInvites, PTL DEF Spec
=============================================================================
