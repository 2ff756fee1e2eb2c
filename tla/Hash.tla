-------------------------------- MODULE Hash --------------------------------
(***************************************************************************)
(* The tables of clients and channels by name (hash.c) and the code that   *)
(* keeps a client in the chain of its name: NICK, register_user, remote    *)
(* introductions, connect_server, SERVER and exit_one_client.  A chain is  *)
(* linked through the objects themselves, so an object that is added twice,*)
(* or removed under another name than it was added under, ruins it.        *)
(*                                                                         *)
(* Then the tables of users by numeric (numnicks.c).  Our server gives its *)
(* users numerics and tells a neighbour, which keeps them in an array of   *)
(* its own; both only use the bits of a numeric that the mask of our       *)
(* server selects.  Users come, leave and are killed by the neighbour      *)
(* while news of them is on the way, and the link breaks and comes back.   *)
(***************************************************************************)
EXTENDS Naturals, Sequences, FiniteSets

CONSTANTS
    Clients,     \* memory for struct Client
    Channels,    \* memory for struct Channel
    Nicks, ServerNames, ChannelNames,
    Juped,       \* the nicks a REHASH may jupe, in the order of the file
    JupeMax,     \* JUPEMAX
    Buckets,     \* 0 .. HASHSIZE - 1
    Bucket,      \* the bucket of a name
    Users,       \* users with numerics
    Base,        \* 64, the values of a character of a numeric
    Digits,      \* the characters of a user's numeric, 3
    FirstSize,   \* 16, the smallest size of the array
    Capacity,    \* MAXCLIENTS
    MaxConnects, \* bound: users that connect
    MaxSplits,   \* bound: times the link breaks
    Nil

VARIABLE s

Empty == [head |-> [b \in Buckets |-> Nil], next |-> [o \in Clients \cup Channels |-> Nil]]

(* A random table is made at start; after that the hash of a name is fixed.*)
init_hash == Bucket
strhash(n) == init_hash[n]

Prepend(t, b, o) == [head |-> [t.head EXCEPT ![b] = o], next |-> [t.next EXCEPT ![o] = t.head[b]]]

(* The objects from o on, in the order they are met; the walk of a chain   *)
(* that runs into itself is cut.                                           *)
Walk(t, o) ==
    LET at[k \in 0 .. Cardinality(DOMAIN t.next)] ==
            IF k = 0 THEN o ELSE IF at[k - 1] = Nil THEN Nil ELSE t.next[at[k - 1]]
    IN  SelectSeq([k \in 1 .. Cardinality(DOMAIN t.next) + 1 |-> at[k - 1]], LAMBDA x : x # Nil)

Chain(t, b) == Walk(t, t.head[b])

(* An object that is not found is left alone.                              *)
Unlink(t, b, o) ==
    IF t.head[b] = o
    THEN [head |-> [t.head EXCEPT ![b] = t.next[o]], next |-> [t.next EXCEPT ![o] = o]]
    ELSE LET before == SelectSeq(Chain(t, b), LAMBDA p : t.next[p] = o)
         IN  IF before = <<>> THEN t
             ELSE [t EXCEPT !.next = [@ EXCEPT ![before[1]] = t.next[o], ![o] = o]]

(* The first object of the chain that fits, which moves to the front.      *)
Seek(t, b, Fits(_)) ==
    LET fit == SelectSeq(Chain(t, b), Fits)
    IN  IF fit = <<>> THEN [found |-> Nil, table |-> t]
        ELSE IF t.head[b] = fit[1] THEN [found |-> fit[1], table |-> t]
        ELSE LET prev == SelectSeq(Chain(t, b), LAMBDA p : t.next[p] = fit[1])[1]
             IN  [found |-> fit[1],
                  table |-> [head |-> [t.head EXCEPT ![b] = fit[1]],
                             next |-> [t.next EXCEPT ![prev] = t.next[fit[1]], ![fit[1]] = t.head[b]]]]

hAddClient(t, c) == [t EXCEPT !.clientTable = Prepend(@, strhash(t.name[c]), c)]
hRemClient(t, c) ==
    IF t.name[c] = "" THEN t ELSE [t EXCEPT !.clientTable = Unlink(@, strhash(t.name[c]), c)]

(* Mutant: the old place is left to the caller.                            *)
hChangeClient_kept(t, c, n) == [t EXCEPT !.clientTable = Prepend(@, strhash(n), c)]

(* The client is in the chain of its new name before it has it.            *)
hChangeClient(t, c, n) == [hRemClient(t, c) EXCEPT !.clientTable = Prepend(@, strhash(n), c)]

hSeekClient(t, n, Status) ==
    LET r == Seek(t.clientTable, strhash(n), LAMBDA c : t.name[c] = n /\ t.status[c] \in Status)
    IN  [found |-> r.found, s |-> [t EXCEPT !.clientTable = r.table]]

hAddChannel(t, c) == [t EXCEPT !.channelTable = Prepend(@, strhash(t.chname[c]), c)]
hRemChannel(t, c) == [t EXCEPT !.channelTable = Unlink(@, strhash(t.chname[c]), c)]
hSeekChannel(t, n) ==
    LET r == Seek(t.channelTable, strhash(n), LAMBDA c : t.chname[c] = n)
    IN  [found |-> r.found, s |-> [t EXCEPT !.channelTable = r.table]]

Unknown == {"unknown user", "unknown server"}
Status  == {"free", "connecting", "handshake", "user", "server"} \cup Unknown
FindClient(t, n) == hSeekClient(t, n, Status)
FindUser(t, n)   == hSeekClient(t, n, {"user"})
FindServer(t, n) == hSeekClient(t, n, {"server"})

Init ==
    s = [clientTable |-> Empty, channelTable |-> Empty,
         name |-> [c \in Clients |-> ""], status |-> [c \in Clients |-> "free"],
         chname |-> [c \in Channels |-> ""], nickJupes |-> {}]

-----------------------------------------------------------------------------
(* Reserved nicks: a table with a limit, filled and emptied as a whole.    *)
isNickJuped(n) == n \in s.nickJupes

addNickJupes(have, nicks) ==
    LET With(i) == have \cup {nicks[j] : j \in 1 .. i}
    IN  have \cup {nicks[i] : i \in {i \in DOMAIN nicks : Cardinality(With(i)) <= JupeMax}}

clearNickJupes == {}

rehash == \E n \in 0 .. Len(Juped) :
    s' = [s EXCEPT !.nickJupes = addNickJupes(clearNickJupes, SubSeq(Juped, 1, n))]

-----------------------------------------------------------------------------
(* exit_one_client and free_client; memory that is used again is cleared.  *)
exit_client(t, c) ==
    [hRemClient(t, c) EXCEPT !.clientTable.next[c] = Nil, !.status[c] = "free", !.name[c] = ""]

Exit(c) == s.status[c] # "free" /\ s' = exit_client(s, c)

add_connection(c, port) ==
    /\ s.status[c] = "free"
    /\ s' = [s EXCEPT !.status[c] = port]

(* set_nick_name: the first nick of a connection, or another one.          *)
set_nick_name(t, c, n) ==
    hAddClient([hRemClient(t, c) EXCEPT !.name[c] = n], c)

(* NICK without the question of what port the connection came in on, which *)
(* is what keeps a server from being hashed twice.                         *)
NickFromUserPort(c, n) ==
    /\ s.status[c] \in {"unknown user", "user"}
    /\ ~isNickJuped(n)
    /\ LET f == FindClient(s, n)
       IN  s' = IF f.found = Nil THEN set_nick_name(f.s, c, n)
                ELSE IF f.found # c /\ s.status[f.found] \in Unknown
                THEN set_nick_name(exit_client(f.s, f.found), c, n)
                ELSE f.s

(* NICK of a local connection.  Connections to a server port are closed;   *)
(* a nick that an unregistered connection holds is taken from it.          *)
m_nick(c, n) ==
    \/ s.status[c] = "unknown server" /\ s' = exit_client(s, c)
    \/ s.status[c] # "unknown server" /\ NickFromUserPort(c, n)

register_user(c) ==
    /\ s.status[c] = "unknown user" /\ s.name[c] # ""
    /\ s' = [s EXCEPT !.status[c] = "user"]

(* A server introduces a user; who holds the nick is dealt with in module  *)
(* Nick, here the older one goes.                                          *)
ms_nick(c, n) ==
    /\ s.status[c] = "free"
    /\ LET f == FindClient(s, n)
           t == IF f.found = Nil THEN f.s ELSE exit_client(f.s, f.found)
       IN  s' = [set_nick_name(t, c, n) EXCEPT !.status[c] = "user"]

-----------------------------------------------------------------------------
(* A connection to server n is started unless one exists or is being made. *)
connect_server(c, n) ==
    /\ s.status[c] = "free"
    /\ LET f == FindClient(s, n)
       IN  s' = IF f.found # Nil /\ s.status[f.found] \in {"server", "handshake", "connecting"} THEN f.s
                ELSE [hAddClient([f.s EXCEPT !.name[c] = n], c) EXCEPT !.status[c] = "connecting"]

completed_connection(c) ==
    /\ s.status[c] = "connecting"
    /\ s' = [s EXCEPT !.status[c] = "handshake"]

(* What server n, announced by c, finds of its name: its own handshake, a  *)
(* connection that is being made or an older link, which go, or a name     *)
(* that is not a server's.                                                 *)
check_loop_and_lh(t, c, n) ==
    LET f == FindClient(t, n)
    IN  IF f.found \in {Nil, c} THEN [ok |-> TRUE, s |-> f.s]
        ELSE IF t.status[f.found] \in Unknown THEN [ok |-> FALSE, s |-> f.s]
        ELSE [ok |-> TRUE, s |-> exit_client(f.s, f.found)]

(* A connection that we made is in the table already.                      *)
server_estab(t, c) ==
    [(IF t.status[c] = "handshake" THEN t ELSE hAddClient(t, c)) EXCEPT !.status[c] = "server"]

(* SERVER from a connection that is not one yet.  A name it had before is  *)
(* replaced in the table; a refused connection is closed.                  *)
mr_server(c, n) ==
    \/ s.status[c] = "unknown user" /\ s' = exit_client(s, c)
    \/ /\ s.status[c] \in {"unknown server", "handshake"}
       /\ LET t == IF s.name[c] # "" /\ s.name[c] # n THEN hChangeClient(s, c, n) ELSE s
              r == check_loop_and_lh([t EXCEPT !.name[c] = n], c, n)
          IN  \/ s' = exit_client([t EXCEPT !.name[c] = n], c)
              \/ s' = IF r.ok THEN server_estab(r.s, c) ELSE exit_client(r.s, c)

ms_server(c, n) ==
    /\ s.status[c] = "free"
    /\ LET r == check_loop_and_lh(s, c, n)
       IN  s' = IF ~r.ok THEN r.s
                ELSE [hAddClient([r.s EXCEPT !.name[c] = n], c) EXCEPT !.status[c] = "server"]

-----------------------------------------------------------------------------
get_channel(c, n) ==
    /\ s.chname[c] = ""
    /\ LET f == hSeekChannel(s, n)
       IN  s' = IF f.found # Nil THEN f.s ELSE hAddChannel([f.s EXCEPT !.chname[c] = n], c)

destruct_channel(c) ==
    /\ s.chname[c] # ""
    /\ s' = [hRemChannel(s, c) EXCEPT !.channelTable.next[c] = Nil, !.chname[c] = ""]

Lookup ==
    \/ \E n \in Nicks \cup ServerNames : s' \in {FindUser(s, n).s, FindServer(s, n).s}
    \/ \E n \in ChannelNames : s' = hSeekChannel(s, n).s

Next ==
    \/ \E c \in Clients :
         \/ Exit(c) \/ register_user(c) \/ completed_connection(c)
         \/ \E port \in Unknown : add_connection(c, port)
         \/ \E n \in Nicks : m_nick(c, n) \/ ms_nick(c, n)
         \/ \E n \in ServerNames : connect_server(c, n) \/ mr_server(c, n) \/ ms_server(c, n)
    \/ \E c \in Channels : destruct_channel(c) \/ \E n \in ChannelNames : get_channel(c, n)
    \/ rehash
    \/ Lookup

Spec == Init /\ [][Next]_s

-----------------------------------------------------------------------------
(* Every client that has been named, and every channel, is in the chain of *)
(* its name exactly once, and nothing else is in a chain: through renames, *)
(* SERVER under another name than was connected to, exits between any two  *)
(* steps and lookups that reorder the chains.  In particular chains end.   *)
Hashed(c) == s.name[c] # "" /\ ~(s.status[c] = "unknown server")
TablesExact ==
    \A b \in Buckets :
        LET cl == Chain(s.clientTable, b)
            ch == Chain(s.channelTable, b)
        IN  /\ \A i, j \in DOMAIN cl : cl[i] = cl[j] => i = j
            /\ {cl[i] : i \in DOMAIN cl} = {c \in Clients : Hashed(c) /\ Bucket[s.name[c]] = b}
            /\ \A i, j \in DOMAIN ch : ch[i] = ch[j] => i = j
            /\ {ch[i] : i \in DOMAIN ch} = {c \in Channels : s.chname[c] # "" /\ Bucket[s.chname[c]] = b}

-----------------------------------------------------------------------------
(* Numeric nicks                                                           *)
NN_MAX_CLIENT == Base ^ Digits

inttobase64(v, n) == [i \in 1 .. n |-> (v \div Base ^ (n - i)) % Base]

base64toint(d) ==
    LET val[i \in 0 .. Len(d)] == IF i = 0 THEN 0 ELSE val[i - 1] * Base + d[i]
    IN  val[Len(d)]

(* The size of the array is the first power of two that is large enough.   *)
SetYXXCapacity(capacity) ==
    LET size[i \in 0 .. capacity] == IF i = 0 THEN FirstSize ELSE 2 * size[i - 1]
    IN  CHOOSE m \in {size[i] - 1 : i \in 0 .. capacity} :
            /\ m + 1 >= capacity
            /\ \A i \in 0 .. capacity : size[i] >= capacity => m <= size[i] - 1

NoClients(mask) == [i \in 0 .. mask |-> Nil]

(* The name of our server, its capacity and an array for its users.        *)
SetServerYXX(t, d) ==
    [t EXCEPT !.known = TRUE, !.nn_mask = base64toint(d),
              !.remote_list = NoClients(base64toint(d))]
ClearServerYXX(t) == [t EXCEPT !.known = FALSE, !.remote_list = NoClients(t.nn_mask)]

(* nn_mask + 1 is a power of two, so & nn_mask takes the remainder.        *)
Slot(mask, d) == base64toint(d) % (mask + 1)

(* A user of our server as we, and as the neighbour, find it by numeric.   *)
findNUser(list, mask, d) == list[Slot(mask, d)]
RemoveYXXClient(list, mask, d) == [list EXCEPT ![Slot(mask, d)] = Nil]

N(u, d) == [type |-> "N", user |-> u, yxx |-> d]
Q(d)    == [type |-> "Q", yxx |-> d]
D(d)    == [type |-> "D", yxx |-> d]

Mask == SetYXXCapacity(Capacity)

NumericsInit ==
    s = [client_list |-> NoClients(Mask), last_nn |-> 0, yxx |-> [u \in Users |-> <<>>],
         known |-> TRUE, nn_mask |-> Mask, remote_list |-> NoClients(Mask),
         there |-> <<>>, back |-> <<>>, connects |-> 0, splits |-> 0]

Tell(t, m) == IF t.known THEN [t EXCEPT !.there = Append(@, m)] ELSE t

-----------------------------------------------------------------------------
(* Numerics are given in a circle of all values, past those in use.  With  *)
(* every slot taken the user gets none, which register_user does not look  *)
(* at: at most Mask + 1 users keep that out of the model.                  *)
SetLocalNumNick(t, u) ==
    LET Free(k) == t.client_list[((t.last_nn + k) % NN_MAX_CLIENT) % (Mask + 1)] = Nil
        skip    == CHOOSE k \in 0 .. Mask : Free(k) /\ \A j \in 0 .. k - 1 : ~Free(j)
        nn      == (t.last_nn + skip) % NN_MAX_CLIENT
    IN  IF ~\E k \in 0 .. Mask : Free(k)
        THEN [t EXCEPT !.last_nn = (@ + NN_MAX_CLIENT - 1) % NN_MAX_CLIENT]
        ELSE [t EXCEPT !.client_list[nn % (Mask + 1)] = u,
                       !.yxx[u] = inttobase64(nn, Digits),
                       !.last_nn = (nn + 1) % NN_MAX_CLIENT]

Connect(u) ==
    /\ s.yxx[u] = <<>>
    /\ s.connects < MaxConnects
    /\ LET t == SetLocalNumNick(s, u)
       IN  s' = Tell([t EXCEPT !.connects = @ + 1], N(u, t.yxx[u]))

exit_user(t, u) ==
    [t EXCEPT !.client_list = RemoveYXXClient(@, Mask, t.yxx[u]), !.yxx[u] = <<>>]

Quit(u) ==
    /\ s.yxx[u] # <<>>
    /\ s' = Tell(exit_user(s, u), Q(s.yxx[u]))

(* A KILL from the neighbour removes who has the slot now; the neighbour   *)
(* is told, since that may be someone it has yet to hear of.               *)
ms_kill(t, d) ==
    LET u == findNUser(t.client_list, Mask, d)
    IN  IF u = Nil THEN t ELSE exit_user(Tell(t, D(t.yxx[u])), u)

ReadBack ==
    /\ s.back # <<>>
    /\ s' = ms_kill([s EXCEPT !.back = Tail(@)], Head(s.back).yxx)

-----------------------------------------------------------------------------
(* The neighbour: a user whose slot is taken replaces who was there.       *)
SetRemoteNumNick(t, u, d) == [t EXCEPT !.remote_list[Slot(t.nn_mask, d)] = [user |-> u, yxx |-> d]]

ReadThere ==
    /\ s.there # <<>>
    /\ LET m == Head(s.there)
           t == [s EXCEPT !.there = Tail(@)]
       IN  s' = IF m.type = "N" THEN SetRemoteNumNick(t, m.user, m.yxx)
                ELSE [t EXCEPT !.remote_list = RemoveYXXClient(@, t.nn_mask, m.yxx)]

Kill(i) ==
    /\ s.known /\ i \in DOMAIN s.remote_list /\ s.remote_list[i] # Nil
    /\ s' = [s EXCEPT !.remote_list[i] = Nil, !.back = Append(@, D(s.remote_list[i].yxx))]

Split ==
    /\ s.known /\ s.splits < MaxSplits
    /\ s' = [ClearServerYXX(s) EXCEPT !.there = <<>>, !.back = <<>>, !.splits = @ + 1]

(* The server is introduced with its capacity, then its users.             *)
Burst(t) ==
    LET on == {u \in Users : t.yxx[u] # <<>>}
        order == CHOOSE f \in [1 .. Cardinality(on) -> on] : \A u \in on : \E i \in DOMAIN f : f[i] = u
    IN  [t EXCEPT !.there = [i \in 1 .. Cardinality(on) |-> N(order[i], t.yxx[order[i]])]]

Relink == ~s.known /\ s' = Burst(SetServerYXX(s, inttobase64(Mask, Digits)))

NumericsNext ==
    \/ \E u \in Users : Connect(u) \/ Quit(u)
    \/ \E i \in 0 .. Mask : Kill(i)
    \/ ReadBack \/ ReadThere \/ Split \/ Relink

-----------------------------------------------------------------------------
(* A user is found by the numeric it was given for as long as it is here,  *)
(* and once nothing is on the way the neighbour has just our users, each   *)
(* in the slot of its numeric: although numerics of users that left are    *)
(* given out again while news of them, or kills for them, are on the way.  *)
NumericsAgree ==
    /\ \A u \in Users : s.yxx[u] # <<>> => findNUser(s.client_list, Mask, s.yxx[u]) = u
    /\ \A i \in 0 .. Mask : s.client_list[i] # Nil => s.yxx[s.client_list[i]] # <<>>
    /\ s.known /\ s.there = <<>> /\ s.back = <<>> =>
         \A i \in 0 .. Mask :
            s.remote_list[i] = IF s.client_list[i] = Nil THEN Nil
                               ELSE [user |-> s.client_list[i], yxx |-> s.yxx[s.client_list[i]]]
=============================================================================
