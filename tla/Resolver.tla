------------------------------ MODULE Resolver ------------------------------
(***************************************************************************)
(* The resolver (res.c): clients' addresses are looked up with a PTR query *)
(* and the name that comes back with an A query; what was found is cached. *)
(* Queries and replies are datagrams, which may be lost, late or doubled;  *)
(* a timer repeats queries and gives them up.  Clients may leave at any    *)
(* time, and hold a reference to the cache entry they were given.          *)
(*                                                                         *)
(* The DNS does not change.  Query ids, 16 random bits, do not repeat.     *)
(***************************************************************************)
EXTENDS Integers, FiniteSets, SequencesExt

CONSTANTS
    Client, Addr, Name, None,
    Ip,             \* Ip[c]: the client's address
    Ptr,            \* Ptr[a]: the name of an address in the DNS, or None
    Fwd,            \* Fwd[n]: the addresses of a name, in the order they are answered
    Retries,        \* IRCD_RES_RETRIES
    Timeout,        \* IRCD_RES_TIMEOUT
    ArTtl,          \* AR_TTL
    MaxCached,      \* MAXCACHED
    MaxNow, MaxId   \* bounds on the clock and on the queries that are sent

VARIABLES
    client,     \* idle, waiting, done or gone; the name it was given
    list,       \* requestListHead
    asked,      \* queries that were sent, each answered any number of times or never
    cache,      \* cacheTop
    nextid,
    now, dnsTimer, cacheTimer

vars == <<client, list, asked, cache, nextid, now, dnsTimer, cacheTimer>>

-----------------------------------------------------------------------------
\* make_request
Request(c, q, id) ==
    [who |-> c, q |-> q, id |-> id, retries |-> Retries, timeout |-> Timeout, sentat |-> now, born |-> now]

find_id(id) == {i \in DOMAIN list : list[i].id = id}

\* delete_resolver_queries
Without(c, rs) == SelectSeq(rs, LAMBDA r : r.who # c)

\* The entries whose first address is a come first: they are found by hash.
find_cache_number(ch, a) ==
    LET hits(P(_)) == {i \in DOMAIN ch : P(ch[i])}
        first == hits(LAMBDA e : e.addrs[1] = a)
        any == hits(LAMBDA e : a \in ToSet(e.addrs))
    IN  IF first # {} THEN Min(first) ELSE IF any # {} THEN Min(any) ELSE 0

find_cache_name(ch, n) ==
    LET hits == {i \in DOMAIN ch : n \in {ch[i].name} \cup ch[i].aliases}
    IN  IF hits # {} THEN Min(hits) ELSE 0

\* rem_cache: an entry that is referenced stays.
rem_cache(e) == IF e.refs > 0
                THEN <<[e EXCEPT !.expire = IF @ < now THEN now + ArTtl ELSE @]>>
                ELSE <<>>

RemoveAll(es) == FlattenSeq([i \in DOMAIN es |-> rem_cache(es[i])])

\* add_to_cache: one entry too many removes all others.
add_to_cache(ch, e) == <<e>> \o (IF Len(ch) + 1 > MaxCached THEN RemoveAll(ch) ELSE ch)

update_hostent(e, addrs, aliases) == [e EXCEPT !.addrs = @ \o addrs, !.aliases = @ \cup aliases]

\* update_list: the entry gets the name and the addresses that it lacks.
update_list(e, n, as) ==
    update_hostent(e, SelectSeq(as, LAMBDA a : a \notin ToSet(e.addrs)), {n} \ {e.name})

\* make_cache: a name one of whose addresses is cached is added to that entry.
\* The result is the cache and the index of the entry.
make_cache(ch, n, as) ==
    LET known == {i \in DOMAIN as : find_cache_number(ch, as[i]) # 0}
        at == find_cache_number(ch, as[Min(known)])
        new == [name |-> n, aliases |-> {}, addrs |-> as, expire |-> now + ArTtl, refs |-> 0]
    IN  IF known = {} THEN [ch |-> add_to_cache(ch, new), at |-> 1]
        ELSE [ch |-> [ch EXCEPT ![at] = update_list(@, n, as)], at |-> at]

Give_unchecked(c, ch, at) ==
    /\ client' = [client EXCEPT ![c] = [st |-> "done", host |-> ch[at].name]]
    /\ cache' = [ch EXCEPT ![at].refs = @ + 1]

\* start_auth and auth_dns_callback with a reply: the address must be one of
\* the name's.  The client then refers to the entry.
Give(c, ch, at) ==
    IF Ip[c] \in ToSet(ch[at].addrs)
    THEN /\ client' = [client EXCEPT ![c] = [st |-> "done", host |-> ch[at].name]]
         /\ cache' = [ch EXCEPT ![at].refs = @ + 1]
    ELSE /\ client' = [client EXCEPT ![c].st = "done"]
         /\ cache' = ch

\* auth_dns_callback without.
Nothing(c) == client' = [client EXCEPT ![c].st = "done"]

-----------------------------------------------------------------------------
Init ==
    /\ client = [c \in Client |-> [st |-> "idle", host |-> None]]
    /\ list = <<>> /\ asked = {} /\ cache = <<>>
    /\ nextid = 1
    /\ now = 1
    /\ dnsTimer = 2 /\ cacheTimer = 2      \* init_resolver

\* query_name: a query is sent under an id that no request has.
query_name(q) ==
    /\ nextid <= MaxId
    /\ asked' = asked \cup {[id |-> nextid, q |-> q]}
    /\ nextid' = nextid + 1

gethost_byaddr(c) ==
    LET at == find_cache_number(cache, Ip[c])
        q == [type |-> "PTR", what |-> Ip[c]]
    IN  /\ client[c].st = "idle"
        /\ \/ /\ at # 0 /\ Give(c, cache, at)
              /\ UNCHANGED <<list, asked, nextid>>
           \/ /\ at = 0 /\ query_name(q)
              /\ client' = [client EXCEPT ![c].st = "waiting"]
              /\ list' = Append(list, Request(c, q, nextid))
              /\ UNCHANGED cache
        /\ UNCHANGED <<now, dnsTimer, cacheTimer>>

\* A PTR answer asks for the name's addresses, in a new request at the end of
\* the list, unless it is cached.
NameAnswered(i) ==
    LET r == list[i]
        n == Ptr[r.q.what]
        at == find_cache_name(cache, n)
        q == [type |-> "A", what |-> n]
    IN  /\ r.q.type = "PTR" /\ n # None
        /\ \/ /\ at # 0 /\ Give(r.who, cache, at)
              /\ list' = RemoveAt(list, i)
              /\ UNCHANGED <<asked, nextid>>
           \/ /\ at = 0 /\ query_name(q)
              /\ list' = Append(RemoveAt(list, i), Request(r.who, q, nextid))
              /\ UNCHANGED <<client, cache>>

\* The addresses of an A answer are cached under the name that was asked for.
AddressesAnswered(i) ==
    LET r == list[i]
        made == make_cache(cache, r.q.what, Fwd[r.q.what])
    IN  /\ r.q.type = "A" /\ Fwd[r.q.what] # <<>>
        /\ Give(r.who, made.ch, made.at)
        /\ list' = RemoveAt(list, i)
        /\ UNCHANGED <<asked, nextid>>

\* An error other than SERVFAIL, or an empty answer.
Refused(i) ==
    /\ Nothing(list[i].who)
    /\ list' = RemoveAt(list, i)
    /\ UNCHANGED <<asked, nextid, cache>>

\* resend_query under a new id.
ServFail(i) ==
    /\ query_name(list[i].q)
    /\ list' = [list EXCEPT ![i].id = nextid]
    /\ UNCHANGED <<client, cache>>

\* Replies may be doubled and late.  One whose id is not in the list is ignored,
\* as is one that cannot be decoded.
resolver_read(m) ==
    /\ \E i \in find_id(m.id) : NameAnswered(i) \/ AddressesAnswered(i) \/ Refused(i) \/ ServFail(i)
    /\ UNCHANGED <<now, dnsTimer, cacheTimer>>

Late(r) == r.sentat + r.timeout < now

\* --request->retries <= 0
Spent(r) == r.retries <= 1

Resent(r, id) == [r EXCEPT !.retries = @ - 1, !.sentat = now, !.timeout = 2 * @, !.id = id]

\* timeout_query_list.  The next check is at the earliest time out there was
\* before queries were sent again, if that is to come, and else in AR_TTL.
expire_DNS_callback ==
    LET dead == {i \in DOMAIN list : Late(list[i]) /\ Spent(list[i])}
        again == {i \in DOMAIN list : Late(list[i])} \ dead
        due == {list[i].sentat + list[i].timeout : i \in DOMAIN list \ dead}
        id(i) == nextid + Cardinality({j \in again : j < i})
    IN  /\ now >= dnsTimer
        /\ nextid + Cardinality(again) <= MaxId + 1
        /\ client' = [c \in Client |-> IF c \in {list[i].who : i \in dead}
                                       THEN [client[c] EXCEPT !.st = "done"] ELSE client[c]]
        /\ list' = FlattenSeq([i \in DOMAIN list |->
                        IF i \in dead THEN <<>>
                        ELSE IF i \in again THEN <<Resent(list[i], id(i))>> ELSE <<list[i]>>])
        /\ asked' = asked \cup {[id |-> id(i), q |-> list[i].q] : i \in again}
        /\ nextid' = nextid + Cardinality(again)
        /\ dnsTimer' = IF due # {} /\ Min(due) > now THEN Min(due) ELSE now + ArTtl
        /\ UNCHANGED <<cache, now, cacheTimer>>

\* expire_cache
expire_cache_callback ==
    LET kept(e) == IF e.expire < now THEN rem_cache(e) ELSE <<e>>
        times == {cache[i].expire : i \in {i \in DOMAIN cache : cache[i].expire >= now}}
    IN  /\ now >= cacheTimer
        /\ cache' = FlattenSeq([i \in DOMAIN cache |-> kept(cache[i])])
        /\ cacheTimer' = IF times # {} /\ Min(times) > now THEN Min(times) ELSE now + ArTtl
        /\ UNCHANGED <<client, list, asked, nextid, now, dnsTimer>>

\* auth_kill_client, or the client's exit: the reference goes with it
\* (release_dns_reply).
ClientLeaves(c) ==
    /\ client[c].st \in {"waiting", "done"}
    /\ client' = [client EXCEPT ![c] = [st |-> "gone", host |-> None]]
    /\ list' = Without(c, list)
    /\ cache' = [i \in DOMAIN cache |->
                    IF client[c].host = cache[i].name THEN [cache[i] EXCEPT !.refs = @ - 1] ELSE cache[i]]
    /\ UNCHANGED <<asked, nextid, now, dnsTimer, cacheTimer>>

\* Timers that are due run before time goes on.
Tick ==
    /\ now < MaxNow
    /\ now < dnsTimer /\ now < cacheTimer
    /\ now' = now + 1
    /\ UNCHANGED <<client, list, asked, cache, nextid, dnsTimer, cacheTimer>>

Next ==
    \/ \E c \in Client : gethost_byaddr(c) \/ ClientLeaves(c)
    \/ \E m \in asked : resolver_read(m)
    \/ expire_DNS_callback
    \/ expire_cache_callback
    \/ Tick

Spec == Init /\ [][Next]_vars

-----------------------------------------------------------------------------
\* resolver_read, timeout_query_list: a client waits as long as exactly one
\* request is in the list for it, whether it is the first or the second
\* lookup, and requests of clients that left are gone; a reply finds at most
\* one request, the one its query was sent for, however late it is.
WaitsForOne ==
    /\ \A c \in Client : Cardinality({i \in DOMAIN list : list[i].who = c})
                           = IF client[c].st = "waiting" THEN 1 ELSE 0
    /\ \A m \in asked : /\ Cardinality(find_id(m.id)) <= 1
                        /\ \A i \in find_id(m.id) : list[i].q = m.q

\* rem_cache: the entry a client refers to is in the cache, through expiry and
\* a full cache, and no entry is kept by a client that left.
HeldEntriesStay ==
    /\ \A c \in Client : client[c].host # None => \E i \in DOMAIN cache : cache[i].name = client[c].host
    /\ \A i \in DOMAIN cache : cache[i].refs = Cardinality({c \in Client : client[c].host = cache[i].name})

\* timeout_query_list: every lookup ends.  A query is noticed to be late up
\* to AR_TTL after its time, which doubles each time it is sent.
GivenUp == \A i \in DOMAIN list : now <= list[i].born + (2 ^ Retries - 1) * Timeout + Retries * ArTtl

\* src/ircd/s_auth.c:515: the name a client is given is one whose addresses
\* have the client's among them.
ForwardConfirmed == \A c \in Client : client[c].host # None => Ip[c] \in ToSet(Fwd[client[c].host])
=============================================================================
