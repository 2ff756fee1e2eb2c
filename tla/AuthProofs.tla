----------------------------- MODULE AuthProofs -----------------------------
(***************************************************************************)
(* The requests of new connections, for any number of clients and of DNS   *)
(* ban lists: no answer reaches a request that was freed, a client is      *)
(* released once, it is held only while something is asked, and the two    *)
(* lists hold the requests they are meant to hold.                         *)
(***************************************************************************)
EXTENDS Auth

AuthRec ==
    [live : BOOLEAN, doing : {"no", "connecting", "pending"}, dns : BOOLEAN, dnsbl : BOOLEAN]

NoQueries == [dns |-> 0, dnsbl |-> 0]

(* The inductive invariant, one client at a time: the flags of a request   *)
(* that is in progress tell exactly which queries are outstanding, and the *)
(* client of a request is neither with the main loop nor gone.             *)
Good(cl, a, n, q, rel) ==
    /\ cl \in {"new", "auth", "released", "killed"}
    /\ a \in AuthRec
    /\ q \in [dns : {0, 1}, dnsbl : Nat]
    /\ n \in Int
    /\ a.live <=> cl = "auth"
    /\ a.live => /\ q.dns = 1 <=> a.dns
                 /\ n = q.dnsbl
                 /\ a.dnsbl <=> q.dnsbl > 0
                 /\ q.dnsbl > 0 => DnsblChecks
                 /\ DnsblChecks /\ ~NoIdent => IsDoingAuth(a) \/ a.dns \/ a.dnsbl
    /\ ~a.live => q = NoQueries
    /\ rel = IF cl = "released" THEN 1 ELSE 0

IInv ==
    /\ client \in [Clients -> {"new", "auth", "released", "killed"}]
    /\ auth \in [Clients -> AuthRec]
    /\ count \in [Clients -> Int]
    /\ queries \in [Clients -> [dns : {0, 1}, dnsbl : Nat]]
    /\ releases \in [Clients -> Int]
    /\ \A c \in Clients : Good(client[c], auth[c], count[c], queries[c], releases[c])

(* A step that changes what is kept about one client, and keeps it good.   *)
LEMMA OneClient ==
  ASSUME IInv, NEW c \in Clients, NEW cl, NEW a, NEW n, NEW q, NEW rel,
         Good(cl, a, n, q, rel),
         client' = [client EXCEPT ![c] = cl], auth' = [auth EXCEPT ![c] = a],
         count' = [count EXCEPT ![c] = n], queries' = [queries EXCEPT ![c] = q],
         releases' = [releases EXCEPT ![c] = rel]
  PROVE  IInv'
<1>1. /\ cl \in {"new", "auth", "released", "killed"} /\ a \in AuthRec /\ n \in Int
      /\ q \in [dns : {0, 1}, dnsbl : Nat] /\ rel \in Int
  BY DEF Good
<1>2. ASSUME NEW d \in Clients
      PROVE  Good(client'[d], auth'[d], count'[d], queries'[d], releases'[d])
  <2>1. CASE d = c
    BY <2>1 DEF IInv
  <2>2. CASE d # c
    <3>1. /\ client'[d] = client[d] /\ auth'[d] = auth[d] /\ count'[d] = count[d]
          /\ queries'[d] = queries[d] /\ releases'[d] = releases[d]
      BY <2>2 DEF IInv
    <3> QED
      BY <3>1 DEF IInv
  <2> QED
    BY <2>1, <2>2
<1> QED
  BY <1>1, <1>2 DEF IInv

(* Nothing is asked and nobody was released at the start.                  *)
LEMMA InitInv == Init => IInv
<1> SUFFICES ASSUME Init PROVE IInv
  OBVIOUS
<1>1. NoRequest \in AuthRec /\ NoQueries \in [dns : {0, 1}, dnsbl : Nat] /\ ~NoRequest.live
  BY DEF NoRequest, AuthRec, NoQueries
<1>2. Good("new", NoRequest, 0, NoQueries, 0)
  BY <1>1 DEF Good
<1>3. /\ client = [c \in Clients |-> "new"] /\ auth = [c \in Clients |-> NoRequest]
      /\ count = [c \in Clients |-> 0] /\ queries = [c \in Clients |-> NoQueries]
      /\ releases = [c \in Clients |-> 0]
  BY DEF Init, NoQueries
<1> QED
  BY <1>1, <1>2, <1>3 DEF IInv

(* A request that ends leaves its client released or killed and no query.  *)
LEMMA OverOK ==
  ASSUME NEW r \in AuthRec, NEW n \in Int
  PROVE  /\ Good("released", [r EXCEPT !.live = FALSE], n, NoQueries, 1)
         /\ Good("killed", [r EXCEPT !.live = FALSE], n, NoQueries, 0)
<1> DEFINE a == [r EXCEPT !.live = FALSE]
<1>1. a \in AuthRec /\ ~a.live
  BY DEF AuthRec
<1>2. NoQueries \in [dns : {0, 1}, dnsbl : Nat]
  BY DEF NoQueries
<1> HIDE DEF a
<1>3. Good("released", a, n, NoQueries, 1) /\ Good("killed", a, n, NoQueries, 0)
  BY <1>1, <1>2 DEF Good
<1> QED
  BY <1>3 DEF a

(* The client is released: release_auth_client and free_auth_request.      *)
LEMMA DoneInv ==
  ASSUME IInv, NEW c \in Clients, client[c] \in {"new", "auth"},
         NEW r \in AuthRec, Done(c, r), NEW n \in Int, count' = [count EXCEPT ![c] = n],
         queries' = [queries EXCEPT ![c] = NoQueries]
  PROVE  IInv'
<1> DEFINE a == [r EXCEPT !.live = FALSE]
<1>1. Good("released", a, n, NoQueries, 1)
  BY OverOK
<1>2. releases[c] = 0
  BY DEF IInv, Good
<1>3. /\ client' = [client EXCEPT ![c] = "released"]
      /\ releases' = [releases EXCEPT ![c] = releases[c] + 1]
      /\ auth' = [auth EXCEPT ![c] = a]
  BY DEF Done
<1> HIDE DEF a
<1>4. releases' = [releases EXCEPT ![c] = 1]
  BY <1>2, <1>3
<1> QED
  BY <1>1, <1>3, <1>4, OneClient

(* The client is killed.                                                   *)
LEMMA KilledInv ==
  ASSUME IInv, NEW c \in Clients, client[c] \in {"new", "auth"},
         NEW r \in AuthRec, client' = [client EXCEPT ![c] = "killed"],
         auth' = [auth EXCEPT ![c] = [r EXCEPT !.live = FALSE]], releases' = releases,
         NEW n \in Int, count' = [count EXCEPT ![c] = n],
         queries' = [queries EXCEPT ![c] = NoQueries]
  PROVE  IInv'
<1> DEFINE a == [r EXCEPT !.live = FALSE]
<1>1. Good("killed", a, n, NoQueries, 0)
  BY OverOK
<1>2. releases[c] = 0 /\ releases \in [Clients -> Int]
  BY DEF IInv, Good
<1>3. auth' = [auth EXCEPT ![c] = a]
  OBVIOUS
<1> HIDE DEF a
<1>4. releases' = [releases EXCEPT ![c] = 0]
  BY <1>2
<1> QED
  BY <1>1, <1>3, <1>4, OneClient

(* The client goes on waiting.                                             *)
LEMMA HeldInv ==
  ASSUME IInv, NEW c \in Clients, client[c] = "auth", NEW r, Held(c, r),
         NEW n, count' = [count EXCEPT ![c] = n],
         NEW q, queries' = [queries EXCEPT ![c] = q], Good("auth", r, n, q, 0)
  PROVE  IInv'
<1>1. client \in [Clients -> {"new", "auth", "released", "killed"}] /\ releases \in [Clients -> Int]
      /\ releases[c] = 0
  BY DEF IInv, Good
<1>2. client' = [client EXCEPT ![c] = "auth"] /\ releases' = [releases EXCEPT ![c] = 0]
      /\ auth' = [auth EXCEPT ![c] = r]
  BY <1>1 DEF Held
<1> QED
  BY <1>2, OneClient

(* What the invariant says of a client that waits.                         *)
LEMMA LiveFacts ==
  ASSUME IInv, NEW c \in Clients
  PROVE  /\ auth[c] \in AuthRec /\ count[c] \in Int /\ queries[c] \in [dns : {0, 1}, dnsbl : Nat]
         /\ count = [count EXCEPT ![c] = count[c]] /\ queries = [queries EXCEPT ![c] = queries[c]]
         /\ auth[c].live <=> client[c] = "auth"
         /\ ~auth[c].live => queries[c] = NoQueries
         /\ auth[c].live => Good("auth", auth[c], count[c], queries[c], 0)
<1>1. /\ auth[c] \in AuthRec /\ count[c] \in Int /\ queries[c] \in [dns : {0, 1}, dnsbl : Nat]
      /\ count = [count EXCEPT ![c] = count[c]] /\ queries = [queries EXCEPT ![c] = queries[c]]
  BY DEF IInv
<1>2. Good(client[c], auth[c], count[c], queries[c], releases[c])
  BY DEF IInv
<1>3. /\ auth[c].live <=> client[c] = "auth"
      /\ ~auth[c].live => queries[c] = NoQueries
      /\ client[c] = "auth" => releases[c] = 0
  BY <1>2 DEF Good
<1> QED
  BY <1>1, <1>2, <1>3

(* Nothing is asked for a request whose flags say so.                      *)
LEMMA NothingAsked ==
  ASSUME NEW q \in [dns : {0, 1}, dnsbl : Nat], q.dns # 1, ~(q.dnsbl > 0)
  PROVE  q = NoQueries
<1>1. q.dns = 0 /\ q.dnsbl = 0
  OBVIOUS
<1> QED
  BY <1>1 DEF NoQueries

(* auth_kill_client for a request whose host lookup may have ended.        *)
LEMMA AuthKillInv ==
  ASSUME IInv, NEW c \in Clients, auth[c].live, NEW r \in AuthRec,
         r.dnsbl <=> auth[c].dnsbl, auth_kill_client(c, r), UNCHANGED count
  PROVE  IInv'
<1>1. /\ count[c] \in Int /\ queries[c] \in [dns : {0, 1}, dnsbl : Nat] /\ client[c] = "auth"
      /\ count = [count EXCEPT ![c] = count[c]]
      /\ Good("auth", auth[c], count[c], queries[c], 0)
  BY LiveFacts
<1>2. queries' = [queries EXCEPT ![c] = NoQueries]
  <2>1. CASE Waiting(r)
    BY <2>1 DEF auth_kill_client, delete_resolver_queries, NoQueries
  <2>2. CASE ~Waiting(r)
    <3>1. queries' = [queries EXCEPT ![c].dns = 0]
      BY <2>2 DEF auth_kill_client
    <3>2. queries[c].dnsbl = 0
      BY <1>1, <2>2 DEF Good, Waiting
    <3>3. [queries[c] EXCEPT !.dns = 0] = NoQueries
      BY <1>1, <3>2 DEF NoQueries
    <3>4. queries' = [queries EXCEPT ![c] = [queries[c] EXCEPT !.dns = 0]]
      BY <3>1
    <3> QED
      BY <3>3, <3>4
  <2> QED
    BY <2>1, <2>2
<1>3. /\ client' = [client EXCEPT ![c] = "killed"]
      /\ auth' = [auth EXCEPT ![c] = [r EXCEPT !.live = FALSE]]
      /\ releases' = releases
  BY DEF auth_kill_client, Gone
<1> QED
  BY <1>1, <1>2, <1>3, KilledInv

(* The end of an ident query.                                              *)
LEMMA IdentOverInv ==
  ASSUME IInv, NEW c \in Clients, auth[c].live, ident_over(c, [auth[c] EXCEPT !.doing = "no"])
  PROVE  IInv'
<1> DEFINE r == [auth[c] EXCEPT !.doing = "no"]
<1>1. /\ auth[c] \in AuthRec
      /\ count[c] \in Int /\ queries[c] \in [dns : {0, 1}, dnsbl : Nat] /\ client[c] = "auth"
      /\ count = [count EXCEPT ![c] = count[c]] /\ queries = [queries EXCEPT ![c] = queries[c]]
      /\ Good("auth", auth[c], count[c], queries[c], 0)
  BY LiveFacts
<1>2. /\ r \in AuthRec /\ r.live /\ (r.dns <=> auth[c].dns) /\ (r.dnsbl <=> auth[c].dnsbl)
  BY <1>1 DEF AuthRec
<1>3. ident_over(c, r)
  OBVIOUS
<1> HIDE DEF r
<1>4. count' = [count EXCEPT ![c] = count[c]] /\ queries' = [queries EXCEPT ![c] = queries[c]]
  BY <1>1, <1>3 DEF ident_over
<1>5. CASE Waiting(r)
  <2>1. Good("auth", r, count[c], queries[c], 0)
    BY <1>1, <1>2, <1>5 DEF Good, Waiting
  <2>2. Held(c, r)
    BY <1>3, <1>5 DEF ident_over
  <2> QED
    BY <1>1, <1>4, <2>1, <2>2, HeldInv
<1>6. CASE ~Waiting(r)
  <2>1. queries[c].dns # 1 /\ ~(queries[c].dnsbl > 0)
    BY <1>1, <1>2, <1>6 DEF Good, Waiting
  <2>2. queries[c] = NoQueries
    BY <1>1, <2>1, NothingAsked
  <2>3. Done(c, r)
    BY <1>3, <1>6 DEF ident_over
  <2> QED
    BY <1>1, <1>2, <1>4, <2>2, <2>3, DoneInv
<1> QED
  BY <1>5, <1>6

(* A connection starts to wait, is let in at once or is killed at once.    *)
LEMMA StartInv ==
  ASSUME IInv, NEW c \in Clients, NEW dns, NEW cached \in 0 .. BLCount,
         NEW ident \in {"fail", "connecting", "sent", "sendfail", "kill"},
         start_auth(c, dns, cached, ident)
  PROVE  IInv'
<1> DEFINE left == start_dnsblcheck(cached)
           r == [live |-> TRUE, dns |-> dns = "query", dnsbl |-> left > 0,
                 doing |-> start_auth_query(ident)]
           q == [dns |-> IF r.dns THEN 1 ELSE 0, dnsbl |-> left]
<1>1. left \in Nat /\ (left > 0 => DnsblChecks)
  BY AuthAssumption DEF start_dnsblcheck
<1>2. start_auth_query(ident) \in {"no", "connecting", "pending"}
      /\ (ident \in {"connecting", "sent"} => start_auth_query(ident) # "no")
  BY DEF start_auth_query
<1>3. /\ client[c] = "new"
      /\ count' = [count EXCEPT ![c] = left]
      /\ queries[c] = NoQueries /\ queries = [queries EXCEPT ![c] = queries[c]]
      /\ releases[c] = 0 /\ releases = [releases EXCEPT ![c] = releases[c]]
  <2>1. client[c] = "new" /\ count' = [count EXCEPT ![c] = left]
    BY DEF start_auth
  <2>2. Good(client[c], auth[c], count[c], queries[c], releases[c])
        /\ queries = [queries EXCEPT ![c] = queries[c]] /\ releases = [releases EXCEPT ![c] = releases[c]]
    BY DEF IInv
  <2> QED
    BY <2>1, <2>2 DEF Good
<1> DEFINE begins == /\ auth' = [auth EXCEPT ![c] = r]
                     /\ client' = [client EXCEPT ![c] = "auth"]
                     /\ queries' = [queries EXCEPT ![c] = q]
                     /\ UNCHANGED releases
                     /\ NoIdent \/ ident \in {"connecting", "sent"} \/ Waiting(r)
           ends == /\ Done(c, r)
                   /\ queries' = [queries EXCEPT ![c] = q]
                   /\ ~Waiting(r)
           dies == /\ client' = [client EXCEPT ![c] = "killed"]
                   /\ auth' = [auth EXCEPT ![c] = [r EXCEPT !.live = FALSE]]
                   /\ UNCHANGED <<queries, releases>>
<1>4. begins \/ ends \/ dies
  <2>1. CASE NoIdent
    BY <2>1 DEF start_auth
  <2>2. CASE ~NoIdent /\ ident \in {"connecting", "sent"}
    BY <2>2 DEF start_auth
  <2>3. CASE ~NoIdent /\ ident = "fail"
    BY <2>3 DEF start_auth
  <2>4. CASE ~NoIdent /\ ident = "sendfail"
    BY <2>4 DEF start_auth
  <2>5. CASE ~NoIdent /\ ident = "kill"
    BY <2>5 DEF start_auth, Gone
  <2> QED
    BY <2>1, <2>2, <2>3, <2>4, <2>5
<1>5. /\ r \in AuthRec /\ r.live /\ (r.dnsbl <=> left > 0) /\ r.doing = start_auth_query(ident)
  <2> HIDE DEF left
  <2>1. (dns = "query") \in BOOLEAN /\ (left > 0) \in BOOLEAN
    OBVIOUS
  <2>2. r \in AuthRec
    BY <1>2, <2>1 DEF AuthRec
  <2>3. r.live /\ (r.dnsbl <=> left > 0) /\ r.doing = start_auth_query(ident)
    OBVIOUS
  <2> QED
    BY <2>2, <2>3
<1>6. q \in [dns : {0, 1}, dnsbl : Nat] /\ (q.dns = 1 <=> r.dns) /\ q.dnsbl = left
  BY <1>1
<1> HIDE DEF left, r, q
<1>7. CASE begins
  <2>1. DnsblChecks /\ ~NoIdent => IsDoingAuth(r) \/ r.dns \/ r.dnsbl
    BY <1>2, <1>5, <1>7 DEF Waiting, IsDoingAuth
  <2>2. Good("auth", r, left, q, 0)
    BY <1>1, <1>5, <1>6, <2>1 DEF Good
  <2>3. releases' = [releases EXCEPT ![c] = 0]
    BY <1>3, <1>7
  <2> QED
    BY <1>3, <1>7, <2>2, <2>3, OneClient
<1>8. CASE ends
  <2>1. q.dns # 1 /\ ~(q.dnsbl > 0)
    BY <1>1, <1>5, <1>6, <1>8 DEF Waiting
  <2>2. q = NoQueries
    BY <1>6, <2>1, NothingAsked
  <2>3. Done(c, r) /\ queries' = [queries EXCEPT ![c] = NoQueries]
    BY <1>8, <2>2
  <2>4. left \in Int /\ client[c] \in {"new", "auth"}
    BY <1>1, <1>3
  <2> HIDE DEF begins, ends, dies
  <2> QED
    BY <1>3, <1>5, <2>3, <2>4, DoneInv
<1>9. CASE dies
  <2>1. queries' = [queries EXCEPT ![c] = NoQueries]
    BY <1>3, <1>9
  <2>2. left \in Int /\ client[c] \in {"new", "auth"}
    BY <1>1, <1>3
  <2>3. /\ client' = [client EXCEPT ![c] = "killed"]
        /\ auth' = [auth EXCEPT ![c] = [r EXCEPT !.live = FALSE]]
        /\ releases' = releases
    BY <1>9
  <2> HIDE DEF begins, ends, dies
  <2> QED
    BY <1>3, <1>5, <2>1, <2>2, <2>3, KilledInv
<1> QED
  BY <1>4, <1>7, <1>8, <1>9

(* The answer to a host lookup.                                            *)
LEMMA DnsInv ==
  ASSUME IInv, NEW c \in Clients, NEW answer, auth_dns_callback(c, answer)
  PROVE  IInv'
<1> DEFINE r == [auth[c] EXCEPT !.dns = FALSE]
           q == [queries[c] EXCEPT !.dns = 0]
<1>1. queries[c].dns = 1
  BY DEF auth_dns_callback
<1>2. auth[c].live
  BY <1>1, LiveFacts DEF NoQueries
<1>3. /\ auth[c] \in AuthRec
      /\ count[c] \in Int /\ queries[c] \in [dns : {0, 1}, dnsbl : Nat] /\ client[c] = "auth"
      /\ count = [count EXCEPT ![c] = count[c]]
      /\ Good("auth", auth[c], count[c], queries[c], 0)
  BY <1>2, LiveFacts
<1>4. /\ r \in AuthRec /\ r.live /\ ~r.dns /\ (r.dnsbl <=> auth[c].dnsbl)
      /\ r.doing = auth[c].doing
  BY <1>2, <1>3 DEF AuthRec
<1>5. q \in [dns : {0, 1}, dnsbl : Nat] /\ q.dns = 0 /\ q.dnsbl = queries[c].dnsbl
  BY <1>3
<1>6. CASE answer = "mismatch" /\ KillIpMismatch
  <2>1. auth_kill_client(c, r) /\ UNCHANGED count
    BY <1>6 DEF auth_dns_callback
  <2> HIDE DEF r
  <2> QED
    BY <1>2, <1>4, <2>1, AuthKillInv
<1>7. CASE ~(answer = "mismatch" /\ KillIpMismatch)
  <2>1. queries' = [queries EXCEPT ![c] = q] /\ count' = [count EXCEPT ![c] = count[c]]
    BY <1>3, <1>7 DEF auth_dns_callback
  <2>2. CASE DnsblChecks /\ ~r.dnsbl /\ ~IsDoingAuth(r)
    <3>1. Done(c, r)
      BY <1>7, <2>2 DEF auth_dns_callback, Finish
    <3> HIDE DEF r, q
    <3>2. q.dns # 1 /\ ~(q.dnsbl > 0)
      BY <1>2, <1>3, <1>4, <1>5, <2>2 DEF Good
    <3>3. q = NoQueries
      BY <1>5, <3>2, NothingAsked
    <3> QED
      BY <1>3, <1>4, <2>1, <3>1, <3>3, DoneInv
  <2>3. CASE ~(DnsblChecks /\ ~r.dnsbl /\ ~IsDoingAuth(r))
    <3>1. Held(c, r)
      BY <1>7, <2>3 DEF auth_dns_callback
    <3> HIDE DEF r, q
    <3>2. Good("auth", r, count[c], q, 0)
      BY <1>2, <1>3, <1>4, <1>5, <2>3 DEF Good
    <3> QED
      BY <1>3, <2>1, <3>1, <3>2, HeldInv
  <2> QED
    BY <2>2, <2>3
<1> QED
  BY <1>6, <1>7

(* The answer of a ban list.                                               *)
LEMMA DnsblInv ==
  ASSUME IInv, NEW c \in Clients, auth_dnsbl_callback(c)
  PROVE  IInv'
<1> DEFINE last == DnsblChecks /\ count[c] = 1
           r == [auth[c] EXCEPT !.dnsbl = IF last THEN FALSE ELSE @]
           q == [queries[c] EXCEPT !.dnsbl = queries[c].dnsbl - 1]
<1>1. queries[c].dnsbl > 0
  BY DEF auth_dnsbl_callback
<1>2. auth[c].live
  BY <1>1, LiveFacts DEF NoQueries
<1>3. /\ auth[c] \in AuthRec
      /\ count[c] \in Int /\ queries[c] \in [dns : {0, 1}, dnsbl : Nat] /\ client[c] = "auth"
      /\ Good("auth", auth[c], count[c], queries[c], 0)
  BY <1>2, LiveFacts
<1>4. /\ (q.dns = 1 <=> auth[c].dns) /\ q.dnsbl = count[c] - 1 /\ q.dnsbl \in Nat
      /\ DnsblChecks /\ auth[c].dnsbl /\ q \in [dns : {0, 1}, dnsbl : Nat]
  BY <1>1, <1>2, <1>3 DEF Good
<1>5. /\ r \in AuthRec /\ r.live /\ (r.dns <=> auth[c].dns) /\ r.doing = auth[c].doing
      /\ (r.dnsbl <=> ~last)
  BY <1>2, <1>3, <1>4 DEF AuthRec
<1>6. last <=> ~(q.dnsbl > 0)
  BY <1>3, <1>4
<1>7. queries' = [queries EXCEPT ![c] = q] /\ count' = [count EXCEPT ![c] = count[c] - 1]
  BY DEF auth_dnsbl_callback
<1>8. CASE last /\ ~IsDoingAuth(r) /\ ~r.dns
  <2>1. Done(c, r)
    BY <1>8 DEF auth_dnsbl_callback, Finish
  <2> HIDE DEF r, q, last
  <2>2. q = NoQueries
    <3>1. q.dns # 1
      BY <1>4, <1>5, <1>8
    <3> QED
      BY <1>4, <1>6, <1>8, <3>1, NothingAsked
  <2>3. count[c] - 1 \in Int
    BY <1>3
  <2> QED
    BY <1>3, <1>5, <1>7, <2>1, <2>2, <2>3, DoneInv
<1>9. CASE ~(last /\ ~IsDoingAuth(r) /\ ~r.dns)
  <2>1. Held(c, r)
    BY <1>9 DEF auth_dnsbl_callback
  <2> HIDE DEF r, q, last
  <2>2. Good("auth", r, count[c] - 1, q, 0)
    BY <1>3, <1>4, <1>5, <1>6, <1>9 DEF Good
  <2> QED
    BY <1>3, <1>7, <2>1, <2>2, HeldInv
<1> QED
  BY <1>8, <1>9

(* The connection to the ident server is there.                            *)
LEMMA SendInv ==
  ASSUME IInv, NEW c \in Clients, NEW result \in {"sent", "sendfail", "kill"},
         send_auth_query(c, result)
  PROVE  IInv'
<1>1. auth[c].live /\ auth[c].doing = "connecting"
  BY DEF send_auth_query
<1>2. /\ auth[c] \in AuthRec
      /\ count[c] \in Int /\ queries[c] \in [dns : {0, 1}, dnsbl : Nat] /\ client[c] = "auth"
      /\ count = [count EXCEPT ![c] = count[c]] /\ queries = [queries EXCEPT ![c] = queries[c]]
      /\ Good("auth", auth[c], count[c], queries[c], 0)
  BY <1>1, LiveFacts
<1>3. CASE result = "sent"
  <2> DEFINE r == [auth[c] EXCEPT !.doing = "pending"]
  <2>1. Held(c, r) /\ UNCHANGED <<count, queries>>
    BY <1>3 DEF send_auth_query
  <2>2. r \in AuthRec /\ r.live /\ (r.dns <=> auth[c].dns) /\ (r.dnsbl <=> auth[c].dnsbl)
        /\ IsDoingAuth(r)
    BY <1>1, <1>2 DEF AuthRec, IsDoingAuth
  <2> HIDE DEF r
  <2>3. Good("auth", r, count[c], queries[c], 0)
    BY <1>1, <1>2, <2>2 DEF Good
  <2>4. count' = [count EXCEPT ![c] = count[c]] /\ queries' = [queries EXCEPT ![c] = queries[c]]
    BY <1>2, <2>1
  <2> QED
    BY <1>2, <2>1, <2>3, <2>4, HeldInv
<1>4. CASE result = "sendfail"
  <2>1. ident_over(c, [auth[c] EXCEPT !.doing = "no"])
    BY <1>4 DEF send_auth_query
  <2> QED
    BY <1>1, <2>1, IdentOverInv
<1>5. CASE result = "kill"
  <2>1. auth_kill_client(c, auth[c]) /\ UNCHANGED count
    BY <1>5 DEF send_auth_query
  <2> QED
    BY <1>1, <1>2, <2>1, AuthKillInv
<1> QED
  BY <1>3, <1>4, <1>5

(* The timer fires, or the client exits.                                   *)
LEMMA DestroyInv ==
  ASSUME IInv, NEW c \in Clients, NEW send_reports \in BOOLEAN,
         destroy_auth_request(c, send_reports)
  PROVE  IInv'
<1>1. auth[c].live
  BY DEF destroy_auth_request
<1>2. /\ auth[c] \in AuthRec
      /\ count[c] \in Int /\ queries[c] \in [dns : {0, 1}, dnsbl : Nat] /\ client[c] = "auth"
      /\ count = [count EXCEPT ![c] = count[c]] /\ queries = [queries EXCEPT ![c] = queries[c]]
      /\ Good("auth", auth[c], count[c], queries[c], 0)
  BY <1>1, LiveFacts
<1>3. /\ send_reports => Done(c, auth[c])
      /\ ~send_reports => Gone(c, auth[c])
      /\ count' = [count EXCEPT ![c] = count[c]]
  BY <1>2 DEF destroy_auth_request
<1>4. queries' = [queries EXCEPT ![c] = NoQueries]
  <2>1. CASE Waiting(auth[c])
    BY <2>1 DEF destroy_auth_request, delete_resolver_queries, NoQueries
  <2>2. CASE ~Waiting(auth[c])
    <3>1. queries[c].dns # 1 /\ ~(queries[c].dnsbl > 0)
      BY <1>1, <1>2, <2>2 DEF Good, Waiting
    <3>2. queries[c] = NoQueries
      BY <1>2, <3>1, NothingAsked
    <3>3. queries' = queries
      BY <2>2 DEF destroy_auth_request
    <3> QED
      BY <1>2, <3>2, <3>3
  <2> QED
    BY <2>1, <2>2
<1>5. CASE send_reports
  BY <1>2, <1>3, <1>4, <1>5, DoneInv
<1>6. CASE ~send_reports
  <2>1. /\ client' = [client EXCEPT ![c] = "killed"]
        /\ auth' = [auth EXCEPT ![c] = [auth[c] EXCEPT !.live = FALSE]]
        /\ releases' = releases
    BY <1>3, <1>6 DEF Gone
  <2> QED
    BY <1>2, <1>3, <1>4, <2>1, KilledInv
<1> QED
  BY <1>5, <1>6

(* Every step keeps the invariant.                                         *)
LEMMA NextInv == IInv /\ [Next]_vars => IInv'
<1> SUFFICES ASSUME IInv, [Next]_vars PROVE IInv'
  OBVIOUS
<1>1. CASE UNCHANGED vars
  BY <1>1 DEF vars, IInv
<1>2. ASSUME NEW c \in Clients, read_auth_reply(c) PROVE IInv'
  BY <1>2, IdentOverInv DEF read_auth_reply
<1> QED
  BY <1>1, <1>2, StartInv, DnsInv, DnsblInv, SendInv, DestroyInv DEF Next, Resolver

(* The invariant holds in every reachable state.                           *)
THEOREM InvariantHolds == Spec => []IInv
BY InitInv, NextInv, PTL DEF Spec

(* Whatever the features and the order of the answers, no resolver query   *)
(* outlives the request it points to.                                      *)
THEOREM QueriesOwned == Spec => []NoDanglingQuery
<1>1. IInv => NoDanglingQuery
  BY DEF IInv, Good, NoDanglingQuery, NoQueries
<1> QED
  BY <1>1, InvariantHolds, PTL

(* A client is handed to the main loop once, and only while it is held.    *)
THEOREM ReleasedOnceHolds == Spec => []ReleasedOnce
<1>1. IInv => ReleasedOnce
  BY DEF IInv, Good, ReleasedOnce
<1> QED
  BY <1>1, InvariantHolds, PTL

-----------------------------------------------------------------------------
(* The two lists.  A request is on the one that its ident flags name, and  *)
(* only so may unlink_auth_request be called with that list.               *)

Doing(a) == {c \in Clients : a[c].live /\ IsDoingAuth(a[c])}
Idle(a) == {c \in Clients : a[c].live /\ ~IsDoingAuth(a[c])}

(* A list without repetitions that holds the requests of the clients in S. *)
Holds(list, S) == list \in Seq(Clients) /\ Injective(list) /\ Elements(list) = S

ListsInv == Holds(poll, Doing(auth)) /\ Holds(incomplete, Idle(auth))

(* The sets after the request of one client changed.                       *)
LEMMA OneRequest ==
  ASSUME NEW a \in [Clients -> AuthRec], NEW c \in Clients, NEW r
  PROVE  LET b == [a EXCEPT ![c] = r]
         IN  /\ Doing(b) = (IF r.live /\ IsDoingAuth(r) THEN Doing(a) \cup {c} ELSE Doing(a) \ {c})
             /\ Idle(b) = (IF r.live /\ ~IsDoingAuth(r) THEN Idle(a) \cup {c} ELSE Idle(a) \ {c})
<1> DEFINE b == [a EXCEPT ![c] = r]
<1>1. b[c] = r /\ \A d \in Clients \ {c} : b[d] = a[d]
  OBVIOUS
<1> HIDE DEF b
<1>2. /\ Doing(b) = (IF r.live /\ IsDoingAuth(r) THEN Doing(a) \cup {c} ELSE Doing(a) \ {c})
      /\ Idle(b) = (IF r.live /\ ~IsDoingAuth(r) THEN Idle(a) \cup {c} ELSE Idle(a) \ {c})
  BY <1>1 DEF Doing, Idle
<1> QED
  BY <1>2 DEF b

(* link_auth_request adds a request, unlink_auth_request takes it off the  *)
(* list it is on.                                                          *)
LEMMA LinkOK ==
  ASSUME NEW list, NEW S, Holds(list, S), NEW c \in Clients
  PROVE  /\ c \notin S => Holds(link_auth_request(c, list), S \cup {c})
         /\ c \in S => Holds(unlink_auth_request(c, list), S \ {c})
<1>1. list \in Seq(Clients) /\ Injective(list) /\ Elements(list) = S
  BY DEF Holds
<1>2. ASSUME c \in S PROVE Holds(unlink_auth_request(c, list), S \ {c})
  <2>1. /\ Drop(list, {c}) \in Seq(Clients) /\ Injective(Drop(list, {c}))
        /\ Elements(Drop(list, {c})) = S \ {c}
    BY <1>1, DropOK
  <2> QED
    BY <1>1, <1>2, <2>1 DEF unlink_auth_request, Holds
<1>3. ASSUME c \notin S PROVE Holds(link_auth_request(c, list), S \cup {c})
  <2> DEFINE t == <<c>> \o list
  <2>1. /\ t \in Seq(Clients) /\ Len(t) = Len(list) + 1 /\ Len(list) \in Nat
        /\ t[1] = c
        /\ \A i \in 1..Len(list) : t[i + 1] = list[i]
    BY <1>1
  <2> HIDE DEF t
  <2>2. \A i \in 1..Len(t) : i = 1 \/ (i - 1 \in 1..Len(list) /\ t[i] = list[i - 1])
    <3> TAKE i \in 1..Len(t)
    <3>1. i = 1 \/ i - 1 \in 1..Len(list)
      BY <2>1
    <3>2. i - 1 \in 1..Len(list) => t[(i - 1) + 1] = list[i - 1]
      BY <2>1
    <3> QED
      BY <2>1, <3>1, <3>2
  <2>3. \A i \in 1..Len(list) : list[i] # c
    BY <1>1, <1>3 DEF Elements
  <2>4. Injective(t)
    <3> SUFFICES ASSUME NEW i \in 1..Len(t), NEW j \in 1..Len(t), t[i] = t[j] PROVE i = j
      BY DEF Injective
    <3>1. i = 1 <=> j = 1
      BY <2>1, <2>2, <2>3
    <3>2. CASE i # 1 /\ j # 1
      <4>1. i - 1 \in 1..Len(list) /\ j - 1 \in 1..Len(list) /\ list[i - 1] = list[j - 1]
        BY <2>2, <3>2
      <4>2. i - 1 = j - 1
        BY <1>1, <4>1 DEF Injective
      <4> QED
        BY <2>1, <4>2
    <3> QED
      BY <3>1, <3>2
  <2>5. Elements(t) = S \cup {c}
    <3>1. Elements(t) \subseteq S \cup {c}
      BY <1>1, <2>1, <2>2 DEF Elements
    <3>2. c \in Elements(t)
      BY <2>1 DEF Elements
    <3>3. ASSUME NEW i \in 1..Len(list) PROVE list[i] \in Elements(t)
      <4>1. i + 1 \in 1..Len(t) /\ t[i + 1] = list[i]
        BY <2>1
      <4> QED
        BY <4>1 DEF Elements
    <3>4. S \subseteq Elements(t)
      BY <1>1, <3>3 DEF Elements
    <3> QED
      BY <3>1, <3>2, <3>4
  <2> QED
    BY <2>1, <2>4, <2>5 DEF Holds, link_auth_request, t
<1> QED
  BY <1>2, <1>3

(* What may happen to the request of one client and to the two lists.      *)
LEMMA ListsStep ==
  ASSUME ListsInv, auth \in [Clients -> AuthRec], NEW c \in Clients, NEW r,
         auth' = [auth EXCEPT ![c] = r],
         \/ /\ UNCHANGED <<poll, incomplete>>
            /\ r.live <=> auth[c].live
            /\ IsDoingAuth(r) <=> IsDoingAuth(auth[c])
         \/ /\ UNCHANGED <<poll, incomplete>>
            /\ ~r.live /\ ~auth[c].live
         \/ /\ auth[c].live /\ IsDoingAuth(auth[c])
            /\ poll' = unlink_auth_request(c, poll)
            /\ \/ ~r.live /\ UNCHANGED incomplete
               \/ /\ r.live /\ ~IsDoingAuth(r)
                  /\ incomplete' = link_auth_request(c, incomplete)
         \/ /\ auth[c].live /\ ~IsDoingAuth(auth[c]) /\ ~r.live
            /\ incomplete' = unlink_auth_request(c, incomplete)
            /\ UNCHANGED poll
         \/ /\ ~auth[c].live /\ r.live /\ IsDoingAuth(r)
            /\ poll' = link_auth_request(c, poll)
            /\ UNCHANGED incomplete
         \/ /\ ~auth[c].live /\ r.live /\ ~IsDoingAuth(r)
            /\ incomplete' = link_auth_request(c, incomplete)
            /\ UNCHANGED poll
  PROVE  ListsInv'
<1> DEFINE D == Doing(auth)
           I == Idle(auth)
<1>1. /\ Doing(auth') = (IF r.live /\ IsDoingAuth(r) THEN D \cup {c} ELSE D \ {c})
      /\ Idle(auth') = (IF r.live /\ ~IsDoingAuth(r) THEN I \cup {c} ELSE I \ {c})
  BY OneRequest
<1>2. Holds(poll, D) /\ Holds(incomplete, I)
  BY DEF ListsInv
<1>3. (c \in D <=> auth[c].live /\ IsDoingAuth(auth[c])) /\ (c \in I <=> auth[c].live /\ ~IsDoingAuth(auth[c]))
  BY DEF Doing, Idle
<1>4. /\ c \notin D => Holds(link_auth_request(c, poll), D \cup {c}) /\ D \ {c} = D
      /\ c \in D => Holds(unlink_auth_request(c, poll), D \ {c}) /\ D \cup {c} = D
      /\ c \notin I => Holds(link_auth_request(c, incomplete), I \cup {c}) /\ I \ {c} = I
      /\ c \in I => Holds(unlink_auth_request(c, incomplete), I \ {c}) /\ I \cup {c} = I
  BY <1>2, LinkOK
<1> HIDE DEF D, I
<1>5. Holds(poll', Doing(auth')) /\ Holds(incomplete', Idle(auth'))
  BY <1>1, <1>2, <1>3, <1>4
<1> QED
  BY <1>5 DEF ListsInv

(* Every step keeps the lists, where ident queries are made and a          *)
(* connection to an ident server takes its time.                           *)
LEMMA NextLists ==
  ASSUME ~NoIdent, ~Immediate
  PROVE  IInv /\ ListsInv /\ [Next]_vars => ListsInv'
<1> SUFFICES ASSUME IInv, ListsInv, [Next]_vars PROVE ListsInv'
  OBVIOUS
<1>0. auth \in [Clients -> AuthRec] /\ \A c \in Clients : auth[c] \in AuthRec
  BY DEF IInv
<1>1. CASE UNCHANGED vars
  BY <1>1 DEF vars, ListsInv
<1>2. ASSUME NEW c \in Clients, NEW dns, NEW cached \in 0 .. BLCount,
             NEW ident \in {"fail", "connecting", "sent", "sendfail", "kill"},
             start_auth(c, dns, cached, ident)
      PROVE  ListsInv'
  <2> DEFINE left == start_dnsblcheck(cached)
             r == [live |-> TRUE, dns |-> dns = "query", dnsbl |-> left > 0,
                   doing |-> start_auth_query(ident)]
             e == [r EXCEPT !.live = FALSE]
  <2>1. ~auth[c].live
    <3>1. client[c] = "new"
      BY <1>2 DEF start_auth
    <3> QED
      BY <3>1, LiveFacts
  <2>2. ident \in {"fail", "connecting"}
    BY <1>2 DEF start_auth
  <2>3. r.live /\ ~e.live /\ r.doing = start_auth_query(ident)
    OBVIOUS
  <2>4. CASE ident = "connecting"
    <3>1. auth' = [auth EXCEPT ![c] = r] /\ poll' = link_auth_request(c, poll) /\ UNCHANGED incomplete
      BY <1>2, <2>4 DEF start_auth
    <3>2. IsDoingAuth(r)
      BY <2>3, <2>4 DEF IsDoingAuth, start_auth_query
    <3> HIDE DEF r
    <3> QED
      BY <1>0, <2>1, <2>3, <3>1, <3>2, ListsStep
  <2>5. CASE ident = "fail"
    <3>1. ~IsDoingAuth(r)
      BY <2>3, <2>5 DEF IsDoingAuth, start_auth_query
    <3>2. CASE Waiting(r)
      <4>1. auth' = [auth EXCEPT ![c] = r] /\ UNCHANGED poll
            /\ incomplete' = link_auth_request(c, incomplete)
        BY <1>2, <2>5, <3>2 DEF start_auth
      <4> HIDE DEF r
      <4> QED
        BY <1>0, <2>1, <2>3, <3>1, <4>1, ListsStep
    <3>3. CASE ~Waiting(r)
      <4>1. auth' = [auth EXCEPT ![c] = e] /\ UNCHANGED <<poll, incomplete>>
        BY <1>2, <2>5, <3>3 DEF start_auth, Done
      <4> HIDE DEF e
      <4> QED
        BY <1>0, <2>1, <2>3, <4>1, ListsStep
    <3> QED
      BY <3>2, <3>3
  <2> QED
    BY <2>2, <2>4, <2>5
<1>3. ASSUME NEW c \in Clients, auth[c].live, NEW r \in AuthRec, r.live,
             r.doing = auth[c].doing, auth_kill_client(c, r)
      PROVE  ListsInv'
  <2> DEFINE e == [r EXCEPT !.live = FALSE]
  <2>1. ~e.live /\ auth' = [auth EXCEPT ![c] = e]
    BY <1>3 DEF auth_kill_client, Gone, AuthRec
  <2>2. IsDoingAuth(r) <=> IsDoingAuth(auth[c])
    BY <1>3 DEF IsDoingAuth
  <2> HIDE DEF e
  <2>3. CASE IsDoingAuth(r)
    <3>1. poll' = unlink_auth_request(c, poll) /\ UNCHANGED incomplete
      BY <1>3, <2>3 DEF auth_kill_client
    <3> QED
      BY <1>0, <1>3, <2>1, <2>2, <2>3, <3>1, ListsStep
  <2>4. CASE ~IsDoingAuth(r)
    <3>1. incomplete' = unlink_auth_request(c, incomplete) /\ UNCHANGED poll
      BY <1>3, <2>4 DEF auth_kill_client
    <3> QED
      BY <1>0, <1>3, <2>1, <2>2, <2>4, <3>1, ListsStep
  <2> QED
    BY <2>3, <2>4
<1>4. ASSUME NEW c \in Clients, auth[c].live, NEW r \in AuthRec, r.live,
             r.doing = auth[c].doing, Held(c, r), UNCHANGED <<poll, incomplete>>
      PROVE  ListsInv'
  BY <1>0, <1>4, ListsStep DEF Held, IsDoingAuth
<1>5. ASSUME NEW c \in Clients, auth[c].live, NEW r \in AuthRec, r.live,
             r.doing = auth[c].doing, ~IsDoingAuth(r), Finish(c, r)
      PROVE  ListsInv'
  <2> DEFINE e == [r EXCEPT !.live = FALSE]
  <2>1. ~e.live /\ auth' = [auth EXCEPT ![c] = e]
        /\ incomplete' = unlink_auth_request(c, incomplete) /\ UNCHANGED poll
    BY <1>5 DEF Finish, Done, AuthRec
  <2>2. ~IsDoingAuth(auth[c])
    BY <1>5 DEF IsDoingAuth
  <2> HIDE DEF e
  <2> QED
    BY <1>0, <1>5, <2>1, <2>2, ListsStep
<1>6. ASSUME NEW c \in Clients, auth[c].live, IsDoingAuth(auth[c]),
             ident_over(c, [auth[c] EXCEPT !.doing = "no"])
      PROVE  ListsInv'
  <2> DEFINE r == [auth[c] EXCEPT !.doing = "no"]
             e == [r EXCEPT !.live = FALSE]
  <2>1. r \in AuthRec /\ r.live /\ ~IsDoingAuth(r)
    BY <1>0, <1>6 DEF AuthRec, IsDoingAuth
  <2>2. ~e.live
    BY <2>1 DEF AuthRec
  <2>3. ident_over(c, r)
    BY <1>6
  <2> HIDE DEF r
  <2>4. CASE Waiting(r)
    <3>1. /\ poll' = unlink_auth_request(c, poll)
          /\ incomplete' = link_auth_request(c, incomplete) /\ auth' = [auth EXCEPT ![c] = r]
      BY <2>3, <2>4 DEF ident_over, Held
    <3> QED
      BY <1>0, <1>6, <2>1, <3>1, ListsStep
  <2>5. CASE ~Waiting(r)
    <3>1. /\ poll' = unlink_auth_request(c, poll) /\ UNCHANGED incomplete
          /\ auth' = [auth EXCEPT ![c] = e]
      BY <2>3, <2>5 DEF ident_over, Done
    <3> HIDE DEF e
    <3> QED
      BY <1>0, <1>6, <2>2, <3>1, ListsStep
  <2> QED
    BY <2>4, <2>5
<1>7. ASSUME NEW c \in Clients, NEW answer, auth_dns_callback(c, answer) PROVE ListsInv'
  <2> DEFINE r == [auth[c] EXCEPT !.dns = FALSE]
  <2>1. auth[c].live
    <3>1. queries[c].dns = 1
      BY <1>7 DEF auth_dns_callback
    <3> QED
      BY <3>1, LiveFacts DEF NoQueries
  <2>2. r \in AuthRec /\ r.live /\ r.doing = auth[c].doing
    BY <1>0, <2>1 DEF AuthRec
  <2>3. \/ auth_kill_client(c, r)
        \/ ~IsDoingAuth(r) /\ Finish(c, r)
        \/ Held(c, r) /\ UNCHANGED <<poll, incomplete>>
    BY <1>7 DEF auth_dns_callback
  <2> HIDE DEF r
  <2> QED
    BY <1>3, <1>4, <1>5, <2>1, <2>2, <2>3
<1>8. ASSUME NEW c \in Clients, auth_dnsbl_callback(c) PROVE ListsInv'
  <2> DEFINE last == DnsblChecks /\ count[c] = 1
             r == [auth[c] EXCEPT !.dnsbl = IF last THEN FALSE ELSE @]
  <2>1. auth[c].live
    <3>1. queries[c].dnsbl > 0
      BY <1>8 DEF auth_dnsbl_callback
    <3> QED
      BY <3>1, LiveFacts DEF NoQueries
  <2>2. r \in AuthRec /\ r.live /\ r.doing = auth[c].doing
    <3> HIDE DEF last
    <3> QED
      BY <1>0, <2>1 DEF AuthRec
  <2>3. \/ ~IsDoingAuth(r) /\ Finish(c, r)
        \/ Held(c, r) /\ UNCHANGED <<poll, incomplete>>
    BY <1>8 DEF auth_dnsbl_callback
  <2> HIDE DEF r
  <2> QED
    BY <1>4, <1>5, <2>1, <2>2, <2>3
<1>9. ASSUME NEW c \in Clients, NEW result \in {"sent", "sendfail", "kill"}, send_auth_query(c, result)
      PROVE  ListsInv'
  <2>1. auth[c].live /\ auth[c].doing = "connecting" /\ IsDoingAuth(auth[c])
    BY <1>9 DEF send_auth_query, IsDoingAuth
  <2>2. CASE result = "sent"
    <3> DEFINE r == [auth[c] EXCEPT !.doing = "pending"]
    <3>1. auth' = [auth EXCEPT ![c] = r] /\ UNCHANGED <<poll, incomplete>>
      BY <1>9, <2>2 DEF send_auth_query, Held
    <3>2. r.live /\ IsDoingAuth(r)
      BY <1>0, <2>1 DEF AuthRec, IsDoingAuth
    <3> HIDE DEF r
    <3> QED
      BY <1>0, <2>1, <3>1, <3>2, ListsStep
  <2>3. CASE result = "sendfail"
    <3>1. ident_over(c, [auth[c] EXCEPT !.doing = "no"])
      BY <1>9, <2>3 DEF send_auth_query
    <3> QED
      BY <1>6, <2>1, <3>1
  <2>4. CASE result = "kill"
    <3>1. auth_kill_client(c, auth[c])
      BY <1>9, <2>4 DEF send_auth_query
    <3> QED
      BY <1>0, <1>3, <2>1, <3>1
  <2> QED
    BY <2>2, <2>3, <2>4
<1>10. ASSUME NEW c \in Clients, read_auth_reply(c) PROVE ListsInv'
  BY <1>6, <1>10 DEF read_auth_reply
<1>11. ASSUME NEW c \in Clients, NEW send_reports \in BOOLEAN, destroy_auth_request(c, send_reports)
       PROVE  ListsInv'
  <2> DEFINE e == [auth[c] EXCEPT !.live = FALSE]
  <2>1. auth[c].live /\ ~e.live /\ auth' = [auth EXCEPT ![c] = e]
    BY <1>0, <1>11 DEF destroy_auth_request, Done, Gone, AuthRec
  <2> HIDE DEF e
  <2>2. CASE IsDoingAuth(auth[c])
    <3>1. poll' = unlink_auth_request(c, poll) /\ UNCHANGED incomplete
      BY <1>11, <2>2 DEF destroy_auth_request
    <3> QED
      BY <1>0, <2>1, <2>2, <3>1, ListsStep
  <2>3. CASE ~IsDoingAuth(auth[c])
    <3>1. incomplete' = unlink_auth_request(c, incomplete) /\ UNCHANGED poll
      BY <1>11, <2>3 DEF destroy_auth_request
    <3> QED
      BY <1>0, <2>1, <2>3, <3>1, ListsStep
  <2> QED
    BY <2>2, <2>3
<1> QED
  BY <1>1, <1>2, <1>7, <1>8, <1>9, <1>10, <1>11 DEF Next, Resolver

(* All of it, for any number of clients and lists: where ban lists and     *)
(* ident are in use and no ident server is reached before connect()        *)
(* returns (s_auth.c:804 links a finished request otherwise).              *)
THEOREM AuthRightHolds ==
  ASSUME DnsblChecks, ~NoIdent, ~Immediate
  PROVE  Spec => []AuthRight
<1>1. Init => ListsInv
  <2> SUFFICES ASSUME Init PROVE ListsInv
    OBVIOUS
  <2>1. poll = <<>> /\ incomplete = <<>> /\ \A c \in Clients : ~auth[c].live
    BY DEF Init, NoRequest
  <2>2. Doing(auth) = {} /\ Idle(auth) = {}
    BY <2>1 DEF Doing, Idle
  <2>3. Holds(<<>>, {})
    BY DEF Holds, Injective, Elements
  <2> QED
    BY <2>1, <2>2, <2>3 DEF ListsInv
<1>2. IInv => NoDanglingQuery
  BY DEF IInv, Good, NoDanglingQuery, NoQueries
<1>3. IInv => ReleasedOnce
  BY DEF IInv, Good, ReleasedOnce
<1>4. IInv => HeldForAReason
  <2> SUFFICES ASSUME IInv, NEW c \in Clients, auth[c].live, ~IsDoingAuth(auth[c])
               PROVE  queries[c] # NoQueries
    BY DEF HeldForAReason, NoQueries
  <2>1. Good("auth", auth[c], count[c], queries[c], 0)
    BY LiveFacts
  <2>2. queries[c].dns = 1 \/ queries[c].dnsbl > 0
    BY <2>1 DEF Good
  <2> QED
    BY <2>2 DEF NoQueries
<1>5. ListsInv => ListsExact
  BY DEF ListsInv, Holds, ListsExact, Doing, Idle
<1>6. IInv /\ ListsInv => AuthRight
  BY <1>2, <1>3, <1>4, <1>5 DEF AuthRight
<1>7. IInv /\ ListsInv /\ [Next]_vars => ListsInv'
  BY NextLists
<1> QED
  BY <1>1, <1>6, <1>7, InitInv, NextInv, PTL DEF Spec
=============================================================================
