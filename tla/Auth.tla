-------------------------------- MODULE Auth --------------------------------
(***************************************************************************)
(* What a new connection waits for before it may speak (s_auth.c): its     *)
(* host name, the DNS ban lists and the ident server answer in any order,  *)
(* or the timer ends the wait.  A connection is held by an AuthRequest,    *)
(* which the resolver's callbacks, the ident socket and the timer all      *)
(* point to.                                                               *)
(***************************************************************************)
EXTENDS Integers, Sequences, Filter

CONSTANTS
    Clients,
    BLCount,         \* GlobalBLCount: the DNS ban lists configured
    DnsblChecks, NoIdent, NoDns, KillIpMismatch,   \* features
    Immediate        \* a connect() to an ident server may succeed at once

ASSUME AuthAssumption ==
    /\ BLCount \in Nat
    /\ {DnsblChecks, NoIdent, NoDns, KillIpMismatch, Immediate} \subseteq BOOLEAN

VARIABLES
    client,      \* new, auth, released (to the main loop) or killed (freed)
    auth,        \* the client's AuthRequest and its AM_ flags
    count,       \* cli_dnsblcount
    queries,     \* resolver queries outstanding for the request
    poll,        \* AuthPollList
    incomplete,  \* AuthIncompleteList
    releases     \* history: how often the client was released

vars == <<client, auth, count, queries, poll, incomplete, releases>>

(* doing: AM_AUTH_CONNECTING, AM_AUTH_PENDING or neither                   *)
NoRequest == [live |-> FALSE, doing |-> "no", dns |-> FALSE, dnsbl |-> FALSE]
IsDoingAuth(r) == r.doing # "no"
Waiting(r) == r.dns \/ (r.dnsbl /\ DnsblChecks)

Init ==
    /\ client = [c \in Clients |-> "new"]
    /\ auth = [c \in Clients |-> NoRequest]
    /\ count = [c \in Clients |-> 0]
    /\ queries = [c \in Clients |-> [dns |-> 0, dnsbl |-> 0]]
    /\ poll = <<>>
    /\ incomplete = <<>>
    /\ releases = [c \in Clients |-> 0]

-----------------------------------------------------------------------------
link_auth_request(c, list) == <<c>> \o list

(* A request that is on no list has no neighbours: "*list = request->next" *)
(* empties the list.                                                       *)
unlink_auth_request_head(c, list) == IF list = <<>> THEN list ELSE Tail(list)

unlink_auth_request(c, list) ==
    IF c \in Elements(list) THEN Drop(list, {c}) ELSE <<>>

(* release_auth_client and free_auth_request: the client goes to the main  *)
(* loop, the request ends with its socket and its timer.                   *)
Done(c, r) ==
    /\ client' = [client EXCEPT ![c] = "released"]
    /\ releases' = [releases EXCEPT ![c] = @ + 1]
    /\ auth' = [auth EXCEPT ![c] = [r EXCEPT !.live = FALSE]]

(* The client is freed, and its request with it.                           *)
Gone(c, r) ==
    /\ client' = [client EXCEPT ![c] = "killed"]
    /\ auth' = [auth EXCEPT ![c] = [r EXCEPT !.live = FALSE]]
    /\ UNCHANGED releases

Held(c, r) ==
    /\ auth' = [auth EXCEPT ![c] = r]
    /\ UNCHANGED <<client, releases>>

delete_resolver_queries(c) ==
    queries' = [queries EXCEPT ![c] = [dns |-> 0, dnsbl |-> 0]]

auth_kill_client(c, r) ==
    /\ IF IsDoingAuth(r)
       THEN /\ poll' = unlink_auth_request(c, poll)
            /\ UNCHANGED incomplete
       ELSE /\ incomplete' = unlink_auth_request(c, incomplete)
            /\ UNCHANGED poll
    /\ IF Waiting(r) THEN delete_resolver_queries(c)
       ELSE queries' = [queries EXCEPT ![c].dns = 0]
    /\ Gone(c, r)

(* The end of auth_error and read_auth_reply: the ident query is over.     *)
ident_over(c, r) ==
    /\ poll' = unlink_auth_request(c, poll)
    /\ IF Waiting(r)
       THEN /\ incomplete' = link_auth_request(c, incomplete)
            /\ Held(c, r)
       ELSE Done(c, r) /\ UNCHANGED incomplete
    /\ UNCHANGED <<count, queries>>

-----------------------------------------------------------------------------
(* start_dnsblcheck: the lists that do not answer from the cache are asked.*)
start_dnsblcheck(cached) == IF DnsblChecks THEN BLCount - cached ELSE 0

(* start_auth_query: no socket or no connection ("fail"), a connection in  *)
(* progress, or one that succeeds at once and takes the query or not.      *)
start_auth_query(ident) ==
    CASE ident = "connecting" -> "connecting"
      [] ident = "sent" -> "pending"
      [] OTHER -> "no"

(* start_auth.  dns tells how the host lookup starts, cached how many ban  *)
(* lists answer from the cache, ident what start_auth_query comes to.      *)
start_auth(c, dns, cached, ident) ==
    LET left == start_dnsblcheck(cached)
        r == [live |-> TRUE, dns |-> dns = "query", dnsbl |-> left > 0,
              doing |-> start_auth_query(ident)]
        q == [queries EXCEPT ![c] = [dns |-> IF r.dns THEN 1 ELSE 0,
                                     dnsbl |-> left]]
    IN  /\ client[c] = "new"
        /\ NoDns => dns = "skip"
        /\ NoIdent => ident = "fail"
        /\ ident \in {"sent", "sendfail", "kill"} => Immediate
        /\ count' = [count EXCEPT ![c] = left]
        /\ CASE NoIdent ->
                  /\ auth' = [auth EXCEPT ![c] = r]
                  /\ client' = [client EXCEPT ![c] = "auth"]
                  /\ queries' = q
                  /\ UNCHANGED <<poll, incomplete, releases>>
             [] ~NoIdent /\ ident \in {"connecting", "sent"} ->
                  /\ auth' = [auth EXCEPT ![c] = r]
                  /\ client' = [client EXCEPT ![c] = "auth"]
                  /\ poll' = link_auth_request(c, poll)
                  /\ queries' = q
                  /\ UNCHANGED <<incomplete, releases>>
             [] ~NoIdent /\ ident = "fail" ->
                  /\ queries' = q
                  /\ UNCHANGED poll
                  /\ IF Waiting(r)
                     THEN /\ auth' = [auth EXCEPT ![c] = r]
                          /\ client' = [client EXCEPT ![c] = "auth"]
                          /\ incomplete' = link_auth_request(c, incomplete)
                          /\ UNCHANGED releases
                     ELSE Done(c, r) /\ UNCHANGED incomplete
             \* send_auth_query fails inside start_auth_query, which returns
             \* 1 all the same: auth_error unlinks the request from the list
             \* that start_auth then links it to
             [] ~NoIdent /\ ident = "sendfail" ->
                  /\ queries' = q
                  /\ poll' = link_auth_request(c, unlink_auth_request(c, poll))
                  /\ IF Waiting(r)
                     THEN /\ auth' = [auth EXCEPT ![c] = r]
                          /\ client' = [client EXCEPT ![c] = "auth"]
                          /\ incomplete' = link_auth_request(c, incomplete)
                          /\ UNCHANGED releases
                     ELSE Done(c, r) /\ UNCHANGED incomplete
             [] ~NoIdent /\ ident = "kill" ->
                  /\ poll' = link_auth_request(c, unlink_auth_request(c, poll))
                  /\ Gone(c, r)
                  /\ UNCHANGED <<queries, incomplete>>

(* The request is finished by a resolver callback.                         *)
Finish(c, r) ==
    /\ Done(c, r)
    /\ incomplete' = unlink_auth_request(c, incomplete)
    /\ UNCHANGED poll

(* auth_dns_callback: the client is released only if ban lists are in use. *)
auth_dns_callback(c, answer) ==
    LET r == [auth[c] EXCEPT !.dns = FALSE]
    IN  /\ queries[c].dns = 1
        /\ UNCHANGED count
        /\ IF answer = "mismatch" /\ KillIpMismatch
           THEN auth_kill_client(c, r)
           ELSE /\ queries' = [queries EXCEPT ![c].dns = 0]
                /\ IF DnsblChecks /\ ~r.dnsbl /\ ~IsDoingAuth(r)
                   THEN Finish(c, r)
                   ELSE Held(c, r) /\ UNCHANGED <<poll, incomplete>>

auth_dnsbl_callback(c) ==
    LET last == DnsblChecks /\ count[c] = 1
        r == [auth[c] EXCEPT !.dnsbl = IF last THEN FALSE ELSE @]
    IN  /\ queries[c].dnsbl > 0
        /\ queries' = [queries EXCEPT ![c].dnsbl = @ - 1]
        /\ count' = [count EXCEPT ![c] = @ - 1]
        /\ IF last /\ ~IsDoingAuth(r) /\ ~r.dns
           THEN Finish(c, r)
           ELSE Held(c, r) /\ UNCHANGED <<poll, incomplete>>

(* auth_sock_callback, ET_CONNECT: send_auth_query                         *)
send_auth_query(c, result) ==
    /\ auth[c].live
    /\ auth[c].doing = "connecting"
    /\ CASE result = "sent" ->
              /\ Held(c, [auth[c] EXCEPT !.doing = "pending"])
              /\ UNCHANGED <<count, queries, poll, incomplete>>
         [] result = "sendfail" -> ident_over(c, [auth[c] EXCEPT !.doing = "no"])
         [] result = "kill" -> auth_kill_client(c, auth[c]) /\ UNCHANGED count

(* auth_sock_callback, ET_READ, ET_EOF and ET_ERROR                        *)
read_auth_reply(c) ==
    /\ auth[c].live
    /\ IsDoingAuth(auth[c])
    /\ ident_over(c, [auth[c] EXCEPT !.doing = "no"])

(* destroy_auth_request: called by auth_timeout_callback (send_reports),   *)
(* which lets the client in, and by free_client when the client exits      *)
(* while it is held: its own socket had an error or was closed.            *)
destroy_auth_request_ident(c, send_reports) ==
    /\ auth[c].live
    /\ IsDoingAuth(auth[c])
    /\ ident_over(c, [auth[c] EXCEPT !.doing = "no"])

destroy_auth_request(c, send_reports) ==
    /\ auth[c].live
    /\ IF IsDoingAuth(auth[c])
       THEN /\ poll' = unlink_auth_request(c, poll)
            /\ UNCHANGED incomplete
       ELSE /\ incomplete' = unlink_auth_request(c, incomplete)
            /\ UNCHANGED poll
    /\ IF Waiting(auth[c]) THEN delete_resolver_queries(c) ELSE UNCHANGED queries
    /\ IF send_reports THEN Done(c, auth[c]) ELSE Gone(c, auth[c])
    /\ UNCHANGED count

Resolver(c) ==
    \/ \E answer \in {"name", "mismatch", "none"} : auth_dns_callback(c, answer)
    \/ auth_dnsbl_callback(c)

Next ==
    \E c \in Clients :
        \/ \E dns \in {"skip", "cached", "query"}, cached \in 0 .. BLCount,
              ident \in {"fail", "connecting", "sent", "sendfail", "kill"} :
              start_auth(c, dns, cached, ident)
        \/ Resolver(c)
        \/ \E result \in {"sent", "sendfail", "kill"} : send_auth_query(c, result)
        \/ read_auth_reply(c)
        \/ \E send_reports \in BOOLEAN : destroy_auth_request(c, send_reports)

Spec == Init /\ [][Next]_vars

(* Timers run.  Nothing is assumed of the resolver or the ident server.    *)
FairSpec == Spec /\ \A c \in Clients : WF_vars(destroy_auth_request(c, TRUE))

-----------------------------------------------------------------------------
(* No query that holds a pointer to a request survives the request, in     *)
(* whatever order host name, ban lists, ident and timer come               *)
(* (delete_resolver_queries, and the waiting in ident_over).               *)
NoDanglingQuery ==
    \A c \in Clients : queries[c] # [dns |-> 0, dnsbl |-> 0] => auth[c].live

(* A client is handed to the main loop once, and never after it was freed: *)
(* release_auth_client adds it to LocalClientArray and the client list.    *)
ReleasedOnce ==
    \A c \in Clients : releases[c] = IF client[c] = "released" THEN 1 ELSE 0

(* The two lists hold exactly the requests that are in progress, by        *)
(* whether ident is: "auth queries pending io".                            *)
ListsExact ==
    /\ Elements(poll) = {c \in Clients : auth[c].live /\ IsDoingAuth(auth[c])}
    /\ Elements(incomplete) = {c \in Clients : auth[c].live /\ ~IsDoingAuth(auth[c])}
    /\ Injective(poll) /\ Injective(incomplete)

(* auth_dns_callback: "Send the client on it's way to a connection         *)
(* completion, regardless of success or failure": a client is held only    *)
(* while an answer is outstanding.                                         *)
HeldForAReason ==
    \A c \in Clients : auth[c].live =>
        IsDoingAuth(auth[c]) \/ queries[c] # [dns |-> 0, dnsbl |-> 0]

(* Connections that wait: no query points at a request that was freed, the *)
(* lists are exact, a client is held as long as there is a wait and then   *)
(* released to the main loop, once.                                        *)
AuthRight == NoDanglingQuery /\ ListsExact /\ HeldForAReason /\ ReleasedOnce
=============================================================================
