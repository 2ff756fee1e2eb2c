------------------------------ MODULE IPcheck ------------------------------
(***************************************************************************)
(* The registry of client addresses (IPcheck.c): how many clients each     *)
(* address has on the network, how often it tried to connect lately, and   *)
(* the callers that keep it up to date over the life of a connection       *)
(* (s_bsd.c, s_auth.c, m_webirc.c, m_nick.c, s_user.c, s_misc.c).          *)
(*                                                                         *)
(* FEAT_IPCHECK is on.  The server was started at time 0.  Free targets    *)
(* (IPTargetEntry) are left out: they depend on the registry, not it on    *)
(* them.                                                                   *)
(***************************************************************************)
EXTENDS Integers, FiniteSets

CONSTANTS
    Addrs, Clients,
    Exempt,       \* addresses with an E:line for IPcheck (find_eline)
    Zlined,       \* addresses with a Z:line (zline_lookup_oc)
    ServerPorts,  \* connections to server ports are considered
    CloneLimit, ClonePeriod, CloneDelay, NoThrottle,   \* features
    Maximum,      \* aconf->maximum of the I:line
    ExpireAfter,  \* 600: ip_registry_expire_entry
    TimeMod,      \* 2^16: NOW is an unsigned short
    ConnMod,      \* 2^16: connected is an unsigned short
    AttMod,       \* 2^8: attempts is an unsigned char
    MaxTries, MaxTime,
    MaxFails      \* per address, sockets that the event engine does not take

VARIABLES
    entry,     \* hashTable: entry[a], on = FALSE if there is none
    client,    \* client[c]: state, address, FLAG_IPCHECK, port it came in on
    now,       \* CurrentTime
    failed,    \* an assertion of IPcheck.c has failed
    tries,     \* history: tries[a], the connection attempts from a
    lost       \* history: lost[a], connections from a that socket_add refused
               \* after they had been counted

vars == <<entry, client, now, failed, tries, lost>>

NOW == now % TimeMod
CONNECTED_SINCE(e) == NOW - e.last

NoEntry == [on |-> FALSE, last |-> 0, conn |-> 0, att |-> 0]
ip_registry_new_entry == [on |-> TRUE, last |-> NOW, conn |-> 1, att |-> 1]

Off == [st |-> "off", addr |-> CHOOSE a \in Addrs : TRUE, checked |-> FALSE,
        server |-> FALSE]
Online(a) == {c \in Clients : /\ client[c].st # "off"
                              /\ client[c].addr = a
                              /\ ~client[c].server}

Init ==
    /\ entry = [a \in Addrs |-> NoEntry]
    /\ client = [c \in Clients |-> Off]
    /\ now = 0
    /\ failed = FALSE
    /\ tries = [a \in Addrs |-> 0]
    /\ lost = [a \in Addrs |-> 0]

-----------------------------------------------------------------------------
(* The registry.  Each operation maps an entry to an entry.                *)

(* ++attempts, unless it would overflow; an old count starts afresh.       *)
Attempted(e, counts) ==
    LET old == IF CONNECTED_SINCE(e) > ClonePeriod THEN 0 ELSE e.att
    IN  IF counts /\ old + 1 < AttMod THEN old + 1 ELSE old

(* The connection is accepted (ok), or the count of clients is restored.   *)
ip_registry_check_local_keeps(e) ==
    LET n == [on |-> TRUE, last |-> NOW, conn |-> e.conn + 1,
              att |-> Attempted(e, TRUE)]
    IN  IF ~e.on THEN [ok |-> TRUE, e |-> ip_registry_new_entry]
        ELSE [ok |-> n.att < CloneLimit \/ now >= CloneDelay \/ NoThrottle, e |-> n]

ip_registry_check_local(e) ==
    LET n == [on |-> TRUE, last |-> NOW, conn |-> e.conn + 1,
              att |-> Attempted(e, TRUE)]
    IN  IF ~e.on THEN [ok |-> TRUE, e |-> ip_registry_new_entry]
        ELSE IF n.conn = ConnMod THEN [ok |-> FALSE, e |-> e]
        ELSE IF n.att < CloneLimit \/ now >= CloneDelay \/ NoThrottle
        THEN [ok |-> TRUE, e |-> n]
        ELSE [ok |-> FALSE, e |-> [n EXCEPT !.conn = e.conn]]

ip_registry_check_remote(e, burst) ==
    IF ~e.on
    THEN [ok |-> TRUE,
          e |-> [ip_registry_new_entry EXCEPT !.att = IF burst THEN 0 ELSE 1]]
    ELSE IF e.conn + 1 = ConnMod
    THEN [ok |-> FALSE, e |-> [e EXCEPT !.conn = 0]]
    ELSE [ok |-> TRUE,
          e |-> [e EXCEPT !.conn = @ + 1,
                          !.att  = Attempted(e, ~burst),
                          !.last = IF burst THEN @ ELSE NOW]]

(* "undoes the effect of ip_registry_check_local()"                        *)
ip_registry_connect_fail(e) ==
    IF e.on /\ e.att # 1 THEN [e EXCEPT !.att = (@ - 1) % AttMod] ELSE e

ip_registry_disconnect(e) ==
    LET conn == (e.conn - 1) % ConnMod
        old  == CONNECTED_SINCE(e) > CloneLimit * ClonePeriod
    IN  [e EXCEPT !.conn = conn,
                  !.att  = IF conn = 0 /\ old THEN 0 ELSE @,
                  !.last = IF conn = 0 THEN NOW ELSE @]

(* The assertions that IPcheck_disconnect makes on the client's entry.     *)
DisconnectOK(e) == e.on /\ e.conn > 0

ip_registry_disconnect_ip(e) ==
    IF e.on /\ e.conn > 0 THEN [e EXCEPT !.conn = @ - 1] ELSE e

(* The last clause of exit_one_client: what leaving does to the entry.     *)
Counted(c) == client[c].addr \notin Exempt /\ client[c].checked
Left(c, e) == IF Counted(c) THEN ip_registry_disconnect(e) ELSE e

-----------------------------------------------------------------------------
(* The callers                                                             *)

(* add_connection.  On a server port the address is not checked in, but a  *)
(* Z-lined one is checked out all the same.  When the event engine does    *)
(* not take the socket (fails) the connection is closed, and an address    *)
(* that was checked in is not checked out.                                 *)
add_connection(c, a, server, fails) ==
    LET r == IF server THEN [ok |-> TRUE, e |-> entry[a]]
             ELSE ip_registry_check_local(entry[a])
        refused == ~r.ok /\ a \notin Exempt
    IN  /\ client[c].st = "off"
        /\ server => ServerPorts
        /\ fails => ~refused /\ a \notin Zlined /\ lost[a] < MaxFails
        /\ tries[a] < MaxTries
        /\ tries' = [tries EXCEPT ![a] = IF server THEN @ ELSE @ + 1]
        /\ entry' = [entry EXCEPT ![a] =
                        IF a \in Zlined /\ ~refused
                        THEN ip_registry_disconnect_ip(r.e) ELSE r.e]
        /\ client' = IF refused \/ a \in Zlined \/ fails THEN client
                     ELSE [client EXCEPT ![c] =
                             [st |-> "auth", addr |-> a, server |-> server,
                              checked |-> ~server /\ a \notin Exempt]]
        /\ lost' = [lost EXCEPT ![a] = IF fails /\ ~server THEN @ + 1 ELSE @]
        /\ UNCHANGED <<now, failed>>

(* auth_kill_client: the assertion IsIPChecked is that of                  *)
(* IPcheck_disconnect.                                                     *)
auth_kill_client(c) ==
    LET a == client[c].addr
    IN  /\ client[c].st = "auth"
        /\ a \notin Exempt
        /\ failed' = (failed \/ ~client[c].checked \/ ~DisconnectOK(entry[a]))
        /\ entry' = [entry EXCEPT ![a] =
                        IF @.on THEN ip_registry_disconnect(@) ELSE @]
        /\ client' = [client EXCEPT ![c] = Off]
        /\ UNCHANGED <<now, tries, lost>>

(* m_webirc: a gateway names the client's real address b.                  *)
m_webirc(c, b) ==
    LET a  == client[c].addr
        E1 == IF a \in Exempt THEN entry
              ELSE [entry EXCEPT ![a] =
                       ip_registry_disconnect(ip_registry_connect_fail(@))]
        r  == ip_registry_check_local(E1[b])
    IN  /\ client[c].st = "auth"
        /\ ~client[c].server
        /\ tries[b] < MaxTries
        /\ tries' = [tries EXCEPT ![b] = @ + 1]
        /\ failed' = (failed \/ (a \notin Exempt /\ ~DisconnectOK(entry[a])))
        /\ IF b \in Exempt
           THEN /\ entry' = E1
                /\ client' = [client EXCEPT ![c].addr = b, ![c].checked = FALSE]
           ELSE /\ entry' = [E1 EXCEPT ![b] = r.e]
                /\ client' = [client EXCEPT ![c] =
                     IF r.ok THEN [@ EXCEPT !.addr = b, !.checked = TRUE] ELSE Off]
        /\ UNCHANGED <<now, lost>>

(* exit_one_client                                                         *)
Exit(c, e) ==
    LET a == client[c].addr
    IN  /\ failed' = (failed \/ (Counted(c) /\ ~DisconnectOK(e)))
        /\ entry' = [entry EXCEPT ![a] = Left(c, e)]
        /\ client' = [client EXCEPT ![c] = Off]
        /\ UNCHANGED <<now, tries, lost>>

Quit(c) == client[c].st # "off" /\ Exit(c, entry[client[c].addr])

(* A connection dropped through no fault of its own: its nick is taken     *)
(* over before it registers (m_nick, ms_nick), or ACR_BAD_SOCKET.          *)
Overridden(c) ==
    /\ client[c].st = "auth"
    /\ ~client[c].server
    /\ Exit(c, IF client[c].addr \in Exempt THEN entry[client[c].addr]
               ELSE ip_registry_connect_fail(entry[client[c].addr]))

(* register_user for a local client: check_limit_and_attach refuses it if  *)
(* its address has more clients than the I:line allows.                    *)
IPcheck_nr(c) == IF entry[client[c].addr].on THEN entry[client[c].addr].conn ELSE 0

register_local(c) ==
    LET a == client[c].addr
    IN  /\ client[c].st = "auth"
        /\ ~client[c].server
        /\ IF a \notin Exempt /\ IPcheck_nr(c) > Maximum
           THEN Exit(c, entry[a])
           ELSE /\ client' = [client EXCEPT ![c].st = "user"]
                /\ failed' = (failed \/ (a \notin Exempt /\ ~entry[a].on))
                /\ UNCHANGED <<entry, now, tries, lost>>

(* register_user for a client of another server                            *)
register_remote(c, a, burst) ==
    LET r == ip_registry_check_remote(entry[a], burst)
    IN  /\ client[c].st = "off"
        /\ tries[a] < MaxTries
        /\ tries' = [tries EXCEPT ![a] = @ + 1]
        /\ IF a \in Exempt
           THEN /\ client' = [client EXCEPT ![c] = [st |-> "remote", addr |-> a,
                                            server |-> FALSE, checked |-> FALSE]]
                /\ UNCHANGED <<entry, failed>>
           ELSE IF r.ok
           THEN /\ client' = [client EXCEPT ![c] = [st |-> "remote", addr |-> a,
                                            server |-> FALSE, checked |-> TRUE]]
                /\ entry' = [entry EXCEPT ![a] = r.e]
                /\ UNCHANGED failed
           ELSE /\ entry' = [entry EXCEPT ![a] = ip_registry_disconnect(r.e)]
                /\ failed' = (failed \/ ~DisconnectOK(r.e))
                /\ UNCHANGED client
        /\ UNCHANGED <<now, lost>>

(* The timer: entries without clients that are old are freed.              *)
ip_registry_expire_entry(e) == e.conn = 0 /\ CONNECTED_SINCE(e) > ExpireAfter

ip_registry_expire ==
    /\ entry' = [a \in Addrs |->
                    IF entry[a].on /\ ip_registry_expire_entry(entry[a])
                    THEN NoEntry ELSE entry[a]]
    /\ UNCHANGED <<client, now, failed, tries, lost>>

Tick ==
    /\ now < MaxTime
    /\ now' = now + 1
    /\ UNCHANGED <<entry, client, failed, tries, lost>>

Next ==
    \/ \E c \in Clients, a \in Addrs, server \in BOOLEAN, fails \in BOOLEAN :
          add_connection(c, a, server, fails)
    \/ \E c \in Clients : auth_kill_client(c) \/ Quit(c) \/ Overridden(c)
                             \/ register_local(c)
    \/ \E c \in Clients, b \in Addrs : m_webirc(c, b)
    \/ \E c \in Clients, a \in Addrs, burst \in BOOLEAN : register_remote(c, a, burst)
    \/ ip_registry_expire
    \/ Tick

Spec == Init /\ [][Next]_vars

-----------------------------------------------------------------------------
(* connected is the "number of currently connected clients" of the         *)
(* address, over connecting, renaming by a gateway, rejection and exit,    *)
(* and the connections that add_connection counted and then could not give *)
(* to the event engine, which stay counted: nothing else is counted twice  *)
(* or left over, and no entry that has clients is expired.  Exempt         *)
(* addresses are checked in by add_connection and never out.               *)
ConnectedExact ==
    \A a \in Addrs \ Exempt : entry[a].conn = Cardinality(Online(a)) + lost[a]

(* No address ever has more registered local clients than its I:line       *)
(* allows, although clients come and go between connecting and             *)
(* registering, when the limit is checked.                                 *)
CloneLimitHolds ==
    \A a \in Addrs \ Exempt :
        Cardinality({c \in Clients : client[c].st = "user" /\ client[c].addr = a})
            <= Maximum

(* The assertions of IPcheck.c: a client that leaves was checked in, and   *)
(* its address has an entry that counts it.                                *)
AssertsHold == ~failed

(* The registry counts the clients of every address and the sockets lost,  *)
(* no assertion of IPcheck.c fails, and no address gets around the limit.  *)
RegistryRight == ConnectedExact /\ AssertsHold /\ CloneLimitHolds
=============================================================================
