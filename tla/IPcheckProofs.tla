--------------------------- MODULE IPcheckProofs ---------------------------
(***************************************************************************)
(* The registry of addresses is exact for any number of addresses and      *)
(* clients, any features and any widths of its counters that can count the *)
(* clients.  IPcheck_disconnect asserts that, and check_limit_and_attach   *)
(* relies on it.                                                           *)
(***************************************************************************)
EXTENDS IPcheck, FiniteSetTheorems, TLAPS

(* What the proofs ask of the constants: fewer clients and lost sockets    *)
(* than an unsigned short can count, and no connections to server ports,   *)
(* which are not checked in and yet checked out.                           *)
RegistryAssumption ==
    /\ Addrs # {}
    /\ IsFiniteSet(Clients)
    /\ MaxFails \in Nat
    /\ Cardinality(Clients) + MaxFails < ConnMod
    /\ {TimeMod, ConnMod, AttMod} \subseteq Nat \ {0}
    /\ {CloneLimit, ClonePeriod, CloneDelay, Maximum, ExpireAfter} \subseteq Nat
    /\ NoThrottle \in BOOLEAN
    /\ ServerPorts = FALSE

EntryRec == [on : BOOLEAN, last : Nat, conn : Nat, att : Nat]
ClientRec == [st : {"off", "auth", "user", "remote"}, addr : Addrs,
              checked : BOOLEAN, server : {FALSE}]

(* A client that is connected was checked in unless its address is exempt. *)
CheckedRight ==
    \A c \in Clients : client[c].checked <=> client[c].st # "off"
                                             /\ client[c].addr \notin Exempt

IInv ==
    /\ entry \in [Addrs -> EntryRec]
    /\ client \in [Clients -> ClientRec]
    /\ now \in Nat
    /\ lost \in [Addrs -> 0..MaxFails]
    /\ \A a \in Addrs : ~entry[a].on => entry[a].conn = 0
    /\ CheckedRight
    /\ ConnectedExact
    /\ CloneLimitHolds
    /\ failed = FALSE

-----------------------------------------------------------------------------
(* Arithmetic modulo the width of a counter.                               *)
LEMMA ModSmall ==
  ASSUME NEW m \in Nat, NEW x \in Nat, x < m
  PROVE  x % m = x
OBVIOUS

(* What a counter of a width holds is a natural number.                    *)
LEMMA ModNat ==
  ASSUME NEW m \in Nat \ {0}, NEW x \in Int
  PROVE  x % m \in Nat
OBVIOUS

(* An entry of the hash table has four fields, and so has a changed one.   *)
LEMMA EntryType ==
  ASSUME NEW on \in BOOLEAN, NEW last \in Nat, NEW conn \in Nat, NEW att \in Nat
  PROVE  [on |-> on, last |-> last, conn |-> conn, att |-> att] \in EntryRec
BY DEF EntryRec

(* Setting connected leaves the rest of an entry.                          *)
LEMMA EntryExcept ==
  ASSUME NEW e \in EntryRec, NEW conn \in Nat
  PROVE  LET r == [e EXCEPT !.conn = conn]
         IN  r \in EntryRec /\ (r.on <=> e.on) /\ r.conn = conn
BY DEF EntryRec

(* ip_registry_check_local counts a connection it accepts, and no other.   *)
LEMMA CheckLocal ==
  ASSUME RegistryAssumption, now \in Nat, NEW e \in EntryRec, ~e.on => e.conn = 0
  PROVE  LET r == ip_registry_check_local(e)
         IN  /\ r.e \in EntryRec
             /\ ~r.e.on => r.e.conn = 0
             /\ r.ok \in BOOLEAN
             /\ r.ok => r.e.on /\ r.e.conn = e.conn + 1
             /\ ~r.ok => r.e.conn = e.conn
<1>1. NOW \in Nat
  BY ModNat DEF NOW, RegistryAssumption
<1>2. Attempted(e, TRUE) \in Nat
  BY <1>1 DEF Attempted, CONNECTED_SINCE, EntryRec, RegistryAssumption
<1> DEFINE r == ip_registry_check_local(e)
           n == [on |-> TRUE, last |-> NOW, conn |-> e.conn + 1,
                 att |-> Attempted(e, TRUE)]
<1>3. /\ e.conn \in Nat /\ n \in EntryRec
      /\ [n EXCEPT !.conn = e.conn] \in EntryRec
      /\ [n EXCEPT !.conn = e.conn].conn = e.conn
      /\ [n EXCEPT !.conn = e.conn].on
  <2>1. e.conn \in Nat /\ e.conn + 1 \in Nat
    BY DEF EntryRec
  <2>2. n \in EntryRec
    BY <1>1, <1>2, <2>1, EntryType
  <2>3. n.on
    OBVIOUS
  <2> HIDE DEF n
  <2> QED
    BY <2>1, <2>2, <2>3, EntryExcept
<1>4. CASE ~e.on
  BY <1>1, <1>4 DEF ip_registry_check_local, ip_registry_new_entry, EntryRec
<1>5. CASE e.on /\ e.conn + 1 = ConnMod
  BY <1>5 DEF ip_registry_check_local
<1>6. CASE e.on /\ e.conn + 1 # ConnMod
  <2> DEFINE ok == Attempted(e, TRUE) < CloneLimit \/ now >= CloneDelay \/ NoThrottle
  <2>1. CASE ok
    <3>1. r = [ok |-> TRUE, e |-> n]
      BY <1>6, <2>1 DEF ip_registry_check_local
    <3> QED
      BY <1>3, <3>1
  <2>2. CASE ~ok
    <3>1. r = [ok |-> FALSE, e |-> [n EXCEPT !.conn = e.conn]]
      BY <1>6, <2>2 DEF ip_registry_check_local
    <3> QED
      BY <1>3, <3>1
  <2> QED
    BY <2>1, <2>2
<1> QED
  BY <1>4, <1>5, <1>6

(* ip_registry_check_remote counts every connection but the one too many.  *)
LEMMA CheckRemote ==
  ASSUME RegistryAssumption, now \in Nat, NEW e \in EntryRec, ~e.on => e.conn = 0,
         e.conn + 1 < ConnMod, NEW burst \in BOOLEAN
  PROVE  LET r == ip_registry_check_remote(e, burst)
         IN  r.e \in EntryRec /\ r.e.on /\ r.ok /\ r.e.conn = e.conn + 1
<1>1. NOW \in Nat
  BY ModNat DEF NOW, RegistryAssumption
<1>2. Attempted(e, ~burst) \in Nat
  BY <1>1 DEF Attempted, CONNECTED_SINCE, EntryRec, RegistryAssumption
<1> DEFINE r == ip_registry_check_remote(e, burst)
<1>3. e.conn \in Nat /\ e.last \in Nat /\ e.on \in BOOLEAN
  BY DEF EntryRec
<1>4. CASE ~e.on
  <2> DEFINE n == [on |-> TRUE, last |-> NOW, conn |-> 1, att |-> IF burst THEN 0 ELSE 1]
  <2>1. r = [ok |-> TRUE, e |-> n]
    BY <1>4 DEF ip_registry_check_remote, ip_registry_new_entry
  <2>2. n \in EntryRec
    BY <1>1, EntryType
  <2> QED
    BY <1>3, <1>4, <2>1, <2>2
<1>5. CASE e.on
  <2>1. e.conn + 1 # ConnMod /\ e.conn + 1 \in Nat
    BY <1>3 DEF RegistryAssumption
  <2> DEFINE last == IF burst THEN e.last ELSE NOW
             att == Attempted(e, ~burst)
             n == [e EXCEPT !.conn = e.conn + 1, !.att = att, !.last = last]
  <2>2. r = [ok |-> TRUE, e |-> n]
    BY <1>5, <2>1 DEF ip_registry_check_remote
  <2>3. last \in Nat /\ att \in Nat
    BY <1>1, <1>2, <1>3
  <2> HIDE DEF last, att
  <2>4. n \in EntryRec /\ (n.on <=> e.on) /\ n.conn = e.conn + 1
    BY <2>1, <2>3 DEF EntryRec
  <2> HIDE DEF n
  <2> QED
    BY <1>5, <2>2, <2>4
<1> QED
  BY <1>4, <1>5

(* ip_registry_connect_fail leaves the count of clients alone.             *)
LEMMA ConnectFail ==
  ASSUME RegistryAssumption, NEW e \in EntryRec
  PROVE  LET r == ip_registry_connect_fail(e)
         IN  r \in EntryRec /\ (r.on <=> e.on) /\ r.conn = e.conn
<1>1. (e.att - 1) % AttMod \in Nat
  BY ModNat DEF EntryRec, RegistryAssumption
<1> QED
  BY <1>1 DEF ip_registry_connect_fail, EntryRec

(* ip_registry_disconnect takes one client off a count that has one.       *)
LEMMA Disconnect ==
  ASSUME RegistryAssumption, now \in Nat, NEW e \in EntryRec,
         e.conn > 0, e.conn < ConnMod
  PROVE  LET r == ip_registry_disconnect(e)
         IN  r \in EntryRec /\ (r.on <=> e.on) /\ r.conn = e.conn - 1
<1>1. NOW \in Nat
  BY ModNat DEF NOW, RegistryAssumption
<1>2. (e.conn - 1) % ConnMod = e.conn - 1 /\ e.conn - 1 \in Nat
  BY ModSmall DEF EntryRec, RegistryAssumption
<1> QED
  BY <1>1, <1>2 DEF ip_registry_disconnect, EntryRec

-----------------------------------------------------------------------------
(* The client is connected and counted for address a.                      *)
HereAt(k, a) == k.st # "off" /\ k.addr = a /\ ~k.server
One(k, a) == IF HereAt(k, a) THEN 1 ELSE 0

(* The clients of an address when one client changes                       *)
LEMMA OnlineStep ==
  ASSUME RegistryAssumption, client \in [Clients -> ClientRec],
         NEW c \in Clients, NEW k \in ClientRec, client' = [client EXCEPT ![c] = k],
         NEW a
  PROVE  /\ Cardinality(Online(a)) \in Nat
         /\ Cardinality(Online(a)') = Cardinality(Online(a)) + One(k, a)
                                         - One(client[c], a)
<1>1. Online(a) = {d \in Clients : HereAt(client[d], a)}
  BY DEF Online, HereAt
<1>2. Online(a)' = {d \in Clients : HereAt(client'[d], a)}
  BY DEF Online, HereAt
<1>3. IsFiniteSet(Online(a)) /\ Cardinality(Online(a)) \in Nat
  BY <1>1, FS_Subset, FS_CardinalityType DEF RegistryAssumption
<1>4. \A d \in Clients : client'[d] = IF d = c THEN k ELSE client[d]
  OBVIOUS
<1>5. CASE HereAt(k, a) /\ HereAt(client[c], a)
  <2>1. Online(a)' = Online(a)
    BY <1>1, <1>2, <1>4, <1>5
  <2> QED
    BY <1>3, <1>5, <2>1 DEF One
<1>6. CASE HereAt(k, a) /\ ~HereAt(client[c], a)
  <2>1. Online(a)' = Online(a) \cup {c} /\ c \notin Online(a)
    BY <1>1, <1>2, <1>4, <1>6
  <2> QED
    BY <1>3, <1>6, <2>1, FS_AddElement DEF One
<1>7. CASE ~HereAt(k, a) /\ HereAt(client[c], a)
  <2>1. Online(a)' = Online(a) \ {c} /\ c \in Online(a)
    BY <1>1, <1>2, <1>4, <1>7
  <2> QED
    BY <1>3, <1>7, <2>1, FS_RemoveElement DEF One
<1>8. CASE ~HereAt(k, a) /\ ~HereAt(client[c], a)
  <2>1. Online(a)' = Online(a)
    BY <1>1, <1>2, <1>4, <1>8
  <2> QED
    BY <1>3, <1>8, <2>1 DEF One
<1> QED
  BY <1>5, <1>6, <1>7, <1>8

(* A count never exceeds the number of clients and lost sockets, and an    *)
(* address with a client has an entry that counts it.                      *)
LEMMA ConnBound ==
  ASSUME RegistryAssumption, IInv, NEW a \in Addrs \ Exempt, NEW c \in Clients
  PROVE  /\ entry[a].conn \in Nat /\ entry[a].conn < ConnMod
         /\ HereAt(client[c], a) => entry[a].on /\ entry[a].conn > 0
         /\ ~HereAt(client[c], a) => entry[a].conn + 1 < ConnMod
<1>1. Online(a) = {d \in Clients : HereAt(client[d], a)}
  BY DEF Online, HereAt
<1>2. entry[a].conn = Cardinality(Online(a)) + lost[a] /\ (~entry[a].on => entry[a].conn = 0)
      /\ lost[a] \in 0..MaxFails
  BY DEF IInv, ConnectedExact
<1>3. IsFiniteSet(Clients) /\ Cardinality(Clients) \in Nat /\ ConnMod \in Nat
      /\ MaxFails \in Nat /\ Cardinality(Clients) + MaxFails < ConnMod
  BY FS_CardinalityType DEF RegistryAssumption
<1>4. IsFiniteSet(Online(a)) /\ Cardinality(Online(a)) \in Nat
      /\ Cardinality(Online(a)) <= Cardinality(Clients)
  BY <1>1, <1>3, FS_Subset, FS_CardinalityType
<1>5. ASSUME HereAt(client[c], a) PROVE entry[a].on /\ entry[a].conn > 0
  <2>1. Online(a) # {}
    BY <1>1, <1>5
  <2>2. Cardinality(Online(a)) # 0
    BY <1>4, <2>1, FS_EmptySet
  <2> QED
    BY <1>2, <1>3, <1>4, <2>2
<1>6. ASSUME ~HereAt(client[c], a) PROVE entry[a].conn + 1 < ConnMod
  <2>1. c \notin Online(a) /\ Online(a) \cup {c} \subseteq Clients
    BY <1>1, <1>6
  <2>2. Cardinality(Online(a) \cup {c}) = Cardinality(Online(a)) + 1
    BY <1>4, <2>1, FS_AddElement
  <2>3. Cardinality(Online(a) \cup {c}) <= Cardinality(Clients)
    BY <1>3, <2>1, FS_Subset
  <2> QED
    BY <1>2, <1>3, <1>4, <2>2, <2>3
<1> QED
  BY <1>2, <1>3, <1>4, <1>5, <1>6

(* A step that changes one client preserves the invariant if the registry  *)
(* follows the client: every count changes by what the client's address    *)
(* gains or loses, in clients and in lost sockets, and whoever becomes a   *)
(* user was let in by the limit.                                           *)
LEMMA CountStep ==
  ASSUME RegistryAssumption, IInv,
         NEW c \in Clients, NEW k \in ClientRec,
         client' = [client EXCEPT ![c] = k],
         k.checked <=> k.st # "off" /\ k.addr \notin Exempt,
         entry' \in [Addrs -> EntryRec],
         \A a \in Addrs : ~entry'[a].on => entry'[a].conn = 0,
         \A a \in Addrs \ Exempt :
            entry'[a].conn = entry[a].conn + One(k, a) - One(client[c], a)
                                + lost'[a] - lost[a],
         lost' \in [Addrs -> 0..MaxFails],
         k.st = "user" /\ k.addr \notin Exempt => entry'[k.addr].conn <= Maximum,
         now' \in Nat, failed' = FALSE
  PROVE  IInv'
<1>1. client \in [Clients -> ClientRec] /\ CheckedRight /\ ConnectedExact /\ CloneLimitHolds
  BY DEF IInv
<1>2. client' \in [Clients -> ClientRec]
  BY <1>1
<1>3. CheckedRight'
  BY <1>1 DEF CheckedRight
<1>4. ConnectedExact'
  <2> SUFFICES ASSUME NEW a \in Addrs \ Exempt
               PROVE  entry'[a].conn = Cardinality(Online(a)') + lost'[a]
    BY DEF ConnectedExact
  <2>1. entry[a].conn = Cardinality(Online(a)) + lost[a]
    BY <1>1 DEF ConnectedExact
  <2>2. Cardinality(Online(a)') = Cardinality(Online(a)) + One(k, a) - One(client[c], a)
        /\ Cardinality(Online(a)) \in Nat
    BY <1>1, OnlineStep
  <2>3. lost[a] \in Nat /\ lost'[a] \in Nat /\ One(k, a) \in Nat /\ One(client[c], a) \in Nat
    BY DEF IInv, One, RegistryAssumption
  <2> QED
    BY <2>1, <2>2, <2>3
<1>5. CloneLimitHolds'
  <2> DEFINE Us(f, a) == {d \in Clients : f[d].st = "user" /\ f[d].addr = a}
  <2> SUFFICES ASSUME NEW a \in Addrs \ Exempt
               PROVE  Cardinality(Us(client', a)) <= Maximum
    BY DEF CloneLimitHolds
  <2>1. IsFiniteSet(Us(client, a)) /\ Cardinality(Us(client, a)) \in Nat
        /\ Cardinality(Us(client, a)) <= Maximum /\ Maximum \in Nat
    BY <1>1, FS_Subset, FS_CardinalityType DEF CloneLimitHolds, RegistryAssumption
  <2>2. CASE k.st = "user" /\ k.addr = a
    <3>1. Us(client', a) \subseteq Online(a)' /\ Online(a)' \subseteq Clients
      BY <1>2 DEF Online, ClientRec
    <3>2. IsFiniteSet(Online(a)')
      BY <3>1, FS_Subset DEF RegistryAssumption
    <3>3. Cardinality(Us(client', a)) <= Cardinality(Online(a)')
          /\ Cardinality(Us(client', a)) \in Nat /\ Cardinality(Online(a)') \in Nat
      BY <3>1, <3>2, FS_Subset, FS_CardinalityType
    <3>4. Cardinality(Online(a)') <= Maximum
      <4>1. lost'[a] \in Nat
        BY DEF RegistryAssumption
      <4> QED
        BY <1>4, <2>1, <2>2, <3>3, <4>1 DEF ConnectedExact
    <3> QED
      BY <2>1, <3>3, <3>4
  <2>3. CASE ~(k.st = "user" /\ k.addr = a)
    <3>1. Us(client', a) \subseteq Us(client, a)
      BY <1>1, <2>3
    <3>2. Cardinality(Us(client', a)) <= Cardinality(Us(client, a))
          /\ Cardinality(Us(client', a)) \in Nat
      BY <2>1, <3>1, FS_Subset, FS_CardinalityType
    <3> QED
      BY <2>1, <3>2
  <2> QED
    BY <2>2, <2>3
<1> QED
  BY <1>2, <1>3, <1>4, <1>5 DEF IInv

(* The same for a step that loses no socket.                               *)
LEMMA ClientStep ==
  ASSUME RegistryAssumption, IInv,
         NEW c \in Clients, NEW k \in ClientRec,
         client' = [client EXCEPT ![c] = k],
         k.checked <=> k.st # "off" /\ k.addr \notin Exempt,
         entry' \in [Addrs -> EntryRec],
         \A a \in Addrs : ~entry'[a].on => entry'[a].conn = 0,
         \A a \in Addrs \ Exempt :
            entry'[a].conn = entry[a].conn + One(k, a) - One(client[c], a),
         k.st = "user" /\ k.addr \notin Exempt => entry'[k.addr].conn <= Maximum,
         now' \in Nat, failed' = FALSE, lost' = lost
  PROVE  IInv'
<1>1. lost \in [Addrs -> 0..MaxFails] /\ entry \in [Addrs -> EntryRec]
  BY DEF IInv
<1>2. ASSUME NEW a \in Addrs \ Exempt
      PROVE  entry'[a].conn = entry[a].conn + One(k, a) - One(client[c], a)
                                + lost'[a] - lost[a]
  <2>1. lost[a] \in Int /\ entry[a].conn \in Int /\ One(k, a) \in Int /\ One(client[c], a) \in Int
    BY <1>1 DEF EntryRec, One
  <2> QED
    BY <2>1
<1> QED
  BY <1>1, <1>2, CountStep

(* A client that is not connected is counted nowhere.                      *)
LEMMA OffOK ==
  ASSUME RegistryAssumption
  PROVE  Off \in ClientRec /\ Off.st = "off" /\ ~Off.checked /\ \A a : One(Off, a) = 0
<1>1. (CHOOSE a \in Addrs : TRUE) \in Addrs
  BY DEF RegistryAssumption
<1> QED
  BY <1>1 DEF Off, ClientRec, One, HereAt

(* The server starts without clients and without entries.                  *)
LEMMA InitInv == RegistryAssumption /\ Init => IInv
<1> SUFFICES ASSUME RegistryAssumption, Init PROVE IInv
  OBVIOUS
<1>1. NoEntry \in EntryRec /\ NoEntry.conn = 0
  BY DEF NoEntry, EntryRec
<1>2. \A a : Online(a) = {} /\ Cardinality(Online(a)) = 0
  BY OffOK, FS_EmptySet DEF Init, Online
<1>3. \A a : {c \in Clients : client[c].st = "user" /\ client[c].addr = a} = {}
  BY OffOK DEF Init
<1>4. CloneLimitHolds
  <2>1. Maximum \in Nat
    BY DEF RegistryAssumption
  <2> QED
    BY <1>3, <2>1, FS_EmptySet DEF CloneLimitHolds
<1>5. ConnectedExact
  BY <1>1, <1>2 DEF ConnectedExact, Init
<1>6. CheckedRight
  BY OffOK DEF CheckedRight, Init
<1> QED
  <2>1. lost \in [Addrs -> 0..MaxFails]
    <3>1. MaxFails \in Nat
      BY DEF RegistryAssumption
    <3> QED
      BY <3>1 DEF Init
  <2> QED
    BY <1>1, <1>4, <1>5, <1>6, <2>1, OffOK DEF IInv, Init

(* exit_one_client, with the entry e that connect_fail may have changed    *)
LEMMA ExitStep ==
  ASSUME RegistryAssumption, IInv, NEW c \in Clients, client[c].st # "off",
         NEW e \in EntryRec, e.on <=> entry[client[c].addr].on,
         e.conn = entry[client[c].addr].conn, Exit(c, e)
  PROVE  IInv'
<1> DEFINE a == client[c].addr
<1>1. a \in Addrs /\ client[c] \in ClientRec /\ entry \in [Addrs -> EntryRec]
      /\ (client[c].checked <=> a \notin Exempt) /\ ~client[c].server
      /\ \A b \in Addrs : ~entry[b].on => entry[b].conn = 0
  BY DEF IInv, CheckedRight, ClientRec
<1>2. client' = [client EXCEPT ![c] = Off] /\ entry' = [entry EXCEPT ![a] = Left(c, e)]
      /\ now' = now /\ failed' = (failed \/ (Counted(c) /\ ~DisconnectOK(e)))
      /\ lost' = lost
  BY DEF Exit
<1>3. \A b : One(client[c], b) = IF b = a THEN 1 ELSE 0
  BY <1>1 DEF One, HereAt
<1>4. Left(c, e) \in EntryRec /\ (~Left(c, e).on => Left(c, e).conn = 0)
      /\ failed' = FALSE
      /\ (a \notin Exempt => Left(c, e).conn = entry[a].conn - 1)
  <2>1. CASE a \notin Exempt
    <3>1. e.on /\ e.conn > 0 /\ e.conn < ConnMod
      BY <1>1, <2>1, ConnBound DEF HereAt
    <3>2. Left(c, e) = ip_registry_disconnect(e)
      BY <1>1, <2>1 DEF Left, Counted
    <3>3. now \in Nat
      BY DEF IInv
    <3>4. ip_registry_disconnect(e) \in EntryRec
          /\ (ip_registry_disconnect(e).on <=> e.on)
          /\ ip_registry_disconnect(e).conn = e.conn - 1
      BY <3>1, <3>3, Disconnect
    <3>5. failed' = FALSE
      BY <1>2, <3>1 DEF DisconnectOK, IInv
    <3> QED
      BY <2>1, <3>1, <3>2, <3>4, <3>5
  <2>2. CASE a \in Exempt
    BY <1>1, <1>2, <2>2 DEF Left, Counted, IInv
  <2> QED
    BY <2>1, <2>2
<1>5. entry' \in [Addrs -> EntryRec] /\ \A b \in Addrs : ~entry'[b].on => entry'[b].conn = 0
  BY <1>1, <1>2, <1>4
<1>6. ASSUME NEW b \in Addrs \ Exempt
      PROVE  entry'[b].conn = entry[b].conn + One(Off, b) - One(client[c], b)
  <2>1. entry[b].conn \in Nat
    BY <1>1 DEF EntryRec
  <2> QED
    BY <1>1, <1>2, <1>3, <1>4, <2>1, OffOK
<1>7. now' \in Nat
  BY <1>2 DEF IInv
<1> QED
  BY <1>2, <1>4, <1>5, <1>6, <1>7, OffOK, ClientStep

(* A client that connects is counted, one that is refused is not, and one  *)
(* whose socket is lost stays counted.                                     *)
LEMMA AddStep ==
  ASSUME RegistryAssumption, IInv, NEW c \in Clients, NEW a \in Addrs,
         NEW server \in BOOLEAN, NEW fails \in BOOLEAN, add_connection(c, a, server, fails)
  PROVE  IInv'
<1> DEFINE r == ip_registry_check_local(entry[a])
           refused == ~r.ok /\ a \notin Exempt
           e == IF a \in Zlined /\ ~refused THEN ip_registry_disconnect_ip(r.e) ELSE r.e
           in == [st |-> "auth", addr |-> a, server |-> FALSE, checked |-> a \notin Exempt]
           out == refused \/ a \in Zlined \/ fails
           k == IF out THEN client[c] ELSE in
           more == IF fails THEN lost[a] + 1 ELSE lost[a]
<1>1. entry \in [Addrs -> EntryRec] /\ client \in [Clients -> ClientRec] /\ now \in Nat
      /\ (\A b \in Addrs : ~entry[b].on => entry[b].conn = 0) /\ failed = FALSE
      /\ CheckedRight /\ lost \in [Addrs -> 0..MaxFails] /\ MaxFails \in Nat
  BY DEF IInv, RegistryAssumption
<1>2. ~server
  BY DEF add_connection, RegistryAssumption
<1>3. client[c].st = "off" /\ entry' = [entry EXCEPT ![a] = e] /\ now' = now
      /\ failed' = FALSE
      /\ (out => client' = client)
      /\ (~out => client' = [client EXCEPT ![c] = in])
      /\ (fails => ~refused /\ a \notin Zlined /\ lost[a] < MaxFails)
      /\ lost' = [lost EXCEPT ![a] = more]
  BY <1>1, <1>2 DEF add_connection
<1>4. client' = [client EXCEPT ![c] = k]
  BY <1>1, <1>3
<1>5. in \in ClientRec /\ in.st = "auth" /\ in.addr = a /\ ~in.server
      /\ (in.checked <=> a \notin Exempt)
  BY DEF ClientRec
<1>6. /\ r.e \in EntryRec
      /\ ~r.e.on => r.e.conn = 0
      /\ r.ok => r.e.on /\ r.e.conn = entry[a].conn + 1
      /\ ~r.ok => r.e.conn = entry[a].conn
  BY <1>1, CheckLocal
<1>7. entry[a].conn \in Nat
  BY <1>1 DEF EntryRec
<1> HIDE DEF r, in, more
<1>8. /\ e \in EntryRec
      /\ ~e.on => e.conn = 0
      /\ a \notin Exempt => e.conn = IF refused \/ a \in Zlined THEN entry[a].conn
                                    ELSE entry[a].conn + 1
  <2>1. CASE a \in Zlined /\ ~refused /\ r.e.on /\ r.e.conn > 0
    <3>1. e = [r.e EXCEPT !.conn = @ - 1] /\ r.e.conn - 1 \in Nat
      BY <1>6, <2>1 DEF ip_registry_disconnect_ip, EntryRec
    <3>2. e \in EntryRec /\ e.on /\ e.conn = r.e.conn - 1
      BY <1>6, <2>1, <3>1 DEF EntryRec
    <3> HIDE DEF e
    <3> QED
      BY <1>6, <1>7, <2>1, <3>2
  <2>2. CASE ~(a \in Zlined /\ ~refused /\ r.e.on /\ r.e.conn > 0)
    <3>1. e = r.e
      BY <2>2 DEF ip_registry_disconnect_ip
    <3> QED
      BY <1>6, <1>7, <2>2, <3>1
  <2> QED
    BY <2>1, <2>2
<1>9. k \in ClientRec /\ k.st # "user"
      /\ (k.checked <=> k.st # "off" /\ k.addr \notin Exempt)
  BY <1>1, <1>3, <1>5 DEF CheckedRight
<1>10. \A b : One(client[c], b) = 0
               /\ One(k, b) = IF b = a /\ ~out THEN 1 ELSE 0
  BY <1>3, <1>5 DEF One, HereAt
<1>11. more \in 0..MaxFails /\ (fails => more = lost[a] + 1) /\ (~fails => more = lost[a])
  <2>1. CASE fails
    BY <1>1, <1>3, <2>1 DEF more
  <2>2. CASE ~fails
    BY <1>1, <1>3, <2>2 DEF more
  <2> QED
    BY <2>1, <2>2
<1> HIDE DEF e, k
<1>12. entry' \in [Addrs -> EntryRec] /\ \A b \in Addrs : ~entry'[b].on => entry'[b].conn = 0
  BY <1>1, <1>3, <1>8
<1>13. ASSUME NEW b \in Addrs \ Exempt
       PROVE  entry'[b].conn = entry[b].conn + One(k, b) - One(client[c], b)
                                 + lost'[b] - lost[b]
  <2>1. entry[b].conn \in Nat /\ lost[b] \in Nat
    BY <1>1 DEF EntryRec
  <2>2. CASE b = a
    <3>1. entry'[b] = e /\ lost'[b] = more
      BY <1>1, <1>3, <2>2
    <3>2. CASE fails
      <4>1. e.conn = entry[b].conn + 1 /\ One(k, b) = 0 /\ One(client[c], b) = 0
            /\ more = lost[b] + 1
        BY <1>3, <1>8, <1>10, <1>11, <2>2, <3>2
      <4> QED
        BY <2>1, <3>1, <4>1
    <3>3. CASE ~fails
      <4>1. more = lost[b] /\ One(client[c], b) = 0
            /\ e.conn = entry[b].conn + One(k, b) /\ One(k, b) \in Nat
        BY <1>8, <1>10, <1>11, <2>1, <2>2, <3>3
      <4> QED
        BY <2>1, <3>1, <4>1
    <3> QED
      BY <3>2, <3>3
  <2>3. CASE b # a
    <3>1. entry'[b] = entry[b] /\ lost'[b] = lost[b] /\ One(k, b) = 0 /\ One(client[c], b) = 0
      BY <1>1, <1>3, <1>10, <2>3
    <3> QED
      BY <2>1, <3>1
  <2> QED
    BY <2>2, <2>3
<1>14. lost' \in [Addrs -> 0..MaxFails]
  BY <1>1, <1>3, <1>11
<1> QED
  BY <1>1, <1>3, <1>4, <1>9, <1>12, <1>13, <1>14, CountStep

(* auth_kill_client finds the entry and takes the client off it.           *)
LEMMA KillStep ==
  ASSUME RegistryAssumption, IInv, NEW c \in Clients, auth_kill_client(c)
  PROVE  IInv'
<1> DEFINE a == client[c].addr
<1>1. a \in Addrs /\ client[c] \in ClientRec /\ entry \in [Addrs -> EntryRec]
      /\ (client[c].checked <=> client[c].st # "off" /\ a \notin Exempt) /\ ~client[c].server
  BY DEF IInv, CheckedRight, ClientRec
<1>2. client[c].st = "auth" /\ a \notin Exempt
  BY DEF auth_kill_client
<1>3. HereAt(client[c], a)
  BY <1>1, <1>2 DEF HereAt
<1>4. entry[a].on /\ entry[a].conn > 0
  BY <1>1, <1>2, <1>3, ConnBound
<1>5. Counted(c) /\ Left(c, entry[a]) = ip_registry_disconnect(entry[a])
  BY <1>1, <1>2 DEF Counted, Left
<1>6. Exit(c, entry[a])
  BY <1>1, <1>2, <1>4, <1>5 DEF auth_kill_client, Exit
<1> QED
  BY <1>1, <1>2, <1>6, ExitStep

(* A gateway moves a client to another address: the old one loses it, the  *)
(* new one gains it unless it is refused.                                  *)
LEMMA WebircStep ==
  ASSUME RegistryAssumption, IInv, NEW c \in Clients, NEW b \in Addrs, m_webirc(c, b)
  PROVE  IInv'
<1> DEFINE a == client[c].addr
           d == ip_registry_disconnect(ip_registry_connect_fail(entry[a]))
           E1 == IF a \in Exempt THEN entry ELSE [entry EXCEPT ![a] = d]
           r == ip_registry_check_local(E1[b])
           there == [client[c] EXCEPT !.addr = b, !.checked = b \notin Exempt]
           k == IF b \in Exempt \/ r.ok THEN there ELSE Off
<1>1. a \in Addrs /\ client[c] \in ClientRec /\ entry \in [Addrs -> EntryRec]
      /\ ~client[c].server /\ now \in Nat /\ failed = FALSE
      /\ client \in [Clients -> ClientRec]
      /\ \A x \in Addrs : ~entry[x].on => entry[x].conn = 0
  BY DEF IInv, ClientRec
<1>2. client[c].st = "auth" /\ now' = now /\ lost' = lost
      /\ failed' = (failed \/ (a \notin Exempt /\ ~DisconnectOK(entry[a])))
  BY DEF m_webirc
<1>3. \A x : One(client[c], x) = IF x = a THEN 1 ELSE 0
  BY <1>1, <1>2 DEF One, HereAt
<1>4. ASSUME a \notin Exempt
      PROVE  /\ entry[a].on /\ entry[a].conn > 0
             /\ d \in EntryRec /\ d.on /\ d.conn = entry[a].conn - 1
  <2>1. entry[a].on /\ entry[a].conn > 0 /\ entry[a].conn < ConnMod
    BY <1>1, <1>2, <1>4, ConnBound DEF HereAt
  <2> DEFINE f == ip_registry_connect_fail(entry[a])
  <2>2. f \in EntryRec /\ (f.on <=> entry[a].on) /\ f.conn = entry[a].conn
    BY <1>1, ConnectFail
  <2> HIDE DEF f
  <2>3. ip_registry_disconnect(f) \in EntryRec
        /\ (ip_registry_disconnect(f).on <=> f.on)
        /\ ip_registry_disconnect(f).conn = f.conn - 1
    BY <1>1, <2>1, <2>2, Disconnect
  <2> QED
    BY <2>1, <2>2, <2>3 DEF f
<1>5. failed' = FALSE
  BY <1>1, <1>2, <1>4 DEF DisconnectOK
<1>6. /\ E1 \in [Addrs -> EntryRec]
      /\ \A x \in Addrs : ~E1[x].on => E1[x].conn = 0
      /\ \A x \in Addrs \ Exempt : E1[x].conn = entry[x].conn - One(client[c], x)
  <2>1. \A x \in Addrs : entry[x].conn \in Nat
    BY <1>1 DEF EntryRec
  <2> HIDE DEF d
  <2>2. CASE a \in Exempt
    BY <1>1, <1>3, <2>1, <2>2
  <2>3. CASE a \notin Exempt
    BY <1>1, <1>3, <1>4, <2>1, <2>3
  <2> QED
    BY <2>2, <2>3
<1>7. client' = [client EXCEPT ![c] = k]
      /\ entry' = IF b \in Exempt THEN E1 ELSE [E1 EXCEPT ![b] = r.e]
  <2>1. CASE b \in Exempt
    <3>1. client' = [client EXCEPT ![c].addr = b, ![c].checked = FALSE] /\ entry' = E1
      BY <2>1 DEF m_webirc
    <3>2. there = [client[c] EXCEPT !.addr = b, !.checked = FALSE]
      BY <2>1
    <3>3. client' = [client EXCEPT ![c] = there]
      BY <1>1, <3>1, <3>2
    <3> QED
      BY <2>1, <3>1, <3>3
  <2>2. CASE b \notin Exempt
    <3>1. client' = [client EXCEPT ![c] = IF r.ok THEN [client[c] EXCEPT !.addr = b, !.checked = TRUE]
                                          ELSE Off]
          /\ entry' = [E1 EXCEPT ![b] = r.e]
      BY <1>1, <2>2 DEF m_webirc
    <3>2. there = [client[c] EXCEPT !.addr = b, !.checked = TRUE]
      BY <2>2
    <3> QED
      BY <2>2, <3>1, <3>2
  <2> QED
    BY <2>1, <2>2
<1>8. there \in ClientRec /\ there.st = "auth" /\ there.addr = b /\ ~there.server
      /\ (there.checked <=> b \notin Exempt)
  BY <1>1, <1>2 DEF ClientRec
<1> HIDE DEF E1, there
<1>9. /\ r.e \in EntryRec
      /\ ~r.e.on => r.e.conn = 0
      /\ r.ok => r.e.conn = E1[b].conn + 1
      /\ ~r.ok => r.e.conn = E1[b].conn
  BY <1>1, <1>6, CheckLocal
<1> HIDE DEF r
<1>10. k \in ClientRec /\ k.st # "user"
       /\ (k.checked <=> k.st # "off" /\ k.addr \notin Exempt)
  BY <1>8, OffOK
<1>11. \A x : One(k, x) = IF x = b /\ (b \in Exempt \/ r.ok) THEN 1 ELSE 0
  BY <1>8, OffOK DEF One, HereAt
<1> HIDE DEF k
<1>12. entry' \in [Addrs -> EntryRec] /\ \A x \in Addrs : ~entry'[x].on => entry'[x].conn = 0
  BY <1>6, <1>7, <1>9
<1>13. ASSUME NEW x \in Addrs \ Exempt
       PROVE  entry'[x].conn = entry[x].conn + One(k, x) - One(client[c], x)
  <2>1. entry[x].conn \in Nat /\ One(client[c], x) \in Int
    BY <1>1, <1>3 DEF EntryRec
  <2>2. E1[x].conn = entry[x].conn - One(client[c], x)
    BY <1>6
  <2>3. CASE x = b
    <3>1. entry'[x] = r.e
      BY <1>6, <1>7, <2>3
    <3> QED
      BY <1>9, <1>11, <2>1, <2>2, <2>3, <3>1
  <2>4. CASE x # b
    <3>1. entry'[x] = E1[x]
      BY <1>6, <1>7, <2>4
    <3> QED
      BY <1>11, <2>1, <2>2, <2>4, <3>1
  <2> QED
    BY <2>3, <2>4
<1> QED
  BY <1>1, <1>2, <1>5, <1>7, <1>10, <1>12, <1>13, ClientStep

(* A connection that is dropped takes its attempt back first, and leaves.  *)
LEMMA OverriddenStep ==
  ASSUME RegistryAssumption, IInv, NEW c \in Clients, Overridden(c)
  PROVE  IInv'
<1> DEFINE a == client[c].addr
           f == ip_registry_connect_fail(entry[a])
           e == IF a \in Exempt THEN entry[a] ELSE f
<1>1. a \in Addrs /\ entry[a] \in EntryRec
  BY DEF IInv, ClientRec
<1>2. client[c].st # "off" /\ Exit(c, e)
  BY DEF Overridden
<1>3. f \in EntryRec /\ (f.on <=> entry[a].on) /\ f.conn = entry[a].conn
  BY <1>1, ConnectFail
<1> HIDE DEF f
<1>4. e \in EntryRec /\ (e.on <=> entry[a].on) /\ e.conn = entry[a].conn
  BY <1>1, <1>3
<1> HIDE DEF e
<1> QED
  BY <1>2, <1>4, ExitStep

(* A client becomes a user while the count of its address, which includes  *)
(* itself and every user there, is within the limit.                       *)
LEMMA RegisterLocalStep ==
  ASSUME RegistryAssumption, IInv, NEW c \in Clients, register_local(c)
  PROVE  IInv'
<1> DEFINE a == client[c].addr
           k == [client[c] EXCEPT !.st = "user"]
<1>1. a \in Addrs /\ entry \in [Addrs -> EntryRec] /\ client \in [Clients -> ClientRec]
      /\ client[c] \in ClientRec /\ now \in Nat /\ failed = FALSE
      /\ (\A x \in Addrs : ~entry[x].on => entry[x].conn = 0)
  BY DEF IInv, ClientRec
<1>2. client[c].st = "auth" /\ ~client[c].server
      /\ (client[c].checked <=> a \notin Exempt)
  BY <1>1 DEF register_local, IInv, CheckedRight
<1>3. CASE a \notin Exempt /\ IPcheck_nr(c) > Maximum
  <2>1. Exit(c, entry[a])
    BY <1>3 DEF register_local
  <2> QED
    BY <1>1, <1>2, <2>1, ExitStep
<1>4. CASE ~(a \notin Exempt /\ IPcheck_nr(c) > Maximum)
  <2>1. client' = [client EXCEPT ![c] = k] /\ entry' = entry /\ now' = now /\ lost' = lost
        /\ failed' = (failed \/ (a \notin Exempt /\ ~entry[a].on))
    BY <1>1, <1>4 DEF register_local
  <2>2. a \notin Exempt => entry[a].on
    BY <1>1, <1>2, ConnBound DEF HereAt
  <2>3. failed' = FALSE
    BY <1>1, <2>1, <2>2
  <2>4. k \in ClientRec /\ k.st = "user" /\ k.addr = a /\ ~k.server
        /\ (k.checked <=> a \notin Exempt)
    BY <1>1, <1>2 DEF ClientRec
  <2> HIDE DEF k
  <2>5. ASSUME NEW x \in Addrs \ Exempt
        PROVE  entry'[x].conn = entry[x].conn + One(k, x) - One(client[c], x)
    <3>1. entry[x].conn \in Nat
      BY <1>1 DEF EntryRec
    <3>2. One(k, x) = One(client[c], x) /\ One(k, x) \in Nat
      BY <1>2, <2>4 DEF One, HereAt
    <3> QED
      BY <2>1, <3>1, <3>2
  <2>6. a \notin Exempt => entry'[a].conn <= Maximum
    <3>1. Maximum \in Nat /\ entry[a].conn \in Nat
      BY <1>1 DEF EntryRec, RegistryAssumption
    <3> QED
      BY <1>1, <1>4, <2>1, <2>2, <3>1 DEF IPcheck_nr
  <2> QED
    BY <1>1, <2>1, <2>3, <2>4, <2>5, <2>6, ClientStep
<1> QED
  BY <1>3, <1>4

(* A client of another server is counted: there are fewer clients than the *)
(* count can hold, so the refusal that would reset it is never reached.    *)
LEMMA RegisterRemoteStep ==
  ASSUME RegistryAssumption, IInv, NEW c \in Clients, NEW a \in Addrs,
         NEW burst \in BOOLEAN, register_remote(c, a, burst)
  PROVE  IInv'
<1> DEFINE r == ip_registry_check_remote(entry[a], burst)
           k == [st |-> "remote", addr |-> a, server |-> FALSE, checked |-> a \notin Exempt]
<1>1. entry \in [Addrs -> EntryRec] /\ client \in [Clients -> ClientRec] /\ now \in Nat
      /\ (\A x \in Addrs : ~entry[x].on => entry[x].conn = 0) /\ failed = FALSE
  BY DEF IInv
<1>2. client[c].st = "off" /\ now' = now /\ lost' = lost
  BY DEF register_remote
<1>3. ~HereAt(client[c], a) /\ \A x : One(client[c], x) = 0
  BY <1>2 DEF One, HereAt
<1>4. a \notin Exempt => r.e \in EntryRec /\ r.e.on /\ r.ok /\ r.e.conn = entry[a].conn + 1
  BY <1>1, <1>3, ConnBound, CheckRemote
<1>5. client' = [client EXCEPT ![c] = k] /\ failed' = FALSE
      /\ entry' = IF a \in Exempt THEN entry ELSE [entry EXCEPT ![a] = r.e]
  <2>1. CASE a \in Exempt
    BY <1>1, <2>1 DEF register_remote
  <2>2. CASE a \notin Exempt
    BY <1>1, <1>4, <2>2 DEF register_remote
  <2> QED
    BY <2>1, <2>2
<1>6. k \in ClientRec /\ k.st = "remote" /\ k.addr = a /\ ~k.server
      /\ (k.checked <=> a \notin Exempt)
  BY DEF ClientRec
<1> HIDE DEF r, k
<1>7. \A x : One(k, x) = IF x = a THEN 1 ELSE 0
  BY <1>6 DEF One, HereAt
<1>8. entry' \in [Addrs -> EntryRec] /\ \A x \in Addrs : ~entry'[x].on => entry'[x].conn = 0
  BY <1>1, <1>4, <1>5
<1>9. ASSUME NEW x \in Addrs \ Exempt
      PROVE  entry'[x].conn = entry[x].conn + One(k, x) - One(client[c], x)
  <2>1. entry[x].conn \in Nat
    BY <1>1 DEF EntryRec
  <2> QED
    BY <1>1, <1>3, <1>4, <1>5, <1>7, <2>1
<1> QED
  BY <1>1, <1>2, <1>5, <1>6, <1>8, <1>9, ClientStep

(* The clock and the timer leave the clients and the counts alone: only an *)
(* entry without clients expires.                                          *)
LEMMA QuietStep ==
  ASSUME RegistryAssumption, IInv, ip_registry_expire \/ Tick \/ UNCHANGED vars
  PROVE  IInv'
<1>1. entry \in [Addrs -> EntryRec] /\ now \in Nat /\ failed = FALSE
      /\ (\A x \in Addrs : ~entry[x].on => entry[x].conn = 0)
  BY DEF IInv
<1>2. NoEntry \in EntryRec /\ NoEntry.conn = 0
  BY DEF NoEntry, EntryRec
<1>3. client' = client /\ failed' = FALSE /\ now' \in Nat /\ lost' = lost
      /\ entry' \in [Addrs -> EntryRec]
      /\ \A x \in Addrs : entry'[x].conn = entry[x].conn
                          /\ (~entry'[x].on => entry'[x].conn = 0)
  <2>1. CASE ip_registry_expire
    <3>1. client' = client /\ failed' = failed /\ now' = now /\ lost' = lost
          /\ entry' = [a \in Addrs |->
                         IF entry[a].on /\ ip_registry_expire_entry(entry[a])
                         THEN NoEntry ELSE entry[a]]
      BY <2>1 DEF ip_registry_expire
    <3>2. \A x \in Addrs : ip_registry_expire_entry(entry[x]) => entry[x].conn = 0
      BY DEF ip_registry_expire_entry
    <3> QED
      BY <1>1, <1>2, <3>1, <3>2
  <2>2. CASE Tick
    BY <1>1, <2>2 DEF Tick
  <2>3. CASE UNCHANGED vars
    BY <1>1, <2>3 DEF vars
  <2> QED
    BY <2>1, <2>2, <2>3
<1>4. ConnectedExact' /\ CloneLimitHolds' /\ CheckedRight'
  BY <1>3 DEF IInv, ConnectedExact, CloneLimitHolds, CheckedRight, Online
<1> QED
  BY <1>3, <1>4 DEF IInv

(* IInv is inductive.                                                      *)
LEMMA NextInv == RegistryAssumption /\ IInv /\ [Next]_vars => IInv'
<1> SUFFICES ASSUME RegistryAssumption, IInv, [Next]_vars PROVE IInv'
  OBVIOUS
<1>1. CASE \E c \in Clients, a \in Addrs, server \in BOOLEAN, fails \in BOOLEAN :
         add_connection(c, a, server, fails)
  BY <1>1, AddStep
<1>2. CASE \E c \in Clients : auth_kill_client(c)
  BY <1>2, KillStep
<1>3. CASE \E c \in Clients : Quit(c)
  <2>1. PICK c \in Clients : Quit(c)
    BY <1>3
  <2>2. entry[client[c].addr] \in EntryRec
    BY DEF IInv, ClientRec
  <2> QED
    BY <2>1, <2>2, ExitStep DEF Quit
<1>4. CASE \E c \in Clients : Overridden(c)
  BY <1>4, OverriddenStep
<1>5. CASE \E c \in Clients : register_local(c)
  BY <1>5, RegisterLocalStep
<1>6. CASE \E c \in Clients, b \in Addrs : m_webirc(c, b)
  BY <1>6, WebircStep
<1>7. CASE \E c \in Clients, a \in Addrs, burst \in BOOLEAN : register_remote(c, a, burst)
  BY <1>7, RegisterRemoteStep
<1>8. CASE ip_registry_expire \/ Tick \/ UNCHANGED vars
  BY <1>8, QuietStep
<1> QED
  BY <1>1, <1>2, <1>3, <1>4, <1>5, <1>6, <1>7, <1>8 DEF Next

(* For any clients and addresses, and whatever the order in which they     *)
(* connect, are renamed by a gateway, are refused, register and leave, the *)
(* registry counts exactly the clients of every address and the sockets    *)
(* that add_connection lost after counting them, the assertions of         *)
(* IPcheck_disconnect hold, and no address has more users than allowed.    *)
THEOREM RegistryCounts == ASSUME RegistryAssumption PROVE Spec => []RegistryRight
<1>1. Init => IInv
  BY InitInv
<1>2. IInv /\ [Next]_vars => IInv'
  BY NextInv
<1>3. IInv => RegistryRight
  BY DEF IInv, RegistryRight, AssertsHold
<1> QED
  BY <1>1, <1>2, <1>3, PTL DEF Spec
=============================================================================
