------------------------------- MODULE Flood -------------------------------
(***************************************************************************)
(* What the lists that every server keeps a copy of have in common: the    *)
(* tree of links with what is under way on them, bursts and their          *)
(* acknowledgement, and the commands that flood the tree.  Shun, Zline,    *)
(* Jupe and Spamfilter extend it with a list each; Gline states its own.   *)
(***************************************************************************)
EXTENDS Integers, Sequences, FiniteSets

CONSTANTS
    Servers,
    Edges,       \* the links of the tree: pairs {s, t}
    Route,       \* Route[s][t]: the neighbour of s on the way to t
    Lifetime,    \* the expiration an operator gives
    MaxOps, MaxSplits, MaxTime

VARIABLES
    table,    \* table[s]: the list of s
    queue,    \* queue[s][t]: what s sent to t and t has not read
    up,       \* the links that are established
    inBurst,  \* inBurst[s]: peers with FLAG_BURST or FLAG_BURST_ACK at s
    online,   \* what is connected and may be thrown out
    now,      \* CurrentTime and TStime(), equal on all servers
    latest,   \* history: the last thing the network was asked for
    bound     \* ops, splits so far; stamp of the last global modification

EB == [type |-> "EB"]
EA == [type |-> "EA"]

Neighbours(s) == {t \in Servers : {s, t} \in up /\ t # s}

(* sendcmdto_serv_butone: every neighbour of s but one.                    *)
ToServers(q, s, one, msg) ==
    [q EXCEPT ![s] = [t \in Servers |->
        IF t \in Neighbours(s) \ {one} THEN Append(@[t], msg) ELSE @[t]]]

ToOne(q, s, t, msg) == [q EXCEPT ![s][t] = Append(@, msg)]

(* A message for another server is handed on as it is, if it is reachable. *)
Forward(q, s, msg) ==
    IF Route[s][msg.target] \in Neighbours(s)
    THEN ToOne(q, s, Route[s][msg.target], msg) ELSE q

FloodInit ==
    /\ queue = [s \in Servers |-> [t \in Servers |-> <<>>]]
    /\ up = Edges
    /\ inBurst = [s \in Servers |-> {}]
    /\ now = 1
    /\ bound = [ops |-> 0, splits |-> 0, stamp |-> 0]

(* An operator's change counts; changes are made in different seconds.     *)
Operator ==
    /\ bound.ops < MaxOps
    /\ now > bound.stamp
    /\ bound' = [bound EXCEPT !.ops = @ + 1, !.stamp = now]
    /\ UNCHANGED <<up, inBurst, now>>

(* ms_end_of_burst and ms_end_of_burst_ack, for the message s reads from t *)
EndOfBurst(q, s, t, msg) ==
    /\ inBurst' = IF msg = EA THEN [inBurst EXCEPT ![s] = @ \ {t}] ELSE inBurst
    /\ queue' = IF msg = EB THEN ToOne(q, s, t, EA) ELSE q

(* exit_client of a server: the link and what is under way on it are gone. *)
Cut(q, e) == [s \in Servers |-> [t \in Servers |->
                 IF {s, t} = e THEN <<>> ELSE q[s][t]]]

ForgetBurst(e) ==
    [s \in Servers |-> IF s \in e THEN inBurst[s] \ e ELSE inBurst[s]]

Split(e) ==
    /\ e \in up
    /\ bound.splits < MaxSplits
    /\ up' = up \ {e}
    /\ queue' = Cut(queue, e)
    /\ inBurst' = ForgetBurst(e)
    /\ bound' = [bound EXCEPT !.splits = @ + 1]
    /\ UNCHANGED <<table, online, now, latest>>

(* server_estab on both sides: the list of each, and END_OF_BURST.         *)
RelinkWith(e, Burst(_)) ==
    /\ e \in Edges \ up
    /\ up' = up \cup {e}
    /\ queue' = [s \in Servers |-> [t \in Servers |->
                    IF {s, t} = e /\ s # t THEN Burst(s) \o <<EB>>
                    ELSE queue[s][t]]]
    /\ inBurst' = [s \in Servers |->
                      IF s \in e THEN inBurst[s] \cup (e \ {s}) ELSE inBurst[s]]
    /\ UNCHANGED <<table, online, now, latest, bound>>

Quiet == \A s, t \in Servers : queue[s][t] = <<>>
=============================================================================
