----------------------------- MODULE Spamfilter -----------------------------
(***************************************************************************)
(* Spam filters set by operators (m_spamfilter.c) and those of the         *)
(* configuration, as find_fline (s_conf.c) asks them about a text.  The    *)
(* filters have no version: what a server is told last is what it does,    *)
(* except that a filter is only ever told to stay longer.                  *)
(***************************************************************************)
EXTENDS Flood, SequencesExt

CONSTANTS
    Filters,     \* the filters operators use: expression and flags
    React,       \* React[f]: its reactions (RFFLAG_*)
    Reasons,
    Lifetimes,   \* the expirations operators give
    ConfFilters, \* the filters of the configuration, in their order
    Slow         \* filters whose expression may run past FILTER_FATAL_TIME

NoFilter == [id |-> "none", active |-> FALSE, expire |-> 0, reason |-> "none"]

SF(f, on, ttl, reason) ==
    [type |-> "SF", filter |-> f, on |-> on, ttl |-> ttl, reason |-> reason]
RM(f) == [type |-> "RM", filter |-> f]

(* table[s]: GlobalSpamFilterList, the newest filter first.                *)
Init ==
    /\ table = [s \in Servers |-> <<>>]
    /\ online = {}
    /\ latest = [f \in Filters |-> 0]
    /\ FloodInit

-----------------------------------------------------------------------------
Unexpired(list, t) == SelectSeq(list, LAMBDA r : r.expire > t)

(* Entries whose time is over are freed by every walk of the list.         *)
spamfilter_check_expires(t) == [s \in Servers |-> Unexpired(table[s], t)]

spamfilter_find(s, f) ==
    IF \E i \in DOMAIN table[s] : table[s][i].id = f
    THEN table[s][CHOOSE i \in DOMAIN table[s] : table[s][i].id = f]
    ELSE NoFilter

Put(s, r) ==
    table' = [table EXCEPT ![s] =
        IF spamfilter_find(s, r.id) = NoFilter THEN <<r>> \o @
        ELSE [i \in DOMAIN @ |-> IF @[i].id = r.id THEN r ELSE @[i]]]

Later(a, b) == IF a > b THEN a ELSE b

Tell(q, s, one, r) == ToServers(q, s, one, SF(r.id, r.active, r.expire - now, r.reason))

(* An addition by an operator.  When it changes nothing here, nothing is   *)
(* said to servers where the filter may be gone already.                   *)
spamfilter_add(s, f, ttl, reason) ==
    LET old == spamfilter_find(s, f)
        new == [id |-> f, active |-> TRUE, expire |-> Later(old.expire, now + ttl),
                reason |-> reason]
    IN  IF old = new THEN UNCHANGED <<table, queue>>
        ELSE Put(s, new) /\ queue' = Tell(queue, s, s, new)

spamfilter_deactivate(s, f) ==
    LET old == spamfilter_find(s, f)
        new == [old EXCEPT !.active = FALSE]
    IN  IF ~old.active THEN UNCHANGED <<table, queue>>
        ELSE Put(s, new) /\ queue' = Tell(queue, s, s, new)

mo_spamfilter(s, f, on, ttl, reason) ==
    /\ IF on THEN spamfilter_add(s, f, ttl, reason) ELSE spamfilter_deactivate(s, f)
    /\ latest' = IF on /\ latest[f] # -1 /\ table' # table THEN [latest EXCEPT ![f] = Later(@, now + ttl)]
                 ELSE latest
    /\ UNCHANGED online
    /\ Operator

(* A SPAMFILTER from another server is always passed on, as it is now.     *)
spamfilter_server_add(q, s, one, msg) ==
    LET old == spamfilter_find(s, msg.filter)
        new == [id |-> msg.filter, active |-> msg.on,
                expire |-> Later(old.expire, now + msg.ttl), reason |-> msg.reason]
    IN  Put(s, new) /\ queue' = Tell(q, s, one, new)

ms_spamfilter(q, s, t, msg) == spamfilter_server_add(q, s, t, msg)

spamfilter_remove(q, s, one, f) ==
    /\ table' = [table EXCEPT ![s] = SelectSeq(@, LAMBDA r : r.id # f)]
    /\ queue' = ToServers(q, s, one, RM(f))

mo_remove(s, f) ==
    /\ spamfilter_remove(queue, s, s, f)
    /\ latest' = [latest EXCEPT ![f] = -1]
    /\ UNCHANGED online
    /\ Operator

Receive(t, s) ==
    LET msg == Head(queue[t][s])
        q   == [queue EXCEPT ![t][s] = Tail(@)]
    IN  /\ queue[t][s] # <<>>
        /\ CASE msg.type = "SF" -> ms_spamfilter(q, s, t, msg) /\ UNCHANGED inBurst
             [] msg.type = "RM" -> spamfilter_remove(q, s, t, msg.filter) /\ UNCHANGED inBurst
             [] OTHER -> EndOfBurst(q, s, t, msg) /\ UNCHANGED table
        /\ UNCHANGED <<up, online, now, latest, bound>>

spamfilter_burst(s) ==
    [i \in DOMAIN table[s] |-> LET r == table[s][i] IN
        SF(r.id, r.active, r.expire - now, r.reason)]

Relink(e) == RelinkWith(e, spamfilter_burst)

Tick ==
    /\ now < MaxTime
    /\ now' = now + 1
    /\ table' = spamfilter_check_expires(now')
    /\ UNCHANGED <<queue, up, inBurst, online, latest, bound>>

-----------------------------------------------------------------------------
(* find_fline for a text that every expression matches.  who has the       *)
(* rights of the sender that the filters ask about; a filter it is exempt from, or one that is *)
(* disabled, ends the walk of its list.                                    *)
Nobody == [oper |-> FALSE, account |-> FALSE, chanop |-> FALSE, voiced |-> FALSE,
           eline |-> FALSE]

Ends(f, active, who) ==
    \/ who.oper \/ ~active \/ who.eline
    \/ "auth" \in React[f] /\ who.account
    \/ "ops" \in React[f] /\ who.chanop
    \/ "voice" \in React[f] /\ (who.voiced \/ who.chanop)

(* What a matching filter makes find_fline return: 2 when the sender is    *)
(* gone, 1 when the text is not delivered, 0 to look further.              *)
Verdict(f) ==
    IF React[f] \cap {"gline", "zline", "kill"} # {} THEN 2
    ELSE IF "block" \in React[f] THEN 1 ELSE 0

(* list is a sequence of <<filter, is it active>>.                         *)
WalkVerdict(list, who) ==
    LET Out(i) == Ends(list[i][1], list[i][2], who)
        Reached(i) == \A k \in 1 .. i : ~Out(k)
        hits == {i \in DOMAIN list : Reached(i) /\ Verdict(list[i][1]) # 0}
    IN  IF hits = {} THEN 0
        ELSE Verdict(list[CHOOSE i \in hits : \A k \in hits : i <= k][1])

(* The filters of the file: none of them is in Slow, so that they stay     *)
(* active.                                                                 *)
conf_verdict(who) ==
    WalkVerdict([i \in DOMAIN ConfFilters |-> <<ConfFilters[i], TRUE>>], who)

find_fline(s, who) ==
    IF conf_verdict(who) # 0 THEN conf_verdict(who)
    ELSE WalkVerdict([i \in DOMAIN table[s] |-> <<table[s][i].id, table[s][i].active>>], who)

(* A filter that takes too long is disabled, and the network is told.      *)
TooSlow(s, f) ==
    LET old == spamfilter_find(s, f)
        new == [old EXCEPT !.active = FALSE]
    IN  /\ f \in Slow /\ old.active
        /\ bound.ops < MaxOps
        /\ Put(s, new)
        /\ queue' = Tell(queue, s, s, new)
        /\ bound' = [bound EXCEPT !.ops = @ + 1]
        /\ UNCHANGED <<up, inBurst, online, now, latest>>

Next ==
    \/ \E s \in Servers, f \in Filters, on \in BOOLEAN, ttl \in Lifetimes, r \in Reasons :
          mo_spamfilter(s, f, on, ttl, r)
    \/ \E s \in Servers, f \in Filters : mo_remove(s, f) \/ TooSlow(s, f)
    \/ \E s, t \in Servers : Receive(t, s)
    \/ \E e \in Edges : Split(e)
    \/ \E e \in Edges : Relink(e)
    \/ Tick

(* Once everything sent is read, a filter that nobody removed stands on    *)
(* every server until the last second any operator asked for (no message,  *)
(* burst or crossing change shortens it), and stops the texts of a sender  *)
(* without rights wherever no filter is disabled.                          *)
FiltersLast ==
    up = Edges /\ Quiet =>
        \A s \in Servers, f \in Filters :
            latest[f] > now =>
                /\ spamfilter_find(s, f).expire >= latest[f]
                /\ (\A i \in DOMAIN table[s] : table[s][i].active) /\ Verdict(f) # 0
                   => find_fline(s, Nobody) # 0
=============================================================================
