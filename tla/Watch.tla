------------------------------- MODULE Watch -------------------------------
(***************************************************************************)
(* WATCH lists (watch.c, m_watch.c): which nicks a user wants to hear of.  *)
(* A watch is allocated for each nick that someone watches; it and the     *)
(* users that watch it point at each other.                                *)
(***************************************************************************)
EXTENDS Naturals, Sequences, FiniteSets, SequencesExt

CONSTANTS
    Users, Nicks,
    Watches,             \* memory for struct Watch
    Bucket, Buckets,     \* the hash of a nick
    MaxWatchs,           \* FEAT_MAXWATCHS
    Letter,              \* the word a nick is taken for, by its first letter
    Commands,            \* the words of a WATCH: sequences of [op, nick]
    UnregisteredRenames  \* whether connections change their nick before they register

VARIABLE s

Init ==
    s = [watchTable |-> [b \in Buckets |-> <<>>], nick |-> [w \in Watches |-> ""],
         wt_watch |-> [w \in Watches |-> <<>>], watch |-> [u \in Users |-> <<>>],
         watches |-> [u \in Users |-> 0], watchCount |-> 0,
         name |-> [u \in Users |-> ""], registered |-> [u \in Users |-> FALSE],
         told |-> [u \in Users |-> [n \in Nicks |-> "nothing"]]]

hAddWatch(t, w) == [t EXCEPT !.watchTable[Bucket[t.nick[w]]] = <<w>> \o @]
hRemWatch(t, w) ==
    [t EXCEPT !.watchTable[Bucket[t.nick[w]]] = SelectSeq(@, LAMBDA x : x # w)]

(* The watch of a nick, moved to the front of its chain.                   *)
hSeekWatch(t, n) ==
    LET fit == SelectSeq(t.watchTable[Bucket[n]], LAMBDA w : t.nick[w] = n)
    IN  IF fit = <<>> THEN [found |-> FALSE, w |-> "", s |-> t]
        ELSE [found |-> TRUE, w |-> fit[1],
              s |-> [t EXCEPT !.watchTable[Bucket[n]] =
                        <<fit[1]>> \o SelectSeq(@, LAMBDA x : x # fit[1])]]

make_watch(t, n, w) ==
    hAddWatch([t EXCEPT !.nick[w] = n, !.wt_watch[w] = <<>>, !.watchCount = @ + 1], w)

free_watch(t, w) == [hRemWatch(t, w) EXCEPT !.nick[w] = "", !.watchCount = @ - 1]

IsOnline(t, n) == \E u \in Users : t.registered[u] /\ t.name[u] = n

(* All who watch the nick of u are told, as of an event.                   *)
check_status_watch(t, u, event) ==
    LET f == hSeekWatch(t, t.name[u])
    IN  IF ~f.found THEN f.s
        ELSE [f.s EXCEPT !.told = [x \in Users |->
                IF Contains(f.s.wt_watch[f.w], x) THEN [@[x] EXCEPT ![t.name[u]] = event] ELSE @[x]]]

show_status_watch(t, u, n, on, off) ==
    [t EXCEPT !.told[u][n] = IF IsOnline(t, n) THEN on ELSE off]

add_nick_watch(t, u, n, w) ==
    LET f == hSeekWatch(t, n)
        x == IF f.found THEN f.w ELSE w
        g == IF f.found THEN f.s ELSE make_watch(f.s, n, w)
    IN  IF Contains(g.wt_watch[x], u) THEN g
        ELSE [g EXCEPT !.wt_watch[x] = <<u>> \o @, !.watch[u] = <<x>> \o @, !.watches[u] = @ + 1]

(* Mutant: the watch is freed though others watch the nick too.            *)
del_nick_watch_free(t, u, n) ==
    LET f == hSeekWatch(t, n)
    IN  IF ~f.found \/ ~Contains(f.s.wt_watch[f.w], u) THEN f.s
        ELSE LET g == [f.s EXCEPT !.wt_watch[f.w] = Remove(@, u),
                                  !.watch[u] = Remove(@, f.w), !.watches[u] = @ - 1]
             IN  free_watch(g, f.w)

del_nick_watch(t, u, n) ==
    LET f == hSeekWatch(t, n)
    IN  IF ~f.found \/ ~Contains(f.s.wt_watch[f.w], u) THEN f.s
        ELSE LET g == [f.s EXCEPT !.wt_watch[f.w] = Remove(@, u),
                                  !.watch[u] = Remove(@, f.w), !.watches[u] = @ - 1]
             IN  IF g.wt_watch[f.w] = <<>> THEN free_watch(g, f.w) ELSE g

(* The whole list of u goes.                                               *)
del_list_watch(t, u) ==
    LET list == t.watch[u]
        upto[i \in 0 .. Len(list)] ==
            IF i = 0 THEN t
            ELSE LET g == [upto[i - 1] EXCEPT !.wt_watch[list[i]] = Remove(@, u)]
                 IN  IF g.wt_watch[list[i]] = <<>> THEN free_watch(g, list[i]) ELSE g
    IN  [upto[Len(list)] EXCEPT !.watch[u] = <<>>, !.watches[u] = 0]

-----------------------------------------------------------------------------
(* One word of a WATCH: +nick, -nick, C, l (the nicks online only) or L.   *)
(* Any other is ignored; S tells of the list itself.                       *)
Word(t, u, word) ==
    CASE word.op = "+" /\ t.watches[u] < MaxWatchs ->
            LET w == CHOOSE w \in Watches : t.nick[w] = ""
            IN  show_status_watch(add_nick_watch(t, u, word.nick, w), u, word.nick, "on", "off")
      [] word.op = "-" ->
            show_status_watch(del_nick_watch(t, u, word.nick), u, word.nick, "nothing", "nothing")
      [] word.op = "C" -> [del_list_watch(t, u) EXCEPT !.told[u] = [n \in Nicks |-> "nothing"]]
      [] word.op \in {"l", "L"} ->
            [t EXCEPT !.told[u] = [n \in Nicks |->
                IF ~\E i \in DOMAIN t.watch[u] : t.nick[t.watch[u][i]] = n THEN @[n]
                ELSE IF IsOnline(t, n) THEN "on"
                ELSE IF word.op = "L" THEN "off" ELSE @[n]]]
      [] OTHER -> t

(* m_watch reads the words from parv[0] on, which is the sender's nick: a  *)
(* nick that begins with C clears the list, and one that begins with L     *)
(* lists it, before the command does what it is asked.                     *)
m_watch(u, words) ==
    LET all == <<[op |-> Letter[s.name[u]], nick |-> ""]>> \o words
        upto[i \in 0 .. Len(all)] == IF i = 0 THEN s ELSE Word(upto[i - 1], u, all[i])
    IN  s.registered[u] /\ s' = upto[Len(all)]

-----------------------------------------------------------------------------
(* The callers: first nick, registration, nick change and exit.            *)
FirstNick(u, n) ==
    /\ s.name[u] = "" /\ \A v \in Users : s.name[v] # n
    /\ s' = [s EXCEPT !.name[u] = n]

register_user(u) ==
    /\ s.name[u] # "" /\ ~s.registered[u]
    /\ s' = check_status_watch([s EXCEPT !.registered[u] = TRUE], u, "on")

(* The new name is announced whether or not the client is registered, the  *)
(* old one only if it is.                                                  *)
set_nick_name(u, n) ==
    /\ s.name[u] # "" /\ \A v \in Users : s.name[v] # n
    /\ s.registered[u] \/ UnregisteredRenames
    /\ LET t == IF s.registered[u] THEN check_status_watch(s, u, "off") ELSE s
       IN  s' = check_status_watch([t EXCEPT !.name[u] = n], u, "on")

exit_one_client(u) ==
    /\ s.name[u] # ""
    /\ LET t == IF s.registered[u] THEN check_status_watch(del_list_watch(s, u), u, "off") ELSE s
       IN  s' = [t EXCEPT !.name[u] = "", !.registered[u] = FALSE,
                          !.told[u] = [n \in Nicks |-> "nothing"]]

Next ==
    \E u \in Users :
        \/ register_user(u) \/ exit_one_client(u)
        \/ \E words \in Commands : m_watch(u, words)
        \/ \E n \in Nicks : FirstNick(u, n) \/ set_nick_name(u, n)

Spec == Init /\ [][Next]_s

-----------------------------------------------------------------------------
(* A watch and the users of it point at each other; a watch exists, and is *)
(* found, as long as someone watches its nick; the counts are right.       *)
Live == {w \in Watches : s.nick[w] # ""}
WatchesExact ==
    /\ \A u \in Users, w \in Watches : Contains(s.watch[u], w) <=> (w \in Live /\ Contains(s.wt_watch[w], u))
    /\ \A w \in Live : s.wt_watch[w] # <<>> /\ Contains(s.watchTable[Bucket[s.nick[w]]], w)
    /\ \A v, w \in Live : s.nick[v] = s.nick[w] => v = w
    /\ \A b \in Buckets : \A i \in DOMAIN s.watchTable[b] : s.watchTable[b][i] \in Live
    /\ \A u \in Users : s.watches[u] = Len(s.watch[u]) /\ s.watches[u] <= MaxWatchs
    /\ s.watchCount = Cardinality(Live)

(* What a user was last told of a nick it watches is so: a registered user *)
(* has the nick, or none has.                                              *)
WatchersTold ==
    \A u \in Users : \A i \in DOMAIN s.watch[u] :
        LET n == s.nick[s.watch[u][i]] IN s.told[u][n] = IF IsOnline(s, n) THEN "on" ELSE "off"
=============================================================================
