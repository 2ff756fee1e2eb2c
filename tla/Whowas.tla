------------------------------- MODULE Whowas -------------------------------
(***************************************************************************)
(* The nick history (whowas.c).  Every record is on up to three lists: the *)
(* list of all records in order of age, the chain of its nick's hash value *)
(* and, while its client is online, the client's own list.  The first is   *)
(* modelled with its pointers, the other two, whose code is the usual one  *)
(* of doubly linked lists, as sequences (newest first).  Two nicks never   *)
(* share a hash value here.                                                *)
(***************************************************************************)
EXTENDS Integers, Sequences, SequencesExt, FiniteSets

CONSTANTS
    Slots,       \* the memory malloc hands out
    Clients, Nicks,
    Nil,         \* the null pointer
    Lengths      \* values FEAT_NICKNAMEHISTORYLENGTH is set to

VARIABLES
    node,      \* node[w]: the record at w; nick = Nil if w is free
    list,      \* wwList.ww_list
    tail,      \* wwList.ww_tail
    alloc,     \* wwList.ww_alloc
    hash,      \* hash[n]: the chain whowashash[] of nick n
    cwhowas,   \* cwhowas[c]: cli_whowas and the cnext chain
    name,      \* name[c]: the nick of client c, Nil if c is not online
    length     \* FEAT_NICKNAMEHISTORYLENGTH

vars == <<node, list, tail, alloc, hash, cwhowas, name, length>>

whowas_init == [nick |-> Nil, online |-> Nil, wnext |-> Nil, wprev |-> Nil]

Init ==
    /\ node = [w \in Slots |-> whowas_init]
    /\ list = Nil
    /\ tail = Nil
    /\ alloc = 0
    /\ hash = [n \in Nicks |-> <<>>]
    /\ cwhowas = [c \in Clients |-> <<>>]
    /\ name = [c \in Clients |-> Nil]
    /\ length \in Lengths

-----------------------------------------------------------------------------
(* The state of the history as a record, for functions called in sequence. *)
State == [node |-> node, list |-> list, tail |-> tail, alloc |-> alloc,
          hash |-> hash, cwhowas |-> cwhowas]

Becomes(h) ==
    /\ node' = h.node
    /\ list' = h.list
    /\ tail' = h.tail
    /\ alloc' = h.alloc
    /\ hash' = h.hash
    /\ cwhowas' = h.cwhowas

(* w is taken off the list of all records and the chain of its nick.      *)
Unlinked(h, w) ==
    LET r == h.node[w]
        n1 == IF r.wnext = Nil THEN h.node
              ELSE [h.node EXCEPT ![r.wnext].wprev = r.wprev]
        n2 == IF r.wprev = Nil THEN n1 ELSE [n1 EXCEPT ![r.wprev].wnext = r.wnext]
    IN  [h EXCEPT !.node = [n2 EXCEPT ![w] = whowas_init],
                  !.hash[r.nick] = Remove(@, w),
                  !.tail = IF @ = w THEN r.wprev ELSE @]

(* Mutant: the tail stays where it is.                                    *)
whowas_clean_tail(h, w) ==
    [Unlinked(h, w) EXCEPT !.tail = h.tail,
         !.cwhowas = IF h.node[w].online = Nil THEN @
                     ELSE [@ EXCEPT ![h.node[w].online] = Remove(@, w)]]

(* whowas_clean unlinks w from all lists.  ww_list is not looked at: if w  *)
(* is the first record of the list as well, it stays there.                *)
whowas_clean(h, w) ==
    LET online == h.node[w].online
    IN  [Unlinked(h, w) EXCEPT
            !.cwhowas = IF online = Nil THEN @
                        ELSE [@ EXCEPT ![online] = Remove(@, w)]]

whowas_free(h, w) == [whowas_clean(h, w) EXCEPT !.alloc = @ - 1]

(* add_history, once whowas_alloc has found the record w                   *)
Linked(h, w, c, still_on) ==
    LET n1 == [h.node EXCEPT ![w] = [nick |-> name[c], wprev |-> Nil,
                                     online |-> IF still_on THEN c ELSE Nil,
                                     wnext |-> h.list]]
        n2 == IF h.list = Nil THEN n1 ELSE [n1 EXCEPT ![h.list].wprev = w]
    IN  [h EXCEPT !.node = n2,
                  !.list = w,
                  !.tail = IF @ = Nil THEN w ELSE @,
                  !.hash[name[c]] = <<w>> \o @,
                  !.cwhowas[c] = IF still_on THEN <<w>> \o @ ELSE @]

(* whowas_alloc: the oldest record is reused once there are enough.        *)
add_history(c, still_on) ==
    IF alloc >= length
    THEN IF tail = Nil THEN State
         ELSE Linked(whowas_clean(State, tail), tail, c, still_on)
    ELSE LET w == CHOOSE v \in Slots : node[v].nick = Nil
         IN  Linked([State EXCEPT !.alloc = @ + 1], w, c, still_on)

off_history(h, c) ==
    [h EXCEPT !.node = [w \in Slots |-> IF w \in ToSet(h.cwhowas[c])
                                        THEN [h.node[w] EXCEPT !.online = Nil]
                                        ELSE h.node[w]],
              !.cwhowas[c] = <<>>]

-----------------------------------------------------------------------------
NickFree(n) == \A c \in Clients : name[c] # n

SignOn(c, n) ==
    /\ name[c] = Nil
    /\ NickFree(n)
    /\ name' = [name EXCEPT ![c] = n]
    /\ UNCHANGED <<node, list, tail, alloc, hash, cwhowas, length>>

(* set_nick_name for a client that has a nick                              *)
set_nick_name(c, n) ==
    /\ name[c] # Nil
    /\ NickFree(n)
    /\ Becomes(add_history(c, TRUE))
    /\ name' = [name EXCEPT ![c] = n]
    /\ UNCHANGED length

(* remove_client_from_list for a user: add_history, off_history            *)
remove_client_from_list(c) ==
    /\ name[c] # Nil
    /\ Becomes(off_history(add_history(c, FALSE), c))
    /\ name' = [name EXCEPT ![c] = Nil]
    /\ UNCHANGED length

(* The feature is set; whowas_realloc trims the list, oldest record first. *)
whowas_realloc(n) ==
    LET trim[k \in Nat] ==
            IF k = 0 THEN State
            ELSE IF trim[k - 1].alloc > n /\ trim[k - 1].tail # Nil
                 THEN whowas_free(trim[k - 1], trim[k - 1].tail)
                 ELSE trim[k - 1]
    IN  /\ length' = n
        /\ Becomes(trim[Cardinality(Slots)])
        /\ UNCHANGED name

Next ==
    \/ \E c \in Clients, n \in Nicks : SignOn(c, n) \/ set_nick_name(c, n)
    \/ \E c \in Clients : remove_client_from_list(c)
    \/ \E n \in Lengths : whowas_realloc(n)

Spec == Init /\ [][Next]_vars

-----------------------------------------------------------------------------
Live == {w \in Slots : node[w].nick # Nil}

(* The first k records that a walk along wnext visits (count_whowas_memory)*)
Walk[k \in Nat] ==
    IF k = 0 THEN <<>>
    ELSE LET p == Walk[k - 1]
             next == IF p = <<>> THEN list ELSE node[Last(p)].wnext
         IN  IF next = Nil THEN p ELSE Append(p, next)

(* count_whowas_memory counts the "number of entries in whowas list": the  *)
(* walk along the list ends, meets every record once and the oldest one,   *)
(* which whowas_alloc will reuse, last.  That one is the last of its       *)
(* chains, too, as the notes of 27/8/97 claim: "this is always an entry    *)
(* that is at the *end* of the 'hash list' and 'online list' that it is a  *)
(* part of".                                                               *)
HistoryListExact ==
    LET walk == Walk[Cardinality(Slots) + 1]
    IN  /\ Len(walk) = alloc
        /\ IsInjective(walk)
        /\ ToSet(walk) = Live
        /\ tail = IF walk = <<>> THEN Nil ELSE Last(walk)
        /\ tail # Nil => /\ Last(hash[node[tail].nick]) = tail
                         /\ node[tail].online # Nil => Last(cwhowas[node[tail].online]) = tail

(* Nick chasing (get_history) finds a client that is online, or none: no   *)
(* record points to a client that has left, and a client's list has        *)
(* exactly the records that point to it, however they were recycled.       *)
get_history(n) == IF hash[n] = <<>> THEN Nil ELSE node[hash[n][1]].online

ChaseFindsOnline ==
    /\ \A n \in Nicks : get_history(n) # Nil => name[get_history(n)] # Nil
    /\ \A c \in Clients : ToSet(cwhowas[c]) = {w \in Live : node[w].online = c}
=============================================================================
