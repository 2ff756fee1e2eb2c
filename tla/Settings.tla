------------------------------ MODULE Settings ------------------------------
(* Features (ircd_features.c) and messages of the day (motd.c): what SET,  *)
(* RESET, REHASH and the F lines of the configuration file leave the       *)
(* features at, and what the cached message files show.                    *)
(*                                                                         *)
(* A file is a record of the feature lines, in order, and of the MOTD      *)
(* blocks; the contents of a message file is its version, 0 when there is  *)
(* no such file.                                                           *)
EXTENDS Naturals, Sequences, FiniteSets, Functions, FiniteSetsExt, SequencesExt

CONSTANTS
    Features,     \* names
    Def,          \* their defaults
    Values,       \* per feature the values SET accepts
    Bad,          \* a value that is refused
    ReadOnly,     \* FEAT_READ: not to be changed by SET and RESET
    Files,        \* [lines : sequence of <<feature, value>>, motds : sequence of [path, who],
                  \*  readable : whether it can be opened]
    Paths,
    Locals,       \* clients of ours; Remote is one who asks from another server
    Remote,
    MaxOps, MaxVersion

VARIABLES
    feat,         \* per feature its value and FEAT_MARK
    meant,        \* per feature the value it should have
    motd,         \* [local, remote, other], each message [path, max, who, cache]
    cache,        \* MotdCache entries: [path, max, read, refs] by <<path, max>>
    disk,         \* per path the version of the file
    since,        \* per path the versions it has had since all caches were dropped
    unmarked,     \* features whose mark went when a file could not be read
    ops

vars == <<feat, meant, motd, cache, disk, since, unmarked, ops>>

MPATH == "MPATH"
RPATH == "RPATH"
MOTD_MAXLINES  == "lines"
MOTD_MAXREMOTE == "remote"

-----------------------------------------------------------------------------
(* Messages of the day.  The operators pass on m = [motd, cache].          *)

motd_create(path, max, who) == [path |-> path, max |-> max, who |-> who, cached |-> FALSE]

Key(x) == <<x.path, x.max>>

\* of two messages of one file the second uses what the first has read
motd_cache(cs, x) ==
    IF x.cached \/ (Key(x) \notin DOMAIN cs /\ disk[x.path] = 0) THEN cs
    ELSE [k \in DOMAIN cs \cup {Key(x)} |->
            IF k # Key(x) THEN cs[k]
            ELSE IF k \in DOMAIN cs THEN [cs[k] EXCEPT !.refs = @ + 1]
            ELSE [read |-> disk[x.path], refs |-> 1]]

Cached(cs, x) == [x EXCEPT !.cached = @ \/ Key(x) \in DOMAIN motd_cache(cs, x)]

motd_decache(cs, x) ==
    IF ~x.cached THEN cs
    ELSE IF cs[Key(x)].refs = 1 THEN Restrict(cs, DOMAIN cs \ {Key(x)})
    ELSE [cs EXCEPT ![Key(x)].refs = @ - 1]

Uncached(x) == [x EXCEPT !.cached = FALSE]

\* motd_cache for the local and the remote message, in this order
CacheBoth(m) ==
    LET one == motd_cache(m.cache, m.motd.local)
    IN  [m EXCEPT !.cache = motd_cache(one, m.motd.remote),
                  !.motd.local = Cached(m.cache, @), !.motd.remote = Cached(one, @)]

\* motd_init_local, motd_init_remote: told of when MPATH or RPATH changes
motd_init(m, which, path) ==
    LET dropped == motd_decache(m.cache, m.motd[which])
        new     == motd_create(path, IF which = "local" THEN MOTD_MAXLINES ELSE MOTD_MAXREMOTE, {})
    IN  [m EXCEPT !.cache = motd_cache(dropped, new), !.motd[which] = Cached(dropped, new)]

DropAll(m) ==
    LET all == <<m.motd.local, m.motd.remote>> \o m.motd.other
    IN  [m EXCEPT !.cache = FoldLeft(motd_decache, m.cache, all),
                  !.motd.local = Uncached(@), !.motd.remote = Uncached(@),
                  !.motd.other = [i \in DOMAIN m.motd.other |-> Uncached(m.motd.other[i])]]

motd_recache(m) == CacheBoth(DropAll(m))

motd_clear(m) == CacheBoth([DropAll(m) EXCEPT !.motd.other = <<>>])

motd_add(m, block) ==
    [m EXCEPT !.motd.other = <<motd_create(block.path, MOTD_MAXLINES, block.who)>> \o @]

\* which message a client is shown: 0 the local one, or the number of a block
motd_lookup(c) ==
    LET hits == {i \in DOMAIN motd.other : c \in motd.other[i].who}
    IN  IF hits = {} THEN 0 ELSE Min(hits)

-----------------------------------------------------------------------------
(* Features.  The operators pass on s = [feat, motd, cache].               *)

\* the notify function of a feature that changed
Notify(s, f, changed) ==
    IF ~changed \/ f \notin {MPATH, RPATH} THEN s
    ELSE LET m == motd_init([motd |-> s.motd, cache |-> s.cache],
                            IF f = MPATH THEN "local" ELSE "remote", s.feat[f].v)
         IN  [s EXCEPT !.motd = m.motd, !.cache = m.cache]

\* a value that is refused leaves the feature as it is, its mark too
feature_set(s, line) ==
    LET f == line[1]
        v == line[2]
    IN  IF v = Bad THEN s
        ELSE Notify([s EXCEPT !.feat[f] = [v |-> v, mark |-> v # Def[f]]], f, v # s.feat[f].v)

feature_reset(s, f) ==
    Notify([s EXCEPT !.feat[f] = [v |-> Def[f], mark |-> FALSE]], f, s.feat[f].v # Def[f])

feature_unmark(s) ==
    [s EXCEPT !.feat = [f \in Features |-> [s.feat[f] EXCEPT !.mark = FALSE]]]

feature_mark(s) ==
    FoldLeft(LAMBDA acc, f : IF acc.feat[f].mark THEN acc ELSE feature_reset(acc, f),
             s, SetToSeq(Features))

(* When init_lexer cannot open the file, the features keep their values    *)
(* and lose their marks.                                                   *)
read_configuration_file(s, file) ==
    LET set == FoldLeft(feature_set, feature_unmark(s), file.lines)
        add == FoldLeft(motd_add, [motd |-> set.motd, cache |-> set.cache], file.motds)
    IN  IF ~file.readable THEN feature_unmark(s)
        ELSE feature_mark([set EXCEPT !.motd = add.motd, !.cache = add.cache])

-----------------------------------------------------------------------------
State == [feat |-> feat, motd |-> motd, cache |-> cache]

SetState(s) == feat' = s.feat /\ motd' = s.motd /\ cache' = s.cache

\* what the F lines of a file say: the last good one of each feature
Meant(file) ==
    [f \in Features |->
        LET good == {i \in DOMAIN file.lines : file.lines[i][1] = f /\ file.lines[i][2] # Bad}
        IN  IF good = {} THEN Def[f] ELSE file.lines[Max(good)][2]]

feature_init ==
    LET m == motd_init(motd_init([motd |-> [local |-> motd_create(Def[MPATH], MOTD_MAXLINES, {}),
                                           remote |-> motd_create(Def[RPATH], MOTD_MAXREMOTE, {}),
                                           other |-> <<>>],
                                 cache |-> <<>>], "local", Def[MPATH]), "remote", Def[RPATH])
    IN  [feat |-> [f \in Features |-> [v |-> Def[f], mark |-> FALSE]], motd |-> m.motd, cache |-> m.cache]

Init ==
    /\ disk = [p \in Paths |-> 1]
    /\ since = [p \in Paths |-> {1}]
    /\ feat = feature_init.feat /\ motd = feature_init.motd /\ cache = feature_init.cache
    /\ meant = Def
    /\ unmarked = {}
    /\ ops = 0

Count == ops < MaxOps /\ ops' = ops + 1

\* mo_set: from an operator with PRIV_SET
Set(f, v) ==
    /\ Count /\ f \notin ReadOnly
    /\ SetState(feature_set(State, <<f, v>>))
    /\ meant' = IF v = Bad THEN meant ELSE [meant EXCEPT ![f] = v]
    /\ unmarked' = IF v = Bad THEN unmarked ELSE unmarked \ {f}
    /\ UNCHANGED <<disk, since>>

Reset(f) ==
    /\ Count /\ f \notin ReadOnly
    /\ SetState(feature_reset(State, f))
    /\ meant' = [meant EXCEPT ![f] = Def[f]]
    /\ unmarked' = unmarked \ {f}
    /\ UNCHANGED <<disk, since>>

Rehash(file) ==
    LET m == motd_clear([motd |-> motd, cache |-> cache])
    IN  /\ Count
        /\ SetState(read_configuration_file([feat |-> feat, motd |-> m.motd, cache |-> m.cache], file))
        /\ meant' = IF file.readable THEN Meant(file) ELSE meant
        /\ unmarked' = IF file.readable THEN {} ELSE Features
        /\ since' = [p \in Paths |-> {disk[p]}]
        /\ UNCHANGED disk

\* REHASH m
RehashMotd ==
    LET m == motd_recache([motd |-> motd, cache |-> cache])
    IN  /\ Count
        /\ motd' = m.motd /\ cache' = m.cache
        /\ since' = [p \in Paths |-> {disk[p]}]
        /\ UNCHANGED <<feat, meant, disk, unmarked>>

\* the administrator changes or deletes a message file
Edit(p, v) ==
    /\ Count /\ v # disk[p]
    /\ disk' = [disk EXCEPT ![p] = v]
    /\ since' = [since EXCEPT ![p] = @ \cup {v}]
    /\ UNCHANGED <<feat, meant, motd, cache, unmarked>>

\* motd_send and motd_signon: what is shown is cached first
motd_send(c) ==
    LET i  == IF c = Remote THEN 0 ELSE motd_lookup(c)
        x  == IF c = Remote THEN motd.remote ELSE IF i = 0 THEN motd.local ELSE motd.other[i]
        cs == motd_cache(cache, x)
    IN  /\ Count
        /\ cache' = cs
        /\ motd' = CASE c = Remote -> [motd EXCEPT !.remote = Cached(cache, @)]
                     [] c # Remote /\ i = 0 -> [motd EXCEPT !.local = Cached(cache, @)]
                     [] OTHER -> [motd EXCEPT !.other[i] = Cached(cache, @)]
        /\ UNCHANGED <<feat, meant, disk, since, unmarked>>

Next ==
    \/ \E f \in Features : (\E v \in Values[f] \cup {Bad} : Set(f, v)) \/ Reset(f)
    \/ \E file \in Files : Rehash(file)
    \/ RehashMotd
    \/ \E p \in Paths, v \in 0..MaxVersion : Edit(p, v)
    \/ \E c \in Locals \cup {Remote} : motd_send(c)

Spec == Init /\ [][Next]_vars

-----------------------------------------------------------------------------
(* Features have the value last given to them that was good: by the file   *)
(* at a REHASH, which takes back what SET did and what only the old file   *)
(* said, by SET and RESET after it; a file that cannot be read takes back  *)
(* nothing.  The marks say which differ from their defaults, as far as no  *)
(* such file cleared them, and the messages shown to all are of the files  *)
(* named.                                                                  *)
FeaturesAsMeant ==
    /\ \A f \in Features :
          feat[f].v = meant[f] /\ feat[f].mark = (meant[f] # Def[f] /\ f \notin unmarked)
    /\ motd.local.path = meant[MPATH] /\ motd.remote.path = meant[RPATH]

All == <<motd.local, motd.remote>> \o motd.other

(* No client is shown a message that was replaced before the last REHASH  *)
(* or REHASH m, although messages share what was read: an entry of the     *)
(* cache counts the messages that use it, and is gone with the last one.   *)
MotdFresh ==
    /\ \A k \in DOMAIN cache :
        /\ cache[k].refs = Cardinality({i \in DOMAIN All : All[i].cached /\ Key(All[i]) = k})
        /\ cache[k].refs > 0
        /\ cache[k].read \in since[k[1]]
    /\ \A i \in DOMAIN All : All[i].cached => Key(All[i]) \in DOMAIN cache
=============================================================================
