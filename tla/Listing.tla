------------------------------ MODULE Listing ------------------------------
(***************************************************************************)
(* LIST (m_list.c) and the walk of the channel table behind it             *)
(* (list_next_channels of hash.c): a listing goes on, a bucket at a time,  *)
(* whenever the client's queue has drained (client_sock_callback), while   *)
(* channels come and go.                                                   *)
(***************************************************************************)
EXTENDS Naturals, Sequences, FiniteSets

CONSTANTS
    Channels,
    Bucket,      \* the bucket of the channel's name
    Info,        \* users, time of the last message, secret, fits the pattern
    Now,
    Hashsize,
    Params,      \* the parameters that clients give
    DefaultParam,\* FEAT_DEFAULT_LIST_PARAM
    MaxSendq,    \* cli_max_sendq, in replies
    Low,         \* 2048 bytes: a queue this short is filled again
    MaxLists     \* bound: LIST commands

VARIABLE s

Huge == 99
la_init == [min_users |-> 0, max_users |-> Huge, min_active |-> 0, max_active |-> Huge,
            flags |-> {}, wildcard |-> FALSE, bucket |-> 0]
show_usage == [la_init EXCEPT !.flags = {"usage"}]

(* A parameter sets one limit.  The cases of the topic and creation times  *)
(* run into the one of the activity, which wants another < or > : they are *)
(* always refused.                                                         *)
param_parse(args, p, oper) ==
    CASE p.of = "users"     -> IF p.dir = "<" THEN [args EXCEPT !.max_users = p.val]
                               ELSE [args EXCEPT !.min_users = p.val]
      [] p.of = "active"    -> IF p.dir = "<" THEN [args EXCEPT !.min_active = Now - p.val]
                               ELSE [args EXCEPT !.max_active = Now - p.val]
      [] p.of \in {"topic", "created"} -> show_usage
      [] p.of = "secret"    -> IF oper THEN [args EXCEPT !.flags = @ \cup {"secret"}] ELSE show_usage
      [] p.of = "pattern"   -> IF args.wildcard THEN show_usage
                               ELSE [args EXCEPT !.wildcard = TRUE,
                                                 !.flags = @ \cup (IF p.dir = "!" THEN {"negate"} ELSE {})]

ParseAll(ps, oper) ==
    LET upto[i \in 0 .. Len(ps)] ==
            IF i = 0 THEN la_init
            ELSE IF upto[i - 1] = show_usage THEN show_usage
            ELSE param_parse(upto[i - 1], ps[i], oper)
    IN  upto[Len(ps)]

(* A default that does not parse is no default.                            *)
list_set_default ==
    LET d == ParseAll(DefaultParam, FALSE) IN IF d = show_usage THEN la_init ELSE d

None == [la_init EXCEPT !.bucket = Hashsize]

Matches(args, c) ==
    /\ Info[c].users > args.min_users /\ Info[c].users < args.max_users
    /\ Info[c].last >= args.min_active /\ Info[c].last < args.max_active
    /\ args.wildcard /\ "negate" \notin args.flags => Info[c].fits
    /\ "negate" \in args.flags => ~Info[c].fits
    /\ "secret" \in args.flags \/ ~Info[c].secret

Init ==
    s = [exists |-> {}, listing |-> None, qlen |-> 0, lists |-> 0,
         sent |-> [c \in Channels |-> 0], due |-> {}, ended |-> TRUE]

-----------------------------------------------------------------------------
Found(t, b) == {c \in t.exists : Bucket[c] = b /\ Matches(t.listing, c)}

(* A client whose queue is over its limit is closed, in module Connection; *)
(* sent counts up to twice.                                                *)
SendBucket(t, b) ==
    [t EXCEPT !.sent = [c \in Channels |-> IF c \in Found(t, b) /\ @[c] < 2 THEN @[c] + 1 ELSE @[c]],
              !.qlen = @ + Cardinality(Found(t, b))]

ListEnd(t) == [t EXCEPT !.listing = None, !.qlen = @ + 1, !.ended = TRUE]

(* Mutant: a full queue ends the walk in front of the bucket it is at and  *)
(* the next call goes on behind it.                                        *)
list_next_channels_skip(t) ==
    LET first   == t.listing.bucket
        walk[b \in first .. Hashsize] ==
            IF b = first THEN t
            ELSE IF 2 * walk[b - 1].qlen > MaxSendq THEN walk[b - 1]
            ELSE [SendBucket(walk[b - 1], b - 1) EXCEPT !.listing.bucket = b]
        last    == walk[Hashsize]
    IN  IF last.listing.bucket >= Hashsize THEN ListEnd(last)
        ELSE [last EXCEPT !.listing.bucket = @ + 1]

(* Buckets are sent until the queue is more than half full after one; that *)
(* bucket is also where the next call starts.                              *)
list_next_channels(t) ==
    LET first   == t.listing.bucket
        walk[b \in first .. Hashsize] ==      \* the buckets before b were sent
            IF b = first THEN t ELSE SendBucket(walk[b - 1], b - 1)
        Full(b) == 2 * walk[b + 1].qlen > MaxSendq
        stops   == {b \in first .. Hashsize - 1 : Full(b)}
    IN  IF stops = {} THEN ListEnd(walk[Hashsize])
        ELSE LET b == CHOOSE x \in stops : \A y \in stops : x <= y
             IN  [walk[b + 1] EXCEPT !.listing.bucket = b]

Start(t, args) ==
    IF args.max_users > args.min_users + 1 /\ args.max_active > args.min_active
    THEN LET u == [t EXCEPT !.listing = args, !.sent = [c \in Channels |-> 0], !.ended = FALSE]
         IN  list_next_channels([u EXCEPT !.due = {c \in t.exists : Matches(args, c)}])
    ELSE ListEnd([t EXCEPT !.due = {}])

(* LIST: a listing under way is ended, and LIST or LIST STOP do no more.   *)
m_list ==
    /\ s.lists < MaxLists
    /\ \E ps \in Params, oper \in BOOLEAN :
        LET busy == s.listing # None
            t    == [(IF busy THEN ListEnd(s) ELSE s) EXCEPT !.lists = @ + 1, !.due = {}]
            args == IF ps = <<>> THEN list_set_default ELSE ParseAll(ps, oper)
        IN  s' = IF (busy /\ ps = <<>>) \/ args = show_usage THEN t
                 ELSE Start([t EXCEPT !.qlen = @ + 1], args)

(* LIST #channel.                                                          *)
m_list_channel(c) ==
    /\ s.lists < MaxLists
    /\ LET t == IF s.listing # None THEN ListEnd(s) ELSE s
       IN  s' = [t EXCEPT !.lists = @ + 1, !.due = {},
                          !.qlen = @ + 2 + (IF c \in s.exists /\ ~Info[c].secret THEN 1 ELSE 0)]

(* The socket takes n replies; before it does, a listing is continued.     *)
(* It is waited for while there are replies or a listing (update_write).   *)
Writable(n) ==
    /\ s.qlen > 0 \/ s.listing # None
    /\ LET t == IF s.listing # None /\ s.qlen < Low THEN list_next_channels(s) ELSE s
       IN  t.qlen >= n /\ s' = [t EXCEPT !.qlen = @ - n]

Create(c) ==
    /\ c \notin s.exists
    /\ s' = [s EXCEPT !.exists = @ \cup {c}]

Destroy(c) ==
    /\ c \in s.exists
    /\ s' = [s EXCEPT !.exists = @ \ {c}, !.due = @ \ {c}]

Next ==
    \/ m_list
    \/ \E n \in 0 .. MaxSendq : Writable(n)
    \/ \E c \in Channels : m_list_channel(c) \/ Create(c) \/ Destroy(c)

Spec == Init /\ [][Next]_s

-----------------------------------------------------------------------------
(* When the end of a listing is sent, every channel that fits and existed  *)
(* all the while has been sent.                                            *)
EveryChannelListed == s.ended => \A c \in s.due : s.sent[c] >= 1

(* "Walk consecutive buckets until we hit the end": no channel is sent     *)
(* twice in one listing.                                                   *)
ListedOnce == \A c \in s.due : s.sent[c] <= 1
=============================================================================
