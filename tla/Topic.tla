------------------------------- MODULE Topic -------------------------------
(* The topic of a channel on servers 1 and 2, and on server 3 that links   *)
(* to server 2, loses the link and links again.  Each side may have made   *)
(* the channel at another time.  A TOPIC names the channel's time and when *)
(* the topic was set: one for a younger channel, or older than the topic a *)
(* server has, is not taken.  Server 3 bursts its channel, and a topic     *)
(* that is not empty, like server 2 does.                                  *)
EXTENDS Integers, Sequences

CONSTANTS
    Texts,        \* the topics that users give, "" among them
    Coloured,     \* those with colours
    Stripped,     \* a coloured text without them
    Modes,        \* the modes of the channel among t, m, c and S
    TOPIC_BURST,  \* the feature
    SameSecond,   \* whether two topics may be set in the same second
    ClearAnytime, \* whether a topic may be removed before server 3 is there to stay
    MaxTime,      \* seconds
    MaxLinks      \* times that server 3 links

VARIABLE t

Three == {1, 2, 3}
Near(v) == IF v = 2 THEN IF t.linked THEN {1, 3} ELSE {1} ELSE IF v = 1 \/ t.linked THEN {2} ELSE {}

(* t.chan[v]   what server v has: creationtime, topic and topic_time       *)
(* t.shown[v]  the topic that members on server v were last told           *)
(* t.net       what is under way from one server to another                *)
(* t.last      when a topic was last set                                   *)
Init ==
    \E a, b \in 1..2 :
        t = [chan |-> [v \in Three |-> [creationtime |-> IF v = 3 THEN b ELSE a, topic |-> "", topic_time |-> 0]],
             shown |-> [v \in Three |-> ""],
             net |-> [l \in {<<1, 2>>, <<2, 1>>, <<2, 3>>, <<3, 2>>} |-> <<>>],
             linked |-> FALSE, links |-> 0, time |-> 2, last |-> 0]

Quiet == \A l \in DOMAIN t.net : t.net[l] = <<>>

Sent(T, v, one, m) ==
    [T EXCEPT !.net = [l \in DOMAIN @ |-> IF l[1] = v /\ l[2] \in Near(v) \ {one} THEN Append(@[l], m) ELSE @[l]]]

TopicOf(k) == [cmd |-> "TOPIC", ts |-> k.creationtime, at |-> k.topic_time, text |-> k.topic]

(* do_settopic on server v, told by server one; 0 for a user of its own.   *)
(* Members are told unless the topic is the one they have.                 *)
do_settopic(T, v, one, text, ts) ==
    LET k == [T.chan[v] EXCEPT !.topic = text, !.topic_time = IF ts # 0 THEN ts ELSE T.time]
        S == [T EXCEPT !.chan[v] = k, !.shown[v] = IF T.chan[v].topic # text THEN text ELSE @]
    IN  Sent(S, v, one, TopicOf(k))

(* m_topic by an operator or another member.  Who may not set the topic,   *)
(* or gives one with colours where those are refused, changes nothing.     *)
m_topic(v, who, text) ==
    /\ who = "op" \/ Modes \cap {"t", "m"} = {}
    /\ ~("c" \in Modes /\ text \in Coloured)
    /\ SameSecond \/ t.last < t.time
    /\ ClearAnytime \/ text # "" \/ (t.linked /\ t.links = MaxLinks /\ Quiet)
    /\ LET S == do_settopic(t, v, 0, IF "S" \in Modes /\ text \in Coloured THEN Stripped ELSE text, 0)
       IN  t' = [S EXCEPT !.last = t.time]

(* ms_topic.  The text is passed on with the channel's time here.          *)
ms_topic(T, v, one, m) ==
    LET k == T.chan[v]
    IN  IF k.creationtime < m.ts \/ k.topic_time > m.at THEN T ELSE do_settopic(T, v, one, m.text, m.at)

(* What ms_burst does to the time and to the topic of a younger channel,   *)
(* and passes on                                                           *)
ms_burst(T, v, one, m) ==
    LET k == T.chan[v]
        wiped == [k EXCEPT !.creationtime = m.ts, !.topic = "", !.topic_time = IF k.topic # "" THEN 0 ELSE @]
        S == IF k.creationtime > m.ts THEN [T EXCEPT !.chan[v] = wiped, !.shown[v] = ""] ELSE T
    IN  Sent(S, v, one, [m EXCEPT !.ts = S.chan[v].creationtime])

Receive(l) ==
    /\ t.net[l] # <<>>
    /\ LET m == Head(t.net[l])
           T == [t EXCEPT !.net[l] = Tail(@)]
       IN  t' = IF m.cmd = "BURST" THEN ms_burst(T, l[2], l[1], m) ELSE ms_topic(T, l[2], l[1], m)

(* send_channel_modes for the channel                                      *)
send_channel_modes(k) ==
    <<[cmd |-> "BURST", ts |-> k.creationtime]>>
      \o IF TOPIC_BURST /\ k.topic # "" THEN <<TopicOf(k)>> ELSE <<>>

Link ==
    /\ ~t.linked /\ t.links < MaxLinks
    /\ t' = [t EXCEPT !.linked = TRUE, !.links = @ + 1,
                      !.net[<<2, 3>>] = send_channel_modes(t.chan[2]),
                      !.net[<<3, 2>>] = send_channel_modes(t.chan[3])]

Split ==
    /\ t.linked /\ t.links < MaxLinks
    /\ t' = [t EXCEPT !.linked = FALSE, !.net[<<2, 3>>] = <<>>, !.net[<<3, 2>>] = <<>>]

Tick == t.time < MaxTime /\ t' = [t EXCEPT !.time = @ + 1]

Next ==
    \/ \E v \in Three, who \in {"op", "member"}, text \in Texts : m_topic(v, who, text)
    \/ \E l \in DOMAIN t.net : Receive(l)
    \/ Link \/ Split \/ Tick

-----------------------------------------------------------------------------
(* When server 3 is linked and nothing is under way, every server has the  *)
(* same topic.  An empty topic is not burst, and does not give up its time *)
(* to an older channel (ClearAnytime); of two topics set in the same       *)
(* second each server keeps the one that comes last (SameSecond).          *)
TopicsAgree ==
    (t.linked /\ Quiet) => \A v, w \in Three : t.chan[v].topic = t.chan[w].topic

(* Members were told the topic that their server has, and it has colours   *)
(* only where they are allowed.                                            *)
TopicShown ==
    \A v \in Three : /\ t.shown[v] = t.chan[v].topic
                     /\ Modes \cap {"c", "S"} # {} => t.chan[v].topic \notin Coloured
=============================================================================
