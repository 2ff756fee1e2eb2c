----------------------------- MODULE Connection -----------------------------
(***************************************************************************)
(* The connections of one server: the event loop that serves their sockets *)
(* and timers (ircd_events.c, engine_epoll.c), reading with flood control  *)
(* (s_bsd.c, packet.c, dbuf.c), sending through bounded queues (send.c,    *)
(* msgq.c, client.c), pings (ircd.c), and the end of a connection, whose   *)
(* structure is freed when client, socket and timer have all let go of it  *)
(* (s_misc.c, list.c).                                                     *)
(*                                                                         *)
(* The loop is a single thread: loop says what it is doing.  A connection  *)
(* begins where s_auth.c releases it.  Messages have lengths, lines do     *)
(* not; what a line does is a choice among the effects commands have on    *)
(* connections.                                                            *)
(***************************************************************************)
EXTENDS Integers, Sequences, FiniteSets

LOCAL INSTANCE FiniteSetsExt
LOCAL INSTANCE SequencesExt

CONSTANTS
    Conns,            \* 1..n, in the order of their descriptors
    Sendq,            \* get_sendq
    Chunk,            \* 1024: more than that queued is sent at once
    Iov,              \* IOV_MAX
    Lengths,          \* of messages
    Room,             \* of the kernel's buffer
    CLIENT_FLOOD, PINGFREQUENCY, CONNECTTIMEOUT,   \* features
    Ahead,            \* 10: how far cli_since may be ahead
    Slow,             \* 2: what a line costs
    Delay,            \* 2: the wait when it is ahead
    Ping,             \* client_get_ping
    Commands,
    Kinds,            \* what connections register as: user, server
    Starves,          \* how short of buffers the server may be, 0..3
    Packets,          \* what may arrive at once: <<lines, 1 if there is part of one>>
    MaxLines,         \* bound: lines that wait for a connection
    MaxTime           \* bound: the clock

ASSUME ConnectionAssumption ==
    /\ Conns = 1..Cardinality(Conns)
    /\ {Sendq, Chunk, Iov, Room, PINGFREQUENCY, CONNECTTIMEOUT, Ping, Delay} \subseteq Nat \ {0}
    /\ Lengths \subseteq Nat \ {0}
    /\ Kinds \subseteq {"user", "server"}
    /\ Starves \subseteq 0..3
    /\ Packets \subseteq (Nat \X (0..1)) \ {<<0, 0>>}
    /\ Commands \subseteq {"pong", "reply", "talk", "quit", "kill", "oper", "register"}

VARIABLES
    con,          \* con[c]: struct Connection, the client and its timer
    send_queues,  \* the connections with queued data
    wire,         \* wire[c]: the bytes the kernel has, of messages
    peer,         \* peer[c]: part of a message that was read, whether it broke
    loop,         \* what the event loop is doing
    ping_timer,   \* when check_pings runs next
    now,          \* CurrentTime
    good,         \* no assertion has failed
    heard         \* heard[c]: history, when the peer or a line of it was last heard

vars == <<con, send_queues, wire, peer, loop, ping_timer, now, good, heard>>

-----------------------------------------------------------------------------
(* The queue of messages a connection has yet to send (msgq.c): a normal   *)
(* list and a priority list.  What is to be sent next is worked out twice, *)
(* by msgq_mapiov for writev and by msgq_delete when writev has returned,  *)
(* and the two must agree, or a peer gets torn messages.  A message is     *)
(* [id, length, sent]; the buffers behind it, their pool and reference     *)
(* counts are left out.                                                    *)

msgq_init == [queue |-> <<>>, prio |-> <<>>, length |-> 0]

MsgQLength(mq) == mq.length

Left(m) == m.length - m.sent

Partial(list) == list # <<>> /\ Head(list).sent > 0

msgq_add(mq, id, length, prio) ==
    LET list == IF prio THEN "prio" ELSE "queue"
    IN  [mq EXCEPT ![list] = Append(@, [id |-> id, length |-> length, sent |-> 0]),
                   !.length = @ + length]

-----------------------------------------------------------------------------
(* One message, or a part of it, off the head of a list                    *)
msgq_delmsg(mq, list, n) ==
    IF n >= Left(Head(mq[list]))
    THEN [mq EXCEPT ![list] = Tail(@), !.length = @ - Left(Head(mq[list]))]
    ELSE [mq EXCEPT ![list][1].sent = @ + n, !.length = @ - n]

NextList_priofirst(mq) == IF mq.prio # <<>> THEN "prio" ELSE "queue"

(* The list that the next byte is taken from                               *)
NextList(mq) ==
    IF Partial(mq.queue) \/ mq.prio = <<>> THEN "queue" ELSE "prio"

RECURSIVE msgq_delete(_, _)
msgq_delete(mq, n) ==
    LET list == NextList(mq)
    IN  IF n = 0 \/ mq[list] = <<>> THEN mq
        ELSE IF n < Left(Head(mq[list])) THEN msgq_delmsg(mq, list, n)
        ELSE msgq_delete(msgq_delmsg(mq, list, n), n - Left(Head(mq[list])))

-----------------------------------------------------------------------------
(* The messages writev gets, at most count of them                         *)
msgq_mapiov(mq, count) ==
    LET fst == IF Partial(mq.queue) THEN 1 ELSE 0
        all == SubSeq(mq.queue, 1, fst) \o mq.prio \o SubSeq(mq.queue, fst + 1, Len(mq.queue))
    IN  SubSeq(all, 1, IF Len(all) < count THEN Len(all) ELSE count)

(* The bytes these are, a byte being <<message, position, length>>         *)
RECURSIVE Bytes(_)
Bytes(iov) ==
    IF iov = <<>> THEN <<>>
    ELSE [k \in 1..Left(Head(iov)) |-> <<Head(iov).id, Head(iov).sent + k, Head(iov).length>>]
             \o Bytes(Tail(iov))

-----------------------------------------------------------------------------
(* st: none if con_client is NULL.  ref, destroy and error are the         *)
(* generator's, writable is in s_events, timer is con_proc.                *)
NoCon == [used |-> FALSE, st |-> "none", fd |-> FALSE, dead |-> FALSE, closing |-> FALSE, blocked |-> FALSE,
          pingsent |-> FALSE, nonl |-> FALSE, freeflag |-> {}, ref |-> 0, destroy |-> FALSE,
          error |-> FALSE, writable |-> FALSE, timer |-> "off", expire |-> 0,
          lines |-> 0, partial |-> 0, since |-> 0, lasttime |-> 0, firsttime |-> 0,
          q |-> msgq_init, lastsq |-> 0]

Idle == [at |-> "idle", c |-> 0, ev |-> {}, by |-> "none"]

Init ==
    /\ con = [c \in Conns |-> NoCon]
    /\ send_queues = <<>>
    /\ wire = [c \in Conns |-> <<>>]
    /\ peer = [c \in Conns |-> [line |-> <<>>, broken |-> FALSE]]
    /\ loop = Idle
    /\ ping_timer = 1
    /\ now = 0
    /\ good = TRUE
    /\ heard = [c \in Conns |-> 0]

(* Handlers work on h, the state they change.                              *)
Start == [con |-> con, sq |-> send_queues, wire |-> wire, tell |-> <<>>, good |-> good]

Commit(h) ==
    /\ con' = h.con
    /\ send_queues' = h.sq
    /\ wire' = h.wire
    /\ good' = h.good

(* Bound: operators may be ahead without limit.                            *)
MaxSince == MaxTime + Ahead

Registered(k) == k.st \in {"user", "oper", "server"}
DBufLength(k) == k.lines + k.partial

-----------------------------------------------------------------------------
(* Sending                                                                 *)

can_send(h, c) == h.con[c].fd /\ ~h.con[c].dead

client_drop_sendq(h, c) == [h EXCEPT !.sq = SelectSeq(@, LAMBDA d : d # c)]

client_add_sendq(h, c) ==
    IF \E i \in DOMAIN h.sq : h.sq[i] = c THEN h ELSE [h EXCEPT !.sq = <<c>> \o @]

(* update_write, socket_events                                             *)
update_write(h, c) ==
    IF h.con[c].destroy \/ h.con[c].error THEN h
    ELSE [h EXCEPT !.con[c].writable = MsgQLength(h.con[c].q) > 0]

(* The kernel has room for some of the bytes.                              *)
Written(h, c, bytes, room) ==
    LET n == IF room < Len(bytes) THEN room ELSE Len(bytes)
    IN  [h EXCEPT !.con[c].blocked = n < Len(bytes),
                  !.con[c].q = msgq_delete(@, n),
                  !.con[c].lastsq = IF n = 0 THEN @ ELSE (MsgQLength(h.con[c].q) - n) \div Chunk,
                  !.wire[c] = @ \o SubSeq(bytes, 1, n)]

(* deliver_it, and msgq_delete for what writev took; a write to a peer     *)
(* that is gone fails.                                                     *)
deliver_it(h, c) ==
    IF peer[c].broken THEN [h EXCEPT !.con[c].dead = TRUE]
    ELSE Written(h, c, Bytes(msgq_mapiov(h.con[c].q, Iov)), Room - Len(h.wire[c]))

Clear(k) == [k EXCEPT !.dead = TRUE, !.lines = 0, !.partial = 0, !.q = msgq_init]

Opers(h) == SelectSeq([c \in Conns |-> c], LAMBDA d : h.con[d].st = "oper")

(* The operators are told of servers: tell has those still to be told.     *)
dead_link(h, c) ==
    LET notice == h.con[c].st = "server" /\ ~h.con[c].closing
    IN  client_drop_sendq([h EXCEPT !.con[c] = Clear(@),
                                    !.tell = @ \o (IF notice THEN Opers(h) ELSE <<>>)], c)

(* The loop of send_queued, from what the last deliver_it left             *)
RECURSIVE Delivered(_, _, _)
Delivered(g, c, before) ==
    IF g.con[c].dead THEN dead_link(g, c)
    ELSE IF MsgQLength(g.con[c].q) = before THEN g
    ELSE IF g.con[c].blocked \/ MsgQLength(g.con[c].q) = 0
    THEN update_write(IF g.con[c].blocked THEN g ELSE client_drop_sendq(g, c), c)
    ELSE Delivered(deliver_it(g, c), c, MsgQLength(g.con[c].q))

Drain(h, c) ==
    IF h.con[c].blocked \/ ~can_send(h, c) THEN h
    ELSE IF MsgQLength(h.con[c].q) = 0 THEN update_write(client_drop_sendq(h, c), c)
    ELSE Delivered(deliver_it(h, c), c, MsgQLength(h.con[c].q))

NewId(h, c) ==
    LET q == h.con[c].q
        used == {m.id : m \in ToSet(q.queue) \cup ToSet(q.prio)}
                  \cup {b[1] : b \in ToSet(h.wire[c]) \cup ToSet(peer[c].line)}
    IN  Min(1..Cardinality(used) + 1 \ used)

Queue(h, c, len, prio) ==
    client_add_sendq([h EXCEPT !.con[c].q = msgq_add(@, NewId(h, c), len, prio)], c)

SendNow(h, c) == IF MsgQLength(h.con[c].q) \div Chunk > h.con[c].lastsq THEN Drain(h, c) ELSE h

Enqueue_silent(h, c, len, prio) ==
    IF can_send(h, c) /\ MsgQLength(h.con[c].q) <= Sendq THEN Queue(h, c, len, prio) ELSE h

(* send_buffer but for the notices it causes                               *)
Enqueue(h, c, len, prio) ==
    IF ~can_send(h, c) THEN h
    ELSE IF MsgQLength(h.con[c].q) > Sendq
    THEN dead_link([h EXCEPT !.tell = @ \o (IF h.con[c].st = "server" THEN Opers(h) ELSE <<>>)], c)
    ELSE SendNow(update_write(Queue(h, c, len, prio), c), c)

(* A notice may be what ends the connection of another operator.           *)
RECURSIVE Notify(_)
Notify(h) ==
    IF h.tell = <<>> THEN h
    ELSE Notify(Enqueue([h EXCEPT !.tell = Tail(@)], Head(h.tell), Min(Lengths), FALSE))

send_buffer(h, c, len, prio) == Notify(Enqueue(h, c, len, prio))

send_queued(h, c) == Notify(Drain(h, c))

RECURSIVE SendEach(_, _)
SendEach(h, to) ==
    IF to = {} THEN h
    ELSE SendEach(send_buffer(h, Min(to), Min(Lengths), FALSE), to \ {Min(to)})

(* flush_connections(0): a connection that gets rid of all it has leaves   *)
(* the list, and the walk ends there.                                      *)
RECURSIVE Flushed(_, _)
Flushed(h, walk) ==
    LET next == SelectSeq(Tail(walk), LAMBDA c : c \in ToSet(h.sq))
    IN  IF Head(walk) \notin ToSet(h.sq) \/ next = <<>> THEN h
        ELSE Flushed(send_queued(h, Head(next)), next)

flush_connections(h) ==
    IF h.sq = <<>> THEN h ELSE Flushed(send_queued(h, Head(h.sq)), h.sq)

kill_highest_sendq(h, servers_too) ==
    LET kept == {c \in Conns : /\ h.con[c].fd
                               /\ servers_too \/ h.con[c].st # "server"
                               /\ MsgQLength(h.con[c].q) > 0}
        top == {c \in kept : \A d \in kept : MsgQLength(h.con[d].q) <= MsgQLength(h.con[c].q)}
    IN  IF kept = {} THEN h ELSE Notify(dead_link(h, Max(top)))

(* msgq_vmake when buffers are short, from a flush to the loss of a server *)
msgq_vmake(h, short) ==
    LET f == IF short >= 1 THEN flush_connections(h) ELSE h
        g == IF short >= 2 THEN kill_highest_sendq(f, FALSE) ELSE f
    IN  IF short >= 3 THEN kill_highest_sendq(g, TRUE) ELSE g

-----------------------------------------------------------------------------
(* The end of a connection                                                 *)

dealloc_connection(h, c) ==
    [client_drop_sendq(h, c) EXCEPT
        !.con[c] = NoCon, !.good = @ /\ h.con[c].timer = "off" /\ h.con[c].used]

FreeIfLast(h, c) ==
    IF h.con[c].freeflag = {} /\ h.con[c].st = "none" THEN dealloc_connection(h, c) ELSE h

(* ET_DESTROY of the socket and of the timer                               *)
SocketDestroyed(h, c) == FreeIfLast([h EXCEPT !.con[c].freeflag = @ \ {"SOCKET"}], c)
TimerDestroyed(h, c) ==
    FreeIfLast([h EXCEPT !.con[c].freeflag = @ \ {"TIMER"}, !.con[c].timer = "off"], c)

socket_del_now(h, c) == SocketDestroyed([h EXCEPT !.con[c].destroy = TRUE], c)

socket_del(h, c) ==
    LET g == [h EXCEPT !.con[c].destroy = TRUE, !.good = @ /\ ~h.con[c].destroy]
    IN  IF g.con[c].ref = 0 THEN SocketDestroyed(g, c) ELSE g

gen_ref_dec(h, c) ==
    LET g == [h EXCEPT !.con[c].ref = @ - 1]
    IN  IF g.con[c].ref = 0 /\ g.con[c].destroy THEN SocketDestroyed(g, c) ELSE g

timer_del(h, c) ==
    IF h.con[c].timer \in {"marked", "readd"} THEN [h EXCEPT !.con[c].timer = "marked"]
    ELSE TimerDestroyed(h, c)

CloseSocket(h, c) ==
    IF h.con[c].fd THEN [socket_del(send_queued(h, c), c) EXCEPT !.con[c].fd = FALSE] ELSE h

close_connection(h, c) ==
    client_drop_sendq([CloseSocket(h, c) EXCEPT !.con[c] = Clear(@)], c)

free_client(h, c) ==
    LET g == [h EXCEPT !.con[c].st = "none"]
    IN  IF g.con[c].freeflag = {} /\ g.con[c].timer = "off" THEN dealloc_connection(g, c)
        ELSE IF "TIMER" \in g.con[c].freeflag THEN timer_del(g, c)
        ELSE g

(* The victim is told if the decision was not its own, and its channel     *)
(* mates, here all other users, and the servers are told that it quit.     *)
SendQuit(h, c) ==
    IF h.con[c].st = "unknown" THEN h
    ELSE SendEach(h, {o \in Conns \ {c} : Registered(h.con[o])})

exit_client(h, c, own) ==
    LET d == [h EXCEPT !.con[c].closing = TRUE]
    IN  free_client(SendQuit(close_connection(
            IF own \/ h.con[c].dead THEN d ELSE send_buffer(d, c, Min(Lengths), FALSE), c), c), c)
-----------------------------------------------------------------------------
(* Reading: read_packet up to its loop, the loop line by line, and what    *)
(* follows it.                                                             *)

(* A long line without an end is thrown away, a short one is waited for.   *)
MayProcess(k) ==
    /\ DBufLength(k) > 0
    /\ \/ k.st = "server" /\ k.lines > 0
       \/ k.st # "server" /\ ~k.nonl /\ (k.st = "oper" \/ k.since - now < Ahead)

(* n lines and part of another one are put into the buffer; a line is      *)
(* taken out of it.                                                        *)
dbuf_put(k, n, part) ==
    [k EXCEPT !.lines = @ + n,
              !.partial = IF n = 0 /\ @ + part <= 2 THEN @ + part ELSE part]
dbuf_getmsg(k) == [k EXCEPT !.lines = @ - 1]

Received(k, n, part) ==
    LET got == [dbuf_put(k, n, part) EXCEPT
            !.lasttime = IF k.st = "server" THEN @ ELSE now,
            !.pingsent = FALSE, !.nonl = FALSE]
    IN  [got EXCEPT !.since = IF got.lasttime > @ THEN got.lasttime ELSE @]

Flooding(k) == k.st = "user" /\ DBufLength(k) > CLIENT_FLOOD

(* parse_client and parse_server                                           *)
Charge(k) ==
    CASE k.st = "server" -> k
      [] k.st = "oper" -> [k EXCEPT !.since = @ + 1]
      [] OTHER -> [k EXCEPT !.since = @ + Slow]

Others(c) == {d \in Conns \ {c} : Registered(con[d])}

(* What a line may do, as sets of outcomes                                 *)
Effects(h, c) ==
    LET k == h.con[c]
        slow == [h EXCEPT !.con[c] = Charge(@)]
        Makes(to, prio) == {send_buffer(msgq_vmake(slow, s), to, len, prio) :
                               s \in Starves, len \in Lengths}
    IN  [pong |-> {[slow EXCEPT !.con[c].lasttime = now, !.con[c].pingsent = FALSE]},
         reply |-> UNION {Makes(c, p) : p \in BOOLEAN},
         talk |-> IF Registered(k) THEN UNION {Makes(d, FALSE) : d \in Others(c)} ELSE {},
         quit |-> {exit_client(slow, c, TRUE)},
         kill |-> IF k.st \in {"oper", "server"} THEN {exit_client(slow, d, FALSE) : d \in Others(c)}
                  ELSE {},
         oper |-> IF k.st = "user" THEN {[slow EXCEPT !.con[c].st = "oper"]} ELSE {},
         register |-> IF k.st = "unknown"
                      THEN {[slow EXCEPT !.con[c].st = kind] : kind \in Kinds} ELSE {}]

(* client_dopacket, server_dopacket: a client that died is let go.         *)
AfterLine(h, c) ==
    IF h.con[c].st # "none" /\ h.con[c].dead THEN exit_client(h, c, FALSE) ELSE h

Line(cmd) ==
    LET c == loop.c
    IN  /\ loop.at = "lines"
        /\ con[c].st # "none" /\ MayProcess(con[c])
        /\ con[c].lines > 0
        /\ \E h \in Effects([Start EXCEPT !.con[c] = dbuf_getmsg(@)], c)[cmd] : Commit(AfterLine(h, c))
        /\ heard' = [heard EXCEPT ![c] = now]
        /\ UNCHANGED <<peer, loop, ping_timer, now>>

(* dbuf_getmsg finds no line.                                              *)
NoLine ==
    LET c == loop.c
    IN  /\ loop.at = "lines"
        /\ con[c].st # "none" /\ MayProcess(con[c])
        /\ con[c].lines = 0
        /\ con' = [con EXCEPT ![c].nonl = IF con[c].partial < 2 THEN TRUE ELSE @,
                              ![c].partial = IF @ < 2 THEN @ ELSE 0]
        /\ UNCHANGED <<send_queues, wire, peer, loop, ping_timer, now, good, heard>>

(* The rest of read_packet                                                 *)
timer_add(h, c) ==
    IF h.con[c].timer = "queued" THEN h
    ELSE [h EXCEPT !.con[c].freeflag = @ \cup {"TIMER"},
                   !.con[c].timer = IF @ = "off" THEN "queued" ELSE "readd",
                   !.con[c].expire = now + Delay]

AfterLines(h, c) ==
    IF /\ h.con[c].st \notin {"none", "server"}
       /\ DBufLength(h.con[c]) > 0
       /\ ~h.con[c].nonl
    THEN timer_add(h, c) ELSE h

(* timer_run after the callback                                            *)
TimerRun(h, c) ==
    IF h.con[c].timer = "readd"
    THEN [h EXCEPT !.con[c].timer = "queued", !.con[c].expire = now + Delay]
    ELSE TimerDestroyed(h, c)

(* read_packet returns, to the engine or to timer_run.                     *)
Return(h, c) ==
    IF loop.by = "timer" THEN Commit(TimerRun(h, c)) /\ loop' = Idle
    ELSE Commit(gen_ref_dec(h, c)) /\ loop' = [loop EXCEPT !.at = "serve"]

LinesEnd ==
    LET c == loop.c
    IN  /\ loop.at = "lines"
        /\ ~(con[c].st # "none" /\ MayProcess(con[c]))
        /\ Return(AfterLines(Start, c), c)
        /\ UNCHANGED <<peer, ping_timer, now, heard>>

ExcessFlood ==
    /\ loop.at = "flood"
    /\ Return(exit_client(Start, loop.c, FALSE), loop.c)
    /\ UNCHANGED <<peer, ping_timer, now, heard>>

-----------------------------------------------------------------------------
(* The event loop: the engine holds a reference to the socket while it     *)
(* serves it, and each event another one.                                  *)

Poll(c, ev) ==
    /\ loop.at = "idle"
    /\ con[c].used /\ con[c].fd /\ ~con[c].destroy
    /\ IF peer[c].broken THEN ev \in {{"EOF"}, {"ERROR"}, {"READ"}}
       ELSE ev \in SUBSET {"READ", "WRITE"} \ {{}}
    /\ "WRITE" \in ev => con[c].writable /\ Len(wire[c]) < Room
    /\ con' = [con EXCEPT ![c].ref = @ + 1]
    /\ loop' = [at |-> "serve", c |-> c, ev |-> ev, by |-> "sock"]
    /\ UNCHANGED <<send_queues, wire, peer, ping_timer, now, good, heard>>

Serve(e) == loop.at = "serve" /\ e \in loop.ev
Served(e) == loop' = [loop EXCEPT !.ev = @ \ {e}]

(* event_generate does nothing for a socket that is to be destroyed.       *)
Gone(e) ==
    /\ Serve(e)
    /\ con[loop.c].destroy
    /\ Served(e)
    /\ UNCHANGED <<con, send_queues, wire, peer, ping_timer, now, good, heard>>

(* What is there is read unless it is too much already.                    *)
ServeRead(n, part) ==
    LET c == loop.c
        k == IF Flooding(con[c]) THEN con[c] ELSE Received(con[c], n, part)
    IN  /\ Serve("READ") /\ ~con[c].destroy
        /\ ~con[c].dead /\ ~peer[c].broken
        /\ DBufLength(k) <= MaxLines /\ k.since <= MaxSince
        /\ con' = [con EXCEPT ![c] = [k EXCEPT !.ref = @ + 1]]
        /\ good' = (good /\ con[c].st # "none")
        /\ loop' = [loop EXCEPT !.at = IF Flooding(k) THEN "flood" ELSE "lines", !.ev = @ \ {"READ"}]
        /\ heard' = [heard EXCEPT ![c] = now]
        /\ UNCHANGED <<send_queues, wire, peer, ping_timer, now>>

ServeDead ==
    /\ Serve("READ")
    /\ con[loop.c].dead /\ ~con[loop.c].destroy
    /\ Served("READ")
    /\ UNCHANGED <<con, send_queues, wire, peer, ping_timer, now, good, heard>>

ServeWrite ==
    LET c == loop.c
    IN  /\ Serve("WRITE") /\ "READ" \notin loop.ev /\ ~con[c].destroy
        /\ Commit(send_queued([Start EXCEPT !.con[c].blocked = FALSE,
                                            !.good = @ /\ con[c].st # "none"], c))
        /\ Served("WRITE")
        /\ UNCHANGED <<peer, ping_timer, now, heard>>

(* ET_EOF, ET_ERROR, and ET_READ where there is nothing to read any more   *)
ServeError(e) ==
    LET c == loop.c
        h == [Start EXCEPT !.con[c].dead = (e # "READ"), !.con[c].error = (e = "ERROR"),
                           !.con[c].ref = @ + 1, !.good = @ /\ con[c].st # "none"]
    IN  /\ Serve(e) /\ ~con[c].destroy
        /\ peer[c].broken /\ (e = "READ" => ~con[c].dead)
        /\ Commit(gen_ref_dec(exit_client(h, c, FALSE), c))
        /\ Served(e)
        /\ UNCHANGED <<peer, ping_timer, now, heard>>

ServeEnd ==
    /\ loop.at = "serve" /\ loop.ev = {}
    /\ Commit(gen_ref_dec(Start, loop.c))
    /\ loop' = Idle
    /\ UNCHANGED <<peer, ping_timer, now, heard>>

-----------------------------------------------------------------------------
(* timer_run: the timers that are due, and nothing else until they are     *)
(* served.                                                                 *)
client_timer_callback(c) ==
    LET k == [con[c] EXCEPT !.timer = "marked"]
    IN  /\ loop.at = "idle"
        /\ con[c].timer = "queued" /\ con[c].expire <= now
        /\ con' = [con EXCEPT ![c] = k]
        /\ good' = (good /\ con[c].st # "none")
        /\ loop' = [at |-> IF Flooding(k) THEN "flood" ELSE "lines", c |-> c, ev |-> {}, by |-> "timer"]
        /\ UNCHANGED <<send_queues, wire, peer, ping_timer, now, heard>>

Pinged_now(k, max_ping) == [k EXCEPT !.pingsent = TRUE, !.lasttime = now]

Pinged(k, max_ping) == [k EXCEPT !.pingsent = TRUE, !.lasttime = now - max_ping]

(* check_pings for one client: the state, and when to look again           *)
CheckPing(p, c) ==
    LET k == p.h.con[c]
        max_ping == IF Registered(k) THEN Ping ELSE CONNECTTIMEOUT
        At(h, t) == [h |-> h, next |-> IF t < p.next THEN t ELSE p.next]
        Exit == [p EXCEPT !.h = exit_client(@, c, FALSE)]
        pinged == Pinged(k, max_ping)
    IN  IF ~k.fd THEN p
        ELSE IF k.dead THEN Exit
        ELSE IF ~Registered(k)
             THEN IF now - k.firsttime >= max_ping THEN Exit ELSE At(p.h, k.firsttime + max_ping)
        ELSE IF now - k.lasttime < max_ping THEN At(p.h, k.lasttime + max_ping)
        ELSE IF now - k.lasttime >= 2 * max_ping THEN Exit
        ELSE IF k.pingsent THEN At(p.h, k.lasttime + 2 * max_ping)
        ELSE At(send_buffer([p.h EXCEPT !.con[c] = pinged], c, Min(Lengths), FALSE),
                pinged.lasttime + 2 * max_ping)

RECURSIVE CheckFrom(_, _)
CheckFrom(p, c) == IF c \in Conns THEN CheckFrom(CheckPing(p, c), c + 1) ELSE p

check_pings ==
    /\ loop.at = "idle"
    /\ ping_timer <= now
    /\ \E p \in {CheckFrom([h |-> Start, next |-> now + PINGFREQUENCY], 1)} :
          /\ Commit(p.h)
          /\ ping_timer' = p.next
    /\ UNCHANGED <<peer, loop, now, heard>>

-----------------------------------------------------------------------------
(* add_connection, and release_auth_client when nothing is to be asked     *)
Accept(c) ==
    /\ loop.at = "idle"
    /\ ~con[c].used
    /\ con' = [con EXCEPT ![c] = [NoCon EXCEPT
                  !.used = TRUE, !.st = "unknown", !.fd = TRUE, !.freeflag = {"SOCKET"},
                  !.since = now, !.lasttime = now, !.firsttime = now]]
    /\ wire' = [wire EXCEPT ![c] = <<>>]
    /\ peer' = [peer EXCEPT ![c] = [line |-> <<>>, broken |-> FALSE]]
    /\ heard' = [heard EXCEPT ![c] = now]
    /\ UNCHANGED <<send_queues, loop, ping_timer, now, good>>

(* The other side reads what the kernel has, or goes away.                 *)
PeerReads(c) ==
    LET all == peer[c].line \o wire[c]
        Whole(i) == all[i][2] = all[i][3]
        ends == {i \in DOMAIN all : Whole(i)}
    IN  /\ loop.at = "idle"
        /\ con[c].fd /\ ~peer[c].broken /\ wire[c] # <<>>
        /\ wire' = [wire EXCEPT ![c] = <<>>]
        /\ peer' = [peer EXCEPT ![c].line =
                        IF ends = {} THEN all ELSE SubSeq(all, Max(ends) + 1, Len(all))]
        /\ UNCHANGED <<con, send_queues, loop, ping_timer, now, good, heard>>

PeerBreaks(c) ==
    /\ loop.at = "idle"
    /\ con[c].fd /\ ~peer[c].broken
    /\ peer' = [peer EXCEPT ![c].broken = TRUE]
    /\ UNCHANGED <<con, send_queues, wire, loop, ping_timer, now, good, heard>>

TimersDue == ping_timer <= now \/ \E c \in Conns : con[c].timer = "queued" /\ con[c].expire <= now

Tick ==
    /\ loop.at = "idle" /\ ~TimersDue
    /\ now < MaxTime
    /\ now' = now + 1
    /\ UNCHANGED <<con, send_queues, wire, peer, loop, ping_timer, good, heard>>

Next ==
    \/ \E c \in Conns : Accept(c) \/ PeerReads(c) \/ PeerBreaks(c) \/ client_timer_callback(c)
    \/ \E c \in Conns, ev \in SUBSET {"READ", "WRITE", "EOF", "ERROR"} : Poll(c, ev)
    \/ \E p \in Packets : ServeRead(p[1], p[2])
    \/ \E cmd \in Commands : Line(cmd)
    \/ NoLine \/ LinesEnd
    \/ \E e \in {"READ", "WRITE"} : Gone(e)
    \/ ServeDead \/ ServeWrite \/ ServeEnd \/ ExcessFlood
    \/ \E e \in {"READ", "EOF", "ERROR"} : ServeError(e)
    \/ check_pings
    \/ Tick

Spec == Init /\ [][Next]_vars

-----------------------------------------------------------------------------
Quiet == loop.at = "idle"

(* free_client, the ET_DESTROY callbacks and the reference count of the    *)
(* socket: a connection is freed when its client, its socket and its timer *)
(* are gone, not before and not never, and no callback runs for a client   *)
(* that is gone (the assertions of client_sock_callback,                   *)
(* client_timer_callback, socket_del and dealloc_connection).              *)
FreedInTime ==
    /\ good
    /\ Quiet => \A c \in Conns :
          LET k == con[c]
          IN  /\ k.used <=> k.st # "none"
              /\ k.timer # "off" <=> "TIMER" \in k.freeflag
              /\ k.used /\ k.fd => "SOCKET" \in k.freeflag /\ ~k.destroy
              /\ k.used => k.fd /\ k.ref = 0

(* send_buffer, send_queued, dead_link and close_connection: data of a     *)
(* live connection is waited for by the engine, and send_queues has the    *)
(* connections with data (the assertion of flush_connections).             *)
QueuedIsAwaited ==
    \A c \in Conns :
        LET some == MsgQLength(con[c].q) > 0
        IN  /\ some <=> \E i \in DOMAIN send_queues : send_queues[i] = c
            /\ some /\ Quiet => con[c].writable

(* msgq_mapiov against msgq_delete: messages reach the peer whole, and     *)
(* those of a list in the order they were queued.                          *)
WholeMessages ==
    \A c \in Conns :
        LET all == peer[c].line \o wire[c]
            open == all # <<>> /\ all[Len(all)][2] < all[Len(all)][3]
            parts == {m \in ToSet(con[c].q.queue) \cup ToSet(con[c].q.prio) : m.sent > 0}
        IN  /\ \A i \in DOMAIN all :
                  \/ all[i][2] = 1 /\ (i > 1 => all[i - 1][2] = all[i - 1][3])
                  \/ i > 1 /\ all[i - 1] = <<all[i][1], all[i][2] - 1, all[i][3]>>
            /\ con[c].fd /\ ~con[c].dead =>
                  parts = IF open THEN {[id |-> all[Len(all)][1], length |-> all[Len(all)][3],
                                         sent |-> all[Len(all)][2]]} ELSE {}

(* read_packet: lines that wait have a timer that will look at them.       *)
InputIsAwaited ==
    Quiet => \A c \in Conns :
        con[c].st \in {"unknown", "user", "oper"} /\ ~con[c].dead /\ con[c].lines > 0
            => con[c].timer = "queued"

(* check_pings and the time it sets its timer to: a client that says       *)
(* nothing, or does not register, is gone in time, whenever it came.       *)
SilentAreDropped ==
    Quiet /\ ~TimersDue => \A c \in Conns :
        LET k == con[c]
        IN  /\ Registered(k) => now - heard[c] < Ping + Max({Ping, PINGFREQUENCY})
            /\ k.st = "unknown" => now - k.firsttime < Max({CONNECTTIMEOUT, PINGFREQUENCY})
=============================================================================
