------------------------------- MODULE Engine -------------------------------
(***************************************************************************)
(* The event engines: the generators of ircd_events.c and, one of them at  *)
(* a time, engine_epoll.c, engine_poll.c, engine_select.c,                 *)
(* engine_kqueue.c and engine_devpoll.c.  poll and select scan a table     *)
(* with what was reported for its places; the others get a batch of        *)
(* events.  Callbacks add, change and delete sockets, their own too,       *)
(* while the table or the batch is being worked through.                   *)
(*                                                                         *)
(* A structure that is freed is not used again here, so that a use of it   *)
(* shows; its descriptor is.  Owners close the descriptor just before      *)
(* socket_del, and the kernel then forgets it (except in poll's and        *)
(* select's tables, which are the server's).  Calls that tell the kernel   *)
(* of an open descriptor succeed.  There are fewer descriptors than        *)
(* max_sockets (init_connection_limits), so no table is full.              *)
(***************************************************************************)
EXTENDS Naturals, Sequences, FiniteSets

LOCAL INSTANCE FiniteSetsExt

CONSTANTS
    Kind,        \* of the engine
    Socks,       \* sockets, in the order they are made
    Fds,         \* 0..n
    Starts,      \* what sockets begin as: <<state, events>>
    Threshold,   \* 20: of errors while waiting
    MaxBatch,    \* FEAT_POLLS_PER_LOOP
    MaxOps,      \* bound: what callbacks do, in all
    MaxWaits,    \* bound
    MaxErrors,   \* bound
    Nil

VARIABLE s

(* life: of the structure; ed_int is the slot (poll) or whether the kernel *)
(* has an entry (devpoll).                                                 *)
NoGen == [life |-> "new", fd |-> 0, state |-> "notsock", events |-> {}, ref |-> 0,
          destroy |-> FALSE, error |-> FALSE, ed_int |-> 0]

FreedGen == [NoGen EXCEPT !.life = "freed"]

(* list and want: sockList and the events waited for, by descriptor; by    *)
(* slot for poll, and both in the kernel for epoll.  got and whom: what    *)
(* was reported for a place of the table, and (history) for which socket.  *)
(* top: poll_count, or highest_fd + 1.  batch, i: the events and the index *)
(* (from 0) of the loop.  cur, todo, leak, seen: the socket being served,  *)
(* the events still to generate for it, whether its reference is dropped   *)
(* afterwards, and by how much nfds is lowered.  broken: descriptors with  *)
(* SO_ERROR.  wrong, misled: history, whether an assertion failed or freed *)
(* memory was used, whether an event reached another socket.               *)
Empty ==
    [gen |-> [x \in Socks |-> NoGen], open |-> {}, list |-> [f \in Fds |-> Nil],
     want |-> [f \in Fds |-> {}], got |-> [f \in Fds |-> {}], whom |-> [f \in Fds |-> Nil], top |-> 0,
     batch |-> <<>>, i |-> 0, nfds |-> 0, at |-> "timers", cur |-> Nil, todo |-> <<>>, leak |-> FALSE,
     seen |-> 0, broken |-> {}, errors |-> 0, clear_error |-> FALSE, restart |-> FALSE,
     ops |-> 0, waits |-> 0, wrong |-> FALSE, misled |-> FALSE]

Live(st, x) == st.gen[x].life = "on" /\ ~st.gen[x].destroy

Check(st, ok) == IF ok THEN st ELSE [st EXCEPT !.wrong = TRUE]

-----------------------------------------------------------------------------
(* What an engine waits for.                                               *)

state_to_events(state, events) ==
    CASE state = "connecting" -> {"W"}
      [] state \in {"listening", "notsock"} -> {"R"}
      [] state \in {"connected", "datagram", "connectdg"} -> events

(* Only what differs between clear and set is touched.                     *)
Flipped(want, clear, set) ==
    LET changed == (clear \ set) \cup (set \ clear) IN (want \ changed) \cup (set \cap changed)

Wanted(g) == state_to_events(g.state, g.events)

(* events[ii] = events[--events_used] in a loop that goes on with ii + 1.  *)
Dropped(batch, from, Cites(_)) ==
    LET after[n \in 0..Len(batch)] ==
            IF n = 0 THEN batch
            ELSE LET b == after[n - 1]
                     ii == from + n
                 IN  IF ii <= Len(b) /\ Cites(b[ii])
                     THEN SubSeq([b EXCEPT ![ii] = b[Len(b)]], 1, Len(b) - 1)
                     ELSE b
    IN  after[Len(batch)]

(* while (poll_count > 0 && sockList[poll_count - 1] == 0) poll_count--;   *)
Shrunk(list, top) ==
    LET used == {j \in 0..(top - 1) : list[j] # Nil}
    IN  IF used = {} THEN 0 ELSE Max(used) + 1

Listed(st, x) == Check(st, st.list[st.gen[x].fd] = x)

-----------------------------------------------------------------------------
(* epoll: the kernel has it all.                                           *)

epoll_set_events(st, x, state, events) ==
    LET fd == st.gen[x].fd
    IN  [st EXCEPT !.list[fd] = x, !.want[fd] = state_to_events(state, events)]

epoll_add(st, x) == epoll_set_events(st, x, st.gen[x].state, st.gen[x].events)

epoll_change(st, x, state, events) == epoll_set_events(st, x, state, events)

epoll_delete(st, x) ==
    LET Cites(evt) == evt.ptr = x IN [st EXCEPT !.batch = Dropped(@, st.i, Cites)]

-----------------------------------------------------------------------------
(* poll: a table of slots.                                                 *)

poll_set_or_clear(st, idx, clear, set) == [st EXCEPT !.want[idx] = Flipped(@, clear, set)]

poll_add(st, x) ==
    LET empty == {j \in 0..(st.top - 1) : st.list[j] = Nil}
        idx == IF empty = {} THEN st.top ELSE Min(empty)
        new == [st EXCEPT !.gen[x].ed_int = idx, !.list[idx] = x, !.top = IF empty = {} THEN @ + 1 ELSE @]
    IN  poll_set_or_clear(new, idx, {}, Wanted(st.gen[x]))

poll_change(st, x, state, events) ==
    poll_set_or_clear(Check(st, st.list[st.gen[x].ed_int] = x), st.gen[x].ed_int,
                      Wanted(st.gen[x]), state_to_events(state, events))

poll_delete(st, x) ==
    LET idx == st.gen[x].ed_int
        list == [st.list EXCEPT ![idx] = Nil]
    IN  [Check(st, st.list[idx] = x) EXCEPT
            !.list = list, !.want[idx] = {}, !.top = Shrunk(list, @)]

-----------------------------------------------------------------------------
(* select: two sets of descriptors.                                        *)

select_set_or_clear(st, fd, clear, set) == [st EXCEPT !.want[fd] = Flipped(@, clear, set)]

select_add(st, x) ==
    LET fd == st.gen[x].fd
        new == [Check(st, st.list[fd] = Nil) EXCEPT
                   !.list[fd] = x, !.top = IF fd + 1 >= @ THEN fd + 1 ELSE @]
    IN  select_set_or_clear(new, fd, {}, Wanted(st.gen[x]))

select_change(st, x, state, events) ==
    select_set_or_clear(Listed(st, x), st.gen[x].fd, Wanted(st.gen[x]), state_to_events(state, events))

select_delete(st, x) ==
    LET fd == st.gen[x].fd
        list == [st.list EXCEPT ![fd] = Nil]
    IN  [Listed(st, x) EXCEPT !.want[fd] = {}, !.list = list, !.top = Shrunk(list, @)]

-----------------------------------------------------------------------------
(* kqueue: a filter for reading and one for writing; a disabled one and    *)
(* none are alike.  EBADF is ignored.                                      *)

kqueue_set_or_clear(st, x, clear, set) ==
    LET fd == st.gen[x].fd
    IN  IF fd \in st.open THEN [st EXCEPT !.want[fd] = Flipped(@, clear, set)] ELSE st

kqueue_add(st, x) ==
    LET fd == st.gen[x].fd
    IN  kqueue_set_or_clear([Check(st, st.list[fd] = Nil) EXCEPT !.list[fd] = x], x, {}, Wanted(st.gen[x]))

kqueue_change(st, x, state, events) ==
    kqueue_set_or_clear(Listed(st, x), x, Wanted(st.gen[x]), state_to_events(state, events))

kqueue_delete(st, x) ==
    LET Cites(evt) == evt.fd = st.gen[x].fd
    IN  [Listed(st, x) EXCEPT !.list[st.gen[x].fd] = Nil, !.batch = Dropped(@, st.i, Cites)]

-----------------------------------------------------------------------------
(* /dev/poll: an entry is removed before another is written.               *)

devpoll_set_events(st, x, events) ==
    LET fd == st.gen[x].fd
        removed == IF st.gen[x].ed_int = 1 THEN [st EXCEPT !.want[fd] = {}, !.gen[x].ed_int = 0] ELSE st
    IN  IF events = {} THEN removed
        ELSE [removed EXCEPT !.want[fd] = @ \cup events, !.gen[x].ed_int = 1]

devpoll_add(st, x) ==
    LET fd == st.gen[x].fd
    IN  devpoll_set_events([Check(st, st.list[fd] = Nil) EXCEPT !.list[fd] = x], x, Wanted(st.gen[x]))

devpoll_change(st, x, state, events) == devpoll_set_events(Listed(st, x), x, state_to_events(state, events))

devpoll_delete(st, x) ==
    LET Cites(pfd) == pfd.fd = st.gen[x].fd
    IN  [devpoll_set_events(Listed(st, x), x, {}) EXCEPT
            !.list[st.gen[x].fd] = Nil, !.batch = Dropped(@, st.i, Cites)]

-----------------------------------------------------------------------------
(* evInfo.engine.                                                          *)

eng_add(st, x) ==
    CASE Kind = "epoll" -> epoll_add(st, x)
      [] Kind = "poll" -> poll_add(st, x)
      [] Kind = "select" -> select_add(st, x)
      [] Kind = "kqueue" -> kqueue_add(st, x)
      [] Kind = "devpoll" -> devpoll_add(st, x)

eng_change(st, x, state, events) ==
    CASE Kind = "epoll" -> epoll_change(st, x, state, events)
      [] Kind = "poll" -> poll_change(st, x, state, events)
      [] Kind = "select" -> select_change(st, x, state, events)
      [] Kind = "kqueue" -> kqueue_change(st, x, state, events)
      [] Kind = "devpoll" -> devpoll_change(st, x, state, events)

eng_closing(st, x) ==
    CASE Kind = "epoll" -> epoll_delete(st, x)
      [] Kind = "poll" -> poll_delete(st, x)
      [] Kind = "select" -> select_delete(st, x)
      [] Kind = "kqueue" -> kqueue_delete(st, x)
      [] Kind = "devpoll" -> devpoll_delete(st, x)

(* The kernel, when a descriptor is closed.                                *)
close(st, fd) ==
    [st EXCEPT !.open = @ \ {fd}, !.broken = @ \ {fd},
               !.list[fd] = IF Kind = "epoll" THEN Nil ELSE @,
               !.want[fd] = IF Kind \in {"epoll", "kqueue", "devpoll"} THEN {} ELSE @]

-----------------------------------------------------------------------------
(* Generators.                                                             *)

gen_ref_inc(st, x) == [Check(st, st.gen[x].life = "on") EXCEPT !.gen[x].ref = @ + 1]

\* Mutant: a reference is dropped without the look at GEN_DESTROY being last.
gen_ref_dec_eager(st, x) ==
    IF st.gen[x].destroy
    THEN [Check(st, st.gen[x].life = "on") EXCEPT !.gen[x] = FreedGen]
    ELSE [Check(st, st.gen[x].life = "on") EXCEPT !.gen[x].ref = @ - 1]

gen_ref_dec(st, x) ==
    IF st.gen[x].ref = 1 /\ st.gen[x].destroy
    THEN [Check(st, st.gen[x].life = "on") EXCEPT !.gen[x] = FreedGen]
    ELSE [Check(st, st.gen[x].life = "on") EXCEPT !.gen[x].ref = @ - 1]

gen_init(st, x, state, events, fd) ==
    [st EXCEPT !.gen[x] = [NoGen EXCEPT !.life = "on", !.state = state, !.events = events, !.fd = fd]]

socket_add(st, x, state, events, fd) ==
    eng_add(gen_init([st EXCEPT !.open = @ \cup {fd}], x, state, events, fd), x)

socket_del(st, x) ==
    LET told == eng_closing(Check(st, ~st.gen[x].destroy), x)
    IN  IF st.gen[x].ref = 0 THEN [told EXCEPT !.gen[x] = FreedGen]
        ELSE [told EXCEPT !.gen[x].destroy = TRUE]

socket_state(st, x, state) ==
    IF st.gen[x].destroy \/ st.gen[x].error THEN st
    ELSE [eng_change(st, x, state, st.gen[x].events) EXCEPT !.gen[x].state = state]

socket_events(st, x, action, events) ==
    LET g == st.gen[x]
        new == CASE action = "set" -> events
                 [] action = "add" -> g.events \cup events
                 [] action = "del" -> g.events \ events
    IN  IF g.destroy \/ g.error \/ g.events = new THEN st
        ELSE [eng_change(st, x, g.state, new) EXCEPT !.gen[x].events = new]

(* The callback then runs: at is call.                                     *)
event_execute(st, x, type) ==
    [st EXCEPT !.gen[x].error = @ \/ type = "error", !.at = "call"]

event_generate(st, x, type) ==
    IF st.gen[x].destroy THEN st ELSE event_execute(gen_ref_inc(st, x), x, type)

-----------------------------------------------------------------------------
(* What the loops generate for a socket.  ev: R, W, H (hang-up, EV_EOF), E *)
(* (error); peek: what recv(MSG_PEEK) of a connected socket gives.         *)

Served(todo, leak, seen) == [todo |-> todo, leak |-> leak, seen |-> seen]

If(cond, event) == IF cond THEN <<event>> ELSE <<>>

ByState(g, ev, reading) ==
    CASE g.state = "connecting" -> If("W" \in ev, "connect")
      [] g.state = "listening" -> If("R" \in ev, "accept")
      [] g.state = "notsock" -> If("R" \in ev, reading)
      [] OTHER -> If("R" \in ev, reading) \o If("W" \in ev, "write")

Peeked(g, peek) == IF g.state = "connected" THEN peek ELSE "read"

Again(g, ev, peek) == g.state = "connected" /\ "R" \in ev /\ peek = "again"

HasError(st, g) == g.state # "notsock" /\ g.fd \in st.broken

epoll_serve(st, g, ev) ==
    CASE "E" \in ev -> Served(If(g.fd \in st.broken, "error"), FALSE, 0)
      [] "E" \notin ev /\ "H" \in ev -> Served(<<"eof">>, FALSE, 0)
      [] OTHER -> Served(ByState(g, ev, "read"), FALSE, 0)

poll_serve(st, g, ev, peek) ==
    IF HasError(st, g) THEN Served(<<"error">>, FALSE, 1)
    ELSE IF "H" \in ev THEN Served(<<"eof">>, TRUE, 1)
    ELSE IF Again(g, ev, peek) THEN Served(<<>>, TRUE, 0)
    ELSE LET todo == ByState(g, ev, Peeked(g, peek)) IN Served(todo, FALSE, IF todo = <<>> THEN 0 ELSE 1)

select_serve(st, g, ev, peek) ==
    IF HasError(st, g) THEN Served(<<"error">>, FALSE, 0)
    ELSE IF Again(g, ev, peek) THEN Served(<<>>, TRUE, 0)
    ELSE LET todo == ByState(g, ev, Peeked(g, peek))
         IN  Served(todo, todo = <<"connect">>, IF todo = <<>> THEN 0 ELSE 1)

kqueue_serve(st, g, ev) ==
    IF HasError(st, g) THEN Served(<<"error">>, FALSE, 0)
    ELSE Served(ByState(g, ev, IF "H" \in ev /\ g.state \in {"connected", "notsock"} THEN "eof" ELSE "read"), FALSE, 0)

devpoll_serve(st, g, ev, peek) ==
    IF HasError(st, g) THEN Served(<<"error">>, FALSE, 0)
    ELSE IF "H" \in ev THEN Served(<<"eof">>, TRUE, 0)
    ELSE IF Again(g, ev, peek) THEN Served(<<>>, TRUE, 0)
    ELSE Served(ByState(g, ev, Peeked(g, peek)), FALSE, 0)

eng_serve(st, g, ev, peek) ==
    CASE Kind = "epoll" -> epoll_serve(st, g, ev)
      [] Kind = "poll" -> poll_serve(st, g, ev, peek)
      [] Kind = "select" -> select_serve(st, g, ev, peek)
      [] Kind = "kqueue" -> kqueue_serve(st, g, ev)
      [] Kind = "devpoll" -> devpoll_serve(st, g, ev, peek)

-----------------------------------------------------------------------------
(* The loops.                                                              *)

Scans == Kind \in {"poll", "select"}

Owner(st, fd) == LET xs == {x \in Socks : Live(st, x) /\ st.gen[x].fd = fd} IN IF xs = {} THEN Nil ELSE CHOOSE x \in xs : TRUE

(* What the kernel may report of a descriptor.                             *)
Reports(want, broken) ==
    LET ready == SUBSET want \ {{}}
        bad == IF broken THEN {{"E"}} ELSE {}
    IN  CASE Kind = "epoll" -> ready \cup {{"H"}, {"E"}}
          [] Kind = "poll" -> ready \cup {{"H"}} \cup bad
          [] Kind = "select" -> ready
          [] Kind = "kqueue" -> {{w} : w \in want} \cup {{w, "H"} : w \in want \cap {"R"}}
          [] Kind = "devpoll" -> IF want = {} THEN {} ELSE ready \cup {{"H"}} \cup bad

Entries(st, bad) ==
    {[fd |-> f, ev |-> ev, ptr |-> Owner(st, f)] :
        f \in {g \in Fds : st.list[g] # Nil}, ev \in UNION {Reports(st.want[g], g \in bad) : g \in Fds}}

(* Of a batch: epoll and /dev/poll report a descriptor once, kqueue once   *)
(* for each filter.                                                        *)
Reported(st, bad, b) ==
    /\ \A n \in DOMAIN b : b[n].ev \in Reports(st.want[b[n].fd], b[n].fd \in bad)
    /\ \A m, n \in DOMAIN b :
           m # n /\ b[m].fd = b[n].fd => Kind = "kqueue" /\ b[m].ev \cap b[n].ev \subseteq {"H"}

(* epoll_wait, kevent, ioctl(DP_POLL).                                     *)
WaitBatch(bad) ==
    /\ ~Scans
    /\ \E n \in 0..MaxBatch : \E b \in [1..n -> Entries(s, bad)] :
          /\ Reported(s, bad, b)
          /\ s' = [s EXCEPT !.batch = b, !.i = 0, !.at = "scan", !.broken = bad, !.waits = @ + 1]

(* poll writes revents below poll_count only; select gets a copy of all    *)
(* there is.                                                               *)
WaitTable(bad) ==
    /\ Scans
    /\ \E got \in [{j \in Fds : j < s.top /\ s.list[j] # Nil} -> SUBSET {"R", "W", "H", "E"}] :
          /\ \A j \in DOMAIN got : got[j] \in {{}} \cup Reports(s.want[j], s.gen[s.list[j]].fd \in bad)
          /\ s' = [s EXCEPT !.got = [j \in Fds |-> IF j \in DOMAIN got THEN got[j]
                                                  ELSE IF j < s.top \/ Kind = "select" THEN {} ELSE @[j]],
                            !.whom = [j \in Fds |-> IF j \in DOMAIN got THEN s.list[j] ELSE @[j]],
                            !.nfds = Cardinality({j \in DOMAIN got : got[j] # {}}),
                            !.i = 0, !.at = "scan", !.broken = bad, !.waits = @ + 1]

Wait ==
    /\ s.at = "wait" /\ s.waits < MaxWaits
    /\ \E bad \in SUBSET s.open : s.broken \subseteq bad /\ (WaitBatch(bad) \/ WaitTable(bad))

(* An error that is not EINTR: timers are not run before the next try.     *)
WaitFails ==
    /\ s.at = "wait" /\ s.errors < MaxErrors
    /\ s' = [s EXCEPT !.errors = @ + 1, !.clear_error = TRUE,
                      !.restart = @ \/ (s.errors # 0 /\ s.errors + 1 > Threshold)]

error_clear ==
    /\ s.at = "timers" /\ s.clear_error
    /\ s' = [s EXCEPT !.errors = @ - 1, !.clear_error = s.errors > 1]

(* A socket that was reported, or has a place in the table, is served.     *)
Take(st, x, ev, whom, peek) ==
    LET held == gen_ref_inc(st, x)
        r == eng_serve(st, st.gen[x], ev, peek)
    IN  [held EXCEPT !.cur = x, !.todo = r.todo, !.leak = r.leak, !.seen = r.seen, !.at = "serve",
                     !.broken = IF r.todo = <<"error">> THEN @ \ {st.gen[x].fd} ELSE @,
                     !.misled = @ \/ (x # whom /\ r.todo \notin {<<>>, <<"error">>})]

Peeks == {"read", "eof", "error", "again"}

(* Places in the table or the batch that are empty are passed over.        *)
TakeEntry ==
    /\ s.at = "scan" /\ ~Scans /\ s.i < Len(s.batch)
    /\ LET evt == s.batch[s.i + 1]
           x == IF Kind = "epoll" THEN evt.ptr ELSE s.list[evt.fd]
           st == IF Kind = "epoll" THEN [s EXCEPT !.i = @ + 1] ELSE s
       IN  IF x = Nil THEN s' = [s EXCEPT !.i = @ + 1]
           ELSE \E peek \in Peeks : s' = Take(st, x, evt.ev, evt.ptr, peek)

TakePlace ==
    /\ s.at = "scan" /\ Scans /\ s.nfds # 0 /\ s.i < s.top
    /\ LET x == s.list[s.i]
       IN  IF x = Nil THEN s' = [s EXCEPT !.i = @ + 1]
           ELSE \E peek \in Peeks : s' = Take(s, x, s.got[s.i], s.whom[s.i], peek)

ScanEnds ==
    /\ s.at = "scan"
    /\ IF Scans THEN s.nfds = 0 \/ s.i >= s.top ELSE s.i >= Len(s.batch)
    /\ s' = [s EXCEPT !.at = "timers", !.i = 0, !.batch = <<>>, !.nfds = 0]

Generate ==
    /\ s.at = "serve" /\ s.todo # <<>>
    /\ s' = event_generate([s EXCEPT !.todo = Tail(@)], s.cur, Head(s.todo))

ServeEnds ==
    /\ s.at = "serve" /\ s.todo = <<>>
    /\ LET st == IF s.leak THEN s ELSE gen_ref_dec(s, s.cur)
       IN  s' = [st EXCEPT !.at = "scan", !.cur = Nil, !.leak = FALSE, !.seen = 0, !.nfds = @ - s.seen,
                           !.i = IF Kind = "epoll" THEN @ ELSE @ + 1]

Return == s.at = "call" /\ s' = [gen_ref_dec(s, s.cur) EXCEPT !.at = "serve"]

TimersEnd == s.at = "timers" /\ s' = [s EXCEPT !.at = "wait"]

-----------------------------------------------------------------------------
(* What callbacks of sockets and timers do to sockets.                     *)

Calling == s.at \in {"call", "timers"} /\ s.ops < MaxOps

Counted(st) == [st EXCEPT !.ops = @ + 1]

Add ==
    /\ Calling /\ Fds # s.open
    /\ \E x \in Socks, start \in Starts :
          /\ s.gen[x].life = "new" /\ \A y \in Socks : y < x => s.gen[y].life # "new"
          /\ s' = Counted(socket_add(s, x, start[1], start[2], Min(Fds \ s.open)))

Change ==
    /\ Calling
    /\ \E x \in Socks, w \in {"R", "W"}, action \in {"set", "add", "del"} :
          Live(s, x) /\ s' = Counted(socket_events(s, x, action, {w}))

Transition ==
    /\ Calling
    /\ \E x \in Socks :
          /\ Live(s, x)
          /\ \/ s.gen[x].state = "connecting" /\ s' = Counted(socket_state(s, x, "connected"))
             \/ s.gen[x].state = "datagram" /\ s' = Counted(socket_state(s, x, "connectdg"))
             \/ s.gen[x].state = "connectdg" /\ s' = Counted(socket_state(s, x, "datagram"))

Delete ==
    /\ Calling
    /\ \E x \in Socks : Live(s, x) /\ s' = Counted(socket_del(close(s, s.gen[x].fd), x))

(* Two sockets were added before the loop begins.                          *)
Init ==
    \E start \in [1..2 -> Starts] :
        s = socket_add(socket_add(Empty, 1, start[1][1], start[1][2], 0), 2, start[2][1], start[2][2], 1)

Next ==
    \/ Wait \/ WaitFails \/ error_clear \/ TakeEntry \/ TakePlace \/ ScanEnds \/ Generate \/ ServeEnds
    \/ Return \/ TimersEnd \/ Add \/ Change \/ Transition \/ Delete

Spec == Init /\ [][Next]_s

-----------------------------------------------------------------------------
Interest(fd) ==
    IF Kind = "poll"
    THEN UNION {s.want[j] : j \in {k \in 0..(s.top - 1) : s.list[k] # Nil /\ s.gen[s.list[k]].fd = fd}}
    ELSE s.want[fd]

\* Whatever callbacks add, change and delete while events are worked
\* through, the kernel is asked for just what the socket that has the
\* descriptor waits for: nothing more (a loop that spins), nothing less (a
\* socket that is never served).
InterestKept ==
    \A fd \in Fds :
        Interest(fd) = UNION {Wanted(s.gen[x]) : x \in {y \in Socks : Live(s, y) /\ s.gen[y].fd = fd}}

\* No structure is used after it was freed, and no assertion about the
\* tables fails, although callbacks delete sockets of which events are left.
NothingFreedIsUsed == ~s.wrong

\* An event is given to the socket it was reported for, never to one that
\* got its descriptor meanwhile.
EventsReachTheirs == ~s.misled

\* When the loop waits nothing holds a socket: a deleted one is freed.
NoneHeld == s.at = "wait" => \A x \in Socks : s.gen[x].life = "on" => s.gen[x].ref = 0 /\ ~s.gen[x].destroy

\* Errors are forgotten in time: the timer runs while there are any.
ErrorsAreCleared == s.clear_error <=> s.errors > 0
=============================================================================
