---------------------------- MODULE MCConnection ----------------------------
\* Each behaviour is of one of these small instances, of Connection:
\*   life   two connections that come and go, with operators who kill and a
\*          timer for their lines; its constants are in the configuration
\*   wire   one connection and replies of two lengths on both lists
\*   short  two connections that talk while there are no buffers
\*   time   one connection, long enough to be silent, late or flooding
\* and of Engine, with con for its variable and the others 0: epoll, poll,
\* select, kqueue and devpoll, with two sockets and one that comes later.
EXTENDS Connection

CONSTANT Nil

VARIABLE scene

LifePackets == {<<2, 0>>}

Wire == INSTANCE Connection WITH
    Conns <- {1}, Sendq <- 2, Lengths <- {1, 2}, Room <- 2, Slow <- 0, Commands <- {"reply"},
    Starves <- {0, 1, 2}, Packets <- {<<1, 0>>}, MaxLines <- 1, MaxTime <- 0

Short == INSTANCE Connection WITH
    Slow <- 0, Commands <- {"talk", "register"}, Starves <- {1, 3}, Packets <- {<<1, 0>>},
    MaxLines <- 1, MaxTime <- 0

Time == INSTANCE Connection WITH
    Conns <- {1}, CLIENT_FLOOD <- 1, PINGFREQUENCY <- 3, CONNECTTIMEOUT <- 2, Ping <- 2,
    Commands <- {"pong", "register"}, Packets <- {<<0, 1>>, <<3, 0>>}, MaxLines <- 3, MaxTime <- 7

Streams == {<<"connecting", {"R"}>>, <<"connected", {"R"}>>}
Datagrams == {<<"datagram", {"R"}>>, <<"listening", {}>>}

ByEpoll == INSTANCE Engine WITH
    s <- con, Kind <- "epoll", Socks <- 1..3, Fds <- 0..1, Starts <- Streams, Threshold <- 1,
    MaxBatch <- 2, MaxOps <- 3, MaxWaits <- 1, MaxErrors <- 0

ByPoll == INSTANCE Engine WITH
    s <- con, Kind <- "poll", Socks <- 1..3, Fds <- 0..1, Starts <- Streams, Threshold <- 1,
    MaxBatch <- 2, MaxOps <- 3, MaxWaits <- 1, MaxErrors <- 0

BySelect == INSTANCE Engine WITH
    s <- con, Kind <- "select", Socks <- 1..3, Fds <- 0..1, Starts <- Streams \cup Datagrams, Threshold <- 1,
    MaxBatch <- 2, MaxOps <- 3, MaxWaits <- 1, MaxErrors <- 0

ByKqueue == INSTANCE Engine WITH
    s <- con, Kind <- "kqueue", Socks <- 1..3, Fds <- 0..1, Starts <- Streams, Threshold <- 1,
    MaxBatch <- 3, MaxOps <- 3, MaxWaits <- 1, MaxErrors <- 2

ByDevpoll == INSTANCE Engine WITH
    s <- con, Kind <- "devpoll", Socks <- 1..3, Fds <- 0..1, Starts <- Streams, Threshold <- 1,
    MaxBatch <- 2, MaxOps <- 3, MaxWaits <- 1, MaxErrors <- 0

Zero(v) == v = 0

NoConnection ==
    /\ Zero(send_queues) /\ Zero(wire) /\ Zero(peer) /\ Zero(loop) /\ Zero(ping_timer) /\ Zero(now)
    /\ Zero(good) /\ Zero(heard)

SceneInit ==
    \/ scene = "life" /\ Init
    \/ scene = "wire" /\ Wire!Init
    \/ scene = "short" /\ Short!Init
    \/ scene = "time" /\ Time!Init
    \/ NoConnection /\ \/ scene = "epoll" /\ ByEpoll!Init
                       \/ scene = "poll" /\ ByPoll!Init
                       \/ scene = "select" /\ BySelect!Init
                       \/ scene = "kqueue" /\ ByKqueue!Init
                       \/ scene = "devpoll" /\ ByDevpoll!Init

SceneNext ==
    /\ \/ scene = "life" /\ Next
       \/ scene = "wire" /\ Wire!Next
       \/ scene = "short" /\ Short!Next
       \/ scene = "time" /\ Time!Next
       \/ /\ \/ scene = "epoll" /\ ByEpoll!Next
             \/ scene = "poll" /\ ByPoll!Next
             \/ scene = "select" /\ BySelect!Next
             \/ scene = "kqueue" /\ ByKqueue!Next
             \/ scene = "devpoll" /\ ByDevpoll!Next
          /\ UNCHANGED <<send_queues, wire, peer, loop, ping_timer, now, good, heard>>
    /\ UNCHANGED scene

SceneSpec == SceneInit /\ [][SceneNext]_<<vars, scene>>

\* FreedInTime, in the instances where connections end in several ways.
EachFreedInTime ==
    CASE scene \in {"life", "short"} -> FreedInTime
      [] scene = "time" -> Time!FreedInTime
      [] OTHER -> TRUE

\* QueuedIsAwaited in all instances, InputIsAwaited where lines have to wait.
EachAwaited ==
    CASE scene = "life" -> QueuedIsAwaited /\ InputIsAwaited
      [] scene = "short" -> QueuedIsAwaited
      [] scene = "wire" -> Wire!QueuedIsAwaited
      [] scene = "time" -> Time!QueuedIsAwaited /\ Time!InputIsAwaited
      [] OTHER -> TRUE

\* WholeMessages, where there are messages of several bytes.
WireWholeMessages == scene = "wire" => Wire!WholeMessages

\* SilentAreDropped, where the clock runs.
TimeSilentAreDropped == scene = "time" => Time!SilentAreDropped

\* Whichever engine serves the sockets: InterestKept and
\* NothingFreedIsUsed; EventsReachTheirs in epoll and /dev/poll; NoneHeld in
\* epoll and kqueue; ErrorsAreCleared where waiting fails.
EachEngineRight ==
    CASE scene = "epoll" -> /\ ByEpoll!InterestKept /\ ByEpoll!NothingFreedIsUsed
                            /\ ByEpoll!EventsReachTheirs /\ ByEpoll!NoneHeld
      [] scene = "poll" -> ByPoll!InterestKept /\ ByPoll!NothingFreedIsUsed
      [] scene = "select" -> BySelect!InterestKept /\ BySelect!NothingFreedIsUsed
      [] scene = "kqueue" -> /\ ByKqueue!InterestKept /\ ByKqueue!NothingFreedIsUsed
                             /\ ByKqueue!NoneHeld /\ ByKqueue!ErrorsAreCleared
      [] scene = "devpoll" -> /\ ByDevpoll!InterestKept /\ ByDevpoll!NothingFreedIsUsed
                              /\ ByDevpoll!EventsReachTheirs
      [] OTHER -> TRUE
=============================================================================
