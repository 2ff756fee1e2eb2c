# Nefarious IRCu: a TLA+ verification project

Nefarious is an IRC server (`ircd/*.c`): one process with one thread, an event
loop that serves sockets, timers and signals. Servers form a spanning tree and
speak the P10 protocol over TCP. Every server keeps a full copy of the network's
servers, clients and channels. The copies are kept equal by flooding each change
over the tree, by time stamps (the older channel wins, the older or the newer
nick wins, the later G-line wins), by bursts when a link comes up, and by undoing
("bouncing") what a server does not accept. No state survives a restart.

So there are two kinds of difficulty. *Inside* a server no two handlers overlap,
but a handler may run into the end of the very connection it serves, state is
kept twice (a counter and a list, two lists that mirror each other) by dozens of
functions, and answers are cached. *Between* servers everything interleaves:
messages cross, links break with messages in flight, and each server decides
alone.

## 1. Inventory

### Modelled

| Part | State | Operations | What is hard | What makes it correct |
|---|---|---|---|---|
| **channel membership** `channel.c m_join.c m_part.c m_kick.c m_create.c m_invite.c m_endburst.c m_burst.c s_misc.c` | member list with status bits, `users` counter, invitations linked from user and channel | JOIN, CREATE, PART, KICK, MODE o/z/-i, INVITE, QUIT, split, BURST, END_OF_BURST | kicked remote users stay as *zombies*; an unsigned counter decides when a channel is freed; handlers go on using a channel after removing somebody | count = list, no member without a client, no channel of zombies only, no use of a freed channel |
| **membership as clients see it** `channel.c m_join.c m_part.c m_kick.c m_names.c send.c` | what each client has displayed; join buffers | JOIN and PART of lists, KICK, QUIT, a change of host, NAMES | buffers tell other servers later than clients; a zombie is a member to some functions and none to others | clients display exactly the members; the servers have the same ones |
| **channel state on the network** `m_burst.c m_create.c m_mode.c m_opmode.c m_clearmode.c channel.c` | time stamp, modes, bans, exceptions, operators of one channel at every server | CREATE, JOIN, MODE, OPMODE, CLEARMODE, KICK of net riders, BURST | both sides of a new link merge at once; mode changes cross bursts and are bounced | all servers end with one channel; only the older side keeps operators |
| **topics** `m_topic.c m_burst.c` | topic, its time, the channel's time at every server | TOPIC, topics in bursts, split | which of two topics is newer is decided on each server with two time stamps | the servers end with one topic and members were told it |
| **bans and exceptions** `channel.c m_nick.c` | lists of plain and extended masks, the answer each membership caches | MODE b/e, look-up, nick and host changes | the cache must be dropped by everything the answer depends on | a cached answer is what the lists say |
| **nicks on the network** `m_nick.c m_kill.c m_quit.c m_svsnick.c s_user.c s_serv.c s_misc.c numnicks.c` | client table with nick and `lastnick` at every server | sign on, NICK, QUIT, KILL, SVSNICK, SQUIT, burst | one collision is met by several servers, each of which kills by itself | one client per nick, the servers agree in the end |
| **registration** `s_user.c m_user.c m_pass.c m_pong.c m_webirc.c m_account.c s_auth.c` | what a connection has said, the ping cookie, a login that waits at a service, verdicts of black lists, counters | USER, NICK, PASS, PONG, WEBIRC in any order, ACCOUNT answers, time out, exit | a descriptor is used again while an answer about its last owner is under way | nobody is registered against a check, introduced twice, or given an account meant for another |
| **user modes and operators** `s_user.c m_oper.c m_challenge.c m_privs.c m_svsmode.c` | flags, privileges, command table, counters behind LUSERS | OPER, CHALLENGE, MODE, SVSMODE, PRIVS, exit | counters by difference; the privilege to propagate is taken by the change that needs it | counters exact, servers agree |
| **visible hosts** `s_user.c m_account.c m_fakehost.c` | real, hidden, set and fake host, modes x and h | MODE x and h, SETHOST, ACCOUNT, FAKEHOST | four sources of one field, which cross | the servers show one host and it fits the modes |
| **messages and their targets** `ircd_relay.c send.c m_silence.c s_user.c` | channel, roster, silence lists, last targets | messages to channels, users, services, masks; WALLs; SILENCE | one copy per link, decided by what servers know of users far away | heard once by whom it is for; silences agree; new targets are limited |
| **server links** `m_server.c m_squit.c m_connect.c s_serv.c s_misc.c s_bsd.c parse.c` | every server's view of the tree, link time stamps | connect, accept, SERVER, SQUIT, loop check, EOF, ping time out | loops made by two links at once, news that is outdated when it arrives | no loop remains, views agree, no half link, the second youngest link breaks |
| **G-lines, shuns, Z-lines, jupes, spam filters** `gline.c shun.c zline.c jupe.c spamfilter.c` and their commands | lists with `lastmod`, expiry, activation, local deactivation | changes by operators and services, REMOVE, relay, burst, resend, expiry | concurrent changes, resends that answer each other, overlapping masks, five copies of the code that differ | the last change wins, no version goes back, what is forbidden is gone, the exchange ends |
| **connections and event loop** `s_bsd.c send.c msgq.c client.c packet.c dbuf.c list.c ircd_events.c ircd.c` | connection with fd, flags, reference counts; send queue; input buffer; timers; loop position | accept, read, write, error, timer, ping check, kill, flush, shortage of buffers | a connection ends inside its own callback; partial writes; a full queue in the middle of another client's command | freed exactly when nobody refers to it; what is queued, typed or silent is noticed in time; messages arrive whole |
| **event engines** `engine_epoll.c engine_poll.c engine_select.c engine_kqueue.c engine_devpoll.c ircd_events.c` | what each engine waits for, the batch of events it is working on, references | add, change, delete, wait, a pass over a batch | callbacks edit the table that is being walked | interest is what the program asked for, nothing freed is touched, events reach their socket |
| **connection auth** `s_auth.c` | request with flags, two lists, outstanding queries | start, DNS and DNSBL answers, ident connect/read/error, timer | four sources decide who was last | released once, no callback to a freed request, nobody held for ever |
| **resolver** `res.c` | request list, cache with references, timers | PTR and A query, reply, resend, give up, expiry, client gone | late, doubled and lost datagrams; entries held while the cache expires | one request per waiting client, entries stay while held, names are confirmed, lookups end |
| **IP registry** `IPcheck.c s_bsd.c m_webirc.c` | per address: clients, attempts, last time, all narrow integers | check in/out, fail, expiry, WEBIRC, burst | every exit path must check out exactly once | exact count, limit kept, assertions hold |
| **nick history** `whowas.c` | fixed number of records on three lists | add, recycle, resize, client gone | the recycled record is on three lists | lists exact, chase finds only clients online |
| **tables and numerics** `hash.c numnicks.c list.c` | chains by name; slots of a server's users | add, rename, remove, look up (which reorders); allocate and release a numeric | every caller must remove before it renames; slots are used again while messages are under way | what exists is found, what is gone is not; a numeric means one user on both ends |
| **channel listing** `m_list.c hash.c` | parameters, the bucket a LIST has reached | LIST, the socket becomes writable, channels come and go | the walk is resumed later in a table that has changed | no channel that was there is left out |
| **watch lists** `watch.c m_watch.c` | watches with their watchers, linked both ways | WATCH, sign on and off, nick change, exit | watches are freed in the middle of walks | links mirror each other, watchers are told what is true |
| **configuration** `s_conf.c ircd_parser.y class.c listener.c crule.c ircd_features.c motd.c` | the parser's variables, lines with their users, classes, ports, features, message caches | parsing of blocks, attach, detach, REHASH, SET, RESET | lines live on while used; the parser's variables carry from block to block | nobody points at what is gone, the file is what is in force |
| **mask matching** `match.c` | | match, mmatch, collapse, compiled masks | four readings of one mask | they agree with what a mask means |

Interactions: `Connection` ends clients, which leave `ChannelMembers`, `IPcheck`,
`Whowas`, `Watch` and `Hash` through `exit_one_client`; `Engine` runs
its callbacks; `Auth` uses `Resolver` and `IPcheck` before `Register` makes a user
of a connection, who is then a client of `Nick`, `Umode`, `Bans`; `Conf` says who
may be let in; `Links` carries everything else and is itself a set of
connections. `Relay` extends `Bans`, since who may speak depends on the bans, and
those on the host that they are matched with. The modules about several servers
have each their own model of the links, with what their messages need; the ban
lists other than `Gline` share `Flood`.

### Not modelled

`PROJECT.json` lists them with reasons: queries, which only read; operator and
maintenance commands; forced joins, parts and quits, which run the user's own
code paths; the dispatch of commands, which is in the guards of the actions; text,
logging and memory; passwords and encryption; signals and platforms; build tools.

## 2. Modules

| Module | Models | Extends / composes |
|---|---|---|
| `ChannelMembers` | one `struct Channel` with its memberships, as functions of a record; all channels of one server and every handler that edits them | `Filter` |
| `ChannelMembersProofs` | lemmas on those functions, the inductive invariants and the theorems | `ChannelMembers` |
| `Filter` | a list without some of its elements, and lemmas about it | |
| `Presence` | members as two servers and their clients see them | |
| `ChannelSync` | one channel on a line of servers | |
| `Topic` | one channel's topic on a line of servers | |
| `Nick` | clients and nicks on a line of servers | |
| `NickProofs` | nicks are unique | `Nick` |
| `Register` | connections of one server until they are users | |
| `Umode` | modes and operator status on a line of servers; lemmas and the theorem about its counters | `Filter` |
| `Bans`, `Relay` | a user's host and the bans it meets; what it says | `Relay` extends `Bans` |
| `Links` | the server tree | |
| `Gline` | the replicated ban list on a tree of servers, with local clients | `Filter` |
| `GlineProofs` | its theorems; `Gline` implements `LastWrite` | `Gline`, instance of `LastWrite` |
| `LastWrite` | what a list promises of one entry: an abstract specification and two theorems about it | implemented by `Gline` (`GlineProofs`, `MCLists`) and `Shun` (`MCLists`) |
| `Flood` | links, relay and burst of a replicated list | |
| `Shun`, `Zline`, `Jupe`, `Spamfilter` | the list of that name | `Flood` |
| `Connection` | one send queue, as functions of a record; the connections of one server under its event loop | |
| `Engine` | sockets under one of five engines | |
| `Auth`, `Resolver`, `IPcheck`, `Whowas`, `Listing`, `Watch` | the part of that name | |
| `AuthProofs`, `IPcheckProofs` | theorems about two of them | `Auth`, `IPcheck` |
| `Hash` | the tables by name and, with `NumericsInit` and `NumericsNext`, the numerics of users | |
| `Conf` | lines, classes and ports through REHASH | |
| `ConfFile` | the blocks of the file and the parser's variables | |
| `Crule`, `Match` | connection rules, masks: pure algorithms beside a definition of their meaning | |
| `Settings` | features and messages of the day | |
| `MC...` | the instances TLC checks | |

Conventions. Operators carry the name of the C function they stand for
(`ms_join`, `gline_activate`, `check_loop_and_lh`); where several handlers do the
same work one operator stands for it (`Part`, `Squit`). A handler that calls a
chain of functions that edit the same state passes that state along as a record
(`Work` in `Links`, `Start`/`Commit` in `Nick` and `Connection`) and commits it in
one step, as the single thread does. Links are FIFO sequences; what is in them is
lost when the link closes. Operators named `X_suffix` beside an `X` are variants
of `X` with one plausible mistake: they are used by no specification and exist to
show that the properties notice that mistake.

How state corresponds: every variable's comment names the C field it stands for,
and `PROJECT.json` ("map") gives file, lines and function for every definition.

## 3. Instances: scenes and bounds

An `MC` module holds several *scenes*: instances of specifications, the first
with the constants of the `.cfg`, the others by `INSTANCE ... WITH`. Init chooses
a scene; it never changes. Where a scene is of another module than the one that
`MC` extends, its variables are held by that module's variables or, in `MCLists`,
`MCClients`, `MCConf` and `MCUser`, by `v1`, `v2`, ... (`w1`, `w2`, ...), while the
module's own stay as they were in the beginning; the ones it does not need stay 0.
So the properties that these runs take from `Gline`, `Auth`, `IPcheck` and `Umode`
are those modules' definitions, which the theorems of section 5 name. A property named `LineX`, `PairX`, `EachX`, `BothX` is `X`,
or a conjunction of such, in the scene(s) it names.

| Run | Scenes and sizes | Distinct states |
|---|---|---|
| `members` | 1 local, 2 remote users (interchangeable) behind 1 link; 2 channels, one of which services make persistent; at most 1 invitation/channel per user; counter modulo 6 | 26 000 |
| `lists` | *line*: 3 servers, 1 G-line, a client, 3 global changes in different seconds. *overlap*: 2 servers, 2 masks of which one contains the other, a client, 3 changes of any kind and scope, expiry. *relink*: the link breaks once. *shun*, *shunany*: the same for shuns. *zline*: a client that connects between 2 changes. *jupe*, *jupeany*: jupes of the last server in a line of 3, whose link breaks and comes back. *filter*: 2 spam filters and one of the file, changes that cross, a break | 942 000 |
| `clients` | *auth*: 3 connections, 2 DNS ban lists. *history*: 2 clients, 3 nicks, 2 or 3 records, resized while running. *three*: 3 clients look up their names, one address claims a name it does not have, cache of 1. *pair*: 2 clients with one address, time for all retries. *names*, *channels*: 3 clients or channels in one chain. *numerics*: 2 users, 2 slots, the link breaks once. *list*: 3 channels in 2 buckets, a queue of 4 replies, every kind of parameter. *watch*: 2 watchers, 3 nicks of one chain, of which one is read as the command C and one as L, commands of one and two words | 696 000 |
| `user` | *middle*: the modes of a user on the middle one of 3 servers, 3 kinds of operator line, single changes and pairs of them. *service*: services two hops away change them too. *register*: a descriptor used twice, 4 kinds of client, 2 logins. *names*: all user names of up to 5 characters of every class. *lists*: 3 black list blocks on 2 zones. *hosts*: 3 servers, 4 changes by the user and by services. *bans*: 2 channels, 4 bans, 2 exceptions, 4 changes. *talk*: 3 servers, 3 hearers, all kinds of message. *silence*: 4 masks that contain each other on 2 servers. *targets*: 4 targets, table of 2. *presence*: 2 servers, 3 users, 3 channels, lists that name a channel twice or JOIN 0 | 398 000 |
| `nick` | *line*: clients on the outer two of 3 servers, 4 moves, 2 idents. *relink*: 2 servers, the link breaks once. *service*: forced nicks. *shared*: 2 clients on one server, 1 on the other | 373 000 |
| `sync` | *pair*: 2 servers with a channel each, 2 flags, 2 overlapping bans, 6 moves, the link comes up in any state. *line*: a third server behind, which learns of the merge from what is passed on. *topic*, *strict*: topics on 3 servers, one of which links twice | 442 000 |
| `links` | *square*: two linked pairs joined by two links at once. *pair*: 2 servers connect to each other while one has a link to a third; one SQUIT and one break. *triangle*: 2 linked servers connect to a third; one break | 116 000 |
| `connection` | *life*: 2 connections, quits, operators who kill, flood control. *wire*: 1 connection, replies of two lengths on both lists, kernel buffer of 2. *short*: 2 connections while buffers run out. *time*: 1 connection, Ping 2, PINGFREQUENCY 3, CONNECTTIMEOUT 2, clock to 7. *epoll*, *poll*, *select*, *kqueue*, *devpoll*: 2 descriptors, 3 sockets, batches of 2 or 3 events, 3 calls from callbacks | 2 465 000 |
| `conf` | *registry*: 3 clients, 2 addresses, one Z-lined, 1 socket per address that the engine refuses. *rehash*: 3 files, 2 users and a server, 2 REHASHes. *file*: three blocks in a row of 17 kinds. *rule*, *call*: all rules of up to 5 tokens on 2 networks. *settings*: 3 features, 4 changes of settings, files (one of which cannot be opened) and texts. *mask*: all pairs of masks of up to 3 characters | 311 000 |

Why these sizes. Three servers in a line have an inner server that relays and
outer ones that only hear through it; four in a square are the smallest loop whose
links can all be made by different servers. Two concurrent changers plus one
observer is the least that makes a disagreement visible. A list needs two records
for head and tail to differ and three for a middle one; a chain of three in one
bucket has all positions. A parser's variable leaks from one block into the next
or the one after. Two descriptors and a third socket let a number be used again
while its old events are still in the batch.

Every bound is a constant: `MaxMoves`, `MaxOps` (changes by users and operators),
`MaxSplits`, `MaxLinks`, `MaxBreak`, `MaxSquit`, `MaxTries`, `MaxErrors`, `MaxFails`
(failures and attempts), `MaxTime`, `MaxNow` (clock), `MaxId` (queries sent), `MaxLines`
(lines waiting), `MaxConns`, `MaxLogins`, `MaxConnects`, `MaxMessages`, `MaxLists`,
`MaxRehash`, `MaxBlocks`, `MaxTokens`, `MaxMask`, `MaxName`, `MaxVersion`,
`MaxWaits`, `MaxBatch`. `MaxSince` in `Connection` follows from two of them. Because
clocks and budgets run out, the cfgs say `CHECK_DEADLOCK FALSE`. Only `members` has
no such bound and deadlock is checked there.

Settings the runs leave out because the code goes wrong there today are named
with the disagreements in section 7.

## 4. Runs and what they show

* **members**: `UsersExact`, `NoDanglingMember`, `InvitesMirror`,
  `LocalNeverZombie`, `NoZombieOnlyChannel`, `ZombieRemovalKeepsChannel`. Remote
  handlers accept messages in any order the network may produce. The last two are
  restricted to channels services did not make persistent: there a channel may
  hold zombies alone.
* **lists**: `LatestWins` (once all is read, every server has the G-line in the
  state of the last change), `GlinedGone` (whichever of the ways made a G-line
  active, the clients it forbids are gone), `LastmodMonotonic` (no step returns to
  an older version), `IsLastWrite` (the G-line implements `LastWrite`) and `Drains`
  (relays and resends die out) are about scene *line*. `EachListRight` is about the
  other eight: `GlinedGone` and `LastmodForward` where masks overlap and changes of
  any kind are made, shuns that implement `LastWrite`, jupes on which neighbours
  agree, filters in the state of the last change, and nothing there that a Z-line
  or a jupe forbids.
* **clients**: `AuthRight`, `EachEventuallyOver` (under fairness of the timers
  alone), `EachHistoryRight` (with the claim of the
  code's notes that the oldest record ends all its lists), `EachLookupRight`,
  `EachTablesExact` (with: neighbours agree on who a numeric is), `EachChannelListed`,
  `EachWatchRight`.
  **list_twice** is the scene *list* and says that a channel is listed once, which
  is violated (section 7).
* **user**: `CountsRight` (the counters behind LUSERS, scene *middle*),
  `EachModesAgree` (with: the command table is that of an operator exactly for
  operators; the counters in scene *service*), `EachRegisteredRight`, `EachSeenRight`,
  `EachHeardRight`.
* **nick**: `NickUnique` in all scenes, `Agreement` where nothing is forced.
* **sync**: `MergeAgrees` and `OlderWins`, `TopicsAgree` and `TopicShown`.
  **sync_except** is the same model with ban exceptions; it violates `MergeAgrees`.
* **links**: `NoLoop`, `TreeAgrees`, `NoHalfLink`, `SecondYoungestBreaks` (against
  the rule as `doc/p10.txt` states it).
* **connection**: `FreedInTime`, `QueuedIsAwaited`, `WholeMessages` (`msgq_mapiov`
  and `msgq_delete` compute the same order independently), `InputIsAwaited`,
  `SilentAreDropped`, and `EachEngineRight`: of each engine what it does keep to;
  section 7 says where the others fail.
* **conf**: `RegistryRight` (an address counts its clients and the connections lost
  when `socket_add` failed, `lost`; with the clone limit, which is checked at
  registration, long after the client was counted), `RehashKeepsOrder`, `FileInForce` (entries are made of their own block's
  values, rules mean what they say, features and messages are those last given),
  `MasksRight`. **conf_connecting** lets a REHASH come while a connection to a
  server is being made; it violates what `s_conf.c` says of lines in use.

Each property of a passing run has a mutated definition in `PROJECT.json`
("mutants") under which TLC finds it violated.

Fairness. `Drains` assumes weak fairness of reading: the event loop serves
every readable socket in turn, so what was sent is read. `EachEventuallyOver`
assumes that the timer of a request runs, and nothing of the resolver or the ident
server. No other run assumes fairness: the rest is safety, including "in time"
properties, which are stated with the clock.

## 5. Proofs

Every theorem holds for all values of the constants that meet the named
assumptions; TLC evaluates the assumptions on the instances.

| Module | Theorem | Says | Run |
|---|---|---|---|
| `ChannelMembersProofs` | `InvariantHolds`, `UsersExactHolds`, `NoDanglingMemberHolds`, `LocalNeverZombieHolds`, `NoZombieOnlyChannelHolds` | counts, members, zombies | members |
| | `ZombieRemovalKeepsChannelHolds` | the action property: removing a zombie in `ms_join` and `ms_kick` does not free the channel | members |
| | `InvitesMirrorHolds`, `TypeOKHolds` | the two invite lists mirror each other, within the limit | members |
| `NickProofs` | `NicksUnique` | one client per nick on every server | nick |
| `IPcheckProofs` | `RegistryCounts` | counts are clients plus lost connections; assertions, clone limit | conf |
| `AuthProofs` | `QueriesOwned`, `ReleasedOnceHolds` | no query without its request; released once | clients |
| | `AuthRightHolds` | these, exact lists and: a held client waits for something | clients |
| `GlineProofs` | `GlinedGoneHolds`, `LastmodMonotonicHolds` | nobody stays whom an active G-line matches; versions go forward | lists |
| | `IsLastWriteHolds`, `SameTimeSameState` | `Gline` implements `LastWrite`; copies with equal times are equal | lists |
| | `LatestWinsHolds` | when all is read, every server has the state of the last change | lists |
| `Umode` | `CountsRightHolds` | operators and invisible users are counted exactly on every server | user |
| `LastWrite` | `OneStatePerVersionHolds`, `CopiesForwardHolds` | what the abstract entry promises | |

**Membership.** Assumptions: `ChannelAssumption` (finitely many users, fewer than
the modulus of `unsigned int`; without it `UsersExact` is false, since the counter
wraps) and `MembersAssumption` (types). The invariant is a conjunction over
channels, `Good(k, online, c)`: the count is the size of the member list and
zombies and operators are members (`ChanOK`), members are online, zombies are
remote and, off registered channels, the channel is not persistent and not left to
zombies alone. None of the parts is inductive by itself: `UsersExact` depends on a
client never being added twice, which depends on what the handler found in the
list; `NoZombieOnlyChannel` depends on the channel not being persistent, because
`make_zombie` only frees channels that are not; `ZombieRemovalKeepsChannel` needs
`NoZombieOnlyChannel` in the state before the step and the exact count, because
`sub1_from_channel` asks the counter. Lemmas show what each function of `channel.c`
preserves of `ChanOK`, lemmas `Good...` lift that to `Good`, and the step lemma has
one case per action. `InvitesInv` is a second layer on top: the lists have no
repetitions and mirror each other, the counter is their length and within
`MaxChannels`, and whoever is invited is online and the channel exists. The last
part is what makes the exits work: `exit_one_client` and `destroy` clear one side
and reach the other only through it. What is left of a list after `del_invite` is
`Drop`, whose properties are proved by induction in `Filter`.

**Nicks.** `IInv` says of every server's table that it has the shape of a table and
that nicks are unique in it; nothing is assumed of the messages under way. A
handler that gives a nick away looks it up before; there is at most one holder
because there was at most one before, and the collision rules (`Collide`) decide
for one of the two, or for none. The proof follows the record that handlers pass
along (`Good(h)`), one lemma per function.

**IP registry.** A connection whose `socket_add` fails has been checked in and is
never checked out. The history variable `lost` counts these per address, and what
holds is that `connected` is the number of the address's clients plus `lost`; with
no such failure it is the number of clients. `RegistryAssumption`, a hypothesis of
the theorem: clients and lost connections (at most `MaxFails` per address) together
are fewer than the width of `connected` counts, and clients connect to no server
ports; section 7 says what happens otherwise. The invariant adds to the three
properties that a client's flag is set exactly while it is connected from an
address that is not exempt, and that an entry that is not in the table counts
nobody. Without the first a client that leaves could be checked out twice; without
the second expiry and re-creation of an entry could lose clients.

**Auth.** `Good` relates, per client, the request's flags, the counter of ban list
queries and the queries of the resolver: a request lives exactly while its client
is held, each flag is set exactly while its query is outstanding. A request ends by
the answers, by its timer (`destroy_auth_request` with reports) or with the client,
whose own socket failed (`free_client`, without). This holds for
every setting of the features, and with it `NoDanglingQuery` and `ReleasedOnce`.
`ListsInv` adds that the two lists hold the requests with and without an ident
query. `AuthRight` has the hypotheses that ban lists and ident are in use and that
`connect()` does not return at once: in the other settings the code leaves a client
held for the time out or links a finished request (section 7).

**G-lines.** `GlineAssumption` gives the types of the constants and says that
containment of masks is a strict order. `IInv` is the type of the records and messages and
`GlinedGone`. Each of the functions that change one G-line has the same `Effect`:
other servers and masks it does not contain are left alone, versions go forward,
and whoever matches a G-line that has become active is gone. `StepOK` combines
that with clients that connect and time that passes: an expired record bans nobody.
The same lemmas are stated for messages of any set `M`, so that the refinement
uses them again with a smaller set.

The refinement maps the copy of a server to `lastmod` and activation of its
record, the known versions to those and the ones in messages. `GlobalChanges` are
its hypotheses: no local scope, no REMOVE, no Uworld, changes in different seconds,
no wider mask, and a life time beyond the end of the clock. For each of the first
four section 7 has a disagreement or the docs promise less; expiry takes a version
away, which `LastWrite` does not know of. `RInv` says which messages may be under
way (`Fit`): global ones, of versions that exist, no later than the last change,
and not expiring in time. A change makes a version later than all that are known,
because all of those are at most `bound.stamp` and the clock has moved since
(`MoGlineWrites`); a message is of a known version and applied only where it is
later (`MsGlineLearns`); whatever else happens tells nothing new (`QuietStep`).

`LatestWins` has one more hypothesis, `Connected`: the links stay up and every set
of servers that no link leaves is all of them. Which server asked last, on which
path a change travels and what crosses it is left open. That all servers agree is
not inductive; `SInv` says why they will: no message of a server is later than its
own version (`Told1`), the last one on a link has its state, unless it is older
than what the reader has, who then answers it (`Told2`), neighbours that differ
have something about the G-line under way between them (`Pending`), and some server
has the version of the last change, later than which there is none (`Newest`). When
nothing is under way, neighbours are alike; the servers that are like the one with
the newest version are then a set that no link leaves (`QuietSettles`). The step is
shown for a change (the server tells all its neighbours), for a message that is
applied and passed on to all but one, for one that is answered because it is older
and for one that is dropped because the versions are the same: there
`SameTimeSameState` gives the same state, and this is where changes in different
seconds are needed.

**User modes.** The proof follows the model in `Umode`. `OrderlyModes` are its
hypotheses: finitely many users, no mode string that takes the operator status and
gives it back (`NoReoper`), no services that make somebody an operator or hidden by
a mode (`NoGrant`). Both are needed: an operator that sends `-o+o` or is made one
by SVSMODE keeps the command table of clients, and its next OPER counts it again;
one that was hidden before OPER is counted although it hides (section 7). `MCUser`
assumes `OrderlyModes`, so that TLC evaluates it on the instance. What `CountsRight`
rests on is that OPER adds 1 without asking: `UInv` adds that who is an operator at
home has the command table of operators (`AtHome`), where OPER does nothing, that
only an operator hides, that an unknown user has no flags, and that the strings in
messages are orderly too: what `send_umode` sends names each mode once, which is a
fact about `Drop` from `Filter`. A handler passes a record along (`Work`), and
`Fits` says of the one it ends with that the counters have changed as the flags
have; there is a lemma per function, `LettersOK` by induction over the string, and
`CommitOK` turns `Fits` into `UInv` of the next state.

**LastWrite.** The invariant adds that servers have versions that exist: without it
a new version need not be later than the copy it replaces.

## 6. Only model-checked

* Liveness (`Drains`, `EachEventuallyOver`) is out of the prover's reach.
* What the recursive definitions of `Match`, `Crule`, `Connection` and `ChannelSync`
  compute is checked on TLC's inputs only: the prover takes no module with a
  recursive operator. Induction over data is possible where it is about a set
  (`Filter`, lemma `Induction`), not about a predicate.
* Statements about all servers at rest other than `LatestWins` (`Agreement`,
  `ModesAgree`, `MergeAgrees`, `TopicsAgree`): they need an invariant about what is
  under way, and are checked on the trees of section 3. `LatestWins` is proved for links
  that stay up; its like across a break is checked for shuns, jupes and filters.
* Shuns, Z-lines, jupes and spam filters (`EachListRight`).
* The other modules are to be proved about later (section 8); for those TLC's
  instances are all there is today.

## 7. Where code and documentation disagree

Met while modelling. Each is a behaviour that some setting of the constants
shows; except for those with a run of their own, the runs use settings that do
not reach it, or the property names the exception, so that the properties hold for
the rest.

Channels
* `m_burst.c:267`: the loop that marks exceptions for wipeout walks the ban list
  ("mark excepts for wipeout", line 266), so the younger channel's exceptions
  survive and the servers differ. Run `sync_except`.
* `channel.c:3333`: the younger channel's key is announced as removed and not
  removed when the older BURST has no key; with two keys the first in the alphabet
  wins, not the older channel's. (`Keys = {}`)
* `channel.c:4774`: only the letter of the younger channel's limit is cleared, the
  limit stays in force. (`Limits = {}`)
* `channel.c:2833`: a bounced `-l` is sent as `+l` without its number and the time
  stamp is read as the limit. (`Limits = {}`)
* `m_burst.c:404`: a ban both sides have is left out of the BURST that is passed
  on, and the server behind removes its own. (no bans in scene *line*)
* `m_create.c:183`: a CREATE with an older time stamp that overtakes a BURST takes
  the time stamp and leaves the younger operator. (`Chatter = FALSE`)
* OPMODE and CLEARMODE carry no time stamp; one that crosses a bounce or a CREATE
  leaves servers disagreeing. (used for modes nobody contests in scene *line*)
* `m_kick.c:205`: when two KICKs of one user cross and the one that arrives second
  was made on the victim's own server, the zombie that the first left is kept: a
  KICK removes a zombie only if a server sends it, and the victim's server, which
  has no such member any more, sends no PART. It stays until the user joins again
  or quits. (`MembersAgree` allows exactly these, `s.own`)
* `m_burst.c:215`: the walk that kicks net riders keeps the next membership over
  `make_zombie`, which may free it with the channel, when all others are zombies.
  `m_burst.c:674`: a BURST that names somebody who is a member already links a second
  membership. (`ms_burst` names new members; riders are removed as a set)
* `m_names.c`: NAMES 0 names a kicked user under no channel; to a question from
  another server a zombie counts as a member, and for a channel that the asker is
  not on there is no ENDOFNAMES. (`NamesRight` is stated without them)
* `m_burst.c:271`: a topic that was removed keeps its time and is not in the burst,
  so that servers differ after a link comes back. (`ClearAnytime = FALSE`)
* `m_topic.c`: two topics set in the same second cross and are swapped.
  (`SameSecond = FALSE`). A TOPIC without times makes `ms_topic` read `parv` before
  its first element.
* `channel.c`, ban cache: FAKEHOST for a user without `+x`, ACCOUNT without `+x` and
  nick changes of remote users leave cached answers about exceptions or bans as
  they were; `is_banned` and `is_excepted` build two hosts in one buffer and do not
  try the real one; account bans (`channel.c:1426`) compare the account's text, also
  that of a user without the account flag. (`Ops` and `Masks` of scene *bans*). `add_banid` and
  `add_exceptid` have no callers.

Nicks
* `m_nick.c:529`: a tie of time stamps kills both clients also when a server
  introduces the second; the comment (line 458) says only the new one.
* `m_kill.c:222`: a KILL sent before a break meets the re-introduced client and
  its bounce is dropped half way; a server keeps a client that is not there.
  (three servers have no break outside scene *service*)
* `m_svsnick.c:178`: every server on the way applies SVSNICK with its own clock and
  sends a NICK of its own; `doc/p10.txt:917` says the target's server does.
  (`Agreement` is not stated for scene *service*)

Links
* `m_squit.c:96`: a link that comes back within the second has its predecessor's
  time stamp, and an old SQUIT takes it down. (`SameSecond = FALSE`)
* `m_server.c:391`: a server that accepts a connection from one it knows already
  takes it for a ghost, while others break the second youngest link: two links of
  three go down; `doc/p10.txt:275` asks for one decision.
* `m_server.c:305`: ties are broken by the smaller name of the two links the scan
  stopped at; `doc/p10.txt:279` says the greatest name of all. (`SameSecond = FALSE`)

Ban lists
* `gline.c:629`, and the same in `shun.c` and `jupe.c`: a locally deactivated entry
  stops the relay of later global changes. (`LocalScope = FALSE` where agreement is
  stated)
* a `-` for an inactive entry raises `lastmod` and is not relayed; a crossing `+`
  that comes while the burst flag is set is ignored: servers stay different.
* `zline.c`: Z-lines are looked up when a connection is accepted, and `do_zline`
  passes over clients that have not registered; who connects in between stays.
  (`ZlinedGone` leaves out clients whose handshake was under way)
* `zline.c`, `zline_remove`: removing a Z-line frees every Z-line that contains it.
* `spamfilter.c`: filters have no version; an addition that changes nothing on the
  operator's server is not told to one where the filter has expired.
* `spamfilter.c`, `find_fline`: a disabled or exempting filter ends the walk of the
  list; `spamfilter_find` compares sums of the flags' characters.
* `m_gline.c:197`: equal `lastmod` is dropped; `doc/readme.gline:70` says applied.
  (`SameSecond = FALSE` in scene *line*)
* `gline.c:623`: deactivating an inactive G-line raises `lastmod` and tells nobody.
* `m_gline.c:311`: a local G-line is freed before `gline_add`, which may refuse the
  mask, makes the global one in its place. (no refusals)
* `gline.c:112`: a new G-line is refused because of a wider one that is not
  active; `doc/readme.gline:36` says it is created.

User modes
* `s_user.c:2160`, `m_oper.c:253`: `-o+o` in one string resets the command table of
  an operator, who may OPER again and is counted twice. (`UserModes`: no such string)
* `s_user.c:2183`: under AUTOINVISIBLE every server judges `-i` again, without the
  privileges to do so. (`AUTOINVISIBLE = FALSE`)
* `s_user.c:2471`: `+o` set by a server is not passed on beyond the neighbours.
* `s_user.c:2171`: `-O` leaves `+a`, the `-o` sent for it does not. (`admin` FALSE)
* `m_challenge.c:248`: after a right answer the stored one is made empty and the
  operator's name kept, so that the challenge is not over. (modelled as it is:
  `m_challenge_response`)
* `m_oper.c:253`: OPER counts a user with `+H`, leaving does not. (`ServerModes`
  without `+H`)

Registration, hosts, messages
* `s_user.c`: PASS sent again registers a client that has given NICK and PONG but no
  USER if its ident was answered; USER sent again after the access checks replaces
  the name that was checked. (`UserAgain = FALSE`)
* a remote user refused as "wrong direction" or "Ghost" is counted as a user and
  leaves as unknown. (`Ghosts = FALSE`)
* MARK KILL is sent before the NICK that introduces its user.
* `s_auth.c`: of a black list with bit masks the first digit of the first reply is
  skipped. `s_conf.c`, `find_blline` takes the last matching block's rank, whatever
  it is; `doc/example.conf` speaks of the highest ranking one.
* a service that splits while a login waits holds the client until the time out.
* `m_account.c`, `s_user.c`: U for a fakehosted user shows the host again; `-x` of a
  user with a fake host and no account keeps it; with style 2 `-h` restores the real
  host although the user is `+x`; U that crosses `+x` or `-x` differs between
  servers. M for a user without an account sets a name without the flag. (`Ops`)
* `include/s_user.h:34`: the limit lets a user have one more target at once than
  MAXTARGETS. (`TargetsLimited` says so)
* `m_silence.c`: an addition that is refused has removed entries before, and is not
  relayed; with `~` masks lists differ between servers; no burst carries them.
  (`MAXSILES` and the masks of scene *silence*)
* `send.c`: `vsendto_allusers_butserv` sends notices for remote operators as raw
  text over server links, where they are ignored.

Tables, listing, watches, masks
* `hash.c:485`: a LIST that stops at a full queue sends the bucket again, and never
  ends if one bucket fills half of the queue. Run `list_twice`.
* `m_list.c`: the parameters T< and C< fall through to the case of M, which wants
  another sign; the documented `LIST <3,>1,C<10,T>0,#a*` is always refused.
* `numnicks.c:57`: numerics have spare digits so that slots are not used again soon;
  `findNUser` masks them off and never compares, so that a message under way may
  reach the slot's next user. (`NumericsAgree` shows that servers agree even so)
* `m_watch.c:76`: WATCH reads its words from `parv[0]` on, the sender's nick: a nick
  that begins with C clears the list with every WATCH, and one with L or S lists it.
  (modelled as it is: `m_watch`, `Letter`)
* `s_user.c:853`: whether `SetLocalNumNick` found a free number is not looked at.
  (the scene has a number for everybody)
* `s_user.c:1335`: watchers are told that a nick signed on when a connection that
  is not registered changes its nick, and nothing when it leaves.
  (`UnregisteredRenames = FALSE`)
* `m_server.c:560`: a connection that had a nick would be hashed twice by SERVER;
  only the check of its port prevents it.
* `match.c`: an escaped `?` matches any character and an escaped `*` at the end
  matches like `*`; `mmatch` reads both right. (`MatchRight` is stated of masks
  without escapes)

Configuration
* `s_conf.c:2523`: after a REHASH while a connection is being made
  `conf_check_server` goes on with a line it has freed. Run `conf_connecting`.
* `ircd_parser.y`: variables carry over: a port block's vhost, the class of a class
  block, mask and flags of an except block; dnsbl, command, redirect, webirc and
  sfilter blocks clear theirs only when they succeed. (`OwnValues` is about files
  whose blocks have what they need, and names the vhost)
* `class.c`: `init_class` sets the count of class "default" to 1; redefining that
  class frees a constant string; a class no longer in the file stays until the
  REHASH after its last client left.
* `s_conf.c`: `det_confs_butmask(acptr, ~CONF_ILLEGAL)` in `rehash` detaches nothing;
  a file that cannot be read leaves the server without lines. `s_conf.c:1308`: it also
  leaves the features as they were with their marks cleared, so that they count as
  defaults until set again. (modelled as it is: `unmarked`)
* `crule.c`: an operator without an operand is accepted, with a null operand; the
  number of arguments is not bounded by the array. (`TreeMeansRule` leaves out
  rules with an operator that has nothing on its left)
* `ircd_parser.y`: GBYTES and TBYTES have one factor; TPRIV_WIDE_SHUN sets the
  privilege of wide G-lines.

Addresses, auth, resolver, history
* `s_bsd.c:762`: a connection whose `socket_add` fails stays counted for its address.
  (modelled as it is: `lost`)
* `s_bsd.c:737`: exempt clients are counted and never uncounted. (`Exempt = {}`)
* `s_auth.c:466`: a connection to a server port is checked out without having been
  checked in. (`ServerPorts = FALSE`)
* `IPcheck.c:334`: a refused remote client leaves the count wrapped to 0 and is then
  checked out. (`ConnMod` large)
* `IPcheck.c:291`: the grace period after a restart is compared the wrong way round.
* `IPcheck.c:364`: `attempts` is decremented below 0. (`AttMod` large)
* `IPcheck.c:63`: 16-bit times subtracted as `int`: negative ages. (`TimeMod` large)
* `s_auth.c:553`: with DNSBL_CHECKS off (the default) a client whose ident ended
  first waits for AUTH_TIMEOUT. (`DnsblChecks = TRUE`)
* `s_auth.c:804`: a finished request is linked into `AuthPollList`. (`Immediate = FALSE`)
* `res.c:562`: the timer is set from a time out just replaced; a retry may come
  600 seconds late. (`GivenUp` allows for `AR_TTL` per try)
* `res.c:1655`: two names with an address in common share a cache entry, whose name
  is given to clients it does not belong to. (no shared address in scene *three*)
* `whowas.c:172`: with one record the recycled record becomes its own successor.
  (`Lengths` from 2)

Connections
* `send.c:142`: `flush_connections(0)` stops at the first connection whose queue
  empties; the comment says it empties "all output buffers for all connections".
  (modelled as it is: `Flushed`)
* `ircd.c`: a client silent for two ping times at a late check is dropped without
  having been pinged; the comment says "If we're late in noticing don't hold it
  against them". (modelled as it is: `CheckPing`)
* engines: references are lost in `engine_poll.c` and `engine_devpoll.c` (POLLHUP, a
  peek that says EAGAIN) and `engine_select.c` (ET_CONNECT, EAGAIN), and the socket is
  never freed; in poll and select a slot or descriptor used again within a pass gets
  the old one's event, in kqueue a deleted event is replaced by a copy of another;
  poll's `engine_add` reads a slot before it checks the bound. `EachEngineRight`
  states of each engine what it keeps to. A child registered by the callback of
  another is lost; nobody registers children.
* an error event on a descriptor that is not open leaves a connection that is
  never freed. (`Connection` closes descriptors only through the code)

## 8. Left out inside the modelled parts, and the plan

Left out of modelled parts: texts kept in records, replies to users and notices
to operators except where they fill a queue; `ChannelSync`: halfops, voices,
redirects (they behave as operators and keys), extended bans; `ChannelMembers`:
a BURST of who is a member already, AUTOCHANMODES with `z`; `Nick`: juped and
banned nicks, the second QUIT of a collision with a client of the server itself;
`Links`: hub limits, clock adjustment, ties of time stamps; `Gline`: what `gline_add`
refuses; `Spamfilter`: the reactions KICK and MARK and disabled filters of the file;
`Umode`: OPER and CHALLENGE for another server; `Relay`: global forwards, bursts and
zombies in `sendcmdto_channel_butone`; `Hash`: a full table of numerics is in
`SetLocalNumNick` and no scene fills it; `Crule`: a mask that matches our own name; `Connection`: SSL;
`Engine`: signals, full tables, calls that fail about open descriptors; `Resolver`:
coding of DNS messages; `IPcheck`: free targets, reconfiguration while running;
`Match`: addresses with a bit count, and masks of four and more
characters, where `matchexec` tries a chunk again and `matchcomp` rotates its parts; `ConfFile`: the lexer.

Order of further work:

1. *Theorems.* `Hash`: `NumericsAgree` and the chains. `Shun` implements
   `LastWrite`, along the proof for `Gline`. `Zline`: `ZlinedGone`. `Resolver`:
   `WaitsForOne`. `Conf`: `ClassCountExact`. `Gline`: `LatestWins` with links that
   break, where bursts have to be part of `Told2` and `Pending`. `Umode`:
   `ModesAgree`.
2. *Abstract specifications.* A send queue as a stream of bytes that `Connection`
   implements; the life of a connection as free -> used -> closing -> free.
3. *Model.* DESTRUCT on `ChannelMembers`; SVSJOIN and SVSPART on `Presence`; REHASH
   of E:lines together with `IPcheck`.

## 9. Running

    tlc -config ChannelMembers.cfg MCChannelMembers
    tlapm LastWrite.tla
    tlapm Filter.tla
    tlapm ChannelMembersProofs.tla
    tlapm NickProofs.tla
    tlapm IPcheckProofs.tla
    tlapm AuthProofs.tla
    tlapm GlineProofs.tla
    tlapm Umode.tla

`PROJECT.json` names the module and the configuration of every run. Each run
takes less than four minutes on two cores.
