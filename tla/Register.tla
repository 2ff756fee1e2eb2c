------------------------------ MODULE Register ------------------------------
(***************************************************************************)
(* How a connection becomes a user: the messages that lead to              *)
(* register_user (NICK, USER, PASS and PONG, in any order and number), the *)
(* checks it makes and their order, the login at a service before the      *)
(* registration (m_account.c), the black lists' verdict (s_conf.c) and the *)
(* counters of users.                                                      *)
(*                                                                         *)
(* Each operator takes and gives the whole state, s.  The checks by the    *)
(* configuration's lines (class limit, redirect, fingerprint, password,    *)
(* K- and G-lines) have no effect but refusal: the client's profile says   *)
(* whether one of them refuses it.  A user name is a sequence of kinds of  *)
(* characters: a lower or upper case letter ("a", "A"), a digit ("1"), one *)
(* of - _ . ("-") or another one ("?").                                    *)
(***************************************************************************)
EXTENDS Integers, Sequences, FiniteSets, Bitwise

CONSTANTS
    Fds,                  \* descriptors
    Profiles,             \* what is known of a connection when it is accepted
    Accounts,             \* that PASS may name
    Blacklists,           \* the dnsbl blocks, a sequence of records
    Answers,              \* what the lists may answer: <<server, address>>
    DNSBL_LOC_EXEMPT, DNSBL_WALLOPS_ONLY,    \* features
    UserAgain,            \* USER may be repeated after the checks
    Ghosts,               \* the IP registry may refuse a user of another server
    MaxConns, MaxLogins,  \* connections and remote users, and logins, in a behaviour
    MaxName               \* the length of user names

VARIABLE s

vars == s

NoClient == [conn |-> 0]
NoLoc == [cookie |-> -1, account |-> ""]
Clean == [listed |-> FALSE, marked |-> FALSE, allowed |-> FALSE, denied |-> FALSE,
          rank |-> 0, name |-> "", names |-> {}]

(* make_client, add_connection: who has just been accepted                 *)
Fresh(conn, p) ==
    [conn |-> conn, profile |-> p, auth |-> TRUE, name |-> FALSE, host |-> FALSE,
     username |-> "", cookie |-> "none", access |-> TRUE, loc |-> NoLoc, account |-> "",
     dnsbl |-> Clean, heard |-> {}, killmark |-> FALSE, sethost |-> FALSE, user |-> FALSE]

Client(st, fd) == st.client[fd]
Set(st, fd, c) == [st EXCEPT !.client[fd] = c]
On(st, fd) == st.client[fd] # NoClient

-----------------------------------------------------------------------------
(* Black lists                                                             *)

find_dnsbl(names, name) == name \in names
add_dnsbl(names, name) == IF find_dnsbl(names, name) THEN names ELSE names \cup {name}

(* The octets that are not given are those of 127.0.0.0.                   *)
dnsbl_result_match(check, ip) == SubSeq(<<127, 0, 0, 0>>, 1, 4 - Len(check)) \o check = ip

(* atoi(csep + 1): where csep is the beginning of the string and no comma, *)
(* the first digit of the first number is skipped.                         *)
SkipDigit(n) == n % (IF n < 10 THEN 1 ELSE IF n < 100 THEN 10 ELSE 100)
Total(replies) ==
    LET N[i \in 0..Len(replies)] ==
            IF i = 0 THEN 0 ELSE N[i - 1] + (IF i = 1 THEN SkipDigit(replies[1][1]) ELSE replies[i][1])
    IN  N[Len(replies)]

Listed(line, ip) ==
    IF "b" \in line.flags THEN (Total(line.replies) & ip[4]) # 0
    ELSE "r" \in line.flags /\ \E i \in DOMAIN line.replies : dnsbl_result_match(line.replies[i], ip)

Matched(b, line) ==
    [b EXCEPT
        !.listed = TRUE,
        !.marked = @ \/ "m" \in line.flags,
        !.allowed = /\ @ \/ ("a" \in line.flags /\ ~b.denied)
                    /\ "d" \notin line.flags,
        !.denied = @ \/ "d" \in line.flags,
        !.name = IF line.rank > b.rank THEN line.name ELSE @,
        !.rank = line.rank,
        !.names = add_dnsbl(@, line.name)]

find_blline(b, server, ip) ==
    LET B[i \in 0..Len(Blacklists)] ==
            IF i = 0 THEN b
            ELSE IF Blacklists[i].server = server /\ Listed(Blacklists[i], ip)
            THEN Matched(B[i - 1], Blacklists[i]) ELSE B[i - 1]
    IN  B[Len(Blacklists)]

-----------------------------------------------------------------------------
(* Leaving: exit_one_client, with what the other servers are told          *)

Count_unknowndisconnects(n) == [n EXCEPT !.unknowns = @ - 1]
Count_clientdisconnects(n, c) ==
    [n EXCEPT !.local = @ - 1, !.clients = @ - 1, !.authed = IF c.account = "" THEN @ ELSE @ - 1]

exit_client(st, fd) ==
    LET c == Client(st, fd)
    IN  [Set(st, fd, NoClient) EXCEPT
            !.stats = IF c.user THEN Count_clientdisconnects(@, c) ELSE Count_unknowndisconnects(@),
            !.told[c.conn] = IF c.user THEN "gone" ELSE @]

-----------------------------------------------------------------------------
(* register_user                                                           *)

Count(name, kind) == Cardinality({k \in DOMAIN name : name[k] = kind})
(* The capitals before any lower case letter and digit, if the first       *)
(* character is one                                                        *)
leadcaps(name) ==
    IF name # <<>> /\ name[1] = "A"
    THEN Cardinality({k \in DOMAIN name : name[k] = "A" /\ \A j \in 1..k : name[j] \notin {"a", "1"}})
    ELSE 0
digitgroups(name) ==
    Cardinality({k \in DOMAIN name : name[k] = "1" /\ (k = 1 \/ name[k - 1] # "1")})

(* FEAT_STRICTUSERNAME: the walk over the name, then what it has counted   *)
badid(name) ==
    LET lower == Count(name, "a")
        upper == Count(name, "A")
        last  == name[Len(name)]
    IN  \/ digitgroups(name) > 2
        \/ Count(name, "-") > 2
        \/ \E k \in DOMAIN name : name[k] = "?" \/ (name[k] = "-" /\ (k = 1 \/ name[k - 1] = "-"))
        \/ /\ lower > 0 /\ upper > 0
           /\ \/ leadcaps(name) = 0 \/ leadcaps(name) > 3
              \/ upper > 2 /\ upper > leadcaps(name)
        \/ digitgroups(name) = 2 /\ name[1] # "1" /\ last # "1"
        \/ lower = 0 /\ upper = 0
        \/ last = "-"

(* DoAccess: the lines are asked once.  The identd's answer, if there is   *)
(* one, is the user name; a bad name is let through when the identd gave   *)
(* that very one.                                                          *)
check_access(st, fd) ==
    LET c == Client(st, fd)
    IN  IF ~c.access THEN st
        ELSE IF \/ c.profile.refused
                \/ c.username = "" /\ ~c.profile.ident
                \/ badid(c.profile.name) /\ ~(c.profile.ident /\ c.profile.same)
        THEN exit_client(st, fd)
        ELSE Set(st, fd, [c EXCEPT !.access = FALSE, !.username = "checked"])

(* Whoever named an account waits for the service.                         *)
login_on_connect(st, fd) ==
    LET c == Client(st, fd)
    IN  IF c.loc.cookie # 0 THEN st
        ELSE IF ~st.service THEN Set(st, fd, [c EXCEPT !.loc = NoLoc])
        ELSE [Set(st, fd, [c EXCEPT !.loc.cookie = st.next]) EXCEPT
                 !.next = @ + 1,
                 !.asked = @ \cup {[fd |-> fd, cookie |-> st.next, account |-> c.loc.account,
                                    conn |-> c.conn]}]

webirc_account(st, fd) ==
    LET c == Client(st, fd)
    IN  IF c.profile.webirc = "" \/ c.account # "" THEN st
        ELSE [Set(st, fd, [c EXCEPT !.account = c.profile.webirc]) EXCEPT
                 !.granted = @ \cup {<<c.conn, c.profile.webirc>>}]

(* find_prompt: a K-line that an account opens                             *)
Prompted(st, fd) == Client(st, fd).profile.prompt /\ Client(st, fd).account = ""
prompt(st, fd) == Set(st, fd, [Client(st, fd) EXCEPT !.killmark = TRUE, !.loc = NoLoc])

(* What a black list's verdict comes to, once exemptions are known         *)
Exempted(c) ==
    IF c.dnsbl.listed /\ c.profile.exempt
    THEN [c EXCEPT !.dnsbl.allowed = TRUE, !.dnsbl.marked = TRUE] ELSE c
Verdict(c) ==
    IF ~c.dnsbl.listed \/ c.dnsbl.allowed \/ DNSBL_WALLOPS_ONLY THEN "in"
    ELSE IF c.profile.class \/ (c.account # "" /\ DNSBL_LOC_EXEMPT) THEN "allowed"
    ELSE IF DNSBL_LOC_EXEMPT THEN "offered" ELSE "out"

(* Count_unknownbecomesclient and the account                              *)
counted(n, c) ==
    [n EXCEPT !.unknowns = @ - 1, !.local = @ + 1, !.clients = @ + 1,
              !.authed = IF c.account = "" THEN @ ELSE @ + 1]

(* NICK goes to the other servers, once it is a user; the black lists'     *)
(* mark is only for those without an account.                              *)
tell_others(st, fd) ==
    LET c == Client(st, fd)
    IN  [Set(st, fd, [c EXCEPT !.dnsbl.marked = @ /\ ~(c.dnsbl.allowed /\ c.account # "")]) EXCEPT
            !.told[c.conn] = IF @ = "nothing" THEN "known" ELSE "twice"]

(* From here on it is a user.                                              *)
introduce(st, fd) ==
    LET c == Client(st, fd)
        u == [c EXCEPT !.user = TRUE, !.sethost = c.profile.sline]
    IN  tell_others([Set(st, fd, u) EXCEPT !.stats = counted(@, c)], fd)

dnsbl_checks(st, fd) ==
    LET c == Exempted(Client(st, fd))
        v == Verdict(c)
    IN  CASE v = "in"      -> introduce(Set(st, fd, c), fd)
          [] v = "allowed" -> introduce(Set(st, fd, [c EXCEPT !.dnsbl.allowed = TRUE]), fd)
          [] v = "offered" -> Set(st, fd, [c EXCEPT !.loc = NoLoc])
          [] v = "out"     -> exit_client(st, fd)

register_user(st, fd) ==
    LET a == check_access(st, fd)
        w == webirc_account(a, fd)
    IN  IF ~On(a, fd) THEN a
        ELSE IF Client(a, fd).loc # NoLoc THEN login_on_connect(a, fd)
        ELSE IF Prompted(w, fd) THEN prompt(w, fd)
        ELSE IF Client(w, fd).profile.fline THEN exit_client(w, fd)
        ELSE dnsbl_checks(w, fd)

-----------------------------------------------------------------------------
(* What a connection may send before it is a user.  Messages are read when *)
(* the authorization (s_auth.c) is over.                                   *)

Reads(fd) == On(s, fd) /\ ~s.client[fd].auth /\ ~s.client[fd].user
Complete(c) == c.name /\ c.cookie = "verified"

accept(fd, p) ==
    /\ ~On(s, fd)
    /\ s.conns < MaxConns
    /\ s' = [Set(s, fd, Fresh(s.conns + 1, p)) EXCEPT !.conns = @ + 1, !.stats.unknowns = @ + 1]

dnsbl_answer(fd, a) ==
    LET c == s.client[fd]
    IN  /\ On(s, fd)
        /\ c.auth
        /\ a \notin c.heard
        /\ s' = Set(s, fd, [c EXCEPT !.dnsbl = find_blline(c.dnsbl, a[1], a[2]), !.heard = @ \cup {a}])

auth_over(fd) ==
    /\ On(s, fd)
    /\ s.client[fd].auth
    /\ s' = Set(s, fd, [s.client[fd] EXCEPT !.auth = FALSE])

(* The first NICK of set_nick_name                                         *)
set_nick_name(fd) ==
    LET c == [s.client[fd] EXCEPT !.name = TRUE]
    IN  /\ Reads(fd)
        /\ ~s.client[fd].name
        /\ s' = IF c.cookie = "none" THEN Set(s, fd, [c EXCEPT !.cookie = "sent"])
                ELSE IF c.host /\ c.cookie = "verified" THEN register_user(Set(s, fd, c), fd)
                ELSE Set(s, fd, c)

m_user(fd) ==
    LET c == [s.client[fd] EXCEPT !.host = TRUE, !.username = "given"]
    IN  /\ Reads(fd)
        /\ UserAgain \/ s.client[fd].access
        /\ c # s.client[fd] \/ Complete(c)
        /\ s' = IF Complete(c) THEN register_user(Set(s, fd, c), fd) ELSE Set(s, fd, c)

(* PASS with an account to log in to, or without (account = "").           *)
mr_pass(fd, account) ==
    LET c == s.client[fd]
        d == IF account = "" THEN c ELSE [c EXCEPT !.loc = [cookie |-> 0, account |-> account]]
    IN  /\ Reads(fd)
        /\ c.loc = NoLoc
        /\ account # "" => s.next <= MaxLogins
        /\ c # d \/ Complete(c)
        /\ s' = IF Complete(c) THEN register_user(Set(s, fd, d), fd) ELSE Set(s, fd, d)

mr_pong(fd) ==
    LET c == [s.client[fd] EXCEPT !.cookie = "verified"]
    IN  /\ Reads(fd)
        /\ s.client[fd].cookie = "sent"
        /\ s' = IF c.host /\ c.name THEN register_user(Set(s, fd, c), fd) ELSE Set(s, fd, c)

(* The connection is closed or times out.                                  *)
quit(fd) == On(s, fd) /\ s' = exit_client(s, fd)

-----------------------------------------------------------------------------
(* The service and its answers (external), which may be late               *)

service_answers(r, type) ==
    /\ r \in s.asked
    /\ s' = [s EXCEPT !.asked = @ \ {r},
                      !.answers = @ \cup {[type |-> type, fd |-> r.fd, cookie |-> r.cookie]},
                      !.granted = IF type = "A" THEN @ \cup {<<r.conn, r.account>>} ELSE @]

service_splits == s.service /\ s' = [s EXCEPT !.service = FALSE, !.asked = {}, !.answers = {}]

-----------------------------------------------------------------------------
(* ACCOUNT                                                                 *)

decode_auth_id_fd(st, r) == On(st, r.fd) /\ st.client[r.fd].loc # NoLoc
decode_auth_id(st, r) ==
    On(st, r.fd) /\ st.client[r.fd].loc # NoLoc /\ st.client[r.fd].loc.cookie = r.cookie

(* A and D: the answer to a login before registration                      *)
ms_account_reply(r) ==
    LET st == [s EXCEPT !.answers = @ \ {r}]
        c  == st.client[r.fd]
    IN  /\ r \in s.answers
        /\ s' = IF ~decode_auth_id(st, r) THEN st
                ELSE IF r.type = "D" THEN Set(st, r.fd, [c EXCEPT !.loc = NoLoc])
                ELSE register_user(Set(st, r.fd, [c EXCEPT !.account = c.loc.account, !.loc = NoLoc]), r.fd)

(* R, U and M: a user logs in, loses the account, or it is renamed.        *)
ms_account_login(fd, account) ==
    LET c == s.client[fd]
    IN  /\ On(s, fd) /\ c.user /\ c.account = ""
        /\ s.service
        /\ s' = [Set(s, fd, [c EXCEPT !.account = account]) EXCEPT
                    !.stats.authed = @ + 1, !.granted = @ \cup {<<c.conn, account>>}]

ms_account_remove(fd) ==
    LET c == s.client[fd]
    IN  /\ On(s, fd) /\ c.user /\ c.account # ""
        /\ s.service
        /\ s' = [Set(s, fd, [c EXCEPT !.account = ""]) EXCEPT !.stats.authed = @ - 1]

(* A rename does not ask whether there is an account: without one the text *)
(* is stored and FLAG_ACCOUNT not set, so there is still none.             *)
ms_account_rename(fd, account) ==
    LET c == s.client[fd]
    IN  /\ On(s, fd) /\ c.user
        /\ s.service
        /\ s' = IF c.account = "" THEN s
                ELSE [Set(s, fd, [c EXCEPT !.account = account]) EXCEPT !.granted = @ \cup {<<c.conn, account>>}]

(* register_user for a user of another server: it is counted, and if the   *)
(* IP registry has no room for it, it leaves before it is a user.          *)
remote_user(ghost) ==
    /\ s.conns < MaxConns
    /\ ghost => Ghosts
    /\ LET n == [s EXCEPT !.conns = @ + 1, !.stats.clients = @ + 1]
       IN  s' = IF ghost THEN [n EXCEPT !.stats = Count_unknowndisconnects(@)]
                ELSE [n EXCEPT !.remote = @ + 1]

remote_quit == s.remote > 0 /\ s' = [s EXCEPT !.remote = @ - 1, !.stats.clients = @ - 1]

Init ==
    s = [client |-> [fd \in Fds |-> NoClient], conns |-> 0, remote |-> 0, service |-> TRUE, next |-> 1,
         stats |-> [unknowns |-> 0, local |-> 0, clients |-> 0, authed |-> 0],
         told |-> [conn \in 1..MaxConns |-> "nothing"], asked |-> {}, answers |-> {}, granted |-> {}]

Next ==
    \/ \E fd \in Fds, p \in Profiles : accept(fd, p)
    \/ \E fd \in Fds, a \in Answers : dnsbl_answer(fd, a)
    \/ \E fd \in Fds, account \in Accounts \cup {""} : mr_pass(fd, account)
    \/ \E fd \in Fds : auth_over(fd) \/ set_nick_name(fd) \/ m_user(fd) \/ mr_pong(fd) \/ quit(fd)
    \/ \E r \in s.asked, type \in {"A", "D"} : service_answers(r, type)
    \/ \E r \in s.answers : ms_account_reply(r)
    \/ \E fd \in Fds : ms_account_remove(fd)
    \/ \E fd \in Fds, account \in Accounts : ms_account_login(fd, account) \/ ms_account_rename(fd, account)
    \/ service_splits
    \/ \E ghost \in BOOLEAN : remote_user(ghost)
    \/ remote_quit

-----------------------------------------------------------------------------
Locals(P(_)) == {fd \in Fds : On(s, fd) /\ P(s.client[fd])}

(* Nobody has an account that the service did not grant this connection,   *)
(* although descriptors are used again and answers are late.               *)
AccountGranted ==
    \A fd \in Fds : On(s, fd) /\ s.client[fd].account # "" =>
        <<s.client[fd].conn, s.client[fd].account>> \in s.granted

(* The counters are those of LUSERS: unknown connections, users here and   *)
(* everywhere, and users with an account.                                  *)
CountsExact ==
    /\ s.stats.unknowns = Cardinality(Locals(LAMBDA c : ~c.user))
    /\ s.stats.local = Cardinality(Locals(LAMBDA c : c.user))
    /\ s.stats.clients = s.stats.local + s.remote
    /\ s.stats.authed = Cardinality(Locals(LAMBDA c : c.user /\ c.account # ""))

(* The other servers hear of a user once, and of nobody who is not one.    *)
IntroducedOnce ==
    \A conn \in 1..MaxConns : /\ s.told[conn] # "twice"
                              /\ s.told[conn] = "known" <=>
                                     \E fd \in Fds : s.client[fd].conn = conn /\ s.client[fd].user

(* The rules for user names as the comment before the check gives them: a  *)
(* mixed-case name has an upper first character and may have one other; a  *)
(* third if all three are at the beginning, separated only by others; two  *)
(* groups of digits if one is at an end; two - _ . if not together, and    *)
(* none at an end; nothing else, and at least one letter.                  *)
GoodName(name) ==
    LET n == Len(name)
        caps == {k \in 1..n : name[k] = "A"}
        groups == {k \in 1..n : name[k] = "1" /\ (k = 1 \/ name[k - 1] # "1")}
        others == {k \in 1..n : name[k] = "-"}
        letters == {k \in 1..n : name[k] \in {"a", "A"}}
        mixed == \E k \in 1..n : name[k] = "a"
    IN  /\ letters # {}
        /\ \A k \in 1..n : name[k] # "?"
        /\ others \cap {1, n} = {} /\ Cardinality(others) <= 2 /\ \A k \in others : k + 1 \notin others
        /\ Cardinality(groups) < 2 \/ (Cardinality(groups) = 2 /\ "1" \in {name[1], name[n]})
        /\ mixed /\ caps # {} =>
              /\ 1 \in caps
              /\ \/ Cardinality(caps) <= 2
                 \/ Cardinality(caps) = 3 /\ \A k \in 1..n : \A c \in caps : k < c => name[k] \in {"A", "-"}

(* Whoever is a user gave a nick, answered the ping, has a checked user    *)
(* name, and has had an account where only accounts are let in.            *)
RegisteredAllowed ==
    \A fd \in Fds : On(s, fd) /\ s.client[fd].user =>
        LET c == s.client[fd]
            logged == \E g \in s.granted : g[1] = c.conn
        IN  /\ Complete(c) /\ ~c.access /\ c.username = "checked" /\ c.loc = NoLoc
            /\ ~c.profile.refused /\ ~c.profile.fline
            /\ GoodName(c.profile.name) \/ c.profile.ident
            /\ c.profile.prompt => logged
            /\ c.dnsbl.listed => c.dnsbl.allowed \/ DNSBL_WALLOPS_ONLY

(* "If the user is found on this dnsbl then they cant connect, even if     *)
(* they are allowed on another": whatever the order of the answers.        *)
DenyBeatsAllow ==
    \A fd \in Fds : On(s, fd) /\ s.client[fd].auth =>
        LET hit == {i \in DOMAIN Blacklists :
                       \E a \in s.client[fd].heard :
                           a[1] = Blacklists[i].server /\ Listed(Blacklists[i], a[2])}
            Some(flag) == \E i \in hit : flag \in Blacklists[i].flags
        IN  s.client[fd].dnsbl.allowed <=> Some("a") /\ ~Some("d")

-----------------------------------------------------------------------------
(* User names by themselves                                                *)
NamesInit == s \in UNION {[1..n -> {"a", "A", "1", "-", "?"}] : n \in 1..MaxName}

(* What the check counts while it walks over a name amounts to the rules.  *)
NamesRight == badid(s) <=> ~GoodName(s)
=============================================================================
