-------------------------------- MODULE Crule --------------------------------
(* Connection rules (crule.c): the recursive descent parser that makes the *)
(* tree of a rule, and the evaluation that decides whether we may connect  *)
(* to a server.  A behaviour writes a rule, token by token; the properties *)
(* compare the tree of every rule with the meaning of its tokens.          *)
(*                                                                         *)
(* The names of the four functions stand for whole calls of them, about    *)
(* the servers of Mask; "word" begins a call that is written out, of       *)
(* directop when it needs no argument and else of connected.               *)
EXTENDS Naturals, Sequences, FiniteSets

CONSTANTS
    Tokens,
    ReqNumArgs,   \* the arguments that the called function needs
    Nets,         \* networks: per server the link it is behind, and our operators
    Mask,         \* the servers that the masks in rules match; our own is none of them
    MaxTokens

VARIABLES
    rule,         \* the tokens written so far
    net           \* the network when the rule is asked

vars == <<rule, net>>

Calls == {"connected", "directcon", "via", "directop"}

Null == [op |-> "null"]
Node(op, l, r) == [op |-> op, l |-> l, r |-> r]
Leaf(v) == [op |-> "call", v |-> v]

\* what a parsing function returns: an error or not, its tree, and how far it read
Got(ok, tree, at) == [ok |-> ok, tree |-> tree, at |-> at]

\* crule_gettoken: the token at a place, the last of which is CR_END
Tok(s, i) == IF i > Len(s) THEN "end" ELSE s[i]

(* crule_parsearglist: words side by side are one argument, an empty one   *)
(* does not count.                                                         *)
RECURSIVE crule_parsearglist(_, _, _, _)
crule_parsearglist(s, i, some, count) ==
    IF Tok(s, i) = "word" THEN crule_parsearglist(s, i + 1, TRUE, count)
    ELSE LET c == IF some THEN count + 1 ELSE count
         IN  IF Tok(s, i) = "," THEN crule_parsearglist(s, i + 1, FALSE, c) ELSE <<c, i>>

crule_parsefunction(s, i) ==
    IF Tok(s, i + 1) # "(" THEN Got(FALSE, Null, i + 1)
    ELSE LET args == crule_parsearglist(s, i + 2, FALSE, 0)
         IN  Got(Tok(s, args[2]) = ")" /\ args[1] = ReqNumArgs, Leaf(IF ReqNumArgs = 0 THEN "directop" ELSE "connected"), args[2] + 1)

RECURSIVE crule_parseorexpr(_, _, _), crule_parseandexpr(_, _, _), crule_parseprimary(_, _)

(* crule_parseprimary: a token that begins no primary is left to the       *)
(* caller, with a tree that is NULL, but after a "!" it is an error.       *)
crule_parseprimary(s, i) ==
    CASE Tok(s, i) = "(" ->
            LET e == crule_parseorexpr(s, i + 1, Null)
            IN  Got(e.ok /\ e.tree # Null /\ Tok(s, e.at) = ")", e.tree, e.at + 1)
      [] Tok(s, i) = "!" ->
            LET e == crule_parseprimary(s, i + 1)
            IN  Got(e.ok /\ e.tree # Null, Node("not", e.tree, Null), e.at)
      [] Tok(s, i) = "word" -> crule_parsefunction(s, i)
      [] Tok(s, i) \in Calls -> Got(TRUE, Leaf(s[i]), i + 1)
      [] OTHER -> Got(TRUE, Null, i)

(* crule_parseandexpr, crule_parseorexpr: the operands so far are the left *)
(* one of the next operator.  The last operand may not be missing, the     *)
(* others are not looked at.                                               *)
Operands(op, e, root) == IF root = Null THEN e ELSE Node(op, root.l, e)

crule_parseandexpr(s, i, root) ==
    LET p    == crule_parseprimary(s, i)
        tree == Operands("and", p.tree, root)
    IN  IF p.ok /\ Tok(s, p.at) = "&&" THEN crule_parseandexpr(s, p.at + 1, Node("and", tree, Null))
        ELSE Got(p.ok /\ (root # Null => p.tree # Null), tree, p.at)

crule_parseorexpr(s, i, root) ==
    LET a    == crule_parseandexpr(s, i, Null)
        tree == Operands("or", a.tree, root)
    IN  IF a.ok /\ Tok(s, a.at) = "||" THEN crule_parseorexpr(s, a.at + 1, Node("or", tree, Null))
        ELSE Got(a.ok /\ (root # Null => a.tree # Null), tree, a.at)

\* the tree of a rule, Null when there is an error in it
crule_parse(s) ==
    LET e == crule_parseorexpr(s, 1, Null)
    IN  IF e.ok /\ Tok(s, e.at) = "end" THEN e.tree ELSE Null

\* is there a server that matches, one linked to us, one that matches behind a
\* link that matches, an operator on this server
crule_connected == Mask \cap DOMAIN net.behind # {}
crule_directcon == \E x \in Mask \cap DOMAIN net.behind : net.behind[x] = x
crule_via       == \E x \in Mask \cap DOMAIN net.behind : net.behind[x] \in Mask
crule_directop  == net.opers > 0

Call(f) ==
    CASE f = "connected" -> crule_connected
      [] f = "directcon" -> crule_directcon
      [] f = "via" -> crule_via
      [] f = "directop" -> crule_directop

(* crule_eval, crule__andor, crule__not: whether the rule forbids to       *)
(* connect.                                                                *)
RECURSIVE crule_eval(_)
crule_eval(t) ==
    CASE t.op = "call" -> Call(t.v)
      [] t.op = "not" -> ~crule_eval(t.l)
      [] t.op = "and" -> crule_eval(t.l) /\ crule_eval(t.r)
      [] t.op = "or" -> crule_eval(t.l) \/ crule_eval(t.r)

\* a node that an operator has no operand in: crule_eval and crule_free
\* would follow the null pointer
RECURSIVE Hole(_)
Hole(t) ==
    CASE t.op = "null" -> TRUE
      [] t.op = "call" -> FALSE
      [] t.op = "not" -> Hole(t.l)
      [] OTHER -> Hole(t.l) \/ Hole(t.r)

-----------------------------------------------------------------------------
Init == rule = <<>> /\ net \in Nets

Write(t) == Len(rule) < MaxTokens /\ rule' = Append(rule, t) /\ UNCHANGED net

Next == \E t \in Tokens : Write(t)

Spec == Init /\ [][Next]_vars

-----------------------------------------------------------------------------
(* The meaning of a rule, by what it can be split into: "||" joins what is *)
(* joined by "&&", which binds tighter, of primaries.                      *)
Part(s, i, j) == SubSeq(s, i, j)

RECURSIVE OrMeans(_), AndMeans(_), PrimaryMeans(_)
OrMeans(s) ==
    AndMeans(s) \cup
    UNION {{a \/ b : a \in OrMeans(Part(s, 1, i - 1)), b \in AndMeans(Part(s, i + 1, Len(s)))} :
           i \in {x \in DOMAIN s : s[x] = "||"}}
AndMeans(s) ==
    PrimaryMeans(s) \cup
    UNION {{a /\ b : a \in AndMeans(Part(s, 1, i - 1)), b \in PrimaryMeans(Part(s, i + 1, Len(s)))} :
           i \in {x \in DOMAIN s : s[x] = "&&"}}
PrimaryMeans(s) ==
    CASE s = <<>> -> {}
      [] Len(s) = 1 /\ s[1] \in Calls -> {Call(s[1])}
      [] s[1] = "!" -> {~v : v \in PrimaryMeans(Tail(s))}
      [] s[1] = "(" /\ s[Len(s)] = ")" -> OrMeans(Part(s, 2, Len(s) - 1))
      [] s[1] = "word" /\ Len(s) > 2 /\ s[2] = "(" /\ s[Len(s)] = ")" ->
            LET args == Part(s, 3, Len(s) - 1)
                starts == {i \in DOMAIN args : args[i] = "word" /\ (i = 1 \/ args[i - 1] = ",")}
            IN  IF (\A i \in DOMAIN args : args[i] \in {"word", ","}) /\ Cardinality(starts) = ReqNumArgs
                THEN {Call(IF ReqNumArgs = 0 THEN "directop" ELSE "connected")} ELSE {}
      [] OTHER -> {}

\* an operator with nothing on its left
NoLeft(s) == \E i \in DOMAIN s : s[i] \in {"&&", "||"} /\ (i = 1 \/ s[i - 1] \in {"(", "&&", "||"})

(* The parser takes the rules that mean something and no others, and the   *)
(* tree says what they mean: the operators bind as they should, "!" only   *)
(* to the next primary, and no tree has a node without operand.  Left out  *)
(* are rules with an operator that has nothing on its left: they are taken *)
(* although they mean nothing.                                             *)
TreeMeansRule ==
    LET t == crule_parse(rule)
    IN  ~NoLeft(rule) =>
            /\ (t = Null) <=> (OrMeans(rule) = {})
            /\ t # Null => ~Hole(t) /\ OrMeans(rule) = {crule_eval(t)}
=============================================================================
