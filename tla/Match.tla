------------------------------- MODULE Match -------------------------------
(***************************************************************************)
(* Wildcard masks (match.c): matching a name, comparing two masks, and the *)
(* compiled form of a mask, each against what a mask means.  A string is   *)
(* a sequence of characters; letters are taken to be lower case.  "*", "?" *)
(* and "\\" are as in the code, "A" and "Z" stand for ? and * in compiled  *)
(* masks, and "0" is the end of a string.                                  *)
(***************************************************************************)
EXTENDS Integers, Sequences, FiniteSets, SequencesExt

CONSTANTS
    Letters,     \* the characters of names
    Marks,       \* what masks have besides letters
    MaxMask, MaxName   \* bounds: lengths of masks and names

VARIABLE s

At(str, i) == IF i \in DOMAIN str THEN str[i] ELSE "0"
Wild == {"*", "?"}
Escaped(str, i) == At(str, i) = "\\" /\ At(str, i + 1) \in Wild

RECURSIVE SkipStars(_, _)
SkipStars(str, i) == IF At(str, i) = "*" THEN SkipStars(str, i + 1) ELSE i

(* From i down over ? marks, to the first character at most.               *)
RECURSIVE BackOver(_, _)
BackOver(str, i) == IF i > 1 /\ At(str, i) = "?" THEN BackOver(str, i - 1) ELSE i

-----------------------------------------------------------------------------
(* match: where the text behind the last * fails, it is tried again one    *)
(* character further on.                                                   *)
RECURSIVE MatchFrom(_, _, _, _, _, _)
MatchFrom(mask, name, m0, n0, back, wild0) ==
    LET star == At(mask, m0) = "*"
        m1   == SkipStars(mask, m0)
        bk   == IF star THEN [m |-> m1, n |-> n0] ELSE back
        wild == wild0 \/ star
        m2   == IF At(mask, m1) = "\\" THEN m1 + 1 ELSE m1
        last == BackOver(mask, m2 - 1)
        Compare(m, n, b) ==
            IF At(mask, m) # At(name, n) /\ At(mask, m) # "?"
            THEN wild /\ MatchFrom(mask, name, b.m, b.n + 1, [b EXCEPT !.n = @ + 1], wild)
            ELSE MatchFrom(mask, name, IF At(mask, m) = "0" THEN m ELSE m + 1,
                           IF At(name, n) = "0" THEN n ELSE n + 1, b, wild)
    IN  IF At(mask, m2) = "0"
        THEN \/ At(name, n0) = "0"
             \/ At(mask, last) = "*" /\ last > 1
             \/ wild /\ Compare(bk.m, bk.n + 1, [bk EXCEPT !.n = @ + 1])
        ELSE IF At(name, n0) = "0" THEN At(mask, SkipStars(mask, m2)) = "0"
        ELSE Compare(m2, n0, bk)

match(mask, name) == MatchFrom(mask, name, 1, 1, [m |-> 1, n |-> 1], FALSE)

-----------------------------------------------------------------------------
(* mmatch: the same walk over two masks.  An escaped wildcard counts as    *)
(* one character of either, and ? does not cover a * of the new mask.      *)
Covers(x, xq, y, yq) ==
    \/ x = "*" /\ ~xq
    \/ (~xq \/ yq) /\ x = y
    \/ x = "?" /\ ~xq /\ (y # "*" \/ yq)

RECURSIVE MmatchFrom(_, _, _, _, _, _)
MmatchFrom(old, new, m0, n0, back, wild0) ==
    LET star == At(old, m0) = "*"
        m1   == SkipStars(old, m0)
        bk   == IF star THEN [m |-> m1, n |-> n0] ELSE back
        wild == wild0 \/ star
        last == BackOver(old, m1 - 1)
        Again(b) == [b EXCEPT !.n = IF Escaped(new, @) THEN @ + 2 ELSE @ + 1]
        Compare(m, n, b) ==
            LET mq == Escaped(old, m)
                nq == Escaped(new, n)
                mm == IF mq THEN m + 1 ELSE m
                nn == IF nq THEN n + 1 ELSE n
            IN  IF Covers(At(old, mm), mq, At(new, nn), nq)
                THEN MmatchFrom(old, new, IF At(old, mm) = "0" THEN mm ELSE mm + 1,
                                IF At(new, nn) = "0" THEN nn ELSE nn + 1, b, wild)
                ELSE wild /\ MmatchFrom(old, new, b.m, Again(b).n, Again(b), wild)
    IN  IF At(old, m1) = "0"
        THEN \/ At(new, n0) = "0"
             \/ At(old, last) = "*" /\ last > 1 /\ At(old, last - 1) # "\\"
             \/ wild /\ Compare(bk.m, Again(bk).n, Again(bk))
        ELSE IF At(new, n0) = "0" THEN At(old, SkipStars(old, m1)) = "0"
        ELSE Compare(m1, n0, bk)

mmatch(old, new) == MmatchFrom(old, new, 1, 1, [m |-> 1, n |-> 1], FALSE)

-----------------------------------------------------------------------------
(* Mutant: a run of wildcards becomes one *.                               *)
RECURSIVE Squeeze_short(_, _, _)
Squeeze_short(mask, i, star) ==
    IF At(mask, i) = "0" THEN IF star THEN <<"*">> ELSE <<>>
    ELSE IF At(mask, i) = "*" \/ (star /\ At(mask, i) = "?") THEN Squeeze_short(mask, i + 1, TRUE)
    ELSE (IF star THEN <<"*">> ELSE <<>>) \o <<mask[i]>> \o Squeeze_short(mask, i + 1, FALSE)
collapse_short(mask) == Squeeze_short(mask, 1, FALSE)

(* A run of * and ? becomes its question marks and then one star.          *)
RECURSIVE Squeeze(_, _, _)
Squeeze(mask, i, star) ==
    CASE At(mask, i) = "0" -> IF star THEN <<"*">> ELSE <<>>
      [] At(mask, i) = "*" -> Squeeze(mask, i + 1, TRUE)
      [] At(mask, i) = "?" -> <<"?">> \o Squeeze(mask, i + 1, star)
      [] OTHER -> (IF star THEN <<"*">> ELSE <<>>)
                  \o (IF Escaped(mask, i) THEN SubSeq(mask, i, i + 1) ELSE <<mask[i]>>)
                  \o Squeeze(mask, IF Escaped(mask, i) THEN i + 2 ELSE i + 1, FALSE)
collapse(mask) == Squeeze(mask, 1, FALSE)

-----------------------------------------------------------------------------
(* The compiled form: wildcards are A and Z, escapes are gone, and what    *)
(* follows the last star is moved, reversed, behind the first.             *)
RECURSIVE Compiled(_, _, _)
Compiled(mask, i, star) ==
    CASE At(mask, i) = "0" -> IF star THEN <<"Z">> ELSE <<>>
      [] At(mask, i) = "*" -> Compiled(mask, i + 1, TRUE)
      [] At(mask, i) = "?" -> <<"A">> \o Compiled(mask, i + 1, star)
      [] OTHER -> LET e == Escaped(mask, i)
                  IN  (IF star THEN <<"Z">> ELSE <<>>)
                      \o <<IF e THEN mask[i + 1] ELSE mask[i]>>
                      \o Compiled(mask, IF e THEN i + 2 ELSE i + 1, FALSE)

matchcomp(mask) ==
    LET c     == Compiled(mask, 1, FALSE)
        stars == {i \in DOMAIN c : c[i] = "Z"}
        first == CHOOSE i \in stars : \A j \in stars : i <= j
        last  == CHOOSE i \in stars : \A j \in stars : j <= i
    IN  [minlen |-> Len(c) - Cardinality(stars),
         text   |-> IF stars = {} THEN c
                    ELSE SubSeq(c, 1, first - 1)
                         \o <<"Z">> \o Reverse(SubSeq(c, last + 1, Len(c)))
                         \o SubSeq(c, first, last - 1)]

(* matchexec: the head, the tail from the end, then the chunks between     *)
(* them, for which at most trash characters may be passed over.            *)
RECURSIVE Chunks(_, _, _, _, _), Chunk(_, _, _, _, _, _, _), HeadTo(_, _, _, _), TailTo(_, _, _, _)

Chunks(str, c, b0, s0, trash) ==
    LET b    == b0 + 1
        hits == {i \in s0 + 1 .. Len(str) : str[i] = At(c, b)}
    IN  IF At(c, b) = "0" THEN TRUE
        ELSE IF hits = {} THEN FALSE
        ELSE LET at == CHOOSE i \in hits : \A j \in hits : i <= j
                 left == trash - (at - s0 - 1)
             IN  left >= 0 /\ Chunk(str, c, b0, at, at, b, left)

Chunk(str, c, bb, bs, s0, b0, trash) ==
    LET p == s0 + 1  q == b0 + 1
    IN  CASE At(c, q) = "0" -> TRUE
          [] At(c, q) = "Z" -> Chunks(str, c, q, p - 1, trash)
          [] At(c, q) = "A" \/ At(c, q) = At(str, p) -> Chunk(str, c, bb, bs, p, q, trash)
          [] OTHER -> trash - 1 >= 0 /\ Chunks(str, c, bb, bs, trash - 1)

TailTo(str, c, p, q) ==
    IF At(c, q) # "0" /\ At(c, q) \in {"A", At(str, p)} THEN TailTo(str, c, p - 1, q + 1) ELSE q

HeadTo(str, c, minlen, p) ==
    CASE At(str, p) = "0" -> At(c, p) = "0" \/ (At(c, p) = "Z" /\ At(c, p + 1) = "0")
      [] At(c, p) \in {"A", At(str, p)} -> HeadTo(str, c, minlen, p + 1)
      [] At(c, p) = "Z" ->
            /\ Len(str) - minlen >= 0
            /\ LET q == TailTo(str, c, Len(str), p + 1)
               IN  \/ At(c, q) = "0"
                   \/ At(c, q) = "Z" /\ Chunks(str, c, q, p - 1, Len(str) - minlen)
      [] OTHER -> FALSE

matchexec(str, comp) == HeadTo(str, comp.text, comp.minlen, 1)

(* matchdecomp: the text of a compiled mask.                               *)
Shown(ch) == CASE ch = "A" -> <<"?">> [] ch = "Z" -> <<"*">> [] ch \in Wild -> <<"\\", ch>> [] OTHER -> <<ch>>
Show(str) == FlattenSeq([i \in DOMAIN str |-> Shown(str[i])])

matchdecomp(comp) ==
    LET c     == comp.text
        stars == {i \in DOMAIN c : c[i] = "Z"}
        beg   == CHOOSE i \in stars : \A j \in stars : i <= j
        ends  == stars \ {beg}
        end   == IF ends = {} THEN Len(c) + 1 ELSE CHOOSE i \in ends : \A j \in ends : i <= j
    IN  IF stars = {} THEN Show(c)
        ELSE Show(SubSeq(c, 1, beg - 1)) \o <<"*">>
             \o (IF ends = {} THEN <<>> ELSE Show(SubSeq(c, end + 1, Len(c))) \o <<"*">>)
             \o Show(Reverse(SubSeq(c, beg + 1, end - 1)))

-----------------------------------------------------------------------------
(* What a mask means.                                                      *)
RECURSIVE Fits(_, _)
Fits(mask, name) ==
    IF mask = <<>> THEN name = <<>>
    ELSE CASE mask[1] = "*" -> \E i \in 1 .. Len(name) + 1 : Fits(Tail(mask), SubSeq(name, i, Len(name)))
           [] Escaped(mask, 1) -> /\ name # <<>> /\ name[1] = mask[2]
                                  /\ Fits(SubSeq(mask, 3, Len(mask)), Tail(name))
           [] OTHER -> /\ name # <<>> /\ mask[1] \in {"?", name[1]}
                       /\ Fits(Tail(mask), Tail(name))

Names == UNION {[1 .. n -> Letters] : n \in 0 .. MaxName}
Masks == UNION {[1 .. n -> Marks] : n \in 0 .. MaxMask}

Init == s \in [mask : Masks, other : Masks, done : {FALSE}]
Next == ~s.done /\ s' = [s EXCEPT !.done = TRUE]
Spec == Init /\ [][Next]_s

Plain(mask) == \A i \in DOMAIN mask : mask[i] # "\\"

(* A name matches a mask without escapes when it fits it.                  *)
MatchRight ==
    s.other = <<>> /\ Plain(s.mask) => \A n \in Names : match(s.mask, n) <=> Fits(s.mask, n)

(* A collapsed mask means the same, and so does a compiled one, matched or *)
(* turned into text again.                                                 *)
CompiledRight ==
    s.other = <<>> => \A n \in Names :
        /\ Fits(collapse(s.mask), n) <=> Fits(s.mask, n)
        /\ matchexec(n, matchcomp(s.mask)) <=> Fits(s.mask, n)
        /\ Fits(matchdecomp(matchcomp(s.mask)), n) <=> Fits(s.mask, n)

(* A mask that is found to cover another one does: every name that fits    *)
(* the other fits it.                                                      *)
CoversAll ==
    mmatch(s.mask, s.other) => \A n \in Names : Fits(s.other, n) => Fits(s.mask, n)
=============================================================================
