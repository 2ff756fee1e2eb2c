------------------------------ MODULE Filter ------------------------------
(***************************************************************************)
(* A linked list after the elements of a set have been unlinked, and what  *)
(* is left of it: the code walks its lists with a pointer to the link that *)
(* names the element (del_invite in channel.c, gliter in gline.c).         *)
(***************************************************************************)
EXTENDS Integers, Sequences, SequenceTheorems, NaturalsInduction,
        WellFoundedInduction, TLAPS

Drop(s, C) ==
    LET F[i \in 0..Len(s)] == IF i = 0 THEN <<>>
                              ELSE IF s[i] \in C THEN F[i - 1] ELSE Append(F[i - 1], s[i])
    IN  F[Len(s)]

Elements(s) == {s[i] : i \in 1..Len(s)}

(* No element occurs twice.                                                *)
Injective(s) == \A i, j \in 1..Len(s) : s[i] = s[j] => i = j

-----------------------------------------------------------------------------
(* A non-empty set of natural numbers has a least element.                 *)
LEMMA Least ==
  ASSUME NEW T, T \subseteq Nat, T # {}
  PROVE  \E n \in T : \A m \in T : n <= m
<1> DEFINE R == OpToRel(<, Nat)
<1>1. IsWellFoundedOn(R, Nat)
  BY NatLessThanWellFounded
<1>2. \A x, y \in Nat : <<y, x>> \in R <=> y < x
  BY DEF OpToRel
<1> HIDE DEF R
<1>3. PICK x \in T : \A y \in T : ~(<<y, x>> \in R)
  BY <1>1, WFMin
<1>4. \A y \in T : x \in Nat /\ y \in Nat /\ ~(y < x)
  BY <1>2, <1>3
<1> QED
  BY <1>4

(* Induction, over a set rather than a predicate.                          *)
LEMMA Induction ==
  ASSUME NEW S, S \subseteq Nat, 0 \in S, \A n \in Nat : n \in S => n + 1 \in S
  PROVE  S = Nat
<1> SUFFICES ASSUME Nat \ S # {} PROVE FALSE
  OBVIOUS
<1>1. PICK n \in Nat \ S : \A m \in Nat \ S : n <= m
  BY Least
<1>2. n # 0 /\ n - 1 \in Nat /\ n - 1 \in S
  BY <1>1
<1> QED
  BY <1>1, <1>2

(* The function that Drop is defined by exists.                            *)
LEMMA DropDef ==
  ASSUME NEW s, NEW C, Len(s) \in Nat
  PROVE  \E F : /\ F = [i \in 0..Len(s) |-> IF i = 0 THEN <<>>
                              ELSE IF s[i] \in C THEN F[i - 1] ELSE Append(F[i - 1], s[i])]
                /\ Drop(s, C) = F[Len(s)]
<1> DEFINE B(F, i) == IF i = 0 THEN <<>>
                      ELSE IF s[i] \in C THEN F[i - 1] ELSE Append(F[i - 1], s[i])
           S == {n \in Nat : \E F : F = [i \in 0..n |-> B(F, i)]}
<1>1. 0 \in S
  <2> DEFINE F == [i \in 0..0 |-> <<>>]
  <2>1. F = [i \in 0..0 |-> B(F, i)]
    OBVIOUS
  <2> QED
    BY <2>1
<1>2. ASSUME NEW n \in Nat, n \in S PROVE n + 1 \in S
  <2>1. PICK F : F = [i \in 0..n |-> B(F, i)]
    BY <1>2
  <2> DEFINE G == [i \in 0..(n + 1) |-> IF i <= n THEN F[i] ELSE B(F, n + 1)]
  <2>2. \A i \in 0..(n + 1) : G[i] = B(G, i)
    <3> TAKE i \in 0..(n + 1)
    <3>1. CASE i = 0
      BY <2>1, <3>1
    <3>2. CASE i # 0 /\ i <= n
      <4>1. i - 1 \in 0..n /\ i - 1 \in 0..(n + 1) /\ i \in 0..n
        BY <3>2
      <4>2. G[i - 1] = F[i - 1] /\ G[i] = F[i]
        BY <3>2, <4>1
      <4>3. F[i] = B(F, i)
        BY <2>1, <4>1
      <4> QED
        BY <3>2, <4>2, <4>3
    <3>3. CASE i = n + 1
      <4>1. n \in 0..(n + 1) /\ i - 1 = n /\ ~(i <= n)
        BY <3>3
      <4>2. G[i - 1] = F[n] /\ G[i] = B(F, n + 1) /\ F[i - 1] = F[n]
        BY <3>3, <4>1
      <4> HIDE DEF G
      <4> QED
        BY <3>3, <4>1, <4>2
    <3> QED
      BY <3>1, <3>2, <3>3
  <2>3. G = [i \in 0..(n + 1) |-> G[i]]
    OBVIOUS
  <2> HIDE DEF G
  <2>4. G = [i \in 0..(n + 1) |-> B(G, i)]
    BY <2>2, <2>3
  <2> QED
    BY <2>4
<1>3. Len(s) \in S
  BY <1>1, <1>2, Induction
<1>4. \E F : F = [i \in 0..Len(s) |-> B(F, i)]
  BY <1>3
<1> DEFINE H == CHOOSE F : F = [i \in 0..Len(s) |-> B(F, i)]
<1>5. H = [i \in 0..Len(s) |-> B(H, i)]
  BY <1>4
<1>6. Drop(s, C) = H[Len(s)]
  BY DEF Drop
<1> HIDE DEF H
<1> QED
  BY <1>5, <1>6

(* What Append does to a list without repetitions                          *)
LEMMA AppendOK ==
  ASSUME NEW T, NEW f \in Seq(T), NEW x \in T
  PROVE  LET g == Append(f, x)
         IN  /\ g \in Seq(T)
             /\ Len(g) = Len(f) + 1
             /\ Elements(g) = Elements(f) \cup {x}
             /\ x \notin Elements(f) /\ Injective(f) => Injective(g)
<1> DEFINE g == Append(f, x)
<1>1. /\ g \in Seq(T) /\ Len(f) \in Nat /\ Len(g) = Len(f) + 1
      /\ \A i \in 1..Len(f) : g[i] = f[i]
      /\ g[Len(f) + 1] = x
  BY AppendProperties, LenProperties
<1> HIDE DEF g
<1>2. \A i \in 1..Len(g) : i \in 1..Len(f) \/ i = Len(f) + 1
  BY <1>1
<1>3. 1..Len(f) \subseteq 1..Len(g) /\ Len(f) + 1 \in 1..Len(g)
  BY <1>1
<1>4. Elements(g) = Elements(f) \cup {x}
  BY <1>1, <1>2, <1>3 DEF Elements
<1>5. x \notin Elements(f) /\ Injective(f) => Injective(g)
  BY <1>1, <1>2 DEF Elements, Injective
<1> QED
  BY <1>1, <1>4, <1>5 DEF g

(* Drop leaves the elements that are not dropped, none of them twice if    *)
(* none was there twice.                                                   *)
LEMMA DropOK ==
  ASSUME NEW T, NEW s \in Seq(T), NEW C
  PROVE  /\ Drop(s, C) \in Seq(T)
         /\ Elements(Drop(s, C)) = Elements(s) \ C
         /\ Injective(s) => Injective(Drop(s, C))
<1>0. Len(s) \in Nat /\ \A i \in 1..Len(s) : s[i] \in T
  BY LenProperties, ElementOfSeq
<1>1. PICK F : /\ F = [i \in 0..Len(s) |-> IF i = 0 THEN <<>>
                              ELSE IF s[i] \in C THEN F[i - 1] ELSE Append(F[i - 1], s[i])]
               /\ Drop(s, C) = F[Len(s)]
  BY <1>0, DropDef
<1> DEFINE K(i) == {s[j] : j \in {x \in 1..i : s[x] \notin C}}
           P(i) == /\ F[i] \in Seq(T)
                   /\ Elements(F[i]) = K(i)
                   /\ Injective(s) => Injective(F[i])
           S == {i \in Nat : i <= Len(s) => P(i)}
<1>2. 0 \in S
  <2>1. F[0] = <<>>
    BY <1>0, <1>1
  <2>2. <<>> \in Seq(T) /\ Len(<<>>) = 0 /\ 1..0 = {}
    OBVIOUS
  <2>3. Elements(F[0]) = {} /\ Injective(F[0])
    BY <2>1, <2>2 DEF Elements, Injective
  <2>4. K(0) = {}
    OBVIOUS
  <2> QED
    BY <2>1, <2>2, <2>3, <2>4
<1>3. ASSUME NEW n \in Nat, n \in S PROVE n + 1 \in S
  <2> SUFFICES ASSUME n + 1 <= Len(s) PROVE P(n + 1)
    OBVIOUS
  <2>1. P(n)
    BY <1>0, <1>3
  <2> DEFINE f == F[n]
             x == s[n + 1]
  <2>2. F[n + 1] = IF x \in C THEN f ELSE Append(f, x)
    <3>1. n + 1 \in 0..Len(s) /\ n + 1 # 0 /\ (n + 1) - 1 = n
      BY <1>0
    <3>2. F[n + 1] = IF n + 1 = 0 THEN <<>>
                     ELSE IF s[n + 1] \in C THEN F[(n + 1) - 1] ELSE Append(F[(n + 1) - 1], s[n + 1])
      BY <1>1, <3>1
    <3> QED
      BY <3>1, <3>2
  <2>3. n + 1 \in 1..Len(s) /\ x \in T
    BY <1>0
  <2>4. K(n + 1) = IF x \in C THEN K(n) ELSE K(n) \cup {x}
    OBVIOUS
  <2>5. Injective(s) => x \notin K(n)
    BY <1>0, <2>3 DEF Injective
  <2> HIDE DEF K, f, x
  <2>6. CASE x \in C
    BY <2>1, <2>2, <2>4, <2>6 DEF f
  <2>7. CASE x \notin C
    <3> DEFINE g == Append(f, x)
    <3>1. f \in Seq(T) /\ Elements(f) = K(n) /\ (Injective(s) => Injective(f))
      BY <2>1 DEF f
    <3>2. /\ g \in Seq(T)
          /\ Elements(g) = Elements(f) \cup {x}
          /\ x \notin Elements(f) /\ Injective(f) => Injective(g)
      BY <2>3, <3>1, AppendOK
    <3> HIDE DEF g
    <3> QED
      BY <2>2, <2>4, <2>5, <2>7, <3>1, <3>2 DEF g
  <2> QED
    BY <2>6, <2>7
<1>4. P(Len(s))
  <2>1. S = Nat
    <3> HIDE DEF P
    <3>1. \A n \in Nat : n \in S => n + 1 \in S
      BY <1>3
    <3> HIDE DEF S
    <3>2. S \subseteq Nat
      BY DEF S
    <3> QED
      BY <1>2, <3>1, <3>2, Induction
  <2> HIDE DEF P
  <2> QED
    BY <1>0, <2>1
<1>5. K(Len(s)) = Elements(s) \ C
  BY DEF Elements
<1> QED
  BY <1>1, <1>4, <1>5
=============================================================================
