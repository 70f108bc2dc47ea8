---------------------------- MODULE SequenceFacts ----------------------------
(***************************************************************************)
(* Facts about sequences on which the proofs of several modules rest.      *)
(*                                                                         *)
(* Those about operators the libraries define recursively need induction.  *)
(* It is had from the theorems on well-founded relations: a set of numbers *)
(* that has 0, and with a number the next one, has them all, since there   *)
(* is no least number that it lacks.                                       *)
(***************************************************************************)
EXTENDS Integers, SequencesExt, NaturalsInduction, WellFoundedInduction, TLAPS

LEMMA LeastNumber ==
  ASSUME NEW T \in SUBSET Nat, T # {}
  PROVE  \E n \in T : \A m \in T : n <= m
<1> DEFINE R == OpToRel(<, Nat)
<1>1. \A m, n \in Nat : m < n => <<m, n>> \in R
  BY DEF OpToRel
<1>2. IsWellFoundedOn(R, Nat)
  BY NatLessThanWellFounded
<1> HIDE DEF R
<1>3. PICK n \in T : \A m \in T : ~(<<m, n>> \in R)
  BY <1>2, WFMin
<1>4. ASSUME NEW m \in T PROVE n <= m
  <2>1. m \in Nat /\ n \in Nat
    OBVIOUS
  <2>2. ~(m < n)
    BY <1>1, <1>3, <2>1
  <2> QED BY <2>1, <2>2
<1> QED BY <1>4

LEMMA CountingUp ==
  ASSUME NEW T, 0 \in T, \A n \in Nat : n \in T => n + 1 \in T
  PROVE  Nat \subseteq T
<1> DEFINE U == Nat \ T
<1> SUFFICES ASSUME U # {} PROVE FALSE
  OBVIOUS
<1>1. PICK n \in U : \A m \in U : n <= m
  BY LeastNumber
<1>2. n \in Nat \ {0} /\ n - 1 \in Nat /\ n - 1 \notin U
  BY <1>1
<1>3. (n - 1) + 1 \in T /\ (n - 1) + 1 = n
  BY <1>2
<1> QED BY <1>1, <1>3

-----------------------------------------------------------------------------
(* Order.                                                                  *)

\* Each element of s is related by R to those after it.
Ordered(s, R) == \A a, b \in DOMAIN s : a < b => <<s[a], s[b]>> \in R

LEMMA Concatenated ==
  ASSUME NEW A, NEW s \in Seq(A), NEW t \in Seq(A), NEW R,
         Ordered(s, R), Ordered(t, R),
         \A x \in ToSet(s), y \in ToSet(t) : <<x, y>> \in R
  PROVE  Ordered(s \o t, R)
<1> DEFINE u == s \o t
<1>1. /\ Len(s) \in Nat /\ Len(t) \in Nat /\ u \in Seq(A)
      /\ DOMAIN s = 1 .. Len(s) /\ DOMAIN t = 1 .. Len(t)
      /\ DOMAIN u = 1 .. Len(s) + Len(t)
  OBVIOUS
<1>2. /\ \A i \in DOMAIN s : u[i] = s[i]
      /\ \A i \in DOMAIN u : i \notin DOMAIN s => i - Len(s) \in DOMAIN t /\ u[i] = t[i - Len(s)]
  BY <1>1
<1> SUFFICES ASSUME NEW a \in DOMAIN u, NEW b \in DOMAIN u, a < b
             PROVE  <<u[a], u[b]>> \in R
  BY DEF Ordered
<1>3. a \in Int /\ b \in Int
  BY <1>1
<1> HIDE DEF u
<1>4. CASE b \in DOMAIN s
  <2>1. a \in DOMAIN s
    BY <1>1, <1>3, <1>4
  <2> QED BY <1>2, <1>4, <2>1 DEF Ordered
<1>5. CASE a \in DOMAIN s /\ b \notin DOMAIN s
  <2>1. u[a] \in ToSet(s) /\ u[b] \in ToSet(t)
    BY <1>2, <1>5 DEF ToSet
  <2> QED BY <2>1
<1>6. CASE a \notin DOMAIN s /\ b \notin DOMAIN s
  <2>1. a - Len(s) < b - Len(s)
    BY <1>1, <1>3
  <2> QED BY <1>2, <1>6, <2>1 DEF Ordered
<1> QED BY <1>1, <1>3, <1>4, <1>5, <1>6

LEMMA ConcatenatedSet ==
  ASSUME NEW A, NEW s \in Seq(A), NEW t \in Seq(A)
  PROVE  s \o t \in Seq(A) /\ ToSet(s \o t) = ToSet(s) \cup ToSet(t)
<1> DEFINE u == s \o t
<1>1. /\ Len(s) \in Nat /\ Len(t) \in Nat /\ u \in Seq(A)
      /\ DOMAIN s = 1 .. Len(s) /\ DOMAIN t = 1 .. Len(t)
      /\ DOMAIN u = 1 .. Len(s) + Len(t)
  OBVIOUS
<1>2. /\ \A i \in DOMAIN s : u[i] = s[i]
      /\ \A i \in DOMAIN u : i \notin DOMAIN s => i - Len(s) \in DOMAIN t /\ u[i] = t[i - Len(s)]
      /\ \A i \in DOMAIN t : i + Len(s) \in DOMAIN u /\ u[i + Len(s)] = t[i]
  BY <1>1
<1>3. DOMAIN s \subseteq DOMAIN u
  BY <1>1
<1> HIDE DEF u
<1>4. ToSet(u) = ToSet(s) \cup ToSet(t)
  BY <1>2, <1>3 DEF ToSet
<1> QED BY <1>1, <1>4 DEF u

-----------------------------------------------------------------------------
(* FlattenSeq.                                                             *)

LEMMA FlatteningExists ==
  ASSUME NEW s
  PROVE  \A n \in Nat : \E g :
           g = [i \in 1 .. n |-> IF i = 1 THEN s[i] ELSE g[i - 1] \o s[i]]
<1> DEFINE Eq(g, m) == g = [i \in 1 .. m |-> IF i = 1 THEN s[i] ELSE g[i - 1] \o s[i]]
           T == {m \in Nat : \E g : Eq(g, m)}
<1>1. 0 \in T
  <2>1. Eq(<<>>, 0)
    OBVIOUS
  <2> QED BY <2>1
<1>2. ASSUME NEW m \in Nat, NEW g, Eq(g, m)
      PROVE  \E h : Eq(h, m + 1)
  <2> DEFINE h == [i \in 1 .. m + 1 |->
                     IF i = m + 1 THEN IF i = 1 THEN s[i] ELSE g[i - 1] \o s[i] ELSE g[i]]
  <2>1. \A i \in 1 .. m : h[i] = g[i]
    OBVIOUS
  <2>2. \A i \in 1 .. m : g[i] = IF i = 1 THEN s[i] ELSE g[i - 1] \o s[i]
    BY <1>2
  <2>3. \A i \in 1 .. m + 1 : h[i] = IF i = 1 THEN s[i] ELSE h[i - 1] \o s[i]
    <3> SUFFICES ASSUME NEW i \in 1 .. m + 1
                 PROVE  h[i] = IF i = 1 THEN s[i] ELSE h[i - 1] \o s[i]
      OBVIOUS
    <3>1. i # 1 => i - 1 \in 1 .. m
      OBVIOUS
    <3>2. i # 1 => h[i - 1] = g[i - 1]
      BY <2>1, <3>1
    <3>3. CASE i = m + 1
      BY <3>2, <3>3
    <3>4. CASE i # m + 1
      <4>1. i \in 1 .. m
        BY <3>4
      <4> HIDE DEF h
      <4> QED BY <2>1, <2>2, <3>2, <4>1
    <3> QED BY <3>3, <3>4
  <2>4. h = [i \in 1 .. m + 1 |-> h[i]]
    OBVIOUS
  <2> HIDE DEF h
  <2>5. Eq(h, m + 1)
    BY <2>3, <2>4
  <2> QED BY <2>5
<1>3. ASSUME NEW m \in Nat, m \in T PROVE m + 1 \in T
  <2> HIDE DEF Eq
  <2>1. PICK g : Eq(g, m)
    BY <1>3
  <2> QED BY <1>2, <2>1
<1> HIDE DEF T
<1>4. Nat \subseteq T
  BY <1>1, <1>3, CountingUp
<1> QED BY <1>4 DEF T

\* A flattened sequence has the elements of its parts, in their order.
LEMMA Flattened ==
  ASSUME NEW A, NEW s \in Seq(Seq(A)), NEW R,
         \A i \in DOMAIN s : Ordered(s[i], R),
         \A i, j \in DOMAIN s : i < j =>
           \A x \in ToSet(s[i]), y \in ToSet(s[j]) : <<x, y>> \in R
  PROVE  /\ FlattenSeq(s) \in Seq(A)
         /\ ToSet(FlattenSeq(s)) = UNION {ToSet(s[i]) : i \in DOMAIN s}
         /\ Ordered(FlattenSeq(s), R)
<1> DEFINE n == Len(s)
           Eq(g) == g = [i \in 1 .. n |-> IF i = 1 THEN s[i] ELSE g[i - 1] \o s[i]]
           f == CHOOSE g : Eq(g)
<1>1. n \in Nat /\ DOMAIN s = 1 .. n /\ \A i \in 1 .. n : s[i] \in Seq(A)
  OBVIOUS
<1>2. Eq(f)
  <2>1. \E g : Eq(g)
    <3> HIDE DEF n
    <3> QED BY <1>1, FlatteningExists
  <2> HIDE DEF Eq
  <2> QED BY <2>1
<1>3. \A i \in 1 .. n : f[i] = IF i = 1 THEN s[i] ELSE f[i - 1] \o s[i]
  BY <1>2
<1>4. FlattenSeq(s) = IF n = 0 THEN s ELSE f[n]
  BY DEF FlattenSeq
<1> HIDE DEF f, n, Eq
<1> DEFINE Good(i) == /\ f[i] \in Seq(A)
                      /\ ToSet(f[i]) = UNION {ToSet(s[j]) : j \in 1 .. i}
                      /\ Ordered(f[i], R)
           T == {i \in Nat : i \in 1 .. n => Good(i)}
<1>5. ASSUME n > 0 PROVE Good(1)
  <2>1. 1 \in 1 .. n /\ f[1] = s[1] /\ \A j \in 1 .. 1 : j = 1
    BY <1>1, <1>3, <1>5
  <2>2. ToSet(f[1]) = UNION {ToSet(s[j]) : j \in 1 .. 1}
    BY <2>1
  <2> QED BY <1>1, <2>1, <2>2
<1>6. ASSUME NEW i \in Nat, i > 0, i + 1 \in 1 .. n, Good(i) PROVE Good(i + 1)
  <2>1. f[i + 1] = f[i] \o s[i + 1] /\ s[i + 1] \in Seq(A)
    <3>1. (i + 1) - 1 = i /\ i + 1 # 1
      BY <1>6
    <3> QED BY <1>1, <1>3, <1>6, <3>1
  <2>2. f[i + 1] \in Seq(A) /\ ToSet(f[i + 1]) = ToSet(f[i]) \cup ToSet(s[i + 1])
    BY <1>6, <2>1, ConcatenatedSet
  <2>3. 1 .. i + 1 = (1 .. i) \cup {i + 1}
    OBVIOUS
  <2>4. ToSet(f[i + 1]) = UNION {ToSet(s[j]) : j \in 1 .. i + 1}
    <3>1. UNION {ToSet(s[j]) : j \in (1 .. i) \cup {i + 1}}
            = (UNION {ToSet(s[j]) : j \in 1 .. i}) \cup ToSet(s[i + 1])
      OBVIOUS
    <3> QED BY <1>6, <2>2, <2>3, <3>1
  <2>5. \A x \in ToSet(f[i]), y \in ToSet(s[i + 1]) : <<x, y>> \in R
    <3> SUFFICES ASSUME NEW x \in ToSet(f[i]), NEW y \in ToSet(s[i + 1]) PROVE <<x, y>> \in R
      OBVIOUS
    <3>1. PICK j \in 1 .. i : x \in ToSet(s[j])
      BY <1>6
    <3>2. j \in DOMAIN s /\ i + 1 \in DOMAIN s /\ j < i + 1
      BY <1>1, <1>6
    <3> QED BY <3>1, <3>2
  <2>6. Ordered(f[i + 1], R)
    BY <1>1, <1>6, <2>1, <2>5, Concatenated
  <2> QED BY <2>2, <2>4, <2>6
<1>7. Nat \subseteq T
  <2>1. 0 \in T
    OBVIOUS
  <2>2. ASSUME NEW i \in Nat, i \in T PROVE i + 1 \in T
    <3> SUFFICES ASSUME i + 1 \in 1 .. n PROVE Good(i + 1)
      OBVIOUS
    <3> HIDE DEF Good
    <3>1. CASE i = 0
      <4>1. n > 0 /\ i + 1 = 1
        BY <1>1, <3>1
      <4> QED BY <1>5, <4>1
    <3>2. CASE i # 0
      <4>1. i > 0 /\ i \in 1 .. n
        BY <1>1, <3>2
      <4> QED BY <1>6, <2>2, <4>1
    <3> QED BY <3>1, <3>2
  <2> HIDE DEF T
  <2> QED BY <2>1, <2>2, CountingUp
<1>8. CASE n = 0
  <2>1. s = <<>> /\ FlattenSeq(s) = <<>>
    BY <1>4, <1>8 DEF n
  <2>2. <<>> \in Seq(A) /\ ToSet(<<>>) = {} /\ Ordered(<<>>, R) /\ DOMAIN s = {}
    BY <2>1 DEF ToSet, Ordered
  <2> QED BY <2>1, <2>2
<1>9. CASE n # 0
  <2>1. n \in 1 .. n
    BY <1>1, <1>9
  <2>2. Good(n)
    <3>1. n \in T
      <4> HIDE DEF T
      <4> QED BY <1>1, <1>7
    <3> QED BY <2>1, <3>1
  <2> QED BY <1>1, <1>4, <1>9, <2>2
<1> QED BY <1>8, <1>9
=============================================================================
