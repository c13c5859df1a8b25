---- MODULE Induction ----
(***************************************************************************)
(* Least elements, induction and recursion on the natural numbers, stated  *)
(* for sets and functions so that they can be cited: what the proofs about *)
(* loops, sequences and recursive functions rest on.                       *)
(***************************************************************************)
EXTENDS Integers, WellFoundedInduction, TLAPS

\* A set of natural numbers that is not empty has a least element.
LEMMA NatMin ==
    ASSUME NEW T \in SUBSET Nat, T # {}
    PROVE  \E x \in T : \A y \in T : x <= y
<1> DEFINE R == OpToRel(<, Nat)
<1>1. IsWellFoundedOn(R, Nat)
  BY NatLessThanWellFounded
<1>2. \A x, y \in Nat : << x, y >> \in R <=> x < y
  BY DEF OpToRel
<1> HIDE DEF R
<1>3. PICK x \in T : \A y \in T : ~(<< y, x >> \in R)
  BY <1>1, WFMin
<1>4. \A y \in T : ~(y < x)
  BY <1>2, <1>3
<1>5. \A y \in T : x <= y
  BY <1>4
<1> QED
  BY <1>5

\* Induction: a set that holds 0, and n + 1 with n, holds all.
LEMMA SetInduction ==
    ASSUME NEW P, 0 \in P, \A n \in Nat : n \in P => n + 1 \in P
    PROVE  \A n \in Nat : n \in P
<1> SUFFICES ASSUME NEW n \in Nat, n \notin P PROVE FALSE
  OBVIOUS
<1>0. Nat \ P # {}
  OBVIOUS
<1>1. PICK x \in Nat \ P : \A y \in Nat \ P : x <= y
  BY <1>0, NatMin
<1>2. x - 1 \in Nat
  BY <1>1
<1>3. x - 1 \in P
  BY <1>1, <1>2
<1> QED
  BY <1>1, <1>2, <1>3

\* A function that is defined by recursion on 0 .. n exists: it starts with
\* start and goes from k - 1 to k by step[k].
Recursion(f, n, start, step) ==
    f = [k \in 0 .. n |-> IF k = 0 THEN start ELSE step[k][f[k - 1]]]

\* Such a function exists.
LEMMA RecursionExists ==
    ASSUME NEW S, NEW start \in S, NEW n \in Nat, NEW step \in [1 .. n -> [S -> S]]
    PROVE  \E f \in [0 .. n -> S] : Recursion(f, n, start, step)
<1> DEFINE P == {m \in Nat : m <= n => \E f \in [0 .. m -> S] : Recursion(f, m, start, step)}
<1>1. 0 \in P
  <2> DEFINE f == [k \in 0 .. 0 |-> start]
  <2>1. f \in [0 .. 0 -> S] /\ Recursion(f, 0, start, step)
    BY DEF Recursion
  <2> QED
    BY <2>1
<1>2. ASSUME NEW m \in Nat, m \in P PROVE m + 1 \in P
  <2> SUFFICES ASSUME m + 1 <= n
               PROVE  \E f \in [0 .. m + 1 -> S] : Recursion(f, m + 1, start, step)
    OBVIOUS
  <2>1. PICK f \in [0 .. m -> S] : Recursion(f, m, start, step)
    BY <1>2
  <2> DEFINE g == [k \in 0 .. m + 1 |-> IF k \in 0 .. m THEN f[k] ELSE step[m + 1][f[m]]]
  <2>2. step[m + 1][f[m]] \in S
    <3>1. m + 1 \in 1 .. n /\ f[m] \in S
      OBVIOUS
    <3> QED
      BY <3>1
  <2>3. g \in [0 .. m + 1 -> S]
    BY <2>2
  <2>4. \A k \in 0 .. m + 1 : g[k] = IF k = 0 THEN start ELSE step[k][g[k - 1]]
    <3> TAKE k \in 0 .. m + 1
    <3>1. CASE k = m + 1
      <4>1. k # 0 /\ k - 1 = m /\ k \notin 0 .. m /\ m \in 0 .. m /\ m \in 0 .. m + 1
        BY <3>1
      <4> QED
        BY <3>1, <4>1
    <3>2. CASE k # m + 1
      <4>1. k \in 0 .. m
        BY <3>2
      <4>2. f[k] = IF k = 0 THEN start ELSE step[k][f[k - 1]]
        BY <2>1, <4>1 DEF Recursion
      <4>3. k # 0 => k - 1 \in 0 .. m /\ k - 1 \in 0 .. m + 1
        BY <4>1
      <4> QED
        BY <4>1, <4>2, <4>3
    <3> QED
      BY <3>1, <3>2
  <2>5. Recursion(g, m + 1, start, step)
    BY <2>4 DEF Recursion
  <2> QED
    BY <2>3, <2>5
<1> HIDE DEF P
<1>3. \A m \in Nat : m \in P => m + 1 \in P
  BY <1>2
<1>4. \A m \in Nat : m \in P
  BY <1>1, <1>3, SetInduction
<1>5. n \in P
  BY <1>4
<1> QED
  BY <1>5 DEF P

\* Two functions that start alike, and are alike at k when they are at k - 1.
GoOnAlike(f, g, n) ==
    f[0] = g[0] /\ \A k \in 1 .. n : f[k - 1] = g[k - 1] => f[k] = g[k]

\* They are alike up to n.
LEMMA AlikeUpTo ==
    ASSUME NEW n \in Nat, NEW f, NEW g, GoOnAlike(f, g, n)
    PROVE  \A k \in 0 .. n : f[k] = g[k]
<1> DEFINE P == {k \in Nat : k <= n => f[k] = g[k]}
<1>0. f[0] = g[0] /\ \A k \in 1 .. n : f[k - 1] = g[k - 1] => f[k] = g[k]
  BY DEF GoOnAlike
<1>1. 0 \in P
  BY <1>0
<1>2. ASSUME NEW k \in Nat, k \in P PROVE k + 1 \in P
  <2> SUFFICES ASSUME k + 1 <= n PROVE f[k + 1] = g[k + 1]
    OBVIOUS
  <2>1. PICK j \in 1 .. n : j = k + 1 /\ j - 1 = k
    OBVIOUS
  <2>2. f[k] = g[k]
    BY <1>2
  <2>3. f[j] = g[j]
    BY <1>0, <2>1, <2>2
  <2> QED
    BY <2>1, <2>3
<1> HIDE DEF P
<1>3. \A k \in Nat : k \in P
  BY <1>1, <1>2, SetInduction
<1> QED
  BY <1>3 DEF P

====
