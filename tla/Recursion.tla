----------------------------- MODULE Recursion -----------------------------
(***************************************************************************)
(* Recursive functions on the natural numbers, loops, and induction.       *)
(* Step is the recursive case of a definition                              *)
(*   f[n \in Nat] == IF n = 0 THEN base ELSE Step(p, f[n - 1], n)          *)
(* whose parameters are p and base, or the body of a loop over a sequence, *)
(* written as FoldLeft, that refers to p.                                  *)
(*                                                                         *)
(* The module is instantiated once for each of them.  It takes the         *)
(* one fact about numbers that it rests on, WellOrdered, as a hypothesis,  *)
(* which the module that instantiates it proves once.                      *)
(***************************************************************************)
EXTENDS Naturals

CONSTANTS
  Step(_, _, _),
  Holds(_, _, _)   \* Holds(p, k, r): r is as it should be after k turns of the loop

\* A set of natural numbers that is not empty has a least element.
WellOrdered ==
  \A S \in SUBSET Nat : S # {} => \E m \in S : \A y \in S : m <= y

(* Induction, for a set T in place of a predicate.                         *)
LEMMA Induction ==
  ASSUME WellOrdered, NEW T, 0 \in T, \A n \in Nat : n \in T => n + 1 \in T
  PROVE  \A n \in Nat : n \in T
<1> DEFINE C == Nat \ T
<1> SUFFICES ASSUME C # {} PROVE FALSE
  OBVIOUS
<1>1. PICK m \in C : \A y \in C : m <= y
  BY DEF WellOrdered
<1>2. m \in Nat /\ m # 0 /\ m \notin T
  BY <1>1
<1>3. m - 1 \in Nat /\ ~(m <= m - 1) /\ (m - 1) + 1 = m
  BY <1>2
<1>4. m - 1 \notin C
  BY <1>1, <1>3
<1> QED
  BY <1>2, <1>3, <1>4

(* The first n + 1 values.                                                 *)
Begins(g, n, p, base) ==
  g = [i \in 0 .. n |-> IF i = 0 THEN base ELSE Step(p, g[i - 1], i)]

(* Any number of values can be computed.                                   *)
LEMMA BeginsExists ==
  ASSUME WellOrdered, NEW p, NEW base
  PROVE  \A n \in Nat : \E g : Begins(g, n, p, base)
<1> DEFINE T == {n \in Nat : \E g : Begins(g, n, p, base)}
<1>1. 0 \in T
  <2>1. Begins([i \in 0 .. 0 |-> base], 0, p, base)
    BY DEF Begins
  <2> QED BY <2>1
<1>2. ASSUME NEW n \in Nat, n \in T PROVE n + 1 \in T
  <2>1. PICK g : Begins(g, n, p, base)
    BY <1>2
  <2> DEFINE h == [i \in 0 .. n + 1 |-> IF i = n + 1 THEN Step(p, g[n], n + 1) ELSE g[i]]
  <2>2. ASSUME NEW i \in 0 .. n + 1
        PROVE  h[i] = IF i = 0 THEN base ELSE Step(p, h[i - 1], i)
    <3>1. CASE i = 0
      BY <2>1, <3>1 DEF Begins
    <3>2. CASE i \in 1 .. n
      <4>1. h[i] = g[i] /\ h[i - 1] = g[i - 1] /\ i \in 0 .. n /\ i # 0
        BY <3>2
      <4>2. g[i] = Step(p, g[i - 1], i)
        BY <2>1, <4>1 DEF Begins
      <4> HIDE DEF h
      <4> QED BY <4>1, <4>2
    <3>3. CASE i = n + 1
      <4>1. h[i] = Step(p, g[n], n + 1) /\ h[i - 1] = g[n] /\ i # 0
        BY <3>3
      <4> HIDE DEF h
      <4> QED BY <3>3, <4>1
    <3> QED BY <3>1, <3>2, <3>3
  <2>3. h = [i \in 0 .. n + 1 |-> h[i]]
    OBVIOUS
  <2> HIDE DEF h
  <2>4. Begins(h, n + 1, p, base)
    BY <2>2, <2>3 DEF Begins
  <2> QED BY <2>4
<1> HIDE DEF T
<1>3. \A n \in Nat : n \in T
  BY <1>1, <1>2, Induction
<1> QED BY <1>3 DEF T

(* Two computations agree as far as both go.                               *)
LEMMA BeginsUnique ==
  ASSUME WellOrdered, NEW p, NEW base, NEW m \in Nat, NEW n \in Nat, NEW g, NEW h,
         Begins(g, m, p, base), Begins(h, n, p, base)
  PROVE  \A i \in Nat : i <= m /\ i <= n => g[i] = h[i]
<1> DEFINE T == {i \in Nat : i <= m /\ i <= n => g[i] = h[i]}
<1>1. 0 \in T
  BY DEF Begins
<1>2. ASSUME NEW i \in Nat, i \in T PROVE i + 1 \in T
  <2> SUFFICES ASSUME i + 1 <= m, i + 1 <= n PROVE g[i + 1] = h[i + 1]
    OBVIOUS
  <2>1. i + 1 \in 0 .. m /\ i + 1 \in 0 .. n /\ i + 1 # 0 /\ (i + 1) - 1 = i
    OBVIOUS
  <2>2. g[i] = h[i]
    BY <1>2
  <2>3. g[i + 1] = Step(p, g[i], i + 1) /\ h[i + 1] = Step(p, h[i], i + 1)
    BY <2>1 DEF Begins
  <2> QED BY <2>2, <2>3
<1> HIDE DEF T
<1>3. \A i \in Nat : i \in T
  BY <1>1, <1>2, Induction
<1> QED BY <1>3 DEF T

\* The definition as an equation for f.
IsRecursive(f, p, base) ==
  f = [n \in Nat |-> IF n = 0 THEN base ELSE Step(p, f[n - 1], n)]

(* A function defined by recursion on the natural numbers exists.          *)
THEOREM RecursionExists ==
  WellOrdered => \A p, base : \E f : IsRecursive(f, p, base)
<1> SUFFICES ASSUME WellOrdered, NEW p, NEW base PROVE \E f : IsRecursive(f, p, base)
  OBVIOUS
<1> DEFINE G(n) == CHOOSE g : Begins(g, n, p, base)
           f    == [n \in Nat |-> G(n)[n]]
<1>1. \A n \in Nat : Begins(G(n), n, p, base)
  BY BeginsExists
<1>2. ASSUME NEW n \in Nat
      PROVE  f[n] = IF n = 0 THEN base ELSE Step(p, f[n - 1], n)
  <2>1. f[n] = G(n)[n]
    OBVIOUS
  <2>2. CASE n = 0
    <3> HIDE DEF G
    <3> QED BY <1>1, <2>1, <2>2 DEF Begins
  <2>3. CASE n # 0
    <3>1. n - 1 \in Nat /\ n - 1 <= n /\ n - 1 <= n - 1 /\ n \in 0 .. n
      BY <2>3
    <3>2. f[n - 1] = G(n - 1)[n - 1]
      BY <3>1
    <3> HIDE DEF G, f
    <3>3. G(n)[n - 1] = G(n - 1)[n - 1]
      BY <1>1, <3>1, BeginsUnique
    <3>4. G(n)[n] = Step(p, G(n)[n - 1], n)
      BY <1>1, <2>3, <3>1 DEF Begins
    <3> QED BY <2>1, <2>3, <3>2, <3>3, <3>4
  <2> QED BY <2>2, <2>3
<1>3. f = [n \in Nat |-> f[n]]
  OBVIOUS
<1> HIDE DEF f
<1>4. IsRecursive(f, p, base)
  BY <1>2, <1>3 DEF IsRecursive
<1> QED BY <1>4

-----------------------------------------------------------------------------
(* Folds.  FoldLeft of the community modules is a recursive function on    *)
(* the sets of positions, which takes the largest position away; its value *)
(* for 1 .. k is what a loop has computed after k elements.                *)

Largest(s) == CHOOSE x \in s : \A y \in s : x >= y

\* FoldLeft of Step(p, _, _), written out.
Fold(p, base, seq) ==
  LET g[s \in SUBSET DOMAIN seq] ==
        IF s = {} THEN base ELSE LET x == Largest(s) IN Step(p, g[s \ {x}], seq[x])
  IN  g[DOMAIN seq]

\* The recursive function for the first n elements of seq.
IsFold(g, n, p, base, seq) ==
  g = [s \in SUBSET (1 .. n) |->
         IF s = {} THEN base ELSE Step(p, g[s \ {Largest(s)}], seq[Largest(s)])]

(* The last of the positions 1 .. n + 1.                                   *)
LEMMA LargestIsLast ==
  ASSUME NEW n \in Nat, NEW s \in SUBSET (1 .. n + 1), n + 1 \in s
  PROVE  Largest(s) = n + 1
<1>1. \A y \in s : n + 1 >= y
  OBVIOUS
<1>2. \A x \in s : (\A y \in s : x >= y) => x = n + 1
  OBVIOUS
<1> QED
  BY <1>1, <1>2 DEF Largest

(* A fold exists.                                                          *)
THEOREM FoldExists ==
  WellOrdered => \A p, base, seq : \A n \in Nat : \E g : IsFold(g, n, p, base, seq)
<1> SUFFICES ASSUME WellOrdered, NEW p, NEW base, NEW seq
             PROVE  \A n \in Nat : \E g : IsFold(g, n, p, base, seq)
  OBVIOUS
<1> DEFINE T == {n \in Nat : \E g : IsFold(g, n, p, base, seq)}
<1>1. 0 \in T
  <2> DEFINE h == [s \in SUBSET (1 .. 0) |-> base]
  <2>1. \A s \in SUBSET (1 .. 0) : s = {}
    OBVIOUS
  <2>2. IsFold(h, 0, p, base, seq)
    BY <2>1 DEF IsFold
  <2> QED
    BY <2>2
<1>2. ASSUME NEW n \in Nat, n \in T PROVE n + 1 \in T
  <2>1. PICK g : IsFold(g, n, p, base, seq)
    BY <1>2
  <2> DEFINE Body(f, s) == IF s = {} THEN base
                           ELSE Step(p, f[s \ {Largest(s)}], seq[Largest(s)])
             h == [s \in SUBSET (1 .. n + 1) |->
                     IF n + 1 \in s THEN Step(p, g[s \ {n + 1}], seq[n + 1]) ELSE g[s]]
  <2>2. ASSUME NEW s \in SUBSET (1 .. n), s # {} PROVE g[s] = Body(g, s)
    BY <2>1, <2>2 DEF IsFold
  <2>3. g[{}] = base
    BY <2>1 DEF IsFold
  <2>4. \A s \in SUBSET (1 .. n) : h[s] = g[s]
    OBVIOUS
  <2>5. ASSUME NEW s \in SUBSET (1 .. n + 1) PROVE h[s] = Body(h, s)
    <3>1. CASE n + 1 \in s
      <4>1. Largest(s) = n + 1 /\ s # {} /\ s \ {n + 1} \in SUBSET (1 .. n)
        BY <3>1, LargestIsLast
      <4>2. h[s] = Step(p, g[s \ {n + 1}], seq[n + 1])
        BY <3>1
      <4>3. h[s \ {n + 1}] = g[s \ {n + 1}]
        BY <2>4, <4>1
      <4> HIDE DEF h
      <4> QED
        BY <4>1, <4>2, <4>3
    <3>2. CASE n + 1 \notin s
      <4>1. s \in SUBSET (1 .. n)
        BY <3>2
      <4> DEFINE rest == s \ {Largest(s)}
      <4> HIDE DEF h
      <4>2. rest \in SUBSET (1 .. n)
        BY <4>1
      <4> HIDE DEF rest
      <4>3. h[s] = g[s] /\ h[rest] = g[rest]
        BY <2>4, <4>1, <4>2
      <4> QED
        BY <2>2, <2>3, <4>1, <4>3 DEF rest
    <3> QED
      BY <3>1, <3>2
  <2>6. h = [s \in SUBSET (1 .. n + 1) |-> h[s]]
    OBVIOUS
  <2> HIDE DEF h
  <2>7. IsFold(h, n + 1, p, base, seq)
    BY <2>5, <2>6 DEF IsFold
  <2> QED
    BY <2>7
<1> HIDE DEF T
<1>3. \A n \in Nat : n \in T
  BY <1>1, <1>2, Induction
<1> QED
  BY <1>3 DEF T

(* It is computed one element after the other.                             *)
THEOREM FoldUnfolds ==
  \A g, p, base, seq : \A n \in Nat : IsFold(g, n, p, base, seq) =>
    /\ g[{}] = base
    /\ \A k \in 1 .. n : g[1 .. k] = Step(p, g[1 .. (k - 1)], seq[k])
<1> SUFFICES ASSUME NEW g, NEW p, NEW base, NEW seq, NEW n \in Nat,
                    IsFold(g, n, p, base, seq)
             PROVE  /\ g[{}] = base
                    /\ \A k \in 1 .. n : g[1 .. k] = Step(p, g[1 .. (k - 1)], seq[k])
  OBVIOUS
<1>1. g[{}] = base
  BY DEF IsFold
<1>2. ASSUME NEW k \in 1 .. n PROVE g[1 .. k] = Step(p, g[1 .. (k - 1)], seq[k])
  <2> DEFINE s == 1 .. k
  <2>1. k - 1 \in Nat /\ (k - 1) + 1 = k /\ k \in s /\ s # {}
    OBVIOUS
  <2>2. s \in SUBSET (1 .. n) /\ s \ {k} = 1 .. (k - 1)
    OBVIOUS
  <2>3. Largest(s) = k
    <3> DEFINE m == k - 1
    <3>1. m \in Nat /\ m + 1 = k /\ s \in SUBSET (1 .. m + 1) /\ m + 1 \in s
      BY <2>1
    <3> HIDE DEF m, s
    <3> QED
      BY <3>1, LargestIsLast
  <2> HIDE DEF s
  <2>4. g[s] = Step(p, g[s \ {Largest(s)}], seq[Largest(s)])
    BY <2>1, <2>2 DEF IsFold
  <2> QED
    BY <2>2, <2>3, <2>4 DEF s
<1> QED
  BY <1>1, <1>2

(* An invariant of the loop holds at its end.                              *)
THEOREM FoldKeeps ==
  ASSUME WellOrdered, NEW p, NEW base, NEW seq, NEW n \in Nat, DOMAIN seq = 1 .. n,
         Holds(p, 0, base),
         \A r : \A k \in 1 .. n : Holds(p, k - 1, r) => Holds(p, k, Step(p, r, seq[k]))
  PROVE  Holds(p, n, Fold(p, base, seq))
<1> DEFINE F(g) == g = [s \in SUBSET DOMAIN seq |->
                          IF s = {} THEN base
                          ELSE LET x == Largest(s) IN Step(p, g[s \ {x}], seq[x])]
           g == CHOOSE f : F(f)
<1>1. \E f : F(f)
  <2>1. PICK f : IsFold(f, n, p, base, seq)
    BY FoldExists
  <2>2. F(f)
    BY <2>1 DEF IsFold
  <2> QED
    BY <2>2
<1>2. F(g)
  BY <1>1
<1>3. Fold(p, base, seq) = g[1 .. n]
  BY DEF Fold
<1>4. IsFold(g, n, p, base, seq)
  BY <1>2 DEF IsFold
<1> HIDE DEF g
<1>5. /\ g[{}] = base
      /\ \A k \in 1 .. n : g[1 .. k] = Step(p, g[1 .. (k - 1)], seq[k])
  BY <1>4, FoldUnfolds
<1> DEFINE T == {k \in Nat : k <= n => Holds(p, k, g[1 .. k])}
<1>6. 0 \in T
  <2>1. 1 .. 0 = {}
    OBVIOUS
  <2> QED
    BY <1>5, <2>1
<1>7. ASSUME NEW k \in Nat, k \in T PROVE k + 1 \in T
  <2> SUFFICES ASSUME k + 1 <= n PROVE Holds(p, k + 1, g[1 .. (k + 1)])
    OBVIOUS
  <2>1. k + 1 \in 1 .. n /\ (k + 1) - 1 = k /\ Holds(p, k, g[1 .. k])
    BY <1>7
  <2>2. g[1 .. (k + 1)] = Step(p, g[1 .. k], seq[k + 1])
    BY <1>5, <2>1
  <2> QED
    BY <2>1, <2>2
<1>8. \A k \in Nat : k \in T
  <2> HIDE DEF T
  <2> QED
    BY <1>6, <1>7, Induction
<1> QED
  BY <1>3, <1>8
=============================================================================
