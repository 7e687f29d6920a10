----------------------- MODULE NetworkInterfaceProofs -----------------------
(***************************************************************************)
(* The address cache, the queue of datagrams and the pauses between ARP    *)
(* requests are right for any set of stations, any two times with          *)
(* ARP_REQ_TIME <= CACHE_VALID_TIME, any durations between two calls of    *)
(* tick() and any number of datagrams.                                     *)
(***************************************************************************)
EXTENDS NetworkInterfaceSpec, SequenceTheorems, WellFoundedInduction, TLAPS

-----------------------------------------------------------------------------
(* What selected() returns.                                                *)

\* Its recursive case, for the sequence p[1] and the set p[2].
SelectStep(p, kept, i) == IF p[1][i] \in p[2] THEN Append(kept, p[1][i]) ELSE kept

\* No invariant of a loop is used.
Anything(p, i, kept) == TRUE

Selections == INSTANCE Recursion WITH Step <- SelectStep, Holds <- Anything

(* A set of natural numbers that is not empty has a least element.         *)
LEMMA NatWellOrdered == Selections!WellOrdered
<1> SUFFICES ASSUME NEW S \in SUBSET Nat, S # {}
             PROVE  \E m \in S : \A y \in S : m <= y
  BY DEF Selections!WellOrdered
<1> DEFINE R == {p \in Nat \X Nat : p[1] < p[2]}
<1>1. IsWellFoundedOn(R, Nat)
  BY NatLessThanWellFounded DEF OpToRel
<1>2. PICK m \in S : \A y \in S : ~(<<y, m>> \in R)
  <2> HIDE DEF R
  <2> QED
    BY <1>1, WFMin, Zenon
<1>3. ASSUME NEW y \in S PROVE m <= y
  <2>1. m \in Nat /\ y \in Nat /\ ~(y < m)
    BY <1>2
  <2> QED
    BY <2>1
<1> QED
  BY <1>3

(* Induction, with a set in place of a predicate.                          *)
LEMMA Induction ==
  ASSUME NEW T, 0 \in T, \A n \in Nat : n \in T => n + 1 \in T
  PROVE  \A n \in Nat : n \in T
  BY NatWellOrdered, Selections!Induction

\* What the loop has selected after i elements.
Kept(s, S, n) ==
  LET kept[i \in Nat] ==
        IF i = 0 THEN << >>
        ELSE IF s[i] \in S THEN Append(kept[i - 1], s[i]) ELSE kept[i - 1]
  IN  kept[n]

(* One more element.                                                       *)
LEMMA KeptUnfold ==
  ASSUME NEW s, NEW S
  PROVE  /\ Kept(s, S, 0) = << >>
         /\ \A n \in Nat :
              /\ s[n + 1] \in S => Kept(s, S, n + 1) = Append(Kept(s, S, n), s[n + 1])
              /\ s[n + 1] \notin S => Kept(s, S, n + 1) = Kept(s, S, n)
<1> DEFINE F(f) == f = [i \in Nat |->
                          IF i = 0 THEN << >>
                          ELSE IF s[i] \in S THEN Append(f[i - 1], s[i]) ELSE f[i - 1]]
           kept == CHOOSE f : F(f)
<1>1. \E f : F(f)
  <2>1. PICK f : Selections!IsRecursive(f, <<s, S>>, << >>)
    BY NatWellOrdered, Selections!RecursionExists
  <2>2. F(f)
    BY <2>1 DEF Selections!IsRecursive, SelectStep
  <2> QED
    BY <2>2
<1>2. F(kept)
  BY <1>1, Zenon
<1>3. \A n \in Nat : Kept(s, S, n) = kept[n]
  BY DEF Kept
<1> HIDE DEF kept
<1>4. kept[0] = << >>
  BY <1>2
<1>5. ASSUME NEW n \in Nat
      PROVE  /\ s[n + 1] \in S => kept[n + 1] = Append(kept[n], s[n + 1])
             /\ s[n + 1] \notin S => kept[n + 1] = kept[n]
  <2>1. n + 1 \in Nat /\ n + 1 # 0 /\ (n + 1) - 1 = n
    OBVIOUS
  <2> QED
    BY <1>2, <2>1
<1>6. 0 \in Nat /\ \A n \in Nat : n + 1 \in Nat
  OBVIOUS
<1> QED
  BY <1>3, <1>4, <1>5, <1>6, Zenon

(* The whole loop.                                                         *)
LEMMA SelectedIsKept ==
  ASSUME NEW s, NEW S
  PROVE  selected(s, S) = Kept(s, S, Len(s))
  BY DEF selected, Kept

Associate(s, t, u) == (s \o t) \o u = s \o (t \o u)

(* Concatenation is associative.                                           *)
LEMMA Associates ==
  ASSUME NEW E, NEW s \in Seq(E), NEW t \in Seq(E), NEW u \in Seq(E)
  PROVE  Associate(s, t, u)
  BY ConcatAssociative DEF Associate

(* A sequence is one of its own elements.                                  *)
LEMMA OwnElements ==
  ASSUME NEW E, NEW s \in Seq(E)
  PROVE  s \in Seq({s[i] : i \in DOMAIN s}) /\ {s[i] : i \in DOMAIN s} \subseteq E
  OBVIOUS

(* What is selected is a sequence of elements of S.                        *)
LEMMA KeptType ==
  ASSUME NEW E, NEW s \in Seq(E), NEW S
  PROVE  \A n \in 0 .. Len(s) : Kept(s, S, n) \in Seq(E \cap S)
<1> DEFINE T == {n \in Nat : n <= Len(s) => Kept(s, S, n) \in Seq(E \cap S)}
<1>1. 0 \in T
  <2>1. Kept(s, S, 0) = << >>
    BY KeptUnfold, Zenon
  <2>2. << >> \in Seq(E \cap S)
    OBVIOUS
  <2>3. Kept(s, S, 0) \in Seq(E \cap S)
    BY <2>1, <2>2, Zenon
  <2> QED
    BY <2>3
<1>2. ASSUME NEW n \in Nat, n \in T PROVE n + 1 \in T
  <2> DEFINE k == Kept(s, S, n)
             e == s[n + 1]
             d == Kept(s, S, n + 1)
  <2> SUFFICES ASSUME n + 1 <= Len(s) PROVE d \in Seq(E \cap S)
    OBVIOUS
  <2>1. e \in E /\ k \in Seq(E \cap S)
    BY <1>2
  <2>2. (e \in S => d = Append(k, e)) /\ (e \notin S => d = k)
    BY KeptUnfold, Zenon
  <2> HIDE DEF k, e, d
  <2> DEFINE F == E \cap S
  <2>3. e \in S => e \in F
    BY <2>1
  <2>4. k \in Seq(F)
    BY <2>1
  <2> HIDE DEF F
  <2>5. d \in Seq(F)
    BY <2>2, <2>3, <2>4
  <2> QED
    BY <2>5 DEF F
<1>3. \A n \in Nat : n \in T
  <2> HIDE DEF T
  <2> QED
    BY <1>1, <1>2, Induction, Zenon
<1> QED
  BY <1>3

\* The first m elements are the same, and selected by both sets or neither.
Alike(s, S, t, R, m) ==
  \A i \in 1 .. m : s[i] = t[i] /\ (s[i] \in S <=> t[i] \in R)

(* Only the elements decide, and only those the loop has come to.          *)
LEMMA KeptAgrees ==
  ASSUME NEW s, NEW S, NEW t, NEW R, NEW m \in Nat, Alike(s, S, t, R, m)
  PROVE  Kept(s, S, m) = Kept(t, R, m)
<1> DEFINE T == {n \in Nat : n <= m => Kept(s, S, n) = Kept(t, R, n)}
<1>1. 0 \in T
  BY KeptUnfold
<1>2. ASSUME NEW n \in Nat, n \in T PROVE n + 1 \in T
  <2> SUFFICES ASSUME n + 1 <= m PROVE Kept(s, S, n + 1) = Kept(t, R, n + 1)
    OBVIOUS
  <2>1. s[n + 1] = t[n + 1] /\ (s[n + 1] \in S <=> t[n + 1] \in R)
    BY DEF Alike
  <2>2. Kept(s, S, n) = Kept(t, R, n)
    BY <1>2
  <2>3. /\ s[n + 1] \in S => Kept(s, S, n + 1) = Append(Kept(s, S, n), s[n + 1])
        /\ s[n + 1] \notin S => Kept(s, S, n + 1) = Kept(s, S, n)
    BY KeptUnfold, Zenon
  <2>4. /\ t[n + 1] \in R => Kept(t, R, n + 1) = Append(Kept(t, R, n), t[n + 1])
        /\ t[n + 1] \notin R => Kept(t, R, n + 1) = Kept(t, R, n)
    BY KeptUnfold, Zenon
  <2> QED
    BY <2>1, <2>2, <2>3, <2>4, Zenon
<1>3. \A n \in Nat : n \in T
  <2> HIDE DEF T
  <2> QED
    BY <1>1, <1>2, Induction, Zenon
<1> QED
  BY <1>3

(* Elements that are alike for both sets are selected by both or neither.  *)
LEMMA SelectedAgrees ==
  ASSUME NEW E, NEW s \in Seq(E), NEW S, NEW R, \A e \in E : e \in S <=> e \in R
  PROVE  selected(s, S) = selected(s, R)
<1>1. Len(s) \in Nat /\ Alike(s, S, s, R, Len(s))
  BY DEF Alike
<1> QED
  BY <1>1, KeptAgrees, SelectedIsKept

(* The type of a selection.                                                *)
LEMMA SelectedType ==
  ASSUME NEW E, NEW s \in Seq(E), NEW S
  PROVE  selected(s, S) \in Seq(E \cap S)
<1>1. Len(s) \in 0 .. Len(s)
  OBVIOUS
<1> QED
  BY <1>1, KeptType, SelectedIsKept, Zenon

(* An element is added at the end.                                         *)
LEMMA SelectedAppend ==
  ASSUME NEW E, NEW s \in Seq(E), NEW S, NEW e
  PROVE  selected(Append(s, e), S) =
           IF e \in S THEN Append(selected(s, S), e) ELSE selected(s, S)
<1> DEFINE t == Append(s, e)
<1>1. /\ Len(s) \in Nat
      /\ Len(t) = Len(s) + 1
      /\ \A i \in 1 .. Len(s) : t[i] = s[i]
      /\ t[Len(s) + 1] = e
  OBVIOUS
<1> HIDE DEF t
<1>2. Kept(t, S, Len(s)) = Kept(s, S, Len(s))
  <2>1. Alike(t, S, s, S, Len(s))
    BY <1>1 DEF Alike
  <2> QED
    BY <1>1, <2>1, KeptAgrees
<1>3. /\ t[Len(s) + 1] \in S =>
           Kept(t, S, Len(s) + 1) = Append(Kept(t, S, Len(s)), t[Len(s) + 1])
      /\ t[Len(s) + 1] \notin S => Kept(t, S, Len(s) + 1) = Kept(t, S, Len(s))
  BY <1>1, KeptUnfold, Zenon
<1>4. selected(t, S) = Kept(t, S, Len(s) + 1) /\ selected(s, S) = Kept(s, S, Len(s))
  BY <1>1, SelectedIsKept, Zenon
<1> QED
  BY <1>1, <1>2, <1>3, <1>4, Zenon DEF t

(* Nothing is selected from nothing.                                       *)
LEMMA SelectedEmpty ==
  ASSUME NEW S
  PROVE  selected(<< >>, S) = << >>
<1>1. Len(<< >>) = 0
  OBVIOUS
<1> QED
  BY <1>1, SelectedIsKept, KeptUnfold, Zenon

(* The selections from two sequences follow each other.                    *)
LEMMA SelectedConcat ==
  ASSUME NEW E, NEW a \in Seq(E), NEW b \in Seq(E), NEW S
  PROVE  selected(a \o b, S) = selected(a, S) \o selected(b, S)
<1> DEFINE c == a \o b
           la == Len(a)
           lb == Len(b)
           F == E \cap S
           k == Kept(a, S, la)
<1>1. /\ c \in Seq(E) /\ la \in Nat /\ lb \in Nat /\ Len(c) = la + lb
      /\ \A i \in 1 .. la : c[i] = a[i]
      /\ \A i \in 1 .. lb : c[la + i] = b[i]
  OBVIOUS
<1>2. k \in Seq(F) /\ \A n \in 0 .. lb : Kept(b, S, n) \in Seq(F)
  <2>1. la \in 0 .. la
    BY <1>1
  <2> QED
    BY <2>1, KeptType, Zenon
<1> HIDE DEF c, F
<1>3. Kept(c, S, la) = k
  <2>1. Alike(c, S, a, S, la)
    BY <1>1 DEF Alike
  <2> QED
    BY <1>1, <2>1, KeptAgrees
<1> HIDE DEF la, lb, k
<1> DEFINE T == {n \in Nat : n <= lb => Kept(c, S, la + n) = k \o Kept(b, S, n)}
<1>4. 0 \in T
  <2>1. Kept(b, S, 0) = << >>
    BY KeptUnfold, Zenon
  <2>2. k \o << >> = k
    BY <1>2
  <2>3. la + 0 = la
    BY <1>1
  <2>4. Kept(c, S, la + 0) = k \o Kept(b, S, 0)
    BY <1>3, <2>1, <2>2, <2>3, Zenon
  <2> QED
    BY <2>4
<1>5. ASSUME NEW n \in Nat, n \in T PROVE n + 1 \in T
  <2> DEFINE kb == Kept(b, S, n)
             kc == Kept(c, S, la + n)
             x  == b[n + 1]
  <2> SUFFICES ASSUME n + 1 <= lb
               PROVE  Kept(c, S, la + (n + 1)) = k \o Kept(b, S, n + 1)
    OBVIOUS
  <2>1. kc = k \o kb
    BY <1>1, <1>5
  <2>2. la + n \in Nat /\ la + (n + 1) = (la + n) + 1 /\ c[(la + n) + 1] = x
    <3>1. la + n \in Nat /\ la + (n + 1) = (la + n) + 1 /\ n + 1 \in 1 .. lb
      BY <1>1
    <3>2. c[la + (n + 1)] = x
      BY <1>1, <3>1
    <3> QED
      BY <3>1, <3>2
  <2>3. kb \in Seq(F)
    BY <1>1, <1>2
  <2>4. /\ x \in S => Kept(b, S, n + 1) = Append(kb, x)
        /\ x \notin S => Kept(b, S, n + 1) = kb
    BY KeptUnfold, Zenon
  <2>5. /\ x \in S => Kept(c, S, (la + n) + 1) = Append(kc, x)
        /\ x \notin S => Kept(c, S, (la + n) + 1) = kc
    <3> DEFINE d == la + n
               y == c[d + 1]
    <3> HIDE DEF d
    <3>1. d \in Nat
      BY <2>2 DEF d
    <3>2. /\ y \in S => Kept(c, S, d + 1) = Append(Kept(c, S, d), y)
          /\ y \notin S => Kept(c, S, d + 1) = Kept(c, S, d)
      BY <3>1, KeptUnfold, Zenon
    <3>3. y = x
      BY <2>2 DEF d
    <3> HIDE DEF x, y
    <3>4. /\ x \in S => Kept(c, S, d + 1) = Append(Kept(c, S, d), x)
          /\ x \notin S => Kept(c, S, d + 1) = Kept(c, S, d)
      BY <3>2, <3>3, Zenon
    <3> QED
      BY <3>4, Zenon DEF d
  <2>6. b[n + 1] \in E
    BY <1>1 DEF lb
  <2>7. x \in S => x \in F
    BY <2>6 DEF F
  <2> HIDE DEF kb, kc, x
  <2>8. ASSUME x \in F PROVE Append(k \o kb, x) = k \o Append(kb, x)
    <3> DEFINE y == <<x>>
    <3>1. k \in Seq(F) /\ y \in Seq(F) /\ k \o kb \in Seq(F)
      BY <1>2, <2>3, <2>8
    <3>2. Append(k \o kb, x) = (k \o kb) \o y /\ Append(kb, x) = kb \o y
      BY <2>3, <2>8, <3>1, AppendIsConcat
    <3> HIDE DEF y
    <3>3. Associate(k, kb, y)
      BY <2>3, <3>1, Associates, Zenon
    <3> QED
      BY <3>2, <3>3, Zenon DEF Associate
  <2> QED
    BY <2>1, <2>2, <2>4, <2>5, <2>7, <2>8, Zenon
<1>6. lb \in T
  <2> HIDE DEF T
  <2> QED
    BY <1>1, <1>4, <1>5, Induction, Zenon
<1>7. Kept(c, S, la + lb) = k \o Kept(b, S, lb)
  BY <1>1, <1>6
<1> QED
  BY <1>1, <1>7, SelectedIsKept, Zenon DEF c, k, la, lb

(* All is selected when all of it is in the set.                           *)
LEMMA SelectedAll ==
  ASSUME NEW E, NEW s \in Seq(E), NEW S, \A e \in E : e \in S
  PROVE  selected(s, S) = s
<1> DEFINE T == {n \in Nat : n <= Len(s) => Kept(s, S, n) = SubSeq(s, 1, n)}
<1>1. 0 \in T
  <2>1. Kept(s, S, 0) = << >>
    BY KeptUnfold, Zenon
  <2>2. SubSeq(s, 1, 0) = << >>
    OBVIOUS
  <2>3. Kept(s, S, 0) = SubSeq(s, 1, 0)
    BY <2>1, <2>2, Zenon
  <2> QED
    BY <2>3
<1>2. ASSUME NEW n \in Nat, n \in T PROVE n + 1 \in T
  <2> SUFFICES ASSUME n + 1 <= Len(s)
               PROVE  Kept(s, S, n + 1) = SubSeq(s, 1, n + 1)
    OBVIOUS
  <2>1. Kept(s, S, n) = SubSeq(s, 1, n)
    BY <1>2
  <2>2. s[n + 1] \in S
    OBVIOUS
  <2>3. Kept(s, S, n + 1) = Append(Kept(s, S, n), s[n + 1])
    BY <2>2, KeptUnfold, Zenon
  <2>4. SubSeq(s, 1, n + 1) = Append(SubSeq(s, 1, n), s[n + 1])
    OBVIOUS
  <2> QED
    BY <2>1, <2>3, <2>4, Zenon
<1>3. Len(s) \in T
  <2>1. Len(s) \in Nat
    OBVIOUS
  <2> HIDE DEF T
  <2> QED
    BY <1>1, <1>2, <2>1, Induction, Zenon
<1>4. Kept(s, S, Len(s)) = SubSeq(s, 1, Len(s))
  BY <1>3
<1>5. SubSeq(s, 1, Len(s)) = s
  OBVIOUS
<1> QED
  BY <1>4, <1>5, SelectedIsKept, Zenon

(* Nothing is selected when nothing of it is in the set.                   *)
LEMMA SelectedNone ==
  ASSUME NEW E, NEW s \in Seq(E), NEW S, \A e \in E : e \notin S
  PROVE  selected(s, S) = << >>
<1> DEFINE F == E \cap S
<1>1. selected(s, S) \in Seq(F)
  BY SelectedType
<1>2. F = {}
  OBVIOUS
<1> HIDE DEF F
<1> QED
  BY <1>1, <1>2

(* Selecting fewer from a selection is selecting fewer.                    *)
LEMMA SelectedTwice ==
  ASSUME NEW E, NEW s \in Seq(E), NEW S, NEW T, \A e \in E : e \in T => e \in S
  PROVE  selected(selected(s, S), T) = selected(s, T)
<1> DEFINE F == E \cap S
           L == Len(s)
           P == {n \in Nat : n <= L => selected(Kept(s, S, n), T) = Kept(s, T, n)}
<1>1. L \in Nat /\ \A i \in 1 .. L : s[i] \in E
  OBVIOUS
<1>2. \A n \in 0 .. L : Kept(s, S, n) \in Seq(F)
  BY KeptType, Zenon
<1> HIDE DEF F, L
<1>3. 0 \in P
  <2>1. selected(Kept(s, S, 0), T) = Kept(s, T, 0)
    BY KeptUnfold, SelectedEmpty, Zenon
  <2> QED
    BY <2>1
<1>4. ASSUME NEW n \in Nat, n \in P PROVE n + 1 \in P
  <2> DEFINE k == Kept(s, S, n)
             x == s[n + 1]
  <2> SUFFICES ASSUME n + 1 <= L
               PROVE  selected(Kept(s, S, n + 1), T) = Kept(s, T, n + 1)
    OBVIOUS
  <2>1. selected(k, T) = Kept(s, T, n)
    BY <1>1, <1>4
  <2>2. k \in Seq(F)
    BY <1>1, <1>2
  <2>3. x \in T => x \in S
    BY <1>1
  <2>4. /\ x \in S => Kept(s, S, n + 1) = Append(k, x)
        /\ x \notin S => Kept(s, S, n + 1) = k
        /\ x \in T => Kept(s, T, n + 1) = Append(Kept(s, T, n), x)
        /\ x \notin T => Kept(s, T, n + 1) = Kept(s, T, n)
    BY KeptUnfold, Zenon
  <2> HIDE DEF k, x
  <2>5. /\ x \in T => selected(Append(k, x), T) = Append(selected(k, T), x)
        /\ x \notin T => selected(Append(k, x), T) = selected(k, T)
    BY <2>2, SelectedAppend
  <2> QED
    BY <2>1, <2>3, <2>4, <2>5, Zenon
<1>5. L \in P
  <2> HIDE DEF P
  <2> QED
    BY <1>1, <1>3, <1>4, Induction, Zenon
<1> QED
  BY <1>1, <1>5, SelectedIsKept DEF L

\* The datagrams of the entries of a queue.
Dgrams(queue) == [i \in DOMAIN queue |-> queue[i].dgram]

(* An entry at the end of a queue is a datagram at the end.                *)
LEMMA DgramsAppend ==
  ASSUME NEW E, NEW queue \in Seq(E), NEW e
  PROVE  Dgrams(Append(queue, e)) = Append(Dgrams(queue), e.dgram)
<1> DEFINE G == {queue[i].dgram : i \in DOMAIN queue}
           d == Dgrams(queue)
           a == Append(queue, e)
<1>1. /\ Len(queue) \in Nat
      /\ DOMAIN queue = 1 .. Len(queue)
      /\ Len(a) = Len(queue) + 1 /\ DOMAIN a = 1 .. Len(queue) + 1
      /\ \A i \in 1 .. Len(queue) : a[i] = queue[i]
      /\ a[Len(queue) + 1] = e
  OBVIOUS
<1>2. d \in Seq(G) /\ Len(d) = Len(queue) /\ \A i \in 1 .. Len(queue) : d[i] = queue[i].dgram
  BY <1>1 DEF Dgrams
<1> HIDE DEF G, d, a
<1> DEFINE b == Append(d, e.dgram)
<1>3. /\ b = [i \in 1 .. Len(queue) + 1 |-> b[i]]
      /\ \A i \in 1 .. Len(queue) : b[i] = d[i]
      /\ b[Len(queue) + 1] = e.dgram
  BY <1>1, <1>2
<1> HIDE DEF b
<1>4. ASSUME NEW i \in 1 .. Len(queue) + 1 PROVE b[i] = a[i].dgram
  <2>1. CASE i \in 1 .. Len(queue)
    BY <1>1, <1>2, <1>3, <2>1, Zenon
  <2>2. CASE i = Len(queue) + 1
    BY <1>1, <1>3, <2>2, Zenon
  <2> QED
    BY <1>1, <2>1, <2>2
<1>5. Dgrams(a) = [i \in 1 .. Len(queue) + 1 |-> a[i].dgram]
  BY <1>1 DEF Dgrams
<1> QED
  BY <1>3, <1>4, <1>5 DEF a, b, d

(* To select entries by their datagrams is to select their datagrams.      *)
LEMMA SelectedDgrams ==
  ASSUME NEW E, NEW queue \in Seq(E), NEW S, NEW T,
         \A e \in E : e.dgram \in S <=> e \in T
  PROVE  selected(Dgrams(queue), S) = Dgrams(selected(queue, T))
<1> DEFINE F == E \cap T
           L == Len(queue)
           d == Dgrams(queue)
           P == {n \in Nat : n <= L => Kept(d, S, n) = Dgrams(Kept(queue, T, n))}
<1>1. /\ L \in Nat
      /\ \A i \in 1 .. L : queue[i] \in E /\ d[i] = queue[i].dgram
      /\ Len(d) = L
  BY DEF Dgrams
<1>2. \A n \in 0 .. L : Kept(queue, T, n) \in Seq(F)
  BY KeptType, Zenon
<1> HIDE DEF F, L, d
<1>3. 0 \in P
  <2>1. Kept(d, S, 0) = << >> /\ Kept(queue, T, 0) = << >>
    BY KeptUnfold, Zenon
  <2>2. Dgrams(<< >>) = << >>
    BY DEF Dgrams
  <2> QED
    BY <2>1, <2>2
<1>4. ASSUME NEW n \in Nat, n \in P PROVE n + 1 \in P
  <2> DEFINE k == Kept(queue, T, n)
             x == queue[n + 1]
  <2> SUFFICES ASSUME n + 1 <= L
               PROVE  Kept(d, S, n + 1) = Dgrams(Kept(queue, T, n + 1))
    OBVIOUS
  <2>1. Kept(d, S, n) = Dgrams(k)
    BY <1>1, <1>4
  <2>2. k \in Seq(F)
    BY <1>1, <1>2
  <2>3. d[n + 1] = x.dgram /\ (x.dgram \in S <=> x \in T)
    BY <1>1
  <2>4. /\ x \in T => Kept(queue, T, n + 1) = Append(k, x)
        /\ x \notin T => Kept(queue, T, n + 1) = k
        /\ d[n + 1] \in S => Kept(d, S, n + 1) = Append(Kept(d, S, n), d[n + 1])
        /\ d[n + 1] \notin S => Kept(d, S, n + 1) = Kept(d, S, n)
    BY KeptUnfold, Zenon
  <2> HIDE DEF k, x
  <2>5. Dgrams(Append(k, x)) = Append(Dgrams(k), x.dgram)
    BY <2>2, DgramsAppend
  <2> QED
    BY <2>1, <2>3, <2>4, <2>5, Zenon
<1>5. L \in P
  <2> HIDE DEF P
  <2> QED
    BY <1>1, <1>3, <1>4, Induction, Zenon
<1> QED
  BY <1>1, <1>5, SelectedIsKept DEF L, d

(* When the address of ip is learned, the queue is split into what goes    *)
(* out and what stays.  For every hop h, whose datagrams are those in S,   *)
(* the two parts follow each other as they stood in the queue.             *)
LEMMA QueueSplit ==
  ASSUME NEW E, NEW queue \in Seq(E), NEW ip, NEW h, NEW S,
         \A i \in DOMAIN queue : queue[i].dgram \in S <=> queue[i].hop = h
  PROVE  selected(Dgrams(selected(queue, for_hop(queue, ip))), S)
           \o selected(Dgrams(still_waiting(queue, ip)), S)
         = selected(Dgrams(queue), S)
<1> DEFINE R   == {queue[i] : i \in DOMAIN queue}
           I   == for_hop(queue, ip)
           H   == for_hop(queue, h)
           go  == selected(queue, I)
           rem == selected(queue, R \ I)
<1>1. queue \in Seq(R) /\ \A e \in R : e.dgram \in S <=> e.hop = h
  OBVIOUS
<1>2. \A e \in R : (e \in I <=> e.hop = ip) /\ (e \in H <=> e.hop = h)
  BY DEF for_hop
<1>3. still_waiting(queue, ip) = rem
  BY DEF still_waiting
<1> HIDE DEF R, I, H
<1>4. go \in Seq(R \cap I) /\ rem \in Seq(R \cap (R \ I))
  BY <1>1, SelectedType
<1>5. selected(Dgrams(queue), S) = Dgrams(selected(queue, H))
  BY <1>1, <1>2, SelectedDgrams
<1>6. /\ selected(Dgrams(go), S) = Dgrams(selected(go, H))
      /\ selected(Dgrams(rem), S) = Dgrams(selected(rem, H))
  <2>1. /\ \A e \in R \cap I : e.dgram \in S <=> e \in H
        /\ \A e \in R \cap (R \ I) : e.dgram \in S <=> e \in H
    BY <1>1, <1>2
  <2> HIDE DEF go, rem
  <2> QED
    BY <1>4, <2>1, SelectedDgrams
<1>7. Dgrams(<< >>) = << >>
  BY DEF Dgrams
<1>8. selected(queue, H) \in Seq(R \cap H)
  BY <1>1, SelectedType
<1>9. CASE h = ip
  <2>1. selected(go, H) = go /\ go = selected(queue, H)
    <3>1. \A e \in R : e \in I <=> e \in H
      BY <1>2, <1>9
    <3>2. \A e \in R \cap I : e \in H
      BY <3>1
    <3>3. go = selected(queue, H)
      BY <1>1, <3>1, SelectedAgrees
    <3> HIDE DEF go
    <3>4. selected(go, H) = go
      BY <1>4, <3>2, SelectedAll
    <3> QED
      BY <3>3, <3>4
  <2>2. selected(rem, H) = << >>
    <3>1. \A e \in R \cap (R \ I) : e \notin H
      BY <1>2, <1>9
    <3> HIDE DEF rem
    <3> QED
      BY <1>4, <3>1, SelectedNone
  <2>3. Dgrams(selected(queue, H)) \o << >> = Dgrams(selected(queue, H))
    <3> DEFINE k == selected(queue, H)
    <3>1. Dgrams(k) \in Seq({k[i].dgram : i \in DOMAIN k})
      <4> HIDE DEF k
      <4>1. k \in Seq(R \cap H)
        BY <1>8 DEF k
      <4> QED
        BY <4>1 DEF Dgrams
    <3> QED
      BY <3>1
  <2> HIDE DEF go, rem
  <2> QED
    BY <1>3, <1>5, <1>6, <1>7, <2>1, <2>2, <2>3, Zenon DEF go, I
<1>10. CASE h # ip
  <2>1. selected(go, H) = << >>
    <3>1. \A e \in R \cap I : e \notin H
      BY <1>2, <1>10
    <3> HIDE DEF go
    <3> QED
      BY <1>4, <3>1, SelectedNone
  <2>2. selected(rem, H) = selected(queue, H)
    <3>1. \A e \in R : e \in H => e \in R \ I
      BY <1>2, <1>10
    <3> QED
      BY <1>1, <3>1, SelectedTwice
  <2>3. << >> \o Dgrams(selected(queue, H)) = Dgrams(selected(queue, H))
    <3> DEFINE k == selected(queue, H)
    <3>1. Dgrams(k) \in Seq({k[i].dgram : i \in DOMAIN k})
      <4> HIDE DEF k
      <4>1. k \in Seq(R \cap H)
        BY <1>8 DEF k
      <4> QED
        BY <4>1 DEF Dgrams
    <3> QED
      BY <3>1
  <2> QED
    BY <1>3, <1>5, <1>6, <1>7, <2>1, <2>2, <2>3, Zenon DEF I
<1> QED
  BY <1>9, <1>10

\* The payloads of the frames.
Payloads(frames) == [i \in DOMAIN frames |-> frames[i].payload]

(* The datagrams in frames that all carry one, and a frame that does not.  *)
LEMMA DatagramsOf ==
  ASSUME NEW E, NEW a \in Seq(E), \A e \in E : e.type = "IPv4"
  PROVE  /\ DatagramsIn(a) = Payloads(a)
         /\ \A r : r.type # "IPv4" => DatagramsIn(Append(a, r)) = Payloads(a)
<1>1. DatagramsIn(a) = Payloads(a)
  <2> DEFINE R == {a[i] : i \in DOMAIN a}
             S == {f \in R : f.type = "IPv4"}
  <2>1. a \in Seq(R) /\ \A e \in R : e \in S
    OBVIOUS
  <2>2. DatagramsIn(a) = Payloads(selected(a, S))
    BY DEF DatagramsIn, Payloads
  <2> HIDE DEF R, S
  <2>3. selected(a, S) = a
    BY <2>1, SelectedAll
  <2> QED
    BY <2>2, <2>3
<1>2. ASSUME NEW r, r.type # "IPv4" PROVE DatagramsIn(Append(a, r)) = Payloads(a)
  <2> DEFINE b == Append(a, r)
             S == {f \in {b[i] : i \in DOMAIN b} : f.type = "IPv4"}
             R == {a[i] : i \in DOMAIN a}
  <2>1. /\ Len(a) \in Nat /\ DOMAIN a = 1 .. Len(a)
        /\ DOMAIN b = 1 .. Len(a) + 1
        /\ \A i \in 1 .. Len(a) : b[i] = a[i]
    OBVIOUS
  <2>2. DatagramsIn(b) = Payloads(selected(b, S))
    BY DEF DatagramsIn, Payloads
  <2>3. r \notin S
    BY <1>2
  <2>4. \A i \in DOMAIN a : a[i] = b[i] /\ i \in DOMAIN b
    BY <2>1
  <2>5. a \in Seq(R) /\ \A i \in DOMAIN a : a[i].type = "IPv4"
    OBVIOUS
  <2>6. \A e \in R : e \in S
    BY <2>4, <2>5, Zenon
  <2> HIDE DEF S, R
  <2>7. selected(b, S) = selected(a, S)
    BY <2>3, SelectedAppend
  <2>8. selected(a, S) = a
    BY <2>5, <2>6, SelectedAll
  <2> QED
    BY <2>2, <2>7, <2>8, Zenon
<1> QED
  BY <1>1, <1>2

(* Without frames, and in one that is not for IPv4, there is none.         *)
LEMMA NoDatagrams ==
  /\ DatagramsIn(<< >>) = << >>
  /\ \A r : r.type # "IPv4" => DatagramsIn(<<r>>) = << >>
<1> DEFINE E == {}
<1>1. << >> \in Seq(E) /\ \A e \in E : e.type = "IPv4"
  OBVIOUS
<1>2. Payloads(<< >>) = << >>
  BY DEF Payloads
<1>3. \A r : Append(<< >>, r) = <<r>>
  OBVIOUS
<1> HIDE DEF E
<1>4. /\ DatagramsIn(<< >>) = Payloads(<< >>)
      /\ \A r : r.type # "IPv4" => DatagramsIn(Append(<< >>, r)) = Payloads(<< >>)
  BY <1>1, DatagramsOf
<1> QED
  BY <1>2, <1>3, <1>4

(* In one frame there is one datagram.                                     *)
LEMMA OneDatagram ==
  ASSUME NEW f, f.type = "IPv4"
  PROVE  DatagramsIn(<<f>>) = <<f.payload>>
<1> DEFINE E == {f}
           a == <<f>>
<1>1. a \in Seq(E) /\ \A e \in E : e.type = "IPv4"
  OBVIOUS
<1>2. Payloads(a) = <<f.payload>>
  BY DEF Payloads
<1> HIDE DEF E, a
<1>3. DatagramsIn(a) = Payloads(a)
  BY <1>1, DatagramsOf
<1> QED
  BY <1>2, <1>3 DEF a
-----------------------------------------------------------------------------
Fields == { "ethernet_address", "ip_address", "frames_out", "ethernet_addr_cache",
            "queueing_IP_datagrams", "arp_timer" }

IsObject(n) == DOMAIN n = Fields /\ n = [f \in Fields |-> n[f]]

\* A map from some of the IP addresses.
IsMap(map) == DOMAIN map \subseteq Ips /\ map = [ip \in DOMAIN map |-> map[ip]]

Shape ==
  /\ IsObject(ni)
  /\ ni.frames_out = << >>
  /\ IsMap(ni.ethernet_addr_cache)
  /\ IsMap(ni.arp_timer)
  /\ \A ip \in DOMAIN ni.arp_timer : ni.arp_timer[ip] \in 0 .. ARP_REQ_TIME

Histories ==
  /\ heard = [ip \in Ips |-> [addr |-> heard[ip].addr, age |-> heard[ip].age]]
  /\ \A ip \in Ips : heard[ip].age \in 0 .. Old
  /\ asked \in [Ips -> 0 .. Old]

(* An address that was asked for a short while ago is still being asked    *)
(* for, or something has been heard of it since.                           *)
AskedOrHeard ==
  \A ip \in Ips : asked[ip] < ARP_REQ_TIME =>
    \/ ip \in DOMAIN ni.arp_timer /\ ni.arp_timer[ip] = asked[ip]
    \/ heard[ip].age <= asked[ip]

(* The inductive invariant.  CacheIsRecentHearsay alone is inductive only  *)
(* with the shape of the object; AskedOrHeard is what paces the requests.  *)
IInv == Shape /\ Histories /\ CacheIsRecentHearsay /\ AskedOrHeard

(* A new interface, which has heard and asked nothing, satisfies it.       *)
LEMMA InitIInv == Init => IInv
<1> SUFFICES ASSUME Init PROVE IInv
  OBVIOUS
<1>1. Shape
  BY DEF Init, New, Shape, IsObject, Fields, IsMap
<1>2. Histories
  BY InterfaceAssumption DEF Init, Histories, Old
<1>3. CacheIsRecentHearsay
  BY InterfaceAssumption DEF Init, New, CacheIsRecentHearsay, Old
<1>4. AskedOrHeard
  BY InterfaceAssumption DEF Init, AskedOrHeard, Old
<1> QED BY <1>1, <1>2, <1>3, <1>4 DEF IInv

(* A frame is queued, and nothing else changes.                            *)
LEMMA Pushed ==
  ASSUME NEW n, IsObject(n), n.frames_out = << >>, NEW new
  PROVE  LET after == [n EXCEPT !.frames_out = Append(@, new)]
         IN  /\ IsObject(after)
             /\ after.ethernet_addr_cache = n.ethernet_addr_cache
             /\ after.arp_timer = n.arp_timer
             /\ after.frames_out = <<new>>
<1> DEFINE after == [n EXCEPT !.frames_out = Append(@, new)]
<1>1. IsObject(after)
  BY DEF IsObject
<1>2. after.ethernet_addr_cache = n.ethernet_addr_cache /\ after.arp_timer = n.arp_timer
  BY DEF IsObject, Fields
<1>3. after.frames_out = Append(<< >>, new)
  BY DEF IsObject, Fields
<1>4. after.frames_out = <<new>>
  BY <1>3
<1> QED BY <1>1, <1>2, <1>4

(* A datagram is queued, and nothing else changes.                         *)
LEMMA Queueing ==
  ASSUME NEW n, IsObject(n), NEW entry
  PROVE  LET after == [n EXCEPT !.queueing_IP_datagrams = Append(@, entry)]
         IN  /\ IsObject(after)
             /\ after.ethernet_addr_cache = n.ethernet_addr_cache
             /\ after.arp_timer = n.arp_timer
             /\ after.frames_out = n.frames_out
BY DEF IsObject, Fields

(* send_datagram() touches no mapping, and it asks for no address but that *)
(* of the next hop, which it does when that is neither known nor has been  *)
(* asked for within ARP_REQ_TIME (network_interface.cc, lines 39-71).      *)
LEMMA SendEffect ==
  ASSUME Shape, NEW hop \in Ips, NEW d
  PROVE  LET n    == send_datagram(ni, d, hop)
             asks == /\ hop \notin DOMAIN ni.ethernet_addr_cache
                     /\ ~(hop \in DOMAIN ni.arp_timer /\ ni.arp_timer[hop] < ARP_REQ_TIME)
         IN  /\ IsObject(n)
             /\ n.ethernet_addr_cache = ni.ethernet_addr_cache
             /\ n.arp_timer = IF asks THEN put(ni.arp_timer, hop, 0) ELSE ni.arp_timer
             /\ \A ip \in Ips : AsksFor(n.frames_out, ip) <=> asks /\ ip = hop
<1> DEFINE known   == hop \in DOMAIN ni.ethernet_addr_cache
           recent  == hop \in DOMAIN ni.arp_timer /\ ni.arp_timer[hop] < ARP_REQ_TIME
           noted   == [ni EXCEPT !.arp_timer = put(@, hop, 0)]
           n       == send_datagram(ni, d, hop)
           entry   == [dgram |-> d, hop |-> hop]
<1>1. CASE known
  <2>1. n = [ni EXCEPT !.frames_out = Append(@, frame(ni.ethernet_address,
                          ni.ethernet_addr_cache[hop].addr, "IPv4", d))]
    BY <1>1 DEF send_datagram, push_frame
  <2>2. /\ IsObject(n)
        /\ n.ethernet_addr_cache = ni.ethernet_addr_cache
        /\ n.arp_timer = ni.arp_timer
        /\ n.frames_out = <<frame(ni.ethernet_address,
                                  ni.ethernet_addr_cache[hop].addr, "IPv4", d)>>
    BY <2>1 DEF Shape, IsObject, Fields
  <2> HIDE DEF n
  <2>3. \A ip : ~AsksFor(n.frames_out, ip)
    BY <2>2 DEF AsksFor, IsRequest, frame
  <2> QED BY <1>1, <2>2, <2>3 DEF n
<1>2. CASE ~known /\ recent
  <2>1. n = [ni EXCEPT !.queueing_IP_datagrams = Append(@, entry)]
    BY <1>2 DEF send_datagram, request
  <2>2. /\ IsObject(n)
        /\ n.ethernet_addr_cache = ni.ethernet_addr_cache
        /\ n.arp_timer = ni.arp_timer
        /\ n.frames_out = << >>
    BY <2>1 DEF Shape, IsObject, Fields
  <2> HIDE DEF n
  <2>3. \A ip : ~AsksFor(n.frames_out, ip)
    BY <2>2 DEF AsksFor
  <2> QED BY <1>2, <2>2, <2>3 DEF n
<1>3. CASE ~known /\ ~recent
  <2> DEFINE asking == frame(noted.ethernet_address, ETHERNET_BROADCAST, "ARP",
                             arp_message(ni, "REQUEST", NoEthernetAddress, hop))
             timers == put(ni.arp_timer, hop, 0)
             pushed == [noted EXCEPT !.frames_out = Append(@, asking)]
  <2>1. n = [pushed EXCEPT !.queueing_IP_datagrams = Append(@, entry)]
    BY <1>3 DEF send_datagram, request, push_frame
  <2>2. \A ip : IsRequest(asking, ip) <=> ip = hop
    BY DEF IsRequest, frame, arp_message
  <2> HIDE DEF asking
  <2>3. /\ IsObject(noted)
        /\ noted.ethernet_addr_cache = ni.ethernet_addr_cache
        /\ noted.arp_timer = timers
        /\ noted.frames_out = << >>
    BY DEF Shape, IsObject, Fields
  <2> HIDE DEF noted, timers
  <2>4. /\ IsObject(pushed)
        /\ pushed.ethernet_addr_cache = ni.ethernet_addr_cache
        /\ pushed.arp_timer = timers
        /\ pushed.frames_out = <<asking>>
    BY <2>3, Pushed
  <2> HIDE DEF pushed, n
  <2>5. /\ IsObject(n)
        /\ n.ethernet_addr_cache = ni.ethernet_addr_cache
        /\ n.arp_timer = timers
        /\ n.frames_out = <<asking>>
    BY <2>1, <2>4, Queueing
  <2>6. \A ip : AsksFor(n.frames_out, ip) <=> ip = hop
    BY <2>2, <2>5 DEF AsksFor
  <2> QED BY <1>3, <2>5, <2>6 DEF n, timers
<1> QED BY <1>1, <1>2, <1>3

(* recv_frame() of an ARP message puts its sender into the cache, with a   *)
(* new timer, and stops asking for it, also when datagrams are sent and a  *)
(* reply is (network_interface.cc, lines 96-139).                          *)
LEMMA RecvEffect ==
  ASSUME Shape, NEW f, f.type = "ARP", for_us(ni, f), f.payload.sender_ip \in Ips
  PROVE  LET n   == recv_frame(ni, f)
             msg == f.payload
         IN  /\ IsObject(n)
             /\ n.ethernet_addr_cache = put(ni.ethernet_addr_cache, msg.sender_ip,
                                            [addr |-> msg.sender_eth, timer |-> 0])
             /\ n.arp_timer = erase(ni.arp_timer, {msg.sender_ip})
<1> DEFINE msg    == f.payload
           cache  == learned(ni.ethernet_addr_cache, msg)
           timers == erase(ni.arp_timer, {msg.sender_ip})
           known  == [ni EXCEPT !.ethernet_addr_cache = cache, !.arp_timer = timers]
           sent   == send_waiting(known, msg.sender_ip)
<1>1. recv_frame(ni, f) = reply(sent, msg)
  BY DEF recv_frame, learn
<1>2. cache = put(ni.ethernet_addr_cache, msg.sender_ip,
                  [addr |-> msg.sender_eth, timer |-> 0])
  BY DEF learned
<1> HIDE DEF cache, timers, msg
<1>3. IsObject(known) /\ known.ethernet_addr_cache = cache /\ known.arp_timer = timers
  BY DEF Shape, IsObject, Fields
<1> HIDE DEF known
<1>4. \E frames, queue :
        sent = [known EXCEPT !.frames_out = frames, !.queueing_IP_datagrams = queue]
  BY DEF send_waiting
<1>5. IsObject(sent) /\ sent.ethernet_addr_cache = cache /\ sent.arp_timer = timers
  BY <1>3, <1>4 DEF IsObject, Fields
<1> HIDE DEF sent
<1>6. \/ reply(sent, msg) = sent
      \/ \E frames : reply(sent, msg) = [sent EXCEPT !.frames_out = frames]
  BY DEF reply, push_frame
<1>7. /\ IsObject(reply(sent, msg))
      /\ reply(sent, msg).ethernet_addr_cache = cache
      /\ reply(sent, msg).arp_timer = timers
  BY <1>5, <1>6 DEF IsObject, Fields
<1> QED BY <1>1, <1>2, <1>7 DEF timers, msg

(* tick() ages the mappings, forgets those that are CACHE_VALID_TIME old,  *)
(* and ages the pauses.                                                    *)
LEMMA TickEffect ==
  ASSUME Shape, NEW ms
  PROVE  LET n     == tick(ni, ms)
             cache == ni.ethernet_addr_cache
             aged  == [ip \in DOMAIN cache |-> [cache[ip] EXCEPT !.timer = @ + ms]]
         IN  /\ IsObject(n)
             /\ n.ethernet_addr_cache =
                  erase(aged, {ip \in DOMAIN aged : aged[ip].timer >= CACHE_VALID_TIME})
             /\ n.arp_timer = [ip \in DOMAIN ni.arp_timer |->
                  IF ni.arp_timer[ip] + ms < ARP_REQ_TIME
                  THEN ni.arp_timer[ip] + ms ELSE ARP_REQ_TIME]
<1> DEFINE cache  == ni.ethernet_addr_cache
           aged   == [ip \in DOMAIN cache |-> [cache[ip] EXCEPT !.timer = @ + ms]]
           kept   == erase(aged, {ip \in DOMAIN aged : aged[ip].timer >= CACHE_VALID_TIME})
           timers == [ip \in DOMAIN ni.arp_timer |->
                        IF ni.arp_timer[ip] + ms < ARP_REQ_TIME
                        THEN ni.arp_timer[ip] + ms ELSE ARP_REQ_TIME]
<1>1. tick(ni, ms) = [ni EXCEPT !.ethernet_addr_cache = kept, !.arp_timer = timers]
  BY DEF tick, expired
<1> HIDE DEF kept, timers
<1>2. /\ IsObject(tick(ni, ms))
      /\ tick(ni, ms).ethernet_addr_cache = kept
      /\ tick(ni, ms).arp_timer = timers
  BY <1>1 DEF Shape, IsObject, Fields
<1> QED BY <1>2 DEF kept, timers

(* Emptying frames_out changes nothing else.                               *)
LEMMA ReturnEffect ==
  ASSUME NEW n, IsObject(n), Return(n)
  PROVE  /\ IsObject(ni')
         /\ ni'.frames_out = << >>
         /\ ni'.ethernet_addr_cache = n.ethernet_addr_cache
         /\ ni'.arp_timer = n.arp_timer
         /\ out' = n.frames_out
BY DEF Return, IsObject, Fields

(* send_datagram() keeps the invariant: it starts a pause exactly when it  *)
(* asks.                                                                   *)
LEMMA SendKeepsIInv ==
  ASSUME IInv, NEW hop \in Ips, SendDatagram(hop)
  PROVE  IInv'
<1> DEFINE n    == send_datagram(ni, Len(given'), hop)
           asks == /\ hop \notin DOMAIN ni.ethernet_addr_cache
                   /\ ~(hop \in DOMAIN ni.arp_timer /\ ni.arp_timer[hop] < ARP_REQ_TIME)
<1>1. /\ IsObject(n)
      /\ n.ethernet_addr_cache = ni.ethernet_addr_cache
      /\ n.arp_timer = IF asks THEN put(ni.arp_timer, hop, 0) ELSE ni.arp_timer
      /\ \A ip \in Ips : AsksFor(n.frames_out, ip) <=> asks /\ ip = hop
  BY SendEffect DEF IInv
<1>2. /\ Return(n)
      /\ asked' = [ip \in Ips |-> IF AsksFor(out', ip) THEN 0 ELSE asked[ip]]
      /\ heard' = heard
  BY DEF SendDatagram
<1> HIDE DEF n
<1>3. /\ IsObject(ni')
      /\ ni'.frames_out = << >>
      /\ ni'.ethernet_addr_cache = ni.ethernet_addr_cache
      /\ ni'.arp_timer = IF asks THEN put(ni.arp_timer, hop, 0) ELSE ni.arp_timer
      /\ asked' = [ip \in Ips |-> IF asks /\ ip = hop THEN 0 ELSE asked[ip]]
  BY <1>1, <1>2, ReturnEffect
<1> HIDE DEF asks
<1>4. /\ IsMap(ni.arp_timer)
      /\ \A ip \in DOMAIN ni.arp_timer : ni.arp_timer[ip] \in 0 .. ARP_REQ_TIME
      /\ IsMap(ni.ethernet_addr_cache)
  BY DEF IInv, Shape
<1>5. /\ IsMap(ni'.arp_timer)
      /\ \A ip \in DOMAIN ni'.arp_timer : ni'.arp_timer[ip] \in 0 .. ARP_REQ_TIME
      /\ \A ip \in Ips : ip \in DOMAIN ni.arp_timer /\ ~(asks /\ ip = hop) =>
            ip \in DOMAIN ni'.arp_timer /\ ni'.arp_timer[ip] = ni.arp_timer[ip]
      /\ asks => hop \in DOMAIN ni'.arp_timer /\ ni'.arp_timer[hop] = 0
  <2>1. CASE ~asks
    BY <1>3, <1>4, <2>1
  <2>2. CASE asks
    <3>1. ni'.arp_timer = [k \in DOMAIN ni.arp_timer \cup {hop} |->
                             IF k = hop THEN 0 ELSE ni.arp_timer[k]]
      BY <1>3, <2>2 DEF put
    <3>2. 0 \in 0 .. ARP_REQ_TIME
      BY InterfaceAssumption
    <3> QED BY <1>4, <2>2, <3>1, <3>2 DEF IsMap
  <2> QED BY <2>1, <2>2
<1>6. Shape'
  BY <1>3, <1>4, <1>5 DEF Shape
<1>7. Histories'
  BY <1>2, <1>3, InterfaceAssumption DEF IInv, Histories, Old
<1>8. CacheIsRecentHearsay'
  BY <1>2, <1>3 DEF IInv, CacheIsRecentHearsay
<1>9. AskedOrHeard'
  BY <1>2, <1>3, <1>5 DEF IInv, AskedOrHeard
<1> QED BY <1>6, <1>7, <1>8, <1>9 DEF IInv

(* So does an ARP message: one that is for us renews the mapping of its    *)
(* sender and ends the pause, and both histories agree with that.          *)
LEMMA RecvKeepsIInv ==
  ASSUME IInv, NEW dst, NEW opcode, NEW ip \in Ips, NEW eth, NEW target,
         RecvArp(dst, opcode, ip, eth, target)
  PROVE  IInv'
<1> DEFINE msg == [ opcode |-> opcode, sender_eth |-> eth, sender_ip |-> ip,
                    target_eth |-> dst, target_ip |-> target ]
           f   == frame(eth, dst, "ARP", msg)
           n   == recv_frame(ni, f)
<1>1. /\ Return(n)
      /\ heard' = IF for_us(ni, f)
                  THEN [heard EXCEPT ![ip] = [addr |-> eth, age |-> 0]]
                  ELSE heard
      /\ asked' = asked
  BY DEF RecvArp
<1>2. /\ f.type = "ARP"
      /\ f.payload.sender_ip = ip
      /\ f.payload.sender_eth = eth
  BY DEF frame
<1> HIDE DEF f
<1>3. CASE ~for_us(ni, f)
  <2>1. n = ni
    BY <1>3 DEF recv_frame
  <2>2. /\ IsObject(ni')
        /\ ni'.frames_out = << >>
        /\ ni'.ethernet_addr_cache = ni.ethernet_addr_cache
        /\ ni'.arp_timer = ni.arp_timer
        /\ heard' = heard
    BY <1>1, <1>3, <2>1, ReturnEffect DEF IInv, Shape
  <2> QED BY <1>1, <2>2 DEF IInv, Shape, Histories, CacheIsRecentHearsay, AskedOrHeard
<1>4. CASE for_us(ni, f)
  <2>1. /\ IsObject(n)
        /\ n.ethernet_addr_cache =
             put(ni.ethernet_addr_cache, ip, [addr |-> eth, timer |-> 0])
        /\ n.arp_timer = erase(ni.arp_timer, {ip})
    BY <1>2, <1>4, RecvEffect DEF IInv
  <2> HIDE DEF n
  <2>2. /\ IsObject(ni')
        /\ ni'.frames_out = << >>
        /\ ni'.ethernet_addr_cache =
             put(ni.ethernet_addr_cache, ip, [addr |-> eth, timer |-> 0])
        /\ ni'.arp_timer = erase(ni.arp_timer, {ip})
        /\ heard' = [heard EXCEPT ![ip] = [addr |-> eth, age |-> 0]]
    BY <1>1, <1>4, <2>1, ReturnEffect
  <2>3. /\ IsMap(ni.arp_timer)
        /\ \A k \in DOMAIN ni.arp_timer : ni.arp_timer[k] \in 0 .. ARP_REQ_TIME
        /\ IsMap(ni.ethernet_addr_cache)
    BY DEF IInv, Shape
  <2>4. /\ IsMap(ni'.ethernet_addr_cache)
        /\ DOMAIN ni'.ethernet_addr_cache = DOMAIN ni.ethernet_addr_cache \cup {ip}
        /\ ni'.ethernet_addr_cache[ip] = [addr |-> eth, timer |-> 0]
        /\ \A k \in DOMAIN ni.ethernet_addr_cache \ {ip} :
             ni'.ethernet_addr_cache[k] = ni.ethernet_addr_cache[k]
    BY <2>2, <2>3 DEF IsMap, put
  <2>5. /\ IsMap(ni'.arp_timer)
        /\ DOMAIN ni'.arp_timer = DOMAIN ni.arp_timer \ {ip}
        /\ \A k \in DOMAIN ni.arp_timer \ {ip} : ni'.arp_timer[k] = ni.arp_timer[k]
    BY <2>2, <2>3 DEF IsMap, erase
  <2>6. /\ heard'[ip] = [addr |-> eth, age |-> 0]
        /\ \A k \in Ips \ {ip} : heard'[k] = heard[k]
        /\ DOMAIN heard' = Ips
        /\ heard' = [k \in Ips |-> heard'[k]]
    BY <2>2 DEF IInv, Histories
  <2>7. Shape'
    BY <2>2, <2>3, <2>4, <2>5 DEF Shape
  <2>8. Histories'
    <3>1. \A k \in Ips : heard'[k] = [addr |-> heard'[k].addr, age |-> heard'[k].age]
      BY <2>6 DEF IInv, Histories
    <3>2. \A k \in Ips : heard'[k].age \in 0 .. Old
      BY <2>6, InterfaceAssumption DEF IInv, Histories, Old
    <3> QED BY <1>1, <2>6, <3>1, <3>2 DEF IInv, Histories, Old
  <2>9. CacheIsRecentHearsay'
    BY <2>4, <2>6, InterfaceAssumption DEF IInv, CacheIsRecentHearsay
  <2>10. AskedOrHeard'
    BY <1>1, <2>5, <2>6, InterfaceAssumption DEF IInv, AskedOrHeard, Histories, Old
  <2> QED BY <2>7, <2>8, <2>9, <2>10 DEF IInv
<1> QED BY <1>3, <1>4

(* Ages are added up to Old.                                               *)
LEMMA OlderAges ==
  ASSUME NEW age \in 0 .. Old, NEW ms \in Ticks
  PROVE  /\ Older(age, ms) \in 0 .. Old
         /\ age + ms < Old => Older(age, ms) = age + ms
         /\ age + ms >= Old => Older(age, ms) = Old
         /\ ~(age + ms < Old) <=> age + ms >= Old
<1>1. ms \in Nat \ {0} /\ Old \in Nat
  BY InterfaceAssumption DEF Old
<1>2. age \in Nat /\ age <= Old
  BY <1>1
<1> QED BY <1>1, <1>2 DEF Older

(* So does tick(): the cache and the histories age by the same amount, and *)
(* a mapping is erased just when its announcement has become Old.          *)
LEMMA TickKeepsIInv ==
  ASSUME IInv, NEW ms \in Ticks, Tick(ms)
  PROVE  IInv'
<1> DEFINE cache == ni.ethernet_addr_cache
           aged  == [ip \in DOMAIN cache |-> [cache[ip] EXCEPT !.timer = @ + ms]]
           stale == {ip \in DOMAIN aged : aged[ip].timer >= CACHE_VALID_TIME}
           n     == tick(ni, ms)
<1>1. /\ IsObject(n)
      /\ n.ethernet_addr_cache = erase(aged, stale)
      /\ n.arp_timer = [ip \in DOMAIN ni.arp_timer |->
           IF ni.arp_timer[ip] + ms < ARP_REQ_TIME
           THEN ni.arp_timer[ip] + ms ELSE ARP_REQ_TIME]
  BY TickEffect DEF IInv
<1>2. /\ Return(n)
      /\ heard' = [ip \in Ips |-> [heard[ip] EXCEPT !.age = Older(@, ms)]]
      /\ asked' = [ip \in Ips |-> Older(asked[ip], ms)]
  BY DEF Tick
<1> HIDE DEF n
<1>3. /\ IsObject(ni')
      /\ ni'.frames_out = << >>
      /\ ni'.ethernet_addr_cache = erase(aged, stale)
      /\ ni'.arp_timer = [ip \in DOMAIN ni.arp_timer |->
           IF ni.arp_timer[ip] + ms < ARP_REQ_TIME
           THEN ni.arp_timer[ip] + ms ELSE ARP_REQ_TIME]
  BY <1>1, <1>2, ReturnEffect
<1>4. /\ ms \in Nat \ {0}
      /\ Old \in Nat /\ ARP_REQ_TIME \in Nat /\ ARP_REQ_TIME <= Old
      /\ CACHE_VALID_TIME = Old
  BY InterfaceAssumption DEF Old
<1>5. \A ip \in Ips : /\ heard'[ip].addr = heard[ip].addr
                      /\ heard'[ip].age = Older(heard[ip].age, ms)
                      /\ asked'[ip] = Older(asked[ip], ms)
  BY <1>2 DEF IInv, Histories
<1>6. \A ip \in Ips : heard[ip].age \in 0 .. Old /\ asked[ip] \in 0 .. Old
  BY DEF IInv, Histories
<1>7. /\ ni'.ethernet_addr_cache = [ip \in DOMAIN aged \ stale |-> aged[ip]]
      /\ DOMAIN aged = DOMAIN cache
  BY <1>3 DEF erase
<1>8. \A ip \in DOMAIN cache :
        /\ ip \in Ips
        /\ aged[ip] = [addr |-> heard[ip].addr, timer |-> heard[ip].age + ms]
        /\ heard[ip].age < Old
  <2> SUFFICES ASSUME NEW ip \in DOMAIN cache
               PROVE  /\ ip \in Ips
                      /\ aged[ip] = [addr |-> heard[ip].addr, timer |-> heard[ip].age + ms]
                      /\ heard[ip].age < Old
    OBVIOUS
  <2>1. ip \in Ips
    BY DEF IInv, Shape, IsMap
  <2>2. /\ heard[ip].age < Old
        /\ cache[ip] = [addr |-> heard[ip].addr, timer |-> heard[ip].age]
    BY <2>1, <1>4 DEF IInv, CacheIsRecentHearsay
  <2>3. aged[ip] = [cache[ip] EXCEPT !.timer = @ + ms]
    OBVIOUS
  <2> HIDE DEF aged, cache
  <2> QED BY <2>1, <2>2, <2>3
<1> HIDE DEF aged, cache
<1>9. \A ip \in DOMAIN cache : ip \in stale <=> heard[ip].age + ms >= Old
  BY <1>4, <1>7, <1>8
<1> HIDE DEF stale
<1>10. \A ip \in Ips : ip \in DOMAIN cache <=> heard[ip].age < Old
  BY <1>4, <1>8 DEF IInv, CacheIsRecentHearsay, cache
<1>11. Shape'
  <2>1. /\ IsMap(ni'.ethernet_addr_cache)
    BY <1>7, <1>8 DEF IsMap
  <2>2. IsMap(ni'.arp_timer)
    BY <1>3 DEF IInv, Shape, IsMap
  <2>3. \A ip \in DOMAIN ni'.arp_timer : ni'.arp_timer[ip] \in 0 .. ARP_REQ_TIME
    BY <1>3, <1>4 DEF IInv, Shape
  <2> QED BY <1>3, <2>1, <2>2, <2>3 DEF Shape
<1>12. Histories'
  <2>1. heard' = [ip \in Ips |-> [addr |-> heard'[ip].addr, age |-> heard'[ip].age]]
    BY <1>2 DEF IInv, Histories
  <2>2. \A ip \in Ips : heard'[ip].age \in 0 .. Old
    BY <1>5, <1>6, OlderAges
  <2>3. asked' \in [Ips -> 0 .. Old]
    BY <1>2, <1>6, OlderAges
  <2> QED BY <2>1, <2>2, <2>3 DEF Histories, Old
<1>13. CacheIsRecentHearsay'
  <2> SUFFICES ASSUME NEW ip \in Ips
               PROVE  IF heard'[ip].age < CACHE_VALID_TIME
                      THEN /\ ip \in DOMAIN ni'.ethernet_addr_cache
                           /\ ni'.ethernet_addr_cache[ip] =
                                [addr |-> heard'[ip].addr, timer |-> heard'[ip].age]
                      ELSE ip \notin DOMAIN ni'.ethernet_addr_cache
    BY DEF CacheIsRecentHearsay
  <2>1. heard'[ip].addr = heard[ip].addr /\ heard'[ip].age = Older(heard[ip].age, ms)
    BY <1>5
  <2>2. CASE heard[ip].age + ms < Old
    <3>1. heard'[ip].age = heard[ip].age + ms
      BY <1>6, <2>1, <2>2, OlderAges
    <3>2. heard[ip].age < Old /\ ~(heard[ip].age + ms >= Old)
      BY <1>4, <1>6, <2>2
    <3>3. ip \in DOMAIN cache /\ ip \notin stale
      BY <1>9, <1>10, <3>2
    <3> QED BY <1>4, <1>7, <1>8, <2>1, <2>2, <3>1, <3>3
  <2>3. CASE heard[ip].age + ms >= Old
    <3>1. heard'[ip].age = Old
      BY <1>6, <2>1, <2>3, OlderAges
    <3>2. ip \notin DOMAIN cache \ stale
      BY <1>9, <2>3
    <3> QED BY <1>4, <1>7, <3>1, <3>2
  <2> QED BY <1>6, <2>2, <2>3, OlderAges
<1>14. AskedOrHeard'
  <2> SUFFICES ASSUME NEW ip \in Ips, asked'[ip] < ARP_REQ_TIME
               PROVE  \/ ip \in DOMAIN ni'.arp_timer /\ ni'.arp_timer[ip] = asked'[ip]
                      \/ heard'[ip].age <= asked'[ip]
    BY DEF AskedOrHeard
  <2> DEFINE a == asked[ip]
             h == heard[ip].age
  <2>1. a \in 0 .. Old /\ h \in 0 .. Old /\ asked'[ip] = Older(a, ms)
        /\ heard'[ip].age = Older(h, ms)
    BY <1>5, <1>6
  <2>2. CASE ip \in DOMAIN ni.arp_timer /\ ni.arp_timer[ip] = a
    <3> HIDE DEF a, h
    <3>1. Older(a, ms) = a + ms /\ a + ms < ARP_REQ_TIME
      BY <1>4, <2>1, OlderAges
    <3> QED BY <1>3, <2>1, <2>2, <3>1
  <2>3. CASE h <= a
    <3> HIDE DEF a, h
    <3>1. Older(a, ms) = a + ms /\ a + ms < Old
      BY <1>4, <2>1, OlderAges
    <3>2. h + ms < Old /\ h + ms <= a + ms
      BY <1>4, <2>1, <2>3, <3>1
    <3> QED BY <2>1, <3>1, <3>2, OlderAges
  <2>4. a < ARP_REQ_TIME
    <3> HIDE DEF a, h
    <3> QED BY <1>4, <2>1, OlderAges
  <2> QED BY <2>2, <2>3, <2>4 DEF IInv, AskedOrHeard
<1> QED BY <1>11, <1>12, <1>13, <1>14 DEF IInv

-----------------------------------------------------------------------------
\* The entries that a queue may have.
Entries == {e \in [dgram : DOMAIN given, hop : Ips] : given[e.dgram] = e.hop}

(* What has left and what waits are datagrams that were handed over, and   *)
(* what waits is kept with the next hop it was handed over for.            *)
Ledger ==
  /\ given \in Seq(Ips)
  /\ framed \in Seq(DOMAIN given)
  /\ ni.queueing_IP_datagrams \in Seq(Entries)

(* The inductive invariant of the queue.                                   *)
QInv == IInv /\ Ledger /\ WaitingMeansAsked /\ PerHopFifo

(* send_datagram() puts the datagram into a frame when the address is      *)
(* known; it queues it when not, and has asked for the address then.       *)
LEMMA SendQueues ==
  ASSUME Shape, NEW hop \in Ips, NEW d
  PROVE  LET n     == send_datagram(ni, d, hop)
             known == hop \in DOMAIN ni.ethernet_addr_cache
             queue == ni.queueing_IP_datagrams
         IN  /\ known => /\ n.queueing_IP_datagrams = queue
                         /\ DatagramsIn(n.frames_out) = <<d>>
             /\ ~known => /\ n.queueing_IP_datagrams =
                               Append(queue, [dgram |-> d, hop |-> hop])
                          /\ DatagramsIn(n.frames_out) = << >>
                          /\ hop \in DOMAIN n.arp_timer
<1> DEFINE known   == hop \in DOMAIN ni.ethernet_addr_cache
           recent  == hop \in DOMAIN ni.arp_timer /\ ni.arp_timer[hop] < ARP_REQ_TIME
           noted   == [ni EXCEPT !.arp_timer = put(@, hop, 0)]
           n       == send_datagram(ni, d, hop)
           entry   == [dgram |-> d, hop |-> hop]
           queue   == ni.queueing_IP_datagrams
<1>1. CASE known
  <2> DEFINE f == frame(ni.ethernet_address, ni.ethernet_addr_cache[hop].addr, "IPv4", d)
  <2>1. n = [ni EXCEPT !.frames_out = Append(@, f)]
    BY <1>1 DEF send_datagram, push_frame
  <2>2. f.type = "IPv4" /\ f.payload = d
    BY DEF frame
  <2> HIDE DEF f
  <2>3. n.queueing_IP_datagrams = queue /\ n.frames_out = <<f>>
    BY <2>1 DEF Shape, IsObject, Fields
  <2> HIDE DEF n
  <2>4. DatagramsIn(<<f>>) = <<f.payload>>
    BY <2>2, OneDatagram
  <2> QED BY <1>1, <2>2, <2>3, <2>4 DEF n
<1>2. CASE ~known /\ recent
  <2>1. n = [ni EXCEPT !.queueing_IP_datagrams = Append(@, entry)]
    BY <1>2 DEF send_datagram, request
  <2>2. /\ n.queueing_IP_datagrams = Append(queue, entry)
        /\ n.frames_out = << >>
        /\ n.arp_timer = ni.arp_timer
    BY <2>1 DEF Shape, IsObject, Fields
  <2> HIDE DEF n
  <2> QED BY <1>2, <2>2, NoDatagrams DEF n
<1>3. CASE ~known /\ ~recent
  <2> DEFINE asking == frame(noted.ethernet_address, ETHERNET_BROADCAST, "ARP",
                             arp_message(ni, "REQUEST", NoEthernetAddress, hop))
             timers == put(ni.arp_timer, hop, 0)
             pushed == [noted EXCEPT !.frames_out = Append(@, asking)]
  <2>1. n = [pushed EXCEPT !.queueing_IP_datagrams = Append(@, entry)]
    BY <1>3 DEF send_datagram, request, push_frame
  <2>2. asking.type # "IPv4"
    BY DEF frame
  <2>3. hop \in DOMAIN timers
    BY DEF put
  <2> HIDE DEF asking, timers
  <2>4. /\ IsObject(noted)
        /\ noted.arp_timer = timers
        /\ noted.frames_out = << >>
        /\ noted.queueing_IP_datagrams = queue
    BY DEF Shape, IsObject, Fields, timers
  <2> HIDE DEF noted
  <2>5. /\ IsObject(pushed)
        /\ pushed.arp_timer = timers
        /\ pushed.frames_out = <<asking>>
        /\ pushed.queueing_IP_datagrams = queue
    <3>1. IsObject(pushed)
      BY <2>4 DEF IsObject
    <3>2. pushed.arp_timer = timers /\ pushed.queueing_IP_datagrams = queue
      BY <2>4 DEF IsObject, Fields
    <3>3. pushed.frames_out = <<asking>>
      BY <2>4, Pushed
    <3> QED
      BY <3>1, <3>2, <3>3
  <2> HIDE DEF pushed, n, entry
  <2>6. /\ n.arp_timer = timers
        /\ n.frames_out = <<asking>>
        /\ n.queueing_IP_datagrams = Append(queue, entry)
    BY <2>1, <2>5 DEF IsObject, Fields
  <2> QED BY <1>3, <2>2, <2>3, <2>6, NoDatagrams DEF n, entry
<1> QED BY <1>1, <1>2, <1>3

(* recv_frame() of an ARP message sends what waited for its sender, keeps  *)
(* the rest, and asks for nothing.                                         *)
LEMMA RecvSends ==
  ASSUME Shape, NEW E, ni.queueing_IP_datagrams \in Seq(E),
         NEW f, f.type = "ARP", for_us(ni, f), f.payload.sender_ip \in Ips
  PROVE  LET n     == recv_frame(ni, f)
             ip    == f.payload.sender_ip
             queue == ni.queueing_IP_datagrams
         IN  /\ n.queueing_IP_datagrams = still_waiting(queue, ip)
             /\ DatagramsIn(n.frames_out) = Dgrams(selected(queue, for_hop(queue, ip)))
             /\ \A k : ~AsksFor(n.frames_out, k)
<1> DEFINE msg    == f.payload
           ip     == msg.sender_ip
           queue  == ni.queueing_IP_datagrams
           go     == selected(queue, for_hop(queue, ip))
           known  == [ni EXCEPT !.ethernet_addr_cache = learned(@, msg),
                                !.arp_timer = erase(@, {ip})]
           addr   == known.ethernet_addr_cache[ip].addr
           fs     == [i \in DOMAIN go |->
                        frame(known.ethernet_address, addr, "IPv4", go[i].dgram)]
           rest   == still_waiting(queue, ip)
           sent   == [known EXCEPT !.frames_out = fs, !.queueing_IP_datagrams = rest]
           answer == frame(sent.ethernet_address, msg.sender_eth, "ARP",
                           arp_message(sent, "REPLY", msg.sender_eth, ip))
<1>1. recv_frame(ni, f) = reply(send_waiting(known, ip), msg)
  BY DEF recv_frame, learn
<1>2. /\ IsObject(known)
      /\ known.frames_out = << >>
      /\ known.queueing_IP_datagrams = queue
  BY DEF Shape, IsObject, Fields
<1>3. go \in Seq(E \cap for_hop(queue, ip))
  BY SelectedType
<1>4. /\ fs \in Seq({fs[i] : i \in DOMAIN fs})
      /\ \A i \in DOMAIN fs : /\ fs[i].type = "IPv4"
                              /\ fs[i].payload = go[i].dgram
      /\ DOMAIN fs = DOMAIN go
  <2> HIDE DEF go, known, addr
  <2>1. fs \in Seq({fs[i] : i \in DOMAIN fs}) /\ DOMAIN fs = DOMAIN go
    BY <1>3
  <2>2. \A i \in DOMAIN fs : fs[i] = frame(known.ethernet_address, addr, "IPv4", go[i].dgram)
    OBVIOUS
  <2> HIDE DEF fs
  <2> QED
    BY <2>1, <2>2 DEF frame
<1>5. send_waiting(known, ip) = sent
  <2>1. << >> \o fs = fs
    <3> HIDE DEF fs
    <3> QED
      BY <1>4
  <2>2. send_waiting(known, ip) =
          [known EXCEPT !.frames_out = @ \o fs, !.queueing_IP_datagrams = rest]
    <3>1. send_waiting(known, ip) =
          [known EXCEPT !.frames_out = @ \o fs,
                        !.queueing_IP_datagrams = still_waiting(@, ip)]
      BY <1>2 DEF send_waiting
    <3> HIDE DEF fs, known
    <3> QED
      BY <1>2, <3>1 DEF IsObject
  <2> HIDE DEF fs, known, rest
  <2> QED
    BY <1>2, <2>1, <2>2 DEF IsObject
<1> HIDE DEF known, rest, fs
<1>6. /\ IsObject(sent)
      /\ sent.frames_out = fs
      /\ sent.queueing_IP_datagrams = rest
  BY <1>2 DEF IsObject, Fields
<1>7. /\ answer.type = "ARP"
      /\ answer.payload.opcode = "REPLY"
  BY DEF frame, arp_message
<1> HIDE DEF sent, answer
<1>8. \/ reply(sent, msg) = sent
      \/ reply(sent, msg) = [sent EXCEPT !.frames_out = Append(fs, answer)]
  BY <1>6 DEF reply, push_frame, answer
<1> DEFINE n == reply(sent, msg)
<1>9. /\ n.queueing_IP_datagrams = rest
      /\ n.frames_out = fs \/ n.frames_out = Append(fs, answer)
  BY <1>6, <1>8 DEF IsObject, Fields
<1> HIDE DEF n
<1>10. Payloads(fs) = Dgrams(go)
  BY <1>4 DEF Payloads, Dgrams
<1>11. DatagramsIn(n.frames_out) = Dgrams(go)
  <2> DEFINE R == {fs[i] : i \in DOMAIN fs}
  <2>1. fs \in Seq(R) /\ \A e \in R : e.type = "IPv4"
    BY <1>4
  <2>2. answer.type # "IPv4"
    BY <1>7
  <2> HIDE DEF R, go
  <2>3. DatagramsIn(fs) = Payloads(fs) /\ DatagramsIn(Append(fs, answer)) = Payloads(fs)
    BY <2>1, <2>2, DatagramsOf
  <2> QED
    BY <1>9, <1>10, <2>3
<1>12. ASSUME NEW k PROVE ~AsksFor(n.frames_out, k)
  <2>1. \A i \in DOMAIN fs : ~IsRequest(fs[i], k)
    BY <1>4 DEF IsRequest
  <2>2. ~IsRequest(answer, k)
    BY <1>7 DEF IsRequest
  <2>3. \A i \in DOMAIN Append(fs, answer) :
          \/ i \in DOMAIN fs /\ Append(fs, answer)[i] = fs[i]
          \/ Append(fs, answer)[i] = answer
    BY <1>4
  <2> QED
    BY <1>9, <2>1, <2>2, <2>3 DEF AsksFor
<1> QED
  BY <1>1, <1>5, <1>9, <1>11, <1>12 DEF n, rest

(* The elements of a sequence that has grown.                              *)
LEMMA AppendParts ==
  ASSUME NEW E, NEW s \in Seq(E), NEW e
  PROVE  LET a == Append(s, e)
         IN  /\ a = [i \in 1 .. Len(s) + 1 |-> a[i]]
             /\ a[Len(s) + 1] = e
             /\ \A i \in 1 .. Len(s) : a[i] = s[i]
<1> DEFINE F == E \cup {e}
<1>1. s \in Seq(F) /\ e \in F
  OBVIOUS
<1> DEFINE a == Append(s, e)
<1> HIDE DEF F
<1>2. /\ a \in Seq(F) /\ Len(a) = Len(s) + 1 /\ a[Len(s) + 1] = e
      /\ \A i \in 1 .. Len(s) : a[i] = s[i]
  BY <1>1, AppendProperties
<1> HIDE DEF a
<1>3. a = [i \in 1 .. Len(a) |-> a[i]]
  BY <1>2
<1> QED
  BY <1>2, <1>3 DEF a

(* A history that has one more datagram, for hop: the earlier datagrams    *)
(* are for the hops they were for, and the new one is for hop.             *)
LEMMA OneMoreGiven ==
  ASSUME given \in Seq(Ips), NEW hop \in Ips, given' = Append(given, hop)
  PROVE  LET d == Len(given) + 1
         IN  /\ given' \in Seq(Ips) /\ Len(given') = d
             /\ DOMAIN given \subseteq DOMAIN given' /\ d \in DOMAIN given'
             /\ Entries \subseteq Entries'
             /\ [dgram |-> d, hop |-> hop] \in Entries'
             /\ AllGiven \in Seq(DOMAIN given) /\ AllGiven' = Append(AllGiven, d)
             /\ \A ip : d \in Hop(ip)' <=> ip = hop
             /\ \A ip : \A s \in Seq(DOMAIN given) :
                  selected(s, Hop(ip)') = selected(s, Hop(ip))
<1> DEFINE L == Len(given)
           d == L + 1
<1>1. /\ L \in Nat /\ DOMAIN given = 1 .. L /\ DOMAIN given' = 1 .. d
      /\ given' \in Seq(Ips) /\ Len(given') = d
      /\ \A i \in 1 .. L : given'[i] = given[i]
      /\ given'[d] = hop
  OBVIOUS
<1> HIDE DEF L
<1>2. DOMAIN given \subseteq DOMAIN given' /\ d \in DOMAIN given' /\ d \notin DOMAIN given
  BY <1>1
<1>3. \A i \in DOMAIN given : given'[i] = given[i]
  BY <1>1
<1> HIDE DEF d
<1>4. Entries \subseteq Entries'
  BY <1>2, <1>3 DEF Entries
<1>5. [dgram |-> d, hop |-> hop] \in Entries'
  BY <1>1, <1>2 DEF Entries
<1>6. AllGiven \in Seq(DOMAIN given) /\ AllGiven' = Append(AllGiven, d)
  <2>1. AllGiven = [i \in 1 .. L |-> i] /\ AllGiven' = [i \in 1 .. L + 1 |-> i]
    BY <1>1 DEF AllGiven, d
  <2>2. AllGiven \in Seq(DOMAIN given) /\ Len(AllGiven) = L
    BY <1>1, <2>1
  <2> DEFINE a == Append(AllGiven, d)
  <2>3. a = [i \in 1 .. L + 1 |-> a[i]] /\ a[L + 1] = d
        /\ \A i \in 1 .. L : a[i] = AllGiven[i]
    <3> DEFINE s == AllGiven
               E == DOMAIN given
    <3>1. s \in Seq(E) /\ Len(s) = L /\ a = Append(s, d)
      BY <2>2
    <3> HIDE DEF s, E
    <3>2. /\ Append(s, d) = [i \in 1 .. Len(s) + 1 |-> Append(s, d)[i]]
          /\ Append(s, d)[Len(s) + 1] = d
          /\ \A i \in 1 .. Len(s) : Append(s, d)[i] = s[i]
      BY <3>1, AppendParts
    <3> HIDE DEF a
    <3> QED
      BY <3>1, <3>2 DEF s
  <2> HIDE DEF a
  <2>4. \A i \in 1 .. L + 1 : a[i] = i
    <3> SUFFICES ASSUME NEW i \in 1 .. L + 1 PROVE a[i] = i
      OBVIOUS
    <3>1. CASE i \in 1 .. L
      BY <2>1, <2>3, <3>1
    <3>2. CASE i = L + 1
      BY <2>3, <3>2 DEF d
    <3> QED
      BY <1>1, <3>1, <3>2
  <2>5. a = [i \in 1 .. L + 1 |-> i]
    BY <2>3, <2>4
  <2> QED
    BY <2>1, <2>2, <2>5 DEF a
<1>7. ASSUME NEW ip PROVE d \in Hop(ip)' <=> ip = hop
  BY <1>1, <1>2 DEF Hop
<1>8. ASSUME NEW ip, NEW s \in Seq(DOMAIN given)
      PROVE  selected(s, Hop(ip)') = selected(s, Hop(ip))
  <2>1. \A i \in DOMAIN given : i \in Hop(ip)' <=> i \in Hop(ip)
    BY <1>2, <1>3 DEF Hop
  <2> QED
    BY <2>1, SelectedAgrees
<1> QED
  BY <1>1, <1>2, <1>4, <1>5, <1>6, <1>7, <1>8 DEF d, L

(* The datagrams of a queue of entries are datagrams that were given.      *)
LEMMA EntryDgrams ==
  ASSUME NEW q \in Seq(Entries)
  PROVE  /\ Dgrams(q) \in Seq(DOMAIN given)
         /\ \A i \in DOMAIN q : /\ q[i].dgram \in DOMAIN given
                                /\ given[q[i].dgram] = q[i].hop
<1>1. \A i \in DOMAIN q : q[i] \in Entries
  OBVIOUS
<1>2. \A e \in Entries : e.dgram \in DOMAIN given /\ given[e.dgram] = e.hop
  BY DEF Entries
<1>3. \A i \in DOMAIN q : q[i].dgram \in DOMAIN given
  BY <1>1, <1>2
<1> DEFINE D == DOMAIN given
<1> HIDE DEF D
<1>4. Dgrams(q) \in Seq(D)
  BY <1>3 DEF Dgrams, D
<1> QED
  BY <1>1, <1>2, <1>4 DEF D

(* send_datagram() keeps the order: the datagram is the last one for its   *)
(* hop, in a frame only if nothing waits for that hop.                     *)
LEMMA SendKeepsOrder ==
  ASSUME QInv, NEW hop \in Ips, SendDatagram(hop)
  PROVE  Ledger' /\ WaitingMeansAsked' /\ PerHopFifo'
<1> DEFINE d     == Len(given) + 1
           n     == send_datagram(ni, d, hop)
           known == hop \in DOMAIN ni.ethernet_addr_cache
           queue == ni.queueing_IP_datagrams
           entry == [dgram |-> d, hop |-> hop]
           G     == DOMAIN given
<1>1. given' = Append(given, hop) /\ given \in Seq(Ips)
  BY DEF SendDatagram, QInv, Ledger
<1>2. /\ given' \in Seq(Ips) /\ Len(given') = d
      /\ G \subseteq DOMAIN given' /\ d \in DOMAIN given'
      /\ Entries \subseteq Entries'
      /\ entry \in Entries'
      /\ AllGiven \in Seq(G) /\ AllGiven' = Append(AllGiven, d)
      /\ \A ip : d \in Hop(ip)' <=> ip = hop
      /\ \A ip : \A s \in Seq(G) : selected(s, Hop(ip)') = selected(s, Hop(ip))
  BY <1>1, OneMoreGiven
<1>3. /\ Return(n)
      /\ IsObject(n)
      /\ n.ethernet_addr_cache = ni.ethernet_addr_cache
      /\ DOMAIN ni.arp_timer \subseteq DOMAIN n.arp_timer
      /\ DOMAIN n.arp_timer \subseteq
           IF known THEN DOMAIN ni.arp_timer ELSE DOMAIN ni.arp_timer \cup {hop}
      /\ known => n.queueing_IP_datagrams = queue /\ DatagramsIn(n.frames_out) = <<d>>
      /\ ~known => /\ n.queueing_IP_datagrams = Append(queue, entry)
                   /\ DatagramsIn(n.frames_out) = << >>
                   /\ hop \in DOMAIN n.arp_timer
  <2>1. Shape
    BY DEF QInv, IInv
  <2>2. Return(n)
    BY <1>2 DEF SendDatagram
  <2> DEFINE asks == /\ hop \notin DOMAIN ni.ethernet_addr_cache
                     /\ ~(hop \in DOMAIN ni.arp_timer /\ ni.arp_timer[hop] < ARP_REQ_TIME)
  <2>3. /\ IsObject(n)
        /\ n.ethernet_addr_cache = ni.ethernet_addr_cache
        /\ n.arp_timer = IF asks THEN put(ni.arp_timer, hop, 0) ELSE ni.arp_timer
    BY <2>1, SendEffect
  <2>4. /\ known => n.queueing_IP_datagrams = queue /\ DatagramsIn(n.frames_out) = <<d>>
        /\ ~known => /\ n.queueing_IP_datagrams = Append(queue, entry)
                     /\ DatagramsIn(n.frames_out) = << >>
                     /\ hop \in DOMAIN n.arp_timer
    BY <2>1, SendQueues
  <2>5. asks => ~known
    OBVIOUS
  <2>6. DOMAIN put(ni.arp_timer, hop, 0) = DOMAIN ni.arp_timer \cup {hop}
    BY DEF put
  <2> HIDE DEF n, asks, known, entry, d, queue
  <2> QED
    BY <2>2, <2>3, <2>4, <2>5, <2>6
<1> HIDE DEF n, entry, d
<1>4. /\ ni'.ethernet_addr_cache = ni.ethernet_addr_cache
      /\ ni'.arp_timer = n.arp_timer
      /\ ni'.queueing_IP_datagrams = n.queueing_IP_datagrams
      /\ framed' = framed \o DatagramsIn(n.frames_out)
  BY <1>3 DEF Return, IsObject, Fields
<1>5. framed \in Seq(G) /\ queue \in Seq(Entries)
  BY DEF QInv, Ledger
<1>6. /\ Dgrams(queue) \in Seq(G)
      /\ Queued = Dgrams(queue) /\ Queued' = Dgrams(ni'.queueing_IP_datagrams)
      /\ \A i \in DOMAIN queue : queue[i].dgram \in G /\ given[queue[i].dgram] = queue[i].hop
  <2>1. Queued = Dgrams(queue) /\ Queued' = Dgrams(ni'.queueing_IP_datagrams)
    BY DEF Queued, Dgrams
  <2> QED
    BY <1>5, <2>1, EntryDgrams
<1>7. \A i \in DOMAIN queue : queue[i].hop \in DOMAIN ni.arp_timer
  BY DEF QInv, WaitingMeansAsked
<1>8. DOMAIN ni.arp_timer \cap DOMAIN ni.ethernet_addr_cache = {}
  BY DEF QInv, WaitingMeansAsked
<1>9. \A ip \in Ips : selected(framed, Hop(ip)) \o selected(Dgrams(queue), Hop(ip))
                        = selected(AllGiven, Hop(ip))
  BY <1>6 DEF QInv, PerHopFifo, ToHop
<1> HIDE DEF queue, G
<1>10. ASSUME NEW ip
       PROVE  selected(framed, Hop(ip)) \in Seq(G) /\ selected(Dgrams(queue), Hop(ip)) \in Seq(G)
  <2>1. /\ selected(framed, Hop(ip)) \in Seq(G \cap Hop(ip))
        /\ selected(Dgrams(queue), Hop(ip)) \in Seq(G \cap Hop(ip))
    BY <1>5, <1>6, SelectedType
  <2> QED
    BY <2>1
<1>11. ASSUME NEW ip, NEW s \in Seq(G)
       PROVE  selected(Append(s, d), Hop(ip)') =
                IF ip = hop THEN Append(selected(s, Hop(ip)), d) ELSE selected(s, Hop(ip))
  <2>1. selected(Append(s, d), Hop(ip)') =
          IF d \in Hop(ip)' THEN Append(selected(s, Hop(ip)'), d) ELSE selected(s, Hop(ip)')
    BY SelectedAppend
  <2> QED
    BY <1>2, <2>1
<1>12. CASE known
  <2>1. ni'.queueing_IP_datagrams = queue /\ framed' = framed \o <<d>>
    BY <1>3, <1>4, <1>12
  <2>2. framed' = Append(framed, d) /\ framed' \in Seq(DOMAIN given')
    <3> DEFINE H == DOMAIN given'
    <3>1. framed \in Seq(H) /\ d \in H
      BY <1>2, <1>5
    <3> HIDE DEF H
    <3>2. framed \o <<d>> = Append(framed, d) /\ Append(framed, d) \in Seq(H)
      BY <3>1, AppendIsConcat
    <3> QED
      BY <2>1, <3>2 DEF H
  <2>3. Ledger'
    <3>1. queue \in Seq(Entries')
      BY <1>2, <1>5
    <3> QED
      BY <1>2, <2>1, <2>2, <3>1 DEF Ledger
  <2>4. WaitingMeansAsked'
    BY <1>3, <1>4, <1>7, <1>8, <1>12, <2>1 DEF WaitingMeansAsked
  <2>5. selected(Dgrams(queue), Hop(hop)) = << >>
    <3> DEFINE M == {i \in G : given[i] # hop}
    <3>1. \A i \in DOMAIN queue : queue[i].hop # hop
      BY <1>7, <1>8, <1>12
    <3>2. \A i \in DOMAIN queue : queue[i].dgram \in M
      BY <1>6, <3>1
    <3>3. \A e \in M : e \notin Hop(hop)
      BY DEF Hop
    <3> HIDE DEF M
    <3>4. Dgrams(queue) \in Seq(M)
      BY <1>5, <3>2 DEF Dgrams
    <3> QED
      BY <3>3, <3>4, SelectedNone
  <2>6. ASSUME NEW ip \in Ips
        PROVE  selected(framed', Hop(ip)') \o selected(Queued', Hop(ip)')
                 = selected(AllGiven', Hop(ip)')
    <3>1. Queued' = Dgrams(queue)
      BY <1>6, <2>1
    <3>2. selected(Queued', Hop(ip)') = selected(Dgrams(queue), Hop(ip))
      BY <1>2, <1>6, <3>1
    <3>3. /\ selected(framed', Hop(ip)') =
               IF ip = hop THEN Append(selected(framed, Hop(ip)), d)
               ELSE selected(framed, Hop(ip))
          /\ selected(AllGiven', Hop(ip)') =
               IF ip = hop THEN Append(selected(AllGiven, Hop(ip)), d)
               ELSE selected(AllGiven, Hop(ip))
      BY <1>2, <1>5, <1>11, <2>2
    <3>4. CASE ip # hop
      BY <1>9, <3>2, <3>3, <3>4
    <3>5. CASE ip = hop
      <4> DEFINE a == selected(framed, Hop(ip))
                 H == G \cup {d}
      <4>1. a \in Seq(G) /\ a \o << >> = selected(AllGiven, Hop(ip))
        BY <1>9, <1>10, <2>5, <3>5
      <4>2. a \in Seq(H) /\ d \in H
        BY <4>1
      <4>3. selected(Queued', Hop(ip)') = << >>
        BY <2>5, <3>2, <3>5
      <4>4. /\ selected(framed', Hop(ip)') = Append(a, d)
            /\ selected(AllGiven', Hop(ip)') = Append(selected(AllGiven, Hop(ip)), d)
        BY <3>3, <3>5
      <4> HIDE DEF a, H
      <4>5. a \o << >> = a /\ Append(a, d) \o << >> = Append(a, d)
        BY <4>2
      <4> QED
        BY <4>1, <4>3, <4>4, <4>5, Zenon
    <3> QED
      BY <3>4, <3>5
  <2> QED
    BY <2>3, <2>4, <2>6 DEF PerHopFifo, ToHop
<1>13. CASE ~known
  <2>1. ni'.queueing_IP_datagrams = Append(queue, entry) /\ framed' = framed \o << >>
    BY <1>3, <1>4, <1>13
  <2>2. framed' = framed /\ framed' \in Seq(DOMAIN given')
    <3>1. framed \in Seq(DOMAIN given') /\ framed \o << >> = framed
      BY <1>2, <1>5
    <3> QED
      BY <2>1, <3>1
  <2>3. Ledger'
    <3>1. queue \in Seq(Entries')
      BY <1>2, <1>5
    <3>2. Append(queue, entry) \in Seq(Entries')
      BY <1>2, <3>1
    <3> QED
      BY <1>2, <2>1, <2>2, <3>2 DEF Ledger
  <2>4. WaitingMeansAsked'
    <3> DEFINE more == Append(queue, entry)
    <3>1. \A i \in DOMAIN more : (i \in DOMAIN queue /\ more[i] = queue[i]) \/ more[i] = entry
      BY <1>5
    <3>2. entry.hop = hop
      BY DEF entry
    <3> HIDE DEF more
    <3>3. \A i \in DOMAIN more : more[i].hop \in DOMAIN n.arp_timer
      BY <1>3, <1>7, <1>13, <3>1, <3>2
    <3>4. DOMAIN n.arp_timer \cap DOMAIN ni.ethernet_addr_cache = {}
      BY <1>3, <1>8, <1>13
    <3> QED
      BY <1>4, <2>1, <3>3, <3>4 DEF WaitingMeansAsked, more
  <2>5. Queued' = Append(Dgrams(queue), d)
    <3>1. Dgrams(Append(queue, entry)) = Append(Dgrams(queue), entry.dgram)
      BY <1>5, DgramsAppend
    <3> QED
      BY <1>6, <2>1, <3>1 DEF entry
  <2>6. ASSUME NEW ip \in Ips
        PROVE  selected(framed', Hop(ip)') \o selected(Queued', Hop(ip)')
                 = selected(AllGiven', Hop(ip)')
    <3>1. selected(framed', Hop(ip)') = selected(framed, Hop(ip))
      BY <1>2, <1>5, <2>2
    <3>2. /\ selected(Queued', Hop(ip)') =
               IF ip = hop THEN Append(selected(Dgrams(queue), Hop(ip)), d)
               ELSE selected(Dgrams(queue), Hop(ip))
          /\ selected(AllGiven', Hop(ip)') =
               IF ip = hop THEN Append(selected(AllGiven, Hop(ip)), d)
               ELSE selected(AllGiven, Hop(ip))
      BY <1>2, <1>6, <1>11, <2>5
    <3>3. CASE ip # hop
      BY <1>9, <3>1, <3>2, <3>3
    <3>4. CASE ip = hop
      <4> DEFINE a == selected(framed, Hop(ip))
                 b == selected(Dgrams(queue), Hop(ip))
                 H == G \cup {d}
      <4>1. a \in Seq(H) /\ b \in Seq(H) /\ d \in H
        BY <1>10
      <4>2. a \o b = selected(AllGiven, Hop(ip))
        BY <1>9
      <4>3. /\ selected(framed', Hop(ip)') = a
            /\ selected(Queued', Hop(ip)') = Append(b, d)
            /\ selected(AllGiven', Hop(ip)') = Append(selected(AllGiven, Hop(ip)), d)
        BY <3>1, <3>2, <3>4
      <4> HIDE DEF a, b, H
      <4> DEFINE y == <<d>>
      <4>4. y \in Seq(H) /\ a \o b \in Seq(H)
        BY <4>1
      <4>5. Append(a \o b, d) = (a \o b) \o y /\ Append(b, d) = b \o y
        BY <4>1, <4>4, AppendIsConcat
      <4> HIDE DEF y
      <4>6. Associate(a, b, y)
        BY <4>1, <4>4, Associates, Zenon
      <4> QED
        BY <4>2, <4>3, <4>5, <4>6, Zenon DEF Associate
    <3> QED
      BY <3>3, <3>4
  <2> QED
    BY <2>3, <2>4, <2>6 DEF PerHopFifo, ToHop
<1> QED
  BY <1>12, <1>13

(* So does an ARP message: what waited for its sender goes out as it       *)
(* stood, and what waits for others stays as it stood.                     *)
LEMMA RecvKeepsOrder ==
  ASSUME QInv, NEW dst, NEW opcode, NEW ip \in Ips, NEW eth, NEW target,
         RecvArp(dst, opcode, ip, eth, target)
  PROVE  /\ Ledger' /\ WaitingMeansAsked' /\ PerHopFifo'
         /\ \A k : ~AsksFor(out', k)
<1> DEFINE msg   == [ opcode |-> opcode, sender_eth |-> eth, sender_ip |-> ip,
                      target_eth |-> dst, target_ip |-> target ]
           f     == frame(eth, dst, "ARP", msg)
           n     == recv_frame(ni, f)
           queue == ni.queueing_IP_datagrams
           G     == DOMAIN given
<1>1. Return(n) /\ given' = given
  BY DEF RecvArp
<1>2. f.type = "ARP" /\ f.payload.sender_ip = ip
  BY DEF frame
<1>3. Shape
  BY DEF QInv, IInv
<1>4. /\ given \in Seq(Ips) /\ framed \in Seq(G) /\ queue \in Seq(Entries)
      /\ Entries' = Entries
  BY <1>1 DEF QInv, Ledger, Entries
<1> HIDE DEF f
<1>5. CASE ~for_us(ni, f)
  <2>1. n = ni
    BY <1>5 DEF recv_frame
  <2>2. /\ ni' = [ni EXCEPT !.frames_out = << >>]
        /\ out' = << >> /\ framed' = framed \o << >>
    BY <1>1, <1>3, <2>1, NoDatagrams DEF Return, Shape
  <2>3. ni' = ni
    BY <1>3, <2>2 DEF Shape, IsObject
  <2>4. framed' = framed
    BY <1>4, <2>2
  <2>5. Ledger' /\ WaitingMeansAsked' /\ PerHopFifo'
    BY <1>1, <2>3, <2>4 DEF QInv, Ledger, Entries, WaitingMeansAsked, PerHopFifo, ToHop, Hop,
                            Queued, AllGiven
  <2> QED
    BY <2>2, <2>5 DEF AsksFor
<1>6. CASE for_us(ni, f)
  <2> DEFINE go   == selected(queue, for_hop(queue, ip))
             rest == still_waiting(queue, ip)
             R    == {queue[i] : i \in DOMAIN queue}
  <2>1. /\ IsObject(n)
        /\ DOMAIN n.ethernet_addr_cache = DOMAIN ni.ethernet_addr_cache \cup {ip}
        /\ DOMAIN n.arp_timer = DOMAIN ni.arp_timer \ {ip}
    <3>1. /\ IsObject(n)
          /\ n.ethernet_addr_cache = put(ni.ethernet_addr_cache, ip,
                                         [addr |-> f.payload.sender_eth, timer |-> 0])
          /\ n.arp_timer = erase(ni.arp_timer, {ip})
      BY <1>2, <1>3, <1>6, RecvEffect
    <3> HIDE DEF n
    <3> QED
      BY <3>1 DEF put, erase
  <2>2. /\ n.queueing_IP_datagrams = rest
        /\ DatagramsIn(n.frames_out) = Dgrams(go)
        /\ \A k : ~AsksFor(n.frames_out, k)
    <3>1. LET j == f.payload.sender_ip
          IN  /\ n.queueing_IP_datagrams = still_waiting(queue, j)
              /\ DatagramsIn(n.frames_out) = Dgrams(selected(queue, for_hop(queue, j)))
              /\ \A k : ~AsksFor(n.frames_out, k)
      BY <1>2, <1>3, <1>4, <1>6, RecvSends
    <3> HIDE DEF n
    <3> QED
      BY <1>2, <3>1
  <2> HIDE DEF n
  <2>3. /\ DOMAIN ni'.ethernet_addr_cache = DOMAIN ni.ethernet_addr_cache \cup {ip}
        /\ DOMAIN ni'.arp_timer = DOMAIN ni.arp_timer \ {ip}
        /\ ni'.queueing_IP_datagrams = rest
        /\ out' = n.frames_out
        /\ framed' = framed \o Dgrams(go)
    BY <1>1, <2>1, <2>2 DEF Return, IsObject, Fields
  <2>4. /\ go \in Seq(R \cap for_hop(queue, ip))
        /\ rest \in Seq(R \cap (R \ for_hop(queue, ip)))
        /\ R \subseteq Entries
    <3>1. queue \in Seq(R) /\ R \subseteq Entries
      BY <1>4, OwnElements, Zenon
    <3>2. rest = selected(queue, R \ for_hop(queue, ip))
      BY DEF still_waiting
    <3> HIDE DEF R, rest
    <3> QED
      BY <3>1, <3>2, SelectedType
  <2>5. go \in Seq(Entries) /\ rest \in Seq(Entries)
    <3> HIDE DEF go, rest, R
    <3> QED
      BY <2>4
  <2>6. Dgrams(go) \in Seq(G) /\ Dgrams(rest) \in Seq(G)
    <3> HIDE DEF go, rest
    <3> QED
      BY <2>5, EntryDgrams
  <2>7. Ledger'
    <3>1. framed \o Dgrams(go) \in Seq(G)
      <4> HIDE DEF go, G
      <4> QED
        BY <1>4, <2>6
    <3> HIDE DEF go, rest
    <3> QED
      BY <1>1, <1>4, <2>3, <2>5, <3>1 DEF Ledger
  <2>8. WaitingMeansAsked'
    <3>1. \A e \in R \cap (R \ for_hop(queue, ip)) : e.hop # ip /\ e.hop \in DOMAIN ni.arp_timer
      BY DEF for_hop, QInv, WaitingMeansAsked
    <3>2. DOMAIN ni.arp_timer \cap DOMAIN ni.ethernet_addr_cache = {}
      BY DEF QInv, WaitingMeansAsked
    <3> HIDE DEF rest, R
    <3>3. \A i \in DOMAIN rest : rest[i] \in R \cap (R \ for_hop(queue, ip))
      BY <2>4
    <3>4. \A i \in DOMAIN rest : rest[i].hop \in DOMAIN ni.arp_timer \ {ip}
      BY <3>1, <3>3
    <3> QED
      BY <2>3, <3>2, <3>4 DEF WaitingMeansAsked
  <2>9. ASSUME NEW h \in Ips
        PROVE  selected(framed', Hop(h)') \o selected(Queued', Hop(h)')
                 = selected(AllGiven', Hop(h)')
    <3> DEFINE S == Hop(h)
               a == selected(framed, S)
               b == selected(Dgrams(go), S)
               c == selected(Dgrams(rest), S)
    <3>1. Hop(h)' = S /\ AllGiven' = AllGiven
      BY <1>1 DEF Hop, AllGiven
    <3>2. Queued' = Dgrams(rest) /\ Queued = Dgrams(queue)
      <4>1. Queued' = Dgrams(ni'.queueing_IP_datagrams) /\ Queued = Dgrams(queue)
        BY DEF Queued, Dgrams
      <4> QED
        BY <2>3, <4>1
    <3>3. \A i \in DOMAIN queue : queue[i].dgram \in S <=> queue[i].hop = h
      <4>1. \A i \in DOMAIN queue : queue[i].dgram \in G /\ given[queue[i].dgram] = queue[i].hop
        BY <1>4, EntryDgrams
      <4> QED
        BY <4>1 DEF Hop
    <3>4. b \o c = selected(Dgrams(queue), S)
      <4> HIDE DEF S, queue
      <4> QED
        BY <1>4, <3>3, QueueSplit
    <3>5. a \o selected(Dgrams(queue), S) = selected(AllGiven, S)
      BY <3>2 DEF QInv, PerHopFifo, ToHop
    <3> HIDE DEF S, go, rest, G
    <3>6. selected(framed \o Dgrams(go), S) = a \o b
      BY <1>4, <2>6, SelectedConcat
    <3>7. a \in Seq(G) /\ b \in Seq(G) /\ c \in Seq(G)
      <4>1. a \in Seq(G \cap S) /\ b \in Seq(G \cap S) /\ c \in Seq(G \cap S)
        BY <1>4, <2>6, SelectedType
      <4> HIDE DEF a, b, c
      <4> QED
        BY <4>1
    <3> HIDE DEF a, b, c
    <3>8. Associate(a, b, c)
      BY <3>7, Associates, Zenon
    <3>9. /\ selected(framed', Hop(h)') = a \o b
          /\ selected(Queued', Hop(h)') = c
          /\ selected(AllGiven', Hop(h)') = selected(AllGiven, S)
      BY <2>3, <3>1, <3>2, <3>6 DEF c
    <3> QED
      BY <3>4, <3>5, <3>8, <3>9, Zenon DEF Associate
  <2> QED
    BY <2>2, <2>3, <2>7, <2>8, <2>9 DEF PerHopFifo, ToHop
<1> QED
  BY <1>5, <1>6

(* Time moves no datagram; it may end what is known, not what is asked.    *)
LEMMA TickKeepsOrder ==
  ASSUME QInv, NEW ms \in Ticks, Tick(ms)
  PROVE  /\ Ledger' /\ WaitingMeansAsked' /\ PerHopFifo'
         /\ \A k : ~AsksFor(out', k)
<1> DEFINE n == tick(ni, ms)
<1>1. Return(n) /\ given' = given
  BY DEF Tick
<1>2. Shape
  BY DEF QInv, IInv
<1> DEFINE old    == ni.ethernet_addr_cache
           aged   == [ip \in DOMAIN old |-> [old[ip] EXCEPT !.timer = @ + ms]]
           stale  == {ip \in DOMAIN aged : expired(aged[ip])}
           cache  == erase(aged, stale)
           timers == [ip \in DOMAIN ni.arp_timer |->
                        IF ni.arp_timer[ip] + ms < ARP_REQ_TIME
                        THEN ni.arp_timer[ip] + ms ELSE ARP_REQ_TIME]
<1>3. n = [ni EXCEPT !.ethernet_addr_cache = cache, !.arp_timer = timers]
  BY DEF tick
<1>4. /\ DOMAIN cache \subseteq DOMAIN ni.ethernet_addr_cache
      /\ DOMAIN timers = DOMAIN ni.arp_timer
  BY DEF erase
<1> HIDE DEF n, cache, timers
<1>5. /\ IsObject(n) /\ n.frames_out = << >>
      /\ n.ethernet_addr_cache = cache /\ n.arp_timer = timers
      /\ n.queueing_IP_datagrams = ni.queueing_IP_datagrams
  BY <1>2, <1>3 DEF Shape, IsObject, Fields
<1>6. /\ ni'.ethernet_addr_cache = cache /\ ni'.arp_timer = timers
      /\ ni'.queueing_IP_datagrams = ni.queueing_IP_datagrams
      /\ out' = << >> /\ framed' = framed \o << >>
  BY <1>1, <1>5, NoDatagrams DEF Return, IsObject, Fields
<1>7. framed' = framed
  BY <1>6 DEF QInv, Ledger
<1>8. WaitingMeansAsked'
  BY <1>4, <1>6 DEF QInv, WaitingMeansAsked
<1>9. Ledger' /\ PerHopFifo'
  BY <1>1, <1>6, <1>7 DEF QInv, Ledger, Entries, PerHopFifo, ToHop, Hop, Queued, AllGiven
<1> QED
  BY <1>6, <1>8, <1>9 DEF AsksFor

(* Every step keeps the invariant.                                         *)
LEMMA IInvInductive == IInv /\ [Next]_vars => IInv'
<1> SUFFICES ASSUME IInv, [Next]_vars PROVE IInv'
  OBVIOUS
<1>1. CASE \E hop \in Ips : SendDatagram(hop)
  BY <1>1, SendKeepsIInv
<1>2. ASSUME NEW dst \in Eths \cup {OwnEth, ETHERNET_BROADCAST},
             NEW opcode \in {"REQUEST", "REPLY"}, NEW ip \in Ips, NEW eth \in Eths,
             NEW target \in Ips \cup {OwnIp}, RecvArp(dst, opcode, ip, eth, target)
      PROVE  IInv'
  BY <1>2, RecvKeepsIInv
<1>3. CASE \E ms \in Ticks : Tick(ms)
  BY <1>3, TickKeepsIInv
<1>4. CASE UNCHANGED vars
  BY <1>4 DEF vars, IInv, Shape, IsObject, IsMap, Histories, CacheIsRecentHearsay, AskedOrHeard
<1> QED BY <1>1, <1>2, <1>3, <1>4 DEF Next

(* For any stations, times and durations: an address is in the cache, with *)
(* the age of the latest announcement, exactly as long as that was heard   *)
(* less than CACHE_VALID_TIME ago (network_interface.cc, lines 96-139 and  *)
(* 142-167).                                                               *)
THEOREM CacheIsRecent == Spec => []CacheIsRecentHearsay
<1>1. IInv => CacheIsRecentHearsay
  BY DEF IInv
<1> QED BY <1>1, InitIInv, IInvInductive, PTL DEF Spec

(* A new interface was given nothing, and nothing waits.                   *)
LEMMA InitQInv == Init => QInv
<1> SUFFICES ASSUME Init PROVE QInv
  OBVIOUS
<1>1. /\ ni.queueing_IP_datagrams = << >> /\ ni.arp_timer = << >>
      /\ given = << >> /\ framed = << >>
  BY DEF Init, New
<1>2. Ledger
  BY <1>1 DEF Ledger
<1>3. WaitingMeansAsked
  BY <1>1 DEF WaitingMeansAsked
<1>4. Queued = << >> /\ AllGiven = << >>
  BY <1>1 DEF Queued, AllGiven
<1>5. PerHopFifo
  <2>1. \A ip : ToHop(ip, framed) = << >> /\ ToHop(ip, Queued) = << >>
              /\ ToHop(ip, AllGiven) = << >>
    BY <1>1, <1>4, SelectedEmpty DEF ToHop
  <2>2. << >> \o << >> = << >>
    OBVIOUS
  <2> QED
    BY <2>1, <2>2, Zenon DEF PerHopFifo
<1> QED
  BY <1>2, <1>3, <1>5, InitIInv DEF QInv

(* Every step keeps the invariant of the queue.                            *)
LEMMA QInvInductive == QInv /\ [Next]_vars => QInv'
<1> SUFFICES ASSUME QInv, [Next]_vars PROVE QInv'
  OBVIOUS
<1>1. IInv'
  BY IInvInductive DEF QInv
<1>2. CASE \E hop \in Ips : SendDatagram(hop)
  BY <1>1, <1>2, SendKeepsOrder DEF QInv
<1>3. ASSUME NEW dst \in Eths \cup {OwnEth, ETHERNET_BROADCAST},
             NEW opcode \in {"REQUEST", "REPLY"}, NEW ip \in Ips, NEW eth \in Eths,
             NEW target \in Ips \cup {OwnIp}, RecvArp(dst, opcode, ip, eth, target)
      PROVE  QInv'
  BY <1>1, <1>3, RecvKeepsOrder DEF QInv
<1>4. CASE \E ms \in Ticks : Tick(ms)
  BY <1>1, <1>4, TickKeepsOrder DEF QInv
<1>5. CASE UNCHANGED vars
  BY <1>1, <1>5 DEF vars, QInv, Ledger, Entries, WaitingMeansAsked, PerHopFifo, ToHop, Hop,
                    Queued, AllGiven
<1> QED BY <1>2, <1>3, <1>4, <1>5 DEF Next

(* For any stations, times and number of datagrams: per next hop, the      *)
(* datagrams that have left followed by those that wait are the ones that  *)
(* were handed over, in that order.  recv_frame() empties the queue of     *)
(* what waits for an address the moment it learns it                       *)
(* (network_interface.cc, lines 108-119), so a datagram that finds its     *)
(* address in the cache overtakes none.                                    *)
THEOREM OrderIsKept == Spec => []PerHopFifo
<1>1. QInv => PerHopFifo
  BY DEF QInv
<1> QED BY <1>1, InitQInv, QInvInductive, PTL DEF Spec

(* A datagram waits only for an address that is not known and that has     *)
(* been asked for: tick() takes no timer away, and the answer that does    *)
(* sends what waits.                                                       *)
THEOREM WaitingIsAsked == Spec => []WaitingMeansAsked
<1>1. QInv => WaitingMeansAsked
  BY DEF QInv
<1> QED BY <1>1, InitQInv, QInvInductive, PTL DEF Spec

(* What send_datagram() asks for has not been asked for within             *)
(* ARP_REQ_TIME: the bookkeeping of the two maps paces the requests even   *)
(* when an answer erases the timer in between, because the mapping that    *)
(* the answer brought lives at least as long as the pause.                 *)
LEMMA SendIsPaced ==
  ASSUME IInv, NEW hop \in Ips, SendDatagram(hop), NEW ip \in Ips, AsksFor(out', ip)
  PROVE  asked[ip] >= ARP_REQ_TIME
<1> DEFINE n == send_datagram(ni, Len(given'), hop)
<1>1. /\ IsObject(n)
      /\ AsksFor(n.frames_out, ip) =>
           /\ ip = hop
           /\ hop \notin DOMAIN ni.ethernet_addr_cache
           /\ ~(hop \in DOMAIN ni.arp_timer /\ ni.arp_timer[hop] < ARP_REQ_TIME)
  BY SendEffect DEF IInv
<1>2. Return(n)
  BY DEF SendDatagram
<1> HIDE DEF n
<1>3. /\ ip \notin DOMAIN ni.ethernet_addr_cache
      /\ ~(ip \in DOMAIN ni.arp_timer /\ ni.arp_timer[ip] < ARP_REQ_TIME)
  BY <1>1, <1>2, ReturnEffect
<1>4. asked[ip] \in 0 .. Old /\ heard[ip].age \in 0 .. Old
  BY DEF IInv, Histories
<1>5. ~(heard[ip].age < CACHE_VALID_TIME)
  BY <1>3 DEF IInv, CacheIsRecentHearsay
<1>6. asked[ip] < ARP_REQ_TIME =>
        \/ ip \in DOMAIN ni.arp_timer /\ ni.arp_timer[ip] = asked[ip]
        \/ heard[ip].age <= asked[ip]
  BY DEF IInv, AskedOrHeard
<1> QED BY <1>3, <1>4, <1>5, <1>6, InterfaceAssumption DEF Old

(* No step of the interface, whatever arrives and whatever expires, asks   *)
(* for an address that was asked for within ARP_REQ_TIME                   *)
(* (network_interface.hh, line 53): send_datagram() paces its requests,    *)
(* and recv_frame() and tick() ask for nothing.                            *)
THEOREM RequestsPaced == Spec => RequestsArePaced
<1> DEFINE Paced == \A ip \in Ips : AsksFor(out', ip) => asked[ip] >= ARP_REQ_TIME
<1>1. ASSUME QInv, [Next]_vars PROVE [Paced]_vars
  <2>1. CASE \E hop \in Ips : SendDatagram(hop)
    BY <1>1, <2>1, SendIsPaced DEF QInv
  <2>2. ASSUME NEW dst \in Eths \cup {OwnEth, ETHERNET_BROADCAST},
               NEW opcode \in {"REQUEST", "REPLY"}, NEW ip \in Ips, NEW eth \in Eths,
               NEW target \in Ips \cup {OwnIp}, RecvArp(dst, opcode, ip, eth, target)
        PROVE  Paced
    BY <1>1, <2>2, RecvKeepsOrder
  <2>3. CASE \E ms \in Ticks : Tick(ms)
    BY <1>1, <2>3, TickKeepsOrder
  <2> QED BY <1>1, <2>1, <2>2, <2>3 DEF Next
<1> QED BY <1>1, InitQInv, QInvInductive, PTL DEF Spec, RequestsArePaced
=============================================================================
