---------------------- MODULE WrappingIntegersProofs ----------------------
(***************************************************************************)
(* unwrap() finds the closest number, for every modulus, every initial     *)
(* sequence number and every two positions of the ends of the stream.      *)
(*                                                                         *)
(* All candidates of a header are (k laps) + residue, for the same residue *)
(* below Modulus.  So the proof names the lap of the sender's number, the  *)
(* lap of the checkpoint and the lap of the result, and compares laps.     *)
(***************************************************************************)
EXTENDS WrappingIntegersSpec, TLAPS

(* A natural number is its lap and its residue, and no other lap and       *)
(* residue make the same number.                                           *)
LEMMA Laps ==
  ASSUME NEW a \in Nat
  PROVE  /\ a \div Modulus \in Nat
         /\ a % Modulus \in Wrapping
         /\ a = ((a \div Modulus) * Modulus) + (a % Modulus)
BY ModulusAssumption DEF Wrapping

(* The remainder of a sum of whole laps and a rest is the rest.            *)
LEMMA Residue ==
  ASSUME NEW k \in Nat, NEW m \in Wrapping
  PROVE  /\ (k * Modulus) + m \in Nat
         /\ ((k * Modulus) + m) % Modulus = m
BY ModulusAssumption DEF Wrapping

(* Later laps are higher by whole laps.                                    *)
LEMMA LapsInOrder ==
  ASSUME NEW j \in Nat, NEW k \in Nat
  PROVE  /\ j * Modulus \in Nat
         /\ (j + 1) * Modulus = (j * Modulus) + Modulus
         /\ j < k => (j + 1) * Modulus <= k * Modulus
         /\ j <= k => j * Modulus <= k * Modulus
BY ModulusAssumption

(* A sum of two numbers of the first lap ends in it or in the second.      *)
LEMMA SumOfTwo ==
  ASSUME NEW a \in Wrapping, NEW b \in Wrapping
  PROVE  (a + b) % Modulus = IF a + b < Modulus THEN a + b ELSE a + b - Modulus
<1>1. CASE a + b < Modulus
  BY <1>1, ModulusAssumption DEF Wrapping
<1>2. CASE a + b >= Modulus
  <2>1. a + b - Modulus \in Wrapping /\ a + b = (1 * Modulus) + (a + b - Modulus)
    BY <1>2, ModulusAssumption DEF Wrapping
  <2> QED BY <1>2, <2>1, Residue, ModulusAssumption DEF Wrapping
<1> QED BY <1>1, <1>2, ModulusAssumption DEF Wrapping

(* The distance that unwrap() computes from the header is the residue of   *)
(* the number that was wrapped (wrapping_integers.cc, lines 33-35).        *)
LEMMA AbsSeqno ==
  ASSUME NEW s \in Nat, NEW i \in Wrapping
  PROVE  wrap(s, i) \in Wrapping /\ abs_seqno(wrap(s, i), i) = s % Modulus
<1> DEFINE m == s % Modulus
<1>1. m \in Wrapping
  BY Laps
<1>2. wrap(s, i) = IF i + m < Modulus THEN i + m ELSE i + m - Modulus
  BY <1>1, SumOfTwo DEF wrap, plus
<1> HIDE DEF m
<1>3. wrap(s, i) \in Wrapping /\ abs_seqno(wrap(s, i), i) = m
  BY <1>1, <1>2, ModulusAssumption DEF Wrapping, abs_seqno
<1> QED BY <1>3 DEF m

(* What unwrap() returns lies a whole number of laps above the residue.   *)
(* It never goes down from the first lap: there abs_seqno >= checkpoint.   *)
LEMMA UnwrapInLaps ==
  ASSUME NEW m \in Wrapping, NEW c \in Nat, m < c
  PROVE  LET q    == c \div Modulus
             low  == c % Modulus
             near == nearby_abs_seqno(m, c)
         IN  \/ low > m /\ 2 * (low - m) >= Modulus /\ near = ((q + 1) * Modulus) + m
             \/ low > m /\ 2 * (low - m) < Modulus /\ near = (q * Modulus) + m
             \/ low <= m /\ 2 * (m - low) < Modulus /\ near = (q * Modulus) + m
             \/ /\ low <= m /\ 2 * (m - low) >= Modulus
                /\ q - 1 \in Nat /\ near = ((q - 1) * Modulus) + m
<1> DEFINE q    == c \div Modulus
           low  == c % Modulus
           lap  == q * Modulus
           half == Modulus \div 2
<1>1. q \in Nat /\ low \in Wrapping /\ lap \in Nat /\ c = lap + low
  BY Laps, ModulusAssumption
<1>2. half \in Nat /\ 2 * half = Modulus
  BY ModulusAssumption
<1>3. (q + 1) * Modulus = lap + Modulus
  BY <1>1, LapsInOrder
<1>4. q # 0 => q - 1 \in Nat /\ (q - 1) * Modulus = lap - Modulus
  BY <1>1, ModulusAssumption
<1>5. q = 0 => lap = 0
  BY ModulusAssumption
<1>6. nearby_abs_seqno(m, c) =
        IF low > m
        THEN IF low - m >= half THEN lap + m + Modulus ELSE lap + m
        ELSE IF m - low >= half THEN lap + m - Modulus ELSE lap + m
  BY DEF nearby_abs_seqno
<1> HIDE DEF q, low, lap, half
<1>7. CASE low > m
  BY <1>1, <1>2, <1>3, <1>6, <1>7, ModulusAssumption DEF Wrapping, q, low, lap
<1>8. CASE ~(low > m)
  BY <1>1, <1>2, <1>4, <1>5, <1>6, <1>8, ModulusAssumption DEF Wrapping, q, low, lap
<1> QED BY <1>7, <1>8

(* Two numbers with the residue m, on laps j and k, are equal or at least  *)
(* a lap apart.                                                            *)
LEMMA LapsApart ==
  ASSUME NEW j \in Nat, NEW k \in Nat
  PROVE  \/ j = k
         \/ (j * Modulus) + Modulus <= k * Modulus
         \/ (k * Modulus) + Modulus <= j * Modulus
BY LapsInOrder, ModulusAssumption

(* The result has the residue of the number that was wrapped, and is no    *)
(* further from the checkpoint than any number s that wraps to the header. *)
LEMMA Closest ==
  ASSUME NEW s \in Nat, NEW i \in Wrapping, NEW c \in Nat
  PROVE  LET u == unwrap(wrap(s, i), i, c)
         IN  /\ u \in Nat
             /\ u % Modulus = s % Modulus
             /\ Distance(u, c) <= Distance(s, c)
<1> DEFINE m   == s % Modulus
           p   == s \div Modulus
           q   == c \div Modulus
           low == c % Modulus
           u   == unwrap(wrap(s, i), i, c)
<1>1. /\ m \in Wrapping /\ p \in Nat /\ s = (p * Modulus) + m
      /\ low \in Wrapping /\ q \in Nat /\ c = (q * Modulus) + low
  BY Laps
<1>2. u = IF m >= c THEN m ELSE nearby_abs_seqno(m, c)
  BY AbsSeqno DEF unwrap
<1>3. p * Modulus \in Nat /\ q * Modulus \in Nat
  BY <1>1, LapsInOrder
<1>4. CASE m >= c
  <2>1. u = m /\ u = (0 * Modulus) + m
    BY <1>1, <1>2, <1>4, ModulusAssumption DEF Wrapping
  <2>2. u % Modulus = m
    BY <1>1, <2>1, Residue
  <2>3. u \in Nat /\ Distance(u, c) <= Distance(s, c)
    BY <1>1, <1>3, <1>4, <2>1, ModulusAssumption DEF Distance, Wrapping
  <2> QED BY <2>2, <2>3
<1>5. CASE m < c
  <2>1. u = nearby_abs_seqno(m, c)
    BY <1>1, <1>2, <1>5, ModulusAssumption DEF Wrapping
  <2>2. \/ low > m /\ 2 * (low - m) >= Modulus /\ u = ((q + 1) * Modulus) + m
        \/ low > m /\ 2 * (low - m) < Modulus /\ u = (q * Modulus) + m
        \/ low <= m /\ 2 * (m - low) < Modulus /\ u = (q * Modulus) + m
        \/ /\ low <= m /\ 2 * (m - low) >= Modulus
           /\ q - 1 \in Nat /\ u = ((q - 1) * Modulus) + m
    BY <1>1, <1>5, <2>1, UnwrapInLaps
  <2>3. \E k \in Nat : u = (k * Modulus) + m
    BY <1>1, <2>2
  <2>4. u \in Nat /\ u % Modulus = m
    BY <1>1, <2>3, Residue
  <2>5. \/ p = q
        \/ (p * Modulus) + Modulus <= q * Modulus
        \/ (q * Modulus) + Modulus <= p * Modulus
    BY <1>1, LapsApart
  <2>6. /\ (q + 1) * Modulus = (q * Modulus) + Modulus
        /\ q - 1 \in Nat => (q - 1) * Modulus = (q * Modulus) - Modulus
    BY <1>1, ModulusAssumption
  <2> HIDE DEF m, p, q, low, u
  <2>7. Distance(u, c) <= Distance(s, c)
    BY <1>1, <1>3, <2>2, <2>4, <2>5, <2>6, ModulusAssumption DEF Distance, Wrapping
  <2> QED BY <2>4, <2>7 DEF m, u
<1> QED BY <1>1, <1>4, <1>5, ModulusAssumption DEF Wrapping

(* A header of a stream is the wrapped number of the sender, for ever.     *)
IInv == TypeOK /\ header = wrap(seqno, isn)

(* The header always holds the number of the sender, wrapped.              *)
LEMMA HeaderIsWrapped == Spec => []IInv
<1>1. Init => IInv
  BY AbsSeqno, MaxSeqnoAssumption DEF Init, IInv, TypeOK
<1>2. IInv /\ [Next]_vars => IInv'
  <2> SUFFICES ASSUME IInv, [Next]_vars PROVE IInv'
    OBVIOUS
  <2>1. CASE Send
    <3>1. seqno' \in 0 .. MaxSeqno /\ seqno' \in Nat
      BY <2>1, MaxSeqnoAssumption DEF Send, IInv, TypeOK
    <3>2. header' \in Wrapping
      BY <2>1, <3>1, AbsSeqno DEF Send, IInv, TypeOK
    <3> QED BY <2>1, <3>1, <3>2 DEF Send, IInv, TypeOK
  <2>2. CASE Advance
    BY <2>2, MaxSeqnoAssumption DEF Advance, IInv, TypeOK
  <2>3. CASE UNCHANGED vars
    BY <2>3 DEF vars, IInv, TypeOK
  <2> QED BY <2>1, <2>2, <2>3 DEF Next
<1> QED BY <1>1, <1>2, PTL DEF Spec

(* wrapping_integers.hh, line 30: unwrap() returns the number that wraps   *)
(* to the header and is closest to the checkpoint, for every even modulus, *)
(* 2^32 included, and streams of any length.                               *)
THEOREM UnwrapIsClosest == Spec => []ClosestToCheckpoint
<1>1. IInv => ClosestToCheckpoint
  <2> SUFFICES ASSUME IInv PROVE ClosestToCheckpoint
    OBVIOUS
  <2>1. seqno \in Nat /\ checkpoint \in Nat /\ isn \in Wrapping /\ header = wrap(seqno, isn)
    BY MaxSeqnoAssumption DEF IInv, TypeOK
  <2>2. /\ Recovered % Modulus = seqno % Modulus
        /\ Distance(Recovered, checkpoint) <= Distance(seqno, checkpoint)
    BY <2>1, Closest DEF Recovered
  <2>3. wrap(Recovered, isn) = header
    BY <2>1, <2>2 DEF wrap
  <2> QED BY <2>2, <2>3 DEF ClosestToCheckpoint
<1> QED BY <1>1, HeaderIsWrapped, PTL

(* unwrap() inverts wrap() whenever the number that was wrapped is less    *)
(* than half a lap from the checkpoint, whichever of the two is ahead.     *)
THEOREM UnwrapInverts ==
  ASSUME NEW s \in Nat, NEW i \in Wrapping, NEW c \in Nat,
         2 * Distance(s, c) < Modulus
  PROVE  unwrap(wrap(s, i), i, c) = s
<1> DEFINE u == unwrap(wrap(s, i), i, c)
           k == u \div Modulus
           p == s \div Modulus
           m == s % Modulus
<1>1. u \in Nat /\ u % Modulus = m /\ Distance(u, c) <= Distance(s, c)
  BY Closest
<1>2. /\ m \in Wrapping
      /\ k \in Nat /\ u = (k * Modulus) + m
      /\ p \in Nat /\ s = (p * Modulus) + m
  BY <1>1, Laps
<1>3. \/ k = p
      \/ (k * Modulus) + Modulus <= p * Modulus
      \/ (p * Modulus) + Modulus <= k * Modulus
  BY <1>2, LapsApart
<1>4. k * Modulus \in Nat /\ p * Modulus \in Nat
  BY <1>2, LapsInOrder
<1> HIDE DEF u, k, p, m
<1>5. u = s
  BY <1>1, <1>2, <1>3, <1>4, ModulusAssumption DEF Distance, Wrapping
<1> QED BY <1>5 DEF u
=============================================================================
