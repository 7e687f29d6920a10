-------------------------- MODULE TCPSenderProofs --------------------------
(***************************************************************************)
(* The sender is correct for every stream, capacity, window, payload size  *)
(* and initial sequence number, and for every acknowledgment that may      *)
(* arrive: the theorems, and the proof of the Foundations on which the     *)
(* lemmas of TCPSenderLemmas rest.                                         *)
(***************************************************************************)
EXTENDS TCPSenderLemmas, WellFoundedInduction, TLAPS

\* The arithmetic of sequence numbers; the state of its specification is not used.
W == INSTANCE WrappingIntegersProofs
       WITH MaxSeqno <- 0, seqno <- 0, isn <- 0, checkpoint <- 0, header <- 0

\* The recursive cases of send_rounds, length_of_first and Doubled.
RoundStep(p, s, i)       == send_round(s)
LengthStep(segs, sum, i) == sum + TS!length_in_sequence_space(segs[i])
DoubleStep(p, v, i)      == 2 * v

\* No invariant of a loop is used.
Anything(p, i, v) == TRUE

Rounds  == INSTANCE Recursion WITH Step <- RoundStep, Holds <- Anything
Lengths == INSTANCE Recursion WITH Step <- LengthStep, Holds <- Anything
Doubles == INSTANCE Recursion WITH Step <- DoubleStep, Holds <- Anything

(* What the instantiated modules assume of their constants holds here.     *)
LEMMA InstanceAssumptions == W!ModulusAssumption /\ W!MaxSeqnoAssumption
  BY SenderAssumption DEF W!ModulusAssumption, W!MaxSeqnoAssumption

(* A set of natural numbers that is not empty has a least element.         *)
LEMMA NatWellOrdered == WellOrdered
<1> SUFFICES ASSUME NEW S \in SUBSET Nat, S # {}
             PROVE  \E m \in S : \A y \in S : m <= y
  BY DEF WellOrdered
<1> DEFINE R == {p \in Nat \X Nat : p[1] < p[2]}
<1>1. IsWellFoundedOn(R, Nat)
  BY NatLessThanWellFounded DEF OpToRel
<1>2. PICK m \in S : \A y \in S : ~(<<y, m>> \in R)
  <2> HIDE DEF R
  <2> QED
    BY <1>1, WFMin, Zenon
<1>3. ASSUME NEW y \in S PROVE m <= y
  <2>1. m \in Nat /\ y \in Nat /\ ~(y < m)
    BY <1>2
  <2> QED
    BY <2>1
<1> QED
  BY <1>3

(* What Recursion rests on.                                                *)
LEMMA Ordered == Rounds!WellOrdered /\ Lengths!WellOrdered /\ Doubles!WellOrdered
  BY NatWellOrdered
  DEF WellOrdered, Rounds!WellOrdered, Lengths!WellOrdered, Doubles!WellOrdered

(* unwrap() inverts wrap() when the checkpoint is less than half a lap off.*)
LEMMA UnwrapUndoesWrap == UnwrapsWrapped
<1> SUFFICES ASSUME NEW n \in Nat, NEW c \in Nat,
                    2 * (n - c) < Modulus, 2 * (c - n) < Modulus
             PROVE  WI!unwrap(WI!wrap(n, Isn), Isn, c) = n
  BY DEF UnwrapsWrapped
<1>1. 2 * W!Distance(n, c) < Modulus
  BY DEF W!Distance
<1>2. Isn \in W!Wrapping
  BY SenderAssumption DEF WI!Wrapping, W!Wrapping
<1>3. W!unwrap(W!wrap(n, Isn), Isn, c) = n
  BY <1>1, <1>2, InstanceAssumptions, W!UnwrapInverts
<1> QED
  BY <1>3
  DEF WI!unwrap, W!unwrap, WI!wrap, W!wrap, WI!plus, W!plus,
      WI!abs_seqno, W!abs_seqno, WI!nearby_abs_seqno, W!nearby_abs_seqno

-----------------------------------------------------------------------------
(* Unfolding the recursive definitions.                                    *)

(* send_rounds() obeys its recursive definition.                           *)
LEMMA SendRoundsUnfold == RoundsUnfold
<1> SUFFICES ASSUME NEW s
             PROVE  /\ send_rounds(s, 0) = s
                    /\ \A n \in Nat :
                         send_rounds(s, n + 1) = send_round(send_rounds(s, n))
  BY DEF RoundsUnfold
<1> DEFINE F(f) == f = [i \in Nat |-> IF i = 0 THEN s ELSE send_round(f[i - 1])]
           after == CHOOSE f : F(f)
<1>1. \E f : F(f)
  <2>1. PICK f : Rounds!IsRecursive(f, 0, s)
    BY Ordered, Rounds!RecursionExists
  <2>2. F(f)
    BY <2>1 DEF Rounds!IsRecursive, RoundStep
  <2> QED
    BY <2>2
<1>2. F(after)
  BY <1>1, Zenon
<1>3. \A n \in Nat : send_rounds(s, n) = after[n]
  BY DEF send_rounds
<1> HIDE DEF after
<1>4. after[0] = s
  BY <1>2
<1>5. ASSUME NEW n \in Nat PROVE after[n + 1] = send_round(after[n])
  <2>1. n + 1 \in Nat /\ n + 1 # 0 /\ (n + 1) - 1 = n
    OBVIOUS
  <2> QED
    BY <1>2, <2>1
<1> QED
  BY <1>3, <1>4, <1>5

(* length_of_first() obeys its recursive definition.                       *)
LEMMA LengthOfFirstUnfold == LengthsUnfold
<1> SUFFICES ASSUME NEW segs
             PROVE  /\ length_of_first(segs, 0) = 0
                    /\ \A n \in Nat : length_of_first(segs, n + 1) =
                         length_of_first(segs, n)
                           + TS!length_in_sequence_space(segs[n + 1])
  BY DEF LengthsUnfold
<1> DEFINE F(f) == f = [i \in Nat |->
                          IF i = 0 THEN 0
                          ELSE f[i - 1] + TS!length_in_sequence_space(segs[i])]
           sum == CHOOSE f : F(f)
<1>1. \E f : F(f)
  <2>1. PICK f : Lengths!IsRecursive(f, segs, 0)
    BY Ordered, Lengths!RecursionExists
  <2>2. F(f)
    BY <2>1 DEF Lengths!IsRecursive, LengthStep
  <2> QED
    BY <2>2
<1>2. F(sum)
  BY <1>1, Zenon
<1>3. \A n \in Nat : length_of_first(segs, n) = sum[n]
  BY DEF length_of_first
<1> HIDE DEF sum
<1>4. sum[0] = 0
  BY <1>2
<1>5. ASSUME NEW n \in Nat
      PROVE  sum[n + 1] = sum[n] + TS!length_in_sequence_space(segs[n + 1])
  <2>1. n + 1 \in Nat /\ n + 1 # 0 /\ (n + 1) - 1 = n
    OBVIOUS
  <2> QED
    BY <1>2, <2>1
<1> QED
  BY <1>3, <1>4, <1>5

(* Doubled obeys its recursive definition.                                 *)
LEMMA DoubledUnfold == DoublesUnfold
<1> SUFFICES ASSUME NEW v
             PROVE  /\ Doubled(v, 0) = v
                    /\ \A n \in Nat : Doubled(v, n + 1) = 2 * Doubled(v, n)
  BY DEF DoublesUnfold
<1> DEFINE F(f) == f = [i \in Nat |-> IF i = 0 THEN v ELSE 2 * f[i - 1]]
           double == CHOOSE f : F(f)
<1>1. \E f : F(f)
  <2>1. PICK f : Doubles!IsRecursive(f, 0, v)
    BY Ordered, Doubles!RecursionExists
  <2>2. F(f)
    BY <2>1 DEF Doubles!IsRecursive, DoubleStep
  <2> QED
    BY <2>2
<1>2. F(double)
  BY <1>1, Zenon
<1>3. \A n \in Nat : Doubled(v, n) = double[n]
  BY DEF Doubled
<1> HIDE DEF double
<1>4. double[0] = v
  BY <1>2
<1>5. ASSUME NEW n \in Nat PROVE double[n + 1] = 2 * double[n]
  <2>1. n + 1 \in Nat /\ n + 1 # 0 /\ (n + 1) - 1 = n
    OBVIOUS
  <2> QED
    BY <1>2, <2>1
<1> QED
  BY <1>3, <1>4, <1>5

(* All that TCPSenderLemmas assumes of numbers and recursive functions.    *)
LEMMA FoundationsHold == Foundations
<1>1. Inductive
  BY Ordered, Rounds!Induction DEF Inductive
<1> QED
  BY <1>1, NatWellOrdered, UnwrapUndoesWrap, SendRoundsUnfold, LengthOfFirstUnfold,
     DoubledUnfold
  DEF Foundations
-----------------------------------------------------------------------------
(* Every step keeps the invariant and does not put the timer off.          *)
LEMMA Invariance ==
  Foundations /\ IInv /\ [Next]_vars => IInv' /\ (NotPutOff \/ UNCHANGED vars)
<1> SUFFICES ASSUME Foundations, IInv, [Next]_vars
             PROVE  IInv' /\ (NotPutOff \/ UNCHANGED vars)
  OBVIOUS
<1>1. /\ Sound(snd) /\ TimerOK(snd) /\ BackoffOK(snd)
      /\ snd \in Obj /\ StreamOK(snd.stream)
      /\ snd.segments_out = << >>
  BY DEF IInv, Sound
<1>2. /\ snd.outstanding_segments \in Seq(Segments)
      /\ snd.retx_timer.t \in Nat
      /\ snd.previous_ackno \in Nat /\ snd.window_size \in Nat
  BY <1>1, Fields, TimerFields
<1>3. ASSUME Connect PROVE IInv' /\ NotPutOff
  BY <1>1, <1>3, SameReflexive, FillStep DEF Connect
<1>4. ASSUME NEW n \in 1 .. StreamLen, Write(n) PROVE IInv' /\ NotPutOff
  <2> DEFINE first == snd.stream.total_written_bytes
             data  == [i \in 1 .. n |-> first + i - 1]
             o     == BS!write(snd.stream, data)
             s     == [snd EXCEPT !.stream = o]
  <2>1. /\ ~snd.stream.is_input_ended
        /\ first + n <= StreamLen
        /\ Return(fill_window(s))
        /\ UNCHANGED <<peer, edge>>
    BY <1>4 DEF Write
  <2>2. n \in Nat
    BY Constants
  <2>3. StreamOK(o) /\ o.total_read_bytes = snd.stream.total_read_bytes
    BY <1>1, <2>1, <2>2, WriteStream
  <2> HIDE DEF o
  <2>4. /\ Sound(s) /\ Same(snd, s)
        /\ s.outstanding_segments = snd.outstanding_segments
        /\ s.retx_timer = snd.retx_timer
    BY <1>1, <2>1, <2>3, StreamGrows
  <2> HIDE DEF s
  <2> QED
    BY <2>1, <2>4, FillStep
<1>5. ASSUME EndInput PROVE IInv' /\ NotPutOff
  <2> DEFINE o == BS!end_input(snd.stream)
             s == [snd EXCEPT !.stream = o]
  <2>1. /\ ~snd.stream.is_input_ended
        /\ Return(fill_window(s))
        /\ UNCHANGED <<peer, edge>>
    BY <1>5 DEF EndInput
  <2>2. StreamOK(o) /\ o.total_read_bytes = snd.stream.total_read_bytes
    BY <1>1, EndStream
  <2> HIDE DEF o
  <2>3. /\ Sound(s) /\ Same(snd, s)
        /\ s.outstanding_segments = snd.outstanding_segments
        /\ s.retx_timer = snd.retx_timer
    BY <1>1, <2>1, <2>2, StreamGrows
  <2> HIDE DEF s
  <2> QED
    BY <2>1, <2>3, FillStep
<1>6. ASSUME NEW ackno \in 0 .. StreamLen + 3, NEW win \in 0 .. MaxWindow,
             Ack(ackno, win)
      PROVE  IInv' /\ NotPutOff
  <2> DEFINE d   == ack_received(snd, WI!wrap(ackno, snd.isn), win)
             new == snd.previous_ackno < ackno /\ ackno <= snd.next_seqno
  <2>1. /\ peer = "orderly" => InOrder(ackno, win)
        /\ Return(d)
        /\ edge' = IF peer = "orderly" THEN ackno + win ELSE edge
        /\ peer' = peer
    BY <1>6 DEF Ack
  <2>2. /\ Sound(d) /\ TimerOK(d) /\ BackoffOK(d)
        /\ d.window_size = win
        /\ d.previous_ackno = IF new THEN ackno ELSE snd.previous_ackno
        /\ ~new => d.retx_timer = snd.retx_timer
        /\ (/\ InWindow(snd)
            /\ snd.previous_ackno <= ackno /\ ackno <= snd.next_seqno
            /\ ackno + win >= snd.previous_ackno + snd.window_size) => InWindow(d)
    BY <1>1, AckKeeps
  <2> HIDE DEF d
  <2>3. /\ Sound(snd') /\ TimerOK(snd') /\ BackoffOK(snd')
        /\ InWindow(d) => InWindow(snd')
        /\ snd'.segments_out = << >>
        /\ snd'.previous_ackno = d.previous_ackno
        /\ snd'.window_size = d.window_size
        /\ snd'.retx_timer = d.retx_timer
        /\ wire' \in Seq(Segments)
    BY <2>1, <2>2, Returned
  <2>4. ackno \in Nat /\ win \in Nat /\ snd.next_seqno \in Nat
    BY <1>1, Constants, Fields
  <2>5. ASSUME peer = "orderly"
        PROVE  InWindow(snd') /\ edge' = snd'.previous_ackno + snd'.window_size
    <3>1. /\ snd.previous_ackno <= ackno /\ ackno <= snd.next_seqno
          /\ ackno + win >= edge
      BY <2>1, <2>4, <2>5, <1>2 DEF InOrder
    <3>2. InWindow(snd) /\ edge = snd.previous_ackno + snd.window_size
      BY <2>5 DEF IInv
    <3>3. InWindow(snd')
      BY <2>2, <2>3, <3>1, <3>2
    <3>4. snd'.previous_ackno = ackno
      BY <1>2, <2>2, <2>3, <2>4, <3>1
    <3> QED
      BY <2>1, <2>2, <2>3, <2>5, <3>3, <3>4
  <2>6. edge' \in Nat
    BY <2>1, <2>4 DEF IInv
  <2>7. IInv'
    BY <2>1, <2>3, <2>5, <2>6 DEF IInv
  <2>8. NotPutOff
    <3>1. CASE new
      BY <1>2, <2>2, <2>3, <2>4, <3>1 DEF NotPutOff
    <3>2. CASE ~new
      <4>1. snd'.retx_timer = snd.retx_timer
        BY <2>2, <2>3, <3>2
      <4> QED
        BY <1>2, <4>1 DEF NotPutOff
    <3> QED
      BY <3>1, <3>2
  <2> QED
    BY <2>7, <2>8
<1>7. ASSUME NEW ms \in Ticks, Tick(ms) PROVE IInv' /\ NotPutOff
  <2> DEFINE d == tick(snd, ms)
  <2>1. /\ snd.consecutive_retransmissions < MaxRetx
        /\ Return(d)
        /\ UNCHANGED <<peer, edge>>
    BY <1>7 DEF Tick
  <2>2. ms \in Nat
    BY Constants
  <2>3. /\ Sound(d) /\ TimerOK(d) /\ BackoffOK(d)
        /\ d.stream = snd.stream
        /\ d.window_size = snd.window_size
        /\ d.previous_ackno = snd.previous_ackno
        /\ \/ d.retx_timer.t >= snd.retx_timer.t
           \/ snd.outstanding_segments = << >>
           \/ d.segments_out = <<Head(snd.outstanding_segments)>>
    BY <1>1, <2>1, <2>2, TickKeeps
  <2> HIDE DEF d
  <2>4. /\ Sound(snd') /\ TimerOK(snd') /\ BackoffOK(snd')
        /\ InWindow(d) => InWindow(snd')
        /\ snd'.segments_out = << >>
        /\ snd'.previous_ackno = d.previous_ackno
        /\ snd'.window_size = d.window_size
        /\ snd'.retx_timer = d.retx_timer
        /\ wire' = d.segments_out
        /\ wire' \in Seq(Segments)
    BY <2>1, <2>3, Returned
  <2>5. InWindow(snd) => InWindow(d)
    BY <2>3 DEF InWindow, probing_window
  <2>6. IInv'
    BY <2>1, <2>3, <2>4, <2>5 DEF IInv
  <2>7. d.retx_timer.t \in Nat
    BY <2>3, Fields, TimerFields DEF Sound
  <2>8. NotPutOff
    BY <1>2, <2>3, <2>4, <2>7 DEF NotPutOff
  <2> QED
    BY <2>6, <2>8
<1>8. ASSUME SendEmpty PROVE IInv' /\ NotPutOff
  <2> DEFINE seg == [TS!New EXCEPT !.seqno = next_seqno(snd)]
             q   == Append(snd.segments_out, seg)
             d   == [snd EXCEPT !.segments_out = q]
  <2>1. Return(d) /\ UNCHANGED <<peer, edge>>
    BY <1>8 DEF SendEmpty, send_empty_segment
  <2>2. seg \in Segments
    <3>1. next_seqno(snd) \in WI!Wrapping
      BY <1>1, Fields, WrapInRange DEF next_seqno
    <3> QED
      BY <3>1, NewSegment DEF Segments, TS!Type
  <2> HIDE DEF seg
  <2>3. q \in Seq(Segments)
    BY <1>1, <2>2, EmptySeq, AppendProperties
  <2> HIDE DEF q
  <2>4. /\ Sound(d) /\ TimerOK(d) /\ BackoffOK(d)
        /\ InWindow(snd) => InWindow(d)
        /\ d.previous_ackno = snd.previous_ackno
        /\ d.window_size = snd.window_size
        /\ d.retx_timer = snd.retx_timer
    BY <1>1, <2>3, QueueChanges
  <2> HIDE DEF d
  <2>5. /\ Sound(snd') /\ TimerOK(snd') /\ BackoffOK(snd')
        /\ InWindow(d) => InWindow(snd')
        /\ snd'.segments_out = << >>
        /\ snd'.previous_ackno = d.previous_ackno
        /\ snd'.window_size = d.window_size
        /\ snd'.retx_timer = d.retx_timer
        /\ wire' \in Seq(Segments)
    BY <2>1, <2>4, Returned
  <2>6. IInv'
    BY <2>1, <2>4, <2>5 DEF IInv
  <2>7. NotPutOff
    BY <1>2, <2>4, <2>5 DEF NotPutOff
  <2> QED
    BY <2>6, <2>7
<1>9. ASSUME UNCHANGED vars PROVE IInv'
  <2>1. snd' = snd /\ wire' = wire /\ peer' = peer /\ edge' = edge
    BY <1>9 DEF vars
  <2> QED
    BY <2>1 DEF IInv
<1> QED
  BY <1>3, <1>4, <1>5, <1>6, <1>7, <1>8, <1>9 DEF Next

-----------------------------------------------------------------------------
(* What the invariant says of the properties.                              *)

(* The invariant has the type in it.                                       *)
LEMMA TypeFollows == IInv => TypeOK
<1> SUFFICES ASSUME IInv PROVE TypeOK
  OBVIOUS
<1>1. snd \in Obj /\ StreamOK(snd.stream) /\ CutOK(snd)
  BY DEF IInv, Sound
<1>2. PICK st : Covers(snd, st) /\ AckedUpTo(snd, st)
  BY DEF IInv, Sound
<1>3. /\ snd.next_seqno \in Nat /\ snd.next_seqno <= StreamLen + 2
      /\ snd.previous_ackno \in Nat /\ snd.previous_ackno <= snd.next_seqno
      /\ snd.bytes_in_flight \in Int
  BY <1>1, <1>2, Fields, NumberBound DEF AckedUpTo
<1>4. /\ st[1] \in 0 .. snd.next_seqno
      /\ st[1] = snd.next_seqno - snd.bytes_in_flight
  <2>1. Len(snd.outstanding_segments) \in Nat
    BY <1>1, Fields, LenProperties
  <2>2. 1 \in 1 .. Len(snd.outstanding_segments) + 1
    BY <2>1
  <2> QED
    BY <1>2, <2>2 DEF Covers
<1>5. /\ snd.next_seqno \in 0 .. StreamLen + 2
      /\ snd.previous_ackno \in 0 .. StreamLen + 2
      /\ snd.bytes_in_flight \in 0 .. StreamLen + 2
  BY <1>3, <1>4, Constants
<1>6. /\ snd.stream \in BS!Type(Byte)
      /\ snd.outstanding_segments \in Seq(Segments)
      /\ snd.retx_timer \in RT!Type
      /\ snd.window_size \in 0 .. MaxWindow
      /\ snd.consecutive_retransmissions \in 0 .. MaxRetx
      /\ snd.is_fin_sent \in BOOLEAN
  BY <1>1, Fields
<1> QED
  BY <1>5, <1>6 DEF IInv, TypeOK

(* The start of a segment is where StartOf puts it.                        *)
LEMMA CoverFollows == Foundations /\ IInv => OutstandingCoversUnacked
<1> SUFFICES ASSUME Foundations, IInv PROVE OutstandingCoversUnacked
  OBVIOUS
<1> DEFINE out == snd.outstanding_segments
           L   == Len(out)
<1>1. snd \in Obj
  BY DEF IInv, Sound
<1>2. PICK st : Covers(snd, st) /\ AckedUpTo(snd, st)
  BY DEF IInv, Sound
<1>3. /\ out \in Seq(Segments) /\ L \in Nat
      /\ snd.next_seqno \in Nat /\ snd.previous_ackno \in Nat
      /\ snd.bytes_in_flight \in Int /\ snd.isn = Isn
  BY <1>1, Fields, LenProperties
<1>4. /\ st \in [1 .. L + 1 -> 0 .. snd.next_seqno]
      /\ st[1] = snd.next_seqno - snd.bytes_in_flight
      /\ st[L + 1] = snd.next_seqno
      /\ \A i \in 1 .. L : /\ st[i + 1] = st[i] + TS!length_in_sequence_space(out[i])
                           /\ Carries(snd.stream, out[i], st[i])
  BY <1>2 DEF Covers
<1>5. /\ st[1] <= snd.previous_ackno
      /\ snd.previous_ackno <= snd.next_seqno
      /\ out # << >> => snd.previous_ackno < st[2]
  BY <1>2 DEF AckedUpTo
<1>6. \A n \in 0 .. L : length_of_first(out, n) = st[n + 1] - st[1]
  BY <1>1, <1>2, LengthIsDistance
<1>7. \A i \in 1 .. L + 1 : st[i] \in Nat
  <2>1. st \in [1 .. L + 1 -> 0 .. snd.next_seqno]
    BY <1>4
  <2>2. 0 .. snd.next_seqno \subseteq Nat
    BY <1>3
  <2> HIDE DEF L
  <2> QED
    BY <2>1, <2>2
<1>8. 1 \in 1 .. L + 1 /\ L + 1 \in 1 .. L + 1 /\ L \in 0 .. L
  BY <1>3
<1>9. ASSUME NEW i \in 1 .. L PROVE StartOf(i) = st[i]
  <2>1. i - 1 \in 0 .. L /\ (i - 1) + 1 = i /\ i \in 1 .. L + 1
    BY <1>3
  <2>2. /\ length_of_first(out, L) = snd.next_seqno - st[1]
        /\ length_of_first(out, i - 1) = st[i] - st[1]
    BY <1>4, <1>6, <1>8, <2>1
  <2>3. StartOf(i) = snd.next_seqno - (snd.next_seqno - st[1]) + (st[i] - st[1])
    BY <2>2 DEF StartOf
  <2>4. st[i] \in Nat /\ st[1] \in Nat
    BY <1>7, <1>8, <2>1
  <2>5. \A a, b, c \in Nat : a - (a - b) + (c - b) = c
    OBVIOUS
  <2> QED
    BY <1>3, <2>3, <2>4, <2>5
<1> DEFINE oldest == IF out = << >> THEN snd.next_seqno ELSE StartOf(1)
<1> HIDE DEF out, L
<1>10. oldest = st[1]
  <2>1. CASE out = << >>
    <3>1. L = 0
      BY <2>1 DEF L
    <3>2. st[1] = snd.next_seqno
      BY <1>4, <3>1
    <3> QED
      BY <2>1, <3>2
  <2>2. CASE out # << >>
    <3>1. L # 0
      BY <1>3, <2>2, EmptySeq DEF L
    <3>2. 1 \in 1 .. L
      BY <1>3, <3>1
    <3> QED
      BY <1>9, <2>2, <3>2
  <2> QED
    BY <2>1, <2>2
<1>11. ASSUME out # << >>
       PROVE  snd.previous_ackno < st[1] + TS!length_in_sequence_space(Head(out))
  <2>1. L # 0
    BY <1>3, <1>11, EmptySeq DEF L
  <2>2. 1 \in 1 .. L /\ 1 + 1 = 2
    BY <1>3, <2>1
  <2>3. Head(out) = out[1]
    BY <1>3, <1>11
  <2>4. st[2] = st[1] + TS!length_in_sequence_space(out[1])
    BY <1>4, <2>2
  <2> QED
    BY <1>5, <1>11, <2>3, <2>4
<1>12. ASSUME NEW i \in DOMAIN out PROVE CarriesStreamAt(out[i], StartOf(i))
  <2>1. i \in 1 .. L
    BY <1>3, LenProperties DEF L
  <2>2. Carries(snd.stream, out[i], st[i]) /\ StartOf(i) = st[i]
    BY <1>4, <1>9, <2>1
  <2> QED
    BY <1>3, <2>2 DEF Carries, CarriesStreamAt
<1>13. snd.bytes_in_flight = snd.next_seqno - oldest
  <2>1. \A a \in Nat, b \in Int : a - (a - b) = b
    OBVIOUS
  <2> HIDE DEF oldest
  <2> QED
    BY <1>3, <1>4, <1>10, <2>1
<1> QED
  BY <1>5, <1>10, <1>11, <1>12, <1>13 DEF OutstandingCoversUnacked, out

(* The invariant has the window in it.                                     *)
LEMMA WindowFollows == IInv => DataWithinWindow
<1> SUFFICES ASSUME IInv, peer = "orderly"
             PROVE  1 + snd.stream.total_read_bytes <= Larger(edge, snd.previous_ackno + 1)
  BY DEF DataWithinWindow
<1>1. /\ snd.previous_ackno \in Nat /\ snd.window_size \in Nat
      /\ snd.stream.total_read_bytes \in Nat
  BY Fields, StreamFields DEF IInv, Sound
<1>2. /\ edge = snd.previous_ackno + snd.window_size
      /\ 1 + snd.stream.total_read_bytes
           <= snd.previous_ackno + (IF snd.window_size = 0 THEN 1 ELSE snd.window_size)
  BY DEF IInv, InWindow, probing_window
<1>3. CASE snd.window_size = 0
  <2>1. edge = snd.previous_ackno /\ 1 + snd.stream.total_read_bytes <= snd.previous_ackno + 1
    BY <1>1, <1>2, <1>3
  <2> QED
    BY <1>1, <2>1 DEF Larger
<1>4. CASE snd.window_size # 0
  <2>1. 1 + snd.stream.total_read_bytes <= edge
    BY <1>2, <1>4
  <2> QED
    BY <1>1, <1>2, <2>1 DEF Larger
<1> QED
  BY <1>3, <1>4

-----------------------------------------------------------------------------
(* The invariant holds throughout.                                         *)
LEMMA AlwaysSound == Spec => []IInv
<1>1. IInv /\ [Next]_vars => IInv'
  BY FoundationsHold, Invariance
<1>2. Init => IInv
  BY FoundationsHold, InitSound
<1> QED
  BY <1>1, <1>2, PTL DEF Spec
-----------------------------------------------------------------------------
(* The sender's state keeps its type; in particular neither next_seqno,    *)
(* the acknowledged number nor bytes_in_flight ever passes the length of   *)
(* the stream with SYN and FIN.                                            *)
THEOREM SenderTypeCorrect == Spec => []TypeOK
  BY AlwaysSound, TypeFollows, PTL

(* fill_window() and ack_received() never lose track of unacknowledged     *)
(* data: the outstanding segments cover all that is not acknowledged,      *)
(* without gap or overlap, with the right bytes, and bytes_in_flight is    *)
(* what they add up to, whatever the peer sends.                           *)
THEOREM NothingUnackedForgotten == Spec => []OutstandingCoversUnacked
<1>1. IInv => OutstandingCoversUnacked
  BY FoundationsHold, CoverFollows
<1> QED
  BY <1>1, AlwaysSound, PTL

(* fill_window() cuts the stream without a gap, and sends the FIN only     *)
(* behind the whole of it.                                                 *)
THEOREM StreamCutWithoutGap == Spec => []StreamFullyCut
<1>1. IInv => StreamFullyCut
  BY DEF IInv, Sound, CutOK, StreamFullyCut, BS!buffer_size
<1> QED
  BY <1>1, AlwaysSound, PTL

(* After every call the timer runs exactly when segments are outstanding.  *)
THEOREM TimerFollowsOutstanding == Spec => []TimerRunsIffOutstanding
<1>1. IInv => TimerRunsIffOutstanding
  BY DEF IInv, TimerOK, TimerRunsIffOutstanding
<1> QED
  BY <1>1, AlwaysSound, PTL

(* tick() doubles the timeout once for each retransmission it counts, and  *)
(* ack_received() resets both together.                                    *)
THEOREM BackoffCounts == Spec => []ExponentialBackoff
<1>1. IInv => ExponentialBackoff
  BY DEF IInv, BackoffOK, ExponentialBackoff
<1> QED
  BY <1>1, AlwaysSound, PTL

(* fill_window() keeps to the window of a peer whose acknowledgments       *)
(* arrive in order, but for the byte that probes a closed window.          *)
THEOREM SenderKeepsToWindow == Spec => []DataWithinWindow
  BY AlwaysSound, WindowFollows, PTL

(* While something is outstanding only an acknowledgment of new data or a  *)
(* retransmission of the oldest segment sets the timer back.               *)
THEOREM TimerNotSetBack == Spec => RetransmissionNotPutOff
<1>1. IInv /\ [Next]_vars => [NotPutOff]_vars
  BY FoundationsHold, Invariance
<1>2. RetransmissionNotPutOff <=> [][NotPutOff]_vars
  BY DEF RetransmissionNotPutOff, NotPutOff
<1> QED
  BY <1>1, <1>2, AlwaysSound, PTL DEF Spec
=============================================================================
