-------------------------- MODULE TCPSenderLemmas --------------------------
(***************************************************************************)
(* Each method of the sender keeps its invariant, for every stream,        *)
(* capacity, window, payload size and initial sequence number, and for     *)
(* every acknowledgment that may arrive.                                   *)
(*                                                                         *)
(* The invariant gives each outstanding segment the absolute number at     *)
(* which it starts, as a function st that fill_window() extends at the end *)
(* and ack_received() shortens at the front.                               *)
(*                                                                         *)
(* What the argument needs to know about numbers and about functions       *)
(* defined by recursion is collected in Foundations, a hypothesis of the   *)
(* lemmas here that TCPSenderProofs discharges.                            *)
(***************************************************************************)
EXTENDS TCPSenderSpec, TLAPS

\* A set of natural numbers that is not empty has a least element.
WellOrdered ==
  \A S \in SUBSET Nat : S # {} => \E m \in S : \A y \in S : m <= y

\* Induction, for a set in place of a predicate.
Inductive ==
  \A T : 0 \in T /\ (\A n \in Nat : n \in T => n + 1 \in T) => \A n \in Nat : n \in T

\* unwrap() inverts wrap() when the checkpoint is less than half a lap off.
UnwrapsWrapped ==
  \A n, c \in Nat : 2 * (n - c) < Modulus /\ 2 * (c - n) < Modulus =>
    WI!unwrap(WI!wrap(n, Isn), Isn, c) = n

\* The recursive definitions, unfolded once.
RoundsUnfold ==
  \A s : /\ send_rounds(s, 0) = s
         /\ \A n \in Nat : send_rounds(s, n + 1) = send_round(send_rounds(s, n))

LengthsUnfold ==
  \A segs : /\ length_of_first(segs, 0) = 0
            /\ \A n \in Nat : length_of_first(segs, n + 1) =
                 length_of_first(segs, n) + TS!length_in_sequence_space(segs[n + 1])

DoublesUnfold ==
  \A v : /\ Doubled(v, 0) = v
         /\ \A n \in Nat : Doubled(v, n + 1) = 2 * Doubled(v, n)

Foundations ==
  /\ WellOrdered /\ Inductive /\ UnwrapsWrapped
  /\ RoundsUnfold /\ LengthsUnfold /\ DoublesUnfold

(* A set of natural numbers that is not empty has a least element.         *)
LEMMA Least ==
  ASSUME Foundations, NEW S \in SUBSET Nat, S # {}
  PROVE  \E m \in S : \A y \in S : m <= y
  BY DEF Foundations, WellOrdered

(* Induction, with a set in place of a predicate.                          *)
LEMMA Induction ==
  ASSUME Foundations, NEW T, 0 \in T, \A n \in Nat : n \in T => n + 1 \in T
  PROVE  \A n \in Nat : n \in T
  BY DEF Foundations, Inductive

(* unwrap() inverts wrap() near the checkpoint.                            *)
LEMMA WrapRoundTrip ==
  ASSUME Foundations,
         NEW n \in Nat, NEW c \in Nat, 2 * (n - c) < Modulus, 2 * (c - n) < Modulus
  PROVE  WI!unwrap(WI!wrap(n, Isn), Isn, c) = n
  BY DEF Foundations, UnwrapsWrapped

(* One more round of the loop of fill_window().                            *)
LEMMA SendRounds ==
  ASSUME Foundations, NEW s
  PROVE  /\ send_rounds(s, 0) = s
         /\ \A n \in Nat : send_rounds(s, n + 1) = send_round(send_rounds(s, n))
  BY DEF Foundations, RoundsUnfold

(* One more segment.                                                       *)
LEMMA LengthOfFirst ==
  ASSUME Foundations, NEW segs
  PROVE  /\ length_of_first(segs, 0) = 0
         /\ \A n \in Nat : length_of_first(segs, n + 1) =
              length_of_first(segs, n) + TS!length_in_sequence_space(segs[n + 1])
  BY DEF Foundations, LengthsUnfold

(* One more doubling.                                                      *)
LEMMA DoubledOnce ==
  ASSUME Foundations, NEW v
  PROVE  /\ Doubled(v, 0) = v
         /\ \A n \in Nat : Doubled(v, n + 1) = 2 * Doubled(v, n)
  BY DEF Foundations, DoublesUnfold
-----------------------------------------------------------------------------
(* Sequences.                                                              *)

(* The empty sequence, and those that are not.                             *)
LEMMA EmptySeq ==
  ASSUME NEW S
  PROVE  /\ << >> \in Seq(S)
         /\ Len(<< >>) = 0
         /\ \A q \in Seq(S) : q # << >> => Len(q) \in Nat \ {0}
  OBVIOUS

(* Lengths and domains.                                                    *)
LEMMA LenProperties ==
  ASSUME NEW S, NEW q \in Seq(S)
  PROVE  Len(q) \in Nat /\ DOMAIN q = 1 .. Len(q)
  OBVIOUS

(* Elements.                                                               *)
LEMMA ElementOfSeq ==
  ASSUME NEW S, NEW q \in Seq(S), NEW n \in 1 .. Len(q)
  PROVE  q[n] \in S
  OBVIOUS

(* Heads.                                                                  *)
LEMMA HeadOfSeq ==
  ASSUME NEW S, NEW q \in Seq(S), q # << >>
  PROVE  Head(q) \in S
  OBVIOUS

(* push() on a queue.                                                      *)
LEMMA AppendProperties ==
  ASSUME NEW S, NEW q \in Seq(S), NEW e \in S
  PROVE  /\ Append(q, e) \in Seq(S)
         /\ Append(q, e) # << >>
         /\ Len(Append(q, e)) = Len(q) + 1
         /\ \A i \in 1 .. Len(q) : Append(q, e)[i] = q[i]
         /\ Append(q, e)[Len(q) + 1] = e
  OBVIOUS

(* What write() does to the buffer.                                        *)
LEMMA ConcatProperties ==
  ASSUME NEW S, NEW q \in Seq(S), NEW r \in Seq(S)
  PROVE  /\ q \o r \in Seq(S)
         /\ Len(q \o r) = Len(q) + Len(r)
         /\ \A i \in 1 .. Len(q) + Len(r) :
              (q \o r)[i] = IF i <= Len(q) THEN q[i] ELSE r[i - Len(q)]
  OBVIOUS

(* What peek_output() and pop_output() take.                               *)
LEMMA SubSeqProperties ==
  ASSUME NEW S, NEW q, NEW m \in Int, NEW n \in Int, \A i \in m .. n : q[i] \in S
  PROVE  /\ SubSeq(q, m, n) \in Seq(S)
         /\ Len(SubSeq(q, m, n)) = IF m <= n THEN n - m + 1 ELSE 0
         /\ \A i \in 1 .. n - m + 1 : SubSeq(q, m, n)[i] = q[m + i - 1]
  OBVIOUS
-----------------------------------------------------------------------------
(* The types of the constants, without the arithmetic.                     *)
LEMMA Constants ==
  /\ Capacity \in Nat /\ StreamLen \in Nat /\ MaxRetx \in Nat /\ MaxWindow \in Nat
  /\ MaxWindow >= 1
  /\ InitRto \in Nat \ {0} /\ Ticks \subseteq Nat \ {0}
  /\ MAX_PAYLOAD_SIZE \in Nat /\ U64 \in Nat /\ U64 > StreamLen + 2
  BY SenderAssumption

(* A wrapped number is a number of the sequence space.                     *)
LEMMA WrapInRange ==
  ASSUME NEW n \in Nat
  PROVE  WI!wrap(n, Isn) \in WI!Wrapping
<1>1. \A x \in Nat : x % Modulus \in 0 .. Modulus - 1
  BY SenderAssumption, Z3
<1>2. n % Modulus \in Nat /\ Isn \in Nat
  BY <1>1, SenderAssumption DEF WI!Wrapping
<1>3. Isn + (n % Modulus) \in Nat
  BY <1>2
<1> QED
  BY <1>1, <1>3 DEF WI!wrap, WI!plus, WI!Wrapping
-----------------------------------------------------------------------------
(* The invariant.                                                          *)

Obj ==
  [ isn                         : {Isn},
    segments_out                : Seq(Segments),
    stream                      : BS!Type(Byte),
    next_seqno                  : Nat,
    retx_timer                  : RT!Type,
    previous_ackno              : Nat,
    window_size                 : 0 .. MaxWindow,
    outstanding_segments        : Seq(Segments),
    bytes_in_flight             : Int,
    consecutive_retransmissions : 0 .. MaxRetx,
    is_fin_sent                 : BOOLEAN ]

\* The stream holds the bytes between those read and those written.
StreamOK(o) ==
  /\ o \in BS!Type(Byte)
  /\ o.total_capacity = Capacity
  /\ Len(o.buffer) <= Capacity
  /\ o.total_written_bytes = o.total_read_bytes + Len(o.buffer)
  /\ o.total_written_bytes <= StreamLen
  /\ \A i \in 1 .. Len(o.buffer) : o.buffer[i] = o.total_read_bytes + i - 1
  /\ o.is_eof <=> o.is_input_ended /\ Len(o.buffer) = 0

\* StreamFullyCut, for an object.
CutOK(s) ==
  /\ s.next_seqno = 0 => s.stream.total_read_bytes = 0 /\ ~s.is_fin_sent
  /\ s.next_seqno > 0 =>
       s.next_seqno = 1 + s.stream.total_read_bytes + (IF s.is_fin_sent THEN 1 ELSE 0)
  /\ s.is_fin_sent => s.stream.is_input_ended /\ Len(s.stream.buffer) = 0

\* CarriesStreamAt, for a stream.
Carries(o, seg, n) ==
  /\ seg.seqno = WI!wrap(n, Isn)
  /\ seg.syn <=> n = 0
  /\ \A i \in DOMAIN seg.payload : seg.payload[i] = n + i - 2
  /\ seg.fin => /\ o.is_input_ended
                /\ n + Len(seg.payload) = o.total_written_bytes + 1

\* The i-th outstanding segment starts at st[i].
Covers(s, st) ==
  LET out == s.outstanding_segments
  IN  /\ st \in [1 .. Len(out) + 1 -> 0 .. s.next_seqno]
      /\ st[1] = s.next_seqno - s.bytes_in_flight
      /\ st[Len(out) + 1] = s.next_seqno
      /\ \A i \in 1 .. Len(out) :
            /\ st[i + 1] = st[i] + TS!length_in_sequence_space(out[i])
            /\ Carries(s.stream, out[i], st[i])

\* The acknowledged number lies in the first outstanding segment.
AckedUpTo(s, st) ==
  /\ st[1] <= s.previous_ackno
  /\ s.previous_ackno <= s.next_seqno
  /\ s.outstanding_segments # << >> => s.previous_ackno < st[2]

Sound(s) ==
  /\ s \in Obj
  /\ StreamOK(s.stream)
  /\ CutOK(s)
  /\ \E st : Covers(s, st) /\ AckedUpTo(s, st)

\* TimerRunsIffOutstanding, for an object.
TimerOK(s) ==
  s.next_seqno > 0 => (s.retx_timer.is_running <=> s.outstanding_segments # << >>)

\* ExponentialBackoff, for an object.
BackoffOK(s) ==
  s.retx_timer.rto = Doubled(s.retx_timer.init_rto, s.consecutive_retransmissions)

\* What has been cut off the stream is inside the window.
InWindow(s) == 1 + s.stream.total_read_bytes <= s.previous_ackno + probing_window(s)

(* The fields of an object.                                                *)
LEMMA Fields ==
  ASSUME NEW s \in Obj
  PROVE  /\ s.isn = Isn
         /\ s.segments_out \in Seq(Segments)
         /\ s.stream \in BS!Type(Byte)
         /\ s.next_seqno \in Nat
         /\ s.retx_timer \in RT!Type
         /\ s.previous_ackno \in Nat
         /\ s.window_size \in 0 .. MaxWindow
         /\ s.outstanding_segments \in Seq(Segments)
         /\ s.bytes_in_flight \in Int
         /\ s.consecutive_retransmissions \in 0 .. MaxRetx
         /\ s.is_fin_sent \in BOOLEAN
  BY DEF Obj

(* The fields of a ByteStream.                                             *)
LEMMA StreamFields ==
  ASSUME NEW o \in BS!Type(Byte)
  PROVE  /\ o.buffer \in Seq(Byte)
         /\ Len(o.buffer) \in Nat
         /\ o.total_capacity \in Nat
         /\ o.is_input_ended \in BOOLEAN
         /\ o.total_written_bytes \in Nat
         /\ o.total_read_bytes \in Nat
         /\ o.is_eof \in BOOLEAN
         /\ o.error \in BOOLEAN
  BY DEF BS!Type

(* The fields of a RetransmissionTimer.                                    *)
LEMMA TimerFields ==
  ASSUME NEW t \in RT!Type
  PROVE  t.init_rto \in Nat /\ t.rto \in Nat /\ t.t \in Nat /\ t.is_running \in BOOLEAN
  BY DEF RT!Type

(* The fields of a TCPSegment.                                             *)
LEMMA SegmentFields ==
  ASSUME NEW seg \in Segments
  PROVE  /\ seg.seqno \in WI!Wrapping
         /\ seg.syn \in BOOLEAN /\ seg.fin \in BOOLEAN
         /\ seg.payload \in Seq(Byte)
         /\ Len(seg.payload) \in Nat
         /\ TS!length_in_sequence_space(seg) \in Nat
         /\ TS!length_in_sequence_space(seg) =
              Len(seg.payload) + (IF seg.syn THEN 1 ELSE 0) + (IF seg.fin THEN 1 ELSE 0)
<1>1. /\ seg.seqno \in WI!Wrapping
      /\ seg.syn \in BOOLEAN /\ seg.fin \in BOOLEAN
      /\ seg.payload \in Seq(Byte)
  BY DEF Segments, TS!Type
<1>2. Len(seg.payload) \in Nat
  BY <1>1
<1>3. TS!length_in_sequence_space(seg) =
        Len(seg.payload) + (IF seg.syn THEN 1 ELSE 0) + (IF seg.fin THEN 1 ELSE 0)
  BY DEF TS!length_in_sequence_space
<1>4. TS!length_in_sequence_space(seg) \in Nat
  <2>1. (IF seg.syn THEN 1 ELSE 0) \in Nat /\ (IF seg.fin THEN 1 ELSE 0) \in Nat
    OBVIOUS
  <2>2. \A i, j, k \in Nat : i + j + k \in Nat
    OBVIOUS
  <2> QED
    BY <1>2, <1>3, <2>1, <2>2
<1> QED
  BY <1>1, <1>2, <1>3, <1>4

(* start() leaves a running timer as it is.                                *)
LEMMA StartTimer ==
  ASSUME NEW t \in RT!Type
  PROVE  /\ RT!start(t) \in RT!Type
         /\ RT!start(t).is_running
         /\ RT!start(t).rto = t.rto
         /\ RT!start(t).init_rto = t.init_rto
         /\ t.is_running => RT!start(t) = t
<1>1. RT!start(t) \in RT!Type
  BY DEF RT!Type, RT!start
<1>2. /\ RT!start(t).is_running
      /\ RT!start(t).rto = t.rto
      /\ RT!start(t).init_rto = t.init_rto
      /\ t.is_running => RT!start(t).t = t.t
  BY DEF RT!Type, RT!start
<1>3. ASSUME NEW a \in RT!Type, NEW b \in RT!Type, a.is_running = b.is_running,
             a.rto = b.rto, a.init_rto = b.init_rto, a.t = b.t
      PROVE  a = b
  BY <1>3 DEF RT!Type
<1>4. ASSUME t.is_running PROVE RT!start(t) = t
  <2>1. RT!start(t).is_running = TRUE /\ t.is_running = TRUE
    BY <1>1, <1>2, <1>4, TimerFields
  <2> QED
    BY <1>1, <1>2, <1>3, <1>4, <2>1
<1> QED
  BY <1>1, <1>2, <1>4

(* send(): what becomes of each field.                                     *)
LEMMA SendFields ==
  ASSUME NEW s \in Obj, NEW seg \in Segments
  PROVE  LET d   == send(s, seg)
             num == [seg EXCEPT !.seqno = WI!wrap(s.next_seqno, Isn)]
             len == TS!length_in_sequence_space(seg)
         IN  /\ num \in Segments
             /\ num.seqno = WI!wrap(s.next_seqno, Isn)
             /\ num.syn = seg.syn /\ num.fin = seg.fin /\ num.payload = seg.payload
             /\ TS!length_in_sequence_space(num) = len
             /\ d \in Obj
             /\ d.stream = s.stream
             /\ d.segments_out = Append(s.segments_out, num)
             /\ d.next_seqno = s.next_seqno + len
             /\ d.retx_timer = RT!start(s.retx_timer)
             /\ d.previous_ackno = s.previous_ackno
             /\ d.window_size = s.window_size
             /\ d.outstanding_segments = Append(s.outstanding_segments, num)
             /\ d.bytes_in_flight = s.bytes_in_flight + len
             /\ d.consecutive_retransmissions = s.consecutive_retransmissions
             /\ d.is_fin_sent = s.is_fin_sent
<1> DEFINE d   == send(s, seg)
           num == [seg EXCEPT !.seqno = WI!wrap(s.next_seqno, Isn)]
           len == TS!length_in_sequence_space(seg)
<1>1. /\ num \in Segments
      /\ num.seqno = WI!wrap(s.next_seqno, Isn)
      /\ num.syn = seg.syn /\ num.fin = seg.fin /\ num.payload = seg.payload
  <2>1. WI!wrap(s.next_seqno, Isn) \in WI!Wrapping
    BY Fields, WrapInRange
  <2> QED
    BY <2>1 DEF Segments, TS!Type
<1>2. TS!length_in_sequence_space(num) = len /\ len \in Nat
  BY <1>1, SegmentFields DEF TS!length_in_sequence_space
<1>3. /\ Append(s.segments_out, num) \in Seq(Segments)
      /\ Append(s.outstanding_segments, num) \in Seq(Segments)
      /\ RT!start(s.retx_timer) \in RT!Type
      /\ s.next_seqno + len \in Nat
      /\ s.bytes_in_flight + len \in Int
  BY <1>1, <1>2, Fields, StartTimer, AppendProperties
<1> HIDE DEF num, len
<1>4. d = [s EXCEPT !.segments_out         = Append(s.segments_out, num),
                    !.outstanding_segments = Append(s.outstanding_segments, num),
                    !.retx_timer           = RT!start(s.retx_timer),
                    !.next_seqno           = s.next_seqno + len,
                    !.bytes_in_flight      = s.bytes_in_flight + len]
  BY Fields DEF send, next_seqno, num, len
<1> HIDE DEF d
<1>5. d \in Obj
  BY <1>3, <1>4 DEF Obj
<1>6. /\ d.stream = s.stream
      /\ d.segments_out = Append(s.segments_out, num)
      /\ d.next_seqno = s.next_seqno + len
      /\ d.retx_timer = RT!start(s.retx_timer)
      /\ d.previous_ackno = s.previous_ackno
      /\ d.window_size = s.window_size
  BY <1>4 DEF Obj
<1>7. /\ d.outstanding_segments = Append(s.outstanding_segments, num)
      /\ d.bytes_in_flight = s.bytes_in_flight + len
      /\ d.consecutive_retransmissions = s.consecutive_retransmissions
      /\ d.is_fin_sent = s.is_fin_sent
  BY <1>4 DEF Obj
<1> QED
  BY <1>1, <1>2, <1>5, <1>6, <1>7 DEF d, num, len

(* send() of a segment that carries what comes next in the stream.         *)
LEMMA SendCovers ==
  ASSUME NEW s \in Obj, NEW seg \in Segments, NEW st,
         Covers(s, st), AckedUpTo(s, st),
         TS!length_in_sequence_space(seg) > 0,
         Carries(s.stream, [seg EXCEPT !.seqno = WI!wrap(s.next_seqno, Isn)], s.next_seqno)
  PROVE  LET d == send(s, seg)
         IN  \E dt : Covers(d, dt) /\ AckedUpTo(d, dt)
<1> DEFINE d   == send(s, seg)
           num == [seg EXCEPT !.seqno = WI!wrap(s.next_seqno, Isn)]
           len == TS!length_in_sequence_space(seg)
           out == s.outstanding_segments
           n   == Len(out)
           dt  == [i \in 1 .. n + 2 |-> IF i = n + 2 THEN s.next_seqno + len ELSE st[i]]
<1>1. /\ num \in Segments
      /\ TS!length_in_sequence_space(num) = len
      /\ d.stream = s.stream
      /\ d.next_seqno = s.next_seqno + len
      /\ d.previous_ackno = s.previous_ackno
      /\ d.outstanding_segments = Append(out, num)
      /\ d.bytes_in_flight = s.bytes_in_flight + len
  BY SendFields
<1>2. Carries(s.stream, num, s.next_seqno)
  OBVIOUS
<1>3. /\ len \in Nat /\ len > 0
      /\ s.next_seqno \in Nat /\ s.previous_ackno \in Nat /\ s.bytes_in_flight \in Int
      /\ n \in Nat
      /\ out \in Seq(Segments)
  <2>1. len \in Nat /\ len > 0
    BY SegmentFields
  <2>2. /\ s.next_seqno \in Nat /\ s.previous_ackno \in Nat /\ s.bytes_in_flight \in Int
        /\ out \in Seq(Segments)
    BY Fields
  <2>3. n \in Nat
    BY <2>2, LenProperties
  <2> QED
    BY <2>1, <2>2, <2>3
<1> HIDE DEF d, num, len, out, n
<1>4. /\ Len(Append(out, num)) = n + 1
      /\ Append(out, num) # << >>
      /\ \A i \in 1 .. n : Append(out, num)[i] = out[i]
      /\ Append(out, num)[n + 1] = num
  BY <1>1, <1>3, AppendProperties DEF n
<1>5. /\ st \in [1 .. n + 1 -> 0 .. s.next_seqno]
      /\ st[1] = s.next_seqno - s.bytes_in_flight
      /\ st[n + 1] = s.next_seqno
      /\ \A i \in 1 .. n : /\ st[i + 1] = st[i] + TS!length_in_sequence_space(out[i])
                           /\ Carries(s.stream, out[i], st[i])
  BY DEF Covers, out, n
<1>6. /\ dt \in [1 .. n + 2 -> 0 .. s.next_seqno + len]
      /\ dt[1] = st[1]
      /\ dt[n + 2] = s.next_seqno + len
      /\ \A i \in 1 .. n + 1 : dt[i] = st[i]
  <2> DEFINE m == s.next_seqno
             z == m + len
  <2>1. /\ n \in Nat /\ m \in Nat /\ z \in Nat /\ m <= z
        /\ st \in [1 .. n + 1 -> 0 .. m]
    BY <1>3, <1>5
  <2> HIDE DEF m, z
  <2>2. dt = [i \in 1 .. n + 2 |-> IF i = n + 2 THEN z ELSE st[i]]
    BY DEF m, z
  <2> HIDE DEF dt
  <2>3. \A i \in 1 .. n + 1 : i \in 1 .. n + 2 /\ i # n + 2 /\ st[i] \in 0 .. z
    BY <2>1
  <2>4. dt \in [1 .. n + 2 -> 0 .. z]
    BY <2>1, <2>2, <2>3
  <2> QED
    BY <2>1, <2>2, <2>3, <2>4 DEF m, z
<1>7. ASSUME NEW i \in 1 .. n + 1
      PROVE  /\ dt[i + 1] = dt[i] + TS!length_in_sequence_space(Append(out, num)[i])
             /\ Carries(s.stream, Append(out, num)[i], dt[i])
  <2>1. CASE i \in 1 .. n
    <3>1. i + 1 \in 1 .. n + 1
      BY <1>3, <2>1
    <3> QED
      BY <1>4, <1>5, <1>6, <2>1, <3>1
  <2>2. CASE i = n + 1
    <3>1. (n + 1) + 1 = n + 2
      BY <1>3
    <3> QED
      BY <1>1, <1>2, <1>4, <1>5, <1>6, <2>2, <3>1
  <2>3. i \in 1 .. n \/ i = n + 1
    BY <1>3
  <2> QED
    BY <2>1, <2>2, <2>3
<1> HIDE DEF dt
<1>8. Covers(d, dt)
  <2>1. (n + 1) + 1 = n + 2 /\ (s.next_seqno + len) - (s.bytes_in_flight + len)
                                 = s.next_seqno - s.bytes_in_flight
    BY <1>3
  <2>2. dt[1] = d.next_seqno - d.bytes_in_flight
    BY <1>1, <1>5, <1>6, <2>1
  <2> QED
    BY <1>1, <1>4, <1>6, <1>7, <2>1, <2>2 DEF Covers
<1>9. AckedUpTo(d, dt)
  <2>1. CASE n = 0
    <3>1. dt[2] = s.next_seqno + len
      BY <1>6, <2>1
    <3> QED
      BY <1>1, <1>3, <1>6, <3>1, SMTT(30) DEF AckedUpTo
  <2>2. CASE n > 0
    <3>1. 2 \in 1 .. n + 1
      BY <1>3, <2>2
    <3>2. out # << >>
      BY <2>2 DEF n
    <3>3. s.previous_ackno < dt[2]
      BY <1>6, <3>1, <3>2 DEF AckedUpTo, out
    <3> QED
      BY <1>1, <1>3, <1>6, <3>3 DEF AckedUpTo
  <2> QED
    BY <1>3, <2>1, <2>2
<1> QED
  BY <1>8, <1>9 DEF d

\* What fill_window() leaves alone, and what it keeps.
Same(a, b) ==
  /\ b.next_seqno >= a.next_seqno
  /\ b.previous_ackno = a.previous_ackno
  /\ b.window_size = a.window_size
  /\ b.consecutive_retransmissions = a.consecutive_retransmissions
  /\ b.retx_timer.rto = a.retx_timer.rto
  /\ b.retx_timer.init_rto = a.retx_timer.init_rto
  /\ a.retx_timer.is_running => b.retx_timer = a.retx_timer
  /\ TimerOK(a) => TimerOK(b)
  /\ InWindow(a) => InWindow(b)

(* Doing nothing is allowed.                                               *)
LEMMA SameReflexive ==
  ASSUME NEW s \in Obj
  PROVE  Same(s, s)
  BY Fields DEF Same

(* Two allowed changes in a row are one.                                   *)
LEMMA SameTransitive ==
  ASSUME NEW a \in Obj, NEW b \in Obj, NEW c \in Obj, Same(a, b), Same(b, c)
  PROVE  Same(a, c)
<1>1. c.next_seqno >= a.next_seqno
  BY Fields DEF Same
<1> QED
  BY <1>1 DEF Same

(* A window is at least one.                                               *)
LEMMA ProbingWindow ==
  ASSUME NEW s \in Obj
  PROVE  probing_window(s) \in Nat /\ probing_window(s) >= 1
  BY Fields, SenderAssumption DEF probing_window

(* Absolute numbers stay below the stream's length, SYN and FIN included.  *)
LEMMA NumberBound ==
  ASSUME NEW s \in Obj, StreamOK(s.stream), CutOK(s)
  PROVE  /\ s.next_seqno <= StreamLen + 2
         /\ s.stream.total_read_bytes <= StreamLen
<1>1. /\ s.stream.total_read_bytes \in Nat
      /\ Len(s.stream.buffer) \in Nat
      /\ s.stream.total_written_bytes = s.stream.total_read_bytes + Len(s.stream.buffer)
      /\ s.stream.total_written_bytes <= StreamLen
      /\ s.next_seqno \in Nat
  BY Fields, StreamFields DEF StreamOK
<1>2. s.stream.total_read_bytes <= StreamLen
  BY <1>1, Constants
<1>3. \/ s.next_seqno = 0
      \/ s.next_seqno = 1 + s.stream.total_read_bytes + 0
      \/ s.next_seqno = 1 + s.stream.total_read_bytes + 1
  BY <1>1 DEF CutOK
<1> QED
  BY <1>1, <1>2, <1>3, Constants

(* Reading n bytes from the stream.                                        *)
LEMMA PopStream ==
  ASSUME NEW o, StreamOK(o), NEW n \in Nat
  PROVE  LET d    == BS!pop_output(o, n)
             data == BS!peek_output(o, n)
             c    == BS!covered(o, n)
         IN  /\ c \in Nat /\ c <= n /\ c <= Len(o.buffer)
             /\ data \in Seq(Byte)
             /\ Len(data) = c
             /\ \A i \in 1 .. c : data[i] = o.total_read_bytes + i - 1
             /\ StreamOK(d)
             /\ d.total_read_bytes = o.total_read_bytes + c
             /\ d.total_written_bytes = o.total_written_bytes
             /\ d.is_input_ended = o.is_input_ended
             /\ Len(d.buffer) = Len(o.buffer) - c
<1> DEFINE d    == BS!pop_output(o, n)
           data == BS!peek_output(o, n)
           c    == BS!covered(o, n)
           b    == o.buffer
           rest == SubSeq(b, c + 1, Len(b))
<1>1. o \in BS!Type(Byte) /\ b \in Seq(Byte) /\ Len(b) \in Nat
      /\ o.total_read_bytes \in Nat /\ o.total_written_bytes \in Nat
      /\ o.is_input_ended \in BOOLEAN /\ o.is_eof \in BOOLEAN
  BY StreamFields DEF StreamOK
<1>2. c \in Nat /\ c <= n /\ c <= Len(b)
  BY <1>1 DEF BS!covered, BS!Smaller, BS!buffer_size
<1> HIDE DEF c, b
<1>3. /\ data \in Seq(Byte)
      /\ Len(data) = c
      /\ \A i \in 1 .. c : data[i] = b[i]
  <2>1. data = SubSeq(b, 1, c)
    BY DEF BS!peek_output, b, c
  <2>2. \A i \in 1 .. c : b[i] \in Byte
    BY <1>1, <1>2, ElementOfSeq
  <2>3. /\ SubSeq(b, 1, c) \in Seq(Byte)
        /\ Len(SubSeq(b, 1, c)) = IF 1 <= c THEN c - 1 + 1 ELSE 0
        /\ \A i \in 1 .. c - 1 + 1 : SubSeq(b, 1, c)[i] = b[1 + i - 1]
    BY <1>2, <2>2, SubSeqProperties
  <2>4. (IF 1 <= c THEN c - 1 + 1 ELSE 0) = c /\ c - 1 + 1 = c
    BY <1>2
  <2>5. \A i \in 1 .. c : 1 + i - 1 = i
    OBVIOUS
  <2> QED
    BY <2>1, <2>3, <2>4, <2>5
<1>4. /\ rest \in Seq(Byte)
      /\ Len(rest) = Len(b) - c
      /\ \A i \in 1 .. Len(b) - c : rest[i] = b[c + i]
  <2>1. \A i \in c + 1 .. Len(b) : b[i] \in Byte
    BY <1>1, <1>2, ElementOfSeq
  <2>2. c + 1 \in Int /\ Len(b) \in Int
    BY <1>1, <1>2
  <2>3. /\ rest \in Seq(Byte)
        /\ Len(rest) = IF c + 1 <= Len(b) THEN Len(b) - (c + 1) + 1 ELSE 0
        /\ \A i \in 1 .. Len(b) - (c + 1) + 1 : rest[i] = b[(c + 1) + i - 1]
    BY <2>1, <2>2, SubSeqProperties
  <2>4. /\ (IF c + 1 <= Len(b) THEN Len(b) - (c + 1) + 1 ELSE 0) = Len(b) - c
        /\ Len(b) - (c + 1) + 1 = Len(b) - c
        /\ \A i \in 1 .. Len(b) - c : (c + 1) + i - 1 = c + i
    BY <1>1, <1>2
  <2> HIDE DEF rest
  <2> QED
    BY <2>3, <2>4
<1> HIDE DEF data, rest
<1>5. /\ d \in BS!Type(Byte)
      /\ d.buffer = rest
      /\ d.total_capacity = o.total_capacity
      /\ d.is_input_ended = o.is_input_ended
      /\ d.total_written_bytes = o.total_written_bytes
      /\ d.total_read_bytes = o.total_read_bytes + c
      /\ d.is_eof = IF o.is_input_ended
                    THEN o.total_written_bytes = o.total_read_bytes + c ELSE o.is_eof
  <2>1. o.total_read_bytes + c \in Nat
    BY <1>1, <1>2
  <2>2. d = [o EXCEPT !.buffer = rest,
                      !.total_read_bytes = o.total_read_bytes + c,
                      !.is_eof = IF o.is_input_ended
                                 THEN o.total_written_bytes = o.total_read_bytes + c
                                 ELSE o.is_eof]
    BY DEF BS!pop_output, c, b, rest
  <2> DEFINE e == IF o.is_input_ended
                  THEN o.total_written_bytes = o.total_read_bytes + c ELSE o.is_eof
  <2>3. e \in BOOLEAN
    BY <1>1
  <2> HIDE DEF e, d
  <2>4. d = [o EXCEPT !.buffer = rest,
                      !.total_read_bytes = o.total_read_bytes + c, !.is_eof = e]
    BY <2>2 DEF e
  <2>5. /\ d \in BS!Type(Byte)
        /\ d.buffer = rest
        /\ d.total_capacity = o.total_capacity
        /\ d.is_input_ended = o.is_input_ended
        /\ d.total_written_bytes = o.total_written_bytes
        /\ d.total_read_bytes = o.total_read_bytes + c
        /\ d.is_eof = e
    BY <1>1, <1>4, <2>1, <2>3, <2>4 DEF BS!Type
  <2> QED
    BY <2>5 DEF e
<1> HIDE DEF d
<1>6. /\ o.total_capacity = Capacity
      /\ Len(b) <= Capacity
      /\ o.total_written_bytes = o.total_read_bytes + Len(b)
      /\ o.total_written_bytes <= StreamLen
      /\ \A i \in 1 .. Len(b) : b[i] = o.total_read_bytes + i - 1
      /\ o.is_eof <=> o.is_input_ended /\ Len(b) = 0
  BY DEF StreamOK, b
<1>7. StreamOK(d)
  <2>1. Len(d.buffer) = Len(b) - c /\ Len(b) - c <= Capacity
    BY <1>1, <1>2, <1>4, <1>5, <1>6, Constants
  <2>2. d.total_written_bytes = d.total_read_bytes + Len(d.buffer)
    BY <1>1, <1>2, <1>5, <1>6, <2>1
  <2>3. \A i \in 1 .. Len(b) - c : rest[i] = (o.total_read_bytes + c) + i - 1
    <3>1. \A i \in 1 .. Len(b) - c :
            c + i \in 1 .. Len(b) /\ o.total_read_bytes + (c + i) - 1 =
                                       (o.total_read_bytes + c) + i - 1
      BY <1>1, <1>2
    <3> QED
      BY <1>4, <1>6, <3>1
  <2>4. d.is_eof <=> d.is_input_ended /\ Len(d.buffer) = 0
    <3>1. o.total_written_bytes = o.total_read_bytes + c <=> Len(b) - c = 0
      BY <1>1, <1>2, <1>6
    <3> QED
      BY <1>1, <1>5, <1>6, <2>1, <3>1
  <2> QED
    BY <1>5, <1>6, <2>1, <2>2, <2>3, <2>4 DEF StreamOK
<1>8. \A i \in 1 .. c : data[i] = o.total_read_bytes + i - 1
  <2>1. \A i \in 1 .. c : i \in 1 .. Len(b)
    BY <1>1, <1>2
  <2> QED
    BY <1>3, <1>6, <2>1
<1> QED
  BY <1>2, <1>3, <1>4, <1>5, <1>7, <1>8 DEF d, data, c, b

(* Covers and AckedUpTo look at some of the fields only.                   *)
LEMMA CoversSame ==
  ASSUME NEW s, NEW d, NEW st, Covers(s, st), AckedUpTo(s, st),
         d.next_seqno = s.next_seqno,
         d.bytes_in_flight = s.bytes_in_flight,
         d.outstanding_segments = s.outstanding_segments,
         d.previous_ackno = s.previous_ackno,
         d.stream.is_input_ended = s.stream.is_input_ended,
         d.stream.total_written_bytes = s.stream.total_written_bytes
  PROVE  Covers(d, st) /\ AckedUpTo(d, st)
<1>1. \A seg, n : Carries(d.stream, seg, n) <=> Carries(s.stream, seg, n)
  BY DEF Carries
<1>2. Covers(d, st)
  BY <1>1 DEF Covers
<1> QED
  BY <1>2 DEF AckedUpTo

(* A default-constructed segment.                                          *)
LEMMA NewSegment ==
  /\ TS!New \in Segments
  /\ TS!New.syn = FALSE /\ TS!New.fin = FALSE /\ TS!New.payload = << >>
<1>1. 0 \in WI!Wrapping /\ << >> \in Seq(Byte)
  BY SenderAssumption, EmptySeq DEF WI!Wrapping
<1> QED
  BY <1>1 DEF Segments, TS!Type, TS!New

\* The part of Sound that is not about how the stream was cut.
Kept(s) ==
  /\ s \in Obj
  /\ StreamOK(s.stream)
  /\ \E st : Covers(s, st) /\ AckedUpTo(s, st)

(* send() of a segment that carries what comes next in the stream.         *)
LEMMA SendKeeps ==
  ASSUME NEW s, Kept(s), NEW seg \in Segments,
         TS!length_in_sequence_space(seg) > 0,
         seg.syn <=> s.next_seqno = 0,
         \A i \in DOMAIN seg.payload : seg.payload[i] = s.next_seqno + i - 2,
         seg.fin => /\ s.stream.is_input_ended
                    /\ s.next_seqno + Len(seg.payload) = s.stream.total_written_bytes + 1
  PROVE  LET d == send(s, seg)
         IN  /\ Kept(d)
             /\ d.stream = s.stream
             /\ d.next_seqno = s.next_seqno + TS!length_in_sequence_space(seg)
             /\ d.is_fin_sent = s.is_fin_sent
             /\ d.previous_ackno = s.previous_ackno
             /\ d.window_size = s.window_size
             /\ d.consecutive_retransmissions = s.consecutive_retransmissions
             /\ d.retx_timer = RT!start(s.retx_timer)
             /\ d.outstanding_segments # << >>
<1> DEFINE d   == send(s, seg)
           num == [seg EXCEPT !.seqno = WI!wrap(s.next_seqno, Isn)]
<1>1. PICK st : Covers(s, st) /\ AckedUpTo(s, st)
  BY DEF Kept
<1>2. s \in Obj /\ StreamOK(s.stream)
  BY DEF Kept
<1>3. /\ num \in Segments
      /\ num.seqno = WI!wrap(s.next_seqno, Isn)
      /\ num.syn = seg.syn /\ num.fin = seg.fin /\ num.payload = seg.payload
      /\ d \in Obj
      /\ d.stream = s.stream
      /\ d.next_seqno = s.next_seqno + TS!length_in_sequence_space(seg)
      /\ d.retx_timer = RT!start(s.retx_timer)
      /\ d.previous_ackno = s.previous_ackno
      /\ d.window_size = s.window_size
      /\ d.outstanding_segments = Append(s.outstanding_segments, num)
      /\ d.consecutive_retransmissions = s.consecutive_retransmissions
      /\ d.is_fin_sent = s.is_fin_sent
  BY <1>2, SendFields
<1>4. Carries(s.stream, num, s.next_seqno)
  <2> HIDE DEF num
  <2> QED
    BY <1>3 DEF Carries
<1>5. \E dt : Covers(d, dt) /\ AckedUpTo(d, dt)
  BY <1>1, <1>2, <1>4, SendCovers
<1>6. d.outstanding_segments # << >>
  BY <1>2, <1>3, Fields, AppendProperties
<1> HIDE DEF d, num
<1>7. Kept(d)
  BY <1>2, <1>3, <1>5 DEF Kept
<1> QED
  BY <1>3, <1>6, <1>7 DEF d

(* fill_window()'s FIN segment.                                            *)
LEMMA SendFinKeeps ==
  ASSUME NEW s, Sound(s), s.next_seqno > 0, s.stream.is_eof
  PROVE  Sound(send_fin(s)) /\ Same(s, send_fin(s))
<1>1. s \in Obj /\ StreamOK(s.stream) /\ CutOK(s)
  BY DEF Sound
<1>2. CASE s.is_fin_sent
  BY <1>1, <1>2, SameReflexive DEF send_fin
<1>3. CASE ~s.is_fin_sent
  <2> DEFINE f   == [s EXCEPT !.is_fin_sent = TRUE]
             seg == [TS!New EXCEPT !.fin = TRUE]
             d   == send(f, seg)
  <2>1. send_fin(s) = d
    BY <1>3 DEF send_fin
  <2>2. /\ f \in Obj /\ f.is_fin_sent
        /\ f.stream = s.stream /\ f.next_seqno = s.next_seqno
        /\ f.bytes_in_flight = s.bytes_in_flight
        /\ f.outstanding_segments = s.outstanding_segments
        /\ f.previous_ackno = s.previous_ackno
        /\ f.window_size = s.window_size
        /\ f.consecutive_retransmissions = s.consecutive_retransmissions
        /\ f.retx_timer = s.retx_timer
    BY <1>1 DEF Obj
  <2>3. /\ seg \in Segments /\ ~seg.syn /\ seg.fin /\ seg.payload = << >>
    <3>1. [TS!New EXCEPT !.fin = TRUE] \in Segments
      BY NewSegment DEF Segments, TS!Type
    <3> QED
      BY <3>1, NewSegment DEF Segments, TS!Type
  <2> HIDE DEF f, seg
  <2>4. TS!length_in_sequence_space(seg) = 1
    BY <2>3 DEF TS!length_in_sequence_space
  <2>5. Kept(f)
    <3>1. PICK st : Covers(s, st) /\ AckedUpTo(s, st)
      BY DEF Sound
    <3>2. Covers(f, st) /\ AckedUpTo(f, st)
      BY <2>2, <3>1, CoversSame
    <3> QED
      BY <1>1, <2>2, <3>2 DEF Kept
  <2>6. /\ s.next_seqno = 1 + s.stream.total_read_bytes
        /\ s.stream.is_input_ended
        /\ s.stream.total_written_bytes = s.stream.total_read_bytes
        /\ s.next_seqno \in Nat
        /\ s.stream.total_read_bytes \in Nat
        /\ Len(s.stream.buffer) = 0
    <3>1. s.stream.is_input_ended /\ Len(s.stream.buffer) = 0
      BY <1>1 DEF StreamOK
    <3>2. s.next_seqno \in Nat /\ s.stream.total_read_bytes \in Nat
      BY <1>1, Fields, StreamFields
    <3>3. s.next_seqno = 1 + s.stream.total_read_bytes + 0
      BY <1>1, <1>3 DEF CutOK
    <3>4. s.stream.total_written_bytes = s.stream.total_read_bytes + 0
      BY <1>1, <3>1 DEF StreamOK
    <3> QED
      BY <3>1, <3>2, <3>3, <3>4
  <2>7. /\ Kept(d)
        /\ d.stream = f.stream
        /\ d.next_seqno = f.next_seqno + 1
        /\ d.is_fin_sent
        /\ d.previous_ackno = f.previous_ackno
        /\ d.window_size = f.window_size
        /\ d.consecutive_retransmissions = f.consecutive_retransmissions
        /\ d.retx_timer = RT!start(f.retx_timer)
        /\ d.outstanding_segments # << >>
    <3>1. Len(<< >>) = 0 /\ f.next_seqno + 0 = f.stream.total_written_bytes + 1
      BY <2>2, <2>6
    <3>2. \A i \in DOMAIN seg.payload : seg.payload[i] = f.next_seqno + i - 2
      BY <2>3
    <3>3. seg.fin => /\ f.stream.is_input_ended
                     /\ f.next_seqno + Len(seg.payload) = f.stream.total_written_bytes + 1
      BY <2>2, <2>3, <2>6, <3>1
    <3>4. TS!length_in_sequence_space(seg) > 0 /\ (seg.syn <=> f.next_seqno = 0)
      BY <2>2, <2>3, <2>4
    <3> QED
      BY <2>2, <2>3, <2>4, <2>5, <3>2, <3>3, <3>4, SendKeeps
  <2> HIDE DEF d
  <2>8. CutOK(d)
    BY <2>2, <2>6, <2>7 DEF CutOK
  <2>9. Sound(d)
    BY <2>7, <2>8 DEF Sound, Kept
  <2>10. Same(s, d)
    <3>1. s.retx_timer \in RT!Type
      BY <1>1, Fields
    <3>2. /\ d.retx_timer.rto = s.retx_timer.rto
          /\ d.retx_timer.init_rto = s.retx_timer.init_rto
          /\ d.retx_timer.is_running
          /\ s.retx_timer.is_running => d.retx_timer = s.retx_timer
      BY <2>2, <2>7, <3>1, StartTimer
    <3>3. d.next_seqno >= s.next_seqno
      BY <2>2, <2>6, <2>7
    <3>4. TimerOK(d)
      BY <2>7, <3>2 DEF TimerOK
    <3>5. InWindow(s) => InWindow(d)
      BY <2>2, <2>7 DEF InWindow, probing_window
    <3> QED
      BY <2>2, <2>7, <3>2, <3>3, <3>4, <3>5 DEF Same
  <2> QED
    BY <2>1, <2>9, <2>10
<1> QED
  BY <1>2, <1>3

(* The window that is left is a number, and what it leaves is inside the   *)
(* window if everything before was.                                        *)
LEMMA Available ==
  ASSUME NEW s, Sound(s), s.next_seqno > 0
  PROVE  /\ available_window_size(s) \in Nat
         /\ InWindow(s) /\ ~s.is_fin_sent =>
              s.next_seqno + available_window_size(s)
                = s.previous_ackno + probing_window(s)
<1>1. s \in Obj /\ StreamOK(s.stream) /\ CutOK(s)
  BY DEF Sound
<1> DEFINE p == probing_window(s)
<1>2. /\ s.next_seqno \in Nat /\ s.previous_ackno \in Nat
      /\ s.previous_ackno <= s.next_seqno
      /\ s.next_seqno <= StreamLen + 2
      /\ p \in Nat
  BY <1>1, Fields, NumberBound, ProbingWindow DEF Sound, AckedUpTo
<1>3. available_window_size(s) =
        IF s.next_seqno - s.previous_ackno <= p
        THEN p - (s.next_seqno - s.previous_ackno)
        ELSE U64 + p - (s.next_seqno - s.previous_ackno)
  BY DEF available_window_size
<1> HIDE DEF p
<1>4. available_window_size(s) \in Nat
  BY <1>2, <1>3, Constants
<1>5. ASSUME InWindow(s), ~s.is_fin_sent
      PROVE  s.next_seqno + available_window_size(s) = s.previous_ackno + p
  <2>1. s.stream.total_read_bytes \in Nat
    BY <1>1, StreamFields DEF StreamOK
  <2>2. s.next_seqno = 1 + s.stream.total_read_bytes + 0
    BY <1>1, <1>5 DEF CutOK
  <2>3. 1 + s.stream.total_read_bytes <= s.previous_ackno + p
    BY <1>5 DEF InWindow, p
  <2>4. s.next_seqno - s.previous_ackno <= p
    BY <1>2, <2>1, <2>2, <2>3
  <2> QED
    BY <1>2, <1>3, <2>4
<1> QED
  BY <1>4, <1>5 DEF p

(* fill_window()'s data segment.                                           *)
LEMMA SendDataKeeps ==
  ASSUME NEW s, Sound(s), s.next_seqno > 0, ~s.stream.is_eof
  PROVE  Sound(send_data(s)) /\ Same(s, send_data(s))
<1> DEFINE avail == available_window_size(s)
           len   == BS!Smaller(avail, MAX_PAYLOAD_SIZE)
           data  == BS!peek_output(s.stream, len)
           o     == BS!pop_output(s.stream, len)
           fin   == adds_fin(s, data, o)
           f     == [s EXCEPT !.stream = o, !.is_fin_sent = @ \/ fin]
           seg   == [TS!New EXCEPT !.payload = data, !.fin = fin]
           c     == BS!covered(s.stream, len)
           read  == s.stream.total_read_bytes
<1>1. s \in Obj /\ StreamOK(s.stream) /\ CutOK(s)
  BY DEF Sound
<1>2. avail \in Nat /\ len \in Nat /\ len <= avail
  <2>1. avail \in Nat
    BY Available
  <2> HIDE DEF avail
  <2> QED
    BY <2>1, Constants DEF BS!Smaller
<1>3. send_data(s) = IF Len(data) > 0 \/ fin THEN send(f, seg) ELSE f
  BY DEF send_data
<1> HIDE DEF len
<1>4. /\ c \in Nat /\ c <= len
      /\ data \in Seq(Byte) /\ Len(data) = c
      /\ \A i \in 1 .. c : data[i] = read + i - 1
      /\ StreamOK(o)
      /\ o.total_read_bytes = read + c
      /\ o.total_written_bytes = s.stream.total_written_bytes
      /\ o.is_input_ended = s.stream.is_input_ended
  BY <1>1, <1>2, PopStream
<1>5. /\ ~s.is_fin_sent
      /\ s.next_seqno = 1 + read
      /\ s.next_seqno \in Nat /\ read \in Nat
  <2>1. ~s.is_fin_sent
    BY <1>1 DEF CutOK, StreamOK
  <2>2. s.next_seqno = 1 + read + 0
    BY <1>1, <2>1 DEF CutOK
  <2>3. s.next_seqno \in Nat /\ read \in Nat
    BY <1>1, Fields, StreamFields
  <2> QED
    BY <2>1, <2>2, <2>3
<1>6. /\ fin \in BOOLEAN
      /\ fin => /\ o.is_input_ended
                /\ Len(o.buffer) = 0
                /\ o.total_written_bytes = read + c
  <2>1. o \in BS!Type(Byte)
    BY <1>4 DEF StreamOK
  <2>2. fin \in BOOLEAN /\ (fin => o.is_eof)
    BY <2>1, StreamFields DEF adds_fin
  <2> HIDE DEF o, fin
  <2>3. fin => o.is_input_ended /\ Len(o.buffer) = 0
    BY <1>4, <2>2 DEF StreamOK
  <2>4. fin => o.total_written_bytes = o.total_read_bytes + 0
    BY <1>4, <2>3 DEF StreamOK
  <2> QED
    BY <1>4, <1>5, <2>2, <2>3, <2>4
<1> HIDE DEF c, data, o, fin, avail
<1>7. /\ f \in Obj
      /\ f.is_fin_sent = fin
      /\ f.stream = o /\ f.next_seqno = s.next_seqno
      /\ f.bytes_in_flight = s.bytes_in_flight
      /\ f.outstanding_segments = s.outstanding_segments
      /\ f.previous_ackno = s.previous_ackno
      /\ f.window_size = s.window_size
      /\ f.consecutive_retransmissions = s.consecutive_retransmissions
      /\ f.retx_timer = s.retx_timer
  <2>1. o \in BS!Type(Byte)
    BY <1>4 DEF StreamOK
  <2>2. s.is_fin_sent = FALSE /\ (s.is_fin_sent \/ fin) = fin
    BY <1>1, <1>5, <1>6, Fields
  <2>3. f = [s EXCEPT !.stream = o, !.is_fin_sent = fin]
    BY <2>2
  <2> HIDE DEF f
  <2> QED
    BY <1>1, <1>6, <2>1, <2>3 DEF Obj
<1> HIDE DEF f
<1>8. Kept(f)
  <2>1. PICK st : Covers(s, st) /\ AckedUpTo(s, st)
    BY DEF Sound
  <2>2. Covers(f, st) /\ AckedUpTo(f, st)
    BY <1>4, <1>7, <2>1, CoversSame
  <2> QED
    BY <1>4, <1>7, <2>2 DEF Kept
<1>9. InWindow(s) =>
        \A d : /\ d.stream.total_read_bytes = read + c
               /\ d.previous_ackno = s.previous_ackno
               /\ d.window_size = s.window_size
               => InWindow(d)
  <2> SUFFICES ASSUME InWindow(s), NEW d,
                      d.stream.total_read_bytes = read + c,
                      d.previous_ackno = s.previous_ackno,
                      d.window_size = s.window_size
               PROVE  InWindow(d)
    OBVIOUS
  <2>1. s.next_seqno + avail = s.previous_ackno + probing_window(s)
    BY <1>5, Available DEF avail
  <2>2. probing_window(d) = probing_window(s)
    BY DEF probing_window
  <2>3. len \in Nat /\ s.previous_ackno + probing_window(s) \in Nat
    BY <1>1, <1>2, Fields, ProbingWindow
  <2>4. 1 + (read + c) <= s.next_seqno + avail
    BY <1>2, <1>4, <1>5, <2>3
  <2> QED
    BY <2>1, <2>2, <2>4 DEF InWindow
<1>10. CASE Len(data) > 0 \/ fin
  <2> DEFINE d == send(f, seg)
  <2>1. seg \in Segments /\ seg.syn = FALSE /\ seg.fin = fin /\ seg.payload = data
    BY <1>4, <1>6, NewSegment DEF Segments, TS!Type
  <2> HIDE DEF seg
  <2>2. TS!length_in_sequence_space(seg) = c + (IF fin THEN 1 ELSE 0)
    <3>1. TS!length_in_sequence_space(seg) = c + 0 + (IF fin THEN 1 ELSE 0)
      BY <1>4, <2>1 DEF TS!length_in_sequence_space
    <3>2. c + 0 = c
      BY <1>4
    <3> QED
      BY <3>1, <3>2
  <2>3. /\ Kept(d)
        /\ d.stream = f.stream
        /\ d.next_seqno = f.next_seqno + (c + (IF fin THEN 1 ELSE 0))
        /\ d.is_fin_sent = f.is_fin_sent
        /\ d.previous_ackno = f.previous_ackno
        /\ d.window_size = f.window_size
        /\ d.consecutive_retransmissions = f.consecutive_retransmissions
        /\ d.retx_timer = RT!start(f.retx_timer)
        /\ d.outstanding_segments # << >>
    <3>1. TS!length_in_sequence_space(seg) > 0
      BY <1>4, <1>10, <2>2
    <3>2. ~seg.syn /\ f.next_seqno # 0
      BY <1>5, <1>7, <2>1
    <3>3. \A i \in DOMAIN seg.payload : seg.payload[i] = f.next_seqno + i - 2
      <4>1. DOMAIN data = 1 .. c
        BY <1>4, LenProperties
      <4>2. \A r \in Nat : \A i \in 1 .. c : r + i - 1 = (1 + r) + i - 2
        BY <1>4
      <4>3. \A i \in 1 .. c : data[i] = (1 + read) + i - 2
        BY <1>4, <1>5, <4>2
      <4> QED
        BY <1>5, <1>7, <2>1, <4>1, <4>3
    <3>4. seg.fin => /\ f.stream.is_input_ended
                     /\ f.next_seqno + Len(seg.payload) = f.stream.total_written_bytes + 1
      <4>1. (1 + read) + c = (read + c) + 1
        BY <1>4, <1>5
      <4> QED
        BY <1>4, <1>5, <1>6, <1>7, <2>1, <4>1
    <3> QED
      BY <1>8, <2>1, <2>2, <3>1, <3>2, <3>3, <3>4, SendKeeps
  <2> HIDE DEF d
  <2>4. CutOK(d)
    <3>1. d.next_seqno > 0 /\ d.next_seqno = 1 + (read + c) + (IF fin THEN 1 ELSE 0)
      <4> DEFINE e == IF fin THEN 1 ELSE 0
      <4>1. e \in Nat
        OBVIOUS
      <4>2. d.next_seqno = (1 + read) + (c + e)
        BY <1>5, <1>7, <2>3
      <4> HIDE DEF e
      <4>3. \A r \in Nat : /\ (1 + r) + (c + e) = 1 + (r + c) + e
                            /\ (1 + r) + (c + e) > 0
        BY <1>4, <4>1
      <4>4. d.next_seqno = 1 + (read + c) + e /\ d.next_seqno > 0
        BY <1>5, <4>2, <4>3
      <4> QED
        BY <4>4 DEF e
    <3>2. d.is_fin_sent = fin /\ d.stream = o
      BY <1>7, <2>3
    <3>3. d.next_seqno # 0
      BY <3>1
    <3> QED
      BY <1>4, <1>6, <3>1, <3>2, <3>3 DEF CutOK
  <2>5. Sound(d)
    BY <2>3, <2>4 DEF Sound, Kept
  <2>6. Same(s, d)
    <3>1. s.retx_timer \in RT!Type
      BY <1>1, Fields
    <3>2. /\ d.retx_timer.rto = s.retx_timer.rto
          /\ d.retx_timer.init_rto = s.retx_timer.init_rto
          /\ d.retx_timer.is_running
          /\ s.retx_timer.is_running => d.retx_timer = s.retx_timer
      BY <1>7, <2>3, <3>1, StartTimer
    <3>3. d.next_seqno >= s.next_seqno
      BY <1>4, <1>5, <1>7, <2>3
    <3>4. TimerOK(d)
      BY <2>3, <3>2 DEF TimerOK
    <3>5. InWindow(s) => InWindow(d)
      BY <1>4, <1>7, <1>9, <2>3
    <3> QED
      BY <1>7, <2>3, <3>2, <3>3, <3>4, <3>5 DEF Same
  <2> QED
    BY <1>3, <1>10, <2>5, <2>6 DEF d
<1>11. CASE ~(Len(data) > 0 \/ fin)
  <2>1. c = 0 /\ ~fin
    BY <1>4, <1>11
  <2>2. o.total_read_bytes = read
    BY <1>4, <1>5, <2>1
  <2>3. CutOK(f)
    <3>1. ~f.is_fin_sent /\ f.next_seqno # 0
      BY <1>5, <1>7, <2>1
    <3>2. f.next_seqno = 1 + f.stream.total_read_bytes + 0
      BY <1>5, <1>7, <2>2
    <3> QED
      BY <3>1, <3>2 DEF CutOK
  <2>4. Sound(f)
    BY <1>8, <2>3 DEF Sound, Kept
  <2>5. InWindow(s) => InWindow(f)
    BY <1>4, <1>7, <1>9
  <2>6. Same(s, f)
    BY <1>5, <1>7, <2>5 DEF Same, TimerOK
  <2> QED
    BY <1>3, <1>11, <2>4, <2>6
<1> QED
  BY <1>10, <1>11

(* One round of the loop of fill_window() keeps the object sound.          *)
LEMMA RoundKeeps ==
  ASSUME NEW s, Sound(s), s.next_seqno > 0
  PROVE  Sound(send_round(s)) /\ Same(s, send_round(s))
<1>1. s \in Obj
  BY DEF Sound
<1> QED
  BY <1>1, SameReflexive, SendFinKeeps, SendDataKeeps DEF send_round

(* Every number of rounds, by induction.                                   *)
LEMMA RoundsKeep ==
  ASSUME Foundations, NEW s, Sound(s), s.next_seqno > 0, NEW n \in Nat
  PROVE  Sound(send_rounds(s, n)) /\ Same(s, send_rounds(s, n))
<1> DEFINE Good(i) == Sound(send_rounds(s, i)) /\ Same(s, send_rounds(s, i))
           T == {i \in Nat : Good(i)}
<1>1. s \in Obj
  BY DEF Sound
<1>2. 0 \in T
  BY <1>1, SendRounds, SameReflexive
<1>3. ASSUME NEW i \in Nat, i \in T PROVE i + 1 \in T
  <2> DEFINE a == send_rounds(s, i)
             b == send_round(a)
  <2>1. Sound(a) /\ Same(s, a)
    BY <1>3
  <2>2. a \in Obj /\ a.next_seqno >= s.next_seqno /\ s.next_seqno \in Nat
    BY <1>1, <2>1, Fields DEF Sound, Same
  <2>3. a.next_seqno > 0
    BY <2>2, Fields
  <2> HIDE DEF a
  <2>4. Sound(b) /\ Same(a, b)
    BY <2>1, <2>3, RoundKeeps
  <2>5. Same(s, b)
    BY <1>1, <2>1, <2>2, <2>4, SameTransitive DEF Sound
  <2>6. send_rounds(s, i + 1) = b
    BY SendRounds DEF a
  <2> QED
    BY <2>4, <2>5, <2>6
<1> HIDE DEF T
<1>4. \A i \in Nat : i \in T
  BY <1>2, <1>3, Induction
<1> QED
  BY <1>4 DEF T

(* fill_window(), with the SYN when nothing has been sent.                 *)
LEMMA FillKeeps ==
  ASSUME Foundations, NEW s, Sound(s)
  PROVE  Sound(fill_window(s)) /\ Same(s, fill_window(s))
<1>1. s \in Obj /\ StreamOK(s.stream) /\ CutOK(s)
  BY DEF Sound
<1>2. s.next_seqno \in Nat /\ s.retx_timer \in RT!Type
  BY <1>1, Fields
<1>3. CASE s.next_seqno = 0
  <2> DEFINE seg == [TS!New EXCEPT !.syn = TRUE]
             d   == send(s, seg)
  <2>1. fill_window(s) = d
    BY <1>3 DEF fill_window
  <2>2. /\ seg \in Segments /\ seg.syn /\ ~seg.fin /\ seg.payload = << >>
    <3>1. [TS!New EXCEPT !.syn = TRUE] \in Segments
      BY NewSegment DEF Segments, TS!Type
    <3> QED
      BY <3>1, NewSegment DEF Segments, TS!Type
  <2> HIDE DEF seg
  <2>3. TS!length_in_sequence_space(seg) = 1
    BY <2>2 DEF TS!length_in_sequence_space
  <2>4. Kept(s)
    BY DEF Sound, Kept
  <2>5. /\ Kept(d)
        /\ d.stream = s.stream
        /\ d.next_seqno = s.next_seqno + 1
        /\ d.is_fin_sent = s.is_fin_sent
        /\ d.previous_ackno = s.previous_ackno
        /\ d.window_size = s.window_size
        /\ d.consecutive_retransmissions = s.consecutive_retransmissions
        /\ d.retx_timer = RT!start(s.retx_timer)
        /\ d.outstanding_segments # << >>
    <3>1. \A i \in DOMAIN seg.payload : seg.payload[i] = s.next_seqno + i - 2
      BY <2>2
    <3> QED
      BY <1>3, <2>2, <2>3, <2>4, <3>1, SendKeeps, SMTT(30)
  <2> HIDE DEF d
  <2>6. CutOK(d)
    <3>1. d.next_seqno = 1 /\ d.stream.total_read_bytes = 0 /\ ~d.is_fin_sent
      BY <1>1, <1>3, <2>5 DEF CutOK
    <3> QED
      BY <3>1 DEF CutOK
  <2>7. Sound(d)
    BY <2>5, <2>6 DEF Sound, Kept
  <2>8. /\ d.retx_timer.rto = s.retx_timer.rto
        /\ d.retx_timer.init_rto = s.retx_timer.init_rto
        /\ d.retx_timer.is_running
        /\ s.retx_timer.is_running => d.retx_timer = s.retx_timer
    BY <1>2, <2>5, StartTimer
  <2>9. TimerOK(d)
    BY <2>5, <2>8 DEF TimerOK
  <2>10. InWindow(s) => InWindow(d)
    BY <2>5 DEF InWindow, probing_window
  <2>11. d.next_seqno >= s.next_seqno
    BY <1>2, <2>5
  <2>12. Same(s, d)
    BY <2>5, <2>8, <2>9, <2>10, <2>11 DEF Same
  <2> QED
    BY <2>1, <2>7, <2>12
<1>4. CASE s.next_seqno # 0
  <2>1. BS!buffer_size(s.stream) + 2 \in Nat
    BY <1>1, StreamFields DEF BS!buffer_size, StreamOK
  <2>2. s.next_seqno > 0
    BY <1>2, <1>4
  <2> QED
    BY <1>1, <1>4, <2>1, <2>2, SameReflexive, RoundsKeep DEF fill_window
<1> QED
  BY <1>3, <1>4
-----------------------------------------------------------------------------
(* The application.                                                        *)

(* write() of the next n bytes, of which the stream takes what fits.       *)
LEMMA WriteStream ==
  ASSUME NEW o, StreamOK(o), ~o.is_input_ended, NEW n \in Nat,
         o.total_written_bytes + n <= StreamLen
  PROVE  LET data == [i \in 1 .. n |-> o.total_written_bytes + i - 1]
             d    == BS!write(o, data)
         IN  StreamOK(d) /\ d.total_read_bytes = o.total_read_bytes
<1> DEFINE data == [i \in 1 .. n |-> o.total_written_bytes + i - 1]
           d    == BS!write(o, data)
           b    == o.buffer
           m    == BS!written_bytes(o, data)
           more == SubSeq(data, 1, m)
           wr   == o.total_written_bytes
           rd   == o.total_read_bytes
<1>1. /\ o \in BS!Type(Byte) /\ b \in Seq(Byte) /\ Len(b) \in Nat
      /\ rd \in Nat /\ wr \in Nat
      /\ o.is_input_ended = FALSE /\ o.is_eof = FALSE
      /\ o.total_capacity = Capacity /\ Len(b) <= Capacity
      /\ wr = rd + Len(b)
      /\ \A i \in 1 .. Len(b) : b[i] = rd + i - 1
  BY StreamFields DEF StreamOK
<1>2. wr + n <= StreamLen
  OBVIOUS
<1> HIDE DEF b, wr, rd
<1>3. /\ data \in Seq(Byte)
      /\ Len(data) = n
      /\ \A i \in 1 .. n : data[i] = wr + i - 1 /\ data[i] \in Byte
  <2>1. \A i \in 1 .. n : wr + i - 1 \in 0 .. StreamLen - 1
    BY <1>1, <1>2, Constants
  <2>2. data = [i \in 1 .. n |-> wr + i - 1]
    BY DEF wr
  <2>3. data \in [1 .. n -> Byte]
    BY <2>1, <2>2 DEF Byte
  <2> QED
    BY <2>1, <2>2, <2>3 DEF Byte
<1> HIDE DEF data
<1>4. m \in Nat /\ m <= n /\ Len(b) + m <= Capacity
  <2>1. m = IF n < Capacity - Len(b) THEN n ELSE Capacity - Len(b)
    BY <1>1, <1>3
    DEF BS!written_bytes, BS!remaining_capacity, BS!buffer_size, BS!Smaller, b
  <2> HIDE DEF m
  <2> QED
    BY <1>1, <2>1, Constants
<1> HIDE DEF m
<1>5. /\ more \in Seq(Byte)
      /\ Len(more) = m
      /\ \A i \in 1 .. m : more[i] = wr + i - 1
  <2>1. \A i \in 1 .. m : data[i] = wr + i - 1 /\ data[i] \in Byte
    BY <1>3, <1>4
  <2>2. /\ SubSeq(data, 1, m) \in Seq(Byte)
        /\ Len(SubSeq(data, 1, m)) = IF 1 <= m THEN m - 1 + 1 ELSE 0
        /\ \A i \in 1 .. m - 1 + 1 : SubSeq(data, 1, m)[i] = data[1 + i - 1]
    BY <1>4, <2>1, SubSeqProperties
  <2>3. (IF 1 <= m THEN m - 1 + 1 ELSE 0) = m /\ m - 1 + 1 = m
    BY <1>4
  <2>4. \A i \in 1 .. m : 1 + i - 1 = i
    OBVIOUS
  <2> QED
    BY <2>1, <2>2, <2>3, <2>4
<1> HIDE DEF more
<1>6. /\ b \o more \in Seq(Byte)
      /\ Len(b \o more) = Len(b) + m
      /\ \A i \in 1 .. Len(b) + m :
            (b \o more)[i] = IF i <= Len(b) THEN b[i] ELSE more[i - Len(b)]
  BY <1>1, <1>5, ConcatProperties
<1>7. /\ d \in BS!Type(Byte)
      /\ d.buffer = b \o more
      /\ d.total_written_bytes = wr + m
      /\ d.total_read_bytes = rd
      /\ d.total_capacity = o.total_capacity
      /\ d.is_input_ended = FALSE /\ d.is_eof = FALSE
  <2>1. wr + m \in Nat
    BY <1>1, <1>4
  <2>2. d = [o EXCEPT !.buffer = b \o more, !.total_written_bytes = wr + m]
    BY DEF BS!write, b, more, m, wr
  <2> HIDE DEF d
  <2> QED
    BY <1>1, <1>6, <2>1, <2>2 DEF BS!Type, rd
<1> HIDE DEF d
<1>8. ASSUME NEW i \in 1 .. Len(b) + m PROVE (b \o more)[i] = rd + i - 1
  <2>1. CASE i <= Len(b)
    <3>1. i \in 1 .. Len(b)
      BY <1>1, <2>1
    <3> QED
      BY <1>1, <1>6, <2>1, <3>1
  <2>2. CASE ~(i <= Len(b))
    <3>1. i - Len(b) \in 1 .. m
      BY <1>1, <1>4, <2>2
    <3>2. (b \o more)[i] = wr + (i - Len(b)) - 1
      BY <1>5, <1>6, <2>2, <3>1
    <3> QED
      BY <1>1, <3>2
  <2> QED
    BY <2>1, <2>2
<1>9. wr + m = rd + (Len(b) + m) /\ wr + m <= StreamLen
  BY <1>1, <1>2, <1>4, Constants
<1>10. StreamOK(d)
  BY <1>1, <1>4, <1>6, <1>7, <1>8, <1>9 DEF StreamOK
<1> QED
  BY <1>7, <1>10 DEF d, data, rd

(* end_input() keeps the stream sound.                                     *)
LEMMA EndStream ==
  ASSUME NEW o, StreamOK(o)
  PROVE  LET d == BS!end_input(o)
         IN  StreamOK(d) /\ d.total_read_bytes = o.total_read_bytes
<1> DEFINE d == BS!end_input(o)
           e == o.total_written_bytes = o.total_read_bytes
<1>1. o \in BS!Type(Byte)
  BY DEF StreamOK
<1>2. e \in BOOLEAN
  OBVIOUS
<1>3. e <=> Len(o.buffer) = 0
  BY <1>1, StreamFields DEF StreamOK
<1>4. d = [o EXCEPT !.is_input_ended = TRUE, !.is_eof = e]
  BY DEF BS!end_input
<1> HIDE DEF d, e
<1>5. /\ d \in BS!Type(Byte)
      /\ d.buffer = o.buffer
      /\ d.total_written_bytes = o.total_written_bytes
      /\ d.total_read_bytes = o.total_read_bytes
      /\ d.total_capacity = o.total_capacity
      /\ d.is_input_ended /\ d.is_eof = e
  BY <1>1, <1>2, <1>4 DEF BS!Type
<1>6. StreamOK(d)
  BY <1>3, <1>5 DEF StreamOK
<1> QED
  BY <1>5, <1>6 DEF d

(* More stream behind what was cut changes nothing for what is outstanding:*)
(* no FIN is out while the input goes on.                                  *)
LEMMA StreamGrows ==
  ASSUME NEW s, Sound(s), ~s.stream.is_input_ended,
         NEW o, StreamOK(o), o.total_read_bytes = s.stream.total_read_bytes
  PROVE  LET d == [s EXCEPT !.stream = o]
         IN  /\ Sound(d) /\ Same(s, d)
             /\ d.segments_out = s.segments_out
             /\ d.outstanding_segments = s.outstanding_segments
             /\ d.retx_timer = s.retx_timer
<1> DEFINE d == [s EXCEPT !.stream = o]
<1>1. s \in Obj /\ StreamOK(s.stream) /\ CutOK(s)
  BY DEF Sound
<1>2. /\ d \in Obj
      /\ d.stream = o /\ d.next_seqno = s.next_seqno
      /\ d.bytes_in_flight = s.bytes_in_flight
      /\ d.outstanding_segments = s.outstanding_segments
      /\ d.previous_ackno = s.previous_ackno
      /\ d.window_size = s.window_size
      /\ d.consecutive_retransmissions = s.consecutive_retransmissions
      /\ d.retx_timer = s.retx_timer
      /\ d.is_fin_sent = s.is_fin_sent
      /\ d.segments_out = s.segments_out
  <2>1. o \in BS!Type(Byte)
    BY DEF StreamOK
  <2> QED
    BY <1>1, <2>1 DEF Obj
<1> HIDE DEF d
<1>3. CutOK(d)
  BY <1>1, <1>2 DEF CutOK
<1>4. \E st : Covers(d, st) /\ AckedUpTo(d, st)
  <2>1. PICK st : Covers(s, st) /\ AckedUpTo(s, st)
    BY DEF Sound
  <2>2. \A seg, n : Carries(s.stream, seg, n) => Carries(o, seg, n)
    BY DEF Carries
  <2>3. Covers(d, st)
    BY <1>2, <2>1, <2>2 DEF Covers
  <2>4. AckedUpTo(d, st)
    BY <1>2, <2>1 DEF AckedUpTo
  <2> QED
    BY <2>3, <2>4
<1>5. Sound(d)
  BY <1>2, <1>3, <1>4 DEF Sound
<1>6. Same(s, d)
  <2>1. s.next_seqno >= s.next_seqno
    BY <1>1, Fields
  <2> QED
    BY <1>2, <2>1 DEF Same, TimerOK, InWindow, probing_window
<1> QED
  BY <1>2, <1>5, <1>6 DEF d
-----------------------------------------------------------------------------
(* Acknowledgments.                                                        *)

(* What the segments add up to, in terms of where they start.              *)
LEMMA LengthIsDistance ==
  ASSUME Foundations,
         NEW s \in Obj, NEW st, Covers(s, st), NEW n \in 0 .. Len(s.outstanding_segments)
  PROVE  length_of_first(s.outstanding_segments, n) = st[n + 1] - st[1]
<1> DEFINE out == s.outstanding_segments
           Good(i) == i <= Len(out) => length_of_first(out, i) = st[i + 1] - st[1]
           T == {i \in Nat : Good(i)}
<1>1. /\ s.next_seqno \in Nat /\ Len(out) \in Nat
      /\ \A i \in 1 .. Len(out) + 1 : st[i] \in Nat
  <2>1. s.next_seqno \in Nat /\ Len(out) \in Nat
    BY Fields, LenProperties
  <2>2. st \in [1 .. Len(out) + 1 -> 0 .. s.next_seqno]
    BY DEF Covers
  <2> QED
    BY <2>1, <2>2
<1>2. \A i \in 1 .. Len(out) : st[i + 1] = st[i] + TS!length_in_sequence_space(out[i])
  BY DEF Covers
<1> HIDE DEF out
<1>3. 0 \in T
  <2>1. st[1] \in Nat /\ 0 + 1 = 1
    BY <1>1
  <2>2. length_of_first(out, 0) = 0
    BY LengthOfFirst
  <2>3. st[1] - st[1] = 0
    BY <2>1
  <2> QED
    BY <2>1, <2>2, <2>3
<1>4. ASSUME NEW i \in Nat, i \in T PROVE i + 1 \in T
  <2> SUFFICES ASSUME i + 1 <= Len(out)
               PROVE  length_of_first(out, i + 1) = st[(i + 1) + 1] - st[1]
    OBVIOUS
  <2>1. i + 1 \in 1 .. Len(out) /\ i <= Len(out) /\ (i + 1) + 1 \in 1 .. Len(out) + 1
        /\ 1 \in 1 .. Len(out) + 1 /\ i + 1 \in 1 .. Len(out) + 1
    BY <1>1
  <2> DEFINE len == TS!length_in_sequence_space(out[i + 1])
  <2>2. len \in Nat
    <3>1. out[i + 1] \in Segments
      BY <2>1, Fields, ElementOfSeq DEF out
    <3> QED
      BY <3>1, SegmentFields
  <2>3. length_of_first(out, i + 1) = length_of_first(out, i) + len
    BY LengthOfFirst
  <2>4. length_of_first(out, i) = st[i + 1] - st[1]
    BY <1>4, <2>1
  <2>5. st[(i + 1) + 1] = st[i + 1] + len
    BY <1>2, <2>1
  <2>6. st[i + 1] \in Nat /\ st[1] \in Nat
    BY <1>1, <2>1
  <2> HIDE DEF len
  <2> QED
    BY <2>2, <2>3, <2>4, <2>5, <2>6
<1> HIDE DEF T
<1>5. \A i \in Nat : i \in T
  BY <1>3, <1>4, Induction
<1>6. n \in T /\ n <= Len(out)
  BY <1>1, <1>5 DEF out
<1> QED
  BY <1>6 DEF T, out

(* A segment is fully acknowledged when the next one starts at or below    *)
(* the acknowledged number.                                                *)
LEMMA FullyAcknowledged ==
  ASSUME Foundations, NEW s \in Obj, NEW st, Covers(s, st),
         s.next_seqno <= StreamLen + 2, s.previous_ackno <= s.next_seqno,
         NEW i \in 1 .. Len(s.outstanding_segments)
  PROVE  fully_acknowledged(s, s.outstanding_segments[i]) <=> st[i + 1] <= s.previous_ackno
<1> DEFINE seg == s.outstanding_segments[i]
           c   == s.previous_ackno
<1>1. /\ s.next_seqno \in Nat /\ c \in Nat /\ s.isn = Isn
      /\ Len(s.outstanding_segments) \in Nat
  BY Fields, LenProperties
<1>2. /\ st[i] \in 0 .. s.next_seqno
      /\ st[i + 1] = st[i] + TS!length_in_sequence_space(seg)
      /\ seg.seqno = WI!wrap(st[i], Isn)
  <2>1. i \in 1 .. Len(s.outstanding_segments) + 1
    BY <1>1
  <2>2. st \in [1 .. Len(s.outstanding_segments) + 1 -> 0 .. s.next_seqno]
    BY DEF Covers
  <2>3. /\ st[i + 1] = st[i] + TS!length_in_sequence_space(seg)
        /\ Carries(s.stream, seg, st[i])
    BY DEF Covers
  <2> QED
    BY <2>1, <2>2, <2>3 DEF Carries
<1>3. WI!unwrap(WI!wrap(st[i], Isn), Isn, c) = st[i]
  <2>1. st[i] \in Nat /\ st[i] <= StreamLen + 2 /\ c <= StreamLen + 2
    BY <1>1, <1>2, Constants
  <2>2. \A a, b \in Nat : a <= StreamLen + 2 /\ b <= StreamLen + 2 =>
           2 * (a - b) < Modulus
    BY SenderAssumption
  <2> QED
    BY <1>1, <2>1, <2>2, WrapRoundTrip
<1> QED
  BY <1>1, <1>2, <1>3 DEF fully_acknowledged

(* The segments that ack_received() pops: those in front of the first one  *)
(* that is not fully acknowledged.                                         *)
LEMMA AcknowledgedSegments ==
  ASSUME Foundations, NEW s \in Obj
  PROVE  LET out == s.outstanding_segments
             n   == acknowledged_segments(s)
         IN  /\ n \in 0 .. Len(out)
             /\ \A i \in 1 .. n : fully_acknowledged(s, out[i])
             /\ n < Len(out) => ~fully_acknowledged(s, out[n + 1])
<1> DEFINE out  == s.outstanding_segments
           I    == {i \in 1 .. Len(out) : ~fully_acknowledged(s, out[i])}
           P(n) == /\ \A i \in 1 .. n : fully_acknowledged(s, out[i])
                   /\ n < Len(out) => ~fully_acknowledged(s, out[n + 1])
<1>1. Len(out) \in Nat
  BY Fields, LenProperties
<1>2. \E n \in 0 .. Len(out) : P(n)
  <2>1. CASE I = {}
    <3>1. P(Len(out)) /\ Len(out) \in 0 .. Len(out)
      BY <1>1, <2>1
    <3> QED
      BY <3>1
  <2>2. CASE I # {}
    <3>1. I \subseteq Nat
      BY <1>1
    <3> HIDE DEF I
    <3>2. PICK m \in I : \A y \in I : m <= y
      BY <2>2, <3>1, Least
    <3>3. m \in 1 .. Len(out) /\ ~fully_acknowledged(s, out[m])
      BY <3>2 DEF I
    <3>4. ASSUME NEW y \in 1 .. m - 1 PROVE fully_acknowledged(s, out[y])
      <4>1. y \in 1 .. Len(out) /\ ~(m <= y)
        BY <1>1, <3>3
      <4> QED
        BY <3>2, <4>1 DEF I
    <3>5. m - 1 \in 0 .. Len(out) /\ (m - 1) + 1 = m
      BY <1>1, <3>3
    <3>6. P(m - 1)
      BY <3>3, <3>4, <3>5
    <3> QED
      BY <3>5, <3>6
  <2> QED
    BY <2>1, <2>2
<1>3. acknowledged_segments(s) = CHOOSE n \in 0 .. Len(out) : P(n)
  BY DEF acknowledged_segments
<1> HIDE DEF P
<1>4. acknowledged_segments(s) \in 0 .. Len(out) /\ P(acknowledged_segments(s))
  BY <1>2, <1>3
<1> QED
  BY <1>4 DEF P

(* The loop of ack_received(): s already has the new number.               *)
LEMMA PopAcknowledged ==
  ASSUME Foundations, NEW s \in Obj, NEW st, Covers(s, st),
         s.next_seqno <= StreamLen + 2,
         st[1] <= s.previous_ackno, s.previous_ackno <= s.next_seqno
  PROVE  LET d == pop_acknowledged(s)
         IN  /\ d \in Obj
             /\ \E dt : Covers(d, dt) /\ AckedUpTo(d, dt)
             /\ d.stream = s.stream /\ d.next_seqno = s.next_seqno
             /\ d.previous_ackno = s.previous_ackno
             /\ d.window_size = s.window_size
             /\ d.retx_timer = s.retx_timer
             /\ d.is_fin_sent = s.is_fin_sent
             /\ d.segments_out = s.segments_out
<1> DEFINE d    == pop_acknowledged(s)
           out  == s.outstanding_segments
           n    == acknowledged_segments(s)
           L    == Len(out)
           rest == SubSeq(out, n + 1, L)
           u    == s.previous_ackno
           b    == s.bytes_in_flight - length_of_first(out, n)
           dt   == [i \in 1 .. (L - n) + 1 |-> st[n + i]]
<1>1. /\ out \in Seq(Segments) /\ L \in Nat
      /\ s.next_seqno \in Nat /\ u \in Nat /\ s.bytes_in_flight \in Int
  BY Fields, LenProperties
<1>2. /\ n \in 0 .. L
      /\ \A i \in 1 .. n : fully_acknowledged(s, out[i])
      /\ n < L => ~fully_acknowledged(s, out[n + 1])
  BY AcknowledgedSegments
<1>3. /\ st \in [1 .. L + 1 -> 0 .. s.next_seqno]
      /\ st[1] = s.next_seqno - s.bytes_in_flight
      /\ st[L + 1] = s.next_seqno
      /\ \A i \in 1 .. L : /\ st[i + 1] = st[i] + TS!length_in_sequence_space(out[i])
                           /\ Carries(s.stream, out[i], st[i])
  BY DEF Covers
<1>4. \A i \in 1 .. L : fully_acknowledged(s, out[i]) <=> st[i + 1] <= u
  BY FullyAcknowledged
<1>5. length_of_first(out, n) = st[n + 1] - st[1]
  BY <1>2, LengthIsDistance
<1> HIDE DEF n, L, out, u
<1>6. n \in Nat /\ n <= L /\ n + 1 \in 1 .. L + 1 /\ 1 \in 1 .. L + 1
  BY <1>1, <1>2
<1>7. /\ rest \in Seq(Segments)
      /\ Len(rest) = L - n
      /\ \A i \in 1 .. L - n : rest[i] = out[n + i]
  <2>1. \A i \in n + 1 .. L : out[i] \in Segments
    BY <1>1, <1>6, ElementOfSeq DEF L
  <2>2. n + 1 \in Int /\ L \in Int
    BY <1>1, <1>6
  <2>3. /\ rest \in Seq(Segments)
        /\ Len(rest) = IF n + 1 <= L THEN L - (n + 1) + 1 ELSE 0
        /\ \A i \in 1 .. L - (n + 1) + 1 : rest[i] = out[(n + 1) + i - 1]
    BY <2>1, <2>2, SubSeqProperties
  <2>4. /\ (IF n + 1 <= L THEN L - (n + 1) + 1 ELSE 0) = L - n
        /\ L - (n + 1) + 1 = L - n
        /\ \A i \in 1 .. L - n : (n + 1) + i - 1 = n + i
    BY <1>1, <1>6
  <2> HIDE DEF rest
  <2> QED
    BY <2>3, <2>4
<1>8. b \in Int /\ s.next_seqno - b = st[n + 1]
  <2>1. st[n + 1] \in Nat /\ st[1] \in Nat
    BY <1>1, <1>3, <1>6
  <2>2. b = s.bytes_in_flight - (st[n + 1] - st[1])
    BY <1>5
  <2>3. \A p, q, m \in Nat, f \in Int :
          q = m - f => f - (p - q) \in Int /\ m - (f - (p - q)) = p
    OBVIOUS
  <2>4. st[1] = s.next_seqno - s.bytes_in_flight
    BY <1>3
  <2>5. /\ s.bytes_in_flight - (st[n + 1] - st[1]) \in Int
        /\ s.next_seqno - (s.bytes_in_flight - (st[n + 1] - st[1])) = st[n + 1]
    BY <1>1, <2>1, <2>3, <2>4
  <2> HIDE DEF b
  <2> QED
    BY <2>2, <2>5
<1> HIDE DEF rest, b
<1>9. /\ d \in Obj
      /\ d.outstanding_segments = rest
      /\ d.bytes_in_flight = b
      /\ d.stream = s.stream /\ d.next_seqno = s.next_seqno
      /\ d.previous_ackno = u
      /\ d.window_size = s.window_size
      /\ d.retx_timer = s.retx_timer
      /\ d.is_fin_sent = s.is_fin_sent
      /\ d.segments_out = s.segments_out
  <2>1. d = [s EXCEPT !.outstanding_segments = rest, !.bytes_in_flight = b]
    BY DEF pop_acknowledged, rest, b, n, out, L
  <2> HIDE DEF d
  <2>2. d \in Obj
    BY <1>7, <1>8, <2>1 DEF Obj
  <2> QED
    BY <2>1, <2>2 DEF Obj, u
<1> HIDE DEF d
<1>10. /\ dt \in [1 .. (L - n) + 1 -> 0 .. s.next_seqno]
       /\ \A i \in 1 .. (L - n) + 1 : dt[i] = st[n + i]
  <2>1. \A i \in 1 .. (L - n) + 1 : n + i \in 1 .. L + 1
    BY <1>1, <1>6
  <2>2. \A i \in 1 .. (L - n) + 1 : st[n + i] \in 0 .. s.next_seqno
    BY <1>3, <2>1
  <2> QED
    BY <2>2
<1> HIDE DEF dt
<1>11. dt[1] = st[n + 1] /\ dt[(L - n) + 1] = st[L + 1]
  <2>1. 1 \in 1 .. (L - n) + 1 /\ (L - n) + 1 \in 1 .. (L - n) + 1
        /\ n + ((L - n) + 1) = L + 1
    BY <1>1, <1>6
  <2> QED
    BY <1>10, <2>1
<1>12. ASSUME NEW i \in 1 .. L - n
       PROVE  /\ dt[i + 1] = dt[i] + TS!length_in_sequence_space(rest[i])
              /\ Carries(s.stream, rest[i], dt[i])
  <2>1. /\ n + i \in 1 .. L /\ i \in 1 .. (L - n) + 1 /\ i + 1 \in 1 .. (L - n) + 1
        /\ n + (i + 1) = (n + i) + 1
    BY <1>1, <1>6
  <2>2. dt[i] = st[n + i] /\ dt[i + 1] = st[(n + i) + 1]
    BY <1>10, <2>1
  <2>3. rest[i] = out[n + i]
    BY <1>7
  <2>4. /\ st[(n + i) + 1] = st[n + i] + TS!length_in_sequence_space(out[n + i])
        /\ Carries(s.stream, out[n + i], st[n + i])
    BY <1>3, <2>1
  <2> QED
    BY <2>2, <2>3, <2>4
<1>13. Covers(d, dt)
  <2>1. dt[1] = d.next_seqno - d.bytes_in_flight
    BY <1>8, <1>9, <1>11
  <2> QED
    BY <1>3, <1>7, <1>9, <1>10, <1>11, <1>12, <2>1 DEF Covers
<1>14. AckedUpTo(d, dt)
  <2>1. st[n + 1] <= u
    <3>1. CASE n = 0
      BY <3>1 DEF u
    <3>2. CASE n # 0
      <4>1. n \in 1 .. n /\ n \in 1 .. L
        BY <1>1, <1>6, <3>2
      <4> QED
        BY <1>2, <1>4, <4>1
    <3> QED
      BY <3>1, <3>2
  <2>2. ASSUME rest # << >> PROVE u < dt[2]
    <3>1. Len(rest) # 0
      BY <1>7, <2>2, EmptySeq
    <3>2. n < L /\ n + 1 \in 1 .. L /\ 2 \in 1 .. (L - n) + 1 /\ n + 2 = (n + 1) + 1
          /\ (n + 1) + 1 \in 1 .. L + 1
      BY <1>1, <1>6, <1>7, <3>1
    <3>3. ~(st[(n + 1) + 1] <= u)
      BY <1>2, <1>4, <3>2
    <3>4. st[(n + 1) + 1] \in Nat
      BY <1>1, <1>3, <3>2
    <3>5. u < st[(n + 1) + 1]
      BY <1>1, <3>3, <3>4
    <3> QED
      BY <1>10, <3>2, <3>5
  <2>3. u <= s.next_seqno
    BY DEF u
  <2> QED
    BY <1>9, <1>11, <2>1, <2>2, <2>3 DEF AckedUpTo
<1> QED
  BY <1>9, <1>13, <1>14 DEF d, u

(* The other operations of the timer.                                      *)
LEMMA TimerOps ==
  ASSUME NEW t \in RT!Type
  PROVE  /\ restart(t) \in RT!Type
         /\ restart(t).is_running
         /\ restart(t).rto = t.rto /\ restart(t).init_rto = t.init_rto
         /\ RT!stop(t) \in RT!Type
         /\ ~RT!stop(t).is_running
         /\ RT!stop(t).rto = t.rto /\ RT!stop(t).init_rto = t.init_rto
         /\ RT!set_rto_init(t) \in RT!Type
         /\ RT!set_rto_init(t).rto = t.init_rto
         /\ RT!set_rto_init(t).init_rto = t.init_rto
         /\ RT!double_rto(t) \in RT!Type
         /\ RT!double_rto(t).rto = 2 * t.rto
         /\ RT!double_rto(t).init_rto = t.init_rto
<1>1. /\ RT!stop(t) \in RT!Type
      /\ ~RT!stop(t).is_running
      /\ RT!stop(t).rto = t.rto /\ RT!stop(t).init_rto = t.init_rto
  BY DEF RT!Type, RT!stop
<1>2. /\ restart(t) \in RT!Type
      /\ restart(t).is_running
      /\ restart(t).rto = t.rto /\ restart(t).init_rto = t.init_rto
  BY <1>1, StartTimer DEF restart
<1>3. /\ RT!set_rto_init(t) \in RT!Type
      /\ RT!set_rto_init(t).rto = t.init_rto
      /\ RT!set_rto_init(t).init_rto = t.init_rto
  BY DEF RT!Type, RT!set_rto_init
<1>4. 2 * t.rto \in Nat
  BY TimerFields
<1>5. RT!double_rto(t) = [t EXCEPT !.rto = 2 * t.rto]
  BY DEF RT!double_rto
<1>6. /\ RT!double_rto(t) \in RT!Type
      /\ RT!double_rto(t).rto = 2 * t.rto
      /\ RT!double_rto(t).init_rto = t.init_rto
  BY <1>4, <1>5 DEF RT!Type
<1> QED
  BY <1>1, <1>2, <1>3, <1>6

(* timed(): only the timer changes, and it runs for what is outstanding.   *)
LEMMA Timed ==
  ASSUME NEW s, Sound(s)
  PROVE  LET d == timed(s)
         IN  /\ Sound(d) /\ TimerOK(d)
             /\ d.retx_timer.rto = s.retx_timer.rto
             /\ d.retx_timer.init_rto = s.retx_timer.init_rto
             /\ d.consecutive_retransmissions = s.consecutive_retransmissions
             /\ d.previous_ackno = s.previous_ackno
             /\ d.window_size = s.window_size
             /\ InWindow(s) => InWindow(d)
<1> DEFINE d == timed(s)
           r == IF s.outstanding_segments # << >>
                THEN restart(s.retx_timer) ELSE RT!stop(s.retx_timer)
<1>1. s \in Obj /\ StreamOK(s.stream) /\ CutOK(s)
  BY DEF Sound
<1>2. s.retx_timer \in RT!Type
  BY <1>1, Fields
<1>3. /\ r \in RT!Type
      /\ r.is_running <=> s.outstanding_segments # << >>
      /\ r.rto = s.retx_timer.rto /\ r.init_rto = s.retx_timer.init_rto
  BY <1>2, TimerOps
<1>4. d = [s EXCEPT !.retx_timer = r]
  BY DEF timed
<1> HIDE DEF r, d
<1>5. /\ d \in Obj /\ d.retx_timer = r
      /\ d.stream = s.stream /\ d.next_seqno = s.next_seqno
      /\ d.bytes_in_flight = s.bytes_in_flight
      /\ d.outstanding_segments = s.outstanding_segments
      /\ d.previous_ackno = s.previous_ackno
      /\ d.window_size = s.window_size
      /\ d.consecutive_retransmissions = s.consecutive_retransmissions
      /\ d.is_fin_sent = s.is_fin_sent
  BY <1>1, <1>3, <1>4 DEF Obj
<1>6. Sound(d)
  <2>1. PICK st : Covers(s, st) /\ AckedUpTo(s, st)
    BY DEF Sound
  <2>2. Covers(d, st) /\ AckedUpTo(d, st)
    BY <1>5, <2>1, CoversSame
  <2> QED
    BY <1>1, <1>5, <2>2 DEF Sound, CutOK
<1>7. TimerOK(d)
  BY <1>3, <1>5 DEF TimerOK
<1>8. InWindow(s) => InWindow(d)
  BY <1>5 DEF InWindow, probing_window
<1> QED
  BY <1>3, <1>5, <1>6, <1>7, <1>8 DEF d

(* The window is taken from every acknowledgment.                          *)
LEMMA WindowTaken ==
  ASSUME NEW s, Sound(s), NEW win \in 0 .. MaxWindow
  PROVE  LET d == [s EXCEPT !.window_size = win]
         IN  /\ Sound(d)
             /\ d.window_size = win
             /\ d.retx_timer = s.retx_timer
             /\ d.next_seqno = s.next_seqno
             /\ d.stream = s.stream
             /\ d.outstanding_segments = s.outstanding_segments
             /\ d.consecutive_retransmissions = s.consecutive_retransmissions
             /\ d.previous_ackno = s.previous_ackno
<1> DEFINE d == [s EXCEPT !.window_size = win]
<1>1. s \in Obj /\ StreamOK(s.stream) /\ CutOK(s)
  BY DEF Sound
<1>2. /\ d \in Obj /\ d.retx_timer = s.retx_timer
      /\ d.stream = s.stream /\ d.next_seqno = s.next_seqno
      /\ d.bytes_in_flight = s.bytes_in_flight
      /\ d.outstanding_segments = s.outstanding_segments
      /\ d.previous_ackno = s.previous_ackno
      /\ d.window_size = win
      /\ d.consecutive_retransmissions = s.consecutive_retransmissions
      /\ d.is_fin_sent = s.is_fin_sent
  BY <1>1 DEF Obj
<1> HIDE DEF d
<1>3. Sound(d)
  <2>1. PICK st : Covers(s, st) /\ AckedUpTo(s, st)
    BY DEF Sound
  <2>2. Covers(d, st) /\ AckedUpTo(d, st)
    BY <1>2, <2>1, CoversSame
  <2> QED
    BY <1>1, <1>2, <2>2 DEF Sound, CutOK
<1> QED
  BY <1>2, <1>3 DEF d

(* An acknowledgment of something new, up to the call of fill_window().    *)
LEMMA Acknowledged ==
  ASSUME Foundations,
         NEW s, Sound(s), NEW u \in Nat, s.previous_ackno < u, u <= s.next_seqno
  PROVE  LET a == pop_acknowledged([s EXCEPT !.previous_ackno = u,
                                             !.retx_timer = restart(RT!set_rto_init(@))])
             d == [a EXCEPT !.consecutive_retransmissions = 0]
         IN  /\ Sound(d) /\ BackoffOK(d)
             /\ d.previous_ackno = u
             /\ d.window_size = s.window_size
             /\ d.stream = s.stream
<1> DEFINE r == restart(RT!set_rto_init(s.retx_timer))
           p == [s EXCEPT !.previous_ackno = u, !.retx_timer = r]
           a == pop_acknowledged(p)
           d == [a EXCEPT !.consecutive_retransmissions = 0]
<1>1. s \in Obj /\ StreamOK(s.stream) /\ CutOK(s)
  BY DEF Sound
<1>2. s.retx_timer \in RT!Type
  BY <1>1, Fields
<1>3. r \in RT!Type /\ r.rto = s.retx_timer.init_rto /\ r.init_rto = s.retx_timer.init_rto
  <2>1. RT!set_rto_init(s.retx_timer) \in RT!Type
    BY <1>2, TimerOps
  <2> QED
    BY <1>2, <2>1, TimerOps
<1> HIDE DEF r
<1>4. /\ p \in Obj /\ p.retx_timer = r
      /\ p.stream = s.stream /\ p.next_seqno = s.next_seqno
      /\ p.bytes_in_flight = s.bytes_in_flight
      /\ p.outstanding_segments = s.outstanding_segments
      /\ p.previous_ackno = u
      /\ p.window_size = s.window_size
      /\ p.is_fin_sent = s.is_fin_sent
  BY <1>1, <1>3 DEF Obj
<1> HIDE DEF p
<1>5. PICK st : Covers(s, st) /\ AckedUpTo(s, st)
  BY DEF Sound
<1>6. Covers(p, st)
  BY <1>4, <1>5 DEF Covers
<1>7. st[1] <= p.previous_ackno /\ p.previous_ackno <= p.next_seqno
  <2>1. st[1] \in Nat /\ s.previous_ackno \in Nat /\ st[1] <= s.previous_ackno
    <3>1. Len(s.outstanding_segments) \in Nat /\ s.next_seqno \in Nat
      BY <1>1, Fields, LenProperties
    <3>2. 1 \in 1 .. Len(s.outstanding_segments) + 1
      BY <3>1
    <3>3. st \in [1 .. Len(s.outstanding_segments) + 1 -> 0 .. s.next_seqno]
      BY <1>5 DEF Covers
    <3>4. st[1] \in 0 .. s.next_seqno
      BY <3>2, <3>3
    <3> QED
      BY <1>1, <1>5, <3>1, <3>4, Fields DEF AckedUpTo
  <2> QED
    BY <1>4, <2>1
<1>8. p.next_seqno <= StreamLen + 2
  BY <1>1, <1>4, NumberBound
<1>9. /\ a \in Obj
      /\ \E dt : Covers(a, dt) /\ AckedUpTo(a, dt)
      /\ a.stream = s.stream /\ a.next_seqno = s.next_seqno
      /\ a.previous_ackno = u
      /\ a.window_size = s.window_size
      /\ a.retx_timer = r
      /\ a.is_fin_sent = s.is_fin_sent
  BY <1>4, <1>6, <1>7, <1>8, PopAcknowledged
<1> HIDE DEF a
<1>10. /\ d \in Obj
       /\ d.stream = a.stream /\ d.next_seqno = a.next_seqno
       /\ d.bytes_in_flight = a.bytes_in_flight
       /\ d.outstanding_segments = a.outstanding_segments
       /\ d.previous_ackno = a.previous_ackno
       /\ d.window_size = a.window_size
       /\ d.retx_timer = a.retx_timer
       /\ d.is_fin_sent = a.is_fin_sent
       /\ d.consecutive_retransmissions = 0
  <2>1. 0 \in 0 .. MaxRetx
    BY Constants
  <2> QED
    BY <1>9, <2>1 DEF Obj
<1> HIDE DEF d
<1>11. Sound(d)
  <2>1. PICK dt : Covers(a, dt) /\ AckedUpTo(a, dt)
    BY <1>9
  <2>2. Covers(d, dt) /\ AckedUpTo(d, dt)
    BY <1>10, <2>1, CoversSame
  <2> QED
    BY <1>1, <1>9, <1>10, <2>2 DEF Sound, CutOK
<1>12. BackoffOK(d)
  <2>1. Doubled(r.init_rto, 0) = r.init_rto
    BY DoubledOnce
  <2> QED
    BY <1>3, <1>9, <1>10, <2>1 DEF BackoffOK
<1> QED
  BY <1>9, <1>10, <1>11, <1>12 DEF d, a, p, r

(* An orderly peer's new edge leaves what was cut inside the window.       *)
LEMMA EdgeMoves ==
  ASSUME NEW read \in Nat, NEW prev \in Nat, NEW win \in Nat,
         NEW u \in Nat, NEW w \in Nat,
         1 + read <= prev + (IF win = 0 THEN 1 ELSE win),
         prev <= u, u + w >= prev + win
  PROVE  1 + read <= u + (IF w = 0 THEN 1 ELSE w)
<1>1. CASE win = 0
  BY <1>1
<1>2. CASE win # 0
  BY <1>2
<1> QED
  BY <1>1, <1>2

(* ack_received(), for every number the peer may send.                     *)
LEMMA AckKeeps ==
  ASSUME Foundations, NEW s, Sound(s), TimerOK(s), BackoffOK(s),
         NEW ackno \in 0 .. StreamLen + 3, NEW win \in 0 .. MaxWindow
  PROVE  LET d   == ack_received(s, WI!wrap(ackno, s.isn), win)
             new == s.previous_ackno < ackno /\ ackno <= s.next_seqno
         IN  /\ Sound(d) /\ TimerOK(d) /\ BackoffOK(d)
             /\ d.window_size = win
             /\ d.previous_ackno = IF new THEN ackno ELSE s.previous_ackno
             /\ ~new => d.retx_timer = s.retx_timer
             /\ (/\ InWindow(s)
                 /\ s.previous_ackno <= ackno /\ ackno <= s.next_seqno
                 /\ ackno + win >= s.previous_ackno + s.window_size) => InWindow(d)
<1> DEFINE d     == ack_received(s, WI!wrap(ackno, s.isn), win)
           new   == s.previous_ackno < ackno /\ ackno <= s.next_seqno
           seen  == [s EXCEPT !.window_size = win]
           acked == pop_acknowledged(
                      [seen EXCEPT !.previous_ackno = ackno,
                                   !.retx_timer = restart(RT!set_rto_init(@))])
           begun == [acked EXCEPT !.consecutive_retransmissions = 0]
<1>1. s \in Obj /\ StreamOK(s.stream) /\ CutOK(s)
  BY DEF Sound
<1>2. /\ s.next_seqno \in Nat /\ s.previous_ackno \in Nat /\ s.isn = Isn
      /\ s.window_size \in Nat /\ ackno \in Nat /\ win \in Nat
      /\ s.stream.total_read_bytes \in Nat
      /\ s.previous_ackno <= s.next_seqno
      /\ s.next_seqno <= StreamLen + 2
      /\ ackno <= StreamLen + 3
  BY <1>1, Fields, StreamFields, NumberBound, Constants DEF Sound, AckedUpTo
<1>3. WI!unwrap(WI!wrap(ackno, s.isn), s.isn, s.previous_ackno) = ackno
  <2>1. s.previous_ackno <= StreamLen + 3
    BY <1>2, Constants
  <2>2. \A i, j \in Nat : i <= StreamLen + 3 /\ j <= StreamLen + 3 => 2 * (i - j) < Modulus
    BY SenderAssumption
  <2> QED
    BY <1>2, <2>1, <2>2, WrapRoundTrip
<1>4. d = IF ackno > s.next_seqno \/ ackno <= s.previous_ackno THEN seen
          ELSE timed(fill_window(begun))
  BY <1>3 DEF ack_received
<1>5. new <=> ~(ackno > s.next_seqno \/ ackno <= s.previous_ackno)
  BY <1>2
<1>6. /\ Sound(seen)
      /\ seen.window_size = win
      /\ seen.retx_timer = s.retx_timer
      /\ seen.next_seqno = s.next_seqno
      /\ seen.stream = s.stream
      /\ seen.outstanding_segments = s.outstanding_segments
      /\ seen.consecutive_retransmissions = s.consecutive_retransmissions
      /\ seen.previous_ackno = s.previous_ackno
  BY WindowTaken
<1> HIDE DEF seen
<1>7. ASSUME InWindow(s), s.previous_ackno <= ackno,
             ackno + win >= s.previous_ackno + s.window_size,
             NEW e, e.stream = s.stream, e.previous_ackno = ackno, e.window_size = win
      PROVE  InWindow(e)
  <2>1. 1 + s.stream.total_read_bytes
          <= s.previous_ackno + (IF s.window_size = 0 THEN 1 ELSE s.window_size)
    BY <1>7 DEF InWindow, probing_window
  <2>2. 1 + s.stream.total_read_bytes <= ackno + (IF win = 0 THEN 1 ELSE win)
    BY <1>2, <1>7, <2>1, EdgeMoves
  <2> QED
    BY <1>7, <2>2 DEF InWindow, probing_window
<1>8. CASE ~new
  <2>1. d = seen
    BY <1>4, <1>5, <1>8
  <2>2. TimerOK(seen) /\ BackoffOK(seen)
    BY <1>6 DEF TimerOK, BackoffOK
  <2>3. s.previous_ackno <= ackno /\ ackno <= s.next_seqno => ackno = s.previous_ackno
    BY <1>2, <1>8
  <2> HIDE DEF d, new
  <2> QED
    BY <1>6, <1>7, <1>8, <2>1, <2>2, <2>3 DEF d, new
<1>9. CASE new
  <2> DEFINE full == fill_window(begun)
  <2>1. /\ Sound(begun) /\ BackoffOK(begun)
        /\ begun.previous_ackno = ackno
        /\ begun.window_size = win
        /\ begun.stream = s.stream
    BY <1>2, <1>6, <1>9, Acknowledged
  <2>2. d = timed(full)
    BY <1>4, <1>5, <1>9
  <2> HIDE DEF begun
  <2>3. Sound(full) /\ Same(begun, full)
    BY <2>1, FillKeeps
  <2> HIDE DEF full, d
  <2>4. /\ Sound(d) /\ TimerOK(d)
        /\ d.retx_timer.rto = full.retx_timer.rto
        /\ d.retx_timer.init_rto = full.retx_timer.init_rto
        /\ d.consecutive_retransmissions = full.consecutive_retransmissions
        /\ d.previous_ackno = full.previous_ackno
        /\ d.window_size = full.window_size
        /\ InWindow(full) => InWindow(d)
    BY <2>2, <2>3, Timed
  <2>5. BackoffOK(d)
    BY <2>1, <2>3, <2>4 DEF BackoffOK, Same
  <2>6. InWindow(begun) => InWindow(d)
    BY <2>3, <2>4 DEF Same
  <2>7. d.previous_ackno = ackno /\ d.window_size = win
    BY <2>1, <2>3, <2>4 DEF Same
  <2> HIDE DEF new
  <2> QED
    BY <1>7, <1>9, <2>1, <2>4, <2>5, <2>6, <2>7 DEF d, new
<1> QED
  BY <1>8, <1>9
-----------------------------------------------------------------------------
(* Time.                                                                   *)

(* tick(): the segment that goes out again is one that is outstanding, and *)
(* the timeout is doubled exactly when a retransmission is counted.        *)
LEMMA TickKeeps ==
  ASSUME Foundations,
         NEW s, Sound(s), TimerOK(s), BackoffOK(s), s.segments_out = << >>,
         s.consecutive_retransmissions < MaxRetx, NEW ms \in Nat
  PROVE  LET d == tick(s, ms)
         IN  /\ Sound(d) /\ TimerOK(d) /\ BackoffOK(d)
             /\ d.stream = s.stream
             /\ d.window_size = s.window_size
             /\ d.previous_ackno = s.previous_ackno
             /\ \/ d.retx_timer.t >= s.retx_timer.t
                \/ s.outstanding_segments = << >>
                \/ d.segments_out = <<Head(s.outstanding_segments)>>
<1> DEFINE d      == tick(s, ms)
           out    == s.outstanding_segments
           late   == RT!is_expired(s.retx_timer, ms)
           t1     == RT!tick(s.retx_timer, ms)
           queue  == IF out = << >> THEN << >> ELSE <<Head(out)>>
           counts == late /\ s.window_size # 0
           t2     == IF counts THEN RT!double_rto(t1) ELSE t1
           t3     == IF late THEN restart(t2) ELSE t2
           n      == IF counts THEN s.consecutive_retransmissions + 1
                     ELSE s.consecutive_retransmissions
           q      == IF late THEN queue ELSE << >>
<1>1. s \in Obj /\ StreamOK(s.stream) /\ CutOK(s)
  BY DEF Sound
<1>2. /\ s.retx_timer \in RT!Type /\ out \in Seq(Segments)
      /\ s.consecutive_retransmissions \in 0 .. MaxRetx
  BY <1>1, Fields
<1>3. /\ t1 \in RT!Type
      /\ t1.is_running = s.retx_timer.is_running
      /\ t1.rto = s.retx_timer.rto /\ t1.init_rto = s.retx_timer.init_rto
      /\ ~late => t1.t >= s.retx_timer.t
  <2> DEFINE v == IF late THEN 0 ELSE s.retx_timer.t + ms
  <2>1. v \in Nat /\ (~late => v >= s.retx_timer.t) /\ s.retx_timer.t >= s.retx_timer.t
    BY <1>2, TimerFields
  <2>2. t1 = IF s.retx_timer.is_running THEN [s.retx_timer EXCEPT !.t = v] ELSE s.retx_timer
    BY DEF RT!tick
  <2> HIDE DEF v, late, t1
  <2> QED
    BY <1>2, <2>1, <2>2 DEF RT!Type
<1>4. late => s.retx_timer.is_running
  BY DEF RT!is_expired
<1> HIDE DEF late, t1
<1>5. /\ t2 \in RT!Type
      /\ t2.rto = IF counts THEN 2 * s.retx_timer.rto ELSE s.retx_timer.rto
      /\ t2.init_rto = s.retx_timer.init_rto
  BY <1>3, TimerOps
<1>6. /\ t3 \in RT!Type
      /\ t3.is_running = s.retx_timer.is_running
      /\ t3.rto = t2.rto /\ t3.init_rto = s.retx_timer.init_rto
      /\ ~late => t3 = t1
  <2>1. CASE late
    <3> HIDE DEF t2
    <3>1. t3 = restart(t2) /\ s.retx_timer.is_running = TRUE
      BY <1>2, <1>4, <2>1, TimerFields
    <3>2. restart(t2) \in RT!Type /\ restart(t2).is_running = TRUE
      BY <1>5, TimerOps, TimerFields
    <3> HIDE DEF t3
    <3> QED
      BY <1>5, <2>1, <3>1, <3>2, TimerOps
  <2>2. CASE ~late
    <3>1. t2 = t1 /\ t3 = t1
      BY <2>2
    <3> HIDE DEF t2, t3
    <3> QED
      BY <1>3, <3>1
  <2> QED
    BY <2>1, <2>2
<1>7. n \in 0 .. MaxRetx
  BY <1>2, Constants
<1>8. queue \in Seq(Segments) /\ q \in Seq(Segments)
  <2>1. ASSUME out # << >> PROVE <<Head(out)>> \in Seq(Segments)
    <3>1. Head(out) \in Segments
      BY <1>2, <2>1, HeadOfSeq
    <3> QED
      BY <3>1
  <2>2. << >> \in Seq(Segments)
    BY EmptySeq
  <2> QED
    BY <2>1, <2>2
<1> HIDE DEF out, t2, t3, n, queue
<1>9. /\ d \in Obj /\ d.retx_timer = t3 /\ d.consecutive_retransmissions = n
      /\ d.segments_out = q
      /\ d.stream = s.stream /\ d.next_seqno = s.next_seqno
      /\ d.bytes_in_flight = s.bytes_in_flight
      /\ d.outstanding_segments = out
      /\ d.previous_ackno = s.previous_ackno
      /\ d.window_size = s.window_size
      /\ d.is_fin_sent = s.is_fin_sent
  <2> DEFINE o1 == [s EXCEPT !.retx_timer = t1]
             o2 == resend(o1)
             o3 == IF s.window_size = 0 THEN o2
                   ELSE [o2 EXCEPT !.consecutive_retransmissions = @ + 1,
                                   !.retx_timer = RT!double_rto(@)]
             o4 == [o3 EXCEPT !.retx_timer = restart(@)]
             Rest(o) == /\ o.stream = s.stream /\ o.next_seqno = s.next_seqno
                        /\ o.bytes_in_flight = s.bytes_in_flight
                        /\ o.outstanding_segments = out
                        /\ o.previous_ackno = s.previous_ackno
                        /\ o.window_size = s.window_size
                        /\ o.is_fin_sent = s.is_fin_sent
  <2>1. d = IF late THEN o4 ELSE o1
    BY DEF tick, t1, late
  <2>2. /\ o1 \in Obj /\ Rest(o1) /\ o1.retx_timer = t1 /\ o1.segments_out = << >>
        /\ o1.consecutive_retransmissions = s.consecutive_retransmissions
    BY <1>1, <1>3 DEF Obj, out
  <2>3. CASE late
    <3> HIDE DEF o1
    <3>1. /\ o2 \in Obj /\ Rest(o2) /\ o2.retx_timer = t1 /\ o2.segments_out = queue
          /\ o2.consecutive_retransmissions = s.consecutive_retransmissions
      <4>1. CASE out = << >>
        <5>1. o2 = o1 /\ queue = << >>
          BY <2>2, <4>1 DEF resend, queue
        <5> HIDE DEF o2
        <5> QED
          BY <2>2, <5>1
      <4>2. CASE out # << >>
        <5>1. Append(o1.segments_out, Head(o1.outstanding_segments)) = queue
          BY <2>2, <4>2 DEF queue
        <5>2. o2 = [o1 EXCEPT !.segments_out = queue]
          BY <2>2, <4>2, <5>1 DEF resend
        <5> HIDE DEF o2
        <5>3. o2 \in Obj
          BY <1>8, <2>2, <5>2 DEF Obj
        <5> QED
          BY <2>2, <5>2, <5>3 DEF Obj
      <4> QED
        BY <4>1, <4>2
    <3> HIDE DEF o2
    <3>2. /\ o3 \in Obj /\ Rest(o3) /\ o3.retx_timer = t2 /\ o3.segments_out = queue
          /\ o3.consecutive_retransmissions = n
      <4>1. CASE s.window_size = 0
        <5>1. o3 = o2 /\ t2 = t1 /\ n = s.consecutive_retransmissions
          BY <4>1 DEF t2, n
        <5> HIDE DEF o3
        <5> QED
          BY <3>1, <5>1
      <4>2. CASE s.window_size # 0
        <5>1. o3 = [o2 EXCEPT !.consecutive_retransmissions = n, !.retx_timer = t2]
          BY <2>3, <3>1, <4>2 DEF t2, n
        <5> HIDE DEF o3
        <5>2. o3 \in Obj
          BY <1>5, <1>7, <3>1, <5>1 DEF Obj
        <5> QED
          BY <3>1, <5>1, <5>2 DEF Obj
      <4> QED
        BY <4>1, <4>2
    <3> HIDE DEF o3
    <3>3. o4 = [o3 EXCEPT !.retx_timer = t3]
      BY <2>3, <3>2 DEF t3
    <3> HIDE DEF o4
    <3>4. /\ o4 \in Obj /\ Rest(o4) /\ o4.retx_timer = t3 /\ o4.segments_out = queue
          /\ o4.consecutive_retransmissions = n
      BY <1>6, <3>2, <3>3 DEF Obj
    <3> HIDE DEF d
    <3> QED
      BY <2>1, <2>3, <3>4
  <2>4. CASE ~late
    <3>1. t3 = t1 /\ n = s.consecutive_retransmissions /\ q = << >>
      BY <2>4 DEF t2, t3, n
    <3> HIDE DEF d, o1, q
    <3> QED
      BY <2>1, <2>2, <2>4, <3>1
  <2> QED
    BY <2>3, <2>4
<1> HIDE DEF d
<1>10. Sound(d)
  <2>1. PICK st : Covers(s, st) /\ AckedUpTo(s, st)
    BY DEF Sound
  <2>2. Covers(d, st) /\ AckedUpTo(d, st)
    BY <1>9, <2>1, CoversSame DEF out
  <2> QED
    BY <1>1, <1>9, <2>2 DEF Sound, CutOK
<1>11. TimerOK(d)
  BY <1>6, <1>9 DEF TimerOK, out
<1>12. BackoffOK(d)
  <2>1. s.retx_timer.rto = Doubled(s.retx_timer.init_rto, s.consecutive_retransmissions)
    BY DEF BackoffOK
  <2>2. s.consecutive_retransmissions \in Nat
    BY <1>2
  <2>3. CASE counts
    <3>1. t3.rto = 2 * s.retx_timer.rto /\ n = s.consecutive_retransmissions + 1
      BY <1>5, <1>6, <2>3 DEF n
    <3>2. Doubled(s.retx_timer.init_rto, s.consecutive_retransmissions + 1)
            = 2 * Doubled(s.retx_timer.init_rto, s.consecutive_retransmissions)
      BY <2>2, DoubledOnce
    <3> QED
      BY <1>6, <1>9, <2>1, <3>1, <3>2 DEF BackoffOK
  <2>4. CASE ~counts
    <3>1. t3.rto = s.retx_timer.rto /\ n = s.consecutive_retransmissions
      BY <1>5, <1>6, <2>4 DEF n
    <3> QED
      BY <1>6, <1>9, <2>1, <3>1 DEF BackoffOK
  <2> QED
    BY <2>3, <2>4
<1>13. \/ d.retx_timer.t >= s.retx_timer.t
       \/ out = << >>
       \/ d.segments_out = <<Head(out)>>
  <2>1. CASE late
    BY <1>9, <2>1 DEF queue
  <2>2. CASE ~late
    BY <1>3, <1>6, <1>9, <2>2
  <2> QED
    BY <2>1, <2>2
<1> QED
  BY <1>9, <1>10, <1>11, <1>12, <1>13 DEF d, out
-----------------------------------------------------------------------------
(* The specification.                                                      *)

IInv ==
  /\ Sound(snd) /\ TimerOK(snd) /\ BackoffOK(snd)
  /\ snd.segments_out = << >>
  /\ wire \in Seq(Segments)
  /\ peer \in {"orderly", "arbitrary"}
  /\ edge \in Nat
  /\ peer = "orderly" =>
       InWindow(snd) /\ edge = snd.previous_ackno + snd.window_size

(* The queue of segments to send is not part of what the invariant is      *)
(* about: send_empty_segment() adds to it and the owner empties it.        *)
LEMMA QueueChanges ==
  ASSUME NEW s, Sound(s), NEW q \in Seq(Segments)
  PROVE  LET d == [s EXCEPT !.segments_out = q]
         IN  /\ Sound(d)
             /\ TimerOK(s) => TimerOK(d)
             /\ BackoffOK(s) => BackoffOK(d)
             /\ InWindow(s) => InWindow(d)
             /\ d.segments_out = q
             /\ d.previous_ackno = s.previous_ackno
             /\ d.window_size = s.window_size
             /\ d.retx_timer = s.retx_timer
<1> DEFINE d == [s EXCEPT !.segments_out = q]
<1>1. s \in Obj /\ StreamOK(s.stream) /\ CutOK(s)
  BY DEF Sound
<1>2. /\ d \in Obj /\ d.segments_out = q
      /\ d.stream = s.stream /\ d.next_seqno = s.next_seqno
      /\ d.bytes_in_flight = s.bytes_in_flight
      /\ d.outstanding_segments = s.outstanding_segments
      /\ d.previous_ackno = s.previous_ackno
      /\ d.window_size = s.window_size
      /\ d.consecutive_retransmissions = s.consecutive_retransmissions
      /\ d.is_fin_sent = s.is_fin_sent
      /\ d.retx_timer = s.retx_timer
  BY <1>1 DEF Obj
<1> HIDE DEF d
<1>3. Sound(d)
  <2>1. PICK st : Covers(s, st) /\ AckedUpTo(s, st)
    BY DEF Sound
  <2>2. Covers(d, st) /\ AckedUpTo(d, st)
    BY <1>2, <2>1, CoversSame
  <2> QED
    BY <1>1, <1>2, <2>2 DEF Sound, CutOK
<1>4. /\ TimerOK(s) => TimerOK(d)
      /\ BackoffOK(s) => BackoffOK(d)
      /\ InWindow(s) => InWindow(d)
  BY <1>2 DEF TimerOK, BackoffOK, InWindow, probing_window
<1> QED
  BY <1>2, <1>3, <1>4 DEF d

(* The end of every action.                                                *)
LEMMA Returned ==
  ASSUME NEW s, Sound(s), TimerOK(s), BackoffOK(s), Return(s)
  PROVE  /\ Sound(snd') /\ TimerOK(snd') /\ BackoffOK(snd')
         /\ InWindow(s) => InWindow(snd')
         /\ snd'.segments_out = << >>
         /\ snd'.previous_ackno = s.previous_ackno
         /\ snd'.window_size = s.window_size
         /\ snd'.retx_timer = s.retx_timer
         /\ wire' = s.segments_out
         /\ wire' \in Seq(Segments)
<1>1. snd' = [s EXCEPT !.segments_out = << >>] /\ wire' = s.segments_out
  BY DEF Return
<1>2. << >> \in Seq(Segments) /\ s.segments_out \in Seq(Segments)
  BY EmptySeq, Fields DEF Sound
<1>3. LET d == [s EXCEPT !.segments_out = << >>]
      IN  /\ Sound(d)
          /\ TimerOK(s) => TimerOK(d)
          /\ BackoffOK(s) => BackoffOK(d)
          /\ InWindow(s) => InWindow(d)
          /\ d.segments_out = << >>
          /\ d.previous_ackno = s.previous_ackno
          /\ d.window_size = s.window_size
          /\ d.retx_timer = s.retx_timer
  BY <1>2, QueueChanges
<1> QED
  BY <1>1, <1>2, <1>3

(* A new sender is sound.                                                  *)
LEMMA InitSound == Foundations /\ Init => IInv
<1> SUFFICES ASSUME Foundations, Init PROVE IInv
  OBVIOUS
<1> DEFINE s == New(Capacity, InitRto, Isn)
           o == BS!New(Capacity)
           t == RT!New(InitRto)
<1>1. snd = s
  BY DEF Init
<1>2. << >> \in Seq(Segments) /\ << >> \in Seq(Byte) /\ Len(<< >>) = 0
  BY EmptySeq
<1>3. /\ o \in BS!Type(Byte) /\ o.buffer = << >> /\ o.total_capacity = Capacity
      /\ o.total_read_bytes = 0 /\ o.total_written_bytes = 0
      /\ o.is_input_ended = FALSE /\ o.is_eof = FALSE
  BY <1>2, Constants DEF BS!New, BS!Type
<1>4. t \in RT!Type /\ t.rto = InitRto /\ t.init_rto = InitRto
  BY Constants DEF RT!New, RT!Type
<1>5. /\ s.isn = Isn /\ s.segments_out = << >> /\ s.stream = o /\ s.next_seqno = 0
      /\ s.retx_timer = t /\ s.previous_ackno = 0 /\ s.window_size = 1
      /\ s.outstanding_segments = << >> /\ s.bytes_in_flight = 0
      /\ s.consecutive_retransmissions = 0 /\ s.is_fin_sent = FALSE
  BY DEF New
<1>6. s \in Obj
  <2>1. s = [ isn |-> Isn, segments_out |-> << >>, stream |-> o, next_seqno |-> 0,
              retx_timer |-> t, previous_ackno |-> 0, window_size |-> 1,
              outstanding_segments |-> << >>, bytes_in_flight |-> 0,
              consecutive_retransmissions |-> 0, is_fin_sent |-> FALSE ]
    BY DEF New
  <2> HIDE DEF s, o, t
  <2>2. /\ 0 \in Nat /\ 0 \in Int /\ 1 \in 0 .. MaxWindow /\ 0 \in 0 .. MaxRetx
        /\ FALSE \in BOOLEAN /\ Isn \in {Isn}
    BY Constants
  <2> QED
    BY <1>2, <1>3, <1>4, <2>1, <2>2 DEF Obj
<1> HIDE DEF s, o, t
<1>7. StreamOK(o)
  BY <1>2, <1>3, Constants DEF StreamOK
<1>8. CutOK(s)
  BY <1>3, <1>5 DEF CutOK
<1>9. \E st : Covers(s, st) /\ AckedUpTo(s, st)
  <2> DEFINE st == [i \in 1 .. 1 |-> 0]
  <2>1. st \in [1 .. 1 -> 0 .. 0] /\ st[1] = 0
    OBVIOUS
  <2> HIDE DEF st
  <2>2. Covers(s, st)
    BY <1>2, <1>5, <2>1 DEF Covers
  <2>3. AckedUpTo(s, st)
    BY <1>5, <2>1 DEF AckedUpTo
  <2> QED
    BY <2>2, <2>3
<1>10. Sound(s)
  BY <1>5, <1>6, <1>7, <1>8, <1>9 DEF Sound
<1>11. TimerOK(s)
  BY <1>5 DEF TimerOK
<1>12. BackoffOK(s)
  BY <1>4, <1>5, DoubledOnce DEF BackoffOK
<1>13. InWindow(s)
  BY <1>3, <1>5 DEF InWindow, probing_window
<1>14. edge = 1 /\ wire = << >> /\ peer \in {"orderly", "arbitrary"}
  BY <1>1, <1>5 DEF Init
<1> QED
  BY <1>1, <1>2, <1>5, <1>10, <1>11, <1>12, <1>13, <1>14 DEF IInv

\* RetransmissionNotPutOff, for one step.
NotPutOff ==
  snd.outstanding_segments # << >> /\ snd'.retx_timer.t < snd.retx_timer.t =>
    \/ snd'.previous_ackno > snd.previous_ackno
    \/ wire' = <<Head(snd.outstanding_segments)>>

(* What fill_window() does to the timer of a sound object: nothing while   *)
(* something is outstanding.                                               *)
LEMMA RunningTimerKept ==
  ASSUME NEW s, Sound(s), TimerOK(s), NEW d, Same(s, d), s.outstanding_segments # << >>
  PROVE  d.retx_timer = s.retx_timer
<1>1. PICK st : Covers(s, st) /\ AckedUpTo(s, st)
  BY DEF Sound
<1>2. s \in Obj
  BY DEF Sound
<1>3. /\ s.next_seqno \in Nat /\ s.previous_ackno \in Nat
      /\ s.outstanding_segments \in Seq(Segments)
      /\ Len(s.outstanding_segments) \in Nat /\ Len(s.outstanding_segments) # 0
  BY <1>2, Fields, EmptySeq, LenProperties
<1>4. 2 \in 1 .. Len(s.outstanding_segments) + 1
  BY <1>3
<1>5. st[2] \in 0 .. s.next_seqno
  BY <1>1, <1>4 DEF Covers
<1>6. s.previous_ackno < st[2]
  BY <1>1 DEF AckedUpTo
<1>7. s.next_seqno > 0
  BY <1>3, <1>5, <1>6
<1> QED
  BY <1>7 DEF TimerOK, Same

(* An action that only changes the stream and then fills the window.       *)
LEMMA FillStep ==
  ASSUME Foundations,
         IInv, NEW s, Sound(s), Same(snd, s), s.retx_timer = snd.retx_timer,
         s.outstanding_segments = snd.outstanding_segments,
         Return(fill_window(s)), UNCHANGED <<peer, edge>>
  PROVE  IInv' /\ NotPutOff
<1> DEFINE f == fill_window(s)
<1>1. TimerOK(s) /\ BackoffOK(s) /\ (peer = "orderly" => InWindow(s))
  BY DEF IInv, Same, BackoffOK
<1>2. Sound(f) /\ Same(s, f)
  BY FillKeeps
<1> HIDE DEF f
<1>3. TimerOK(f) /\ BackoffOK(f)
  BY <1>1, <1>2 DEF Same, BackoffOK
<1>4. /\ Sound(snd') /\ TimerOK(snd') /\ BackoffOK(snd')
      /\ InWindow(f) => InWindow(snd')
      /\ snd'.segments_out = << >>
      /\ snd'.previous_ackno = f.previous_ackno
      /\ snd'.window_size = f.window_size
      /\ snd'.retx_timer = f.retx_timer
      /\ wire' \in Seq(Segments)
  BY <1>2, <1>3, Returned DEF f
<1>5. peer = "orderly" =>
        InWindow(snd') /\ edge = snd'.previous_ackno + snd'.window_size
  BY <1>1, <1>2, <1>4 DEF IInv, Same
<1>6. IInv'
  BY <1>4, <1>5 DEF IInv
<1>7. NotPutOff
  <2> SUFFICES ASSUME snd.outstanding_segments # << >>
               PROVE  ~(snd'.retx_timer.t < snd.retx_timer.t)
    BY DEF NotPutOff
  <2>1. snd'.retx_timer = snd.retx_timer
    BY <1>1, <1>2, <1>4, RunningTimerKept
  <2>2. snd.retx_timer.t \in Nat
    BY Fields, TimerFields DEF IInv, Sound
  <2> QED
    BY <2>1, <2>2
<1> QED
  BY <1>6, <1>7
=============================================================================
