------------------------- MODULE TCPReceiverProofs -------------------------
(***************************************************************************)
(* The receiver implements the reassembler's specification, for every      *)
(* capacity, stream, initial sequence number and peer: a segment is the    *)
(* substring at the index its wrapped sequence number stands for, or       *)
(* changes nothing.  With a peer that keeps to the window it is correct.   *)
(***************************************************************************)
EXTENDS TCPReceiverSpec, TLAPS

\* The reassembler inside the receiver, with the same BeyondWindow and
\* EndOvertakes.
R == INSTANCE StreamReassemblerProofs
       WITH r <- rcv.reassembler, MaxChunk <- MaxPayload

\* The arithmetic of sequence numbers; the state of its specification is not used.
W == INSTANCE WrappingIntegersProofs
       WITH MaxSeqno <- 0, seqno <- 0, isn <- 0, checkpoint <- 0, header <- 0

(* What the instantiated modules assume of their constants holds here.     *)
LEMMA InstanceAssumptions ==
  /\ R!ReassemblerAssumption /\ R!U64Assumption
  /\ W!ModulusAssumption /\ W!MaxSeqnoAssumption
  BY ReceiverAssumption
  DEF R!ReassemblerAssumption, R!U64Assumption, W!ModulusAssumption, W!MaxSeqnoAssumption

(* unwrap() inverts wrap() when the checkpoint is less than half a lap off.*)
LEMMA WrapRoundTrip ==
  ASSUME NEW n \in Nat, NEW i \in WI!Wrapping, NEW c \in Nat,
         2 * (n - c) < Modulus, 2 * (c - n) < Modulus
  PROVE  WI!unwrap(WI!wrap(n, i), i, c) = n
<1>1. 2 * W!Distance(n, c) < Modulus
  BY DEF W!Distance
<1>2. i \in W!Wrapping
  BY DEF WI!Wrapping, W!Wrapping
<1>3. W!unwrap(W!wrap(n, i), i, c) = n
  BY <1>1, <1>2, InstanceAssumptions, W!UnwrapInverts
<1> QED
  BY <1>3
  DEF WI!unwrap, W!unwrap, WI!wrap, W!wrap, WI!plus, W!plus,
      WI!abs_seqno, W!abs_seqno, WI!nearby_abs_seqno, W!nearby_abs_seqno

(* Number 0 is sent as the initial sequence number itself.                 *)
LEMMA WrapZero ==
  ASSUME NEW i \in WI!Wrapping
  PROVE  WI!wrap(0, i) = i
<1>1. 0 % Modulus = 0
  BY ReceiverAssumption
<1>2. i + 0 = i /\ i % Modulus = i
  BY ReceiverAssumption DEF WI!Wrapping
<1> QED
  BY <1>1, <1>2 DEF WI!wrap, WI!plus

(* The operations of the two instances of the reassembler are the same.    *)
LEMMA SamePush ==
  ASSUME NEW q, NEW d, NEW i, NEW e
  PROVE  SR!push_substring(q, d, i, e) = R!push_substring(q, d, i, e)
<1>1. /\ \A S : SR!Max(S) = R!Max(S)
      /\ \A S : SR!Min(S) = R!Min(S)
  BY DEF SR!Max, R!Max, SR!Min, R!Min
<1>2. \A S : SR!Cardinality(S) = R!Cardinality(S)
  BY DEF SR!Cardinality, R!Cardinality
<1>3. SR!bytes_can_be_stored(q, d, i) = R!bytes_can_be_stored(q, d, i)
  BY DEF SR!bytes_can_be_stored, R!bytes_can_be_stored, SR!minus, R!minus,
         SR!BS!Smaller, R!BS!Smaller, SR!BS!buffer_size, R!BS!buffer_size
<1>4. \A b : SR!stored_in(q, d, i, b) = R!stored_in(q, d, i, b)
  BY <1>3 DEF SR!stored_in, R!stored_in, SR!slot, R!slot
<1>5. SR!newly_occupied(q, d, i) = R!newly_occupied(q, d, i)
  <2>1. {b \in SR!Slots(q) : ~q.occupied[b] /\ SR!stored_in(q, d, i, b) # {}}
          = {b \in R!Slots(q) : ~q.occupied[b] /\ R!stored_in(q, d, i, b) # {}}
    BY <1>4 DEF SR!Slots, R!Slots
  <2> QED
    BY <1>2, <2>1 DEF SR!newly_occupied, R!newly_occupied
<1>6. SR!store_data(q, d, i) = R!store_data(q, d, i)
  <2>1. [b \in SR!Slots(q) |->
           IF SR!stored_in(q, d, i, b) = {} THEN q.unassembled_buffer[b]
           ELSE d[SR!Max(SR!stored_in(q, d, i, b)) + 1]]
          = [b \in R!Slots(q) |->
               IF R!stored_in(q, d, i, b) = {} THEN q.unassembled_buffer[b]
               ELSE d[R!Max(R!stored_in(q, d, i, b)) + 1]]
    BY <1>1, <1>4 DEF SR!Slots, R!Slots
  <2>2. [b \in SR!Slots(q) |-> q.occupied[b] \/ SR!stored_in(q, d, i, b) # {}]
          = [b \in R!Slots(q) |-> q.occupied[b] \/ R!stored_in(q, d, i, b) # {}]
    BY <1>4 DEF SR!Slots, R!Slots
  <2> QED
    BY <1>5, <2>1, <2>2, Zenon DEF SR!store_data, R!store_data
<1>7. \A x : SR!write_to_output(x) = R!write_to_output(x)
  <2> SUFFICES ASSUME NEW x PROVE SR!write_to_output(x) = R!write_to_output(x)
    OBVIOUS
  <2>1. SR!run_length(x) = R!run_length(x)
    BY <1>1 DEF SR!run_length, R!run_length, SR!slot, R!slot
  <2>2. \A o, y : SR!BS!write(o, y) = R!BS!write(o, y)
    BY DEF SR!BS!write, R!BS!write, SR!BS!written_bytes, R!BS!written_bytes,
           SR!BS!Smaller, R!BS!Smaller, SR!BS!buffer_size, R!BS!buffer_size,
           SR!BS!remaining_capacity, R!BS!remaining_capacity
  <2> QED
    BY <2>1, <2>2, Zenon
    DEF SR!write_to_output, R!write_to_output, SR!slot, R!slot, SR!Slots, R!Slots,
        SR!advanced, R!advanced, SR!Blank, R!Blank
<1>8. \A x : SR!BS!end_input(x) = R!BS!end_input(x)
  BY DEF SR!BS!end_input, R!BS!end_input
<1>9. SR!takes_eof(q, d, i, e) = R!takes_eof(q, d, i, e)
  BY <1>3 DEF SR!takes_eof, R!takes_eof
<1> QED
  BY <1>6, <1>7, <1>8, <1>9, Zenon DEF SR!push_substring, R!push_substring

(* The stream of the receiver and that of its reassembler are one class.   *)
LEMMA SamePop ==
  ASSUME NEW s, NEW n
  PROVE  BS!pop_output(s, n) = R!BS!pop_output(s, n)
  BY DEF BS!pop_output, R!BS!pop_output, BS!covered, R!BS!covered,
         BS!Smaller, R!BS!Smaller, BS!buffer_size, R!BS!buffer_size

(* A new reassembler is the same in both.                                  *)
LEMMA SameNew == SR!New(Capacity) = R!New(Capacity)
  BY DEF SR!New, R!New, SR!BS!New, R!BS!New, SR!Blank, R!Blank
-----------------------------------------------------------------------------
\* What holds for every peer.
Decodes ==
  /\ rcv = [reassembler |-> rcv.reassembler, isn |-> rcv.isn]
  /\ peer_isn \in WI!Wrapping
  /\ rcv.isn \in {NoIsn, peer_isn}
  /\ R!InStream(rcv.reassembler)
  /\ ~BeyondWindow => R!Consistent(rcv.reassembler)

\* What the reassembler has, the receiver was sent.
HasArrived(q) ==
  /\ \A j \in Nat : R!Has(q, j) => j + 1 \in arrived
  /\ q.is_eof_data_received \/ q.output.is_input_ended => StreamLen + 1 \in arrived

\* What holds for a peer that keeps to the window.
IInv ==
  /\ Decodes
  /\ R!Consistent(rcv.reassembler)
  /\ R!EndOK(rcv.reassembler)
  /\ rcv.isn # NoIsn => 0 \in arrived
  /\ HasArrived(rcv.reassembler)

(* A new receiver is sound, and is a new reassembler.                      *)
LEMMA InitIInv == Init => IInv /\ R!Init
<1> SUFFICES ASSUME Init PROVE IInv /\ R!Init
  OBVIOUS
<1>1. rcv = [reassembler |-> R!New(Capacity), isn |-> NoIsn]
  BY SameNew DEF Init, New
<1>2. R!Init
  BY <1>1 DEF R!Init
<1>3. R!Consistent(rcv.reassembler) /\ R!EndOK(rcv.reassembler)
  BY <1>2, InstanceAssumptions, R!InitEnd DEF R!EndInv, R!IInv
<1>4. HasArrived(rcv.reassembler)
  <2>1. /\ rcv.reassembler.first_unassembled_index = 0
        /\ rcv.reassembler.occupied = [b \in 0 .. Capacity - 1 |-> FALSE]
        /\ rcv.reassembler.is_eof_data_received = FALSE
        /\ rcv.reassembler.output.is_input_ended = FALSE
    BY <1>1 DEF R!New, R!BS!New
  <2>2. ASSUME NEW k \in 0 .. Capacity - 1
        PROVE  ~rcv.reassembler.occupied[R!slot(rcv.reassembler, k)]
    <3>1. R!slot(rcv.reassembler, k) \in 0 .. Capacity - 1
      BY <1>3, InstanceAssumptions, R!SlotInRange DEF R!Consistent
    <3> QED
      BY <2>1, <3>1
  <2>3. ASSUME NEW j \in Nat PROVE ~R!Has(rcv.reassembler, j)
    <3>1. ~(j < rcv.reassembler.first_unassembled_index)
      BY <2>1
    <3> QED
      BY <2>2, <3>1, Zenon DEF R!Has
  <2> QED
    BY <2>1, <2>3 DEF HasArrived
<1>5. Decodes
  <2>1. peer_isn \in WI!Wrapping
    BY ReceiverAssumption DEF Init
  <2>2. R!InStream(rcv.reassembler)
    BY <1>2, InstanceAssumptions, R!InitInStream
  <2> QED
    BY <1>1, <1>3, <2>1, <2>2 DEF Decodes
<1> QED
  BY <1>1, <1>2, <1>3, <1>4, <1>5 DEF IInv

(* The stream written so far is not longer than the peer's.                *)
LEMMA WrittenInStream ==
  ASSUME Decodes
  PROVE  LET q == rcv.reassembler
         IN  /\ q.output.total_written_bytes \in Nat
             /\ q.first_unassembled_index \in Nat
             /\ q.output.total_written_bytes <= q.first_unassembled_index
             /\ q.output.total_written_bytes <= StreamLen
<1> DEFINE q == rcv.reassembler
<1>1. q.output \in R!BS!Type(R!Byte) /\ q.first_unassembled_index \in Nat
  BY DEF Decodes, R!InStream, R!Obj
<1>2. /\ q.output.total_written_bytes <= q.first_unassembled_index
      /\ q.first_unassembled_index <= StreamLen
  BY DEF Decodes, R!InStream
<1>3. q.output.total_written_bytes \in Nat
  BY <1>1 DEF R!BS!Type
<1> HIDE DEF q
<1>4. q.output.total_written_bytes <= StreamLen
  BY <1>1, <1>2, <1>3, ReceiverAssumption
<1> QED
  BY <1>1, <1>2, <1>3, <1>4 DEF q

(* A segment is a push of the bytes it carries, at the index its sequence  *)
(* number stands for, or it changes nothing.                               *)
LEMMA ReceiveEffect ==
  ASSUME Decodes, NEW index \in 0 .. StreamLen, NEW len \in 0 .. MaxPayload,
         NEW syn \in BOOLEAN, NEW fin \in BOOLEAN, Receive(index, len, syn, fin)
  PROVE  \/ /\ rcv' = rcv
            /\ arrived \subseteq arrived'
         \/ /\ rcv' = [reassembler |-> R!push_substring(rcv.reassembler,
                                           R!Substring(index, len), index, fin),
                        isn |-> peer_isn]
            /\ syn \/ rcv.isn # NoIsn
            /\ arrived' = arrived \cup (IF syn THEN {0} ELSE {})
                                  \cup {index + i : i \in 1 .. len}
                                  \cup (IF fin THEN {StreamLen + 1} ELSE {})
<1> DEFINE q   == rcv.reassembler
           seg == Segment(index, len, syn, fin)
           x   == IF syn THEN 0 ELSE index + 1
<1>1. /\ seg.seqno = WI!wrap(x, peer_isn)
      /\ seg.syn = syn
      /\ seg.fin = fin
      /\ seg.payload = R!Substring(index, len)
  BY DEF Receive, Segment, TS!New, R!Substring
<1>2. /\ rcv' = segment_received(rcv, seg)
      /\ syn => index = 0
      /\ index \in Nat
  BY ReceiverAssumption DEF Receive
<1>3. /\ q.output.total_written_bytes \in Nat
      /\ q.output.total_written_bytes <= StreamLen
  BY WrittenInStream
<1>4. peer_isn \in WI!Wrapping /\ peer_isn # NoIsn /\ rcv.isn \in {NoIsn, peer_isn}
  BY DEF Decodes, WI!Wrapping, NoIsn
<1>5. ASSUME NEW a, NEW b
      PROVE  [rcv EXCEPT !.isn = a, !.reassembler = b] = [reassembler |-> b, isn |-> a]
  <2>1. ASSUME NEW m, NEW n
        PROVE  [[reassembler |-> m, isn |-> n] EXCEPT !.isn = a, !.reassembler = b]
                 = [reassembler |-> b, isn |-> a]
    <3> DEFINE e == [[reassembler |-> m, isn |-> n] EXCEPT !.isn = a, !.reassembler = b]
    <3>1. DOMAIN e = {"reassembler", "isn"} /\ e = [f \in DOMAIN e |-> e[f]]
      BY Zenon
    <3>2. e.reassembler = b /\ e.isn = a
      BY Zenon
    <3> HIDE DEF e
    <3>3. e = [reassembler |-> b, isn |-> a]
      BY <3>1, <3>2
    <3> QED
      BY <3>3 DEF e
  <2> QED
    BY <2>1 DEF Decodes
<1>6. \A b : [rcv EXCEPT !.reassembler = b] = [reassembler |-> b, isn |-> rcv.isn]
  BY DEF Decodes
<1> HIDE DEF seg
<1>7. CASE rcv.isn = NoIsn /\ syn
  <2>1. opens(rcv, seg) /\ seg.seqno = peer_isn /\ index = 0
    BY <1>1, <1>2, <1>4, <1>7, WrapZero DEF opens
  <2>2. rcv' = [rcv EXCEPT !.isn = peer_isn,
                  !.reassembler = SR!push_substring(q, seg.payload, 0, seg.fin)]
    BY <1>2, <2>1, Zenon DEF segment_received
  <2> DEFINE p == SR!push_substring(q, seg.payload, 0, seg.fin)
  <2>3. p = R!push_substring(q, R!Substring(index, len), index, fin)
    BY <1>1, <2>1, SamePush
  <2> HIDE DEF p
  <2>4. rcv' = [reassembler |-> p, isn |-> peer_isn]
    BY <1>5, <2>2 DEF p
  <2> QED
    BY <1>7, <2>3, <2>4 DEF Receive
<1>8. CASE rcv.isn = NoIsn /\ ~syn
  <2>1. ~opens(rcv, seg)
    BY <1>1, <1>8 DEF opens
  <2>2. rcv' = rcv
    BY <1>2, <1>8, <2>1 DEF segment_received
  <2> QED
    BY <1>8, <2>2 DEF Receive, has_ackno
<1>9. CASE rcv.isn = peer_isn
  <2> DEFINE abs == WI!unwrap(seg.seqno, rcv.isn, stream_out(rcv).total_written_bytes + 1)
  <2>1. abs = x
    <3>1. /\ x \in Nat
          /\ q.output.total_written_bytes + 1 \in Nat
          /\ 2 * (x - (q.output.total_written_bytes + 1)) < Modulus
          /\ 2 * ((q.output.total_written_bytes + 1) - x) < Modulus
      BY <1>2, <1>3, ReceiverAssumption
    <3> HIDE DEF x, q
    <3>2. WI!unwrap(WI!wrap(x, peer_isn), peer_isn, q.output.total_written_bytes + 1) = x
      BY <1>4, <3>1, WrapRoundTrip
    <3> QED
      BY <1>1, <1>9, <3>2 DEF stream_out, q
  <2>2. ~opens(rcv, seg)
    BY <1>4, <1>9 DEF opens
  <2>3. CASE syn
    <3>1. rcv' = rcv
      BY <1>2, <2>1, <2>2, <2>3 DEF segment_received
    <3> QED
      BY <2>3, <3>1 DEF Receive
  <2>4. CASE ~syn
    <3>1. abs # 0 /\ stream_index(abs) = index
      BY <1>2, <2>1, <2>4 DEF stream_index
    <3>2. rcv' = [rcv EXCEPT !.reassembler =
                    SR!push_substring(q, seg.payload, index, seg.fin)]
      BY <1>2, <1>4, <1>9, <2>2, <3>1, Zenon DEF segment_received
    <3>3. rcv' = [reassembler |-> R!push_substring(q, R!Substring(index, len), index, fin),
                  isn |-> peer_isn]
      BY <1>1, <1>6, <1>9, <3>2, SamePush
    <3> QED
      BY <1>4, <1>9, <3>3 DEF Receive, has_ackno
  <2> QED
    BY <2>3, <2>4
<1> QED
  BY <1>4, <1>7, <1>8, <1>9

(* The guards of Receive are those of Push.                                *)
LEMMA ReceiveGuard ==
  ASSUME Decodes, NEW index \in 0 .. StreamLen, NEW len \in 0 .. MaxPayload,
         NEW syn \in BOOLEAN, NEW fin \in BOOLEAN, Receive(index, len, syn, fin)
  PROVE  LET q == rcv.reassembler
         IN  /\ index \in Nat /\ len \in Nat
             /\ index + len <= StreamLen
             /\ fin => index + len = StreamLen
             /\ BeyondWindow \/ index <= q.first_unassembled_index + R!Room(q)
             /\ BeyondWindow \/ index <= q.first_unassembled_index
                                           + R!BS!remaining_capacity(q.output)
             /\ EndOvertakes \/ ~fin \/ len > 0 \/ index <= q.first_unassembled_index
<1> DEFINE q == rcv.reassembler
<1>1. /\ q.output.total_written_bytes <= q.first_unassembled_index
      /\ q.first_unassembled_index \in Nat
      /\ q.output.total_written_bytes \in Nat
      /\ q.output.total_capacity = Capacity
  BY WrittenInStream DEF Decodes, R!InStream
<1>2. /\ window_size(rcv) = R!Room(q)
      /\ R!BS!remaining_capacity(q.output) = R!Room(q)
  BY <1>1 DEF window_size, stream_out, BS!remaining_capacity, BS!buffer_size,
              R!BS!remaining_capacity, R!BS!buffer_size, R!Room
<1>3. BeyondWindow \/ q.output.total_written_bytes = q.first_unassembled_index
  BY DEF Decodes, R!Consistent, R!OutputOK
<1> HIDE DEF q
<1>4. index \in Nat /\ len \in Nat
  BY ReceiverAssumption
<1>5. /\ index + len <= StreamLen
      /\ fin => index + len = StreamLen
      /\ BeyondWindow \/ index <= q.output.total_written_bytes + R!Room(q)
      /\ EndOvertakes \/ ~fin \/ len > 0 \/ index <= q.output.total_written_bytes
  BY <1>2 DEF Receive, WindowEdge, stream_out, q
<1>6. BeyondWindow \/ index <= q.first_unassembled_index + R!Room(q)
  BY <1>3, <1>5
<1>7. index <= q.output.total_written_bytes => index <= q.first_unassembled_index
  BY <1>1, <1>4
<1> QED
  BY <1>2, <1>4, <1>5, <1>6, <1>7 DEF q

(* A read is a read of the reassembler's output.                           *)
LEMMA ReadIsPop ==
  ASSUME Decodes, NEW n \in 1 .. MaxPayload, Read(n)
  PROVE  LET q == rcv.reassembler
         IN  /\ rcv' = [reassembler |-> [q EXCEPT !.output = R!BS!pop_output(@, n)],
                        isn |-> rcv.isn]
             /\ peer_isn' = peer_isn /\ arrived' = arrived
<1> DEFINE q == rcv.reassembler
           p == [q EXCEPT !.output = R!BS!pop_output(@, n)]
<1>1. rcv' = [rcv EXCEPT !.reassembler = [q EXCEPT !.output = BS!pop_output(@, n)]]
  BY DEF Read
<1>2. BS!pop_output(q.output, n) = R!BS!pop_output(q.output, n)
  BY SamePop
<1> HIDE DEF q
<1>3. rcv' = [rcv EXCEPT !.reassembler = p]
  BY <1>1, <1>2, Zenon
<1>4. rcv = [reassembler |-> q, isn |-> rcv.isn]
  BY DEF Decodes, q
<1> HIDE DEF p
<1>5. rcv' = [reassembler |-> p, isn |-> rcv.isn]
  BY <1>3, <1>4
<1> QED
  BY <1>5 DEF Read, p, q

(* Whatever the peer does, every step is a step of the reassembler or      *)
(* leaves it alone, and keeps it within the stream.                        *)
LEMMA StepRefines ==
  ASSUME Decodes, [Next]_vars
  PROVE  Decodes' /\ [R!Next]_(R!vars)
<1> DEFINE q == rcv.reassembler
           Goal == Decodes' /\ [R!Next]_(R!vars)
<1>1. R!InStream(q) /\ (~BeyondWindow => R!Consistent(q))
  BY DEF Decodes
<1>2. ASSUME rcv' = rcv, peer_isn' = peer_isn PROVE Goal
  <2>1. Decodes'
    BY <1>2 DEF Decodes
  <2>2. R!vars' = R!vars
    BY <1>2 DEF R!vars
  <2> QED
    BY <2>1, <2>2
<1>3. ASSUME NEW index \in 0 .. StreamLen, NEW len \in 0 .. MaxPayload,
             NEW syn \in BOOLEAN, NEW fin \in BOOLEAN,
             Receive(index, len, syn, fin), rcv' # rcv
      PROVE  Goal
  <2> DEFINE p == R!push_substring(q, R!Substring(index, len), index, fin)
  <2>1. rcv' = [reassembler |-> p, isn |-> peer_isn] /\ peer_isn' = peer_isn
    BY <1>3, ReceiveEffect DEF Receive
  <2>2. /\ index \in Nat /\ len \in Nat
        /\ index + len <= StreamLen
        /\ fin => index + len = StreamLen
        /\ BeyondWindow \/ index <= q.first_unassembled_index + R!Room(q)
        /\ BeyondWindow \/ index <= q.first_unassembled_index
                                      + R!BS!remaining_capacity(q.output)
        /\ EndOvertakes \/ ~fin \/ len > 0 \/ index <= q.first_unassembled_index
    BY <1>3, ReceiveGuard
  <2>3. R!InStream(p)
    BY <1>1, <2>2, InstanceAssumptions, R!PushInStream
  <2>4. ~BeyondWindow => R!Consistent(p)
    BY <1>1, <2>2, InstanceAssumptions, R!PushConsistent
  <2>5. R!Next
    <3>1. R!Push(index, len, fin)
      BY <2>1, <2>2 DEF R!Push, R!WindowEdge
    <3> QED
      BY <3>1 DEF R!Next
  <2> HIDE DEF p
  <2>6. Decodes'
    BY <2>1, <2>3, <2>4 DEF Decodes
  <2> QED
    BY <2>5, <2>6
<1>4. ASSUME NEW n \in 1 .. MaxPayload, Read(n) PROVE Goal
  <2> DEFINE p == [q EXCEPT !.output = R!BS!pop_output(@, n)]
  <2>1. rcv' = [reassembler |-> p, isn |-> rcv.isn] /\ peer_isn' = peer_isn
    BY <1>4, ReadIsPop
  <2>2. n \in Nat
    BY ReceiverAssumption
  <2>3. R!InStream(p)
    BY <1>1, <2>2, InstanceAssumptions, R!ReadInStream
  <2>4. ~BeyondWindow => R!Consistent(p)
    BY <1>1, <2>2, InstanceAssumptions, R!ReadConsistent
  <2>5. R!Next
    BY <2>1 DEF R!Next, R!Read
  <2> HIDE DEF p
  <2>6. Decodes'
    BY <2>1, <2>3, <2>4 DEF Decodes
  <2> QED
    BY <2>5, <2>6
<1>5. Goal
  <2> HIDE DEF Goal
  <2>1. CASE rcv' = rcv
    <3>1. peer_isn' = peer_isn
      BY DEF Next, vars, Receive, Read
    <3> QED
      BY <1>2, <2>1, <3>1
  <2>2. CASE rcv' # rcv
    BY <1>3, <1>4, <2>2 DEF Next, vars
  <2> QED
    BY <2>1, <2>2
<1> QED
  BY <1>5

(* With a peer that keeps to the window, every step keeps the invariant    *)
(* and moves the right edge of the window forward if at all.               *)
LEMMA StepEffect ==
  ASSUME ~BeyondWindow, ~EndOvertakes, IInv, [Next]_vars
  PROVE  LET q == rcv.reassembler
             d == rcv'.reassembler
         IN  /\ IInv'
             /\ d.first_unassembled_index + R!Room(d)
                  >= q.first_unassembled_index + R!Room(q)
             /\ q.output.is_input_ended => d.output.is_input_ended
<1> DEFINE q == rcv.reassembler
           d == rcv'.reassembler
           Goal == /\ IInv'
                   /\ d.first_unassembled_index + R!Room(d)
                        >= q.first_unassembled_index + R!Room(q)
                   /\ q.output.is_input_ended => d.output.is_input_ended
<1>1. /\ R!Consistent(q)
      /\ R!EndOK(q)
      /\ q.first_unassembled_index + R!Room(q) \in Int
      /\ R!Room(q) \in Int
      /\ q.first_unassembled_index \in Nat
  <2>1. R!Consistent(q) /\ R!EndOK(q)
    BY DEF IInv
  <2>2. q.first_unassembled_index \in Nat /\ q.output \in R!BS!Type(R!Byte)
    BY <2>1 DEF R!Consistent, R!Obj
  <2>3. Len(q.output.buffer) \in Nat
    BY <2>2 DEF R!BS!Type
  <2> QED
    BY <2>1, <2>2, <2>3, ReceiverAssumption DEF R!Room
<1>2. Decodes /\ Decodes'
  BY StepRefines DEF IInv
<1>3. ASSUME rcv' = rcv, arrived \subseteq arrived' PROVE Goal
  <2>1. IInv'
    BY <1>2, <1>3 DEF IInv, HasArrived
  <2> QED
    BY <1>1, <1>3, <2>1
<1>4. ASSUME NEW index \in 0 .. StreamLen, NEW len \in 0 .. MaxPayload,
             NEW syn \in BOOLEAN, NEW fin \in BOOLEAN,
             Receive(index, len, syn, fin), rcv' # rcv
      PROVE  Goal
  <2> DEFINE p == R!push_substring(q, R!Substring(index, len), index, fin)
  <2>1. /\ rcv' = [reassembler |-> p, isn |-> peer_isn]
        /\ syn \/ rcv.isn # NoIsn
        /\ arrived' = arrived \cup (IF syn THEN {0} ELSE {})
                              \cup {index + i : i \in 1 .. len}
                              \cup (IF fin THEN {StreamLen + 1} ELSE {})
        /\ peer_isn' = peer_isn
    BY <1>2, <1>4, ReceiveEffect DEF Receive
  <2>2. /\ index \in Nat /\ len \in Nat
        /\ index + len <= StreamLen
        /\ fin => index + len = StreamLen
        /\ index <= q.first_unassembled_index + R!Room(q)
        /\ ~fin \/ len > 0 \/ index <= q.first_unassembled_index
    BY <1>2, <1>4, ReceiveGuard
  <2>3. R!Consistent(p) /\ R!EndOK(p)
    BY <1>1, <2>2, InstanceAssumptions, R!PushConsistent, R!PushKeepsEnd
  <2>4. /\ \A j \in Nat : R!Has(p, j) => R!Has(q, j) \/ j \in index .. index + len - 1
        /\ p.is_eof_data_received => q.is_eof_data_received \/ fin
        /\ p.output.is_input_ended => q.output.is_input_ended \/ p.is_eof_data_received
        /\ q.output.is_input_ended => p.output.is_input_ended
        /\ p.first_unassembled_index + R!Room(p) = q.first_unassembled_index + R!Room(q)
    BY <1>1, <2>2, InstanceAssumptions, R!PushAddsOnlySubstring
  <2>5. d = p /\ rcv'.isn = peer_isn
    BY <2>1
  <2> HIDE DEF p, q, d
  <2>6. HasArrived(rcv.reassembler)'
    <3>1. ASSUME NEW j \in Nat, R!Has(p, j) PROVE j + 1 \in arrived'
      <4>1. CASE R!Has(q, j)
        BY <2>1, <4>1 DEF IInv, HasArrived, q
      <4>2. CASE j \in index .. index + len - 1
        <5>1. (j + 1) - index \in 1 .. len /\ index + ((j + 1) - index) = j + 1
          BY <2>2, <4>2
        <5>2. j + 1 \in {index + i : i \in 1 .. len}
          BY <5>1
        <5> QED
          BY <2>1, <5>2
      <4> QED
        BY <2>4, <3>1, <4>1, <4>2
    <3>2. p.is_eof_data_received \/ p.output.is_input_ended => StreamLen + 1 \in arrived'
      BY <2>1, <2>4 DEF IInv, HasArrived, q
    <3> QED
      BY <2>5, <3>1, <3>2 DEF HasArrived, d
  <2>7. 0 \in arrived'
    BY <2>1 DEF IInv
  <2>8. IInv'
    BY <1>2, <2>3, <2>5, <2>6, <2>7 DEF IInv, d
  <2> QED
    BY <1>1, <2>4, <2>5, <2>8
<1>5. ASSUME NEW n \in 1 .. MaxPayload, Read(n) PROVE Goal
  <2> DEFINE p == [q EXCEPT !.output = R!BS!pop_output(@, n)]
  <2>1. /\ rcv' = [reassembler |-> p, isn |-> rcv.isn]
        /\ peer_isn' = peer_isn /\ arrived' = arrived
    BY <1>2, <1>5, ReadIsPop
  <2>2. n \in Nat
    BY ReceiverAssumption
  <2>3. R!Consistent(p)
    BY <1>1, <2>2, InstanceAssumptions, R!ReadConsistent
  <2>4. /\ \A j : R!Has(p, j) <=> R!Has(q, j)
        /\ p.first_unassembled_index = q.first_unassembled_index
        /\ p.is_eof_data_received = q.is_eof_data_received
        /\ p.output.is_input_ended = q.output.is_input_ended
        /\ R!Room(p) >= R!Room(q)
    BY <1>1, <2>2, InstanceAssumptions, R!ReadOnlyFrees
  <2>5. d = p /\ rcv'.isn = rcv.isn
    BY <2>1
  <2>6. R!LastByteIsIn(p) <=> R!LastByteIsIn(q)
    BY <2>4 DEF R!LastByteIsIn, R!slot
  <2>7. Len(p.output.buffer) \in Nat
    <3>1. p.output \in R!BS!Type(R!Byte)
      BY <2>3 DEF R!Consistent, R!Obj
    <3> QED
      BY <3>1 DEF R!BS!Type
  <2> HIDE DEF p, q, d
  <2>8. R!EndOK(p)
    BY <1>1, <2>4, <2>6 DEF R!EndOK
  <2>9. HasArrived(rcv.reassembler)'
    BY <2>1, <2>4, <2>5 DEF IInv, HasArrived, q, d
  <2>10. IInv'
    BY <1>2, <2>1, <2>3, <2>5, <2>8, <2>9 DEF IInv, d
  <2>11. d.first_unassembled_index + R!Room(d) >= q.first_unassembled_index + R!Room(q)
    <3>1. R!Room(p) \in Int
      BY <2>7, ReceiverAssumption DEF R!Room
    <3> QED
      BY <1>1, <2>4, <2>5, <3>1
  <2> QED
    BY <2>4, <2>5, <2>10, <2>11
<1>6. Goal
  <2> HIDE DEF Goal
  <2>1. CASE rcv' = rcv
    <3>1. arrived \subseteq arrived'
      BY DEF Next, vars, Receive, Read
    <3> QED
      BY <1>3, <2>1, <3>1
  <2>2. CASE rcv' # rcv
    BY <1>4, <1>5, <2>2 DEF Next, vars
  <2> QED
    BY <2>1, <2>2
<1> QED
  BY <1>6

(* The first invariant holds throughout, whatever the peer does.           *)
LEMMA Decoding == Spec => []Decodes
<1>1. Init => Decodes
  BY InitIInv DEF IInv
<1>2. Decodes /\ [Next]_vars => Decodes'
  BY StepRefines
<1> QED
  BY <1>1, <1>2, PTL DEF Spec

(* The stronger one needs a peer that keeps to the window.                 *)
LEMMA Invariance ==
  ASSUME ~BeyondWindow, ~EndOvertakes
  PROVE  Spec => []IInv
<1>1. IInv /\ [Next]_vars => IInv'
  BY StepEffect
<1> QED
  BY <1>1, InitIInv, PTL DEF Spec
-----------------------------------------------------------------------------
(* tcp_receiver.cc, segment_received(): whatever segments of the stream    *)
(* arrive, beyond the window and a FIN before its data included, and       *)
(* however often the sequence numbers wrap, the reassembler inside the     *)
(* receiver is pushed the bytes of the segment at their index, or nothing. *)
(* A peer that keeps to the window is a sender of substrings that does, so *)
(* everything proved of the reassembler holds in here.                     *)
THEOREM ReceiverImplementsReassembler == Spec => R!Spec
<1>1. Decodes /\ [Next]_vars => [R!Next]_(R!vars)
  BY StepRefines
<1> QED
  BY <1>1, InitIInv, Decoding, PTL DEF Spec, R!Spec

(* segment_received() decodes the sequence number to the right index, so   *)
(* the reader gets the bytes of the stream in order.                       *)
THEOREM ReceiverOutputInOrder ==
  ASSUME ~BeyondWindow
  PROVE  Spec => []InOrderOutput
<1>1. R!InOrderOutput => InOrderOutput
  BY DEF R!InOrderOutput, InOrderOutput, stream_out
<1>2. R!Spec => []R!InOrderOutput
  BY InstanceAssumptions, R!OutputInOrder
<1> QED
  BY <1>1, <1>2, ReceiverImplementsReassembler, PTL

(* ackno() acknowledges nothing that did not arrive.                       *)
THEOREM AckedHasArrived ==
  ASSUME ~BeyondWindow, ~EndOvertakes
  PROVE  Spec => []AckOnlyWhatArrived
<1>1. IInv => AckOnlyWhatArrived
  <2> SUFFICES ASSUME IInv, has_ackno(rcv), NEW n \in 0 .. AbsAckno - 1
               PROVE  n \in arrived
    BY DEF AckOnlyWhatArrived
  <2> DEFINE q == rcv.reassembler
  <2>1. /\ q.output.total_written_bytes = q.first_unassembled_index
        /\ q.first_unassembled_index \in Nat
        /\ q.output.is_input_ended => q.first_unassembled_index = StreamLen
    BY DEF IInv, R!Consistent, R!OutputOK, R!EndOK, R!Obj
  <2>2. /\ \A j \in Nat : j < q.first_unassembled_index => j + 1 \in arrived
        /\ q.output.is_input_ended => StreamLen + 1 \in arrived
        /\ 0 \in arrived
    BY DEF IInv, HasArrived, R!Has, has_ackno
  <2>3. AbsAckno = q.first_unassembled_index + 1
                     + (IF q.output.is_input_ended THEN 1 ELSE 0)
    BY <2>1 DEF AbsAckno, stream_out
  <2> HIDE DEF q
  <2>4. CASE n = 0
    BY <2>2, <2>4
  <2>5. CASE n \in 1 .. q.first_unassembled_index
    <3>1. n - 1 \in Nat /\ n - 1 < q.first_unassembled_index /\ (n - 1) + 1 = n
      BY <2>1, <2>5
    <3> QED
      BY <2>2, <3>1
  <2>6. CASE n = q.first_unassembled_index + 1 /\ q.output.is_input_ended
    BY <2>1, <2>2, <2>6
  <2> QED
    BY <2>1, <2>3, <2>4, <2>5, <2>6
<1> QED
  BY <1>1, Invariance, PTL

(* ackno(): whatever the peer does, it gets back the absolute number that  *)
(* the header stands for, wherever it is in its own stream.                *)
THEOREM AcknoIsDecoded == Spec => []AcknoDecodes
<1>1. Decodes => AcknoDecodes
  <2> SUFFICES ASSUME Decodes, has_ackno(rcv), NEW mark \in 0 .. StreamLen + 2
               PROVE  WI!unwrap(ackno(rcv), peer_isn, mark) = AbsAckno
    BY DEF AcknoDecodes
  <2> DEFINE q == rcv.reassembler
  <2>1. /\ q.output.total_written_bytes \in Nat
        /\ q.output.total_written_bytes <= StreamLen
    BY WrittenInStream
  <2>2. AbsAckno \in Nat /\ AbsAckno <= StreamLen + 2
    BY <2>1, ReceiverAssumption DEF AbsAckno, stream_out
  <2>3. ackno(rcv) = WI!wrap(AbsAckno, peer_isn)
    BY DEF ackno, AbsAckno, has_ackno, Decodes
  <2>4. mark \in Nat /\ 2 * (AbsAckno - mark) < Modulus /\ 2 * (mark - AbsAckno) < Modulus
    BY <2>2, ReceiverAssumption
  <2>5. peer_isn \in WI!Wrapping
    BY DEF Decodes
  <2> QED
    BY <2>2, <2>3, <2>4, <2>5, WrapRoundTrip
<1> QED
  BY <1>1, Decoding, PTL

(* window_size() and ackno(): what the peer was told it may send stays     *)
(* acceptable.                                                             *)
THEOREM WindowEdgeKept ==
  ASSUME ~BeyondWindow, ~EndOvertakes
  PROVE  Spec => WindowNeverShrinks
<1>1. IInv /\ [Next]_vars =>
        [has_ackno(rcv) =>
           AbsAckno' + window_size(rcv') >= AbsAckno + window_size(rcv)]_vars
  <2> SUFFICES ASSUME IInv, [Next]_vars
               PROVE  AbsAckno' + window_size(rcv') >= AbsAckno + window_size(rcv)
    OBVIOUS
  <2> DEFINE q == rcv.reassembler
             d == rcv'.reassembler
             Bit(b) == IF b THEN 1 ELSE 0
  <2>1. /\ IInv'
        /\ d.first_unassembled_index + R!Room(d) >= q.first_unassembled_index + R!Room(q)
        /\ q.output.is_input_ended => d.output.is_input_ended
    BY StepEffect
  <2>2. /\ AbsAckno = q.first_unassembled_index + 1 + Bit(q.output.is_input_ended)
        /\ window_size(rcv) = R!Room(q)
        /\ q.first_unassembled_index \in Nat
        /\ R!Room(q) \in Int
    <3>1. /\ q.output.total_written_bytes = q.first_unassembled_index
          /\ q.output.total_capacity = Capacity
          /\ q.first_unassembled_index \in Nat
          /\ q.output \in R!BS!Type(R!Byte)
      BY DEF IInv, R!Consistent, R!OutputOK, R!Obj
    <3>2. Len(q.output.buffer) \in Nat
      BY <3>1 DEF R!BS!Type
    <3> QED
      BY <3>1, <3>2, ReceiverAssumption
      DEF AbsAckno, window_size, stream_out, BS!remaining_capacity, BS!buffer_size, R!Room
  <2>3. /\ AbsAckno' = d.first_unassembled_index + 1 + Bit(d.output.is_input_ended)
        /\ window_size(rcv') = R!Room(d)
        /\ d.first_unassembled_index \in Nat
        /\ R!Room(d) \in Int
    <3>1. /\ d.output.total_written_bytes = d.first_unassembled_index
          /\ d.output.total_capacity = Capacity
          /\ d.first_unassembled_index \in Nat
          /\ d.output \in R!BS!Type(R!Byte)
      BY <2>1 DEF IInv, R!Consistent, R!OutputOK, R!Obj
    <3>2. Len(d.output.buffer) \in Nat
      BY <3>1 DEF R!BS!Type
    <3> QED
      BY <3>1, <3>2, ReceiverAssumption
      DEF AbsAckno, window_size, stream_out, BS!remaining_capacity, BS!buffer_size, R!Room
  <2>4. /\ Bit(q.output.is_input_ended) \in 0 .. 1
        /\ Bit(d.output.is_input_ended) \in 0 .. 1
        /\ Bit(q.output.is_input_ended) <= Bit(d.output.is_input_ended)
    BY <2>1
  <2> HIDE DEF q, d, Bit
  <2> QED
    BY <2>1, <2>2, <2>3, <2>4
<1> QED
  BY <1>1, Invariance, PTL DEF Spec, WindowNeverShrinks
=============================================================================
