-------------------------- MODULE TCPReceiverSpec --------------------------
(***************************************************************************)
(* One TCPReceiver.  Its peer owns a stream of StreamLen bytes (the byte   *)
(* with index i is the number i) and an initial sequence number, and the   *)
(* network delivers segments of that stream in any order and any number of *)
(* times; segments arrive before the SYN too.                              *)
(*                                                                         *)
(* As in StreamReassemblerSpec two constants describe the peer.  When both *)
(* are FALSE it stays within the window and its bare FIN does not overtake *)
(* data; the code relies on both.                                          *)
(***************************************************************************)
EXTENDS TCPReceiver

CONSTANTS
  Capacity,       \* recv_capacity
  StreamLen,      \* the length of the peer's stream
  MaxPayload,     \* the longest payload, and the longest read
  Isns,           \* the initial sequence numbers the peer may choose
  BeyondWindow,   \* may a segment start beyond the window's right edge?
  EndOvertakes    \* may a FIN without payload arrive before the data?

ASSUME ReceiverAssumption ==
  /\ U64 \in Nat
  /\ Modulus \in Nat \ {0} /\ Modulus % 2 = 0
  /\ Capacity \in Nat \ {0}
  /\ StreamLen \in Nat
  /\ MaxPayload \in Nat
  /\ Isns \subseteq WI!Wrapping
  /\ 2 * (StreamLen + 2) < Modulus
  /\ BeyondWindow \in BOOLEAN
  /\ EndOvertakes \in BOOLEAN

TS == INSTANCE TCPSegment

VARIABLES
  rcv,       \* the object
  peer_isn,  \* the peer's initial sequence number
  arrived    \* history: absolute sequence numbers covered by the segments
             \* that reached the receiver after the SYN, or with it

vars == <<rcv, peer_isn, arrived>>

Init ==
  /\ rcv = New(Capacity)
  /\ peer_isn \in Isns
  /\ arrived = {}

\* The segment that starts at stream index `index`; a SYN comes before it.
Segment(index, len, syn, fin) ==
  [TS!New EXCEPT
     !.seqno   = WI!wrap(IF syn THEN index ELSE index + 1, peer_isn),
     !.syn     = syn,
     !.fin     = fin,
     !.payload = [i \in 1 .. len |-> index + i - 1]]

WindowEdge == stream_out(rcv).total_written_bytes + window_size(rcv)

Receive(index, len, syn, fin) ==
  /\ index + len <= StreamLen
  /\ syn => index = 0
  /\ fin => index + len = StreamLen
  /\ BeyondWindow \/ index <= WindowEdge
  /\ EndOvertakes \/ ~fin \/ len > 0 \/ index <= stream_out(rcv).total_written_bytes
  /\ rcv' = segment_received(rcv, Segment(index, len, syn, fin))
  /\ arrived' = IF syn \/ has_ackno(rcv)
                THEN arrived \cup (IF syn THEN {0} ELSE {})
                             \cup {index + i : i \in 1 .. len}
                             \cup (IF fin THEN {StreamLen + 1} ELSE {})
                ELSE arrived
  /\ UNCHANGED peer_isn

Read(n) ==
  /\ rcv' = [rcv EXCEPT !.reassembler.output = BS!pop_output(@, n)]
  /\ UNCHANGED <<peer_isn, arrived>>

Next ==
  \/ \E index \in 0 .. StreamLen, len \in 0 .. MaxPayload, syn, fin \in BOOLEAN :
        Receive(index, len, syn, fin)
  \/ \E n \in 1 .. MaxPayload : Read(n)

Spec == Init /\ [][Next]_vars
-----------------------------------------------------------------------------
\* The absolute acknowledgment number that the header field stands for.
AbsAckno ==
  stream_out(rcv).total_written_bytes + 1
    + (IF stream_out(rcv).is_input_ended THEN 1 ELSE 0)

(* tcp_receiver.hh, lines 38-39: ackno() is "the sequence number of the    *)
(* first byte in the stream that the receiver hasn't received".  So every  *)
(* number below it, SYN and FIN included, arrived in some segment: the     *)
(* peer forgets what is acknowledged and will not send it again.           *)
AckOnlyWhatArrived ==
  has_ackno(rcv) => 0 .. AbsAckno - 1 \subseteq arrived

(* The number in the header is the absolute number modulo the sequence     *)
(* space, and the peer that unwraps it near any position of its own gets   *)
(* the absolute number back.                                               *)
AcknoDecodes ==
  has_ackno(rcv) =>
    \A mark \in 0 .. StreamLen + 2 : WI!unwrap(ackno(rcv), peer_isn, mark) = AbsAckno

(* The right edge of the window never moves back: what the peer was told   *)
(* it may send stays acceptable, whatever arrives and is read afterwards.  *)
WindowNeverShrinks ==
  [][has_ackno(rcv) =>
       AbsAckno' + window_size(rcv') >= AbsAckno + window_size(rcv)]_vars

(* The reader gets the bytes of the stream in order, for every initial     *)
(* sequence number.                                                        *)
InOrderOutput ==
  \A i \in DOMAIN stream_out(rcv).buffer :
     stream_out(rcv).buffer[i] = stream_out(rcv).total_read_bytes + i - 1
=============================================================================
