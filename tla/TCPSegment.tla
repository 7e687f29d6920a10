----------------------------- MODULE TCPSegment -----------------------------
(***************************************************************************)
(* The class TCPSegment (libsponge/tcp_helpers/tcp_segment.cc) and the     *)
(* fields of TCPHeader that the protocol reads.  Ports, checksum and       *)
(* options are left out: a segment that does not parse is dropped by the   *)
(* adapter, which is the loss of the segment.                              *)
(***************************************************************************)
EXTENDS Naturals, Sequences

\* A default-constructed segment.
New ==
  [ seqno   |-> 0,
    ackno   |-> 0,
    ack     |-> FALSE,
    rst     |-> FALSE,
    syn     |-> FALSE,
    fin     |-> FALSE,
    win     |-> 0,
    payload |-> << >> ]

Type(Seqno, Window, Byte) ==
  [ seqno   : Seqno,
    ackno   : Seqno,
    ack     : BOOLEAN,
    rst     : BOOLEAN,
    syn     : BOOLEAN,
    fin     : BOOLEAN,
    win     : Window,
    payload : Seq(Byte) ]

length_in_sequence_space(seg) ==
  Len(seg.payload) + (IF seg.syn THEN 1 ELSE 0) + (IF seg.fin THEN 1 ELSE 0)
=============================================================================
