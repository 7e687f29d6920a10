---------------------------- MODULE TCPReceiver ----------------------------
(***************************************************************************)
(* The class TCPReceiver (libsponge/tcp_receiver.hh, tcp_receiver.cc):     *)
(* takes segments, hands their payload to the reassembler at the right     *)
(* index, and says what to acknowledge.                                    *)
(***************************************************************************)
EXTENDS Integers, Sequences

CONSTANTS U64, Modulus

WI == INSTANCE WrappingIntegers
SR == INSTANCE StreamReassembler
BS == INSTANCE ByteStream

NoIsn == -1   \* the unset _isn

New(capacity) == [ reassembler |-> SR!New(capacity), isn |-> NoIsn ]

stream_out(rcv) == rcv.reassembler.output

\* The first SYN opens the stream.
opens(rcv, seg) == rcv.isn = NoIsn /\ seg.syn

\* Mutant: the SYN's number is not taken off.
stream_index_with_syn(abs) == abs

\* From absolute sequence number to stream index.
stream_index(abs) == abs - 1

segment_received(rcv, seg) ==
  LET checkpoint == stream_out(rcv).total_written_bytes + 1
      abs        == WI!unwrap(seg.seqno, rcv.isn, checkpoint)
      push(index) == SR!push_substring(rcv.reassembler, seg.payload, index, seg.fin)
  IN  IF opens(rcv, seg)
      THEN [rcv EXCEPT !.isn = seg.seqno, !.reassembler = push(0)]
      ELSE IF rcv.isn # NoIsn /\ abs # 0
      THEN [rcv EXCEPT !.reassembler = push(stream_index(abs))]
      ELSE rcv

\* ackno() is an optional: has_ackno says whether it holds a value.
has_ackno(rcv) == rcv.isn # NoIsn

\* Mutants: the FIN is not acknowledged, and bytes that wait are.
ackno_without_fin(rcv) == WI!wrap(stream_out(rcv).total_written_bytes + 1, rcv.isn)
ackno_of_waiting(rcv) ==
  WI!wrap(stream_out(rcv).total_written_bytes + 1
            + rcv.reassembler.unassembled_bytes, rcv.isn)

ackno(rcv) ==
  LET s   == stream_out(rcv)
      abs == s.total_written_bytes + 1 + (IF s.is_input_ended THEN 1 ELSE 0)
  IN  WI!wrap(abs, rcv.isn)

\* Mutant: bytes that wait take up window.
window_size_of_waiting(rcv) ==
  BS!remaining_capacity(stream_out(rcv)) - rcv.reassembler.unassembled_bytes

window_size(rcv) == BS!remaining_capacity(stream_out(rcv))
=============================================================================
