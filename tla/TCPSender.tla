----------------------------- MODULE TCPSender -----------------------------
(***************************************************************************)
(* The class TCPSender (libsponge/tcp_sender.hh, tcp_sender.cc): cuts the  *)
(* outgoing stream into segments that fit the peer's window, keeps what is *)
(* not acknowledged and retransmits the oldest of it when its timer        *)
(* expires.                                                                *)
(***************************************************************************)
EXTENDS Integers, Sequences

CONSTANTS
  U64,               \* 2^64, where uint64_t arithmetic wraps
  Modulus,           \* 2^32, where sequence numbers wrap
  MAX_PAYLOAD_SIZE   \* TCPConfig::MAX_PAYLOAD_SIZE

WI == INSTANCE WrappingIntegers
BS == INSTANCE ByteStream
TS == INSTANCE TCPSegment
RT == INSTANCE RetransmissionTimer

New(capacity, retx_timeout, isn) ==
  [ isn                         |-> isn,
    segments_out                |-> << >>,
    stream                      |-> BS!New(capacity),
    next_seqno                  |-> 0,
    retx_timer                  |-> RT!New(retx_timeout),
    previous_ackno              |-> 0,
    window_size                 |-> 1,
    outstanding_segments        |-> << >>,
    bytes_in_flight             |-> 0,
    consecutive_retransmissions |-> 0,
    is_fin_sent                 |-> FALSE ]

next_seqno(s) == WI!wrap(s.next_seqno, s.isn)

\* The block that fill_window() repeats for SYN, FIN and data: number the
\* segment, queue it, remember it, start the timer and count it.
send(s, seg) ==
  LET numbered == [seg EXCEPT !.seqno = next_seqno(s)]
      length   == TS!length_in_sequence_space(seg)
  IN  [s EXCEPT !.segments_out         = Append(@, numbered),
                !.outstanding_segments = Append(@, numbered),
                !.retx_timer           = RT!start(@),
                !.next_seqno           = @ + length,
                !.bytes_in_flight      = @ + length]

\* The window fill_window() works with: a closed window counts as one.
probing_window(s) == IF s.window_size = 0 THEN 1 ELSE s.window_size

\* Mutant: what is in flight is not taken off.
available_window_size_whole(s) == probing_window(s)

\* An unsigned difference: when the window is smaller than what is in flight
\* it wraps to a huge number.
available_window_size(s) ==
  LET used == s.next_seqno - s.previous_ackno
  IN  IF used <= probing_window(s) THEN probing_window(s) - used
                                   ELSE U64 + probing_window(s) - used

\* Mutant: the FIN is sent again by every call.
send_fin_again(s) == send([s EXCEPT !.is_fin_sent = TRUE], [TS!New EXCEPT !.fin = TRUE])

\* A FIN on its own, once.
send_fin(s) ==
  IF s.is_fin_sent THEN s
  ELSE send([s EXCEPT !.is_fin_sent = TRUE], [TS!New EXCEPT !.fin = TRUE])

\* Mutant: the end of the input counts as the end of the stream.
adds_fin_early(s, data, stream) ==
  probing_window(s) # Len(data) /\ stream.is_input_ended

\* Does the segment with this data carry the FIN?
adds_fin(s, data, stream) == probing_window(s) # Len(data) /\ stream.is_eof

\* A segment of data, with the FIN when the stream has ended and the payload
\* does not fill the window exactly.
send_data(s) ==
  LET len    == BS!Smaller(available_window_size(s), MAX_PAYLOAD_SIZE)
      data   == BS!peek_output(s.stream, len)
      stream == BS!pop_output(s.stream, len)
      fin    == adds_fin(s, data, stream)
      read   == [s EXCEPT !.stream = stream, !.is_fin_sent = @ \/ fin]
  IN  IF Len(data) > 0 \/ fin
      THEN send(read, [TS!New EXCEPT !.payload = data, !.fin = fin])
      ELSE read

\* One round of the loop of fill_window().  A round after the one that
\* leaves the loop changes nothing.
send_round(s) ==
  IF available_window_size(s) = 0 THEN s
  ELSE IF s.stream.is_eof THEN send_fin(s) ELSE send_data(s)

\* The object after n rounds.
send_rounds(s, n) ==
  LET after[i \in Nat] == IF i = 0 THEN s ELSE send_round(after[i - 1])
  IN  after[n]

\* Every round but the last sends at least one byte of the stream.
fill_window(s) ==
  IF s.next_seqno = 0 THEN send(s, [TS!New EXCEPT !.syn = TRUE])
  ELSE IF s.next_seqno = s.bytes_in_flight THEN s
  ELSE send_rounds(s, BS!buffer_size(s.stream) + 2)

\* Mutant: a segment counts as acknowledged when its first byte is.
fully_acknowledged_in_part(s, seg) ==
  WI!unwrap(seg.seqno, s.isn, s.previous_ackno) < s.previous_ackno

\* Is the segment covered by the acknowledgment s.previous_ackno?
fully_acknowledged(s, seg) ==
  WI!unwrap(seg.seqno, s.isn, s.previous_ackno)
    + TS!length_in_sequence_space(seg) <= s.previous_ackno

\* What the first n segments take up in the space of sequence numbers.
length_of_first(segs, n) ==
  LET sum[i \in Nat] ==
        IF i = 0 THEN 0 ELSE sum[i - 1] + TS!length_in_sequence_space(segs[i])
  IN  sum[n]

\* How many segments at the front of the queue are acknowledged.
acknowledged_segments(s) ==
  LET out == s.outstanding_segments
  IN  CHOOSE n \in 0 .. Len(out) :
        /\ \A i \in 1 .. n : fully_acknowledged(s, out[i])
        /\ n < Len(out) => ~fully_acknowledged(s, out[n + 1])

\* The loop that pops the acknowledged segments off the front of the queue.
pop_acknowledged(s) ==
  LET n == acknowledged_segments(s)
  IN  [s EXCEPT
        !.outstanding_segments = SubSeq(@, n + 1, Len(@)),
        !.bytes_in_flight = @ - length_of_first(s.outstanding_segments, n)]

restart(timer) == RT!start(RT!stop(timer))

\* The timer runs for what is still outstanding.
timed(s) ==
  [s EXCEPT !.retx_timer =
     IF s.outstanding_segments # << >> THEN restart(@) ELSE RT!stop(@)]

\* The window is taken from every acknowledgment, also from one that is
\* ignored because it is impossible or acknowledges nothing new.
ack_received(s, ackno, window_size) ==
  LET unwrapped == WI!unwrap(ackno, s.isn, s.previous_ackno)
      seen      == [s EXCEPT !.window_size = window_size]
      acked     == pop_acknowledged(
                     [seen EXCEPT !.previous_ackno = unwrapped,
                                  !.retx_timer = restart(RT!set_rto_init(@))])
  IN  IF unwrapped > s.next_seqno \/ unwrapped <= s.previous_ackno THEN seen
      ELSE timed(fill_window([acked EXCEPT !.consecutive_retransmissions = 0]))

\* Mutant: nothing is sent again.
resend_nothing(s) == s

\* The oldest outstanding segment goes out again.
resend(s) ==
  IF s.outstanding_segments = << >> THEN s
  ELSE [s EXCEPT !.segments_out = Append(@, Head(s.outstanding_segments))]

tick(s, ms) ==
  LET ticked == [s EXCEPT !.retx_timer = RT!tick(@, ms)]
      resent == resend(ticked)
      backed_off ==
        IF s.window_size = 0 THEN resent
        ELSE [resent EXCEPT !.consecutive_retransmissions = @ + 1,
                            !.retx_timer = RT!double_rto(@)]
  IN  IF RT!is_expired(s.retx_timer, ms)
      THEN [backed_off EXCEPT !.retx_timer = restart(@)]
      ELSE ticked

send_empty_segment(s) ==
  [s EXCEPT !.segments_out = Append(@, [TS!New EXCEPT !.seqno = next_seqno(s)])]
=============================================================================
