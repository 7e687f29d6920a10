--------------------------- MODULE TCPConnection ---------------------------
(***************************************************************************)
(* The class TCPConnection (libsponge/tcp_connection.hh,                   *)
(* tcp_connection.cc): one endpoint.  It passes segments to its receiver   *)
(* and its sender, stamps what the sender queues with the receiver's       *)
(* acknowledgment and window, and decides when the connection is over.     *)
(***************************************************************************)
EXTENDS Integers, Sequences, SequencesExt

CONSTANTS
  U64,                \* 2^64
  Modulus,            \* 2^32
  MAX_PAYLOAD_SIZE,   \* TCPConfig::MAX_PAYLOAD_SIZE
  MAX_RETX_ATTEMPTS,  \* TCPConfig::MAX_RETX_ATTEMPTS
  MAX_WINDOW          \* numeric_limits<uint16_t>::max()

TX == INSTANCE TCPSender
RX == INSTANCE TCPReceiver
BS == INSTANCE ByteStream
TS == INSTANCE TCPSegment
WI == INSTANCE WrappingIntegers

New(recv_capacity, send_capacity, rt_timeout, fixed_isn) ==
  [ receiver     |-> RX!New(recv_capacity),
    sender       |-> TX!New(send_capacity, rt_timeout, fixed_isn),
    segments_out |-> << >>,
    linger_after_streams_finish      |-> TRUE,
    time_since_last_segment_received |-> 0,
    active       |-> TRUE,
    is_fin_sent  |-> FALSE,
    is_fin_acked |-> FALSE,
    linger_time  |-> 10 * rt_timeout ]

inbound(c) == RX!stream_out(c.receiver)
outbound(c) == c.sender.stream

\* The header fields that flush_sender() takes from the receiver.
stamped(c, seg) ==
  LET win  == BS!Smaller(RX!window_size(c.receiver), MAX_WINDOW)
      open == [seg EXCEPT !.win = win]
  IN  IF RX!has_ackno(c.receiver)
      THEN [open EXCEPT !.ack = TRUE, !.ackno = RX!ackno(c.receiver)]
      ELSE open

flush_sender(c) ==
  LET out == c.sender.segments_out
  IN  [c EXCEPT
        !.segments_out = @ \o [i \in DOMAIN out |-> stamped(c, out[i])],
        !.is_fin_sent  = @ \/ \E i \in DOMAIN out : out[i].fin,
        !.sender.segments_out = << >>]

\* Both streams fail and the connection is dead.
abort(c) ==
  [c EXCEPT !.sender.stream = BS!set_error(@),
            !.receiver.reassembler.output = BS!set_error(@),
            !.active = FALSE]

\* What waits in the sender's queue is dropped; the RST carries neither
\* acknowledgment nor window.
send_rst(c) ==
  LET rst == [TS!New EXCEPT !.seqno = TX!next_seqno(c.sender), !.rst = TRUE]
  IN  [abort(c) EXCEPT !.sender.segments_out = << >>,
                       !.segments_out = Append(@, rst)]

fill_and_flush(c) ==
  flush_sender([c EXCEPT !.sender = TX!fill_window(@)])

connect(c) == fill_and_flush([c EXCEPT !.active = TRUE])

write(c, data) == fill_and_flush([c EXCEPT !.sender.stream = BS!write(@, data)])

end_input_stream(c) ==
  fill_and_flush([c EXCEPT !.sender.stream = BS!end_input(@)])

\* The receiver, the sender and the sender's window, in the code's order.
received(c, seg) == [c EXCEPT !.receiver = RX!segment_received(@, seg)]

acknowledged(c, seg) ==
  IF seg.ack
  THEN [c EXCEPT !.sender = TX!ack_received(@, seg.ackno, seg.win)]
  ELSE c

filled(c) ==
  IF RX!has_ackno(c.receiver) THEN [c EXCEPT !.sender = TX!fill_window(@)] ELSE c

passed_on(c, seg) == filled(acknowledged(received(c, seg), seg))

\* Mutant: the end that the peer closed first lingers too.
closing_lingers(c, seg) ==
  IF c.is_fin_sent /\ seg.ackno = TX!next_seqno(c.sender)
  THEN [c EXCEPT !.is_fin_acked = TRUE]
  ELSE c

\* After our FIN: is it acknowledged, and was that the last thing to wait
\* for?  Before it: did the peer end its stream first?  The header's ackno is
\* compared whether or not the ACK flag is set.
closing(c, seg) ==
  IF c.is_fin_sent
  THEN IF seg.ackno = TX!next_seqno(c.sender)
       THEN [c EXCEPT !.is_fin_acked = TRUE,
                      !.active = @ /\ c.linger_after_streams_finish]
       ELSE c
  ELSE [c EXCEPT !.linger_after_streams_finish = @ /\ ~inbound(c).is_input_ended]

\* A bare acknowledgment of what took up sequence numbers, and the answer to
\* a keep-alive.
replied(c, seg) ==
  LET length == TS!length_in_sequence_space(seg)
      keep_alive == /\ RX!has_ackno(c.receiver)
                    /\ length = 0
                    /\ seg.seqno = WI!plus(RX!ackno(c.receiver), Modulus - 1)
  IN  IF (length > 0 /\ c.sender.segments_out = << >>) \/ keep_alive
      THEN [c EXCEPT !.sender = TX!send_empty_segment(@)]
      ELSE c

segment_received(c, seg) ==
  LET heard == [c EXCEPT !.time_since_last_segment_received = 0]
  IN  CASE ~c.active /\ seg.syn ->
             [heard EXCEPT !.active = TRUE,
                           !.receiver = RX!segment_received(@, seg)]
        [] ~c.active /\ ~seg.syn -> heard
        [] c.active /\ seg.rst -> abort(heard)
        [] c.active /\ ~seg.rst ->
             flush_sender(replied(closing(passed_on(heard, seg), seg), seg))

\* The time is only ever compared with linger_time, so it stops there.
elapsed(c, ms) ==
  [c EXCEPT !.time_since_last_segment_received = BS!Smaller(@ + ms, c.linger_time),
            !.sender = TX!tick(@, ms)]

\* Mutant: the inbound stream is not waited for.
clean_shutdown_one_way(c) ==
  /\ c.is_fin_acked
  /\ \/ ~c.linger_after_streams_finish
     \/ c.time_since_last_segment_received >= c.linger_time

\* The clean shutdown.
clean_shutdown(c) ==
  /\ inbound(c).is_input_ended
  /\ c.is_fin_acked
  /\ \/ ~c.linger_after_streams_finish
     \/ c.time_since_last_segment_received >= c.linger_time

tick(c, ms) ==
  LET late == elapsed(c, ms)
  IN  IF late.sender.consecutive_retransmissions > MAX_RETX_ATTEMPTS
      THEN send_rst(late)
      ELSE flush_sender([late EXCEPT !.active = @ /\ ~clean_shutdown(late)])

\* The destructor.
destroy(c) == IF c.active THEN send_rst(c) ELSE c
=============================================================================
