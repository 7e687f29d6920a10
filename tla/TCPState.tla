------------------------------ MODULE TCPState ------------------------------
(***************************************************************************)
(* The class TCPState (libsponge/tcp_helpers/tcp_state.hh, tcp_state.cc)   *)
(* and TCPConnection::state(): a connection summarized by what its sender  *)
(* and its receiver look like from outside, with the bits `active` and     *)
(* `linger`, and the official states of RFC 793 in the same terms.         *)
(***************************************************************************)
EXTENDS TCPConnection

summary(sender, receiver, active, linger) ==
  [sender |-> sender, receiver |-> receiver, active |-> active, linger |-> linger]

\* TCPState(State).
Official ==
  [ LISTEN      |-> summary("CLOSED", "LISTEN", TRUE, TRUE),
    SYN_RCVD    |-> summary("SYN_SENT", "SYN_RECV", TRUE, TRUE),
    SYN_SENT    |-> summary("SYN_SENT", "LISTEN", TRUE, TRUE),
    ESTABLISHED |-> summary("SYN_ACKED", "SYN_RECV", TRUE, TRUE),
    CLOSE_WAIT  |-> summary("SYN_ACKED", "FIN_RECV", TRUE, FALSE),
    LAST_ACK    |-> summary("FIN_SENT", "FIN_RECV", TRUE, FALSE),
    CLOSING     |-> summary("FIN_SENT", "FIN_RECV", TRUE, TRUE),
    FIN_WAIT_1  |-> summary("FIN_SENT", "SYN_RECV", TRUE, TRUE),
    FIN_WAIT_2  |-> summary("FIN_ACKED", "SYN_RECV", TRUE, TRUE),
    TIME_WAIT   |-> summary("FIN_ACKED", "FIN_RECV", TRUE, TRUE),
    RESET       |-> summary("ERROR", "ERROR", FALSE, FALSE),
    CLOSED      |-> summary("FIN_ACKED", "FIN_RECV", FALSE, FALSE) ]

\* state_summary(TCPReceiver).
receiver_summary(receiver) ==
  LET out == RX!stream_out(receiver)
  IN  CASE out.error -> "ERROR"
        [] ~out.error /\ ~RX!has_ackno(receiver) -> "LISTEN"
        [] ~out.error /\ RX!has_ackno(receiver) ->
             IF out.is_input_ended THEN "FIN_RECV" ELSE "SYN_RECV"

\* state_summary(TCPSender).
sender_summary(sender) ==
  LET in   == sender.stream
      next == sender.next_seqno
  IN  CASE in.error -> "ERROR"
        [] ~in.error /\ next = 0 -> "CLOSED"
        [] ~in.error /\ next > 0 /\ next = sender.bytes_in_flight -> "SYN_SENT"
        [] ~in.error /\ next > 0 /\ next # sender.bytes_in_flight ->
             IF ~in.is_eof \/ next < in.total_written_bytes + 2 THEN "SYN_ACKED"
             ELSE IF sender.bytes_in_flight > 0 THEN "FIN_SENT" ELSE "FIN_ACKED"

\* TCPConnection::state().
state(c) ==
  summary(sender_summary(c.sender), receiver_summary(c.receiver), c.active,
          c.active /\ c.linger_after_streams_finish)

\* The official states that a connection is in: at most one.
StateNames(c) ==
  LET now == state(c)
  IN  {name \in DOMAIN Official : Official[name] = now}
=============================================================================
