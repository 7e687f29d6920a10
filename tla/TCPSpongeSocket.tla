-------------------------- MODULE TCPSpongeSocket --------------------------
(***************************************************************************)
(* The TCPConnection thread of a TCPSpongeSocket                           *)
(* (libsponge/tcp_helpers/tcp_sponge_socket.hh, tcp_sponge_socket.cc): the *)
(* four rules of _initialize_TCP() as parameters of an EventLoop.          *)
(*                                                                         *)
(* The world of the rules is the record w of the members they use, the two *)
(* queues of the socket pair (up: from the owner, down: to the owner), the *)
(* datagrams that have arrived at the adapter and those it has sent.       *)
(***************************************************************************)
EXTENDS TCPState

CONSTANT PipeSize

SP == INSTANCE SocketPair

NewSocket(tcp) ==
  [ tcp |-> tcp, thread_data_eof |-> FALSE, inbound_shutdown |-> FALSE,
    outbound_shutdown |-> FALSE, threw |-> FALSE,
    up |-> SP!New, down |-> SP!New, arrived |-> << >>, sent |-> << >> ]

\* Rule 1: an incoming datagram.
receive_datagram(w) ==
  [w EXCEPT !.tcp = segment_received(@, Head(w.arrived)), !.arrived = Tail(@)]

\* Mutant: the connection is not told.
end_outbound_silently(w) == [w EXCEPT !.outbound_shutdown = TRUE]

\* The cancel closure of rule 2, and the end of its callback.
end_outbound(w) ==
  [w EXCEPT !.tcp = end_input_stream(@), !.outbound_shutdown = TRUE]

\* What the callback of rule 2 does when it has read.
noticing_eof(w) == IF w.thread_data_eof THEN end_outbound(w) ELSE w

\* Rule 2: from the pipe into the outbound stream.
from_pipe(w) ==
  LET room == BS!remaining_capacity(outbound(w.tcp))
      data == SP!read(w.up, room)
  IN  noticing_eof([w EXCEPT
        !.up  = SP!after_read(@, room),
        !.tcp = write(@, data),
        !.threw = BS!written_bytes(outbound(w.tcp), data) # Len(data),
        !.thread_data_eof = @ \/ SP!reads_eof(w.up, room)])

\* Mutants: what the pipe did not take is popped too, and the pipe is shut
\* when the last byte has arrived instead of when it has been written.
into_pipe_all(w) ==
  LET data  == inbound(w.tcp).buffer
      after == BS!pop_output(inbound(w.tcp), Len(data))
      down  == SP!after_write(w.down, data)
  IN  [w EXCEPT !.tcp.receiver.reassembler.output = after,
                !.down = IF after.is_eof THEN SP!shutdown(down) ELSE down,
                !.inbound_shutdown = @ \/ after.is_eof]
into_pipe_input_ended(w) ==
  LET data  == inbound(w.tcp).buffer
      after == BS!pop_output(inbound(w.tcp), SP!bytes_written(w.down, data))
      down  == SP!after_write(w.down, data)
  IN  IF SP!write_fails(w.down, data)
      THEN [w EXCEPT !.threw = TRUE]
      ELSE [w EXCEPT !.tcp.receiver.reassembler.output = after,
                     !.down = IF after.is_input_ended THEN SP!shutdown(down) ELSE down,
                     !.inbound_shutdown = @ \/ after.is_input_ended]

\* Rule 3: from the inbound stream into the pipe.
into_pipe(w) ==
  LET data  == inbound(w.tcp).buffer
      after == BS!pop_output(inbound(w.tcp), SP!bytes_written(w.down, data))
      over  == after.is_eof \/ after.error
      down  == SP!after_write(w.down, data)
  IN  IF SP!write_fails(w.down, data)
      THEN [w EXCEPT !.threw = TRUE]
      ELSE [w EXCEPT !.tcp.receiver.reassembler.output = after,
                     !.down = IF over THEN SP!shutdown(down) ELSE down,
                     !.inbound_shutdown = @ \/ over]

\* Rule 4: outgoing segments.
send_datagrams(w) ==
  [w EXCEPT !.sent = @ \o w.tcp.segments_out, !.tcp.segments_out = << >>]

callback(w, rule) ==
  CASE rule = 1 -> receive_datagram(w)
    [] rule = 2 -> from_pipe(w)
    [] rule = 3 -> into_pipe(w)
    [] rule = 4 -> send_datagrams(w)

\* Mutant: no rule outlives the connection.
interest_while_active(w, rule) ==
  w.tcp.active /\ (CASE rule = 1 -> TRUE
    [] rule = 2 -> ~w.outbound_shutdown /\ BS!remaining_capacity(outbound(w.tcp)) > 0
    [] rule = 3 -> inbound(w.tcp).buffer # << >> \/ (inbound(w.tcp).is_eof /\ ~w.inbound_shutdown)
    [] rule = 4 -> w.tcp.segments_out # << >>)

interest(w, rule) ==
  CASE rule = 1 -> w.tcp.active
    [] rule = 2 -> /\ w.tcp.active
                   /\ ~w.outbound_shutdown
                   /\ BS!remaining_capacity(outbound(w.tcp)) > 0
    [] rule = 3 -> \/ inbound(w.tcp).buffer # << >>
                   \/ /\ inbound(w.tcp).is_eof \/ inbound(w.tcp).error
                      /\ ~w.inbound_shutdown
    [] rule = 4 -> w.tcp.segments_out # << >>

cancel(w, rule) == IF rule = 2 THEN end_outbound(w) ELSE w

Over(w, rule) == rule = 2 /\ w.thread_data_eof

Ready(w, rule) ==
  CASE rule = 1 -> w.arrived # << >>
    [] rule = 2 -> SP!readable(w.up)
    [] rule = 3 -> SP!writable(w.down)
    [] rule = 4 -> TRUE

HungUp(w, rule) == rule \in {2, 3} /\ SP!hung_up(w.up, w.down)

Services(w, rule) == rule = 4 => w.tcp.segments_out # << >>

EL == INSTANCE EventLoop
=============================================================================
