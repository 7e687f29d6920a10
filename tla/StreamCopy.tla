----------------------------- MODULE StreamCopy -----------------------------
(***************************************************************************)
(* bidirectional_stream_copy() (apps/bidirectional_stream_copy.cc): the    *)
(* owner of a socket copies its standard input to the socket and the       *)
(* socket to its standard output, with four rules as parameters of an      *)
(* EventLoop.                                                              *)
(*                                                                         *)
(* The world is the record w of the function's variables, the two queues   *)
(* of the socket, what the standard input holds and what the standard      *)
(* output has shown.                                                       *)
(***************************************************************************)
EXTENDS Naturals, Sequences

CONSTANT PipeSize

SP == INSTANCE SocketPair
BS == INSTANCE ByteStream

New(buffer_size, input_is_pipe) ==
  [ outbound |-> BS!New(buffer_size), inbound |-> BS!New(buffer_size),
    outbound_shutdown |-> FALSE, inbound_shutdown |-> FALSE, threw |-> FALSE,
    input |-> SP!New, input_is_pipe |-> input_is_pipe, input_eof |-> FALSE, socket_eof |-> FALSE,
    output |-> << >>, output_closed |-> FALSE,
    up |-> SP!New, down |-> SP!New ]

\* Rule 1: from the standard input.
read_input(w) ==
  LET room == BS!remaining_capacity(w.outbound)
      eof  == SP!reads_eof(w.input, room)
      new  == BS!write(w.outbound, SP!read(w.input, room))
  IN  [w EXCEPT !.input = SP!after_read(@, room),
                !.input_eof = @ \/ eof,
                !.outbound = IF eof THEN BS!end_input(new) ELSE new]

\* Rule 2: to the socket.
write_socket(w) ==
  LET data  == w.outbound.buffer
      after == BS!pop_output(w.outbound, SP!bytes_written(w.up, data))
      up    == SP!after_write(w.up, data)
  IN  IF SP!write_fails(w.up, data)
      THEN [w EXCEPT !.threw = TRUE]
      ELSE [w EXCEPT !.outbound = after,
                     !.up = IF after.is_eof THEN SP!shutdown(up) ELSE up,
                     !.outbound_shutdown = @ \/ after.is_eof]

\* Rule 3: from the socket.
read_socket(w) ==
  LET room == BS!remaining_capacity(w.inbound)
      eof  == SP!reads_eof(w.down, room)
      new  == BS!write(w.inbound, SP!read(w.down, room))
  IN  [w EXCEPT !.down = SP!after_read(@, room),
                !.socket_eof = @ \/ eof,
                !.inbound = IF eof THEN BS!end_input(new) ELSE new]

\* Rule 4: to the standard output, which takes everything.
write_output(w) ==
  LET data  == w.inbound.buffer
      after == BS!pop_output(w.inbound, Len(data))
  IN  [w EXCEPT !.output = @ \o data,
                !.inbound = after,
                !.output_closed = @ \/ after.is_eof,
                !.inbound_shutdown = @ \/ after.is_eof]

callback(w, rule) ==
  CASE rule = 1 -> read_input(w)
    [] rule = 2 -> write_socket(w)
    [] rule = 3 -> read_socket(w)
    [] rule = 4 -> write_output(w)

\* Rules 1 and 3 fill a stream, rules 2 and 4 drain one.
has_room(s) == BS!remaining_capacity(s) > 0
has_output(s, shutdown) == s.buffer # << >> \/ (s.is_eof /\ ~shutdown)

interest(w, rule) ==
  CASE rule = 1 -> ~w.outbound.error /\ has_room(w.outbound) /\ ~w.inbound.error
    [] rule = 2 -> has_output(w.outbound, w.outbound_shutdown)
    [] rule = 3 -> ~w.inbound.error /\ has_room(w.inbound) /\ ~w.outbound.error
    [] rule = 4 -> has_output(w.inbound, w.inbound_shutdown)

cancel(w, rule) ==
  IF rule \in {1, 2} THEN [w EXCEPT !.outbound = BS!end_input(@)]
                     ELSE [w EXCEPT !.inbound = BS!end_input(@)]

Over(w, rule) ==
  \/ rule = 1 /\ w.input_eof
  \/ rule = 3 /\ w.socket_eof
  \/ rule = 4 /\ w.output_closed

\* The end of a terminal or a file is readable, that of a pipe is a hang-up.
Ready(w, rule) ==
  CASE rule = 1 -> w.input.queue # << >> \/ (w.input.shut /\ ~w.input_is_pipe)
    [] rule = 2 -> SP!writable(w.up)
    [] rule = 3 -> SP!readable(w.down)
    [] rule = 4 -> TRUE

HungUp(w, rule) ==
  \/ rule = 1 /\ w.input_is_pipe /\ w.input.shut
  \/ rule \in {2, 3} /\ SP!hung_up(w.up, w.down)

Services(w, rule) == TRUE

EL == INSTANCE EventLoop
=============================================================================
