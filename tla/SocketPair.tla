----------------------------- MODULE SocketPair -----------------------------
(***************************************************************************)
(* What FileDescriptor and LocalStreamSocket ask of the kernel: a pair of  *)
(* connected stream sockets between the owner of a TCPSpongeSocket and its *)
(* TCPConnection thread.  A pair is two bounded queues, one for each       *)
(* direction.  A queue that is shut takes no more bytes, and its reader    *)
(* finds the end when it is empty.                                         *)
(***************************************************************************)
EXTENDS Naturals, Sequences

CONSTANT PipeSize

Smaller(a, b) == IF a < b THEN a ELSE b

New == [queue |-> << >>, shut |-> FALSE]

\* poll(): POLLIN, POLLOUT, and POLLHUP of either end of the pair <<q, r>>.
readable(q) == q.queue # << >> \/ q.shut
writable(q) == Len(q.queue) < PipeSize
hung_up(q, r) == q.shut /\ r.shut

\* FileDescriptor::read(limit) of what poll() found readable.
read(q, limit) == SubSeq(q.queue, 1, Smaller(limit, Len(q.queue)))
after_read(q, limit) ==
  [q EXCEPT !.queue = SubSeq(@, Len(read(q, limit)) + 1, Len(@))]
reads_eof(q, limit) == limit > 0 /\ q.queue = << >>

\* FileDescriptor::write(data, false) takes what there is room for.  It fails
\* with EPIPE or EAGAIN, unless there is nothing to write.
bytes_written(q, data) == Smaller(Len(data), PipeSize - Len(q.queue))
after_write(q, data) ==
  [q EXCEPT !.queue = @ \o SubSeq(data, 1, bytes_written(q, data))]
write_fails(q, data) == data # << >> /\ (q.shut \/ ~writable(q))

\* shutdown() of the writing end.
shutdown(q) == [q EXCEPT !.shut = TRUE]
=============================================================================
