----------------------------- MODULE ByteStream -----------------------------
(***************************************************************************)
(* The class ByteStream (libsponge/byte_stream.hh, byte_stream.cc): a      *)
(* flow-controlled in-memory FIFO of bytes with a writer and a reader.     *)
(*                                                                         *)
(* An object is a record of the members of the class and a member function *)
(* is an operator from the object to the object it leaves behind, so that  *)
(* the classes that own a ByteStream can call several of its operations in *)
(* one atomic step, as their handlers do.                                  *)
(***************************************************************************)
EXTENDS Naturals, Sequences

Smaller(a, b) == IF a < b THEN a ELSE b

\* The constructor, with the default member initialisers.
New(capacity) ==
  [ buffer              |-> << >>,
    total_capacity      |-> capacity,
    is_input_ended      |-> FALSE,
    total_written_bytes |-> 0,
    total_read_bytes    |-> 0,
    is_eof              |-> FALSE,
    error               |-> FALSE ]

\* The set of all ByteStream objects whose bytes are drawn from Byte.
Type(Byte) ==
  [ buffer              : Seq(Byte),
    total_capacity      : Nat,
    is_input_ended      : BOOLEAN,
    total_written_bytes : Nat,
    total_read_bytes    : Nat,
    is_eof              : BOOLEAN,
    error               : BOOLEAN ]

buffer_size(s) == Len(s.buffer)

remaining_capacity(s) == s.total_capacity - buffer_size(s)

\* The value write() returns: how many bytes of data it accepts.
written_bytes(s, data) == Smaller(Len(data), remaining_capacity(s))

\* write() looks at the free space only: it accepts bytes after end_input()
\* too, and does not refresh is_eof when it does.
write(s, data) ==
  LET n == written_bytes(s, data)
  IN  [s EXCEPT !.buffer = @ \o SubSeq(data, 1, n),
                !.total_written_bytes = @ + n]

\* How many bytes a peek or a pop of len bytes covers.
covered(s, len) == Smaller(len, buffer_size(s))

peek_output(s, len) == SubSeq(s.buffer, 1, covered(s, len))

pop_output(s, len) ==
  LET n    == covered(s, len)
      read == s.total_read_bytes + n
  IN  [s EXCEPT !.buffer = SubSeq(@, n + 1, Len(@)),
                !.total_read_bytes = read,
                !.is_eof = IF s.is_input_ended
                           THEN s.total_written_bytes = read ELSE @]

\* Mutants: an end behind an empty buffer goes unnoticed, and an end is
\* reported while there are bytes to read.
end_input_without_eof(s) == [s EXCEPT !.is_input_ended = TRUE]
end_input_at_once(s) == [s EXCEPT !.is_input_ended = TRUE, !.is_eof = TRUE]

end_input(s) ==
  [s EXCEPT !.is_input_ended = TRUE,
            !.is_eof = s.total_written_bytes = s.total_read_bytes]

set_error(s) == [s EXCEPT !.error = TRUE]
=============================================================================
