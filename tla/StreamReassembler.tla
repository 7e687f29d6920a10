------------------------- MODULE StreamReassembler -------------------------
(***************************************************************************)
(* The class StreamReassembler (libsponge/stream_reassembler.hh,           *)
(* stream_reassembler.cc): turns substrings that arrive out of order into  *)
(* an in-order ByteStream.  Bytes that cannot be written yet wait in a     *)
(* ring buffer of `capacity` slots: the byte with stream index             *)
(* _first_unassembled_index + k belongs in slot (_seperator + k) %         *)
(* _capacity.                                                              *)
(*                                                                         *)
(* The index arithmetic is done in size_t, so a negative difference wraps  *)
(* to a value of 2^64 minus something; U64 stands for 2^64.                *)
(***************************************************************************)
EXTENDS Integers, Sequences, FiniteSets, FiniteSetsExt

CONSTANT U64

ASSUME U64Assumption == U64 \in Nat

BS == INSTANCE ByteStream

\* The character that fills the free slots; no byte number equals it.
Blank == -1

\* Unsigned subtraction.
minus(a, b) == IF b <= a THEN a - b ELSE U64 + a - b

New(capacity) ==
  [ output                 |-> BS!New(capacity),
    capacity               |-> capacity,
    unassembled_buffer     |-> [b \in 0 .. capacity - 1 |-> Blank],
    occupied               |-> [b \in 0 .. capacity - 1 |-> FALSE],
    seperator              |-> 0,
    first_unassembled_index |-> 0,
    unassembled_bytes      |-> 0,
    is_eof_data_received   |-> FALSE ]

Slots(r) == 0 .. r.capacity - 1

\* The slot that lies k places after the separator.
slot(r, k) == (r.seperator + k) % r.capacity

\* Mutant: bytes that wait to be read do not count.
bytes_can_be_stored_unread(r, data, index) ==
  BS!Smaller(Len(data), minus(r.capacity + r.first_unassembled_index, index))

\* store_data()'s return value, bytes_can_be_stored.
bytes_can_be_stored(r, data, index) ==
  BS!Smaller(Len(data),
             minus(r.capacity - BS!buffer_size(r.output)
                     + r.first_unassembled_index, index))

\* Mutant: bytes that were assembled before are not skipped.
stored_in_from_start(r, data, index, b) ==
  { i \in 0 .. bytes_can_be_stored(r, data, index) - 1 :
      slot(r, i + index - r.first_unassembled_index) = b }

\* The positions of data that the loop of store_data() visits and stores in
\* slot b.
stored_in(r, data, index, b) ==
  LET first == r.first_unassembled_index
      begin == IF index < first THEN first - index ELSE 0
  IN  { i \in begin .. bytes_can_be_stored(r, data, index) - 1 :
          slot(r, i + index - first) = b }

\* Mutants: nothing is counted, and a byte is counted again when it is
\* stored again.
newly_occupied_none(r, data, index) == 0
newly_occupied_again(r, data, index) ==
  Cardinality({b \in Slots(r) : stored_in(r, data, index, b) # {}})

\* How often the loop of store_data() finds a slot free.
newly_occupied(r, data, index) ==
  Cardinality({b \in Slots(r) : ~r.occupied[b] /\ stored_in(r, data, index, b) # {}})

\* The loop of store_data(): a slot that is visited more than once keeps the
\* byte of the last visit and is counted once.
store_data(r, data, index) ==
  LET hit(b) == stored_in(r, data, index, b)
  IN  [r EXCEPT
        !.unassembled_buffer =
          [b \in Slots(r) |-> IF hit(b) = {} THEN @[b]
                              ELSE data[Max(hit(b)) + 1]],
        !.occupied = [b \in Slots(r) |-> @[b] \/ hit(b) # {}],
        !.unassembled_bytes = @ + newly_occupied(r, data, index)]

\* How many slots the loop of write_to_output() empties: the run of occupied
\* slots that starts at the separator.  It stops after one lap, because it
\* clears the slots it has passed.
run_length(r) ==
  Min({c \in 0 .. r.capacity : c = r.capacity \/ ~r.occupied[slot(r, c)]})

\* Mutant: the separator stays where it is.
advanced_never(r, count) == r.seperator

\* The separator behind count more slots.
advanced(r, count) == slot(r, count)

write_to_output(r) ==
  LET count   == run_length(r)
      emptied == {slot(r, k) : k \in 0 .. count - 1}
      data    == [k \in 1 .. count |-> r.unassembled_buffer[slot(r, k - 1)]]
  IN  [r EXCEPT
        !.output = BS!write(@, data),
        !.unassembled_buffer =
          [b \in Slots(r) |-> IF b \in emptied THEN Blank ELSE @[b]],
        !.occupied = [b \in Slots(r) |-> @[b] /\ b \notin emptied],
        !.unassembled_bytes = @ - count,
        !.first_unassembled_index = @ + count,
        !.seperator = advanced(r, count)]

\* Mutants: the end counts although bytes before it were thrown away, and
\* an end without bytes does not count.
takes_eof_always(r, data, index, eof) == eof
takes_eof_with_data(r, data, index, eof) ==
  eof /\ Len(data) > 0 /\ bytes_can_be_stored(r, data, index) = Len(data)

\* The end counts when nothing of the data was thrown away.
takes_eof(r, data, index, eof) ==
  eof /\ bytes_can_be_stored(r, data, index) = Len(data)

push_substring(r, data, index, eof) ==
  LET stored  == [store_data(r, data, index) EXCEPT
                    !.is_eof_data_received = @ \/ takes_eof(r, data, index, eof)]
      written == write_to_output(stored)
  IN  IF written.is_eof_data_received /\ written.unassembled_bytes = 0
      THEN [written EXCEPT !.output = BS!end_input(@)]
      ELSE written
=============================================================================
