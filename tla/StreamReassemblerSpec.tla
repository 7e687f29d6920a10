----------------------- MODULE StreamReassemblerSpec -----------------------
(***************************************************************************)
(* One StreamReassembler between a sender of substrings, which may repeat, *)
(* overlap and reorder them, and a reader of the output stream.  The byte  *)
(* with stream index i is the number i.                                    *)
(*                                                                         *)
(* Two constants describe what the sender of the substrings may do.  When  *)
(* both are FALSE it stays within the window the receiver advertises and   *)
(* its bare end mark does not overtake data; the code relies on both.      *)
(***************************************************************************)
EXTENDS StreamReassembler

CONSTANTS
  Capacity,        \* the argument of the constructor
  StreamLen,       \* the length of the stream
  MaxChunk,        \* the longest substring, and the longest read
  BeyondWindow,    \* may a substring start beyond the window's right edge?
  EndOvertakes     \* may an empty substring with eof arrive before the data?

ASSUME ReassemblerAssumption ==
  /\ Capacity \in Nat \ {0}
  /\ StreamLen \in Nat
  /\ MaxChunk \in Nat
  /\ BeyondWindow \in BOOLEAN
  /\ EndOvertakes \in BOOLEAN

VARIABLE r   \* the object

vars == <<r>>

Byte == 0 .. StreamLen - 1

TypeOK ==
  /\ r.output \in BS!Type(Byte)
  /\ r.output.total_capacity = Capacity
  /\ r.capacity = Capacity
  /\ r.unassembled_buffer \in [0 .. Capacity - 1 -> Byte \cup {Blank}]
  /\ r.occupied \in [0 .. Capacity - 1 -> BOOLEAN]
  /\ r.seperator \in 0 .. Capacity - 1
  /\ r.first_unassembled_index \in Nat
  /\ r.unassembled_bytes \in Nat
  /\ r.is_eof_data_received \in BOOLEAN

Init == r = New(Capacity)

Substring(index, len) == [i \in 1 .. len |-> index + i - 1]

\* The first stream index beyond the advertised window.
WindowEdge == r.first_unassembled_index + BS!remaining_capacity(r.output)

Push(index, len, eof) ==
  /\ index + len <= StreamLen
  /\ eof => index + len = StreamLen
  /\ BeyondWindow \/ index <= WindowEdge
  /\ EndOvertakes \/ ~eof \/ len > 0 \/ index <= r.first_unassembled_index
  /\ r' = push_substring(r, Substring(index, len), index, eof)

Read(n) == r' = [r EXCEPT !.output = BS!pop_output(@, n)]

Next ==
  \/ \E index \in 0 .. StreamLen, len \in 0 .. MaxChunk, eof \in BOOLEAN :
        Push(index, len, eof)
  \/ \E n \in 1 .. MaxChunk : Read(n)

Spec == Init /\ [][Next]_vars

\* The oldest part that is still missing, as long as a substring can be.
Oldest ==
  LET first == r.first_unassembled_index
  IN  Substring(first, BS!Smaller(MaxChunk, StreamLen - first))

\* The object after that part has been pushed, at the end with eof.
OldestPushed ==
  LET first == r.first_unassembled_index
  IN  push_substring(r, Oldest, first, first + Len(Oldest) = StreamLen)

PushOldest == r' = OldestPushed

\* The peer retransmits its oldest outstanding segment until it is
\* acknowledged, and the owner of the stream keeps reading it: weak fairness of
\* PushOldest and of Read(MaxChunk), where the steps that change the object
\* stand for their ENABLED.
FairSpec ==
  /\ Spec
  /\ []<>(OldestPushed = r) \/ []<><<PushOldest>>_vars
  /\ []<>(r.output.buffer = << >>) \/ []<><<Read(MaxChunk)>>_vars
-----------------------------------------------------------------------------
(* The output stream is the stream itself: whatever the order, overlap and *)
(* repetition of the substrings and however the reader interleaves, the    *)
(* buffered bytes are the ones that follow the bytes already read, and no  *)
(* byte counted as assembled was dropped by _output.write().               *)
InOrderOutput ==
  /\ r.output.total_written_bytes = r.first_unassembled_index
  /\ r.output.total_written_bytes =
       r.output.total_read_bytes + BS!buffer_size(r.output)
  /\ \A i \in DOMAIN r.output.buffer :
        r.output.buffer[i] = r.output.total_read_bytes + i - 1

(* Every byte that waits in the ring lies in the slot of its index, inside *)
(* the window, and the next expected byte never waits; so the separator,   *)
(* the window and the ring agree after every wrap-around.                  *)
RingMatchesStream ==
  \A k \in 0 .. Capacity - 1 :
    r.occupied[slot(r, k)] =>
      /\ k > 0
      /\ k < BS!remaining_capacity(r.output)
      /\ r.unassembled_buffer[slot(r, k)] = r.first_unassembled_index + k

(* stream_reassembler.hh, lines 32-33 and 54-55: the capacity limits the   *)
(* assembled and the waiting bytes together, and a byte pushed more than   *)
(* once counts once.                                                       *)
CapacityRespected ==
  /\ r.unassembled_bytes = Cardinality({b \in Slots(r) : r.occupied[b]})
  /\ BS!buffer_size(r.output) + r.unassembled_bytes <= Capacity

(* stream_reassembler.hh, line 43: "the last byte of `data` will be the    *)
(* last byte in the entire stream".  So the output ends only when every    *)
(* byte of the stream has been written to it.                              *)
EndOnlyAfterLastByte ==
  r.output.is_input_ended =>
    r.output.total_written_bytes = StreamLen /\ r.unassembled_bytes = 0

(* eof() of the output is cached in is_eof and refreshed in two places     *)
(* only, pop_output() and end_input(); the cached value is right all the   *)
(* same in every order of partial writes, reads and the end.               *)
EofExact ==
  r.output.is_eof <=> r.output.is_input_ended /\ r.output.buffer = << >>

(* A byte that was accepted out of order is not lost: it waits until it is *)
(* assembled, whatever is pushed or read in between.                       *)
StoredBytesAreKept ==
  [][ \A k \in 0 .. Capacity - 1 :
        r.occupied[slot(r, k)] =>
          LET index == r.first_unassembled_index + k
              k2    == index - r'.first_unassembled_index
          IN  \/ index < r'.first_unassembled_index
              \/ /\ r'.occupied[slot(r', k2)]
                 /\ r'.unassembled_buffer[slot(r', k2)] = index ]_vars

(* With retransmission and a reader, the whole stream gets through a       *)
(* reassembler of any capacity, and its end is reported.                   *)
WholeStreamDelivered ==
  <>(r.output.is_eof /\ r.output.total_read_bytes = StreamLen)
=============================================================================
