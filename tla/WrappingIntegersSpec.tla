------------------------ MODULE WrappingIntegersSpec ------------------------
(***************************************************************************)
(* How the two ends of a stream use the wrapping numbers: the sender is at *)
(* absolute number `seqno` and puts wrap(seqno) in a header, the receiver  *)
(* recovers it relative to its own position `checkpoint`.  Both move on    *)
(* while the 32-bit numbers wrap around any number of times.               *)
(***************************************************************************)
EXTENDS WrappingIntegers

CONSTANT MaxSeqno   \* bound on the absolute numbers

ASSUME MaxSeqnoAssumption == MaxSeqno \in Nat

VARIABLES
  isn,         \* the initial sequence number
  seqno,       \* the sender's absolute number
  header,      \* the number in the header it last sent
  checkpoint   \* the receiver's absolute number

vars == <<isn, seqno, header, checkpoint>>

TypeOK ==
  /\ isn \in Wrapping
  /\ seqno \in 0 .. MaxSeqno
  /\ header \in Wrapping
  /\ checkpoint \in 0 .. MaxSeqno

Init ==
  /\ isn \in Wrapping
  /\ seqno = 0
  /\ header = wrap(seqno, isn)
  /\ checkpoint = 0

Send ==
  /\ seqno < MaxSeqno
  /\ seqno' = seqno + 1
  /\ header' = wrap(seqno', isn)
  /\ UNCHANGED <<isn, checkpoint>>

Advance ==
  /\ checkpoint < MaxSeqno
  /\ checkpoint' = checkpoint + 1
  /\ UNCHANGED <<isn, seqno, header>>

Next == Send \/ Advance

Spec == Init /\ [][Next]_vars

Distance(a, b) == IF a >= b THEN a - b ELSE b - a

Recovered == unwrap(header, isn, checkpoint)
-----------------------------------------------------------------------------
(* wrapping_integers.hh, line 30: "the absolute sequence number that wraps *)
(* to `n` and is closest to `checkpoint`", for every n and checkpoint, the *)
(* first lap, where there is nothing below zero, included.  So unwrap()    *)
(* inverts wrap() whenever the two ends are less than half a lap apart.    *)
ClosestToCheckpoint ==
  /\ wrap(Recovered, isn) = header
  /\ Distance(Recovered, checkpoint) <= Distance(seqno, checkpoint)
=============================================================================
