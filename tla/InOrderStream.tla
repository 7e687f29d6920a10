--------------------------- MODULE InOrderStream ---------------------------
(***************************************************************************)
(* What every stage of the byte pipeline promises to the program at its    *)
(* far end: the bytes that come out are, in order and without a gap, the   *)
(* bytes that went in, and the end of the stream is reported only when it  *)
(* has been reached.  A ByteStream implements this module, and so does     *)
(* each direction of a pair of connected TCPConnections.                   *)
(***************************************************************************)
EXTENDS Sequences, SequencesExt

VARIABLES
  sent,       \* the bytes the writer has put in
  delivered,  \* the bytes the reader has taken out
  closed,     \* the writer has ended its input
  finished    \* the reader has been told that the stream is over

vars == <<sent, delivered, closed, finished>>

Init ==
  /\ sent = << >>
  /\ delivered = << >>
  /\ closed = FALSE
  /\ finished = FALSE

\* The end of the stream may be reported by any step after which nothing is
\* left to deliver and nothing more can be put in.
MayFinish ==
  \/ finished' = finished
  \/ finished' /\ closed' /\ delivered' = sent'

Accept ==
  /\ ~closed
  /\ IsStrictPrefix(sent, sent')
  /\ UNCHANGED <<delivered, closed, finished>>

Deliver ==
  /\ IsStrictPrefix(delivered, delivered')
  /\ IsPrefix(delivered', sent)
  /\ UNCHANGED <<sent, closed>>
  /\ MayFinish

Close ==
  /\ ~closed
  /\ closed' = TRUE
  /\ UNCHANGED <<sent, delivered>>
  /\ MayFinish

Finish ==
  /\ ~finished
  /\ UNCHANGED <<sent, delivered, closed>>
  /\ MayFinish

Next == Accept \/ Deliver \/ Close \/ Finish

Spec == Init /\ [][Next]_vars
=============================================================================
