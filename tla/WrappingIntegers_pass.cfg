CONSTANTS
  Modulus = 8
  MaxSeqno = 28
SPECIFICATION Spec
INVARIANT ClosestToCheckpoint
CHECK_DEADLOCK FALSE
