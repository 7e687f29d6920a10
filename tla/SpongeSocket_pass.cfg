CONSTANTS
  U64 = 1000000
  Modulus = 32
  MAX_PAYLOAD_SIZE = 2
  MAX_RETX_ATTEMPTS = 2
  MAX_WINDOW = 100
  RecvCapacity = 2
  SendCapacity = 1
  RtTimeout = 1
  PipeSize = 1
  CopyBuffer = 1
  Plans <- MCPlans
SPECIFICATION FairSpec
CHECK_DEADLOCK FALSE
INVARIANTS NothingIsThrown JoinedMeansComplete
PROPERTIES EndToEnd ProgramEnds
