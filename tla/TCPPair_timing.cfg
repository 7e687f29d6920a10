CONSTANTS
  U64 = 1000000
  Modulus = 32
  MAX_PAYLOAD_SIZE = 2
  MAX_RETX_ATTEMPTS = 1
  MAX_WINDOW = 100
  RecvCapacity = 2
  SendCapacity = 2
  RtTimeout = 1
  TickMs = 5
  Prompt = FALSE
  MayAbort = TRUE
  Isn <- MCIsn
  Networks <- MCLossy
SPECIFICATION Spec
CHECK_DEADLOCK FALSE
INVARIANTS DoneMeansDone
PROPERTIES BothStreams
