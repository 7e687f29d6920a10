CONSTANTS
  U64 = 1000000
  Modulus = 32
  MAX_PAYLOAD_SIZE = 2
  MAX_RETX_ATTEMPTS = 2
  MAX_WINDOW = 100
  RecvCapacity = 2
  SendCapacity = 2
  RtTimeout = 1
  TickMs = 1
  Prompt = TRUE
  MayAbort = FALSE
  Isn <- MCIsn
  Networks <- MCNetworks
SPECIFICATION FairSpec
CHECK_DEADLOCK FALSE
INVARIANTS ForgottenIsReceived DoneMeansDone
PROPERTIES BothStreams FollowsRFC793 BothFinish
