CONSTANTS
  U64 = 1000000
  Modulus = 16
  MAX_PAYLOAD_SIZE = 2
  Isn = 14
  Capacity = 3
  StreamLen = 4
  InitRto = 2
  Ticks = {1, 3}
  MaxRetx = 2
  MaxWindow = 3
SPECIFICATION Spec
INVARIANTS TypeOK OutstandingCoversUnacked StreamFullyCut TimerRunsIffOutstanding ExponentialBackoff DataWithinWindow
PROPERTIES RetransmissionNotPutOff
