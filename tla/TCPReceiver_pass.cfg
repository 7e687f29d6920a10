CONSTANTS
  U64 = 1000000
  Modulus = 32
  Capacity = 4
  StreamLen = 8
  MaxPayload = 3
  Isns = {0, 28}
  BeyondWindow = FALSE
  EndOvertakes = FALSE
SPECIFICATION Spec
INVARIANTS AckOnlyWhatArrived AcknoDecodes InOrderOutput
PROPERTIES WindowNeverShrinks
