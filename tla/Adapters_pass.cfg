CONSTANTS
  ARP_REQ_TIME = 2
  CACHE_VALID_TIME = 3
  Stations <- MCStations
  Setups <- MCSetups
  Positions = {1, 2, 3, 4, 5, 6, 7, 8, 9, 10, 11, 12, 13, 14, 15, 16, 17, 18, 19, 20, 21, 22, 23, 24, 25, 26, 27, 28, 29, 30, 31, 32, 33, 34, 35, 36, 37, 38, 39, 40, 41, 42, 43, 44, 45, 46, 47, 48, 49, 50, 51, 52, 53, 54, 55, 56, 57}
  Changes = {1}
  Cuts = {1}
  MaxFaults = 1
  Bytes <- MCBytes
  U64 = 1000000
  Modulus = 65536
  MAX_PAYLOAD_SIZE = 4
  MAX_RETX_ATTEMPTS = 2
  MAX_WINDOW = 65535
SPECIFICATION Spec
INVARIANT OnlyThePeerIsHeard
PROPERTY Connects
