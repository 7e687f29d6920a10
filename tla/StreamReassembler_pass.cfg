CONSTANTS
  U64 = 1000000
  Capacity = 6
  StreamLen = 14
  MaxChunk = 4
  BeyondWindow = FALSE
  EndOvertakes = FALSE
SPECIFICATION FairSpec
INVARIANTS TypeOK InOrderOutput RingMatchesStream CapacityRespected EndOnlyAfterLastByte EofExact
PROPERTIES StoredBytesAreKept WholeStreamDelivered
