SPECIFICATION FairSpec
CONSTANTS
  Conns = {a, b, c}
  Limits <- EveryLimit
  MaxListed = 3
  MaxAvailable = 1
  MaxArrived = 2
INVARIANTS
  TypeOK
  SentOnce
  UartInOrder
  WithinMaxClients
PROPERTIES
  ChunkSent
