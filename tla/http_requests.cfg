SPECIFICATION FairSpec
CONSTANTS
  Streams <- TwoRequests
  PARSER_BLOCK_SIZE = 3
  SCRATCH_SIZE = 7
  PURGE_BUF_LEN = 2
  RESP_HDRS = 1
INVARIANTS
  TypeOK
  WellRead
  HeadersAvailable
PROPERTIES
  ImplementsStream
  RequestAnswered
\* A session that is closed does nothing more.
CHECK_DEADLOCK FALSE
