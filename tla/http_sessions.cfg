SPECIFICATION FairSpec
CONSTANTS
  MaxConns = 3
  max_open_sockets = 2
  lru_purge_enable = TRUE
  backlog_conn = 1
  MaxMessages = 2
  Prompt = TRUE
  MaxRequests = 3
  Bodies = FALSE
INVARIANTS
  TypeOK
  OneSessionEach
PROPERTIES
  PurgesLru
  MakesRoom
  RequestsRead
  StopEnds
\* After httpd_stop and with every connection used, nothing is left to do.
CHECK_DEADLOCK FALSE
