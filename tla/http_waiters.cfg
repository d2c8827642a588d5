SPECIFICATION FairSpec
CONSTANTS
  MaxConns = 2
  max_open_sockets = 1
  lru_purge_enable = TRUE
  backlog_conn = 2
  MaxMessages = 2
  Prompt = TRUE
  MaxRequests = 1
  Bodies = FALSE
PROPERTIES
  WaitersAccepted
CHECK_DEADLOCK FALSE
