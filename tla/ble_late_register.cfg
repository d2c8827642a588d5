SPECIFICATION FairSpec
CONSTANTS
  Clients = {c1, c2}
  Ifs = {if1, if2}
  BadIf = if0
  Null = Null
  MAX_CLIENTS = 1
  MaxAppId = 2
  Calls = {"connect"}
  MaxCalls = 1
  MaxPending = 3
  MaxEvents = 2
  MaxNotes = 1
  Timeouts <- OnlyRegister
  Refused <- NoEvents
  Failing <- NoEvents
PROPERTIES
  SlotFreed
