SPECIFICATION FairSpec
CONSTANTS
  Clients = {c1, c2}
  Ifs = {if1, if2}
  BadIf = if0
  Null = Null
  MAX_CLIENTS = 1
  MaxAppId = 2
  Calls = {"connect", "disconnect", "write"}
  MaxCalls = 2
  MaxPending = 3
  MaxEvents = 2
  MaxNotes = 1
  Timeouts <- NotRegister
  Refused <- AllRequests
  Failing <- AllRequests
INVARIANTS
  TypeOK
  RegistryOwnsClient
  HookFramed
  EventsReachTheirOwner
PROPERTIES
  SessionEnds
