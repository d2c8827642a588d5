SPECIFICATION FairSpec
CONSTANTS
  Clients = {c1, c2}
  Ifs = {if1, if2}
  BadIf = if0
  Null = Null
  MAX_CLIENTS = 1
  MaxAppId = 2
  Calls = {"connect", "disconnect", "write", "write_notify_desc"}
  MaxCalls = 3
  MaxPending = 2
  MaxEvents = 2
  MaxNotes = 1
  Timeouts <- LinkButDescr
  Refused <- LinkEvents
  Failing <- LinkEvents
INVARIANTS
  NoUseAfterFree
  FreeSlotIsQuiet
  ReadyHasLink
  AnswersAreOwn
PROPERTIES
  SlotFreed
  ImplementsSlot
