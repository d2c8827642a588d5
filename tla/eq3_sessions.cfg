SPECIFICATION FairSpec
CONSTANTS
  Settings <- OnlyTarget
  Requests <- TargetOrNothing
  Week <- Saturday
  Tries = 2
  MaxVersion = 2
INVARIANTS
  TypeOK
  SlotReturned
PROPERTIES
  NewestCallWins
  ReportsInOrder
  NewestCallAttempted
  RetriesEnd
