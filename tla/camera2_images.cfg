SPECIFICATION FairSpec
CONSTANTS
  MaxImages = 3
  MaxClients = 3
INVARIANTS
  FramesInOrder
PROPERTIES
  GoneIsNoticed
\* After the shutdown both tasks are over.
CHECK_DEADLOCK FALSE
