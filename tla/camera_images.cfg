SPECIFICATION FairSpec
CONSTANT MaxImages = 3
INVARIANTS
  TypeOK
  WaitIsSignalled
  FramesInOrder
PROPERTIES
  ImageGivenBack
  ShutdownEnds
\* After on_shutdown both tasks have ended.
CHECK_DEADLOCK FALSE
