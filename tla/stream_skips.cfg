SPECIFICATION Spec
CONSTANTS
  Conns = {a, b, c}
  Limits <- NoLimit
  MaxListed = 3
  MaxAvailable = 1
  MaxArrived = 0
INVARIANTS
  SendClientCorrect
