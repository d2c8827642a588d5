SPECIFICATION Spec
CONSTANTS
  Addresses = {a1, a2, a3}
  MAX_CLIENTS = 2
INVARIANT DoneIsGone
