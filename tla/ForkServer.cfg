SPECIFICATION Spec
CONSTANTS
  Clients = {c1, c2}
  Blocks = 4
  Room = 1
  MaxLimit = 2
INVARIANTS ResponseOnce Descriptors
PROPERTY HangHasCause
CHECK_DEADLOCK FALSE
