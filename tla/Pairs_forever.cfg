SPECIFICATION Spec
CONSTANTS
  c1 = c1
  c2 = c2
  Clients = {c1, c2}
  File <- MCFile
  Block = 2
  Text <- MCText
  MESSAGE <- MCMessage
  Size = 4
INVARIANT RunsForever
CHECK_DEADLOCK FALSE
