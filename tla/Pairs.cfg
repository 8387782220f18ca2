SPECIFICATION Spec
CONSTANTS
  c1 = c1
  c2 = c2
  Clients = {c1, c2}
  File <- MCFile
  Block = 2
  Text <- MCText
  MESSAGE <- MCMessage
  Size = 4
INVARIANTS PiecesInv TruncationHasCause MessagesReturn
PROPERTY ClientsEnd
CHECK_DEADLOCK FALSE
