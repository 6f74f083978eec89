CONSTANTS
  Nodes = {1, 2}
  Ports = {p1, p2}
  p1 = p1
  p2 = p2
  Start = p1
  None = None
  MaxMoves = 2
  MaxHints = 1
  MaxSeq = 4
  MaxStream = 1
CONSTANT NodeOf <- MCNodeOf
SPECIFICATION Spec
PROPERTY Follows
