SPECIFICATION Spec
CONSTANTS
  p1 = p1
  p2 = p2
  p3 = p3
  p4 = p4
  None = None
  Promises <- MCPromises3
  MaxTurns = 3
SYMMETRY Symmetry3
INVARIANTS
  TypeOK
  ReactionsKept
PROPERTY SettledForever
