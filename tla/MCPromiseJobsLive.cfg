SPECIFICATION FairSpec
CONSTANTS
  p1 = p1
  p2 = p2
  p3 = p3
  p4 = p4
  None = None
  Promises <- MCPromises2
  MaxTurns = 4
PROPERTY ReactionsRun
