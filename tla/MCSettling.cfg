SPECIFICATION Spec
CONSTANTS
  Elements = 3
  MaxCalls = 2
  Resources = 3
  Stacks = {1, 2, 3}
  MaxChunks = 3
  MaxReads = 2
  Texts = {1, 2}
  MaxProcesses = 3
  MaxDepth = 1
  MaxSpawns = 2
  Socks = {1, 2}
  MaxSent = 2
  Cases = 2
  Jobs = 1
CHECK_DEADLOCK FALSE
INVARIANTS
  SettledInOrder
  ProcessesAccounted
PROPERTIES
  ResultsKept
  EverythingSettles
