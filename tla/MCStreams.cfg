SPECIFICATION FairSpec
CONSTANTS
  r = r
  t = t
  w = w
  Names = {r, t, w}
  Setups <- MCSetups
  MaxChunks = 3
  HighWater = 2
INVARIANTS TypeOK ChunksKept
CHECK_DEADLOCK FALSE
PROPERTY StreamsProgress
