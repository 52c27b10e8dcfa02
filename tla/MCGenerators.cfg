SPECIFICATION MCSpec
CONSTANTS
  a1 = a1
  g1 = g1
  g2 = g2
  c1 = c1
  c2 = c2
  None = None
  Main = Main
  Acts <- MCActs
  Gens <- MCGens2
  Async <- MCNone
  Defaults <- MCDefaults
  Cells <- MCCells2
  MaxSteps = 2
  MaxHanded = 2
INVARIANTS
  GeneratorsTyped
  CallsAnswered
