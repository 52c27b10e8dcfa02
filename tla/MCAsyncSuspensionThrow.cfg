SPECIFICATION Spec
CONSTANTS
  a1 = a1
  a2 = a2
  a3 = a3
  e1 = e1
  e2 = e2
  Main = Main
  NoPromise = NoPromise
  Acts <- MCActs
  Ext <- MCExt1
  MaxAwaits = 1
INVARIANT UncaughtThrowSurvives
