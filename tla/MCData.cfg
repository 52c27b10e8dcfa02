SPECIFICATION Spec
CONSTANTS
  MaxSubject = 3
  MaxTemplate = 4
  Radix = 4
  StoreLength = 4
  MaxWord = 2
  MaxAddress = 4
  MaxCalls = 4
CHECK_DEADLOCK FALSE
INVARIANTS
  TextsKept
  BytesKept
  ValuesCompared
  AnswersFramed
