SPECIFICATION MCSpec
CONSTANTS
  Radix <- MCRadix
  Anchors <- MCAnchors
  Clocks <- MCClocks
  Ahead = 370
  Behind = 45
  Zones <- MCZones
  TextDates <- MCTextDates
  TextClocks <- MCTextClocks
  TextOffsets <- MCTextOffsets
  MaxNotes = 2
INVARIANTS
  CalendarWalked
  TimesWalked
  TextsRead
PROPERTIES
  DaysFollow
CHECK_DEADLOCK FALSE
