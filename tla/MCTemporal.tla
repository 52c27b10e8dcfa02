----------------------------- MODULE MCTemporal -----------------------------
(* Small instances of Temporal and TemporalTexts for TLC: the ends of short  *)
(* and long months, leap years and centuries, years beyond four digits, and  *)
(* a day of 32 nanoseconds.  A behaviour is a walk or a text.                *)
EXTENDS Temporal, TemporalTexts

VARIABLE part

MCRadix == <<4, 2, 2, 2, 1, 1>>
MCAnchors == {Date(1968, 12, 31), Date(-1, 12, 30), Date(1600, 3, 20)}
MCClocks == {0, 5}
MCZones == {0, 8, -3}
MCTextDates == {Date(2020, 2, 29), Date(-1, 12, 31), Date(10000, 1, 1), Date(1969, 12, 31),
                Date(1972, 4, 30)}
MCTextClocks == {5, 31}
MCTextOffsets == {8, -6}

MCInit == \/ part = "walk" /\ TemporalInit /\ TextIdle
          \/ part = "texts" /\ TextInit
             /\ one = At(Date(2020, 1, 31), 0) /\ two = one /\ off = 0
MCNext == /\ UNCHANGED part
          /\ \/ part = "walk" /\ TemporalNext /\ UNCHANGED textVars
             \/ part = "texts" /\ TextNext /\ UNCHANGED temporalVars
MCSpec == MCInit /\ [][MCNext]_<<part, temporalVars, textVars>>

\* Along a walk, day numbers, dates and fields put into dates agree (lib/temporal.js).
CalendarWalked == part = "walk" => CalendarHolds

\* Along a walk, every difference of the two date-times leads from one to the other, and
\* clocks, zones and instants round to the same moments.
TimesWalked == part = "walk" => DifferencesFit /\ ClocksFit

\* What a value prints is read back, and the types read one text alike.
TextsRead == part = "texts" => TextsSurvive
=============================================================================
