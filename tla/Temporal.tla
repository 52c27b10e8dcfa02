------------------------------ MODULE Temporal ------------------------------
(***************************************************************************)
(* Temporal's types that hold a date (lib/temporal.js): PlainDate,         *)
(* PlainDateTime, PlainYearMonth, Instant and ZonedDateTime, their         *)
(* addition, until, since and round, and Duration's round and total with a *)
(* relativeTo.  A program holds two date-times and moves the second away   *)
(* from the first, a day or a time of day at a time, with the library's    *)
(* own calls; in every state the library's answers about the pair must fit *)
(* together.  A date-time is a date with ns, its nanosecond of the day.    *)
(***************************************************************************)
EXTENDS TemporalSpans

CONSTANTS
  Anchors,    \* the dates the first date-time may have
  Clocks,     \* the times of day either may have
  Ahead,      \* days the second may move after the first
  Behind,     \* days it may move before
  Zones       \* offsets of time zones, in nanoseconds

ASSUME WalkAssumption == /\ Clocks \subseteq 0 .. DayNs - 1
                         /\ Ahead \in Nat /\ Behind \in Nat
                         /\ Zones \subseteq Int

VARIABLES one, two, off
temporalVars == <<one, two, off>>

At(x, ns) == [year |-> x.year, month |-> x.month, day |-> x.day, ns |-> ns]
DateOf(x) == Date(x.year, x.month, x.day)

-----------------------------------------------------------------------------
(* Date-times. *)

cmpDateTime(a, b) ==
  IF DayOf(a) # DayOf(b) THEN Sign(DayOf(a) - DayOf(b)) ELSE Sign(a.ns - b.ns)

nsBetween(a, b) == (DayOf(b) - DayOf(a)) * DayNs + (b.ns - a.ns)

addToDateTime(x, f, s) ==
  LET ns == x.ns + s * durationTimeNs(f)
      d  == addToDate(x, [u \in {"year", "month", "week", "day"} |-> f[u]], s)
  IN  At(addDaysTo(d, ns \div DayNs), ns % DayNs)

AddNs(x, total) == At(addDaysTo(x, total \div DayNs), total % DayNs)
addUnits(x, u, n) ==
  IF u = "year" THEN At(addMonthsClamped(x, 12 * n), x.ns)
  ELSE IF u = "month" THEN At(addMonthsClamped(x, n), x.ns)
  ELSE IF u = "week" THEN At(addDaysTo(x, 7 * n), x.ns)
  ELSE IF u = "day" THEN At(addDaysTo(x, n), x.ns)
  ELSE AddNs(x, x.ns + n * UnitNs(u))

addDurationTo(x, f) ==
  LET c == addMonthsClamped(x, 12 * f["year"] + f["month"])
  IN  addUnits(At(addDaysTo(c, 7 * f["week"] + f["day"]), x.ns), "nanosecond", durationTimeNs(f))

(* How many units lie between start and end: whole, and n / d of them in all. *)
Counted(w, part, span) == [whole |-> w, n |-> w * span + part, d |-> span]

unitsBetween(start, end, u) ==
  IF ~isCalendarUnit(u)
  THEN [whole |-> JsTrunc(nsBetween(start, end), UnitNs(u)),
        n |-> nsBetween(start, end), d |-> UnitNs(u)]
  ELSE IF cmpDateTime(start, end) = 0 THEN [whole |-> 0, n |-> 0, d |-> 1]
  ELSE LET s == -cmpDateTime(start, end)
           Past(g) == s * cmpDateTime(addUnits(start, u, g), end) > 0
           guess == CASE u = "year"  -> end.year - start.year
                      [] u = "month" -> 12 * (end.year - start.year) + end.month - start.month
                      [] OTHER       -> JsTrunc(nsBetween(start, end), 7 * DayNs)
           back[g \in Int] == IF g # 0 /\ Past(g) THEN back[g - s] ELSE g
           fwd[g \in Int] == IF Past(g + s) THEN g ELSE fwd[g + s]
           From(w, lo) == Counted(w, nsBetween(lo, end), s * nsBetween(lo, addUnits(start, u, w + s)))
           Whole(w) == From(w, addUnits(start, u, w))
       IN  Whole(fwd[back[guess]])

(* The span in units from `largest` down: calendar units by walking the       *)
(* calendar, the rest exact.  Weeks only if weeks are what is asked for.       *)
spanToDuration(start, end, largest, smallest) ==
  LET li == allUnitIndex[largest]
      si == allUnitIndex[smallest]
      walk[i \in 0 .. 4] ==
        IF i = 0 THEN [at |-> start, f |-> Zero]
        ELSE LET p == walk[i - 1]
                 u == ALL_UNITS[i]
                 Moved(w) == IF w = 0 THEN p
                             ELSE [at |-> addUnits(p.at, u, w), f |-> [p.f EXCEPT ![u] = w]]
             IN  IF i < li \/ i > si \/ (u = "week" /\ largest # "week") THEN p
                 ELSE Moved(unitsBetween(p.at, end, u).whole)
      Rest(at) == nsToDurationFields(nsBetween(at, end), "hour", smallest, 1, "trunc")
      Joined(p, t) == [u \in Units |-> IF si > 4 /\ ~isDateUnit(u) THEN t[u] ELSE p.f[u]]
      Walked(p) == Joined(p, Rest(p.at))
  IN  IF li >= 4 THEN nsToDurationFields(nsBetween(start, end), largest, smallest, 1, "trunc")
      ELSE Walked(walk[4])

(* Duration.round and total with a relativeTo. *)
DurationRound(f, start, largest, smallest, inc, mode) ==
  LET Nearest(c) == inc * applyRounding(c.n, c.d * inc, mode)
      r == Nearest(unitsBetween(start, addDurationTo(start, f), smallest))
  IN  makeDuration(spanToDuration(start, addUnits(start, smallest, r), largest, smallest))

(* total: the exact count, never rounded. *)
DurationTotal(f, start, u) ==
  LET end == addDurationTo(start, f) IN
  IF isCalendarUnit(u) THEN unitsBetween(start, end, u)
  ELSE [whole |-> 0, n |-> nsBetween(start, end), d |-> UnitNs(u)]

(* compare with a relativeTo: where the two durations lead. *)
DurationCompare(f, g, start) ==
  IF f = g THEN 0
  ELSE Sign(nsBetween(start, addDurationTo(start, f)) - nsBetween(start, addDurationTo(start, g)))

-----------------------------------------------------------------------------
(* until and since. *)

Cut(p, i, n) == [u \in DOMAIN p |-> IF allUnitIndex[u] < i THEN p[u]
                                    ELSE IF u = ALL_UNITS[i] THEN n ELSE 0]
Reaches(start, p) ==
  DayOf(addMonthsClamped(start, 12 * p.year + p.month)) + 7 * p.week + p.day

(* The other end of the bracket that k increments of a unit begin. *)
Bracket(k, s, inc) == (k + s) * inc

(* Mutant of BubbleUp: what rounding completed is not carried. *)
BubbleUp_Not(start, nudged, s, largest, smallest) == nudged

(* Twelve months make a year, as far up as `largest`. *)
BubbleUp(start, nudged, s, largest, smallest) ==
  LET bubble[i \in 1 .. 5] ==
        IF i >= allUnitIndex[smallest] THEN [p |-> nudged, stop |-> FALSE]
        ELSE LET b == bubble[i + 1]
                 cand == Cut(b.p, i, b.p[ALL_UNITS[i]] + s)
             IN  IF b.stop \/ (ALL_UNITS[i] = "week" /\ largest # "week") THEN b
                 ELSE IF s * (Reaches(start, nudged) - Reaches(start, cand)) < 0
                 THEN [b EXCEPT !.stop = TRUE]
                 ELSE [p |-> cand, stop |-> FALSE]
  IN  bubble[allUnitIndex[largest]].p

(* Rounding to a calendar unit: where does the target fall between the *)
(* duration cut to that unit and the other end of its bracket?         *)
roundCalendarDuration(start, dest, dur, largest, smallest, inc, mode) ==
  LET s == IF cmpDateTime(dest, start) < 0 THEN -1 ELSE 1
      si == allUnitIndex[smallest]
      k  == JsTrunc(dur[smallest], inc)
      e1 == Reaches(start, Cut(dur, si, k * inc))
      gap == s * (Reaches(start, Cut(dur, si, Bracket(k, s, inc))) - e1)
      num == (DayOf(dest) - e1) * DayNs + dest.ns - start.ns
      r  == IF gap = 0 THEN k
            ELSE applyRounding(Sign(gap) * (k * gap * DayNs + num), DayNs * Sign(gap) * gap, mode)
  IN  IF cmpDateTime(dest, start) = 0 THEN dur
      ELSE BubbleUp(start, Cut(dur, si, inc * r), s, largest, smallest)

Dated(p) == [u \in Units |-> IF u \in DOMAIN p THEN p[u] ELSE 0]

plainDateDifference(a, b, largest, smallest, inc, mode, since) ==
  LET st == differenceSettings(largest, smallest, mode, since)
      d == roundCalendarDuration(At(a, 0), At(b, 0), rawDateDifference(a, b, largest),
                                 largest, smallest, inc, st.mode)
  IN  IF st.legal THEN makeDuration(Dated(Times(IF since THEN -1 ELSE 1, d))) ELSE NoDuration

yearMonthDifference(a, b, largest, smallest, inc, mode, since) ==
  LET st == differenceSettings(largest, smallest, mode, since)
      total == 12 * (b.year - a.year) + b.month - a.month
      dur == IF largest = "year" THEN Parts(JsTrunc(total, 12), JsRem(total, 12), 0, 0)
             ELSE Parts(0, total, 0, 0)
      d == roundCalendarDuration(At(Date(a.year, a.month, 1), 0), At(Date(b.year, b.month, 1), 0),
                                 dur, largest, smallest, inc, st.mode)
  IN  IF st.legal THEN makeDuration(Dated(Times(IF since THEN -1 ELSE 1, d))) ELSE NoDuration

(* When the halves disagree in sign, one day moves from the date to the time. *)
diffDateTimeFields(a, b, largest, smallest, inc, mode, since) ==
  LET st == differenceSettings(largest, smallest, mode, since)
      m == st.mode
      ds == Sign(DayOf(b) - DayOf(a))
      td == b.ns - a.ns
      lend == ds * Sign(td) = -1
      df == rawDateDifference(a, IF lend THEN addDaysTo(b, -ds) ELSE b, largest)
      tf == nsToDuration(IF lend THEN td + ds * DayNs ELSE td, "hour", smallest, inc, m)
      Given(out) == IF ~st.legal \/ ~OneSign(out) THEN NoDuration ELSE IF since THEN negated(out) ELSE out
  IN  Given(IF ~isDateUnit(largest) THEN nsToDurationBig(nsBetween(a, b), largest, smallest, inc, m)
            ELSE IF isDateUnit(smallest)
            THEN Dated(roundCalendarDuration(a, b, df, largest, smallest, inc, m))
            ELSE [u \in Units |-> IF isDateUnit(u) THEN df[u] ELSE tf[u]])

(* Only the time of day is rounded; a carry moves the date on. *)
roundDateTimeFields(x, smallest, inc, mode) ==
  LET w == UnitNs(smallest) * inc
      t == w * applyRounding(x.ns, w, mode)
  IN  At(balanceISODate(x.year, x.month, x.day + t \div DayNs), t % DayNs)

-----------------------------------------------------------------------------
(* Instants and zoned date-times: an exact count, seen through an offset. *)

EpochNs(x) == DayOf(x) * DayNs + x.ns
zonedLocal(ns, z) == At(isoFromEpochDay((ns + z) \div DayNs), (ns + z) % DayNs)
zonedFromLocal(x, z) == EpochNs(x) - z

InstantAdd(ns, f, s) ==
  IF \E u \in Units : isDateUnit(u) /\ f[u] # 0 THEN NoDuration ELSE ns + s * durationTimeNs(f)
InstantRound(ns, smallest, inc, mode) ==
  applyRoundingBig(ns, UnitNs(smallest) * inc, asIfPositive(mode))

(* Date units act on the wall clock, time units on the instant. *)
ZonedAdd(ns, z, f, s) ==
  LET l == zonedLocal(ns, z)
      d == addToDate(l, [u \in {"year", "month", "week", "day"} |-> f[u]], s)
  IN  zonedFromLocal(At(d, l.ns), z) + s * durationTimeNs(f)
startOfDay(ns, z) == zonedFromLocal(At(zonedLocal(ns, z), 0), z)

-----------------------------------------------------------------------------
(* The walk. *)

OneDay == [Zero EXCEPT !["day"] = 1]

TemporalInit == /\ \E a \in Anchors, c \in Clocks : one = At(a, c)
                /\ two = one
                /\ off = 0

(* two = two.add({days: 1}) and two = two.subtract({days: 1}) *)
Tomorrow == /\ off < Ahead
            /\ two' = addToDateTime(two, OneDay, 1)
            /\ off' = off + 1
            /\ UNCHANGED one

Yesterday == /\ off > -Behind
             /\ two' = addToDateTime(two, OneDay, -1)
             /\ off' = off - 1
             /\ UNCHANGED one

(* two = two.withPlainTime(c) *)
withPlainTime == /\ \E c \in Clocks : c # two.ns /\ two' = At(two, c)
                 /\ UNCHANGED <<one, off>>

TemporalNext == Tomorrow \/ Yesterday \/ withPlainTime
TemporalSpec == TemporalInit /\ [][TemporalNext]_temporalVars
-----------------------------------------------------------------------------
(* The pair is two date-times, `off` days apart. *)
TemporalTypeOK ==
  /\ \A x \in {one, two} : PlainDate(DateOf(x)) # Fail /\ x.ns \in 0 .. DayNs - 1
  /\ off \in -Behind .. Ahead

(* The day number and its inverse, the civil calendar and the addition of days *)
(* are four algorithms; at every day reached they agree.                       *)
DaysAreNumbered ==
  /\ DayOf(two) = DayOf(one) + off
  /\ isoFromEpochDay(DayOf(two)) = DateOf(two)
  /\ addToDate(one, Parts(0, 0, 0, off), 1) = DateOf(two)
  /\ dayOfYear(two) = two.day + (IF two.month = 1 THEN 0
       ELSE dayOfYear(Date(two.year, two.month - 1, 1)) - 1 + daysInMonth(two.year, two.month - 1))

(* A month's last day is followed by the first of the next month, and by    *)
(* nothing else; the weekday goes round; a week's number changes on Mondays *)
(* only, and to 1 when the year of the week does.                           *)
DaysFollow ==
  [][off' > off =>
       /\ LET last == two.day = daysInMonth(two.year, two.month) IN
          DateOf(two') = Date(two.year + (IF last /\ two.month = 12 THEN 1 ELSE 0),
                              IF last THEN (two.month % 12) + 1 ELSE two.month,
                              IF last THEN 1 ELSE two.day + 1)
       /\ dayOfWeek(two') = (dayOfWeek(two) % 7) + 1
       /\ <<yearOfWeek(two'), weekOfYear(two')>> =
            IF dayOfWeek(two') # 1 THEN <<yearOfWeek(two), weekOfYear(two)>>
            ELSE IF yearOfWeek(two') = yearOfWeek(two) THEN <<yearOfWeek(two), weekOfYear(two) + 1>>
            ELSE <<yearOfWeek(two) + 1, 1>>]_temporalVars

Forward == cmpDateTime(one, two) <= 0

(* A difference to an earlier date is measured from the earlier one and negated.  Taken *)
(* from the later one it leads back in weeks, days and times; in years and months where *)
(* no month is cut short on the way.                                                    *)
Retraceable(largest) ==
  Forward \/ largest \notin {"year", "month"} \/ (two.day < one.day /\ one.day <= 28)

(* What until answers, forward or backward, leads from the first date-time to the  *)
(* second, by date-time addition and by the addition behind relativeTo alike; no   *)
(* field holds what the next larger one should.                                    *)
UntilAddsBack ==
  \A largest \in {u \in Units : Retraceable(u)} :
    \A f \in {diffDateTimeFields(one, two, largest, "nanosecond", 1, "trunc", FALSE)} :
    /\ f # NoDuration
    /\ addToDateTime(one, f, 1) = two
    /\ addDurationTo(one, f) = two
    /\ isDateUnit(largest) => durationTimeNs(f) \in -DayNs + 1 .. DayNs - 1
    /\ largest = "year" => f["month"] \in -11 .. 11

(* The difference of dates, the rounding of a duration against its start and *)
(* its total answer one question with three algorithms; the order of two     *)
(* durations is that of the dates they lead to, however they are written.    *)
SpansAgree ==
  (Forward /\ one.ns = 0 /\ two.ns = 0) =>
    \A u \in {"year", "month", "week", "day"} :
      LET days == [Zero EXCEPT !["day"] = off]
          t == DurationTotal(days, one, u)
      IN  /\ \A mode \in RoundingModes :
               \A d \in {plainDateDifference(one, two, u, u, 1, mode, FALSE)} :
                  /\ d = DurationRound(days, one, u, u, 1, mode)
                  /\ d[u] = applyRounding(t.n, t.d, mode)
                  /\ mode = "floor" => DurationCompare(d, days, one) <= 0
                  /\ mode = "ceil" => DurationCompare(d, days, one) >= 0

(* Rounded down, a difference does not pass its target and one more unit does; *)
(* rounded up, it is that or one more.                                         *)
RoundingBrackets ==
  (Forward /\ one # two) => \A u \in {"year", "month", "week", "day"}, inc \in {1, 3} :
    \A fl \in {diffDateTimeFields(one, two, u, u, inc, "floor", FALSE)} :
    LET ce == diffDateTimeFields(one, two, u, u, inc, "ceil", FALSE)
        more == [fl EXCEPT ![u] = @ + inc]
    IN  /\ cmpDateTime(addToDateTime(one, fl, 1), two) <= 0
        /\ cmpDateTime(addToDateTime(one, more, 1), two) > 0
        /\ ce = IF addToDateTime(one, fl, 1) = two THEN fl ELSE more

(* Rounded to months or days, a difference in years has no field that is full, *)
(* and reaches the same day as the same difference left in months.             *)
FullUnitsCarry ==
  (Forward /\ one # two) => \A mode \in {"ceil", "floor", "halfExpand"} :
    \A y \in {diffDateTimeFields(one, two, "year", "month", 1, mode, FALSE)} :
       /\ y["month"] < 12
       /\ 12 * y["year"] + y["month"] = diffDateTimeFields(one, two, "month", "month", 1, mode, FALSE)["month"]

(* The two rounders agree, and an instant's since is the other's until. *)
RoundersAgree ==
  LET delta == EpochNs(two) - EpochNs(one) IN
  \A u \in {"day", "hour", "minute", "second", "nanosecond"}, mode \in RoundingModes :
    /\ applyRoundingBig(delta, UnitNs(u), mode) = UnitNs(u) * applyRounding(delta, UnitNs(u), mode)
    /\ u # "day" => diffTimeLike(delta, TRUE, "hour", u, 1, mode, TRUE)
                      = diffTimeLike(-delta, TRUE, "hour", u, 1, mode, FALSE)

(* Rounding a date-time moves it by less than the unit, and rounding it on the *)
(* wall clock of a zone is rounding its instant when the offset is a multiple. *)
RoundStaysNear ==
  \A u \in {"day", "hour", "minute"}, inc \in {1, 2}, mode \in RoundingModes :
    LET r == roundDateTimeFields(two, u, inc, mode)
        w == inc * UnitNs(u)
        i == InstantRound(EpochNs(two), u, inc, mode)
    IN  validateIncrement(inc, u, "round") =>
          /\ nsBetween(two, r) \in -w + 1 .. w - 1
          /\ mode # "halfEven" => i = EpochNs(r)
          /\ \A z \in Zones : (z % w = 0 /\ mode # "halfEven") =>
               zonedFromLocal(roundDateTimeFields(zonedLocal(EpochNs(two), z), u, inc, mode), z) = i

(* A wall clock names its instant, days on it are civil days and hours exact. *)
WallClocksName ==
  \A z \in Zones :
    LET i == EpochNs(two)
        l == zonedLocal(i, z)
    IN  /\ zonedFromLocal(l, z) = i
        /\ startOfDay(i, z) \in i - DayNs + 1 .. i
        /\ zonedLocal(startOfDay(i, z), z) = At(l, 0)
        /\ ZonedAdd(i, z, OneDay, 1) = i + DayNs
        /\ \A n \in {-1, 1} : LET f == [Zero EXCEPT !["hour"] = n * Radix[1] + n] IN
             ZonedAdd(i, z, f, 1) = InstantAdd(i, f, 1)

(* A bag of fields put into a date gives a date or a RangeError, and with  *)
(* "constrain" always a date, the nearest day of the month that was meant. *)
WithGivesDates ==
  \A m \in {Undef, 2, 11, 13}, d \in {Undef, 1, 31}, code \in {Undef, 2, 12} :
    LET bag == [year |-> Undef, month |-> m, monthCode |-> code, day |-> d]
        c == PlainDateWith(DateOf(two), bag, "constrain")
        r == PlainDateWith(DateOf(two), bag, "reject")
    IN  /\ (c = Fail) = (code # Undef /\ m \notin {Undef, code})
        /\ c # Fail => isValidISODate(c.year, c.month, c.day)
        /\ r # Fail => r = c
        /\ (c # Fail /\ d # Undef /\ c.day # d) => c.day = daysInMonth(c.year, c.month)

(* A duration is printed within the precision it is asked for, to the side   *)
(* the mode names, whichever way it runs; the difference it prints stays in   *)
(* one sign.                                                                 *)
PrintedIsRounded ==
  \A largest \in {"day", "minute"}, u \in {"second", "millisecond"}, mode \in {"floor", "ceil", "halfExpand"} :
    LET delta == EpochNs(two) - EpochNs(one)
        f == nsToDurationBig(delta, largest, "nanosecond", 1, "trunc")
        d == durationExactNs(durationToString(f, UnitNs(u), mode)) - delta
    IN  /\ OneSign(durationToString(f, UnitNs(u), mode))
        /\ d \in CASE mode = "floor" -> -UnitNs(u) + 1 .. 0
                   [] mode = "ceil" -> 0 .. UnitNs(u) - 1
                   [] OTHER -> {n \in -UnitNs(u) .. UnitNs(u) : -UnitNs(u) <= 2 * n /\ 2 * n <= UnitNs(u)}

(* Durations without calendar units add exactly, whatever units they are in, *)
(* and a date-time can take them one after the other.                        *)
DurationsAdd ==
  \A u \in {"day", "hour", "second"} :
    \A a \in {diffDateTimeFields(one, two, u, "nanosecond", 1, "trunc", FALSE)} :
    LET b == [Zero EXCEPT !["hour"] = Radix[1] + 1, !["nanosecond"] = 1]
        c == addDurations(a, b, -1)
    IN  /\ OneSign(c)
        /\ durationExactNs(c) = durationExactNs(a) - durationExactNs(b)
        /\ addDurationTo(two, negated(b)) = addDurationTo(one, c)
        /\ addDurations(c, b, 1) = addDurations(b, c, 1)

-----------------------------------------------------------------------------
(* The day number, its inverse, the civil calendar and fields put into a date *)
(* agree at the ends of months, leap years and centuries.                     *)
CalendarHolds == TemporalTypeOK /\ DaysAreNumbered /\ WithGivesDates

(* Whatever way a difference is measured, rounded, totalled or printed, it *)
(* leads from the first date-time to the second.                           *)
DifferencesFit ==
  UntilAddsBack /\ SpansAgree /\ RoundingBrackets /\ FullUnitsCarry /\ PrintedIsRounded /\ DurationsAdd

(* A moment rounds the same as a number, as a clock on a wall and as an instant. *)
ClocksFit == RoundersAgree /\ RoundStaysNear /\ WallClocksName

-----------------------------------------------------------------------------
(* What a caller may expect and the code does not do *)

(* In years and months too, what until answers leads from the first date to the *)
(* second, be that the earlier one.                                             *)
UntilLeadsBackward ==
  \A largest \in {"year", "month"} :
    \A f \in {diffDateTimeFields(one, two, largest, "nanosecond", 1, "trunc", FALSE)} :
       f # NoDuration /\ addToDateTime(one, f, 1) = two
=============================================================================
