--------------------------- MODULE TemporalSpans ---------------------------
(***************************************************************************)
(* The arithmetic of lib/temporal.js: the ISO 8601 calendar (day numbers,  *)
(* months that clamp, weeks, the difference of two dates in calendar       *)
(* units), times of day, rounding, durations and the differences of        *)
(* date-times.  A date is a record year, month, day; Fail stands for a     *)
(* thrown RangeError.  Radix is the mixed radix of a day: hours in a day,  *)
(* minutes in an hour, seconds in a minute and three factors of 1000 in    *)
(* the code, smaller numbers in a check.  A quotient the code computes in  *)
(* floating point is an exact fraction here.                               *)
(***************************************************************************)
EXTENDS Integers, Sequences

CONSTANT Radix
ASSUME RadixAssumption == Radix \in [1 .. 6 -> Nat \ {0}]

-----------------------------------------------------------------------------
(* The ISO calendar. *)

MONTH_DAYS == <<31, 28, 31, 30, 31, 30, 31, 31, 30, 31, 30, 31>>
MIN_EPOCH_DAY == -100000001
MAX_EPOCH_DAY == 100000000

Date(y, m, d) == [year |-> y, month |-> m, day |-> d]
Fail == Date(0, 0, 0)

LesserOf(a, b) == IF a < b THEN a ELSE b
GreaterOf(a, b) == IF a < b THEN b ELSE a
Sign(n) == IF n < 0 THEN -1 ELSE IF n > 0 THEN 1 ELSE 0

(* JavaScript's remainder and Math.trunc of a quotient: both go to zero. *)
JsTrunc(a, b) == IF a < 0 THEN -((-a) \div b) ELSE a \div b
JsRem(a, b) == a - b * JsTrunc(a, b)

isLeap(y) == (y % 4 = 0 /\ y % 100 # 0) \/ y % 400 = 0

daysInMonth(y, m) == IF m = 2 /\ isLeap(y) THEN 29 ELSE MONTH_DAYS[m]

daysInYear(y) == IF isLeap(y) THEN 366 ELSE 365

isValidISODate(y, m, d) == m \in 1 .. 12 /\ d \in 1 .. daysInMonth(y, m)

epochDayFromISO(y, m, d) ==
  LET yy  == IF m <= 2 THEN y - 1 ELSE y
      era == yy \div 400
      yoe == yy - era * 400
      mp  == (m + 9) % 12
      doy == (153 * mp + 2) \div 5 + d - 1
      doe == yoe * 365 + yoe \div 4 - yoe \div 100 + doy
  IN  era * 146097 + doe - 719468

DayOf(x) == epochDayFromISO(x.year, x.month, x.day)

(* The date of a day of a year that begins in March. *)
MarchDate(y, doy) ==
  LET mp == (5 * doy + 2) \div 153
      m  == IF mp < 10 THEN mp + 3 ELSE mp - 9
  IN  Date(IF m <= 2 THEN y + 1 ELSE y, m, doy - (153 * mp + 2) \div 5 + 1)

YearDate(era, doe, yoe) ==
  MarchDate(yoe + era * 400, doe - (365 * yoe + yoe \div 4 - yoe \div 100))

EraDate(era, doe) ==
  YearDate(era, doe, (doe - doe \div 1460 + doe \div 36524 - doe \div 146096) \div 365)

isoFromEpochDay(z) == EraDate((z + 719468) \div 146097, (z + 719468) % 146097)

(* The constructor of a PlainDate refuses what is no date, or out of range. *)
rejectDateRange(x) == DayOf(x) < MIN_EPOCH_DAY \/ DayOf(x) > MAX_EPOCH_DAY
PlainDate(x) ==
  IF isValidISODate(x.year, x.month, x.day) /\ ~rejectDateRange(x) THEN x ELSE Fail

(* Mutant of dayOfWeek: the remainder of a day before 1970 stays negative. *)
dayOfWeek_Rem(x) == LET wd == JsRem(DayOf(x) + 4, 7) IN IF wd = 0 THEN 7 ELSE wd

dayOfWeek(x) == LET wd == JsRem(DayOf(x) + 4, 7) IN IF wd <= 0 THEN wd + 7 ELSE wd

(* Mutant of dayOfYear: New Year's day is day 0. *)
dayOfYear_FromZero(x) == DayOf(x) - epochDayFromISO(x.year, 1, 1)

dayOfYear(x) == DayOf(x) - epochDayFromISO(x.year, 1, 1) + 1

(* A week belongs to the year of its Thursday. *)
Thursday(x) == DayOf(x) + (4 - dayOfWeek(x))
yearOfWeek(x) == isoFromEpochDay(Thursday(x)).year
weekOfYear(x) ==
  (Thursday(x) - epochDayFromISO(yearOfWeek(x), 1, 1)) \div 7 + 1

-----------------------------------------------------------------------------
(* Arithmetic: months first, clamped into the month they reach, then days. *)

addDaysTo(x, n) == isoFromEpochDay(DayOf(x) + n)

addMonthsClamped(x, n) ==
  LET k == x.month - 1 + n
      y == x.year + k \div 12
      m == (k % 12) + 1
  IN  Date(y, m, LesserOf(x.day, daysInMonth(y, m)))

balanceISODate(y, m, d) ==
  isoFromEpochDay(epochDayFromISO(y + (m - 1) \div 12, ((m - 1) % 12) + 1, 1) + (d - 1))

(* A date difference: years, months, weeks, days. *)
Parts(y, m, w, d) == [year |-> y, month |-> m, week |-> w, day |-> d]
Times(s, p) == Parts(s * p.year, s * p.month, s * p.week, s * p.day)
OneSign(p) ==
  ~ \E u, v \in DOMAIN p : p[u] < 0 /\ p[v] > 0

addToDate(x, p, s) ==
  LET c == addMonthsClamped(x, s * (12 * p.year + p.month))
  IN  balanceISODate(c.year, c.month, c.day + s * (p.week * 7 + p.day))

(* e is not after l: whole months by arithmetic, corrected once if the    *)
(* clamped candidate passed l.                                             *)
MonthsPassed(e, l) ==
  LET total0 == 12 * (l.year - e.year) + l.month - e.month
  IN  IF DayOf(addMonthsClamped(e, total0)) > DayOf(l) THEN total0 - 1 ELSE total0

MonthsAndDays(total, days, largest) ==
  IF largest = "month" THEN Parts(0, total, 0, days)
  ELSE Parts(total \div 12, total % 12, 0, days)

diffISODateCalendar(e, l, largest) ==
  LET total == MonthsPassed(e, l)
  IN  MonthsAndDays(total, DayOf(l) - DayOf(addMonthsClamped(e, total)), largest)

diffISODateDays(e, l, largest) ==
  LET days  == DayOf(l) - DayOf(e)
      weeks == IF largest = "week" THEN JsTrunc(days, 7) ELSE 0
  IN  Parts(0, 0, weeks, days - 7 * weeks)

(* Always measured from the earlier date, then given the sign of b - a. *)
diffISODate(e, l, largest) ==
  IF largest \in {"year", "month"} THEN diffISODateCalendar(e, l, largest)
  ELSE diffISODateDays(e, l, largest)
rawDateDifference(a, b, largest) ==
  IF DayOf(a) <= DayOf(b) THEN diffISODate(a, b, largest)
  ELSE Times(-1, diffISODate(b, a, largest))

-----------------------------------------------------------------------------
(* Property bags and the overflow option. *)

clampTo(v, lo, hi) == IF v < lo THEN lo ELSE IF v > hi THEN hi ELSE v

regulateISODate(y, m, d, overflow) ==
  IF overflow = "reject"
  THEN IF isValidISODate(y, m, d) THEN Date(y, m, d) ELSE Fail
  ELSE LET mm == clampTo(m, 1, 12) IN Date(y, mm, clampTo(d, 1, daysInMonth(y, mm)))

(* with(bag): a field the bag lacks is the receiver's; month and monthCode  *)
(* are one field written twice and must agree.  0 stands for undefined.     *)
Undef == 0
mergeBagFields(base, bag) ==
  [year  |-> IF bag.year = Undef THEN base.year ELSE bag.year,
   month |-> IF bag.month = Undef /\ bag.monthCode = Undef THEN base.month ELSE bag.month,
   monthCode |-> bag.monthCode,
   day   |-> IF bag.day = Undef THEN base.day ELSE bag.day]

isoDateFromFields(raw, overflow) ==
  IF raw.monthCode # Undef /\ (raw.monthCode > 12 \/ raw.month \notin {Undef, raw.monthCode})
  THEN Fail
  ELSE regulateISODate(raw.year, IF raw.monthCode # Undef THEN raw.monthCode ELSE raw.month,
                       raw.day, overflow)

PlainDateWith(x, bag, overflow) ==
  LET r == isoDateFromFields(mergeBagFields(x, bag), overflow)
  IN  IF r = Fail THEN Fail ELSE PlainDate(r)

(* A year-month keeps the reference day 1; a month-day the leap year 1972. *)
toPlainYearMonth(x) == Date(x.year, x.month, 1)
toPlainMonthDay(x) == Date(1972, x.month, x.day)

-----------------------------------------------------------------------------
(* Units of time. *)

ALL_UNITS == <<"year", "month", "week", "day", "hour", "minute", "second",
               "millisecond", "microsecond", "nanosecond">>
Units == {ALL_UNITS[i] : i \in 1 .. 10}
allUnitIndex == [u \in Units |-> CHOOSE i \in 1 .. 10 : ALL_UNITS[i] = u]
isDateUnit(u) == allUnitIndex[u] <= 4
isCalendarUnit(u) == allUnitIndex[u] <= 3

(* Nanoseconds in unit i, for the units of a fixed length. *)
Width[i \in 4 .. 10] == IF i = 10 THEN 1 ELSE Radix[i - 3] * Width[i + 1]
UnitNs(u) == Width[allUnitIndex[u]]
DayNs == Width[4]

timeToNs(t) == t[1] * Width[5] + t[2] * Width[6] + t[3] * Width[7]
               + t[4] * Width[8] + t[5] * Width[9] + t[6]
nsToTime(ns) == [i \in 1 .. 6 |-> ((ns % DayNs) \div Width[i + 4]) % Radix[i]]

-----------------------------------------------------------------------------
(* Rounding n / d, d > 0, to a whole number. *)

RoundingModes == {"ceil", "floor", "expand", "trunc",
                  "halfCeil", "halfFloor", "halfExpand", "halfTrunc", "halfEven"}

Ceil(n, d) == -((-n) \div d)
HalfUp(n, d) == (2 * n + d) \div (2 * d)
HalfDown(n, d) == Ceil(2 * n - d, 2 * d)

applyRounding(n, d, mode) ==
  CASE mode = "ceil"      -> Ceil(n, d)
    [] mode = "floor"     -> n \div d
    [] mode = "trunc"     -> JsTrunc(n, d)
    [] mode = "expand"    -> IF n < 0 THEN n \div d ELSE Ceil(n, d)
    [] mode = "halfCeil"  -> HalfUp(n, d)
    [] mode = "halfFloor" -> HalfDown(n, d)
    [] mode = "halfTrunc" -> IF n < 0 THEN HalfUp(n, d) ELSE HalfDown(n, d)
    [] mode = "halfEven"  -> LET fl == n \div d
                                 twice == 2 * (n - fl * d)
                             IN  IF twice > d \/ (twice = d /\ fl % 2 = 1) THEN fl + 1 ELSE fl
    [] OTHER              -> IF n < 0 THEN -HalfUp(-n, d) ELSE HalfUp(n, d)

(* The rounding over BigInt: pick the multiple below or the one above. *)
applyRoundingBig(v, inc, mode) ==
  LET down == v \div inc
      twice == 2 * (v - down * inc)
      away == IF v < 0 THEN down ELSE down + 1
      near == IF v < 0 THEN down + 1 ELSE down
      pick == CASE mode = "ceil"   -> down + 1
                [] mode = "floor"  -> down
                [] mode = "trunc"  -> near
                [] mode = "expand" -> away
                [] OTHER -> IF twice # inc THEN IF twice > inc THEN down + 1 ELSE down
                            ELSE CASE mode = "halfCeil"  -> down + 1
                                   [] mode = "halfFloor" -> down
                                   [] mode = "halfTrunc" -> near
                                   [] mode = "halfEven"  -> down + (down % 2)
                                   [] OTHER              -> away
  IN  IF twice = 0 THEN v ELSE pick * inc

negateRoundingMode(mode) ==
  CASE mode = "ceil" -> "floor" [] mode = "floor" -> "ceil"
    [] mode = "halfCeil" -> "halfFloor" [] mode = "halfFloor" -> "halfCeil"
    [] OTHER -> mode

asIfPositive(mode) ==
  CASE mode = "trunc" -> "floor" [] mode = "expand" -> "ceil"
    [] mode = "halfTrunc" -> "halfFloor" [] mode = "halfExpand" -> "halfCeil"
    [] OTHER -> mode

(* A legal increment divides the next unit; a day counts only as one, and an *)
(* instant measures every unit against the whole day.                        *)
validateIncrement(inc, unit, style) ==
  LET i == allUnitIndex[unit]
  IN  IF unit = "day" /\ style # "difference" THEN inc = 1
      ELSE IF style = "instant" THEN inc <= DayNs \div Width[i] /\ (DayNs \div Width[i]) % inc = 0
      ELSE i <= 4 \/ (inc < Radix[i - 4] /\ Radix[i - 4] % inc = 0)

-----------------------------------------------------------------------------
(* Durations: one number per unit, all of one sign.  NoDuration stands for  *)
(* the RangeError of the constructor.                                       *)

Zero == [u \in Units |-> 0]
NoDuration == [u \in {} |-> 0]
makeDuration(f) == IF OneSign(f) THEN f ELSE NoDuration
negated(f) == [u \in DOMAIN f |-> -f[u]]
DurationSign(f) == IF \E u \in Units : f[u] < 0 THEN -1
                   ELSE IF \E u \in Units : f[u] > 0 THEN 1 ELSE 0

hasCalendarFields(f) == f["year"] # 0 \/ f["month"] # 0 \/ f["week"] # 0
defaultLargestUnit(f) ==
  IF \A u \in Units : f[u] = 0 THEN "nanosecond"
  ELSE ALL_UNITS[CHOOSE i \in 1 .. 10 : f[ALL_UNITS[i]] # 0
                                         /\ \A j \in 1 .. i - 1 : f[ALL_UNITS[j]] = 0]
Larger(u, v) == IF allUnitIndex[u] < allUnitIndex[v] THEN u ELSE v

durationTimeNs(f) == timeToNs([i \in 1 .. 6 |-> f[ALL_UNITS[i + 4]]])
durationExactNs(f) == f["day"] * DayNs + durationTimeNs(f)

(* s times rest nanoseconds, written with no unit larger than `largest`. *)
SplitFrom(rest, largest, s) ==
  [u \in Units |->
     LET i == allUnitIndex[u] IN
     IF i < allUnitIndex[largest] THEN 0
     ELSE s * ((IF u = largest THEN rest ELSE rest % Width[i - 1]) \div Width[i])]

(* Both splits round the magnitude; the BigInt one rounds the signed number. *)
nsToDurationFields(total, largest, smallest, inc, mode) ==
  LET w == UnitNs(smallest) * inc
      mag == IF total < 0 THEN -total ELSE total
  IN  SplitFrom(w * applyRounding(mag, w, mode), largest, IF total < 0 THEN -1 ELSE 1)
nsToDuration(total, largest, smallest, inc, mode) ==
  nsToDurationFields(total, largest, smallest, inc, mode)
nsToDurationBig(total, largest, smallest, inc, mode) ==
  LET r == applyRoundingBig(total, UnitNs(smallest) * inc, mode)
  IN  SplitFrom(IF r < 0 THEN -r ELSE r, largest, IF r < 0 THEN -1 ELSE 1)

(* The units a difference may be asked in, and the mode it is rounded with:   *)
(* `since` mirrors the mode and negates the answer.                           *)
differenceSettings(largest, smallest, mode, since) ==
  [legal |-> allUnitIndex[largest] <= allUnitIndex[smallest],
   mode |-> IF since THEN negateRoundingMode(mode) ELSE mode]

diffTimeLike(delta, big, largest, smallest, inc, mode, since) ==
  LET st == differenceSettings(largest, smallest, mode, since)
      d == IF big THEN nsToDurationBig(delta, largest, smallest, inc, st.mode)
           ELSE nsToDuration(delta, largest, smallest, inc, st.mode)
  IN  IF ~st.legal THEN NoDuration ELSE IF since THEN negated(d) ELSE d

addDurations(a, b, s) ==
  IF hasCalendarFields(a) \/ hasCalendarFields(b) THEN NoDuration
  ELSE nsToDurationFields(durationExactNs(a) + s * durationExactNs(b),
                          Larger(defaultLargestUnit(a), defaultLargestUnit(b)), "nanosecond", 1, "trunc")


(* What toString prints at a precision of w nanoseconds: the part below days  *)
(* is rounded with its sign and carries no further than the largest unit used. *)
durationToString(f, w, mode) ==
  LET s == IF DurationSign(f) < 0 THEN -1 ELSE 1
      d == defaultLargestUnit(f)
      start == IF allUnitIndex[d] < 4 THEN "day" ELSE IF allUnitIndex[d] > 7 THEN "second" ELSE d
      r == w * applyRounding(durationTimeNs(f), w, mode)
      g == SplitFrom(IF r < 0 THEN -r ELSE r, start, s)
  IN  [u \in Units |-> IF isCalendarUnit(u) THEN f[u]
                       ELSE IF u = "day" THEN f[u] + g[u] ELSE g[u]]
=============================================================================
