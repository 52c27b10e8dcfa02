--------------------------- MODULE TemporalTexts ---------------------------
(***************************************************************************)
(* The texts of Temporal's types (lib/temporal.js): toString with its      *)
(* options, the one ISO parser behind every `from`, `from` of another      *)
(* object, and the names of time zones.                                    *)
(*                                                                         *)
(* A text is a body and the annotations at its end.  The body is a         *)
(* sequence of marks: "d" is a pair of digits and its number, "f" the      *)
(* digits of a fraction and their nanoseconds, and any other mark is a     *)
(* character.  A value has a kind, a date, the nanosecond of the day and a *)
(* zone: an Instant and a ZonedDateTime hold the date and time in UTC, a   *)
(* year-month the reference day, a month-day the reference year.           *)
(***************************************************************************)
EXTENDS TemporalSpans, FiniteSets

CONSTANTS
  TextDates,    \* dates of the values that are printed
  TextClocks,   \* their nanoseconds of the day
  TextOffsets,  \* offsets of their zones, in nanoseconds
  MaxNotes      \* annotations of a text

VARIABLES asked, value, shown, text    \* how far the text is, a value and the options of its toString
textVars == <<asked, value, shown, text>>

D(n) == [t |-> "d", v |-> n]
F(n) == [t |-> "f", v |-> n]
C(c) == [t |-> c, v |-> 0]
Char(s, i) == IF i \in DOMAIN s THEN s[i].t ELSE "end"
Plain(s) == [body |-> s, notes |-> <<>>]
Note(k, c, v) == [key |-> k, critical |-> c, value |-> v]    \* a zone has the key ""
ISO == <<C("iso8601")>>
UTC == <<C("UTC")>>

Value(k, x, ns, z) == [kind |-> k, date |-> x, ns |-> ns, zone |-> z]
Refused == Value("none", Fail, 0, <<>>)
Shift(x, ns) == [date |-> isoFromEpochDay(DayOf(x) + ns \div DayNs), ns |-> ns % DayNs]

-----------------------------------------------------------------------------
(* Zones: UTC and fixed offsets. *)

formatOffset(n) ==
  LET t == nsToTime(IF n < 0 THEN -n ELSE n)
  IN  <<C(IF n < 0 THEN "-" ELSE "+"), D(t[1]), C(":"), D(t[2])>>
      \o (IF t[3] = 0 THEN <<>> ELSE <<C(":"), D(t[3])>>)

NoOffset == DayNs
InClock(h, m, s) == h < Radix[1] /\ m < Radix[2] /\ s < Radix[3]
parseOffsetNs(s) ==
  LET Colon(i) == IF Char(s, i) = ":" THEN i + 1 ELSE i
      m == Colon(3)
      sec == Colon(m + 1)
      Num(i) == IF Char(s, i) = "d" THEN s[i].v ELSE 0
      sign == IF Char(s, 1) = "-" THEN -1 ELSE 1
      last == IF Char(s, m) # "d" THEN 2 ELSE IF Char(s, sec) # "d" THEN m ELSE sec
  IN  IF s = UTC THEN 0
      ELSE IF /\ Char(s, 1) \in {"+", "-"} /\ Char(s, 2) = "d" /\ last = Len(s)
              /\ InClock(Num(2), Num(m), IF last = sec THEN Num(sec) ELSE 0)
           THEN sign * timeToNs(<<Num(2), Num(m), IF last = sec THEN Num(sec) ELSE 0, 0, 0, 0>>)
           ELSE NoOffset

-----------------------------------------------------------------------------
(* The parser. *)

Num(s, i, k) ==    \* k pairs of digits from i, or -1
  IF \E j \in i .. i + k - 1 : Char(s, j) # "d" THEN -1
  ELSE IF k = 1 THEN s[i].v
  ELSE IF k = 2 THEN 100 * s[i].v + s[i + 1].v
  ELSE 10000 * s[i].v + 100 * s[i + 1].v + s[i + 2].v

MonthDayShape(s) ==
  LET m == IF Char(s, 1) = "-" /\ Char(s, 2) = "-" THEN 3 ELSE 1
      d == IF Char(s, m + 1) = "-" THEN m + 2 ELSE m + 1
  IN  Char(s, m) = "d" /\ Char(s, d) = "d" /\ d = Len(s)

(* The date: a month-day, a year-month where one is asked for, or a whole date. *)
ParsedDate(s, form) ==
  LET signed == Char(s, 1) \in {"+", "-"}
      year == IF signed THEN Num(s, 2, 3) ELSE Num(s, 1, 2)
      after == IF signed THEN 5 ELSE 3
      dashed == Char(s, after) = "-"
      m == IF dashed THEN after + 1 ELSE after
      d == IF dashed THEN m + 2 ELSE m + 1
      hasDay == form = "yearMonth" => Char(s, m + 1) = (IF dashed THEN "-" ELSE "d")
      md == IF Char(s, 1) = "-" THEN 3 ELSE 1
  IN  IF form = "time" THEN [ok |-> TRUE, next |-> 1, date |-> Date(0, 1, 1)]
      ELSE IF form = "monthDay" /\ MonthDayShape(s)
      THEN [ok |-> TRUE, next |-> Len(s) + 1, date |-> Date(1972, s[md].v, s[Len(s)].v)]
      ELSE [ok   |-> /\ year >= 0 /\ ~(Char(s, 1) = "-" /\ year = 0)
                     /\ Num(s, m, 1) >= 0
                     /\ hasDay => Num(s, d, 1) >= 0 /\ (dashed => Char(s, m + 1) = "-"),
            next |-> IF hasDay THEN d + 1 ELSE m + 1,
            date |-> Date(IF Char(s, 1) = "-" THEN -year ELSE year, Num(s, m, 1),
                          IF hasDay THEN Num(s, d, 1) ELSE 1)]

(* A clock, of a time and of an offset alike: colons at all places or none. *)
Clock(s, i) ==
  LET colon == Char(s, i + 1) = ":"
      m == IF colon THEN i + 2 ELSE i + 1
      hasM == Char(s, m) = "d"
      hasS == hasM /\ Char(s, m + 1) = (IF colon THEN ":" ELSE "d")
      sec == IF colon THEN m + 2 ELSE m + 1
      hasF == hasS /\ Char(s, sec + 1) = "."
  IN  [ok   |-> /\ Char(s, i) = "d" /\ (hasS => Char(s, sec) = "d")
                /\ hasF => Char(s, sec + 2) = "f",
       next |-> IF hasF THEN sec + 3 ELSE IF hasS THEN sec + 1 ELSE IF hasM THEN m + 1 ELSE m,
       hour |-> Num(s, i, 1),
       minute |-> IF hasM THEN Num(s, m, 1) ELSE 0,
       second |-> IF hasS THEN Num(s, sec, 1) ELSE 0,
       frac |-> IF hasF /\ Char(s, sec + 2) = "f" THEN s[sec + 2].v ELSE 0]
NoClock(i) == [ok |-> TRUE, next |-> i, hour |-> 0, minute |-> 0, second |-> 0, frac |-> 0]
ClockNs(c) == timeToNs(<<c.hour, c.minute, c.second, 0, 0, 0>>) + c.frac

OffsetAt(s, i, hasTime, c) ==
  LET some == Char(s, i) \in {"+", "-", "Z"}
  IN  [ok |-> c.ok /\ (some => hasTime) /\ InClock(c.hour, c.minute, c.second),
       next |-> IF Char(s, i) = "Z" THEN i + 1 ELSE c.next,
       z |-> Char(s, i) = "Z",
       ns |-> IF ~some THEN NoOffset ELSE IF Char(s, i) = "-" THEN -ClockNs(c) ELSE ClockNs(c)]
ParsedOffset(s, i, hasTime) ==
  OffsetAt(s, i, hasTime, IF Char(s, i) \in {"+", "-"} THEN Clock(s, i + 1) ELSE NoClock(i))

(* Mutant of parseAnnotations: an unknown annotation may be critical. *)
parseAnnotations_AnyFlag(notes) ==
  LET zones == {i \in DOMAIN notes : notes[i].key = ""}
      cals == {i \in DOMAIN notes : notes[i].key = "u-ca"}
  IN  [ok |-> /\ Cardinality(zones) <= 1 /\ \A z \in zones, c \in cals : z < c
              /\ \A i \in DOMAIN notes : notes[i].value # <<>>
              /\ Cardinality(cals) > 1 => \A c \in cals : ~notes[c].critical,
       zone |-> IF zones = {} THEN <<>> ELSE notes[CHOOSE z \in zones : TRUE].value,
       calendar |-> IF cals = {} THEN ISO ELSE notes[CHOOSE c \in cals : \A d \in cals : c <= d].value]

(* One zone, before any calendar; the first calendar, if none of several is  *)
(* critical; an annotation nobody knows, unless it is critical.              *)
parseAnnotations(notes) ==
  LET zones == {i \in DOMAIN notes : notes[i].key = ""}
      cals == {i \in DOMAIN notes : notes[i].key = "u-ca"}
  IN  [ok |-> /\ Cardinality(zones) <= 1 /\ \A z \in zones, c \in cals : z < c
              /\ \A i \in DOMAIN notes :
                   notes[i].value # <<>> /\ (notes[i].critical => notes[i].key \in {"", "u-ca"})
              /\ Cardinality(cals) > 1 => \A c \in cals : ~notes[c].critical,
       zone |-> IF zones = {} THEN <<>> ELSE notes[CHOOSE z \in zones : TRUE].value,
       calendar |-> IF cals = {} THEN ISO ELSE notes[CHOOSE c \in cals : \A d \in cals : c <= d].value]

(* A date, a time after it, an offset after that, the annotations at the end. *)
Parsed(s, what, date, hasTime, c, o, a) ==
  [ok |-> /\ date.ok /\ c.ok /\ o.ok /\ o.next = Len(s.body) + 1 /\ a.ok
          /\ a.calendar = ISO \/ what = "PlainTime"
          /\ o.z => what \in {"Instant", "ZonedDateTime", "TimeZone"},
   date |-> date.date, hasTime |-> hasTime,
   time |-> [c EXCEPT !.second = IF @ = Radix[3] THEN @ - 1 ELSE @],
   z |-> o.z, offset |-> o.ns, zone |-> a.zone]
AfterTime(s, what, date, hasTime, c) ==
  Parsed(s, what, date, hasTime, c, ParsedOffset(s.body, c.next, hasTime), parseAnnotations(s.notes))
AfterDate(s, what, form, date) ==
  LET T == Char(s.body, date.next) = "T"
      from == IF T THEN date.next + 1 ELSE date.next
  IN  IF form = "time" \/ T THEN AfterTime(s, what, date, TRUE, Clock(s.body, from))
      ELSE AfterTime(s, what, date, FALSE, NoClock(from))
parseTemporalISO(s, what, form) == AfterDate(s, what, form, ParsedDate(s.body, form))

FullDateStart(s) == \/ Char(s, 1) = "d" /\ Char(s, 2) = "d"
                    \/ Char(s, 1) \in {"+", "-"} /\ Char(s, 2) = "d" /\ Char(s, 3) = "d"

(* A zone by its name, or taken from a text that has one. *)
NoZone == <<>>
FixedZone(n) == IF n = NoOffset THEN NoZone ELSE formatOffset(n)
NamedZone(s) == IF s = UTC THEN UTC ELSE FixedZone(parseOffsetNs(s))
TextZone(p) == IF ~p.ok THEN NoZone ELSE IF p.z THEN UTC ELSE FixedZone(p.offset)
ElseRead(named, s) ==
  IF named # NoZone THEN named
  ELSE IF FullDateStart(s) THEN TextZone(parseTemporalISO(Plain(s), "TimeZone", "date"))
  ELSE NoZone
BareZone(s) == ElseRead(NamedZone(s), s)
AnnotatedZone(s, p) ==
  IF ~FullDateStart(s.body) \/ ~p.ok THEN NoZone
  ELSE IF p.zone # <<>> THEN BareZone(p.zone) ELSE TextZone(p)
canonicalZone(s) == IF s.notes = <<>> THEN BareZone(s.body)
                    ELSE AnnotatedZone(s, parseTemporalISO(s, "TimeZone", "date"))
ElseUTC(n) == IF n = NoOffset THEN 0 ELSE n
OffsetOf(z) == ElseUTC(parseOffsetNs(z))

-----------------------------------------------------------------------------
(* The constructors, and `from` of a text. *)

rejectDateTimeRange(x, ns) == DayOf(x) = MIN_EPOCH_DAY /\ ns <= 0
Within(x, ns) ==    \* an instant's range
  DayOf(x) >= MIN_EPOCH_DAY + 1 /\ (DayOf(x) < MAX_EPOCH_DAY \/ (DayOf(x) = MAX_EPOCH_DAY /\ ns = 0))

Legal(k, x, ns) ==
  CASE k = "PlainDate"      -> PlainDate(x) # Fail
    [] k = "PlainDateTime"  -> PlainDate(x) # Fail /\ ~rejectDateTimeRange(x, ns)
    [] k = "PlainYearMonth" -> /\ isValidISODate(x.year, x.month, x.day)
                               /\ epochDayFromISO(x.year, x.month, daysInMonth(x.year, x.month)) >= MIN_EPOCH_DAY
                               /\ epochDayFromISO(x.year, x.month, 1) <= MAX_EPOCH_DAY
    [] k = "PlainMonthDay"  -> isValidISODate(x.year, x.month, x.day)
    [] k = "PlainTime"      -> TRUE
    [] OTHER                -> Within(x, ns)
New(k, x, ns, z) == IF Legal(k, x, ns) THEN Value(k, x, ns, z) ELSE Refused

Midnight(k, x) == New(k, x, 0, <<>>)
NoDate == Date(1970, 1, 1)

isAmbiguousTimeString(s) ==
  LET last == Len(s)
      flat == Char(s, last - 1) # "-"
      head == IF flat THEN last - 1 ELSE last - 2
  IN  /\ Char(s, last) = "d" /\ head \in 1 .. 2 /\ \A i \in 1 .. head : Char(s, i) = "d"
      /\ IF head = 2 THEN s[last].v \in 1 .. 12 ELSE isValidISODate(1972, s[1].v, s[last].v)

(* p is what the parser gives for the text. *)
PlainTimeFromText(s, p) ==
  IF \/ Char(s.body, 1) # "T" /\ isAmbiguousTimeString(s.body)
     \/ ~p.ok \/ ~p.hasTime \/ ~InClock(p.time.hour, p.time.minute, p.time.second)
  THEN Refused ELSE New("PlainTime", NoDate, ClockNs(p.time), <<>>)

PlainDateFromText(p) == IF p.ok THEN Midnight("PlainDate", p.date) ELSE Refused

PlainDateTimeFromText(p) ==
  IF p.ok /\ InClock(p.time.hour, p.time.minute, p.time.second)
  THEN New("PlainDateTime", p.date, ClockNs(p.time), <<>>) ELSE Refused

PlainYearMonthFromText(p) ==
  IF p.ok THEN Midnight("PlainYearMonth", toPlainYearMonth(p.date)) ELSE Refused

PlainMonthDayFromText(p) ==
  IF p.ok /\ isValidISODate(p.date.year, p.date.month, p.date.day)
  THEN Midnight("PlainMonthDay", toPlainMonthDay(p.date)) ELSE Refused

(* An instant's date and time are only counted, never checked. *)
Exactly(k, p, offset, z) ==
  LET u == Shift(p.date, ClockNs(p.time) - offset) IN New(k, u.date, u.ns, z)
InstantFromText(p) ==
  IF p.ok /\ p.offset # NoOffset THEN Exactly("Instant", p, p.offset, <<>>) ELSE Refused

(* The offset in the text locates the instant; the annotation names the zone. *)
InZone(p, z) ==
  IF ~p.ok \/ p.zone = <<>> \/ z = NoZone THEN Refused
  ELSE Exactly("ZonedDateTime", p, IF p.offset = NoOffset THEN OffsetOf(z) ELSE p.offset, z)
ZonedDateTimeFromText(p) == InZone(p, BareZone(p.zone))

Kinds == {"PlainDate", "PlainTime", "PlainDateTime", "PlainYearMonth", "PlainMonthDay",
          "Instant", "ZonedDateTime"}
FormOf(k, s) == CASE k = "PlainTime"      -> IF FullDateStart(s.body) THEN "date" ELSE "time"
                  [] k = "PlainYearMonth" -> "yearMonth"
                  [] k = "PlainMonthDay"  -> "monthDay"
                  [] OTHER                -> "date"
FromParsed(k, s, p) ==
  CASE k = "PlainDate"      -> PlainDateFromText(p)
    [] k = "PlainTime"      -> PlainTimeFromText(s, p)
    [] k = "PlainDateTime"  -> PlainDateTimeFromText(p)
    [] k = "PlainYearMonth" -> PlainYearMonthFromText(p)
    [] k = "PlainMonthDay"  -> PlainMonthDayFromText(p)
    [] k = "Instant"        -> InstantFromText(p)
    [] OTHER                -> ZonedDateTimeFromText(p)
FromText(k, s) == FromParsed(k, s, parseTemporalISO(s, k, FormOf(k, s)))

(* `from` of another object: what it has on its wall clock. *)
localFieldsOf(v) ==
  IF v.kind = "ZonedDateTime" THEN Shift(v.date, v.ns + OffsetOf(v.zone))
  ELSE [date |-> v.date, ns |-> v.ns]
WithDate == {"PlainDate", "PlainDateTime", "ZonedDateTime"}
WithTime == {"PlainTime", "PlainDateTime", "ZonedDateTime"}
(* l is what localFieldsOf gives for v. *)
PlainDateFromValue(v, l) == IF v.kind \in WithDate THEN Midnight("PlainDate", l.date) ELSE Refused
PlainTimeFromValue(v, l) ==
  IF v.kind \in WithTime THEN New("PlainTime", NoDate, l.ns, <<>>) ELSE Refused
PlainDateTimeFromValue(v, l) ==
  IF v.kind \in WithDate THEN New("PlainDateTime", l.date, l.ns, <<>>) ELSE Refused
PlainYearMonthFromValue(v, l) ==
  IF v.kind = "PlainYearMonth" THEN New(v.kind, v.date, 0, <<>>)
  ELSE IF v.kind \in WithDate THEN Midnight("PlainYearMonth", toPlainYearMonth(l.date)) ELSE Refused
PlainMonthDayFromValue(v, l) ==
  IF v.kind = "PlainMonthDay" THEN New(v.kind, v.date, 0, <<>>)
  ELSE IF v.kind \in WithDate THEN Midnight("PlainMonthDay", toPlainMonthDay(l.date)) ELSE Refused
InstantFromValue(v) ==
  IF v.kind \in {"Instant", "ZonedDateTime"} THEN New("Instant", v.date, v.ns, <<>>) ELSE Refused
ZonedDateTimeFromValue(v) ==
  IF v.kind = "ZonedDateTime" THEN New(v.kind, v.date, v.ns, v.zone) ELSE Refused
FromFields(k, v, l) ==
  CASE k = "PlainDate"      -> PlainDateFromValue(v, l)
    [] k = "PlainTime"      -> PlainTimeFromValue(v, l)
    [] k = "PlainDateTime"  -> PlainDateTimeFromValue(v, l)
    [] k = "PlainYearMonth" -> PlainYearMonthFromValue(v, l)
    [] k = "PlainMonthDay"  -> PlainMonthDayFromValue(v, l)
    [] k = "Instant"        -> InstantFromValue(v)
    [] OTHER                -> ZonedDateTimeFromValue(v)
FromValue(k, v) == FromFields(k, v, localFieldsOf(v))

-----------------------------------------------------------------------------
(* toString.  Options: the calendar shown, the smallest unit and its rounding, *)
(* whether offset and zone are shown, and the zone an instant is printed in.   *)

formatYear(y) ==
  LET a == IF y < 0 THEN -y ELSE y
  IN  IF y \in 0 .. 9999 THEN <<D(y \div 100), D(y % 100)>>
      ELSE <<C(IF y < 0 THEN "-" ELSE "+"), D(a \div 10000), D((a \div 100) % 100), D(a % 100)>>
yearMonthToString(x) == formatYear(x.year) \o <<C("-"), D(x.month)>>
plainDateToString(x) == yearMonthToString(x) \o <<C("-"), D(x.day)>>
monthDayToString(x) ==
  IF x.year = 1972 THEN <<D(x.month), C("-"), D(x.day)>> ELSE plainDateToString(x)

(* A fraction is printed without the zeros at its end, and not when it is zero. *)
formatTimeWithPrecision(ns, unit) ==
  LET t == nsToTime(ns)
      frac == ns % Width[7]
  IN  <<D(t[1]), C(":"), D(t[2])>>
      \o (IF unit = "minute" THEN <<>> ELSE <<C(":"), D(t[3])>>)
      \o (IF unit = "nanosecond" /\ frac # 0 THEN <<C("."), F(frac)>> ELSE <<>>)

calendarSuffix(show) == CASE show = "always"   -> <<Note("u-ca", FALSE, ISO)>>
                          [] show = "critical" -> <<Note("u-ca", TRUE, ISO)>>
                          [] OTHER             -> <<>>
Explicit(show) == show \in {"always", "critical"}

DateTimeBody(x, ns, unit) == plainDateToString(x) \o <<C("T")>> \o formatTimeWithPrecision(ns, unit)

(* What toString prints of a time: rounded in its day, or as an exact count. *)
Rounded(v, o) ==
  LET w == UnitNs(o.unit)
      wall == w * applyRounding(v.ns, w, o.mode)
      day == DayOf(v.date)
  IN  IF v.kind \in {"PlainTime", "PlainDateTime"} THEN Shift(v.date, wall)
      ELSE LET n == applyRoundingBig(day * DayNs + v.ns, w, asIfPositive(o.mode))
           IN  [date |-> isoFromEpochDay(n \div DayNs), ns |-> n % DayNs]

Placed(r, offset) == Shift(r.date, r.ns + offset)
InstantText(o, l) ==
  Plain(DateTimeBody(l.date, l.ns, o.unit)
        \o (IF o.tz = NoZone THEN <<C("Z")>> ELSE formatOffset(OffsetOf(o.tz))))
instantToString(v, o) == InstantText(o, Placed(Rounded(v, o), OffsetOf(o.tz)))

ZonedText(v, o, l) ==
  LET zone == IF o.zoneName = "never" THEN <<>> ELSE <<Note("", o.zoneName = "critical", v.zone)>>
  IN  [body |-> DateTimeBody(l.date, l.ns, o.unit)
                \o (IF o.offset = "never" THEN <<>> ELSE formatOffset(OffsetOf(v.zone))),
       notes |-> zone \o calendarSuffix(o.show)]
zonedToString(v, o) == ZonedText(v, o, Placed(Rounded(v, o), OffsetOf(v.zone)))

(* A year-month or month-day shown with its calendar shows its reference day too. *)
toString(v, o) ==
  LET r == Rounded(v, o)
      Noted(s) == [body |-> s, notes |-> calendarSuffix(o.show)]
  IN  CASE v.kind = "PlainDate" \/ (v.kind \in {"PlainYearMonth", "PlainMonthDay"} /\ Explicit(o.show)) ->
             Noted(plainDateToString(v.date))
        [] v.kind = "PlainTime" -> Plain(formatTimeWithPrecision(r.ns, o.unit))
        [] v.kind = "PlainDateTime" -> Noted(DateTimeBody(r.date, r.ns, o.unit))
        [] v.kind = "PlainYearMonth" -> Noted(yearMonthToString(v.date))
        [] v.kind = "PlainMonthDay" -> Noted(monthDayToString(v.date))
        [] v.kind = "Instant" -> instantToString(v, o)
        [] OTHER -> zonedToString(v, o)

addYearMonth(x, f, s) ==
  LET m == x.month + s * f["month"]
  IN  Date(x.year + s * f["year"] + (m - 1) \div 12, ((m - 1) % 12) + 1, 1)

-----------------------------------------------------------------------------
(* The texts and values asked about. *)

ZoneIds == {UTC} \cup {formatOffset(n) : n \in TextOffsets}
NoShow == [show |-> "auto", unit |-> "nanosecond", mode |-> "trunc", offset |-> "auto",
           zoneName |-> "auto", tz |-> NoZone]
Shows(k) ==
  CASE k = "ZonedDateTime" ->
         [show : {"auto", "critical"}, unit : {"minute", "second", "nanosecond"},
          mode : {"trunc", "ceil", "halfEven"}, offset : {"auto", "never"},
          zoneName : {"auto", "never", "critical"}, tz : {NoZone}]
    [] k \in {"PlainDateTime", "PlainTime", "Instant"} ->
         [show : {"auto", "always"}, unit : {"minute", "second", "nanosecond"}, mode : RoundingModes,
          offset : {"auto"}, zoneName : {"auto"}, tz : IF k = "Instant" THEN {NoZone} \cup ZoneIds ELSE {NoZone}]
    [] OTHER -> {[NoShow EXCEPT !.show = c] : c \in {"auto", "always", "never", "critical"}}

Values ==
  UNION {{Value(k, x, 0, <<>>) : x \in TextDates} : k \in {"PlainDate", "PlainYearMonth", "PlainMonthDay"}}
  \cup {Value("PlainTime", NoDate, n, <<>>) : n \in TextClocks}
  \cup UNION {{Value(k, x, n, <<>>) : x \in TextDates, n \in TextClocks} : k \in {"PlainDateTime", "Instant"}}
  \cup {Value("ZonedDateTime", x, n, z) : x \in TextDates, n \in TextClocks, z \in ZoneIds}

DateBodies ==
  LET MD == {<<C("-"), D(2), C("-"), D(29)>>, <<D(2), D(29)>>, <<C("-"), D(4), C("-"), D(31)>>,
             <<C("-"), D(2), D(29)>>, <<C("-"), D(2)>>, <<D(12)>>, <<D(13)>>, <<>>}
  IN  {<<D(20), D(20)>> \o m : m \in MD}
      \cup {<<D(5), D(12)>>, <<D(5), D(12), C("-"), D(2)>>,
            <<C("-"), D(0), D(5), D(12), C("-"), D(2), C("-"), D(29)>>, <<C("-"), D(0), D(0), D(0), D(12)>>,
            <<C("+"), D(27), D(57), D(60), C("-"), D(9), C("-"), D(13)>>, <<C("+"), D(27), D(57), D(60), D(9)>>,
            <<C("+"), D(27), D(57), D(60), D(9), D(14)>>, <<C("-"), D(27), D(18), D(21), D(4), D(19)>>,
            <<C("-"), D(27), D(18), D(21), C("-"), D(4)>>, <<C("-"), D(27), D(18), D(21), D(4), D(20)>>,
            <<C("-"), C("-"), D(2), C("-"), D(29)>>, <<C("-"), C("-"), D(2), D(29)>>,
            <<D(2), C("-"), D(30)>>, <<>>}
TimeBodies ==
  {<<C("T")>>, <<C("T"), D(1)>>, <<C("T"), D(3), D(1), D(2)>>,
   <<C("T"), D(0), C(":"), D(1), C(":"), D(1), C("."), F(1)>>, <<C("T"), D(9), C(":"), D(1)>>,
   <<C("T"), D(1), C(":"), D(1), D(1)>>, <<D(1), C(":"), D(1)>>, <<D(1), D(1), C(".")>>}
OffsetBodies ==
  {<<C("Z")>>, <<C("+"), D(1)>>, <<C("+"), D(1), C(":"), D(1), C(":"), D(1)>>,
   <<C("-"), D(1), D(1), D(1), C("."), F(1)>>, <<C("+"), D(4)>>, <<C("-"), D(0), C(":")>>}
Notes ==
  [key : {"u-ca"}, critical : BOOLEAN, value : {ISO, <<C("gregory")>>}]
  \cup {Note("", FALSE, UTC), Note("", TRUE, <<C("+"), D(1), D(1)>>), Note("", FALSE, <<C("here")>>),
        Note("", FALSE, <<>>),
        Note("", FALSE, <<D(20), D(20), C("-"), D(2), C("-"), D(29), C("T"), D(0), C("-"), D(1)>>)}
Known == Note("foo", FALSE, <<C("bar")>>)

Readable == \E k \in Kinds : FromText(k, text) # Refused

(* A value is printed, or a text is put together from its parts. *)
TextIdle == asked = "nothing" /\ value = Refused /\ shown = NoShow /\ text = Plain(<<>>)
TextInit == /\ shown = NoShow
            /\ \/ asked = "value" /\ value \in Values /\ text = Plain(<<>>)
                  /\ Legal(value.kind, value.date, value.ns)
               \/ asked = "date" /\ value = Refused /\ text \in {Plain(b) : b \in DateBodies}

PrintValue == /\ asked = "value" /\ asked' = "print"
              /\ shown' \in Shows(value.kind)
              /\ text' = toString(value, shown')
              /\ UNCHANGED value
AddTime == /\ asked = "date" /\ asked' = "time"
           /\ \E c \in TimeBodies : text' = [text EXCEPT !.body = @ \o c]
           /\ UNCHANGED <<value, shown>>
AddOffset == /\ asked \in {"date", "time"} /\ asked' = "offset"
             /\ \E o \in OffsetBodies : text' = [text EXCEPT !.body = @ \o o]
             /\ UNCHANGED <<value, shown>>
AddNote == /\ asked \in {"date", "time", "offset", "notes"} /\ asked' = "notes"
           /\ Len(text.notes) < MaxNotes /\ Readable
           /\ \E n \in Notes : text' = [text EXCEPT !.notes = Append(@, n)]
           /\ UNCHANGED <<value, shown>>
TextNext == PrintValue \/ AddTime \/ AddOffset \/ AddNote

-----------------------------------------------------------------------------
Apart(a, b) == (DayOf(b.date) - DayOf(a.date)) * DayNs + b.ns - a.ns

\* What a value prints is read back as the value rounded: to a multiple of the unit, less than
\* a unit away, on the side the mode names, with its zone; without its zone no zoned date-time.
\* (A zone's offset with seconds in it puts them back after the rounding to minutes.)
ReadsBack ==
    \A r \in {FromText(value.kind, text)} :
    LET w == UnitNs(shown.unit)
        delta == Apart(value, r)
        wrapped == IF value.kind = "PlainTime" /\ delta <= -w THEN delta + DayNs ELSE delta
    IN  CASE asked # "print" -> TRUE
          [] value.kind = "PlainYearMonth" -> r = [value EXCEPT !.date.day = 1]
          [] value.kind = "PlainMonthDay" -> r = [value EXCEPT !.date.year = 1972]
          [] value.kind = "PlainDate" -> r = value
          [] value.kind = "ZonedDateTime" /\ shown.zoneName = "never" -> r = Refused
          [] OffsetOf(value.zone \o shown.tz) % w # 0 -> TRUE
          [] OTHER -> /\ r.kind = value.kind /\ r.zone = value.zone
                      /\ r.ns % w = 0 /\ wrapped \in -(w - 1) .. w - 1
                      /\ shown.mode \in {"floor", "trunc"} => wrapped <= 0
                      /\ shown.mode \in {"ceil", "expand"} => wrapped >= 0
                      /\ shown.mode \in RoundingModes \ {"floor", "trunc", "ceil", "expand"} =>
                           2 * wrapped \in -w .. w

\* A moment prints the same as an instant and as a wall clock, whether a whole count or the
\* time since midnight is rounded.
PrintsAgree ==
    asked = "print" /\ value.kind = "PlainDateTime" =>
      toString([value EXCEPT !.kind = "Instant"], shown).body = text.body \o <<C("Z")>>

\* Reading an object and reading what it prints give the same.
ObjectsAgree ==
    asked = "print" /\ shown.unit = "nanosecond" =>
      \A k \in Kinds :
        \A a \in {FromValue(k, value)}, b \in {FromText(k, text)} :
           a # Refused /\ b # Refused /\ k # value.kind => a = b

\* The types read one text alike: who reads the whole reads the parts, no text is a year-month
\* and a month-day unless it is a date, and a bare time is never also one of those.
TypesAgree ==
    \A R \in {[k \in Kinds |-> FromText(k, text)]} :
    LET Reads(k) == R[k] # Refused
        Same(x, y) == x.year = y.year /\ x.month = y.month /\ x.day = y.day
    IN  /\ Reads("PlainDateTime") => Reads("PlainDate") /\ Same(R["PlainDate"].date, R["PlainDateTime"].date)
        /\ Reads("PlainDateTime") /\ Reads("PlainTime") => R["PlainTime"].ns = R["PlainDateTime"].ns
        /\ Reads("PlainDate") => /\ R["PlainYearMonth"].date = toPlainYearMonth(R["PlainDate"].date)
                                 /\ R["PlainMonthDay"].date = toPlainMonthDay(R["PlainDate"].date)
        /\ Reads("PlainYearMonth") /\ Reads("PlainMonthDay") =>
             /\ R["PlainYearMonth"].date.month = R["PlainMonthDay"].date.month
             /\ Reads("PlainDate") \/ PlainDate([R["PlainMonthDay"].date EXCEPT !.year = R["PlainYearMonth"].date.year]) = Fail
        /\ Reads("PlainTime") /\ (\A i \in DOMAIN text.body : text.body[i].t # "T") =>
             ~Reads("PlainYearMonth") /\ ~Reads("PlainMonthDay")
        /\ Reads("Instant") /\ Reads("ZonedDateTime") => R["Instant"].date = R["ZonedDateTime"].date
                                                          /\ R["Instant"].ns = R["ZonedDateTime"].ns
        /\ Reads("ZonedDateTime") => R["ZonedDateTime"].zone = canonicalZone([text EXCEPT !.notes =
                                        SelectSeq(@, LAMBDA n : n.key = "")]) \/ ~FullDateStart(text.body)

\* A zone's name names itself, and an instant printed in the zone of the text it was read from
\* is the same instant.
ZonesSettle ==
    \A z \in {canonicalZone(text)}, i \in {FromText("Instant", text)} :
       z # NoZone =>
         /\ canonicalZone(Plain(z)) = z
         /\ i # Refused /\ DayOf(i.date) \in -10000000 .. 10000000 =>
              FromText("Instant", toString(i, [NoShow EXCEPT !.tz = z])) = i

\* An annotation nobody knows changes nothing, unless it is critical: then nobody reads the text.
NotesHeeded ==
    \A k \in Kinds :
      /\ FromText(k, [text EXCEPT !.notes = Append(@, Known)]) = FromText(k, text)
      /\ FromText(k, [text EXCEPT !.notes = Append(@, [Known EXCEPT !.critical = TRUE])]) = Refused

\* Adding months to a year-month is adding them to its first day.
MonthsAdd ==
    value.kind = "PlainYearMonth" =>
      \A n \in -25 .. 25, s \in {-1, 1} :
        LET f == [u \in Units |-> IF u = "month" THEN n ELSE IF u = "year" THEN 1 ELSE 0]
            x == [value.date EXCEPT !.day = 1]
        IN  addYearMonth(x, f, s) = addMonthsClamped(x, s * (n + 12))

\* A text says the same to every type that reads it, and what is printed is read back.
TextsSurvive ==
    /\ ReadsBack /\ PrintsAgree /\ ObjectsAgree /\ TypesAgree /\ ZonesSettle /\ NotesHeeded
    /\ MonthsAdd
=============================================================================
