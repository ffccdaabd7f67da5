----------------------------- MODULE DateSyntax -----------------------------
(* Dates, as HeaderParsing::parseDateTime and parseQDateTime read them and *)
(* Headers::Date prints them.  In a date the names of days, months and     *)
(* zones are one symbol each; digits and punctuation are symbols of their  *)
(* own.  Offsets from UTC are in minutes.  Every comment starts with a     *)
(* ParserState of its own.                                                 *)
EXTENDS HeaderSyntax, Integers

CONSTANT IntMax                              \* std::numeric_limits<int>::max()

ASSUME IntMaxAssumption == IntMax \in Nat /\ IntMax >= 9999

DayNames   == <<"Sun", "Mon", "Tue", "Wed", "Thu", "Fri", "Sat">>
MonthNames == <<"Jan", "Feb", "Mar", "Apr", "May", "Jun",
                "Jul", "Aug", "Sep", "Oct", "Nov", "Dec">>

timeZones ==
  << <<"GMT", 0>>, <<"UT", 0>>, <<"EDT", -4>>, <<"EST", -5>>, <<"MST", -5>>, <<"CST", -6>>,
     <<"MDT", -6>>, <<"MST", -7>>, <<"PDT", -7>>, <<"PST", -8>>,
     <<"CET", 1>>, <<"MET", 1>>, <<"UTC", 0>>, <<"CEST", 2>>, <<"BST", 1>>,
     <<"Z", 0>>, <<"A", -1>>, <<"B", -2>>, <<"C", -3>>, <<"D", -4>>, <<"E", -5>>, <<"F", -6>>,
     <<"G", -7>>, <<"H", -8>>, <<"I", -9>>, <<"K", -10>>, <<"L", -11>>, <<"M", -12>>,
     <<"N", 1>>, <<"O", 2>>, <<"P", 3>>, <<"Q", 4>>, <<"R", 5>>, <<"S", 6>>, <<"T", 7>>,
     <<"U", 8>>, <<"V", 9>>, <<"W", 10>>, <<"X", 11>>, <<"Y", 12>> >>

DigitNames == <<"0", "1", "2", "3", "4", "5", "6", "7", "8", "9">>
IsDigit(c) == \E n \in 1..10 : DigitNames[n] = c
DigitOf(c) == CHOOSE n \in 0..9 : DigitNames[n + 1] = c
IndexIn(names, c) == CHOOSE n \in DOMAIN names : names[n] = c
IsIn(names, c) == \E n \in DOMAIN names : names[n] = c

Skip(s, i) == EatCFWS(s, i, Fresh(TRUE)).at

Got(i, val) == Okay(i, val, Fresh(TRUE))
None(i)     == Fail(i, Fresh(TRUE))

(* parseDigits: the number of digits, the value and the cursor; a number   *)
(* that does not fit counts as no digits.                                  *)
\* Mutant: a number of any length is accepted.
NeverOverflows(n) == FALSE

Overflows(n) == n > IntMax

RECURSIVE InDigits(_, _, _, _)
InDigits(s, i, n, val) ==
  LET next == 10 * val + DigitOf(s[i])
  IN IF ~IsDigit(At(s, i)) THEN [n |-> n, at |-> i, val |-> val]
     ELSE IF Overflows(next) THEN [n |-> 0, at |-> i, val |-> 0]
     ELSE InDigits(s, i + 1, n + 1, next)

Digits(s, i) == InDigits(s, i, 0, 0)

(* parseTimeOfDay: hours, minutes and, when a ":" follows, seconds.        *)
Seconds(hour, min, sec) ==
  IF sec.n = 0 THEN None(sec.at) ELSE Got(sec.at, [hour |-> hour, min |-> min, sec |-> sec.val])

BehindMinutes(s, i, hour, min) ==
  IF At(s, i) = ":" THEN Seconds(hour, min, Digits(s, Skip(s, i + 1)))
                    ELSE Got(i, [hour |-> hour, min |-> min, sec |-> 0])

Minutes(s, hour, min) ==
  IF min.n = 0 THEN None(min.at) ELSE BehindMinutes(s, Skip(s, min.at), hour, min.val)

BehindHours(s, i, hour) ==
  IF At(s, i) = ":" THEN Minutes(s, hour, Digits(s, Skip(s, i + 1))) ELSE None(i)

Hours(s, hour) ==
  IF hour.n = 0 THEN None(hour.at) ELSE BehindHours(s, Skip(s, hour.at), hour.val)

TimeOfDay(s, i) == Hours(s, Digits(s, i))

(* The numerical zone after its sign: 0200 or 02:00.                       *)
InMinutes(hhmm) == (hhmm \div 100) * 60 + (hhmm % 100)

MinutesOfZone(hours, mm) ==
  IF mm.n = 2 THEN Got(mm.at, InMinutes(hours * 100 + mm.val)) ELSE None(mm.at)

HoursOfZone(s, hhmm) ==
  IF hhmm.n = 4 THEN Got(hhmm.at, InMinutes(hhmm.val))
  ELSE IF hhmm.n = 2 /\ At(s, hhmm.at) = ":" THEN MinutesOfZone(hhmm.val, Digits(s, hhmm.at + 1))
  ELSE None(hhmm.at)

NumericZone(s, i) == HoursOfZone(s, Digits(s, i))

(* parseAlphaNumericTimeZone: the first entry of the table with the name;  *)
(* an unknown zone is UTC.  Quotes around a zone are accepted.             *)
AlphaNumericTimeZone(s, i) ==
  LET from  == IF At(s, i) = "\"" THEN i + 1 ELSE i
      to    == TokenEnd(s, from, {})
      name  == Cut(s, from, to)
      Named(n) == name = <<timeZones[n][1]>>
      first == CHOOSE n \in DOMAIN timeZones : Named(n) /\ \A m \in 1..n - 1 : ~Named(m)
  IN IF to = from THEN None(to)
     ELSE IF \A n \in DOMAIN timeZones : ~Named(n) THEN Got(to, 0)
     ELSE Got(IF At(s, to) = "\"" THEN to + 1 ELSE to, 60 * timeZones[first][2])

(* parseTime: the zone may be missing.                                     *)
WithZone(t, i, offset) ==
  Got(i, [hour |-> t.hour, min |-> t.min, sec |-> t.sec, offset |-> offset])

Zone(z, t, sign) == IF z.ok THEN WithZone(t, z.at, IF sign = "-" THEN -z.val ELSE z.val) ELSE z

BehindTimeOfDay(s, i, t) ==
  IF At(s, i) = "end" \/ IsDigit(At(s, i)) THEN WithZone(t, i, 0)
  ELSE IF At(s, i) \in {"+", "-"} THEN Zone(NumericZone(s, i + 1), t, At(s, i))
  ELSE Zone(AlphaNumericTimeZone(s, i), t, "+")

ZoneOf(s, t) == IF t.ok THEN BehindTimeOfDay(s, Skip(s, t.at), t.val) ELSE t

Time(s, i) == ZoneOf(s, TimeOfDay(s, Skip(s, i)))

-----------------------------------------------------------------------------
(* QDate, QTime and QTimeZone, external.                                   *)
IsLeap(year) == ((year % 4) = 0 /\ (year % 100) # 0) \/ (year % 400) = 0
DaysIn(year, month) == IF month = 2 THEN IF IsLeap(year) THEN 29 ELSE 28
                       ELSE IF month \in {4, 6, 9, 11} THEN 30 ELSE 31
MaxOffset == 16 * 60

IsValidDate(d) == d.year # 0 /\ d.month \in 1..12 /\ d.day \in 1..DaysIn(d.year, d.month)
IsValidTime(t) == t.hour < 24 /\ t.min < 60 /\ t.sec < 60

(* RFC 2822 4.3: years of two and three digits.                            *)
FullYear(year) == IF year < 50 THEN year + 2000
                  ELSE IF year < 1000 THEN year + 1900 ELSE year

(* parseDateTime: an optional day name, day and month in either order,     *)
(* then year and time in either order; the time may be missing, and then   *)
(* the year stays as it is written.  The bounds of the three-letter names  *)
(* are left out with their letters.                                        *)
DateAndTime(i, date, time) ==
  IF IsValidDate(date) /\ IsValidTime(time) /\ time.offset \in -MaxOffset..MaxOffset
    THEN Got(i, [date |-> date, time |-> time]) ELSE None(i)

DateOf(date, year) == [date EXCEPT !.year = year]

Modern(i, date, year, t) ==
  IF year < 1900 THEN None(i) ELSE DateAndTime(i, DateOf(date, year), t)

YearBehindTime(date, year, t) ==
  IF year.n = 0 THEN None(year.at) ELSE Modern(year.at, date, FullYear(year.val), t)

TimeThenYear(s, date, t) ==
  IF t.ok THEN YearBehindTime(date, Digits(s, Skip(s, t.at)), t.val) ELSE t

TimeBehindYear(date, year, t) == IF t.ok THEN Modern(t.at, date, FullYear(year), t.val) ELSE t

BehindYear(s, i, date, year) ==
  IF At(s, i) = "end"
    THEN DateAndTime(i, DateOf(date, year), [hour |-> 0, min |-> 0, sec |-> 0, offset |-> 0])
    ELSE TimeBehindYear(date, year, Time(s, i))

YearThenTime(s, date, year) ==
  IF year.n = 0 THEN None(year.at) ELSE BehindYear(s, Skip(s, year.at), date, year.val)

YearAndTime(s, i, date) ==
  IF At(s, i) = "end" THEN None(i)
  ELSE IF i + 3 <= Len(s) /\ ":" \in {s[i + 1], s[i + 2]} THEN TimeThenYear(s, date, Time(s, i))
  ELSE YearThenTime(s, date, Digits(s, i))

BehindMonth(s, i, day, month) ==
  IF IsIn(MonthNames, month)
    THEN YearAndTime(s, Skip(s, i), [year |-> 0, month |-> IndexIn(MonthNames, month), day |-> day])
    ELSE None(i)

(* The cursor behind the day and a comma.  month is "none" when it follows. *)
BehindComma(s, i, day, month) ==
  BehindMonth(s, IF month = "none" THEN i + 1 ELSE i, day,
              IF month = "none" THEN At(s, i) ELSE month)

BehindDay(s, i, day, month) ==
  IF At(s, i) = "end" THEN None(i)
  ELSE BehindComma(s, IF At(s, i) = "," THEN i + 1 ELSE i, day, month)

DayOf(s, day, month) ==
  IF day.n = 0 THEN None(day.at) ELSE BehindDay(s, Skip(s, day.at), day.val, month)

DayAndMonth(s, i) ==
  DayOf(s, Digits(s, IF IsIn(MonthNames, At(s, i)) THEN Skip(s, i + 1) ELSE i),
        IF IsIn(MonthNames, At(s, i)) THEN At(s, i) ELSE "none")

BehindDayName(s, i) == IF At(s, i) = "," THEN Skip(s, i + 1) ELSE i

DateTimeAt(s, i) ==
  DayAndMonth(s, IF IsIn(DayNames, At(s, i)) THEN BehindDayName(s, Skip(s, i + 1)) ELSE i)

DateTime(s) == DateTimeAt(s, Skip(s, 1))

(* parseQDateTime: "dd/MM/yy HH:mm:ss".  QDateTime::fromString takes yy as  *)
(* a year after 1900, so there is no 29/02/00; then a century is added.     *)
QDateTime(s) ==
  LET i == Skip(s, 1)
      Two(j) == 10 * DigitOf(s[i + j]) + DigitOf(s[i + j + 1])
      date == [year |-> 1900 + Two(6), month |-> Two(3), day |-> Two(0)]
      time == [hour |-> Two(9), min |-> Two(12), sec |-> Two(15), offset |-> 0]
      separators == <<"", "", "/", "", "", "/", "", "", " ", "", "", ":", "", "", ":", "", "">>
  IN IF i + 16 > Len(s) THEN None(i)
     ELSE IF /\ \A j \in 1..17 : IF separators[j] = "" THEN IsDigit(s[i + j - 1])
                                 ELSE s[i + j - 1] = separators[j]
             /\ IsValidDate(date) /\ IsValidTime(time)
       THEN Got(i + 17, [date |-> [date EXCEPT !.year = @ + 100], time |-> time]) ELSE None(i)

-----------------------------------------------------------------------------
(* QLocale and QDateTime::toString, external: "Mon, 01 Jun 2026 10:00:00   *)
(* +0200".  The day of the week is any: no parser looks at which it is.    *)
Two(n)  == <<DigitNames[(n \div 10) + 1], DigitNames[(n % 10) + 1]>>
Four(n) == Two(n \div 100) \o Two(n % 100)
Abs(n)  == IF n < 0 THEN -n ELSE n

PrintDateTime(v) ==
  <<DayNames[1], ",", " ">> \o Two(v.date.day) \o <<" ", MonthNames[v.date.month], " ">>
  \o Four(v.date.year) \o <<" ">> \o Two(v.time.hour) \o <<":">> \o Two(v.time.min)
  \o <<":">> \o Two(v.time.sec) \o <<" ", IF v.time.offset < 0 THEN "-" ELSE "+">>
  \o Four((100 * (Abs(v.time.offset) \div 60)) + (Abs(v.time.offset) % 60))
=============================================================================
