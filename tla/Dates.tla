------------------------------- MODULE Dates -------------------------------
(***************************************************************************)
(* pkg/dateutils: the dates a news site shows, the date inside a message,  *)
(* the dates of a query, and the date a client is shown.                   *)
(*                                                                         *)
(* A time is its number of minutes since 1 January of year 1; seconds are  *)
(* left out, and the zone is the program's own.  A text is what it splits  *)
(* into: a date on a page has three or five fields, a time of day is the   *)
(* sequence of the numbers between its colons, a query is the sequences    *)
(* around its "T".  Where Atoi finds no number there is NaN.               *)
(***************************************************************************)
EXTENDS Integers, Sequences

DayLength == 1440
NaN == -1

-----------------------------------------------------------------------------
\* The calendar of package time.

IsLeap(y) == y % 4 = 0 /\ (y % 100 # 0 \/ y % 400 = 0)

DaysBeforeYear(y) ==
  LET z == y - 1 IN 365 * z + z \div 4 - z \div 100 + z \div 400

DaysBeforeMonth(y, m) ==
  <<0, 31, 59, 90, 120, 151, 181, 212, 243, 273, 304, 334>>[m]
  + IF m > 2 /\ IsLeap(y) THEN 1 ELSE 0

\* time.Date: months, days, hours and minutes out of range are carried over.
Date(y, mo, d, h, mi) ==
  LET year  == y + (mo - 1) \div 12
      month == ((mo - 1) % 12) + 1
  IN  (DaysBeforeYear(year) + DaysBeforeMonth(year, month) + d - 1) * DayLength
      + 60 * h + mi

DayNumber(t) == t \div DayLength

Year(t) ==
  CHOOSE z \in DayNumber(t) \div 366 + 1 .. DayNumber(t) \div 365 + 1 :
    Date(z, 1, 1, 0, 0) <= t /\ t < Date(z + 1, 1, 1, 0, 0)
Month(t) ==
  CHOOSE m \in 1 .. 12 :
    Date(Year(t), m, 1, 0, 0) <= t /\ t < Date(Year(t), m + 1, 1, 0, 0)
Day(t) == DayNumber(t) - DayNumber(Date(Year(t), Month(t), 1, 0, 0)) + 1
Hour(t) == (t % DayLength) \div 60
Minute(t) == t % 60

-----------------------------------------------------------------------------
\* Results of a parse: a time, an error, or a panic.

Parsed(t) == [kind |-> "time", t |-> t]
ParseError == [kind |-> "error", t |-> 0]
Panics == [kind |-> "panic", t |-> 0]

\* The time of day on a given day: parseHour, then parseMinute, which indexes
\* what is behind the colon without asking whether there is one.
OnDay(y, m, d, time) ==
  IF time[1] = NaN THEN ParseError
  ELSE IF Len(time) = 1 THEN Panics
  ELSE IF time[2] = NaN THEN ParseError
  ELSE Parsed(Date(y, m, d, time[1], time[2]))

\* Variants: only the day is yesterday's; tomorrow is taken for yesterday.
YesterdayOfThisMonth(word, time, now) ==
  IF word = "today" THEN OnDay(Year(now), Month(now), Day(now), time)
  ELSE IF word = "yesterday"
  THEN OnDay(Year(now), Month(now), Day(now - DayLength), time)
  ELSE ParseError

YesterdayAhead(word, time, now) ==
  LET that == CASE word = "today" -> now [] OTHER -> now + DayLength
  IN  OnDay(Year(that), Month(that), Day(that), time)

ParseRelativeDate(word, time, now) ==
  LET that == IF word = "today" THEN now ELSE now - DayLength
  IN  IF word \in {"today", "yesterday"}
      THEN OnDay(Year(that), Month(that), Day(that), time)
      ELSE ParseError

\* A month that UA_MONTH does not have is 0.
ParseAbsoluteDate(day, month, year, time) ==
  IF month = 0 \/ year = NaN \/ day = NaN THEN ParseError
  ELSE OnDay(year, month, day, time)

ParseDateUA(shown, now) ==
  CASE shown.fields = 3 -> ParseRelativeDate(shown.day, shown.time, now)
    [] shown.fields = 5 -> ParseAbsoluteDate(shown.day, shown.month, shown.year,
                                             shown.time)
    [] OTHER -> ParseError

-----------------------------------------------------------------------------
\* The date of a message: time.Layout has two digits for the year.

ToString(t) == [month |-> Month(t), day |-> Day(t), time |-> t % DayLength,
                year |-> Year(t) % 100]

\* A variant: two digits are years since 2000.
ParseStringSince2000(s) == Date(2000 + s.year, s.month, s.day, 0, s.time)

ParseString(s) ==
  Date(s.year + IF s.year >= 69 THEN 1900 ELSE 2000, s.month, s.day, 0, s.time)

-----------------------------------------------------------------------------
\* The date of a query, and the date shown in an answer.

\* A variant: an off-by-one in the test of the month.
ParseMonthBelow12(month) == IF month >= 12 THEN NaN ELSE month

\* A month above 12 is refused; one below 1 is not.
ParseMonth(month) == IF month > 12 THEN NaN ELSE month

ParseQueryString(q) ==
  LET time == IF q.time = <<>> THEN <<0, 0>> ELSE q.time
      date == q.date
  IN  IF OnDay(1, 1, 1, time).kind # "time" THEN OnDay(1, 1, 1, time)
      ELSE IF Len(date) # 3 THEN ParseError
      ELSE IF date[1] = NaN \/ ParseMonth(date[2]) = NaN \/ date[3] = NaN
      THEN ParseError
      ELSE Parsed(ParseString(ToString(OnDay(date[1], date[2], date[3], time).t)))

Pretify(t) == [time |-> <<Hour(t), Minute(t)>>, day |-> Day(t),
               month |-> Month(t), year |-> Year(t)]
=============================================================================
