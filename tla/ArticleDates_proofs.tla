------------------------ MODULE ArticleDates_proofs ------------------------
(***************************************************************************)
(* Theorems about the way of a date, for any publication, any course of    *)
(* the clock, any zone of the site and whatever a page may show: what the  *)
(* calendar of package time computes, and that a date survives its way     *)
(* through a page, a message, a row, an answer and a query.                *)
(***************************************************************************)
EXTENDS ArticleDates, SequenceTheorems, WellFoundedInduction, TLAPS

-----------------------------------------------------------------------------
\* The calendar.

LeapDay(y) == IF IsLeap(y) THEN 1 ELSE 0

LEMMA YearLength ==
  ASSUME NEW y \in Nat, y > 0
  PROVE  /\ DaysBeforeYear(y) \in Nat /\ LeapDay(y) \in {0, 1}
         /\ DaysBeforeYear(y + 1) = DaysBeforeYear(y) + 365 + LeapDay(y)
<1>1. DaysBeforeYear(y) \in Nat
  BY DEF DaysBeforeYear
<1>2. DaysBeforeYear(y + 1) = DaysBeforeYear(y) + 365 + LeapDay(y)
  BY DEF DaysBeforeYear, IsLeap, LeapDay
<1> QED BY <1>1, <1>2 DEF LeapDay

LEMMA YearsAscend ==
  ASSUME NEW x \in Nat, NEW y \in Nat, x > 0, x <= y
  PROVE  DaysBeforeYear(x) <= DaysBeforeYear(y)
BY DEF DaysBeforeYear

\* The years that Year looks through begin early and end late enough.
LEMMA YearWindow ==
  ASSUME NEW d \in Nat
  PROVE  /\ d \div 366 + 1 \in Nat /\ d \div 366 + 1 > 0 /\ d \div 365 + 1 \in Nat
         /\ d \div 366 + 1 <= d \div 365 + 1
         /\ DaysBeforeYear(d \div 366 + 1) <= d
         /\ d < DaysBeforeYear(d \div 365 + 1 + 1)
<1>1. DaysBeforeYear(d \div 366 + 1) <= d
  BY DEF DaysBeforeYear
<1>2. d < DaysBeforeYear(d \div 365 + 1 + 1)
  BY DEF DaysBeforeYear
<1>3. d \div 366 + 1 \in Nat /\ d \div 366 + 1 > 0 /\ d \div 365 + 1 \in Nat
      /\ d \div 366 + 1 <= d \div 365 + 1
  OBVIOUS
<1> QED BY <1>1, <1>2, <1>3

\* A month begins at most 334 days after its year, in a leap year 335.
BeginsInYear(y, m) ==
  DaysBeforeMonth(y, m) \in Nat /\ DaysBeforeMonth(y, m) <= 334 + LeapDay(y)

LEMMA MonthStarts ==
  ASSUME NEW y \in Nat, NEW m \in 1 .. 12
  PROVE  BeginsInYear(y, m)
<1>1. m \in {1, 2, 3, 4, 5, 6, 7, 8, 9, 10, 11, 12}
  OBVIOUS
<1> QED BY <1>1 DEF BeginsInYear, DaysBeforeMonth, LeapDay

LEMMA EndsOfYear ==
  ASSUME NEW y \in Nat
  PROVE  DaysBeforeMonth(y, 1) = 0 /\ DaysBeforeMonth(y, 12) = 334 + LeapDay(y)
BY DEF DaysBeforeMonth, LeapDay

\* A month has at most 31 days.
LEMMA MonthLength ==
  ASSUME NEW y \in Nat, NEW m \in 1 .. 11
  PROVE  DaysBeforeMonth(y, m + 1) <= DaysBeforeMonth(y, m) + 31
<1>1. m \in {1, 2, 3, 4, 5, 6, 7, 8, 9, 10, 11}
  OBVIOUS
<1> QED BY <1>1 DEF DaysBeforeMonth

\* The month after the last one is the first one of the next year.
LEMMA NextYear ==
  ASSUME NEW y \in Nat
  PROVE  Date(y, 13, 1, 0, 0) = Date(y + 1, 1, 1, 0, 0)
<1>1. /\ y + (13 - 1) \div 12 = y + 1 /\ ((13 - 1) % 12) + 1 = 1
      /\ y + 1 + (1 - 1) \div 12 = y + 1 /\ ((1 - 1) % 12) + 1 = 1
  OBVIOUS
<1> QED BY <1>1 DEF Date

LEMMA DayOf ==
  ASSUME NEW t \in Nat
  PROVE  /\ DayNumber(t) \in Nat /\ t % DayLength \in 0 .. DayLength - 1
         /\ t = DayNumber(t) * DayLength + (t % DayLength)
         /\ 60 * Hour(t) + Minute(t) = t % DayLength
         /\ Hour(t) \in Nat /\ Minute(t) \in Nat
<1>1. /\ t \div 1440 \in Nat /\ t % 1440 \in 0 .. 1440 - 1
      /\ t = (t \div 1440) * 1440 + (t % 1440)
  OBVIOUS
<1>2. 60 * ((t % 1440) \div 60) + (t % 60) = t % 1440
  OBVIOUS
<1>3. (t % 1440) \div 60 \in Nat /\ t % 60 \in Nat
  OBVIOUS
<1> QED BY <1>1, <1>2, <1>3 DEF DayNumber, DayLength, Hour, Minute

\* The beginning of a day is before a time, or is not, as its number says.
LEMMA DayBegins ==
  ASSUME NEW t \in Nat, NEW d \in Int
  PROVE  /\ d * DayLength <= t <=> d <= DayNumber(t)
         /\ t < d * DayLength <=> DayNumber(t) < d
<1>1. /\ d * 1440 <= t <=> d <= t \div 1440
      /\ t < d * 1440 <=> t \div 1440 < d
  OBVIOUS
<1> QED BY <1>1 DEF DayNumber, DayLength

\* A sequence of times that begins before t and ends after it passes t somewhere.
LEMMA Crossing ==
  ASSUME NEW a \in Nat, NEW b \in Nat, a <= b, NEW f, NEW t \in Int,
         \A z \in a .. b + 1 : f[z] \in Int,
         f[a] <= t, t < f[b + 1]
  PROVE  \E z \in a .. b : f[z] <= t /\ t < f[z + 1]
<1> DEFINE T == {z \in a .. b : t < f[z + 1]}
<1>1. T \subseteq Nat /\ b \in T
  OBVIOUS
<1>2. PICK x \in T : \A y \in T : ~ (<<y, x>> \in OpToRel(<, Nat))
  <2> HIDE DEF T
  <2> QED BY <1>1, WFMin, NatLessThanWellFounded
<1>3. CASE x = a
  BY <1>3
<1>4. CASE x # a
  <2>1. x \in Nat /\ x - 1 \in a .. b /\ x - 1 \in Nat /\ x - 1 < x /\ x - 1 + 1 = x
    BY <1>4
  <2>2. <<x - 1, x>> \in OpToRel(<, Nat)
    BY <2>1 DEF OpToRel
  <2>3. x - 1 \notin T
    BY <1>2, <2>2
  <2>4. ~ (t < f[x])
    BY <2>1, <2>3
  <2>5. f[x] \in Int /\ f[x] <= t
    BY <2>1, <2>4
  <2> QED BY <2>5
<1> QED BY <1>3, <1>4

\* What Year finds: the year that the day is in.
LEMMA YearOf ==
  ASSUME NEW t \in Nat
  PROVE  /\ Year(t) \in Nat /\ Year(t) > 0
         /\ DaysBeforeYear(Year(t)) <= DayNumber(t)
         /\ DayNumber(t) < DaysBeforeYear(Year(t) + 1)
<1> DEFINE d == DayNumber(t)
           a == d \div 366 + 1
           b == d \div 365 + 1
           f == [z \in a .. b + 1 |-> DaysBeforeYear(z)]
           InYear(z) == Date(z, 1, 1, 0, 0) <= t /\ t < Date(z + 1, 1, 1, 0, 0)
<1>1. d \in Nat
  BY DayOf
<1>2. a \in Nat /\ a > 0 /\ b \in Nat /\ a <= b
      /\ DaysBeforeYear(a) <= d /\ d < DaysBeforeYear(b + 1)
  BY <1>1, YearWindow
<1> HIDE DEF d, a, b
<1>3. ASSUME NEW z \in a .. b
      PROVE  /\ InYear(z) <=> DaysBeforeYear(z) <= d /\ d < DaysBeforeYear(z + 1)
             /\ z \in Nat /\ z > 0
  <2>1. z \in Nat /\ z > 0 /\ z + 1 \in Nat /\ z + 1 > 0
    BY <1>2
  <2>2. /\ Date(z, 1, 1, 0, 0) = DaysBeforeYear(z) * DayLength
        /\ Date(z + 1, 1, 1, 0, 0) = DaysBeforeYear(z + 1) * DayLength
        /\ DaysBeforeYear(z) \in Nat /\ DaysBeforeYear(z + 1) \in Nat
    <3>1. ASSUME NEW y \in Nat, y > 0
          PROVE  /\ DaysBeforeYear(y) \in Nat
                 /\ Date(y, 1, 1, 0, 0) = DaysBeforeYear(y) * DayLength
      <4>1. 1 \in 1 .. 12 /\ 1 \in Int /\ 0 \in Int
        OBVIOUS
      <4>2. DaysBeforeMonth(y, 1) = 0 /\ DaysBeforeYear(y) \in Nat /\ DayLength \in Nat
        BY <3>1, EndsOfYear, YearLength DEF DayLength
      <4>3. y + (1 - 1) \div 12 = y /\ ((1 - 1) % 12) + 1 = 1
        OBVIOUS
      <4>4. Date(y, 1, 1, 0, 0)
              = (DaysBeforeYear(y) + DaysBeforeMonth(y, 1) + 1 - 1) * DayLength + 60 * 0 + 0
        BY <4>3 DEF Date
      <4> QED BY <4>2, <4>4
    <3> QED BY <2>1, <3>1
  <2>3. DaysBeforeYear(z) * DayLength <= t <=> DaysBeforeYear(z) <= d
    <3>1. DaysBeforeYear(z) \in Int
      BY <2>2
    <3> QED BY <3>1, DayBegins DEF d
  <2>4. t < DaysBeforeYear(z + 1) * DayLength <=> d < DaysBeforeYear(z + 1)
    <3>1. DaysBeforeYear(z + 1) \in Int
      BY <2>2
    <3> QED BY <3>1, DayBegins DEF d
  <2> QED BY <2>1, <2>2, <2>3, <2>4
<1>4. \E z \in a .. b : DaysBeforeYear(z) <= d /\ d < DaysBeforeYear(z + 1)
  <2>1. \A z \in a .. b + 1 : f[z] = DaysBeforeYear(z) /\ f[z] \in Int
    BY <1>2, YearLength
  <2>2. a \in a .. b + 1 /\ b + 1 \in a .. b + 1
    BY <1>2
  <2>3. f[a] <= d /\ d < f[b + 1]
    BY <1>2, <2>1, <2>2
  <2> HIDE DEF f
  <2>4. PICK z \in a .. b : f[z] <= d /\ d < f[z + 1]
    BY <1>1, <1>2, <2>1, <2>3, Crossing
  <2>5. z \in a .. b + 1 /\ z + 1 \in a .. b + 1
    BY <1>2
  <2> QED BY <2>1, <2>4, <2>5
<1>5. Year(t) = CHOOSE z \in a .. b : InYear(z)
  BY DEF Year, a, b, d
<1>6. Year(t) \in a .. b /\ InYear(Year(t))
  <2>1. \E z \in a .. b : InYear(z)
    BY <1>3, <1>4
  <2> HIDE DEF InYear
  <2> QED BY <1>5, <2>1
<1> QED BY <1>3, <1>6 DEF d

\* A day is in no other year.
LEMMA YearIs ==
  ASSUME NEW t \in Nat, NEW z \in Nat, z > 0,
         DaysBeforeYear(z) <= DayNumber(t), DayNumber(t) < DaysBeforeYear(z + 1)
  PROVE  Year(t) = z
<1>1. /\ Year(t) \in Nat /\ Year(t) > 0 /\ DaysBeforeYear(Year(t)) <= DayNumber(t)
      /\ DayNumber(t) < DaysBeforeYear(Year(t) + 1) /\ DayNumber(t) \in Nat
  BY YearOf, DayOf
<1>2. PICK y \in Nat : y = Year(t) /\ y > 0
  BY <1>1
<1>3. ~ (y + 1 <= z)
  <2>1. SUFFICES ASSUME y + 1 <= z PROVE FALSE
    OBVIOUS
  <2>2. DaysBeforeYear(y + 1) <= DaysBeforeYear(z)
    BY <2>1, YearsAscend
  <2>3. DaysBeforeYear(y + 1) \in Nat /\ DaysBeforeYear(z) \in Nat
    BY YearLength
  <2> QED BY <1>1, <1>2, <2>2, <2>3
<1>4. ~ (z + 1 <= y)
  <2>1. SUFFICES ASSUME z + 1 <= y PROVE FALSE
    OBVIOUS
  <2>2. DaysBeforeYear(z + 1) <= DaysBeforeYear(y)
    BY <2>1, YearsAscend
  <2>3. DaysBeforeYear(z + 1) \in Nat /\ DaysBeforeYear(y) \in Nat
    BY <1>2, YearLength
  <2> QED BY <1>1, <1>2, <2>2, <2>3
<1> QED BY <1>2, <1>3, <1>4

\* A later time is in no earlier year.
LEMMA YearsGoOn ==
  ASSUME NEW t \in Nat, NEW u \in Nat, DayNumber(t) <= DayNumber(u)
  PROVE  Year(t) <= Year(u)
<1>1. PICK x \in Nat : x = Year(t) /\ x > 0 /\ DaysBeforeYear(x) <= DayNumber(t)
  BY YearOf
<1>2. PICK y \in Nat : y = Year(u) /\ y > 0 /\ DayNumber(u) < DaysBeforeYear(y + 1)
  BY YearOf
<1>3. SUFFICES ASSUME y + 1 <= x PROVE FALSE
  BY <1>1, <1>2
<1>4. DaysBeforeYear(y + 1) <= DaysBeforeYear(x)
  BY <1>3, YearsAscend
<1>5. DaysBeforeYear(y + 1) \in Nat /\ DaysBeforeYear(x) \in Nat
  BY <1>1, <1>2, YearLength
<1> QED BY <1>1, <1>2, <1>4, <1>5, DayOf

LEMMA MonthBegins ==
  ASSUME NEW y \in Nat, y > 0, NEW m \in 1 .. 12
  PROVE  /\ DaysBeforeYear(y) + DaysBeforeMonth(y, m) \in Nat
         /\ Date(y, m, 1, 0, 0) = (DaysBeforeYear(y) + DaysBeforeMonth(y, m)) * DayLength
<1>1. (m - 1) \div 12 = 0 /\ (m - 1) % 12 = m - 1
  OBVIOUS
<1>2. y + (m - 1) \div 12 = y /\ ((m - 1) % 12) + 1 = m
  BY <1>1
<1>3. Date(y, m, 1, 0, 0)
        = (DaysBeforeYear(y) + DaysBeforeMonth(y, m) + 1 - 1) * DayLength + 60 * 0 + 0
  BY <1>2 DEF Date
<1>4. DaysBeforeYear(y) \in Nat /\ DaysBeforeMonth(y, m) \in Nat /\ DayLength \in Nat
  <2>1. DaysBeforeYear(y) \in Nat
    BY YearLength
  <2>2. DaysBeforeMonth(y, m) \in Nat
    BY MonthStarts DEF BeginsInYear
  <2> QED BY <2>1, <2>2 DEF DayLength
<1> QED BY <1>3, <1>4

\* What Month and Day find.
LEMMA MonthOf ==
  ASSUME NEW t \in Nat
  PROVE  /\ Month(t) \in 1 .. 12 /\ Day(t) \in 1 .. 31
         /\ DayNumber(t) = DaysBeforeYear(Year(t))
                             + DaysBeforeMonth(Year(t), Month(t)) + Day(t) - 1
<1>1. PICK y \in Nat : /\ y = Year(t) /\ y > 0
                       /\ DaysBeforeYear(y) <= DayNumber(t)
                       /\ DayNumber(t) < DaysBeforeYear(y + 1)
  BY YearOf
<1>2. PICK n \in Nat : n = DayNumber(t)
  BY DayOf
<1> DEFINE f == [m \in 1 .. 13 |-> Date(y, m, 1, 0, 0)]
           InMonth(m) == Date(y, m, 1, 0, 0) <= t /\ t < Date(y, m + 1, 1, 0, 0)
<1>3. DaysBeforeYear(y + 1) = DaysBeforeYear(y) + 365 + LeapDay(y)
      /\ DaysBeforeYear(y) \in Nat /\ LeapDay(y) \in {0, 1}
  BY <1>1, YearLength
<1>4. DaysBeforeYear(y + 1) \in Nat
  BY <1>3
<1>5. Date(y, 13, 1, 0, 0) = DaysBeforeYear(y + 1) * DayLength
  <2>1. y + 1 \in Nat /\ y + 1 > 0 /\ 1 \in 1 .. 12
    BY <1>1
  <2>2. Date(y + 1, 1, 1, 0, 0)
          = (DaysBeforeYear(y + 1) + DaysBeforeMonth(y + 1, 1)) * DayLength
    BY <2>1, MonthBegins
  <2>3. DaysBeforeMonth(y + 1, 1) = 0
    BY <2>1, EndsOfYear
  <2>4. Date(y, 13, 1, 0, 0) = Date(y + 1, 1, 1, 0, 0)
    BY NextYear
  <2>5. DaysBeforeYear(y + 1) + DaysBeforeMonth(y + 1, 1) = DaysBeforeYear(y + 1)
    BY <1>4, <2>3
  <2> QED BY <2>2, <2>4, <2>5
<1>6. ASSUME NEW m \in 1 .. 12
      PROVE  /\ Date(y, m, 1, 0, 0) = (DaysBeforeYear(y) + DaysBeforeMonth(y, m)) * DayLength
             /\ DaysBeforeYear(y) + DaysBeforeMonth(y, m) \in Nat
  BY <1>1, MonthBegins
<1>7. \A m \in 1 .. 12 + 1 : f[m] \in Int
  <2>1. DayLength \in Int
    BY DEF DayLength
  <2>2. \A m \in 1 .. 12 : Date(y, m, 1, 0, 0) \in Int
    BY <1>6, <2>1
  <2>3. Date(y, 13, 1, 0, 0) \in Int
    BY <1>4, <1>5, <2>1
  <2> QED BY <2>2, <2>3
<1>8. f[1] <= t /\ t < f[12 + 1]
  <2>1. 1 \in 1 .. 12 /\ 12 + 1 = 13 /\ 1 \in 1 .. 13 /\ 13 \in 1 .. 13
    OBVIOUS
  <2>2. DaysBeforeYear(y) + DaysBeforeMonth(y, 1) = DaysBeforeYear(y)
    BY <1>3, EndsOfYear
  <2>3. DaysBeforeYear(y) \in Int /\ DaysBeforeYear(y + 1) \in Int
    BY <1>3, <1>4
  <2>4. DaysBeforeYear(y) * DayLength <= t
    BY <1>1, <2>3, DayBegins
  <2>5. t < DaysBeforeYear(y + 1) * DayLength
    BY <1>1, <2>3, DayBegins
  <2>6. f[1] = DaysBeforeYear(y) * DayLength
    BY <1>6, <2>1, <2>2
  <2>7. f[13] = DaysBeforeYear(y + 1) * DayLength
    BY <1>5, <2>1
  <2> QED BY <2>1, <2>4, <2>5, <2>6, <2>7
<1>9. \E m \in 1 .. 12 : InMonth(m)
  <2>1. \A m \in 1 .. 13 : f[m] = Date(y, m, 1, 0, 0)
    OBVIOUS
  <2>2. 1 \in Nat /\ 12 \in Nat /\ 1 <= 12 /\ t \in Int
    OBVIOUS
  <2> HIDE DEF f
  <2>3. PICK m \in 1 .. 12 : f[m] <= t /\ t < f[m + 1]
    BY <1>7, <1>8, <2>2, Crossing
  <2>4. m \in 1 .. 13 /\ m + 1 \in 1 .. 13
    OBVIOUS
  <2> QED BY <2>1, <2>3, <2>4
<1>10. Month(t) = CHOOSE m \in 1 .. 12 : InMonth(m)
  BY <1>1 DEF Month
<1>11. PICK m \in 1 .. 12 : m = Month(t) /\ InMonth(m)
  <2> HIDE DEF InMonth
  <2> QED BY <1>9, <1>10
<1>12. PICK b \in Nat : b = DaysBeforeYear(y) + DaysBeforeMonth(y, m)
                        /\ Date(y, m, 1, 0, 0) = b * DayLength
  BY <1>6
<1>13. b <= n
  BY <1>2, <1>11, <1>12, DayBegins
<1>14. n < b + 31
  <2>1. CASE m = 12
    <3>1. m + 1 = 13
      BY <2>1
    <3>2. t < DaysBeforeYear(y + 1) * DayLength
      BY <1>5, <1>11, <3>1
    <3>3. n < DaysBeforeYear(y + 1)
      BY <1>2, <1>4, <3>2, DayBegins
    <3>4. b = DaysBeforeYear(y) + 334 + LeapDay(y)
      <4>1. DaysBeforeMonth(y, m) = 334 + LeapDay(y)
        BY <2>1, EndsOfYear
      <4> QED BY <1>3, <1>12, <4>1
    <3> QED BY <1>3, <3>3, <3>4
  <2>2. CASE m # 12
    <3>1. m < 12 /\ m + 1 \in 1 .. 12
      BY <2>2
    <3>2. PICK c \in Nat : c = DaysBeforeYear(y) + DaysBeforeMonth(y, m + 1)
                           /\ Date(y, m + 1, 1, 0, 0) = c * DayLength
      BY <1>6, <3>1
    <3>3. n < c
      BY <1>2, <1>11, <3>2, DayBegins
    <3>4. /\ DaysBeforeMonth(y, m + 1) <= DaysBeforeMonth(y, m) + 31
          /\ DaysBeforeMonth(y, m) \in Int /\ DaysBeforeMonth(y, m + 1) \in Int
      <4>1. BeginsInYear(y, m) /\ BeginsInYear(y, m + 1)
        BY <3>1, MonthStarts
      <4>2. DaysBeforeMonth(y, m) \in Nat /\ DaysBeforeMonth(y, m + 1) \in Nat
        BY <4>1 DEF BeginsInYear
      <4>3. m \in 1 .. 11
        BY <3>1
      <4>4. DaysBeforeMonth(y, m + 1) <= DaysBeforeMonth(y, m) + 31
        BY <4>3, MonthLength
      <4> QED BY <4>2, <4>4
    <3>5. c <= b + 31
      BY <1>3, <1>12, <3>2, <3>4
    <3> QED BY <3>3, <3>5
  <2> QED BY <2>1, <2>2
<1>15. Day(t) = n - b + 1
  <2>1. Date(y, m, 1, 0, 0) \in Nat /\ DayNumber(Date(y, m, 1, 0, 0)) = b
    BY <1>12 DEF DayNumber, DayLength
  <2> QED BY <1>1, <1>2, <1>11, <2>1 DEF Day
<1>16. DayNumber(t) = b + Day(t) - 1 /\ Day(t) \in 1 .. 31
  BY <1>2, <1>13, <1>14, <1>15
<1> QED BY <1>1, <1>11, <1>12, <1>16

\* A day of a month, or one that the month is too short for: the year has it.
IsIn(t, y) == t \in Nat /\ Year(t) = y

LEMMA DateInYear ==
  ASSUME NEW y, NEW m, NEW d, NEW s,
         y \in Nat, y > 0, m \in 1 .. 12, d \in 1 .. 31, s \in 0 .. 1439
  PROVE  IsIn(Date(y, m, d, 0, s), y)
<1>1. /\ DaysBeforeYear(y + 1) = DaysBeforeYear(y) + 365 + LeapDay(y)
      /\ DaysBeforeYear(y) \in Nat /\ LeapDay(y) \in {0, 1}
  BY YearLength
<1>2. /\ DaysBeforeMonth(y, m) \in Nat
      /\ DaysBeforeMonth(y, m) + d - 1 < 365 + LeapDay(y)
  <2>1. BeginsInYear(y, m)
    BY MonthStarts
  <2> QED BY <1>1, <2>1 DEF BeginsInYear
<1>3. PICK b \in Nat : b = DaysBeforeYear(y) + DaysBeforeMonth(y, m) + d - 1
  BY <1>1, <1>2
<1>4. Date(y, m, d, 0, s) = b * DayLength + s
  <2>1. (m - 1) \div 12 = 0 /\ (m - 1) % 12 = m - 1
    OBVIOUS
  <2>2. y + (m - 1) \div 12 = y /\ ((m - 1) % 12) + 1 = m
    BY <2>1
  <2>3. Date(y, m, d, 0, s) = b * DayLength + 60 * 0 + s
    BY <1>3, <2>2 DEF Date
  <2> QED BY <2>3 DEF DayLength
<1>5. b * DayLength + s \in Nat /\ DayNumber(b * DayLength + s) = b
  BY DEF DayNumber, DayLength
<1>6. DaysBeforeYear(y) <= b /\ b < DaysBeforeYear(y + 1)
  BY <1>1, <1>2, <1>3
<1> QED BY <1>3, <1>4, <1>5, <1>6, YearIs DEF IsIn

\* The day of a time, at another time of day.
SameDay(t, s) == DayNumber(t) * DayLength + s

LEMMA OnTheDay ==
  ASSUME NEW t \in Nat, NEW h, NEW mi, NEW s,
         h \in Int, mi \in Int, s \in Int, s = 60 * h + mi
  PROVE  Date(Year(t), Month(t), Day(t), h, mi) = SameDay(t, s)
<1>1. PICK y \in Nat, m \in 1 .. 12, d \in 1 .. 31 :
        /\ y = Year(t) /\ m = Month(t) /\ d = Day(t)
        /\ DayNumber(t) = DaysBeforeYear(y) + DaysBeforeMonth(y, m) + d - 1
  BY YearOf, MonthOf
<1>2. (m - 1) \div 12 = 0 /\ (m - 1) % 12 = m - 1
  OBVIOUS
<1>3. y + (m - 1) \div 12 = y /\ ((m - 1) % 12) + 1 = m
  BY <1>2
<1>4. Date(y, m, d, h, mi)
        = (DaysBeforeYear(y) + DaysBeforeMonth(y, m) + d - 1) * DayLength + 60 * h + mi
  BY <1>3 DEF Date
<1>5. DayNumber(t) * DayLength \in Int
  BY DayOf DEF DayLength
<1>6. Date(y, m, d, h, mi) = DayNumber(t) * DayLength + s
  BY <1>1, <1>4, <1>5
<1> QED BY <1>1, <1>6 DEF SameDay

-----------------------------------------------------------------------------
\* The ways of a date.

\* Two digits tell a year of 1969 to 2068.
YearRead(y) == (y % 100) + IF y % 100 >= 69 THEN 1900 ELSE 2000

LEMMA TwoDigits ==
  ASSUME NEW y, y \in Nat
  PROVE  YearRead(y) \in 1969 .. 2068 /\ (y \in 1969 .. 2068 => YearRead(y) = y)
<1>1. PICK n \in 0 .. 99 : n = y % 100
  OBVIOUS
<1>2. PICK z \in 1969 .. 2068 : z = n + IF n >= 69 THEN 1900 ELSE 2000
  OBVIOUS
<1>3. ASSUME y \in 1969 .. 2068 PROVE z = y
  BY <1>1, <1>2, <1>3
<1> QED BY <1>1, <1>2, <1>3 DEF YearRead

\* A message gives every time back whose year two digits can tell, and in any
\* case a time of such a year.
LEMMA RoundTrip ==
  ASSUME NEW t \in Nat
  PROVE  /\ ParseString(ToString(t)) \in Nat
         /\ Year(ParseString(ToString(t))) \in 1969 .. 2068
         /\ Year(t) \in 1969 .. 2068 => ParseString(ToString(t)) = t
<1>1. Year(t) \in Nat /\ Month(t) \in 1 .. 12 /\ Day(t) \in 1 .. 31
  BY YearOf, MonthOf
<1>2. PICK s \in 0 .. 1439 : s = t % DayLength
  BY DayOf DEF DayLength
<1>3. PICK z \in 1969 .. 2068 : z = YearRead(Year(t))
  BY <1>1, TwoDigits
<1>4. Year(t) \in 1969 .. 2068 => z = Year(t)
  BY <1>1, <1>3, TwoDigits
<1>5. ParseString(ToString(t)) = Date(z, Month(t), Day(t), 0, s)
  BY <1>2, <1>3 DEF ParseString, ToString, YearRead
<1>6. IsIn(Date(z, Month(t), Day(t), 0, s), z)
  <2>1. z \in Nat /\ z > 0
    OBVIOUS
  <2> QED BY <1>1, <2>1, DateInYear
<1>7. Date(Year(t), Month(t), Day(t), 0, s) = t
  <2>1. 0 \in Int /\ s \in Int /\ s = 60 * 0 + s
    OBVIOUS
  <2>2. Date(Year(t), Month(t), Day(t), 0, s) = SameDay(t, s)
    BY <2>1, OnTheDay
  <2>3. SameDay(t, s) = t
    BY <1>2, DayOf DEF SameDay
  <2> QED BY <2>2, <2>3
<1> QED BY <1>3, <1>4, <1>5, <1>6, <1>7 DEF IsIn

\* A time of day, as a page shows it, on the day of a time.
LEMMA OnDayOf ==
  ASSUME NEW t \in Nat, NEW u \in Nat
  PROVE  OnDay(Year(u), Month(u), Day(u), <<Hour(t), Minute(t)>>)
           = Parsed(SameDay(u, t % DayLength))
<1>1. PICK h \in Nat, mi \in Nat : h = Hour(t) /\ mi = Minute(t)
                                    /\ 60 * h + mi = t % DayLength
  BY DayOf
<1>2. h # NaN /\ mi # NaN /\ h \in Int /\ mi \in Int
  BY DEF NaN
<1>3. OnDay(Year(u), Month(u), Day(u), <<h, mi>>)
        = Parsed(Date(Year(u), Month(u), Day(u), h, mi))
  BY <1>2 DEF OnDay
<1>4. PICK s \in Int : s = 60 * h + mi
  OBVIOUS
<1>5. Date(Year(u), Month(u), Day(u), h, mi) = SameDay(u, s)
  BY <1>2, <1>4, OnTheDay
<1> QED BY <1>1, <1>3, <1>4, <1>5

\* A page that shows the date in full is read as it is meant.
LEMMA AbsoluteRead ==
  ASSUME NEW t \in Nat, NEW now
  PROVE  ParseDateUA(Absolute(t), now) = Parsed(t)
<1>1. Month(t) # 0 /\ Year(t) # NaN /\ Day(t) # NaN
  BY YearOf, MonthOf DEF NaN
<1>2. ParseDateUA(Absolute(t), now)
        = OnDay(Year(t), Month(t), Day(t), <<Hour(t), Minute(t)>>)
  BY <1>1 DEF ParseDateUA, Absolute, ParseAbsoluteDate
<1>3. t = SameDay(t, t % DayLength)
  BY DayOf DEF SameDay
<1> QED BY <1>2, <1>3, OnDayOf

\* A page that says today or yesterday is read as of the reader's own day.
LEMMA RelativeRead ==
  ASSUME NEW t \in Nat, NEW now \in Nat, now >= DayLength
  PROVE  /\ ParseDateUA(Relative("today", t), now)
              = Parsed(SameDay(now, t % DayLength))
         /\ ParseDateUA(Relative("yesterday", t), now)
              = Parsed(SameDay(now - DayLength, t % DayLength))
<1>1. ParseDateUA(Relative("today", t), now)
        = OnDay(Year(now), Month(now), Day(now), <<Hour(t), Minute(t)>>)
  BY DEF ParseDateUA, Relative, ParseRelativeDate
<1>2. PICK then \in Nat : then = now - DayLength
  BY DEF DayLength
<1>3. ParseDateUA(Relative("yesterday", t), now)
        = OnDay(Year(then), Month(then), Day(then), <<Hour(t), Minute(t)>>)
  BY <1>2 DEF ParseDateUA, Relative, ParseRelativeDate
<1> QED BY <1>1, <1>2, <1>3, OnDayOf

-----------------------------------------------------------------------------
\* The inductive invariant: what a page shows it shows as of the day it was made,
\* only one message is made, and its date is one that the page allows.

Courses ==
  /\ published \in Published
  /\ \E c \in Clocks : \E n \in DOMAIN c : clock = SubSeq(c, n, Len(c))
  /\ started \in Nat /\ started <= Now

\* The page shows one of the things that it might when it was made.
TrueWhenMade(made) ==
  /\ made.at \in Nat
  /\ \/ made.shown \in Odd
     \/ made.shown = Absolute(published)
     \/ /\ made.shown = Relative("today", published)
        /\ DayNumber(published) = DayNumber(made.at)
     \/ /\ made.shown = Relative("yesterday", published)
        /\ DayNumber(published) + 1 = DayNumber(made.at)

PageInv ==
  page # NoPage => /\ TrueWhenMade(page) /\ page.at <= SiteNow
                   /\ message = NoMessage

\* The message has the text of a date, and the right one if there was a date on
\* the page.
CarriesDate(m, x) ==
  x \in Nat /\ m.date = ToString(x)

MessageInv ==
  message # NoMessage =>
    \E x : CarriesDate(message, x) /\ (message.from.shown \notin Odd => x = DateRead)

RowInv ==
  row # NoRow => message # NoMessage /\ row = ParseString(message.date)

DatesInv == Courses /\ PageInv /\ MessageInv /\ RowInv

-----------------------------------------------------------------------------
\* The clock is always at a time of its course.
LEMMA ClockTimes ==
  ASSUME Courses
  PROVE  Now \in Nat /\ Now >= DayLength /\ SiteNow \in Nat /\ published \in Nat
<1>1. PICK c \in Clocks : \E n \in DOMAIN c : clock = SubSeq(c, n, Len(c))
  BY DEF Courses
<1>2. PICK n \in DOMAIN c : clock = SubSeq(c, n, Len(c))
  BY <1>1
<1>3. /\ c \in Seq(Nat) /\ \A i \in 1 .. Len(c) : c[i] >= DayLength
      /\ SiteZone \in Nat /\ Published \subseteq Nat
  BY ArticleDatesAssumption
<1>4. n \in 1 .. Len(c) /\ Len(c) \in Nat
  BY <1>3
<1>5. Head(clock) = c[n]
  BY <1>2, <1>3, <1>4
<1>6. c[n] \in Nat /\ c[n] >= DayLength
  BY <1>3, <1>4
<1>7. Now \in Nat /\ Now >= DayLength
  BY <1>5, <1>6 DEF Now
<1>8. SiteNow \in Nat
  BY <1>3, <1>7 DEF SiteNow
<1>9. published \in Nat
  BY <1>3 DEF Courses
<1> QED BY <1>7, <1>8, <1>9

\* The clock goes on along its course.
LEMMA TickNext ==
  ASSUME Courses, Tick
  PROVE  Courses' /\ Now <= Now'
<1>1. PICK c \in Clocks : \E n \in DOMAIN c : clock = SubSeq(c, n, Len(c))
  BY DEF Courses
<1>2. PICK n \in DOMAIN c : clock = SubSeq(c, n, Len(c))
  BY <1>1
<1>3. /\ c \in Seq(Nat)
      /\ \A i \in 1 .. Len(c) - 1 : c[i] < c[i + 1]
  BY ArticleDatesAssumption
<1>4. n \in 1 .. Len(c) /\ Len(c) \in Nat
  BY <1>3
<1>5. /\ Head(clock) = c[n] /\ Len(clock) = Len(c) - n + 1 /\ clock \in Seq(Nat)
  BY <1>2, <1>3, <1>4
<1>6. n + 1 \in 1 .. Len(c) /\ n \in 1 .. Len(c) - 1
  BY <1>4, <1>5 DEF Tick
<1>7. clock' = SubSeq(c, n + 1, Len(c))
  <2>1. Len(c) \in n .. Len(c)
    BY <1>4
  <2>2. Tail(SubSeq(c, n, Len(c))) = SubSeq(c, n + 1, Len(c))
    BY <1>3, <1>4, <2>1, HeadTailOfSubSeq
  <2> QED BY <1>2, <2>2 DEF Tick
<1>8. Head(clock') = c[n + 1]
  <2>1. Len(c) \in n + 1 .. Len(c)
    BY <1>6
  <2>2. Head(SubSeq(c, n + 1, Len(c))) = c[n + 1]
    BY <1>3, <1>6, <2>1, HeadTailOfSubSeq
  <2> QED BY <1>7, <2>2
<1>9. c[n] < c[n + 1] /\ c[n] \in Nat /\ c[n + 1] \in Nat
  BY <1>3, <1>6
<1>10. Now <= Now' /\ started <= Now'
  BY <1>5, <1>8, <1>9 DEF Now, Courses
<1>11. published' \in Published /\ started' = started
  BY DEF Courses, Tick
<1>12. \E k \in DOMAIN c : clock' = SubSeq(c, k, Len(c))
  BY <1>3, <1>6, <1>7, LenProperties
<1> QED BY <1>10, <1>11, <1>12 DEF Courses

LEMMA NowIsTime == Courses => Now \in Nat
BY ClockTimes

LEMMA NowNext == Courses' => (Now \in Nat)'
BY NowIsTime, PTL

LEMMA InitDates == Init => DatesInv
<1> SUFFICES ASSUME Init PROVE DatesInv
  OBVIOUS
<1>1. /\ clock \in Seq(Nat) /\ clock # <<>> /\ published \in Published
  BY ArticleDatesAssumption DEF Init
<1>2. 1 \in DOMAIN clock /\ clock = SubSeq(clock, 1, Len(clock))
  BY <1>1, LenProperties, EmptySeq, SubSeqFull
<1>3. Head(clock) \in Nat
  BY <1>1, HeadTailProperties
<1>4. Courses
  <2>1. clock \in Clocks /\ started = Now /\ Now \in Nat
    BY <1>3 DEF Init, Now
  <2>2. \E c \in Clocks : \E n \in DOMAIN c : clock = SubSeq(c, n, Len(c))
    BY <1>2, <2>1
  <2>3. started \in Nat /\ started <= Now
    BY <2>1
  <2> QED BY <1>1, <2>2, <2>3 DEF Courses
<1>5. PageInv /\ MessageInv /\ RowInv
  BY DEF Init, PageInv, MessageInv, RowInv
<1> QED BY <1>4, <1>5 DEF DatesInv

\* The date that is read off a page, when it is read.
LEMMA ReadAsMeant ==
  ASSUME Courses, TrueWhenMade(page), page.shown \notin Odd
  PROVE  LET meant == published +
               IF IsRelative(page.shown)
               THEN (DayNumber(Now) - DayNumber(page.at)) * DayLength ELSE 0
         IN  meant \in Nat /\ ParseDateUA(page.shown, Now) = Parsed(meant)
<1> DEFINE days == DayNumber(Now) - DayNumber(page.at)
           meant == published + IF IsRelative(page.shown) THEN days * DayLength ELSE 0
<1>1. Now \in Nat /\ Now >= DayLength /\ published \in Nat
  BY ClockTimes
<1>2. CASE page.shown = Absolute(published)
  <2>1. ~ IsRelative(page.shown)
    BY <1>2 DEF IsRelative, Absolute
  <2>2. meant = published
    BY <1>1, <2>1
  <2> QED BY <1>1, <1>2, <2>2, AbsoluteRead
<1>3. DayNumber(Now) \in Nat /\ DayNumber(published) \in Nat
      /\ published = DayNumber(published) * DayLength + (published % DayLength)
      /\ published % DayLength \in 0 .. DayLength - 1
  BY <1>1, DayOf
<1>4. PICK m \in 0 .. 1439 : m = published % DayLength
  BY <1>3 DEF DayLength
<1>5. PICK n \in Nat : n = DayNumber(Now)
  BY <1>3
<1>6. PICK k \in Nat : k = DayNumber(published) /\ published = k * 1440 + m
  BY <1>3, <1>4 DEF DayLength
<1>7. CASE page.shown = Relative("today", published)
            /\ DayNumber(published) = DayNumber(page.at)
  <2>1. IsRelative(page.shown)
    BY <1>7 DEF IsRelative, Relative
  <2>2. meant = k * 1440 + m + (n - k) * 1440
    BY <1>5, <1>6, <1>7, <2>1 DEF DayLength
  <2>3. SameDay(Now, published % DayLength) = n * 1440 + m
    BY <1>4, <1>5 DEF SameDay, DayLength
  <2>4. meant = SameDay(Now, published % DayLength) /\ meant \in Nat
    BY <2>2, <2>3
  <2> QED BY <1>1, <1>7, <2>4, RelativeRead
<1>8. CASE page.shown = Relative("yesterday", published)
            /\ DayNumber(published) + 1 = DayNumber(page.at)
  <2>1. IsRelative(page.shown)
    BY <1>8 DEF IsRelative, Relative
  <2>2. n >= 1 /\ DayNumber(Now - DayLength) = n - 1
    BY <1>1, <1>5 DEF DayNumber, DayLength
  <2>3. meant = k * 1440 + m + (n - (k + 1)) * 1440
    BY <1>5, <1>6, <1>8, <2>1 DEF DayLength
  <2>4. SameDay(Now - DayLength, published % DayLength) = (n - 1) * 1440 + m
    BY <1>4, <2>2 DEF SameDay, DayLength
  <2>5. meant = SameDay(Now - DayLength, published % DayLength) /\ meant \in Nat
    BY <2>2, <2>3, <2>4
  <2> QED BY <1>1, <1>8, <2>5, RelativeRead
<1> QED BY <1>2, <1>7, <1>8 DEF TrueWhenMade

\* A page is made of what it may show.
LEMMA GetPageNext ==
  ASSUME DatesInv, GetPage
  PROVE  DatesInv'
<1>1. /\ published' = published /\ clock' = clock /\ started' = started
      /\ message' = message /\ row' = row /\ message = NoMessage
      /\ page'.at = SiteNow /\ page'.shown \in Shown
  BY DEF GetPage
<1>2. Courses' /\ Now' = Now /\ SiteNow' = SiteNow
  BY <1>1 DEF DatesInv, Courses, Now, SiteNow
<1>3. SiteNow \in Nat
  BY ClockTimes DEF DatesInv
<1>4. TrueWhenMade(page)'
  BY <1>1, <1>3 DEF TrueWhenMade, Shown, Absolute, Relative
<1>5. PageInv'
  BY <1>1, <1>2, <1>3, <1>4 DEF PageInv
<1>6. MessageInv' /\ RowInv'
  BY <1>1 DEF DatesInv, MessageInv, RowInv
<1> QED BY <1>2, <1>5, <1>6 DEF DatesInv

LEMMA TickKeeps ==
  ASSUME DatesInv, Tick
  PROVE  DatesInv'
<1>1. /\ published' = published /\ started' = started /\ page' = page
      /\ message' = message /\ row' = row
  BY DEF Tick
<1>2. Courses' /\ Now <= Now' /\ Now \in Nat
  BY TickNext, ClockTimes DEF DatesInv
<1>3. Now' \in Nat
  BY <1>2, NowNext
<1>4. SiteNow <= SiteNow' /\ SiteNow \in Nat /\ SiteNow' \in Nat
  <2>1. SiteZone' = SiteZone /\ SiteZone \in Nat
    BY ArticleDatesAssumption
  <2>2. SiteNow = Now + SiteZone /\ SiteNow' = Now' + SiteZone
    BY <2>1 DEF SiteNow
  <2>3. \A a, b, z \in Nat : a <= b =>
          a + z <= b + z /\ a + z \in Nat /\ b + z \in Nat
    OBVIOUS
  <2> QED BY <1>2, <1>3, <2>1, <2>2, <2>3
<1>5. PageInv'
  <2>1. SUFFICES ASSUME page # NoPage PROVE TrueWhenMade(page)' /\ page.at <= SiteNow'
                                            /\ message = NoMessage
    BY <1>1 DEF PageInv
  <2>2. TrueWhenMade(page) /\ page.at <= SiteNow /\ message = NoMessage /\ page.at \in Nat
    BY <2>1 DEF DatesInv, PageInv, TrueWhenMade
  <2>3. TrueWhenMade(page)'
    BY <1>1, <2>2 DEF TrueWhenMade, Absolute, Relative
  <2> QED BY <1>4, <2>2, <2>3
<1>6. MessageInv' /\ RowInv'
  BY <1>1 DEF DatesInv, MessageInv, RowInv, CarriesDate, DateRead
<1> QED BY <1>2, <1>5, <1>6 DEF DatesInv

\* A page is read as it is meant; what is no date is read as a time all the same.
LEMMA OnPublishDateNext ==
  ASSUME DatesInv, OnPublishDate
  PROVE  DatesInv'
<1>1. /\ published' = published /\ clock' = clock /\ started' = started
      /\ page' = NoPage /\ row' = row /\ page # NoPage
  BY DEF OnPublishDate
<1>2. Courses' /\ PageInv'
  BY <1>1 DEF DatesInv, Courses, Now, PageInv
<1>3. /\ TrueWhenMade(page) /\ message = NoMessage /\ row = NoRow
  BY <1>1 DEF DatesInv, PageInv, RowInv
<1>4. RowInv'
  BY <1>1, <1>3 DEF RowInv
<1>5. PICK date : date = ParseDateUA(page.shown, Now)
  OBVIOUS
<1>6. CASE date.kind = "panic"
  <2>1. message' = NoMessage
    BY <1>3, <1>5, <1>6 DEF OnPublishDate
  <2>2. NoMessage' = NoMessage
    BY DEF NoMessage, NoPage, ToString, Month, Day, Year, Date, DayNumber
  <2>3. MessageInv'
    BY <2>1, <2>2 DEF MessageInv
  <2> QED BY <1>2, <1>4, <2>3 DEF DatesInv
<1>7. CASE date.kind # "panic"
  <2>1. PICK x : x = IF date.kind = "time" THEN date.t ELSE Now
    OBVIOUS
  <2>2. message' = [date |-> ToString(x), from |-> page, read |-> Now]
    BY <1>5, <1>7, <2>1 DEF OnPublishDate
  <2>3. message'.date = ToString(x) /\ message'.from = page /\ message'.read = Now
    BY <2>2
  <2>4. Now \in Nat
    BY ClockTimes DEF DatesInv
  <2>5. ASSUME page.shown \in Odd PROVE MessageInv'
    <3>1. date.kind = "time" => date.t \in Nat
      <4>1. PICK c \in Clocks : \E n \in DOMAIN c : clock = SubSeq(c, n, Len(c))
        BY DEF DatesInv, Courses
      <4>2. PICK n \in DOMAIN c : clock = SubSeq(c, n, Len(c))
        BY <4>1
      <4>3. c \in Seq(Nat)
        BY ArticleDatesAssumption
      <4>4. n \in 1 .. Len(c) /\ Len(c) \in n .. Len(c)
        BY <4>3, LenProperties
      <4>5. Now = c[n]
        BY <4>2, <4>3, <4>4, HeadTailOfSubSeq DEF Now
      <4> QED BY <1>5, <2>5, <4>4, <4>5, ArticleDatesAssumption
    <3>2. x \in Nat
      BY <2>1, <2>4, <3>1
    <3>3. CarriesDate(message', x) /\ message'.from.shown \in Odd
      BY <2>3, <2>5, <3>2 DEF CarriesDate
    <3> QED BY <3>3 DEF MessageInv
  <2>6. ASSUME page.shown \notin Odd PROVE MessageInv'
    <3>1. PICK m \in Nat :
            /\ m = published + IF IsRelative(page.shown)
                               THEN (DayNumber(Now) - DayNumber(page.at)) * DayLength
                               ELSE 0
            /\ date = Parsed(m)
      BY <1>3, <1>5, <2>6, ReadAsMeant DEF DatesInv
    <3>2. x = m
      BY <2>1, <3>1 DEF Parsed
    <3>3. DateRead' = m
      BY <1>1, <2>3, <3>1 DEF DateRead
    <3>4. CarriesDate(message', x)
      BY <2>3, <3>1, <3>2 DEF CarriesDate
    <3> QED BY <3>2, <3>3, <3>4 DEF MessageInv
  <2>7. MessageInv'
    BY <2>5, <2>6
  <2> QED BY <1>2, <1>4, <2>7 DEF DatesInv
<1> QED BY <1>2, <1>4, <1>6, <1>7 DEF DatesInv

LEMMA NewArticleNext ==
  ASSUME DatesInv, NewArticle
  PROVE  DatesInv'
<1>1. /\ published' = published /\ clock' = clock /\ started' = started
      /\ page' = page /\ message' = message
      /\ message # NoMessage /\ row' = ParseString(message.date)
  BY DEF NewArticle
<1>2. Courses' /\ PageInv'
  BY <1>1 DEF DatesInv, Courses, Now, SiteNow, PageInv, TrueWhenMade, Absolute, Relative
<1>3. MessageInv'
  BY <1>1 DEF DatesInv, MessageInv, CarriesDate, DateRead
<1>4. RowInv'
  BY <1>1 DEF RowInv
<1> QED BY <1>2, <1>3, <1>4 DEF DatesInv

LEMMA DatesStep == DatesInv /\ [Next]_vars => DatesInv'
<1> SUFFICES ASSUME DatesInv, [Next]_vars PROVE DatesInv'
  OBVIOUS
<1>1. CASE Tick
  BY <1>1, TickKeeps
<1>2. CASE GetPage
  BY <1>2, GetPageNext
<1>3. CASE OnPublishDate
  BY <1>3, OnPublishDateNext
<1>4. CASE NewArticle
  BY <1>4, NewArticleNext
<1>5. CASE UNCHANGED vars
  BY <1>5 DEF vars, DatesInv, Courses, Now, SiteNow, PageInv, TrueWhenMade, Absolute,
              Relative, MessageInv, CarriesDate, DateRead, RowInv
<1> QED BY <1>1, <1>2, <1>3, <1>4, <1>5 DEF Next

LEMMA DatesAlways == FairSpec => []DatesInv
BY InitDates, DatesStep, PTL DEF FairSpec

-----------------------------------------------------------------------------
\* The date of a row is one that was carried by the message.
LEMMA RowCarried ==
  ASSUME DatesInv, row # NoRow
  PROVE  \E x \in Nat : /\ row = ParseString(ToString(x))
                        /\ message.from.shown \notin Odd => x = DateRead
BY DEF DatesInv, RowInv, MessageInv, CarriesDate

\* A clock that ascends, pages that are not ahead of it, and rows of the years
\* 1969 to 2068.
THEOREM TypeCorrect == FairSpec => []TypeOK
<1>1. DatesInv => TypeOK
  <2> SUFFICES ASSUME DatesInv PROVE TypeOK
    OBVIOUS
  <2>1. row # NoRow => Year(row) \in 1969 .. 2068
    BY RowCarried, RoundTrip
  <2>2. row # NoRow => message # NoMessage
    BY DEF DatesInv, RowInv
  <2>3. page # NoPage => page.at <= SiteNow
    BY DEF DatesInv, PageInv
  <2>4. /\ published \in Published /\ started <= Now
        /\ \E c \in Clocks : \E n \in DOMAIN c : clock = SubSeq(c, n, Len(c))
    BY DEF DatesInv, Courses
  <2> QED BY <2>1, <2>2, <2>3, <2>4 DEF TypeOK
<1> QED BY <1>1, DatesAlways, PTL

\* A row has the date that the site gives its article, as OnPublishDate reads it
\* (article.go:91-100, dateutils.go:82-145), whichever page of the article was
\* read, and whenever, on any course of the clock.
THEOREM DateSurvivesTheWay == FairSpec => []DateSurvives
<1>1. DatesInv => DateSurvives
  BY RowCarried, RoundTrip DEF DateSurvives
<1> QED BY <1>1, DatesAlways, PTL

\* A day of a row's month, or the day behind its last one, as a query asks for it.
LEMMA MidnightOf ==
  ASSUME NEW u, NEW y, NEW m, NEW d,
         y \in Nat, m \in 1 .. 12, d \in Nat, u = Date(y, m, d, 0, 0),
         u \in Nat, Year(u) \in 1969 .. 2068
  PROVE  ParseQueryString([date |-> <<y, m, d>>, time |-> <<>>]) = Parsed(u)
<1> DEFINE q == [date |-> <<y, m, d>>, time |-> <<>>]
<1>1. y # NaN /\ m # NaN /\ d # NaN /\ ~ (m > 12) /\ 0 # NaN
  BY DEF NaN
<1>2. OnDay(1, 1, 1, <<0, 0>>).kind = "time"
  BY <1>1 DEF OnDay, Parsed
<1>3. OnDay(y, m, d, <<0, 0>>).t = u
  BY <1>1 DEF OnDay, Parsed
<1>4. q.time = <<>> /\ q.date = <<y, m, d>>
  OBVIOUS
<1>5. /\ Len(<<y, m, d>>) = 3 /\ <<y, m, d>>[1] = y /\ <<y, m, d>>[2] = m
      /\ <<y, m, d>>[3] = d
  OBVIOUS
<1>6. ParseMonth(m) = m
  BY <1>1 DEF ParseMonth
<1>7. ParseQueryString(q)
        = Parsed(ParseString(ToString(OnDay(y, m, d, <<0, 0>>).t)))
  <2> HIDE DEF q
  <2> QED BY <1>1, <1>2, <1>4, <1>5, <1>6 DEF ParseQueryString
<1>8. ParseString(ToString(u)) = u
  BY RoundTrip
<1> QED BY <1>3, <1>7, <1>8

\* The day of a row begins no later than the row, and the next day after it.
LEMMA DaysAround ==
  ASSUME NEW t \in Nat, Year(t) \in 1969 .. 2068, Year(t + DayLength) <= 2068
  PROVE  \E u, v \in Nat :
           /\ u <= t /\ t <= v
           /\ u = Date(Year(t), Month(t), Day(t), 0, 0) /\ Year(u) \in 1969 .. 2068
           /\ v = Date(Year(t), Month(t), Day(t) + 1, 0, 0) /\ Year(v) \in 1969 .. 2068
<1>1. PICK n \in Nat : n = DayNumber(t) /\ n * 1440 <= t /\ t <= (n + 1) * 1440
  BY DEF DayNumber, DayLength
<1>2. Date(Year(t), Month(t), Day(t), 0, 0) = n * 1440
  <2>1. 0 \in Int /\ 0 = 60 * 0 + 0
    OBVIOUS
  <2>2. Date(Year(t), Month(t), Day(t), 0, 0) = SameDay(t, 0)
    BY <2>1, OnTheDay
  <2> QED BY <1>1, <2>2 DEF SameDay, DayLength
<1>3. Date(Year(t), Month(t), Day(t) + 1, 0, 0) = (n + 1) * 1440
  <2>1. PICK y \in Nat, m \in 1 .. 12, d \in 1 .. 31 :
          y = Year(t) /\ y > 0 /\ m = Month(t) /\ d = Day(t)
    BY YearOf, MonthOf
  <2>2. n = DaysBeforeYear(y) + DaysBeforeMonth(y, m) + d - 1
    BY <1>1, <2>1, MonthOf
  <2>3. (m - 1) \div 12 = 0 /\ (m - 1) % 12 = m - 1
    OBVIOUS
  <2>4. y + (m - 1) \div 12 = y /\ ((m - 1) % 12) + 1 = m
    BY <2>3
  <2>5. Date(y, m, d + 1, 0, 0)
          = (DaysBeforeYear(y) + DaysBeforeMonth(y, m) + (d + 1) - 1) * 1440 + 60 * 0 + 0
    BY <2>4 DEF Date, DayLength
  <2>6. DaysBeforeYear(y) \in Nat /\ BeginsInYear(y, m)
    BY <2>1, YearLength, MonthStarts
  <2>7. DaysBeforeYear(y) + DaysBeforeMonth(y, m) + (d + 1) - 1 = n + 1
    BY <2>2, <2>6 DEF BeginsInYear
  <2> QED BY <2>1, <2>5, <2>7
<1>4. DayNumber(n * 1440) = n /\ DayNumber((n + 1) * 1440) = n + 1
      /\ DayNumber(t + DayLength) = n + 1 /\ t + DayLength \in Nat
      /\ n * 1440 \in Nat /\ (n + 1) * 1440 \in Nat
  BY <1>1 DEF DayNumber, DayLength
<1>5. Year(n * 1440) = Year(t)
  <2>1. n <= n /\ DayNumber(n * 1440) \in Nat
    BY <1>4
  <2>2. Year(n * 1440) <= Year(t) /\ Year(t) <= Year(n * 1440)
    BY <1>1, <1>4, <2>1, YearsGoOn
  <2> QED BY <1>4, <2>2, YearOf
<1>6. Year((n + 1) * 1440) \in 1969 .. 2068
  <2>1. Year((n + 1) * 1440) <= Year(t + DayLength) /\ Year(t) <= Year((n + 1) * 1440)
    BY <1>1, <1>4, YearsGoOn
  <2>2. Year((n + 1) * 1440) \in Nat /\ Year(t + DayLength) \in Nat
    BY <1>4, YearOf
  <2> QED BY <2>1, <2>2
<1> QED BY <1>1, <1>2, <1>3, <1>4, <1>5, <1>6

\* A client that takes the day it is shown for an article and asks for the articles
\* of that day gets the article (ParseQueryString and the WHERE clause).
THEOREM FoundByItsDay == FairSpec => []FoundByShownDay
<1>1. DatesInv => FoundByShownDay
  <2> SUFFICES ASSUME DatesInv, row # NoRow, Year(row + DayLength) <= 2068
               PROVE  FoundByShownDay
    BY DEF FoundByShownDay
  <2>1. PICK t \in Nat : t = row /\ Year(t) \in 1969 .. 2068
    BY RowCarried, RoundTrip
  <2>2. PICK u \in Nat, v \in Nat :
          /\ u <= t /\ t <= v
          /\ u = Date(Year(t), Month(t), Day(t), 0, 0) /\ Year(u) \in 1969 .. 2068
          /\ v = Date(Year(t), Month(t), Day(t) + 1, 0, 0) /\ Year(v) \in 1969 .. 2068
    BY <2>1, DaysAround
  <2>3. /\ Year(t) \in Nat /\ Month(t) \in 1 .. 12 /\ Day(t) \in Nat /\ Day(t) + 1 \in Nat
    BY YearOf, MonthOf
  <2>4. /\ ParseQueryString([date |-> <<Year(t), Month(t), Day(t)>>, time |-> <<>>])
             = Parsed(u)
        /\ ParseQueryString([date |-> <<Year(t), Month(t), Day(t) + 1>>, time |-> <<>>])
             = Parsed(v)
    <3>1. ParseQueryString([date |-> <<Year(t), Month(t), Day(t)>>, time |-> <<>>])
            = Parsed(u)
      BY <2>2, <2>3, MidnightOf
    <3>2. ParseQueryString([date |-> <<Year(t), Month(t), Day(t) + 1>>, time |-> <<>>])
            = Parsed(v)
      <4>1. PICK d \in Nat : d = Day(t) + 1
        BY <2>3
      <4>2. v = Date(Year(t), Month(t), d, 0, 0)
        BY <2>2, <4>1
      <4> QED BY <2>2, <2>3, <4>1, <4>2, MidnightOf
    <3> QED BY <3>1, <3>2
  <2>5. Pretify(t).year = Year(t) /\ Pretify(t).month = Month(t) /\ Pretify(t).day = Day(t)
    BY DEF Pretify
  <2> QED BY <2>1, <2>2, <2>4, <2>5 DEF FoundByShownDay, Listed, Parsed
<1> QED BY <1>1, DatesAlways, PTL
=============================================================================
