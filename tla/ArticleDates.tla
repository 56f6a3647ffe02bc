---------------------------- MODULE ArticleDates ----------------------------
(***************************************************************************)
(* The way of a publication date: the site shows it on the article's page, *)
(* relative to the day it is there, as it is for the visitors of the site; *)
(* the worker reads it later, on its own clock (OnPublishDate); the        *)
(* message carries it through its text form; the consumer stores the one   *)
(* that comes first; and the read API lists the article by it.             *)
(*                                                                         *)
(* The page is fetched again and again, and the message that is stored     *)
(* first gives the article its date for good.  Which one it is is open, so *)
(* one message is followed, from any page made and read at any time.       *)
(***************************************************************************)
EXTENDS Dates

CONSTANTS
  Published,   \* when articles are published, by the clock of the site
  Clocks,      \* courses of the program's clock: ascending sequences of times
  SiteZone,    \* how far the clock of the site is ahead
  Odd          \* what a page may show that is no date of these formats

\* The clock is past the first day of the calendar, and so is any date that can
\* be read off a page.
ASSUME ArticleDatesAssumption ==
  /\ Published \subseteq Nat /\ SiteZone \in Nat
  /\ \A c \in Clocks :
       /\ c \in Seq(Nat) /\ c # <<>>
       /\ \A i \in 1 .. Len(c) : c[i] >= DayLength
       /\ \A i \in 1 .. Len(c) - 1 : c[i] < c[i + 1]
       /\ \A i \in 1 .. Len(c), o \in Odd :
            LET date == ParseDateUA(o, c[i]) IN date.kind = "time" => date.t \in Nat

VARIABLES
  published,  \* when the article was published, by the clock of the site
  clock,      \* the program's clock: now, and the times to come
  started,    \* when the backend started
  page,       \* the page fetched last, and when the site made it
  message,    \* the message: its date, the page it was made from, and when
  row         \* the article's row: its date

vars == <<published, clock, started, page, message, row>>

Now == Head(clock)
SiteNow == Now + SiteZone

NoPage == [shown |-> [fields |-> 0], at |-> 0]
NoMessage == [date |-> ToString(0), from |-> NoPage, read |-> 0]
NoRow == 0

Relative(word, t) == [fields |-> 3, day |-> word, time |-> <<Hour(t), Minute(t)>>]
Absolute(t) == [fields |-> 5, day |-> Day(t), month |-> Month(t), year |-> Year(t),
                time |-> <<Hour(t), Minute(t)>>]

\* What the page may show of the date.
Shown ==
  {Absolute(published)} \cup Odd
  \cup {s \in {Relative("today", published)} :
          DayNumber(published) = DayNumber(SiteNow)}
  \cup {s \in {Relative("yesterday", published)} :
          DayNumber(published) + 1 = DayNumber(SiteNow)}

\* DEFAULT_START_DATE: ten years before the start of the process.
DefaultStart == Date(Year(started) - 10, Month(started), Day(started), 0,
                     started % DayLength)

\* The WHERE clause on the date.  Without an end date it is NOW().
Listed(start, end) == row # NoRow /\ start <= row /\ row <= end

\* Every date in a row came through ParseString.
TypeOK ==
  /\ published \in Published
  /\ \E c \in Clocks : \E n \in DOMAIN c : clock = SubSeq(c, n, Len(c))
  /\ started <= Now
  /\ page # NoPage => page.at <= SiteNow
  /\ row # NoRow => Year(row) \in 1969 .. 2068 /\ message # NoMessage

Init ==
  /\ published \in Published
  /\ clock \in Clocks
  /\ started = Head(clock)
  /\ page = NoPage
  /\ message = NoMessage
  /\ row = NoRow

-----------------------------------------------------------------------------
Tick ==
  /\ Len(clock) > 1
  /\ clock' = Tail(clock)
  /\ UNCHANGED <<published, started, page, message, row>>

\* getRemotePage: the site makes the page.
GetPage ==
  /\ published <= SiteNow /\ message = NoMessage
  /\ \E s \in Shown : page' = [shown |-> s, at |-> SiteNow]
  /\ UNCHANGED <<published, clock, started, message, row>>

\* OnPublishDate, Marshal and the publication.  A date that does not parse is
\* the time it was read; a panic ends the worker.  (Bound: nothing is read at
\* the last time of a course, so that the day of every date read comes.)
OnPublishDate ==
  /\ page # NoPage
  /\ Len(clock) > 1
  /\ LET date == ParseDateUA(page.shown, Now) IN
       message' =
         IF date.kind = "panic" THEN message
         ELSE [date |-> ToString(IF date.kind = "time" THEN date.t ELSE Now),
               from |-> page, read |-> Now]
  /\ page' = NoPage
  /\ UNCHANGED <<published, clock, started, row>>

\* Unmarshal and NewArticle; once there is a row, no message changes its date.
NewArticle ==
  /\ message # NoMessage /\ row = NoRow
  /\ row' = ParseString(message.date)
  /\ UNCHANGED <<published, clock, started, page, message>>

Next == Tick \/ GetPage \/ OnPublishDate \/ NewArticle

\* The clock goes on.
FairSpec == Init /\ [][Next]_vars /\ WF_vars(Tick)

-----------------------------------------------------------------------------
\* Properties.

\* Does the page show a date, relative to the day the page was made?
IsRelative(shown) ==
  shown.fields = 3 /\ shown \notin Odd

\* The date the site gives the article, and the days between the calendar day of
\* the site when it made the page and that of the program when it read it, if the
\* page said today or yesterday.
DateRead ==
  published +
    IF IsRelative(message.from.shown)
    THEN (DayNumber(message.read) - DayNumber(message.from.at)) * DayLength ELSE 0

\* An article has the date the site gives it, whenever its page was made and
\* read, whether it showed the date in full or said today or yesterday, and
\* across the ends of months and years.  Only a relative date can be wrong, by
\* days, as DateRead says (article.go:91-100, dateutils.go:82-145); and two
\* digits tell the years 1969 to 2068.
DateSurvives ==
  row # NoRow /\ message.from.shown \notin Odd /\ Year(DateRead) \in 1969 .. 2068 =>
    row = DateRead

\* A client that takes the day it is shown for an article and asks for the
\* articles of that day gets the article, whatever became of its date (but on
\* the last day that two digits can tell).
FoundByShownDay ==
  row # NoRow /\ Year(row + DayLength) <= 2068 =>
    LET shown == Pretify(row)
        Midnight(day) == ParseQueryString([date |-> <<shown.year, shown.month, day>>,
                                           time |-> <<>>])
    IN  /\ Midnight(shown.day).kind = "time"
        /\ Listed(Midnight(shown.day).t, Midnight(shown.day + 1).t)

\* An article that goes into the table is listed in the end, and stays so: a
\* wrong date may hide it (lists end at NOW()), but not for ever, unless it is
\* too old for the lists anyway.
ListedInTheEnd ==
  [](row # NoRow /\ DefaultStart + DayLength <= published
       => <>[]Listed(DefaultStart, Now))
=============================================================================
