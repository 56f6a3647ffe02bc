--------------------------- MODULE MCArticleDates ---------------------------
\* Instances of ArticleDates: the nights before 1 March of a leap year and
\* before a New Year, on a site two hours ahead, and articles of the archive.
EXTENDS ArticleDates

LeapNight == <<Date(2024, 2, 29, 12, 0), Date(2024, 2, 29, 22, 30),
               Date(2024, 3, 1, 1, 0), Date(2024, 3, 1, 23, 0),
               Date(2024, 3, 2, 3, 0), Date(2024, 3, 3, 3, 0)>>
NewYear == <<Date(2023, 12, 31, 21, 0), Date(2023, 12, 31, 23, 59),
             Date(2024, 1, 1, 0, 30), Date(2024, 1, 2, 0, 30),
             Date(2024, 1, 3, 0, 30)>>

MCClocks == {LeapNight, NewYear}
MCPublished ==
  {Date(2024, 2, 29, 13, 59), Date(2024, 2, 29, 23, 50), Date(2024, 3, 1, 0, 5),
   Date(2023, 12, 31, 22, 59), Date(2024, 1, 1, 0, 1), Date(2014, 3, 1, 0, 0),
   Date(1969, 1, 1, 0, 0), Date(1968, 12, 31, 23, 59)}

\* A format of neither kind, words and numbers that are none, no colon.
MCOdd ==
  {[fields |-> 4], [fields |-> 3, day |-> "now", time |-> <<1, 1>>],
   [fields |-> 3, day |-> "today", time |-> <<NaN>>],
   [fields |-> 3, day |-> "today", time |-> <<12>>],
   [fields |-> 5, day |-> 1, month |-> 0, year |-> 2024, time |-> <<1, 1>>],
   [fields |-> 5, day |-> 31, month |-> 2, year |-> 2024, time |-> <<25, NaN>>]}
=============================================================================
