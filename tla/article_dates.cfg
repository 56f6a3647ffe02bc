\* Two nights, a site two hours ahead, and every message.
SPECIFICATION FairSpec
CONSTANTS
  Published <- MCPublished
  Clocks <- MCClocks
  SiteZone = 120
  Odd <- MCOdd
INVARIANTS
  TypeOK
  DateSurvives
  FoundByShownDay
PROPERTY ListedInTheEnd
CHECK_DEADLOCK FALSE
