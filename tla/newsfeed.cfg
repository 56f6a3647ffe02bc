\* Two feeds; every call may fail, but not for ever, and the worker may crash.
SPECIFICATION FairSpec
CONSTANTS
  Feeds = {Daily, Weekly}
  Daily = Daily
  Weekly = Weekly
  A = A
  Dotted = Dotted
  Broken = Broken
  NoLink = NoLink
  Blank = Blank
  NoArticle = NoArticle
  Articles <- MCArticles
  Pages <- MCPages
  Unreadable = {Broken}
  Unroutable <- MCUnroutable
  Faults <- FaultKinds
INVARIANT TypeOK
PROPERTIES
  InOrder
  StaysPublished
