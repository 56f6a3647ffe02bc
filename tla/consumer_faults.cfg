\* One backend; every call may fail, but not for ever.
SPECIFICATION FairSpec
CONSTANTS
  Backends = {b1}
  Payloads <- IllustratedMixed
  MaxMessages = 3
  MaxInbox = 1
  MaxAckPending = 2
  TitleMatches <- NestedTitles
  Faults <- FaultKinds
  Text <- MCText
  Blank = Blank
  A = A
  B = B
  Site = Site
  Pic = Pic
INVARIANTS
  TypeOK
  NoDuplicateArticle
  MainImageFirst
  OneOrphanPerCreation
PROPERTY EveryMessageRetired
CHECK_DEADLOCK FALSE
