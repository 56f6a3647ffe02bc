\* One backend; every call may fail but those that create an article.
SPECIFICATION Spec
CONSTANTS
  Backends = {b1}
  Payloads <- RefreshedAndJunk
  MaxMessages = 2
  MaxInbox = 1
  MaxAckPending = 2
  TitleMatches <- ExactTitles
  Faults <- OtherFaults
  Text <- MCText
  Blank = Blank
  A = A
  B = B
  Site = Site
  Pic = Pic
INVARIANT AckedIsStored
PROPERTY LedgerSpec
CHECK_DEADLOCK FALSE
