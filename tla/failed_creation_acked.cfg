\* One backend; the insert into articles may fail.
SPECIFICATION Spec
CONSTANTS
  Backends = {b1}
  Payloads <- OneIllustrated
  MaxMessages = 1
  MaxInbox = 1
  MaxAckPending = 1
  TitleMatches <- ExactTitles
  Faults <- OnlyInsert
  Text <- MCText
  Blank = Blank
  A = A
  B = B
  Site = Site
  Pic = Pic
INVARIANT AckedIsStored
CHECK_DEADLOCK FALSE
