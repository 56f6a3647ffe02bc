\* One backend that may crash.
SPECIFICATION Spec
CONSTANTS
  Backends = {b1}
  Payloads <- OneIllustrated
  MaxMessages = 1
  MaxInbox = 1
  MaxAckPending = 1
  TitleMatches <- ExactTitles
  Faults <- OnlyCrash
  Text <- MCText
  Blank = Blank
  A = A
  B = B
  Site = Site
  Pic = Pic
INVARIANT MainImageRequired
CHECK_DEADLOCK FALSE
