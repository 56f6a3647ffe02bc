\* Two readers with filters that share a key; every call may fail.
SPECIFICATION FairSpec
CONSTANTS
  Readers = {r1, r2}
  Kinds <- Storms
  Filters <- ByText
  AnyText <- NoText
  PageSize = 1
  Faults = {"rows", "get", "count", "put"}
  MaxArticles = 2
  CursorPadding = 1
  Monday = Monday
  Tuesday = Tuesday
  Storm = Storm
  Sea = Sea
  NoWord = NoWord
INVARIANTS
  TypeOK
  LinksLeadToArticles
PROPERTIES
  StaleCountsDie
  RefusalsEnd
