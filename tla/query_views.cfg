\* One reader, and enough articles for views with two gaps.
SPECIFICATION Spec
CONSTANTS
  Readers = {r1}
  Kinds <- OneKind
  Filters <- Everything
  AnyText <- NoText
  PageSize = 2
  Faults = {"count"}
  MaxArticles = 15
  CursorPadding = 1
  Monday = Monday
  Tuesday = Tuesday
  Storm = Storm
  Sea = Sea
  NoWord = NoWord
INVARIANTS
  NeighboursAreLinked
  GapsAreMarked
