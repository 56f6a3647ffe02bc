\* Any document of six tokens, well formed or not, and two selectors.
SPECIFICATION ExtractorSpec
CONSTANTS
  S1 = S1
  S2 = S2
  Selectors = {S1, S2}
  Names <- MCNames
  Icons = {Icon}
  Fields <- SevenFields
  TextName = "TEXT_NODE"
  VoidNames = {"img"}
  Tokens <- TwoClasses
  MaxTokens = 6
INVARIANTS
  TypeOK
  OpenTagsAreCounted
  StopsAtRootClose
  OnlyMissingPartsPanic
PROPERTIES
  CollectorSpec
  CompletesAtRootClose
  FieldsHoldTheElement
CHECK_DEADLOCK FALSE
