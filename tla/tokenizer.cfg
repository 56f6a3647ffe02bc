\* Every page of three pieces, in any chunks, whole or broken off anywhere.
SPECIFICATION FairSpec
CONSTANTS
  Letters = {"a", "s"}
  Script <- MCScript
  Pieces <- MCPieces
  MaxPieces = 3
  InitialCap = 3
INVARIANTS
  TokenizerTypeOK
  TokensOfThePage
  WholePage
PROPERTY Ends
CHECK_DEADLOCK FALSE
