\* The lines of a file that runs programs.
SPECIFICATION SashSpec
CONSTANTS
  Words <- MCWords
  Lines <- MCLines
  Files = {"f", "g"}
  Text <- MCText
  Aliasrc = "g"
  AliasAll <- MCAliasAll
  Magic = {"magic"}
  BufLines = 2
  MAX_SOURCE = 3
  ALIAS_ALLOC = 2
  IsPid1 = TRUE
  MaxStrays = 1
PROPERTIES
  LinesInOrder
