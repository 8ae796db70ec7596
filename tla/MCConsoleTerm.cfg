\* Every stream over an alphabet of controls and text, on a tiny console that the
\* terminal draws.
SPECIFICATION CtSpec
CONSTANTS
  Width = 2
  Height = 2
  StackSize = 3
  MaxValue = 2
  RowsAbove = 1
  NHIST = 3
  Alphabet <- MCAlphabet
INVARIANTS
  VtTypeOK
  CursorBelow
  PaintsInPlace
PROPERTIES
  WildExplained
  StaysMirrored
  CursorFollows
