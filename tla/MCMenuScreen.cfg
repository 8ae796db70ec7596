\* A menu of two entries that needs four rows more than the screen has.
SPECIFICATION ScreenSpec
CONSTANTS
  Width = 7
  Height = 6
  StackSize = 8
  MaxValue = 99
  RowsAbove = 0
  Alphabet = {}
  BufSize = 16
  HeaderLen = 3
  TitleLens <- MCTitleLens
  FooterRows = 1
  MessageLens = {1}
INVARIANTS
  MenuLayout
  CallsIndependent
  NoWildWrite
  PrintsOnScreen
