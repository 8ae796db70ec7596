\* Rows of a small terminal: regions that scroll inside the screen, the history and
\* scrolling back into it, and a second terminal on the same pad.
SPECIFICATION TermSpec
CONSTANTS
  Rows = 3
  Cols = 1
  NHIST = 2
  Chars = {"x"}
  WideChars = {}
  DWCHAR <- HalfOf
  Colors = {"white", "black"}
  FGCOLOR = "white"
  BGCOLOR = "black"
  FgCodes <- NoCodes
  BgCodes <- NoCodes
  Controls <- RowControls
  CsiArgs <- RowCsi
  ModeSeqs = {"ORIGIN"}
  Bursts = FALSE
  ScrlSteps <- BothWays
  Switching = TRUE
INVARIANTS
  TermTypeOK
  ReportReturns
PROPERTIES
  RegionOnly
  HistoryOrder
  WildOnlyFrom
  PictureKept
