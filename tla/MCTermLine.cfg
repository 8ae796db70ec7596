\* Cells of one row, with a wide character, drawn at once or lazily in bursts.
SPECIFICATION TermSpec
CONSTANTS
  Rows = 1
  Cols = 2
  NHIST = 1
  Chars = {"x"}
  WideChars = {"w"}
  DWCHAR <- HalfOf
  Colors = {"white", "black"}
  FGCOLOR = "white"
  BGCOLOR = "black"
  FgCodes <- NoCodes
  BgCodes <- NoCodes
  Controls <- LineControls
  CsiArgs <- LineCsi
  ModeSeqs = {"INSERT"}
  Bursts = TRUE
  ScrlSteps = {}
  Switching = FALSE
PROPERTIES
  PictureKept
