\* Glyph search, character widths and the glyph cache.
SPECIFICATION TextSpec
CONSTANTS
  TinyFonts <- MCTinyFonts
  GlyphCodes <- MCGlyphCodes
  Tables <- MCTables
  WidthCodes <- MCWidthCodes
  Rows = 1
  Cols = 1
  Codes <- MCCodes
  Printable <- MCPrintable
  Fonts <- MCFonts
  Colors = {0, 7}
  Inks <- MCInks
  GCLCNT = 2
  GCLLEN = 2
INVARIANTS
  CacheSound
PROPERTIES
  FindsGlyph
  FindEnds
  FindsWidth
  WidthEnds
  CacheInvisible
