-------------------------------- MODULE Font --------------------------------
(***************************************************************************)
(* libfbpads/font.c: the search for a character's glyph in a font, one     *)
(* action per turn of find_glyph's loop.                                   *)
(***************************************************************************)
EXTENDS Integers

CONSTANTS TinyFonts,  \* fonts that font_open_static may be given
          GlyphCodes  \* character codes that are looked up

\* mkfn sorts the glyphs of a font before it writes them and writes each once.
FontIsSorted(f) ==
  /\ f.n \in Nat
  /\ f.glyphs \in [0..(f.n - 1) -> Int]
  /\ \A i, j \in 0..(f.n - 1) : i < j => f.glyphs[i] < f.glyphs[j]

ASSUME FontsSorted == \A f \in TinyFonts : FontIsSorted(f)
ASSUME GlyphCodesAreInts == GlyphCodes \subseteq Int

VARIABLES font,       \* the font
          c, l, h,    \* find_glyph's argument and the bounds of its search
          searching,  \* find_glyph is in its loop
          ret         \* its last result

fontVars == <<font, c, l, h, searching, ret>>

call_find(code) ==
  /\ ~searching
  /\ searching' = TRUE
  /\ c' = code /\ l' = 0 /\ h' = font.n
  /\ UNCHANGED <<font, ret>>

m == (l + h) \div 2

\* Mutant: the lower bound is returned.
find_hit_Low ==
  /\ searching /\ l < h /\ font.glyphs[m] = c
  /\ searching' = FALSE /\ ret' = l
  /\ UNCHANGED <<font, c, l, h>>

find_hit ==
  /\ searching /\ l < h /\ font.glyphs[m] = c
  /\ searching' = FALSE /\ ret' = m
  /\ UNCHANGED <<font, c, l, h>>

\* Mutant: the upper bound is taken to be part of the range.
find_lower_Keep ==
  /\ searching /\ l < h /\ c < font.glyphs[m]
  /\ h' = m + 1
  /\ UNCHANGED <<font, c, l, searching, ret>>

find_lower ==
  /\ searching /\ l < h /\ c < font.glyphs[m]
  /\ h' = m
  /\ UNCHANGED <<font, c, l, searching, ret>>

find_upper ==
  /\ searching /\ l < h /\ font.glyphs[m] < c
  /\ l' = m + 1
  /\ UNCHANGED <<font, c, h, searching, ret>>

find_miss ==
  /\ searching /\ ~(l < h)
  /\ searching' = FALSE /\ ret' = -1
  /\ UNCHANGED <<font, c, l, h>>

\* font_open_static.
FontInit ==
  /\ font \in TinyFonts
  /\ c \in GlyphCodes /\ l = 0 /\ h = 0
  /\ searching = FALSE /\ ret = -1

find_glyph == find_hit \/ find_lower \/ find_upper \/ find_miss

FontNext == find_glyph \/ \E code \in GlyphCodes : call_find(code)
\* The loop is not left before it ends.
FontSpec == FontInit /\ [][FontNext]_fontVars /\ WF_fontVars(find_glyph)

-----------------------------------------------------------------------------
(* Properties *)

\* The place of a code among the glyphs of a font, -1 if it has none.
IndexOf(f, code) ==
  IF \E i \in 0..(f.n - 1) : f.glyphs[i] = code
  THEN CHOOSE i \in 0..(f.n - 1) : f.glyphs[i] = code
  ELSE -1

\* The bounds stay inside the font, so no element behind it is read, and enclose
\* every glyph that the search may still have to find.
SearchEncloses ==
  searching =>
    /\ l \in 0..font.n /\ h \in 0..font.n
    /\ \A i \in 0..(font.n - 1) : font.glyphs[i] = c => l <= i /\ i < h

GlyphTable == INSTANCE TableLookup
            WITH Codes <- GlyphCodes, Answers <- Int,
                 right <- [code \in GlyphCodes |-> IndexOf(font, code)],
                 busy <- searching, asked <- c, answer <- ret

\* find_glyph answers each call, with the index of the glyph or -1: as seen from
\* font_bitmap it is one step of a lookup table.
FindsGlyph == GlyphTable!LkSafe
\* ... and the answer comes: the loop ends.
FindEnds == searching ~> ~searching
=============================================================================
