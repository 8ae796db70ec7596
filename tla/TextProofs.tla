----------------------------- MODULE TextProofs -----------------------------
(***************************************************************************)
(* What a character goes through before it is on the framebuffer, for      *)
(* every font, every table of widths and every size of cache: find_glyph   *)
(* and isdw and iszw implement a lookup table, and the glyph cache of      *)
(* pad_put cannot be seen.                                                 *)
(***************************************************************************)
EXTENDS Font, Isdw, Pad, TLAPS

-----------------------------------------------------------------------------
(* The search in a font (font.c) *)

FontType ==
  /\ font \in TinyFonts
  /\ c \in GlyphCodes /\ ret \in Int
  /\ searching \in BOOLEAN
FontInv == FontType /\ SearchEncloses

\* The glyphs of a sorted font are distinct: a code's place is unique.
LEMMA PlaceIsUnique ==
  ASSUME NEW f \in TinyFonts, NEW code, NEW i \in 0..(f.n - 1), f.glyphs[i] = code
  PROVE  IndexOf(f, code) = i
<1> FontIsSorted(f)
  BY FontsSorted
<1>1. \A j \in 0..(f.n - 1) : f.glyphs[j] = code => j = i
  BY DEF FontIsSorted
<1> QED
  BY <1>1 DEF IndexOf

\* A code that is not among the glyphs has no place.
LEMMA NoPlace ==
  ASSUME NEW f \in TinyFonts, NEW code, \A i \in 0..(f.n - 1) : f.glyphs[i] # code
  PROVE  IndexOf(f, code) = -1
BY DEF IndexOf

LEMMA IndexOfIsInt ==
  ASSUME NEW f \in TinyFonts, NEW code
  PROVE  IndexOf(f, code) \in Int
<1>1. CASE \E i \in 0..(f.n - 1) : f.glyphs[i] = code
  BY <1>1, PlaceIsUnique, FontsSorted DEF FontIsSorted
<1>2. CASE \A i \in 0..(f.n - 1) : f.glyphs[i] # code
  BY <1>2, NoPlace
<1> QED
  BY <1>1, <1>2

\* The middle of a range that is not empty is inside it.
LEMMA Middle ==
  ASSUME NEW a \in Nat, NEW b \in Nat, a < b
  PROVE  (a + b) \div 2 \in a..(b - 1)
OBVIOUS

LEMMA FontInvHolds == FontSpec => []FontInv
<1>1. FontInit => FontInv
  <2> SUFFICES ASSUME FontInit PROVE FontInv
    OBVIOUS
  <2>1. ~searching /\ ret \in Int
    BY DEF FontInit
  <2> QED
    BY <2>1, Zenon DEF FontInit, FontInv, FontType, SearchEncloses
<1>2. FontInv /\ [FontNext]_fontVars => FontInv'
  <2> SUFFICES ASSUME FontInv, [FontNext]_fontVars PROVE FontInv'
    OBVIOUS
  <2> FontIsSorted(font)
    BY FontsSorted DEF FontInv, FontType
  <2>1. ASSUME NEW code \in GlyphCodes, call_find(code) PROVE FontInv'
    BY <2>1 DEF call_find, FontInv, FontType, SearchEncloses, FontIsSorted
  <2>2. CASE find_hit
    <3>1. m \in Int
      BY <2>2, Middle DEF find_hit, FontInv, FontType, SearchEncloses, FontIsSorted, m
    <3> QED
      BY <2>2, <3>1 DEF find_hit, FontInv, FontType, SearchEncloses
  <2>3. CASE find_lower
    <3>1. m \in l..(h - 1) /\ l \in 0..font.n /\ h \in 0..font.n
      BY <2>3, Middle DEF find_lower, FontInv, FontType, SearchEncloses, FontIsSorted, m
    <3> c \in Int
      BY GlyphCodesAreInts DEF FontInv, FontType
    <3>2. \A i \in 0..(font.n - 1) : font.glyphs[i] = c => l <= i /\ i < m
      <4> SUFFICES ASSUME NEW i \in 0..(font.n - 1), font.glyphs[i] = c
                   PROVE  l <= i /\ i < m
        OBVIOUS
      <4>1. l <= i /\ i < h
        BY <2>3 DEF find_lower, FontInv, SearchEncloses
      <4>a. m \in 0..(font.n - 1)
        BY <3>1 DEF FontIsSorted
      <4>b. font.glyphs[m] \in Int /\ font.glyphs[i] \in Int
        BY <4>a DEF FontIsSorted
      <4>2. font.glyphs[i] < font.glyphs[m]
        BY <2>3, <4>b DEF find_lower
      <4>3. ~(m < i) /\ m # i
        BY <4>a, <4>b, <4>2 DEF FontIsSorted
      <4> QED
        BY <4>1, <4>3, <3>1
    <3> QED
      BY <2>3, <3>1, <3>2 DEF find_lower, FontInv, FontType, SearchEncloses, FontIsSorted
  <2>4. CASE find_upper
    <3>1. m \in l..(h - 1) /\ l \in 0..font.n /\ h \in 0..font.n
      BY <2>4, Middle DEF find_upper, FontInv, FontType, SearchEncloses, FontIsSorted, m
    <3> c \in Int
      BY GlyphCodesAreInts DEF FontInv, FontType
    <3>2. \A i \in 0..(font.n - 1) : font.glyphs[i] = c => m + 1 <= i /\ i < h
      <4> SUFFICES ASSUME NEW i \in 0..(font.n - 1), font.glyphs[i] = c
                   PROVE  m + 1 <= i /\ i < h
        OBVIOUS
      <4>1. l <= i /\ i < h
        BY <2>4 DEF find_upper, FontInv, SearchEncloses
      <4>a. m \in 0..(font.n - 1)
        BY <3>1 DEF FontIsSorted
      <4>b. font.glyphs[m] \in Int /\ font.glyphs[i] \in Int
        BY <4>a DEF FontIsSorted
      <4>2. font.glyphs[m] < font.glyphs[i]
        BY <2>4, <4>b DEF find_upper
      <4>3. ~(i < m) /\ m # i
        BY <4>a, <4>b, <4>2 DEF FontIsSorted
      <4> QED
        BY <4>1, <4>3, <3>1
    <3> QED
      BY <2>4, <3>1, <3>2 DEF find_upper, FontInv, FontType, SearchEncloses, FontIsSorted
  <2>5. CASE find_miss
    <3>1. ~searching' /\ ret' \in Int
      BY <2>5 DEF find_miss
    <3> QED
      BY <2>5, <3>1, Zenon DEF find_miss, FontInv, FontType, SearchEncloses
  <2>6. CASE UNCHANGED fontVars
    BY <2>6 DEF fontVars, FontInv, FontType, SearchEncloses
  <2> QED
    BY <2>1, <2>2, <2>3, <2>4, <2>5, <2>6 DEF FontNext, find_glyph
<1> QED
  BY <1>1, <1>2, PTL DEF FontSpec

\* The bounds of find_glyph's search stay inside the font and enclose the glyph
\* that is looked for, in every sorted font.
THEOREM SearchAlwaysEncloses == FontSpec => []SearchEncloses
BY FontInvHolds, PTL DEF FontInv

\* find_glyph implements a lookup table: every result is the index of the glyph
\* or, exactly for a code without a glyph, -1.
THEOREM FindGlyphIsLookup == FontSpec => FindsGlyph
<1>1. FontInit => GlyphTable!LkInit
  <2> SUFFICES ASSUME FontInit PROVE GlyphTable!LkInit
    OBVIOUS
  <2>1. [code \in GlyphCodes |-> IndexOf(font, code)] \in [GlyphCodes -> Int]
    BY IndexOfIsInt DEF FontInit
  <2> QED
    BY <2>1 DEF FontInit, GlyphTable!LkInit
<1>2. FontInv /\ [FontNext]_fontVars => [GlyphTable!LkNext]_(GlyphTable!lkVars)
  <2> SUFFICES ASSUME FontInv, [FontNext]_fontVars
               PROVE  [GlyphTable!LkNext]_(GlyphTable!lkVars)
    OBVIOUS
  <2> FontIsSorted(font)
    BY FontsSorted DEF FontInv, FontType
  <2>1. ASSUME NEW code \in GlyphCodes, call_find(code) PROVE GlyphTable!Ask(code)
    BY <2>1 DEF call_find, GlyphTable!Ask
  <2>2. ASSUME find_hit PROVE GlyphTable!Reply
    <3>1. m \in 0..(font.n - 1)
      BY <2>2, Middle DEF find_hit, FontInv, FontType, SearchEncloses, FontIsSorted, m
    <3>2. IndexOf(font, c) = m
      BY <2>2, <3>1, PlaceIsUnique DEF find_hit, FontInv, FontType
    <3> QED
      BY <2>2, <3>2 DEF find_hit, GlyphTable!Reply, FontInv, FontType
  <2>3. ASSUME find_lower \/ find_upper PROVE UNCHANGED GlyphTable!lkVars
    BY <2>3 DEF find_lower, find_upper, GlyphTable!lkVars
  <2>4. ASSUME find_miss PROVE GlyphTable!Reply
    <3>1. \A i \in 0..(font.n - 1) : font.glyphs[i] # c
      BY <2>4 DEF find_miss, FontInv, SearchEncloses, FontIsSorted
    <3>2. IndexOf(font, c) = -1
      BY <3>1, NoPlace DEF FontInv, FontType
    <3> QED
      BY <2>4, <3>2 DEF find_miss, GlyphTable!Reply, FontInv, FontType
  <2>5. CASE UNCHANGED fontVars
    BY <2>5 DEF fontVars, GlyphTable!lkVars
  <2> QED
    BY <2>1, <2>2, <2>3, <2>4, <2>5 DEF FontNext, find_glyph, GlyphTable!LkNext
<1> QED
  BY <1>1, <1>2, FontInvHolds, PTL DEF FontSpec, FindsGlyph, GlyphTable!LkSafe

-----------------------------------------------------------------------------
(* The search in a table of widths (isdw.c) *)

IsdwType ==
  /\ tab \in Tables
  /\ wc \in WidthCodes /\ wret \in {0, 1}
  /\ wpc \in {"idle", "called", "loop"}
IsdwInv == IsdwType /\ RangesEnclosed

\* The bounds and the middle of a search that goes on, and the ranges there.
LEMMA MiddleInTable ==
  ASSUME IsdwInv, wpc = "loop", wl <= wh
  PROVE  /\ TableIsSorted(tab) /\ wc \in Int
         /\ wl \in 0..tab.n /\ wh \in -1..(tab.n - 1)
         /\ wm \in 0..(tab.n - 1) /\ wl <= wm /\ wm <= wh
         /\ \A i \in 0..(tab.n - 1) : tab.lo[i] \in Int /\ tab.hi[i] \in Int
<1>1. TableIsSorted(tab) /\ wc \in Int
  BY TablesSorted, WidthCodesAreInts DEF IsdwInv, IsdwType
<1>2. wl \in 0..tab.n /\ wh \in -1..(tab.n - 1)
  BY DEF IsdwInv, RangesEnclosed
<1>3. wm \in 0..(tab.n - 1) /\ wl <= wm /\ wm <= wh
  BY <1>1, <1>2 DEF wm, TableIsSorted
<1> QED
  BY <1>1, <1>2, <1>3 DEF TableIsSorted

LEMMA IsdwInvHolds == IsdwSpec => []IsdwInv
<1>1. IsdwInit => IsdwInv
  BY DEF IsdwInit, IsdwInv, IsdwType, RangesEnclosed
<1>2. IsdwInv /\ [IsdwNext]_isdwVars => IsdwInv'
  <2> SUFFICES ASSUME IsdwInv, [IsdwNext]_isdwVars PROVE IsdwInv'
    OBVIOUS
  <2>0. TableIsSorted(tab) /\ wc \in Int
    BY TablesSorted, WidthCodesAreInts DEF IsdwInv, IsdwType
  <2>1. ASSUME NEW code \in WidthCodes, call_isdw(code) PROVE IsdwInv'
    BY <2>1 DEF call_isdw, IsdwInv, IsdwType, RangesEnclosed
  <2>2. CASE below_table \/ isdw_hit \/ isdw_miss
    BY <2>2 DEF below_table, isdw_hit, isdw_miss, return, IsdwInv, IsdwType, RangesEnclosed
  <2>3. CASE enter_find
    <3>1. tab.n \in Nat \ {0}
      BY <2>0 DEF TableIsSorted
    <3> QED
      BY <2>3, <3>1 DEF enter_find, IsdwInv, IsdwType, RangesEnclosed
  <2>4. CASE isdw_lower
    <3> USE <2>4 DEF isdw_lower
    <3>0. /\ wl \in 0..tab.n /\ wh \in -1..(tab.n - 1) /\ tab.n \in Nat
          /\ wm \in 0..(tab.n - 1) /\ wl <= wm /\ wm <= wh
      BY MiddleInTable DEF TableIsSorted
    <3>1. \A i \in 0..(tab.n - 1) : Inside(tab, i, wc) => wl <= i /\ i <= wm - 1
      <4> SUFFICES ASSUME NEW i \in 0..(tab.n - 1), Inside(tab, i, wc)
                   PROVE  wl <= i /\ i <= wm - 1
        OBVIOUS
      <4>1. wl <= i
        BY DEF IsdwInv, RangesEnclosed
      <4>a. /\ tab.lo[i] \in Int /\ tab.hi[i] \in Int /\ tab.lo[wm] \in Int /\ tab.hi[wm] \in Int
            /\ tab.lo[i] <= wc /\ wc <= tab.hi[i] /\ wc \in Int /\ tab.lo[wm] <= tab.hi[wm]
            /\ (wm < i => tab.hi[wm] < tab.lo[i]) /\ (i < wm => tab.hi[i] < tab.lo[wm])
        BY <2>0, <3>0 DEF TableIsSorted, Inside
      <4>2. ~(wm < i) /\ i # wm
        BY <4>a, <3>0
      <4> QED
        BY <4>1, <4>2, <3>0
    <3>2. wm - 1 \in -1..(tab.n - 1)
      BY <3>0
    <3> QED
      BY <3>1, <3>2 DEF IsdwInv, IsdwType, RangesEnclosed, Inside
  <2>5. CASE isdw_upper
    <3> USE <2>5 DEF isdw_upper
    <3>0. /\ wl \in 0..tab.n /\ wh \in -1..(tab.n - 1) /\ tab.n \in Nat
          /\ wm \in 0..(tab.n - 1) /\ wl <= wm /\ wm <= wh
      BY MiddleInTable DEF TableIsSorted
    <3>1. \A i \in 0..(tab.n - 1) : Inside(tab, i, wc) => wm + 1 <= i /\ i <= wh
      <4> SUFFICES ASSUME NEW i \in 0..(tab.n - 1), Inside(tab, i, wc)
                   PROVE  wm + 1 <= i /\ i <= wh
        OBVIOUS
      <4>1. i <= wh
        BY DEF IsdwInv, RangesEnclosed
      <4>a. /\ tab.lo[i] \in Int /\ tab.hi[i] \in Int /\ tab.lo[wm] \in Int /\ tab.hi[wm] \in Int
            /\ tab.lo[i] <= wc /\ wc <= tab.hi[i] /\ wc \in Int /\ tab.lo[wm] <= tab.hi[wm]
            /\ (wm < i => tab.hi[wm] < tab.lo[i]) /\ (i < wm => tab.hi[i] < tab.lo[wm])
        BY <2>0, <3>0 DEF TableIsSorted, Inside
      <4>2. ~(i < wm) /\ i # wm
        BY <4>a, <3>0
      <4> QED
        BY <4>1, <4>2, <3>0
    <3>2. wm + 1 \in 0..tab.n
      BY <3>0
    <3> QED
      BY <3>1, <3>2 DEF IsdwInv, IsdwType, RangesEnclosed, Inside
  <2>6. CASE UNCHANGED isdwVars
    BY <2>6 DEF isdwVars, IsdwInv, IsdwType, RangesEnclosed
  <2> QED
    BY <2>1, <2>2, <2>3, <2>4, <2>5, <2>6 DEF IsdwNext, find
<1> QED
  BY <1>1, <1>2, PTL DEF IsdwSpec

\* The bounds of find's search stay within one of the table and enclose the range
\* of the character, in every sorted table.
THEOREM SearchKeepsRanges == IsdwSpec => []RangesEnclosed
BY IsdwInvHolds, PTL DEF IsdwInv

\* isdw and iszw implement a lookup table: they return 1 exactly for the characters
\* of their table.
THEOREM IsdwIsLookup == IsdwSpec => FindsWidth
<1>1. IsdwInit => WidthTable!LkInit
  BY DEF IsdwInit, WidthTable!LkInit, InTable
<1>2. IsdwInv /\ [IsdwNext]_isdwVars => [WidthTable!LkNext]_(WidthTable!lkVars)
  <2> SUFFICES ASSUME IsdwInv, [IsdwNext]_isdwVars
               PROVE  [WidthTable!LkNext]_(WidthTable!lkVars)
    OBVIOUS
  <2>0. TableIsSorted(tab) /\ wc \in Int /\ wc \in WidthCodes
    BY TablesSorted, WidthCodesAreInts DEF IsdwInv, IsdwType
  <2>1. ASSUME NEW code \in WidthCodes, call_isdw(code) PROVE WidthTable!Ask(code)
    BY <2>1 DEF call_isdw, WidthTable!Ask
  <2>2. ASSUME below_table PROVE WidthTable!Reply
    <3>1. ASSUME NEW i \in 0..(tab.n - 1) PROVE ~Inside(tab, i, wc)
      <4>1. tab.lo[0] \in Int /\ tab.lo[i] \in Int /\ tab.hi[i] \in Int /\ tab.hi[0] \in Int
        BY <2>0 DEF TableIsSorted
      <4>2. tab.lo[0] <= tab.lo[i] /\ wc < tab.lo[0]
        <5>1. CASE i = 0
          BY <5>1, <4>1, <2>0, <2>2 DEF TableIsSorted, below_table
        <5>2. CASE 0 < i
          <6>1. tab.lo[0] <= tab.hi[0] /\ tab.hi[0] < tab.lo[i]
            BY <5>2, <2>0 DEF TableIsSorted
          <6> QED
            BY <6>1, <4>1, <2>0, <2>2 DEF TableIsSorted, below_table
        <5> QED
          BY <5>1, <5>2
      <4> QED
        BY <4>1, <4>2, <2>0 DEF Inside
    <3>2. InTable(tab, wc) = 0
      BY <3>1 DEF InTable
    <3> QED
      BY <2>0, <2>2, <3>2 DEF below_table, return, WidthTable!Reply
  <2>3. ASSUME isdw_hit PROVE WidthTable!Reply
    <3>1. InTable(tab, wc) = 1
      BY <2>3, MiddleInTable DEF isdw_hit, InTable, Inside
    <3> QED
      BY <2>0, <2>3, <3>1 DEF isdw_hit, return, WidthTable!Reply
  <2>4. ASSUME isdw_miss PROVE WidthTable!Reply
    <3>1. ASSUME NEW i \in 0..(tab.n - 1) PROVE ~Inside(tab, i, wc)
      BY <2>4, <2>0 DEF isdw_miss, IsdwInv, RangesEnclosed, TableIsSorted
    <3>2. InTable(tab, wc) = 0
      BY <3>1 DEF InTable
    <3> QED
      BY <2>0, <2>4, <3>2 DEF isdw_miss, return, WidthTable!Reply
  <2>5. ASSUME enter_find \/ isdw_lower \/ isdw_upper PROVE UNCHANGED WidthTable!lkVars
    BY <2>5 DEF enter_find, isdw_lower, isdw_upper, WidthTable!lkVars
  <2>6. CASE UNCHANGED isdwVars
    BY <2>6 DEF isdwVars, WidthTable!lkVars
  <2> QED
    BY <2>1, <2>2, <2>3, <2>4, <2>5, <2>6 DEF IsdwNext, find, WidthTable!LkNext
<1> QED
  BY <1>1, <1>2, IsdwInvHolds, PTL DEF IsdwSpec, FindsWidth, WidthTable!LkSafe

-----------------------------------------------------------------------------
(* The pad and its glyph cache (pad.c) *)

Ink == [c : Colors, b : BOOLEAN, i : BOOLEAN]

CacheType ==
  /\ DOMAIN gc = {"key", "mem", "next"}
  /\ gc.key \in [Slots -> [ch : Nat, fg : Ink, bg : Ink]]
  /\ DOMAIN gc.mem = Slots
  /\ gc.next \in [0..(GCLCNT - 1) -> 0..(GCLLEN - 1)]

\* A character is only ever in the list that is searched for it.
InOwnList ==
  \A s \in Slots : gc.key[s].ch \in Printable => s[1] = GCIDX(gc.key[s].ch)

CacheInv == CacheType /\ CacheSound /\ InOwnList /\ NoDuplicates

LEMMA InksAreInks == \A ink \in Inks : ink[1] \in Ink /\ ink[2] \in Ink
BY PadColors DEF Ink

LEMMA FontIsWanted == \A fg, bg : fnsel(fg, bg) = Wanted(fg, bg)
BY Zenon DEF fnsel, Wanted

LEMMA PictureNotNull == \A ch, fg, bg : Picture(ch, fg, bg) # NULL
<1> TAKE ch, fg, bg
<1>1. Picture(ch, fg, bg).kind \in {"box", "glyph"}
  BY DEF Picture, Box, Glyph
<1>2. NULL.kind = "NULL"
  BY DEF NULL
<1> QED
  BY <1>1, <1>2

\* The list of a character exists.
LEMMA ListExists == \A ch \in Nat : GCIDX(ch) \in 0..(GCLCNT - 1)
BY CacheSize DEF GCIDX

\* A search that succeeds finds the character's bitmap.
LEMMA HitIsRight ==
  ASSUME CacheSound, NoDuplicates, NEW ch \in Printable, NEW fg, NEW bg,
         gc_get(gc, ch, fg, bg) # {}
  PROVE  gc.mem[FirstOf(gc_get(gc, ch, fg, bg))] = Picture(ch, fg, bg)
<1>1. PICK p \in Slots : p[1] = GCIDX(ch) /\ gc.key[p] = Key(ch, fg, bg)
  BY DEF gc_get
<1>2. gc_get(gc, ch, fg, bg) = {p}
  BY <1>1 DEF gc_get, NoDuplicates, Key
<1>3. FirstOf(gc_get(gc, ch, fg, bg)) = p
  <2>1. p[2] <= p[2]
    BY <1>1, CacheSize DEF Slots
  <2> QED
    BY <1>2, <2>1 DEF FirstOf
<1>4. gc.key[p].ch = ch /\ gc.key[p].fg = fg /\ gc.key[p].bg = bg
  BY <1>1 DEF Key
<1> QED
  BY <1>1, <1>3, <1>4 DEF CacheSound

\* What a put character leaves: its picture in the cell, and a cache that is the
\* same or has the picture under the character's key, which it did not have before.
LEMMA PutResult ==
  ASSUME CacheInv, NEW ch \in Codes, NEW x \in Cells, NEW fg \in Ink, NEW bg \in Ink,
         pad_put(ch, x, fg, bg)
  PROVE  /\ ShowChar(ch, x, fg, bg)
         /\ \/ gc' = gc
            \/ /\ ch \in Printable
               /\ gc_get(gc, ch, fg, bg) = {}
               /\ gc' = gc_put(gc, ch, fg, bg, Picture(ch, fg, bg))
<1> DEFINE first == ch2fb(gc, Wanted(fg, bg), ch, fg, bg)
           last == IF first.bits = NULL THEN ch2fb(first.gc, 0, ch, fg, bg) ELSE first
           hits == gc_get(gc, ch, fg, bg)
           pic == Picture(ch, fg, bg)
<1>0. /\ call' = <<"put", ch, x, fg, bg>>
      /\ pad' = [pad EXCEPT ![x] = IF last.bits = NULL THEN Box(bg.c) ELSE last.bits]
      /\ gc' = last.gc
  BY FontIsWanted DEF pad_put
<1>n. pic # NULL
  BY PictureNotNull
<1>1. /\ last.bits = pic \/ (last.bits = NULL /\ pic = Box(bg.c))
      /\ \/ last.gc = gc
         \/ ch \in Printable /\ hits = {} /\ last.gc = gc_put(gc, ch, fg, bg, pic)
  <2>1. CASE ch \notin Printable
    <3>1. first = [bits |-> NULL, gc |-> gc] /\ pic = Box(bg.c)
      BY <2>1 DEF ch2fb, Picture
    <3>2. last = [bits |-> NULL, gc |-> gc]
      BY <2>1, <3>1 DEF ch2fb
    <3> QED
      BY <3>1, <3>2
  <2>2. CASE ch \in Printable /\ hits # {}
    <3>1. gc.mem[FirstOf(hits)] = pic
      BY <2>2, HitIsRight DEF CacheInv
    <3>2. first = [bits |-> pic, gc |-> gc]
      BY <2>2, <3>1 DEF ch2fb
    <3>3. last = first
      BY <3>2, <1>n
    <3> QED
      BY <3>2, <3>3
  <2>3. CASE ch \in Printable /\ hits = {} /\ ch \in Fonts[Wanted(fg, bg)]
    <3>1. pic = Glyph(Wanted(fg, bg), ch, fg.c, bg.c)
      BY <2>3 DEF Picture
    <3>2. first = [bits |-> pic, gc |-> gc_put(gc, ch, fg, bg, pic)]
      BY <2>3, <3>1 DEF ch2fb
    <3>3. last = first
      BY <3>2, <1>n
    <3> QED
      BY <2>3, <3>2, <3>3
  <2>4. CASE ch \in Printable /\ hits = {} /\ ch \notin Fonts[Wanted(fg, bg)]
    <3>1. first = [bits |-> NULL, gc |-> gc]
      BY <2>4 DEF ch2fb
    <3>2. CASE ch \in Fonts[0]
      <4>1. pic = Glyph(0, ch, fg.c, bg.c)
        BY <2>4, <3>2 DEF Picture
      <4>2. last = [bits |-> pic, gc |-> gc_put(gc, ch, fg, bg, pic)]
        BY <2>4, <3>1, <3>2, <4>1 DEF ch2fb
      <4> QED
        BY <2>4, <4>2
    <3>3. CASE ch \notin Fonts[0]
      <4>1. pic = Box(bg.c)
        BY <2>4, <3>3 DEF Picture
      <4>2. last = [bits |-> NULL, gc |-> gc]
        BY <2>4, <3>1, <3>3 DEF ch2fb
      <4> QED
        BY <4>1, <4>2
    <3> QED
      BY <3>2, <3>3
  <2> QED
    BY <2>1, <2>2, <2>3, <2>4
<1> HIDE DEF last, pic
<1>2. pad' = [pad EXCEPT ![x] = pic]
  BY <1>0, <1>1, <1>n
<1> QED
  BY <1>0, <1>1, <1>2 DEF ShowChar, pic

\* Caching a character that is not in the cache keeps the cache's invariant.
LEMMA PutKeepsInv ==
  ASSUME CacheInv, NEW ch \in Printable, NEW fg \in Ink, NEW bg \in Ink,
         gc_get(gc, ch, fg, bg) = {},
         gc' = gc_put(gc, ch, fg, bg, Picture(ch, fg, bg))
  PROVE  CacheInv'
<1> DEFINE lst == GCIDX(ch)
           slot == <<lst, gc.next[lst]>>
           used == gc.next[lst] + 1
           pic == Picture(ch, fg, bg)
<1>1. ch \in Nat /\ lst \in 0..(GCLCNT - 1) /\ gc.next[lst] \in 0..(GCLLEN - 1)
  BY ListExists, PadCodes DEF CacheInv, CacheType
<1>2. slot \in Slots /\ slot[1] = lst
  BY <1>1 DEF Slots
<1> HIDE DEF pic
<1>3. /\ gc'.key = [gc.key EXCEPT ![slot] = Key(ch, fg, bg)]
      /\ gc'.mem = [gc.mem EXCEPT ![slot] = pic]
      /\ gc'.next = [gc.next EXCEPT ![lst] = IF used >= GCLLEN THEN 0 ELSE used]
      /\ DOMAIN gc' = {"key", "mem", "next"}
  BY DEF gc_put, pic
<1> HIDE DEF lst, used
<1>4. Key(ch, fg, bg) \in [ch : Nat, fg : Ink, bg : Ink]
  BY <1>1 DEF Key
<1>5. CacheType'
  <2>1. gc'.key \in [Slots -> [ch : Nat, fg : Ink, bg : Ink]]
    BY <1>2, <1>3, <1>4 DEF CacheInv, CacheType
  <2>2. DOMAIN gc'.mem = Slots
    BY <1>3 DEF CacheInv, CacheType
  <2>3. gc'.next \in [0..(GCLCNT - 1) -> 0..(GCLLEN - 1)]
    BY <1>1, <1>3, CacheSize DEF CacheInv, CacheType, used
  <2> QED
    BY <1>3, <2>1, <2>2, <2>3 DEF CacheType
<1>6. /\ gc'.key[slot] = Key(ch, fg, bg) /\ gc'.mem[slot] = pic
      /\ \A s \in Slots : s # slot => gc'.key[s] = gc.key[s] /\ gc'.mem[s] = gc.mem[s]
  BY <1>2, <1>3 DEF CacheInv, CacheType
<1> HIDE DEF slot
<1>7. Key(ch, fg, bg).ch = ch /\ Key(ch, fg, bg).fg = fg /\ Key(ch, fg, bg).bg = bg
  BY DEF Key
<1>8. CacheSound'
  <2> SUFFICES ASSUME NEW s \in Slots, gc'.key[s].ch \in Printable
               PROVE  gc'.mem[s] = Picture(gc'.key[s].ch, gc'.key[s].fg, gc'.key[s].bg)
    BY DEF CacheSound
  <2>1. CASE s = slot
    BY <2>1, <1>6, <1>7 DEF pic
  <2>2. CASE s # slot
    BY <2>2, <1>6 DEF CacheInv, CacheSound
  <2> QED
    BY <2>1, <2>2
<1>9. InOwnList'
  BY <1>2, <1>6, <1>7 DEF CacheInv, InOwnList, lst
<1>10. NoDuplicates'
  <2>1. \A s \in Slots : gc.key[s] # Key(ch, fg, bg)
    BY <1>7 DEF CacheInv, InOwnList, gc_get
  <2> SUFFICES ASSUME NEW r \in Slots, NEW s \in Slots,
                      gc'.key[r].ch \in Printable, gc'.key[r] = gc'.key[s]
               PROVE  r = s
    BY DEF NoDuplicates
  <2>2. CASE r = slot \/ s = slot
    BY <2>1, <2>2, <1>6
  <2>3. CASE r # slot /\ s # slot
    BY <2>3, <1>6 DEF CacheInv, NoDuplicates
  <2> QED
    BY <2>2, <2>3
<1> QED
  BY <1>5, <1>8, <1>9, <1>10 DEF CacheInv

LEMMA CacheInvHolds == PadSpec => []CacheInv
<1>1. PadInit => CacheInv
  <2> SUFFICES ASSUME PadInit PROVE CacheInv
    OBVIOUS
  <2> DEFINE zero == [c |-> 0, b |-> FALSE, i |-> FALSE]
  <2>1. zero \in Ink
    BY PadColors DEF Ink
  <2> HIDE DEF zero
  <2>2. /\ DOMAIN gc = {"key", "mem", "next"}
        /\ gc.key = [s \in Slots |-> Key(0, zero, zero)]
        /\ gc.mem = [s \in Slots |-> Garbage]
        /\ gc.next = [lst \in 0..(GCLCNT - 1) |-> 0]
    BY DEF PadInit, zero
  <2>3. Key(0, zero, zero) \in [ch : Nat, fg : Ink, bg : Ink] /\ Key(0, zero, zero).ch = 0
    BY <2>1 DEF Key
  <2>4. \A s \in Slots : gc.key[s].ch \notin Printable
    BY <2>2, <2>3, PadCodes
  <2>5. CacheType
    <3>1. 0 \in 0..(GCLLEN - 1)
      BY CacheSize
    <3> QED
      BY <2>2, <2>3, <3>1 DEF CacheType
  <2> QED
    BY <2>4, <2>5 DEF CacheInv, CacheSound, InOwnList, NoDuplicates
<1>2. CacheInv /\ [PadNext]_padVars => CacheInv'
  <2> SUFFICES ASSUME CacheInv, [PadNext]_padVars PROVE CacheInv'
    OBVIOUS
  <2>0. ASSUME gc' = gc PROVE CacheInv'
    BY <2>0 DEF CacheInv, CacheType, CacheSound, InOwnList, NoDuplicates
  <2>1. ASSUME NEW ch \in Codes, NEW x \in Cells, NEW ink \in Inks,
               pad_put(ch, x, ink[1], ink[2])
        PROVE  CacheInv'
    <3>1. ink[1] \in Ink /\ ink[2] \in Ink
      BY InksAreInks
    <3> QED
      BY <2>0, <2>1, <3>1, PutResult, PutKeepsInv
  <2>2. ASSUME NEW sr, NEW er, NEW sc, NEW ec, NEW color, pad_fill(sr, er, sc, ec, color)
        PROVE  CacheInv'
    BY <2>0, <2>2 DEF pad_fill
  <2>3. CASE UNCHANGED padVars
    BY <2>0, <2>3 DEF padVars
  <2> QED
    BY <2>1, <2>2, <2>3 DEF PadNext
<1> QED
  BY <1>1, <1>2, PTL DEF PadSpec

\* Every slot of the glyph cache that a lookup can find holds the bitmap of its own
\* key, for every size of the cache and every fonts.
THEOREM CacheAlwaysSound == PadSpec => []CacheSound
BY CacheInvHolds, PTL DEF CacheInv

\* The glyph cache never holds a character twice in the same colours.
THEOREM CacheWithoutDuplicates == PadSpec => []NoDuplicates
BY CacheInvHolds, PTL DEF CacheInv

\* pad.c with its cache implements the pad without one: whatever was drawn before,
\* a put character shows its own glyph, in its colours, from the font asked for or
\* the regular one.
THEOREM PadIsPicture == PadSpec => CacheInvisible
<1>1. PadInit => PicInit
  BY DEF PadInit
<1>2. CacheInv /\ [PadNext]_padVars => [PicNext]_picVars
  <2> SUFFICES ASSUME CacheInv, [PadNext]_padVars PROVE [PicNext]_picVars
    OBVIOUS
  <2>1. ASSUME NEW ch \in Codes, NEW x \in Cells, NEW ink \in Inks,
               pad_put(ch, x, ink[1], ink[2])
        PROVE  ShowChar(ch, x, ink[1], ink[2])
    <3>1. ink[1] \in Ink /\ ink[2] \in Ink
      BY InksAreInks
    <3> QED
      BY <2>1, <3>1, PutResult
  <2>2. ASSUME NEW sr \in 0..(Rows - 1), NEW er \in -1..Rows, NEW sc \in 0..Cols,
               NEW ec \in -1..Cols, NEW color \in Colors, pad_fill(sr, er, sc, ec, color)
        PROVE  ShowBox(sr, er, sc, ec, color)
    <3> DEFINE lastRow == IF er >= 0 THEN er ELSE Rows
               lastCol == IF ec >= 0 THEN ec ELSE Cols
    <3>1. ASSUME NEW x \in Cells
          PROVE  (x[1] \in sr..(lastRow - 1) /\ x[2] \in sc..(lastCol - 1))
                   <=> /\ sr <= x[1] /\ (er < 0 \/ x[1] < er)
                       /\ sc <= x[2] /\ (ec < 0 \/ x[2] < ec)
      <4>1. x[1] \in 0..(Rows - 1) /\ x[2] \in 0..(Cols - 1)
        BY DEF Cells
      <4>2. x[1] \in sr..(lastRow - 1) <=> sr <= x[1] /\ (er < 0 \/ x[1] < er)
        BY <4>1, PadSize
      <4>3. x[2] \in sc..(lastCol - 1) <=> sc <= x[2] /\ (ec < 0 \/ x[2] < ec)
        BY <4>1, PadSize
      <4> QED
        BY <4>2, <4>3
    <3> QED
      BY <2>2, <3>1 DEF pad_fill, ShowBox
  <2>3. CASE UNCHANGED padVars
    BY <2>3 DEF padVars, picVars
  <2>4. CASE \E ch \in Codes, x \in Cells, ink \in Inks : pad_put(ch, x, ink[1], ink[2])
    BY <2>1, <2>4 DEF PicNext
  <2>5. ASSUME NEW sr \in 0..(Rows - 1), NEW sc \in 0..Cols, NEW ec \in {-1} \cup 0..Cols,
               NEW color \in Colors, pad_fill(sr, sr + 1, sc, ec, color)
        PROVE  PicNext
    <3>1. sr + 1 \in -1..Rows /\ ec \in -1..Cols
      BY PadSize
    <3> QED
      BY <2>2, <2>5, <3>1 DEF PicNext
  <2>6. ASSUME NEW color \in Colors, pad_fill(0, -1, 0, -1, color)
        PROVE  PicNext
    <3>1. 0 \in 0..(Rows - 1) /\ -1 \in -1..Rows /\ 0 \in 0..Cols /\ -1 \in -1..Cols
      BY PadSize
    <3> QED
      BY <2>2, <2>6, <3>1 DEF PicNext
  <2> QED
    BY <2>3, <2>4, <2>5, <2>6 DEF PadNext
<1> QED
  BY <1>1, <1>2, CacheInvHolds, PTL DEF PadSpec, CacheInvisible, PicSpec
=============================================================================
