-------------------------------- MODULE Pad --------------------------------
(***************************************************************************)
(* libfbpads/pad.c: drawing characters through a cache of glyphs that are  *)
(* already in the framebuffer's format.  The cache consists of GCLCNT      *)
(* lists of GCLLEN slots; a character belongs to one list, whose slots are *)
(* reused in turn.  Bitmaps are represented by what they show.             *)
(***************************************************************************)
EXTENDS PadPicture

CONSTANTS GCLCNT,   \* glyph cache list count
          GCLLEN    \* glyph cache list length

ASSUME CacheSize == GCLCNT \in Nat \ {0} /\ GCLLEN \in Nat \ {0}

Slots == (0..(GCLCNT - 1)) \X (0..(GCLLEN - 1))

VARIABLE gc   \* the cache: key (gc_glyph, gc_fg and gc_bg) and mem (the bitmap)
              \* of every slot, and next, the slot to use next in each list

padVars == <<pad, call, gc>>

Garbage == [kind |-> "garbage"]   \* memory fresh from malloc
NULL == [kind |-> "NULL"]

\* c & (GCLCNT - 1), GCLCNT being a power of two.
GCIDX(ch) == ch % GCLCNT

Key(ch, fg, bg) == [ch |-> ch, fg |-> fg, bg |-> bg]

\* Mutant: the background is not compared.
gc_get_AnyBg(g, ch, fg, bg) ==
  { s \in Slots : s[1] = GCIDX(ch) /\ g.key[s].ch = ch /\ g.key[s].fg = fg }
\* The slots in which the search succeeds; it takes the first.
gc_get(g, ch, fg, bg) ==
  { s \in Slots : s[1] = GCIDX(ch) /\ g.key[s] = Key(ch, fg, bg) }
FirstOf(ss) == CHOOSE s \in ss : \A r \in ss : s[2] <= r[2]

\* gc_put, with the bitmap that bmp2fb then writes where it points.
gc_put(g, ch, fg, bg, bits) ==
  LET lst == GCIDX(ch)
      slot == <<lst, g.next[lst]>>
      used == g.next[lst] + 1
  IN  [key  |-> [g.key EXCEPT ![slot] = Key(ch, fg, bg)],
       mem  |-> [g.mem EXCEPT ![slot] = bits],
       next |-> [g.next EXCEPT ![lst] = IF used >= GCLLEN THEN 0 ELSE used]]

\* Mutant: the slot is taken before the font is asked for the glyph.
ch2fb_Early(g, fn, ch, fg, bg) ==
  LET hits == gc_get(g, ch, fg, bg)
      old == g.mem[<<GCIDX(ch), g.next[GCIDX(ch)]>>]
  IN  IF ch \notin Printable THEN [bits |-> NULL, gc |-> g]
      ELSE IF hits # {} THEN [bits |-> g.mem[FirstOf(hits)], gc |-> g]
      ELSE IF ch \notin Fonts[fn] THEN [bits |-> NULL, gc |-> gc_put(g, ch, fg, bg, old)]
      ELSE LET new == Glyph(fn, ch, fg.c, bg.c)
           IN  [bits |-> new, gc |-> gc_put(g, ch, fg, bg, new)]

\* The bitmap, NULL if there is none, and the cache afterwards.
ch2fb(g, fn, ch, fg, bg) ==
  LET hits == gc_get(g, ch, fg, bg)
      new == Glyph(fn, ch, fg.c, bg.c)
  IN  IF ch \notin Printable THEN [bits |-> NULL, gc |-> g]
      ELSE IF hits # {} THEN [bits |-> g.mem[FirstOf(hits)], gc |-> g]
      ELSE IF ch \notin Fonts[fn] THEN [bits |-> NULL, gc |-> g]
      ELSE [bits |-> new, gc |-> gc_put(g, ch, fg, bg, new)]

fnsel(fg, bg) ==
  IF fg.b \/ bg.b THEN IF 2 \in DOMAIN Fonts THEN 2 ELSE 0
  ELSE IF fg.i \/ bg.i THEN IF 1 \in DOMAIN Fonts THEN 1 ELSE 0
  ELSE 0

pad_put(ch, x, fg, bg) ==
  LET first == ch2fb(gc, fnsel(fg, bg), ch, fg, bg)
      last == IF first.bits = NULL THEN ch2fb(first.gc, 0, ch, fg, bg) ELSE first
  IN  /\ call' = <<"put", ch, x, fg, bg>>
      /\ pad' = [pad EXCEPT ![x] = IF last.bits = NULL THEN Box(bg.c) ELSE last.bits]
      /\ gc' = last.gc

\* A negative end stands for the end of the pad.
pad_fill(sr, er, sc, ec, color) ==
  LET lastRow == IF er >= 0 THEN er ELSE Rows
      lastCol == IF ec >= 0 THEN ec ELSE Cols
  IN  /\ call' = <<"fill", sr, er, sc, ec, color>>
      /\ pad' = [x \in Cells |->
                   IF x[1] \in sr..(lastRow - 1) /\ x[2] \in sc..(lastCol - 1)
                   THEN Box(color) ELSE pad[x]]
      /\ UNCHANGED gc

\* pad_init; the arrays of the cache are static, its bitmaps come from malloc.
PadInit ==
  LET zero == [c |-> 0, b |-> FALSE, i |-> FALSE]
  IN  /\ PicInit
      /\ gc = [key  |-> [s \in Slots |-> Key(0, zero, zero)],
               mem  |-> [s \in Slots |-> Garbage],
               next |-> [lst \in 0..(GCLCNT - 1) |-> 0]]

\* The terminal fills the rest of a row (_draw_row), a run of blanks, or all.
PadNext ==
  \/ \E ch \in Codes, x \in Cells, ink \in Inks : pad_put(ch, x, ink[1], ink[2])
  \/ \E sr \in 0..(Rows - 1), sc \in 0..Cols, ec \in {-1} \cup 0..Cols, color \in Colors :
       pad_fill(sr, sr + 1, sc, ec, color)
  \/ \E color \in Colors : pad_fill(0, -1, 0, -1, color)

PadSpec == PadInit /\ [][PadNext]_padVars

-----------------------------------------------------------------------------
(* Properties *)

\* A slot whose character can be looked up holds exactly the bitmap that this
\* character has in the slot's colours, never one of an earlier occupant, of the
\* wrong font or from malloc.
CacheSound ==
  \A s \in Slots :
    LET k == gc.key[s]
    IN  k.ch \in Printable => gc.mem[s] = Picture(k.ch, k.fg, k.bg)

\* No character is cached twice in the same colours: a list has room for GCLLEN
\* different glyphs.
NoDuplicates ==
  \A r, s \in Slots :
    gc.key[r].ch \in Printable /\ gc.key[r] = gc.key[s] => r = s

\* The cache cannot be seen: the pad shows what it would show without it.
CacheInvisible == PicSpec
=============================================================================
