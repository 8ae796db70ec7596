---------------------------- MODULE ConsoleTerm ----------------------------
(***************************************************************************)
(* The console (VtConsole) drawing through the terminal (Term), joined by  *)
(* the callbacks of libfbpads/libfbpads.c: vtc_paint for every cell that   *)
(* the console changes, vtc_cursormove for its cursor.  The terminal runs  *)
(* no program and is always visible, so everything is drawn at once.       *)
(***************************************************************************)
EXTENDS VtConsole, Sequences

CONSTANT NHIST   \* rows of the terminal's scrolling history
ASSUME HistorySize == NHIST \in Nat \ {0}

VARIABLE t   \* the terminal, term_instance and the statics of term.c

-----------------------------------------------------------------------------
(* Colours, as <<bits 24..31, red, green, blue>> *)

clr16 ==   \* COLOR0..COLOR7 and their bright versions
  [c \in 0..15 |->
     CASE c = 0 -> <<0, 0, 0, 0>>         [] c = 8  -> <<0, 85, 85, 85>>
       [] c = 1 -> <<0, 170, 0, 0>>       [] c = 9  -> <<0, 255, 85, 85>>
       [] c = 2 -> <<0, 0, 170, 0>>       [] c = 10 -> <<0, 85, 255, 85>>
       [] c = 3 -> <<0, 170, 85, 0>>      [] c = 11 -> <<0, 255, 255, 85>>
       [] c = 4 -> <<0, 0, 0, 170>>       [] c = 12 -> <<0, 85, 85, 255>>
       [] c = 5 -> <<0, 170, 0, 170>>     [] c = 13 -> <<0, 255, 85, 255>>
       [] c = 6 -> <<0, 0, 170, 170>>     [] c = 14 -> <<0, 85, 255, 255>>
       [] c = 7 -> <<0, 170, 170, 170>>   [] OTHER  -> <<0, 255, 255, 255>>]

Byte(n, k) == (n \div 256^k) % 256
\* a | b of two bytes: the sum of the bits that are set in either.
Or(a, b) ==
  LET bit(n, k) == (n \div 2^k) % 2
      either(k) == IF bit(a, k) = 1 \/ bit(b, k) = 1 THEN 2^k ELSE 0
  IN  either(0) + either(1) + either(2) + either(3)
        + either(4) + either(5) + either(6) + either(7)

Level(n) == IF n = 0 THEN 0 ELSE n * 40 + 55

\* The grey of an index from 232 on is not confined to a byte:
\* (g << 16) | (g << 8) | g in 32 bits.
clrmap(c) ==
  LET g == (c - 232) * 10 + 8
      k == c - 16
  IN  IF c < 16 THEN clr16[c]
      ELSE IF c < 232
      THEN <<0, Level(k \div 36), Level((k % 36) \div 6), Level(k % 6)>>
      ELSE << Or(Or(Byte(g, 3), Byte(g, 2)), Byte(g, 1)),
              Or(Or(Byte(g, 2), Byte(g, 1)), Byte(g, 0)),
              Or(Byte(g, 1), Byte(g, 0)), Byte(g, 0) >>

Number(rgb) == (rgb[2] * 256 + rgb[3]) * 256 + rgb[4]

\* What vtc_paint passes to term_setfgcolor and term_setbgcolor is an entry of
\* the palette already, and they look it up again.
Painted8 == [n \in 0..7 |-> clrmap(Number(clrmap(n)))]

White == clr16[15]
Black == clr16[0]

T == INSTANCE Term WITH
       Rows <- Height, Cols <- Width,
       Chars <- {"x"}, WideChars <- {}, DWCHAR <- [c \in {} |-> ""],
       Colors <- {White, Black} \cup { Painted8[n] : n \in 0..7 },
       FGCOLOR <- White, BGCOLOR <- Black,
       FgCodes <- [m \in {} |-> Black], BgCodes <- [m \in {} |-> Black],
       Controls <- {}, CsiArgs <- {}, ModeSeqs <- {},
       Bursts <- FALSE, ScrlSteps <- {}, Switching <- FALSE

-----------------------------------------------------------------------------
(* The callbacks *)

vtc_paint(u, cell, x, y) ==
  T!insertchar(
    T!move_cursor([u EXCEPT !.fg = Painted8[cell.attr.fg], !.bg = Painted8[cell.attr.bg]], y, x),
    IF cell.ink THEN "x" ELSE "")

\* Mutant: the cursor is set without being drawn at its new place.
vtc_cursormove_Undrawn(u, cur) ==
  [u EXCEPT !.row = T!LIMIT(cur.y, 0, Height - 1), !.col = T!LIMIT(cur.x, 0, Width - 1)]

vtc_cursormove(u, cur) == T!move_cursor(u, cur.y, cur.x)

\* What the console asks for in a step: a sequence of calls of the two.
Paint(cell, x, y) == [paints |-> TRUE, cell |-> cell, x |-> x, y |-> y]
PaintCells(buf, from, to) ==
  LET cell(i) == Paint(buf[i], i % Width, i \div Width)
  IN  IF from < to THEN [k \in 1..(to - from) |-> cell(from + k - 1)] ELSE <<>>
MoveTo(cur) == [paints |-> FALSE, x |-> cur.x, y |-> cur.y]

Call(u, c) == IF c.paints THEN vtc_paint(u, c.cell, c.x, c.y) ELSE vtc_cursormove(u, c)
After(u, calls) ==
  LET after[k \in 0..Len(calls)] == IF k = 0 THEN u ELSE Call(after[k - 1], calls[k])
  IN  after[Len(calls)]

-----------------------------------------------------------------------------
(* What the terminal is told in a step of the console *)

\* vtconsole_scroll moves the cursor as well.
TellScroll ==
  IF cursor.y + 1 = Height
  THEN Append(PaintCells(vtconsole_newline.buf, 0, Width * Height), MoveTo(vtconsole_newline.cur))
  ELSE <<>>

\* Mutant: only scrolling moves the cursor.
TellNewline_Unmoved == TellScroll

TellNewline == Append(TellScroll, MoveTo(vtconsole_newline.cur))

TellPut ==
  LET full == cursor.x >= Width
      cur == IF full THEN vtconsole_newline.cur ELSE cursor
  IN  (IF full THEN TellNewline ELSE <<>>)
        \o <<Paint(buffer'[At(cur.x, cur.y)], cur.x, cur.y), MoveTo(cursor')>>

TellAppend(c) ==
  CASE c = "\n"          -> TellNewline
    [] c \in {"\r", "BS"} -> <<MoveTo(cursor')>>
    [] c = "\t"          -> <<>>
    [] OTHER             -> TellPut

ErasedByEd ==
  CASE Param0 = 0 -> <<At(cursor.x, cursor.y), Width * Height>>
    [] Param0 = 1 -> <<0, At(cursor.x, cursor.y)>>
    [] Param0 = 2 -> <<0, Width * Height>>
    [] OTHER      -> <<0, 0>>
ErasedByEl ==
  CASE Param0 = 0 -> <<At(cursor.x, cursor.y), At(Width, cursor.y)>>
    [] Param0 = 1 -> <<At(0, cursor.y), At(cursor.x, cursor.y)>>
    [] Param0 = 2 -> <<At(0, cursor.y), At(Width, cursor.y)>>
    [] OTHER      -> <<0, 0>>

\* Mutant: erased cells are not painted.
TellFinal_NoErase(c) == IF c = "H" THEN <<MoveTo(cursor')>> ELSE <<>>

\* ED and EL paint the cells they erase and do not put the cursor back.
TellFinal(c) ==
  CASE c = "H" -> <<MoveTo(cursor')>>
    [] c = "J" -> PaintCells(buffer', ErasedByEd[1], ErasedByEd[2])
    [] c = "K" -> PaintCells(buffer', ErasedByEl[1], ErasedByEl[2])
    [] OTHER   -> <<>>

-----------------------------------------------------------------------------
(* Console and terminal together *)

\* libfbpads_init: the constructor of the console erases, and so paints, all.
CtInit ==
  /\ VtInit
  /\ t = After(T!term_reset(T!Zeroed), PaintCells(buffer, 0, Width * Height))

\* Once the console has written outside its buffer nothing can be said of t.
Gone == T!Wild(T!Zeroed)
Told(calls) == t' = IF wild' THEN Gone ELSE After(t, calls)

CtTab   == TabBlank /\ Told(TellPut)
CtPlain(c) == tabs = 0 /\ PlainChar(c) /\ Told(TellAppend(c))
CtParam(c) ==
  /\ tabs = 0 /\ (StartSequence(c) \/ OpenSequence(c) \/ ParamDigit(c))
  /\ UNCHANGED t
CtEnd(c) ==
  /\ tabs = 0 /\ (EndParam(c) \/ Overrun(c))
  /\ Told(IF c = ";" THEN <<>> ELSE TellFinal(c))

\* A process that has written outside its buffer: no more is said of it.
CtCrashed == wild /\ UNCHANGED <<vtcVars, t>>

ctVars == <<vtcVars, t>>
CtNext ==
  \/ ~wild /\ (CtTab \/ \E c \in Alphabet : CtPlain(c) \/ CtParam(c) \/ CtEnd(c))
  \/ CtCrashed
CtSpec == CtInit /\ [][CtNext]_ctVars

-----------------------------------------------------------------------------
(* Properties *)

OnConsole(cur) == cur.x >= 0 /\ cur.y >= 0

\* The terminal's screen shows the console's buffer.
Mirror ==
  \A i \in Cells :
    /\ t.screen[i].ch = IF buffer[i].ink THEN "x" ELSE ""
    /\ t.screen[i].fg = Painted8[buffer[i].attr.fg]
    /\ t.screen[i].bg = Painted8[buffer[i].attr.bg]

\* The steps that put a character into a cell.
Prints == TabBlank \/ \E c \in Alphabet \ {"\n", "\r", "\t", "BS"} : tabs = 0 /\ PlainChar(c)

\* However characters, tabs, line feeds, scrolling and erasing follow each other,
\* the screen mirrors the buffer, unless a character is put while the console's
\* cursor is left of or above the screen, where the two clamp it in different ways.
StaysMirrored ==
  [][ ~wild' /\ Mirror /\ (Prints => OnConsole(cursor)) => Mirror' ]_ctVars

\* Painting never scrolls the terminal nor leaves its arrays, and the pad shows
\* its screen: vtc_paint moves the cursor before the last column can wrap.
PaintsInPlace == ~wild => ~t.wild /\ T!Settled(t) /\ t.hrow = 0

\* A step that moves the console's cursor takes the terminal's to the same cell,
\* or to the nearest one on the screen.
CursorFollows ==
  [][ ~wild' /\ cursor' # cursor =>
        /\ t'.row = T!LIMIT(cursor'.y, 0, Height - 1)
        /\ t'.col = T!LIMIT(cursor'.x, 0, Width - 1) ]_ctVars
=============================================================================
