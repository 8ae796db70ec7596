-------------------------------- MODULE Term --------------------------------
(***************************************************************************)
(* The terminal behind the framebuffer console (libfbpads/term.c): a       *)
(* screen of Rows x Cols cells, a scrolling region, a history, and the     *)
(* lazy drawing of what changed onto the pad.                              *)
(*                                                                         *)
(* The loaded terminal and the static variables that mirror it are one     *)
(* record t.  Every C function is an operator from one such record to the  *)
(* next; every control sequence is one step.  Colours are opaque, bold and *)
(* italic fonts are left out.  "" is the character 0, a blank.             *)
(***************************************************************************)
EXTENDS Integers

CONSTANTS
  Rows, Cols,         \* pad_rows(), pad_cols()
  NHIST,              \* rows of the scrolling history
  Chars, WideChars,   \* characters, and those that take two columns
  DWCHAR,             \* DWCHAR[c]: the second half of the wide character c
  Colors, FGCOLOR, BGCOLOR,
  FgCodes, BgCodes,   \* the colours that SGR arguments stand for
  Controls,           \* control and escape sequences the program may send
  CsiArgs,            \* CSI sequences with two arguments: [seq, a, b]
  ModeSeqs,           \* modes it may set and reset
  Bursts,             \* whether it may send many sequences at once
  ScrlSteps,          \* rows by which the user scrolls back and forth
  Switching           \* whether the user may switch to another terminal

Modes == {"CURSOR", "WRAP", "ORIGIN", "AUTOCR", "INSERT", "WRAPREADY", "REV"}

ASSUME TermSize == Rows \in Nat \ {0} /\ Cols \in Nat \ {0} /\ NHIST \in Nat \ {0}
ASSUME TermData ==
  /\ DWCHAR \in [WideChars -> STRING]
  /\ {FGCOLOR, BGCOLOR} \subseteq Colors
  /\ \A m \in DOMAIN FgCodes : FgCodes[m] \in Colors
  /\ \A m \in DOMAIN BgCodes : BgCodes[m] \in Colors
ASSUME TermInput ==
  /\ CsiArgs \subseteq [seq : STRING, a : Nat, b : Nat]
  /\ ModeSeqs \subseteq Modes \ {"WRAPREADY", "REV"}
  /\ Bursts \in BOOLEAN /\ Switching \in BOOLEAN /\ ScrlSteps \subseteq Int

VARIABLE t

Lesser(a, b)  == IF a < b THEN a ELSE b
Greater(a, b) == IF a > b THEN a ELSE b
LIMIT(n, a, b) == IF n < a THEN a ELSE IF n > b THEN b ELSE n

RowIds == 0..(Rows - 1)
ColIds == 0..(Cols - 1)
Cells  == 0..(Rows * Cols - 1)
Ofs(r, c) == r * Cols + c
RowOf(i)  == i \div Cols

Glyphs == {""} \cup Chars \cup WideChars \cup { DWCHAR[c] : c \in WideChars }
Cell   == [ch : Glyphs, fg : Colors, bg : Colors]
State  == [row : RowIds, col : ColIds, fg : Colors, bg : Colors, mode : SUBSET Modes]

\* What a cell looks like; the foreground of a blank cannot be seen.
Look(ch, fg, bg) == [ch |-> ch, fg |-> IF ch = "" THEN bg ELSE fg, bg |-> bg]
Image(cell, rev) ==
  IF rev THEN Look(cell.ch, cell.bg, cell.fg) ELSE Look(cell.ch, cell.fg, cell.bg)
Foreign == Look("other", FGCOLOR, BGCOLOR)   \* what another terminal has drawn

-----------------------------------------------------------------------------
(* Low level drawing and lazy updating *)

fgcolor(u) == IF "REV" \in u.mode THEN u.bg ELSE u.fg
bgcolor(u) == IF "REV" \in u.mode THEN u.fg ELSE u.bg

\* candraw notes the rows sr..er-1 that cannot be drawn now.
Noted(u, sr, er) ==
  IF u.lazy THEN [u EXCEPT !.dirty = @ \cup (RowIds \cap sr..(er - 1)),
                           !.wild = @ \/ ~(sr..(er - 1) \subseteq RowIds)]
  ELSE u
Drawable(u) == u.visible /\ ~u.lazy

DrawPos(u, r, c, put) ==
  [u EXCEPT !.pad[Ofs(r, c)] = Image(u.screen[Ofs(r, c)], put /\ "CURSOR" \in u.mode)]

DrawCells(u, S) ==
  [u EXCEPT !.pad = [i \in Cells |-> IF i \in S THEN Image(u.screen[i], FALSE) ELSE u.pad[i]]]

InRows(S) == { i \in Cells : RowOf(i) \in S }

draw_rows(u, sr, er) ==
  IF Drawable(u) THEN DrawCells(u, InRows(sr..(er - 1))) ELSE Noted(u, sr, er)

draw_cols(u, r, sc, ec) ==
  IF Drawable(u) THEN DrawCells(u, Ofs(r, sc)..(Ofs(r, ec) - 1)) ELSE Noted(u, r, r + 1)

\* Mutant: a cursor that moves while drawing is lazy is forgotten.
draw_cursor_Silent(u, put) ==
  IF Drawable(u) THEN DrawPos(u, u.row, u.col, put) ELSE u

draw_cursor(u, put) ==
  IF Drawable(u) THEN DrawPos(u, u.row, u.col, put) ELSE Noted(u, u.row, u.row + 1)

\* draw_char in the columns S of the cursor's row.
DrawChars(u, ch, S) ==
  LET cells == { Ofs(u.row, c) : c \in S }
      w == [u EXCEPT !.screen = [i \in Cells |->
                IF i \in cells THEN [ch |-> ch, fg |-> fgcolor(u), bg |-> bgcolor(u)]
                ELSE u.screen[i]]]
  IN  IF S = {} THEN u
      ELSE IF Drawable(u) THEN DrawCells(w, cells) ELSE Noted(w, u.row, u.row + 1)

lazy_start(u) == [u EXCEPT !.dirty = {}, !.lazy = TRUE]

lazy_flush(u) ==
  IF ~u.visible \/ ~u.lazy THEN u
  ELSE LET w == DrawCells(u, InRows(u.dirty))
           x == IF u.row \in u.dirty THEN DrawPos(w, u.row, u.col, TRUE) ELSE w
       IN  [x EXCEPT !.lazy = FALSE, !.hpos = 0]

\* Outside the screen, or with a negative length, memset and memmove run wild.
Wild(u) == [u EXCEPT !.wild = TRUE]
OnScreen(i, n) == n >= 0 /\ i >= 0 /\ i + n <= Rows * Cols

screen_reset(u, i, n) ==
  IF ~OnScreen(i, n) THEN Wild(u)
  ELSE [Noted(u, RowOf(i), RowOf(i + n)) EXCEPT !.screen =
          [k \in Cells |-> IF k \in i..(i + n - 1)
                           THEN [ch |-> "", fg |-> u.fg, bg |-> u.bg] ELSE u.screen[k]]]

screen_move(u, dst, src, n) ==
  IF ~OnScreen(dst, n) \/ ~OnScreen(src, n) THEN Wild(u)
  ELSE [Noted(u, RowOf(Lesser(src, dst)), RowOf(Greater(src, dst) + n)) EXCEPT !.screen =
          [k \in Cells |-> IF k \in dst..(dst + n - 1) THEN u.screen[src + k - dst]
                           ELSE u.screen[k]]]

term_blank(u) ==
  LET w == screen_reset(u, 0, Rows * Cols)
  IN  IF u.visible THEN [w EXCEPT !.pad = [i \in Cells |-> Look("", FGCOLOR, bgcolor(u))]]
      ELSE w

empty_rows(u, sr, er) == screen_reset(u, Ofs(sr, 0), (er - sr) * Cols)

blank_rows(u, sr, er) ==
  draw_cursor(draw_rows(empty_rows(u, sr, er), sr, er), TRUE)

-----------------------------------------------------------------------------
(* Scrolling and its history *)

\* HISTROW(pos): the pos-th last row that was scrolled out.
HISTROW(u, pos) == u.hist[(u.hrow + NHIST - pos) % NHIST]

\* Mutant: the history moves on by one row however many are scrolled out.
scrl_rows_One(u, nr) ==
  LET row(k) == nr - 1 - ((u.hrow + nr - 1 - k) % NHIST)
  IN  IF nr > Rows THEN Wild(u)
      ELSE [u EXCEPT !.hrow = (@ + 1) % NHIST,
                     !.hist = [k \in 0..(NHIST - 1) |->
                                 IF row(k) < 0 THEN u.hist[k]
                                 ELSE [c \in ColIds |-> u.screen[Ofs(row(k), c)].ch]]]

\* scrl_rows: rows 0..nr-1 go into the history, a later one over an earlier;
\* row(k) is the last of them that comes into hist[k].
scrl_rows(u, nr) ==
  LET row(k) == nr - 1 - ((u.hrow + nr - 1 - k) % NHIST)
  IN  IF nr > Rows THEN Wild(u)
      ELSE [u EXCEPT !.hrow = (@ + nr) % NHIST,
                     !.hist = [k \in 0..(NHIST - 1) |->
                                 IF row(k) < 0 THEN u.hist[k]
                                 ELSE [c \in ColIds |-> u.screen[Ofs(row(k), c)].ch]]]

\* Mutant: only the rows that moved are drawn again, not the emptied ones.
scroll_screen_Part(u, sr, nr, n) ==
  LET a == draw_cursor(u, FALSE)
      b == IF sr + n = 0 THEN scrl_rows(a, sr) ELSE a
      c == screen_move(b, Ofs(sr + n, 0), Ofs(sr, 0), nr * Cols)
      d == IF n > 0 THEN empty_rows(c, sr, sr + n)
           ELSE empty_rows(c, sr + nr + n, sr + nr)
  IN  draw_cursor(draw_rows(d, sr + n, sr + nr + n), TRUE)

\* Rows sr..sr+nr-1 move by n rows and the rows they leave are emptied.
scroll_screen(u, sr, nr, n) ==
  LET a == draw_cursor(u, FALSE)
      b == IF sr + n = 0 THEN scrl_rows(a, sr) ELSE a
      c == screen_move(b, Ofs(sr + n, 0), Ofs(sr, 0), nr * Cols)
      d == IF n > 0 THEN empty_rows(c, sr, sr + n)
           ELSE empty_rows(c, sr + nr + n, sr + nr)
      e == draw_rows(d, Lesser(sr, sr + n), Greater(sr + nr, sr + nr + n))
  IN  draw_cursor(e, TRUE)

\* Scrolls the view back into the history, or forth to the screen.
term_scrl(u, scrl) ==
  LET hpos == LIMIT(u.hpos + scrl, 0, NHIST)
      view(i) == LET r == RowOf(i)
                     s == u.screen[i - hpos * Cols]
                 IN  IF r < hpos THEN Look(HISTROW(u, hpos - r)[i % Cols], BGCOLOR, FGCOLOR)
                     ELSE Look(s.ch, s.fg, s.bg)
  IN  IF hpos = 0 THEN lazy_flush([u EXCEPT !.hpos = 0])
      ELSE [u EXCEPT !.hpos = hpos, !.lazy = TRUE, !.dirty = RowIds,
                     !.pad = [i \in Cells |-> view(i)]]

insert_lines(u, n) ==
  LET nr == u.bot - u.row - n
  IN  IF nr > 0 THEN scroll_screen(u, Greater(u.top, u.row), nr, n) ELSE u

\* Mutants: lines deleted from the screen and not from the region; and no test
\* that a line is left to move.
delete_lines_Screen(u, n) ==
  LET r  == Greater(u.top, u.row)
      nr == Rows - r - n
  IN  IF nr > 0 THEN scroll_screen(u, r + n, nr, -n) ELSE u

delete_lines_Untested(u, n) ==
  LET r  == Greater(u.top, u.row)
      nr == u.bot - r - n
  IN  scroll_screen(u, r + n, nr, -n)

delete_lines(u, n) ==
  LET r  == Greater(u.top, u.row)
      nr == u.bot - r - n
  IN  IF nr > 0 THEN scroll_screen(u, r + n, nr, -n) ELSE u

-----------------------------------------------------------------------------
(* The cursor *)

origin(u) == "ORIGIN" \in u.mode

move_cursor(u, r, c) ==
  LET tt == IF origin(u) THEN u.top ELSE 0
      bb == IF origin(u) THEN u.bot ELSE Rows
      w  == [draw_cursor(u, FALSE) EXCEPT !.row = LIMIT(r, tt, bb - 1),
                                          !.col = LIMIT(c, 0, Cols - 1)]
  IN  [draw_cursor(w, TRUE) EXCEPT !.mode = @ \ {"WRAPREADY"}]

\* Mutant: a region that may be empty.
set_region_Empty(u, a, b) ==
  LET top == LIMIT(a - 1, 0, Rows - 1)
      w   == [u EXCEPT !.top = top, !.bot = LIMIT(IF b = 0 THEN Rows ELSE b, top, Rows)]
  IN  IF origin(u) THEN move_cursor(w, top, 0) ELSE w

set_region(u, a, b) ==
  LET top == LIMIT(a - 1, 0, Rows - 1)
      w   == [u EXCEPT !.top = top, !.bot = LIMIT(IF b = 0 THEN Rows ELSE b, top + 1, Rows)]
  IN  IF origin(u) THEN move_cursor(w, top, 0) ELSE w

\* advance moves by dr rows and dc columns and scrolls at the region's ends.
advance(u, dr, dc, scrl) ==
  LET r    == u.row + dr
      down == u.bot - r - 1
      up   == u.top - r
      v == IF dr # 0 /\ r >= u.bot /\ scrl = 1 /\ (u.bot - u.top) + down > 0
           THEN scroll_screen(u, u.top - down, (u.bot - u.top) + down, down) ELSE u
      w == IF dr # 0 /\ r < u.top /\ scrl = 1 /\ (u.bot - u.top) - up > 0
           THEN scroll_screen(v, u.top, (u.bot - u.top) - up, up) ELSE v
  IN  move_cursor(w, IF dr # 0 THEN LIMIT(r, u.top, u.bot - 1) ELSE r,
                  LIMIT(u.col + dc, 0, Cols - 1))

-----------------------------------------------------------------------------
(* Characters *)

kill_chars(u, sc, ec) == draw_cursor(DrawChars(u, "", sc..(ec - 1)), TRUE)

\* nc characters from column sc move by n columns.
move_chars(u, sc, nc, n) ==
  LET a == draw_cursor(u, FALSE)
      b == screen_move(a, Ofs(u.row, sc + n), Ofs(u.row, sc), nc)
      c == IF n > 0 THEN screen_reset(b, Ofs(u.row, sc), n)
           ELSE screen_reset(b, Ofs(u.row, Cols + n), -n)
  IN  draw_cursor(draw_cols(c, u.row, Lesser(sc, sc + n), Cols), TRUE)

delete_chars(u, n) == move_chars(u, u.col + n, Cols - (u.col + n), -n)
insert_chars(u, n) == move_chars(u, u.col, Cols - u.col - n, n)

Wrapped(u) == IF "WRAPREADY" \in u.mode THEN advance(u, 1, -u.col, 1) ELSE u
Shifted(u) == IF "INSERT" \in u.mode THEN insert_chars(u, 1) ELSE u

insertchar(u, c) ==
  LET b == Shifted(Wrapped(u))
      d == DrawChars(b, c, {b.col})
  IN  IF d.col = Cols - 1 THEN [d EXCEPT !.mode = @ \cup {"WRAPREADY"}]
      ELSE advance(d, 0, 1, 1)

\* A wide character does not start in the last column.
insertwide(u, c) ==
  LET a == IF u.col + 1 = Cols /\ "WRAPREADY" \notin u.mode THEN insertchar(u, "") ELSE u
  IN  insertchar(insertchar(a, c), DWCHAR[c])

-----------------------------------------------------------------------------
(* The interface functions *)

term_reset(u) ==
  term_blank([u EXCEPT !.row = 0, !.col = 0, !.top = 0, !.bot = Rows,
                       !.mode = {"CURSOR", "WRAP"}, !.fg = FGCOLOR, !.bg = BGCOLOR])

\* misc_save and misc_load
Saved(u) == [row |-> u.row, col |-> u.col, fg |-> u.fg, bg |-> u.bg, mode |-> u.mode]
misc_save(u) == [u EXCEPT !.sav = Saved(u)]
misc_load(u) == [u EXCEPT !.row = u.sav.row, !.col = u.sav.col, !.fg = u.sav.fg,
                          !.bg = u.sav.bg, !.mode = u.sav.mode]

\* term_save hides the terminal; another one draws on the pad.
term_save(u) ==
  [(IF u.lazy THEN u ELSE lazy_start(u)) EXCEPT
      !.visible = FALSE, !.pad = [i \in Cells |-> Foreign]]

\* term_redraw(1), and term_redraw(0), of a terminal that runs a program.
RedrawAll(u) == lazy_flush([u EXCEPT !.lazy = TRUE, !.dirty = RowIds])
RedrawChanged(u) == IF u.hpos = 0 THEN lazy_flush(u) ELSE u

\* term_load(t, 1); term_redraw(1)
Show(u) == RedrawAll([u EXCEPT !.visible = TRUE])

\* term_zero, with the colours of a zeroed state.
Zeroed ==
  [screen |-> [i \in Cells |-> [ch |-> "", fg |-> BGCOLOR, bg |-> BGCOLOR]],
   pad |-> [i \in Cells |-> Foreign],
   hist |-> [k \in 0..(NHIST - 1) |-> [c \in ColIds |-> ""]],
   dirty |-> {}, lazy |-> FALSE, visible |-> TRUE, hrow |-> 0, hpos |-> 0,
   row |-> 0, col |-> 0, top |-> 0, bot |-> 0, fg |-> BGCOLOR, bg |-> BGCOLOR, mode |-> {},
   sav |-> [row |-> 0, col |-> 0, fg |-> BGCOLOR, bg |-> BGCOLOR, mode |-> {}],
   reading |-> FALSE, wild |-> FALSE]

-----------------------------------------------------------------------------
(* The sequences: [seq |-> its name, a |-> args[0], b |-> args[1]] *)

Given(n) == Greater(1, n)
absrow(u, r) == IF origin(u) THEN u.top + r ELSE r
BIT_SET(mode, m, val) == IF val THEN mode \cup {m} ELSE mode \ {m}

\* Control characters and what follows an ESC.
ctlseq(u, s) ==
  CASE s = "HT"    -> advance(u, 0, 8 - (u.col % 8), 0)
    [] s = "LF"    -> advance(u, 1, IF "AUTOCR" \in u.mode THEN -u.col ELSE 0, 1)
    [] s = "BS"    -> advance(u, 0, -1, 0)
    [] s = "CR"    -> advance(u, 0, -u.col, 0)
    [] s = "DECSC" -> misc_save(u)
    [] s = "DECRC" -> misc_load(u)
    [] s = "RI"    -> advance(u, -1, 0, 1)
    [] s = "IND"   -> advance(u, 1, 0, 1)
    [] s = "NEL"   -> advance(u, 1, -u.col, 1)
    [] s = "RIS"   -> term_reset(u)
    [] OTHER       -> u

\* ED 1 stops a row short, and in row 0 its length is negative.
EraseDisplay(u, a) ==
  CASE a = 0 -> blank_rows(kill_chars(u, u.col, Cols), u.row + 1, Rows)
    [] a = 1 -> blank_rows(kill_chars(u, 0, u.col + 1), 0, u.row - 1)
    [] a = 2 -> term_blank(u)
    [] OTHER -> u

EraseLine(u, a) ==
  CASE a = 0 -> kill_chars(u, u.col, Cols)
    [] a = 1 -> kill_chars(u, 0, u.col + 1)
    [] a = 2 -> kill_chars(u, 0, Cols)
    [] OTHER -> u

\* One argument of SGR.
setattr(u, m) ==
  CASE m = 0  -> [u EXCEPT !.fg = FGCOLOR, !.bg = BGCOLOR, !.mode = @ \ {"REV"}]
    [] m = 7  -> [u EXCEPT !.mode = @ \cup {"REV"}]
    [] m = 27 -> [u EXCEPT !.mode = @ \ {"REV"}]
    [] m \in DOMAIN FgCodes -> [u EXCEPT !.fg = FgCodes[m]]
    [] m \in DOMAIN BgCodes -> [u EXCEPT !.bg = BgCodes[m]]
    [] OTHER  -> u

csiseq(u, s) ==
  CASE s.seq = "CUP" -> move_cursor(u, absrow(u, Greater(0, s.a - 1)), Greater(0, s.b - 1))
    [] s.seq = "ED"  -> EraseDisplay(u, s.a)
    [] s.seq = "CUU" -> advance(u, -Given(s.a), 0, 0)
    [] s.seq = "CUD" -> advance(u, Given(s.a), 0, 0)
    [] s.seq = "CUF" -> advance(u, 0, Given(s.a), 0)
    [] s.seq = "CUB" -> advance(u, 0, -Given(s.a), 0)
    [] s.seq = "EL"  -> EraseLine(u, s.a)
    [] s.seq = "IL"  -> IF u.row >= u.top /\ u.row < u.bot THEN insert_lines(u, Given(s.a)) ELSE u
    [] s.seq = "DL"  -> IF u.row >= u.top /\ u.row < u.bot THEN delete_lines(u, Given(s.a)) ELSE u
    [] s.seq = "SU"  -> scroll_screen(u, Given(s.a), Rows - Given(s.a), -Given(s.a))
    [] s.seq = "SD"  -> scroll_screen(u, 0, Rows - Given(s.a), Given(s.a))
    [] s.seq = "VPA" -> move_cursor(u, absrow(u, Given(s.a) - 1), u.col)
    [] s.seq = "SGR" -> setattr(u, s.a)
    [] s.seq = "STBM" -> set_region(u, s.a, s.b)
    [] s.seq = "DCH" -> delete_chars(u, LIMIT(s.a, 1, Cols - u.col))
    [] s.seq = "ICH" -> insert_chars(u, LIMIT(s.a, 1, Cols - u.col))
    [] s.seq = "CHA" -> advance(u, 0, Greater(0, s.a - 1) - u.col, 0)
    [] s.seq = "ECH" -> kill_chars(u, u.col, Lesser(u.col + Given(s.a), Cols))
    [] OTHER         -> u

\* SM and RM of one mode, named instead of numbered.
modeseq(u, m, set) == draw_cursor([u EXCEPT !.mode = BIT_SET(@, m, set)], TRUE)

\* Mutant: the answer counts from 0.
csiseq_dsr_ZeroBased(u) == [row |-> IF origin(u) THEN u.row - u.top ELSE u.row, col |-> u.col]

\* The cursor position that DSR 6 reports: [row, col], counted from 1.
csiseq_dsr(u) == [row |-> (IF origin(u) THEN u.row - u.top ELSE u.row) + 1, col |-> u.col + 1]

-----------------------------------------------------------------------------
(* The terminal as fbpads drives it *)

\* term_read draws lazily once much is left to read after the first sequence.
Starts ==
  {t} \cup (IF Bursts /\ t.reading /\ t.visible /\ ~t.lazy THEN {lazy_start(t)} ELSE {})
Reading(u) == [u EXCEPT !.reading = TRUE]

PutChar(c)      == ~t.wild /\ \E u \in Starts : t' = Reading(insertchar(u, c))
PutWide(c)  == ~t.wild /\ \E u \in Starts : t' = Reading(insertwide(u, c))
Control(s)    == ~t.wild /\ \E u \in Starts : t' = Reading(ctlseq(u, s))
Csi(s)        == ~t.wild /\ \E u \in Starts : t' = Reading(csiseq(u, s))
Mode(m, set)  == ~t.wild /\ \E u \in Starts : t' = Reading(modeseq(u, m, set))

\* The buffer is empty: term_read ends.
EndRead == ~t.wild /\ t.reading /\ t' = [lazy_flush(t) EXCEPT !.reading = FALSE]

Idle == ~t.wild /\ ~t.reading
Scrl(n) == Idle /\ t.visible /\ t' = term_scrl(t, n)
Redraw  == Idle /\ t.visible /\ t' = RedrawChanged(t)
Hide    == Switching /\ Idle /\ t.visible /\ t' = term_save(t)
Unhide  == Idle /\ ~t.visible /\ t' = Show(t)

\* After a wild write the process is as good as gone.
Crashed == t.wild /\ UNCHANGED t

TermInit == t = term_reset(Zeroed)

TermNext ==
  \/ \E c \in Chars : PutChar(c)
  \/ \E c \in WideChars : PutWide(c)
  \/ \E s \in Controls : Control(s)
  \/ \E s \in CsiArgs : Csi(s)
  \/ \E m \in ModeSeqs : Mode(m, TRUE) \/ Mode(m, FALSE)
  \/ EndRead
  \/ \E n \in ScrlSteps : Scrl(n)
  \/ Redraw \/ Hide \/ Unhide
  \/ Crashed

TermSpec == TermInit /\ [][TermNext]_t

-----------------------------------------------------------------------------
(* Properties *)

TermState ==
  [screen : [Cells -> Cell],
   pad : [Cells -> [ch : Glyphs \cup {"other"}, fg : Colors, bg : Colors]],
   hist : [0..(NHIST - 1) -> [ColIds -> Glyphs]],
   dirty : SUBSET RowIds, lazy : BOOLEAN, visible : BOOLEAN,
   hrow : 0..(NHIST - 1), hpos : 0..NHIST,
   row : RowIds, col : ColIds, top : RowIds, bot : 1..Rows,
   fg : Colors, bg : Colors, mode : SUBSET Modes, sav : State,
   reading : BOOLEAN, wild : BOOLEAN]

\* Whatever a program sends, the cursor and the saved cursor stay on the screen
\* and the scrolling region keeps at least one row.
TermTypeOK == t \in TermState /\ t.top < t.bot

CursorCell(u) == Ofs(u.row, u.col)

\* The pad shows the screen: only rows noted for later may differ, and only the
\* cursor's cell may be reversed.
Settled(u) ==
  (u.visible /\ ~u.wild) =>
    \A i \in Cells :
      \/ u.lazy /\ RowOf(i) \in u.dirty
      \/ u.pad[i] = Image(u.screen[i], FALSE)
      \/ i = CursorCell(u) /\ u.pad[i] = Image(u.screen[i], TRUE)

\* Between immediate and lazy drawing, scrolling back, hiding and showing, the
\* picture never falls behind the screen, but for DECRC, which jumps without
\* redrawing the cursor, and for ED 2 in reverse video, where term_blank fills
\* the pad with the foreground and the cells with the background.
PictureKept ==
  [][ Settled(t) =>
        \/ Settled(t')
        \/ Control("DECRC")
        \/ "REV" \in t.mode /\ \E s \in CsiArgs : s.seq = "ED" /\ s.a = 2 /\ Csi(s) ]_t

FeedsLines ==
  \/ \E s \in CsiArgs : s.seq \in {"IL", "DL"} /\ Csi(s)
  \/ \E s \in {"LF", "RI", "IND", "NEL"} : Control(s)

\* Sequences that insert, delete or feed lines touch no row outside the region,
\* wherever the cursor is: a step that does is none of theirs.
RegionOnly ==
  [][ (\E i \in Cells : RowOf(i) \notin t.top..(t.bot - 1) /\ t'.screen[i] # t.screen[i])
      => ~FeedsLines ]_t

\* The history is a queue: a step appends the k uppermost rows of the screen in
\* their order and moves the older ones up, or leaves it alone.
HistoryOrder ==
  [][ \/ t'.hist = t.hist /\ t'.hrow = t.hrow
      \/ \E k \in 1..Rows : \A p \in 1..NHIST :
           HISTROW(t', p) = IF p > k THEN HISTROW(t, p - k)
                            ELSE [c \in ColIds |-> t.screen[Ofs(k - p, c)].ch] ]_t

\* Nothing is written outside the screen, the history or the dirty rows but by
\* ED 1 in the first row and by SU and SD of more rows than there are.
WildOnlyFrom ==
  [][ t'.wild => \/ t.wild
                 \/ \E s \in CsiArgs : Csi(s) /\ \/ s.seq = "ED" /\ s.a = 1 /\ t.row = 0
                                                 \/ s.seq \in {"SU", "SD"} /\ s.a > Rows ]_t

\* A program that asks for the cursor (DSR 6) and later sends CUP with the answer
\* comes back to the same cell, if the cursor is inside the region that DECOM
\* makes it relative to.
ReportReturns ==
  (origin(t) => t.row \in t.top..(t.bot - 1)) =>
     LET at == csiseq_dsr(t)
         w  == csiseq(t, [seq |-> "CUP", a |-> at.row, b |-> at.col])
     IN  w.row = t.row /\ w.col = t.col
=============================================================================
