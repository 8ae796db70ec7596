----------------------------- MODULE TermProofs -----------------------------
(* Theorems about Term, for every size of terminal and every program. *)
EXTENDS Term, TLAPS

Good(u) == u \in TermState /\ u.top < u.bot

USE TermSize

\* What a look, and so what is drawn on the pad, consists of.
Looks == [ch : Glyphs \cup {"other"}, fg : Colors, bg : Colors]

LEMMA LookType ==
  ASSUME NEW ch \in Glyphs \cup {"other"}, NEW f \in Colors, NEW b \in Colors
  PROVE  Look(ch, f, b) \in Looks
BY DEF Look, Looks

LEMMA ImageType ==
  ASSUME NEW c \in Cell, NEW rev
  PROVE  Image(c, rev) \in Looks
BY LookType DEF Image, Cell

\* Indices of cells.
LEMMA OfsCell ==
  ASSUME NEW r \in RowIds, NEW c \in ColIds
  PROVE  Ofs(r, c) \in Cells
<1>1. r * Cols + c \in Int /\ r * Cols >= 0
  BY DEF RowIds, ColIds
<1>2. (r + 1) * Cols <= Rows * Cols
  BY DEF RowIds
<1>3. (r + 1) * Cols = r * Cols + Cols
  BY DEF RowIds
<1> QED  BY <1>1, <1>2, <1>3 DEF Ofs, Cells, ColIds, RowIds

LEMMA NotedGood ==
  ASSUME NEW u, Good(u), NEW sr \in Int, NEW er \in Int
  PROVE  Good(Noted(u, sr, er))
BY DEF Good, TermState, Noted

LEMMA DrawCellsGood ==
  ASSUME NEW u, Good(u), NEW S
  PROVE  Good(DrawCells(u, S))
<1>1. \A i \in Cells : u.screen[i] \in Cell /\ u.pad[i] \in Looks
  BY DEF Good, TermState, Looks
<1>2. [i \in Cells |-> IF i \in S THEN Image(u.screen[i], FALSE) ELSE u.pad[i]] \in [Cells -> Looks]
  BY <1>1, ImageType
<1> QED  BY <1>2 DEF Good, TermState, DrawCells, Looks

LEMMA DrawPosGood ==
  ASSUME NEW u, Good(u), NEW r \in RowIds, NEW c \in ColIds, NEW put
  PROVE  Good(DrawPos(u, r, c, put))
<1>1. Ofs(r, c) \in Cells
  BY OfsCell
<1>2. Image(u.screen[Ofs(r, c)], put /\ "CURSOR" \in u.mode) \in Looks
  BY <1>1, ImageType DEF Good, TermState
<1> QED  BY <1>2 DEF Good, TermState, DrawPos, Looks

LEMMA DrawRowsGood ==
  ASSUME NEW u, Good(u), NEW sr \in Int, NEW er \in Int
  PROVE  Good(draw_rows(u, sr, er))
BY NotedGood, DrawCellsGood DEF draw_rows

LEMMA DrawColsGood ==
  ASSUME NEW u, Good(u), NEW r \in RowIds, NEW sc \in Int, NEW ec \in Int
  PROVE  Good(draw_cols(u, r, sc, ec))
BY NotedGood, DrawCellsGood DEF draw_cols, RowIds

LEMMA DrawCursorGood ==
  ASSUME NEW u, Good(u), NEW put
  PROVE  Good(draw_cursor(u, put))
<1>1. u.row \in RowIds /\ u.col \in ColIds
  BY DEF Good, TermState
<1>2. u.row \in Int /\ u.row + 1 \in Int
  BY <1>1 DEF RowIds
<1> QED  BY <1>1, <1>2, NotedGood, DrawPosGood DEF draw_cursor

\* What is written on the screen keeps the state good.
LEMMA ScreenGood ==
  ASSUME NEW u, Good(u), NEW s \in [Cells -> Cell]
  PROVE  Good([u EXCEPT !.screen = s])
BY DEF Good, TermState

LEMMA DrawCharsGood ==
  ASSUME NEW u, Good(u), NEW ch \in Glyphs, NEW S
  PROVE  Good(DrawChars(u, ch, S))
<1> DEFINE cells == { Ofs(u.row, c) : c \in S }
           s == [i \in Cells |-> IF i \in cells THEN [ch |-> ch, fg |-> fgcolor(u), bg |-> bgcolor(u)]
                                 ELSE u.screen[i]]
           w == [u EXCEPT !.screen = s]
<1>1. [ch |-> ch, fg |-> fgcolor(u), bg |-> bgcolor(u)] \in Cell
  BY DEF Good, TermState, fgcolor, bgcolor, Cell
<1>2. s \in [Cells -> Cell]
  BY <1>1 DEF Good, TermState
<1>3. Good(w)
  BY <1>2, ScreenGood
<1>4. u.row \in Int /\ u.row + 1 \in Int
  BY DEF Good, TermState, RowIds
<1>5. DrawChars(u, ch, S) \in {u, DrawCells(w, cells), Noted(w, u.row, u.row + 1)}
  BY DEF DrawChars
<1> HIDE DEF w
<1> QED  BY <1>3, <1>4, <1>5, NotedGood, DrawCellsGood

LEMMA WildGood ==
  ASSUME NEW u, Good(u)
  PROVE  Good(Wild(u))
BY DEF Good, TermState, Wild

LEMMA LazyStartGood ==
  ASSUME NEW u, Good(u)
  PROVE  Good(lazy_start(u))
BY DEF Good, TermState, lazy_start

LEMMA FlushedGood ==
  ASSUME NEW u, Good(u)
  PROVE  Good([u EXCEPT !.lazy = FALSE, !.hpos = 0])
<1>1. 0 \in 0..NHIST
  OBVIOUS
<1> QED  BY <1>1 DEF Good, TermState

LEMMA LazyFlushGood ==
  ASSUME NEW u, Good(u)
  PROVE  Good(lazy_flush(u))
<1> DEFINE w == DrawCells(u, InRows(u.dirty))
           x == IF u.row \in u.dirty THEN DrawPos(w, u.row, u.col, TRUE) ELSE w
<1>1. Good(w)
  BY DrawCellsGood
<1>2. u.row \in RowIds /\ u.col \in ColIds
  BY DEF Good, TermState
<1>3. Good(x)
  BY <1>1, <1>2, DrawPosGood
<1>4. lazy_flush(u) \in {u, [x EXCEPT !.lazy = FALSE, !.hpos = 0]}
  BY DEF lazy_flush
<1> HIDE DEF x
<1>5. Good([x EXCEPT !.lazy = FALSE, !.hpos = 0])
  BY <1>3, FlushedGood
<1> QED  BY <1>4, <1>5

LEMMA BlankCell ==
  ASSUME NEW u, Good(u)
  PROVE  [ch |-> "", fg |-> u.fg, bg |-> u.bg] \in Cell
BY DEF Good, TermState, Cell, Glyphs

\* Rows of cells.
LEMMA RowOfInt ==
  ASSUME NEW i \in Int
  PROVE  RowOf(i) \in Int
BY DEF RowOf

LEMMA ScreenResetGood ==
  ASSUME NEW u, Good(u), NEW i \in Int, NEW n \in Int
  PROVE  Good(screen_reset(u, i, n))
<1> DEFINE w == Noted(u, RowOf(i), RowOf(i + n))
           s == [k \in Cells |-> IF k \in i..(i + n - 1)
                                 THEN [ch |-> "", fg |-> u.fg, bg |-> u.bg] ELSE u.screen[k]]
<1>1. Good(w)
  BY NotedGood, RowOfInt
<1>2. s \in [Cells -> Cell]
  BY BlankCell DEF Good, TermState
<1>3. Good([w EXCEPT !.screen = s])
  BY <1>1, <1>2, ScreenGood
<1>4. screen_reset(u, i, n) \in {Wild(u), [w EXCEPT !.screen = s]}
  BY DEF screen_reset
<1> HIDE DEF w, s
<1> QED  BY <1>3, <1>4, WildGood

LEMMA ScreenMoveGood ==
  ASSUME NEW u, Good(u), NEW dst \in Int, NEW src \in Int, NEW n \in Int
  PROVE  Good(screen_move(u, dst, src, n))
<1> DEFINE w == Noted(u, RowOf(Lesser(src, dst)), RowOf(Greater(src, dst) + n))
           s == [k \in Cells |-> IF k \in dst..(dst + n - 1) THEN u.screen[src + k - dst]
                                 ELSE u.screen[k]]
<1>1. Lesser(src, dst) \in Int /\ Greater(src, dst) + n \in Int
  BY DEF Lesser, Greater
<1>2. Good(w)
  BY <1>1, NotedGood, RowOfInt
<1>3. CASE ~OnScreen(dst, n) \/ ~OnScreen(src, n)
  BY <1>3, WildGood DEF screen_move
<1>4. CASE OnScreen(dst, n) /\ OnScreen(src, n)
  <2>1. \A k \in dst..(dst + n - 1) : src + k - dst \in 0..(Rows * Cols - 1)
    BY <1>4 DEF OnScreen
  <2>2. s \in [Cells -> Cell]
    BY <2>1 DEF Good, TermState, Cells
  <2>3. Good([w EXCEPT !.screen = s])
    BY <1>2, <2>2, ScreenGood
  <2>4. screen_move(u, dst, src, n) = [w EXCEPT !.screen = s]
    BY <1>4 DEF screen_move
  <2> QED  BY <2>3, <2>4
<1> QED  BY <1>3, <1>4

LEMMA EmptyRowsGood ==
  ASSUME NEW u, Good(u), NEW sr \in Int, NEW er \in Int
  PROVE  Good(empty_rows(u, sr, er))
<1>1. Ofs(sr, 0) \in Int /\ (er - sr) * Cols \in Int
  BY DEF Ofs
<1> QED  BY <1>1, ScreenResetGood DEF empty_rows

LEMMA BlankRowsGood ==
  ASSUME NEW u, Good(u), NEW sr \in Int, NEW er \in Int
  PROVE  Good(blank_rows(u, sr, er))
BY EmptyRowsGood, DrawRowsGood, DrawCursorGood DEF blank_rows

LEMMA TermBlankGood ==
  ASSUME NEW u, Good(u)
  PROVE  Good(term_blank(u))
<1> DEFINE w == screen_reset(u, 0, Rows * Cols)
           p == [i \in Cells |-> Look("", FGCOLOR, bgcolor(u))]
<1>1. Good(w)
  BY ScreenResetGood
<1>2. Look("", FGCOLOR, bgcolor(u)) \in Looks
  BY LookType, TermData DEF Good, TermState, bgcolor, Glyphs
<1>3. term_blank(u) \in {w, [w EXCEPT !.pad = p]}
  BY DEF term_blank
<1> HIDE DEF w
<1>4. Good([w EXCEPT !.pad = p])
  BY <1>1, <1>2 DEF Good, TermState, Looks
<1> QED  BY <1>1, <1>3, <1>4

LEMMA ScrlRowsGood ==
  ASSUME NEW u, Good(u), NEW nr \in Int, nr >= 0
  PROVE  Good(scrl_rows(u, nr))
<1> DEFINE rw(k) == nr - 1 - ((u.hrow + nr - 1 - k) % NHIST)
           h == [k \in 0..(NHIST - 1) |->
                   IF rw(k) < 0 THEN u.hist[k] ELSE [c \in ColIds |-> u.screen[Ofs(rw(k), c)].ch]]
<1>1. CASE nr > Rows
  BY <1>1, WildGood DEF scrl_rows
<1>2. CASE ~(nr > Rows)
  <2>1. u.hrow \in 0..(NHIST - 1)
    BY DEF Good, TermState
  <2>2. (u.hrow + nr) % NHIST \in 0..(NHIST - 1)
    BY <2>1
  <2>3. ASSUME NEW k \in 0..(NHIST - 1), ~(rw(k) < 0)
        PROVE  [c \in ColIds |-> u.screen[Ofs(rw(k), c)].ch] \in [ColIds -> Glyphs]
    <3>1. u.hrow + nr - 1 - k \in Int
      BY <2>1
    <3>2. (u.hrow + nr - 1 - k) % NHIST \in 0..(NHIST - 1)
      BY <3>1
    <3>3. rw(k) \in RowIds
      BY <1>2, <2>3, <3>2 DEF RowIds
    <3>4. \A c \in ColIds : Ofs(rw(k), c) \in Cells
      BY <3>3, OfsCell
    <3> HIDE DEF rw
    <3> QED  BY <3>4 DEF Good, TermState, Cell
  <2>4. \A k \in 0..(NHIST - 1) : u.hist[k] \in [ColIds -> Glyphs]
    BY DEF Good, TermState
  <2>5. h \in [0..(NHIST - 1) -> [ColIds -> Glyphs]]
    <3> HIDE DEF rw
    <3> QED  BY <2>3, <2>4
  <2>6. scrl_rows(u, nr) = [u EXCEPT !.hrow = (@ + nr) % NHIST, !.hist = h]
    BY <1>2 DEF scrl_rows
  <2> HIDE DEF h
  <2> QED  BY <2>2, <2>5, <2>6 DEF Good, TermState
<1> QED  BY <1>1, <1>2

LEMMA ScrollScreenGood ==
  ASSUME NEW u, Good(u), NEW sr \in Int, sr >= 0, NEW nr \in Int, NEW n \in Int
  PROVE  Good(scroll_screen(u, sr, nr, n))
<1> DEFINE a == draw_cursor(u, FALSE)
           b == IF sr + n = 0 THEN scrl_rows(a, sr) ELSE a
           c == screen_move(b, Ofs(sr + n, 0), Ofs(sr, 0), nr * Cols)
           d == IF n > 0 THEN empty_rows(c, sr, sr + n)
                ELSE empty_rows(c, sr + nr + n, sr + nr)
           e == draw_rows(d, Lesser(sr, sr + n), Greater(sr + nr, sr + nr + n))
<1>1. Good(a)
  BY DrawCursorGood
<1>2. Good(b)
  <2> HIDE DEF a
  <2> QED  BY <1>1, ScrlRowsGood
<1>3. Good(c)
  <2> HIDE DEF b
  <2>1. Ofs(sr + n, 0) \in Int /\ Ofs(sr, 0) \in Int /\ nr * Cols \in Int
    BY DEF Ofs
  <2> QED  BY <1>2, <2>1, ScreenMoveGood
<1>4. Good(d)
  <2> HIDE DEF c
  <2>1. sr + n \in Int /\ sr + nr + n \in Int /\ sr + nr \in Int
    OBVIOUS
  <2> QED  BY <1>3, <2>1, EmptyRowsGood
<1>5. Good(e)
  <2> HIDE DEF d
  <2>1. Lesser(sr, sr + n) \in Int /\ Greater(sr + nr, sr + nr + n) \in Int
    BY DEF Lesser, Greater
  <2> QED  BY <1>4, <2>1, DrawRowsGood
<1>6. scroll_screen(u, sr, nr, n) = draw_cursor(e, TRUE)
  BY DEF scroll_screen
<1> HIDE DEF e
<1> QED  BY <1>5, <1>6, DrawCursorGood

\* The rows a sequence works on are integers.
LEMMA Position ==
  ASSUME NEW u, Good(u)
  PROVE  /\ u.row \in RowIds /\ u.col \in ColIds
         /\ u.row \in Int /\ 0 <= u.row /\ u.row < Rows
         /\ u.col \in Int /\ 0 <= u.col /\ u.col < Cols
         /\ u.top \in Int /\ 0 <= u.top /\ u.top < u.bot
         /\ u.bot \in Int /\ u.bot <= Rows
BY DEF Good, TermState, RowIds, ColIds

LEMMA InsertLinesGood ==
  ASSUME NEW u, Good(u), NEW n \in Int
  PROVE  Good(insert_lines(u, n))
<1>1. Greater(u.top, u.row) \in Int /\ Greater(u.top, u.row) >= 0
  BY Position DEF Greater
<1>2. u.bot - u.row - n \in Int
  BY Position
<1> QED  BY <1>1, <1>2, ScrollScreenGood DEF insert_lines

LEMMA DeleteLinesGood ==
  ASSUME NEW u, Good(u), NEW n \in Int, n >= 0
  PROVE  Good(delete_lines(u, n))
<1>1. Greater(u.top, u.row) \in Int /\ Greater(u.top, u.row) >= 0
  BY Position DEF Greater
<1>2. Greater(u.top, u.row) + n >= 0 /\ Greater(u.top, u.row) + n \in Int
  BY <1>1
<1>3. u.bot - Greater(u.top, u.row) - n \in Int /\ -n \in Int
  BY <1>1, Position
<1> QED  BY <1>2, <1>3, ScrollScreenGood DEF delete_lines

LEMMA LimitType ==
  ASSUME NEW n \in Int, NEW a \in Int, NEW b \in Int, a <= b
  PROVE  LIMIT(n, a, b) \in a..b
BY DEF LIMIT

LEMMA CursorGood ==
  ASSUME NEW u, Good(u), NEW r \in RowIds, NEW c \in ColIds
  PROVE  Good([u EXCEPT !.row = r, !.col = c])
BY DEF Good, TermState

LEMMA ModeGood ==
  ASSUME NEW u, Good(u), NEW m \in SUBSET Modes
  PROVE  Good([u EXCEPT !.mode = m])
BY DEF Good, TermState

LEMMA MoveCursorGood ==
  ASSUME NEW u, Good(u), NEW r \in Int, NEW c \in Int
  PROVE  Good(move_cursor(u, r, c))
<1> DEFINE tt == IF origin(u) THEN u.top ELSE 0
           bb == IF origin(u) THEN u.bot ELSE Rows
           v  == draw_cursor(u, FALSE)
           w  == [v EXCEPT !.row = LIMIT(r, tt, bb - 1), !.col = LIMIT(c, 0, Cols - 1)]
           x  == draw_cursor(w, TRUE)
<1>1. LIMIT(r, tt, bb - 1) \in RowIds
  <2>1. tt \in Int /\ bb \in Int /\ 0 <= tt /\ tt <= bb - 1 /\ bb <= Rows
    BY Position
  <2>2. LIMIT(r, tt, bb - 1) \in tt..(bb - 1)
    <3> HIDE DEF tt, bb
    <3>1. bb - 1 \in Int
      BY <2>1
    <3> QED  BY <2>1, <3>1, LimitType
  <2> HIDE DEF tt, bb
  <2> QED  BY <2>1, <2>2 DEF RowIds
<1>2. LIMIT(c, 0, Cols - 1) \in ColIds
  BY LimitType DEF ColIds
<1>3. Good(w)
  <2>1. Good(v)
    BY DrawCursorGood
  <2> HIDE DEF v, tt, bb
  <2> QED  BY <1>1, <1>2, <2>1, CursorGood
<1>4. Good(x)
  <2> HIDE DEF w
  <2> QED  BY <1>3, DrawCursorGood
<1>5. move_cursor(u, r, c) = [x EXCEPT !.mode = x.mode \ {"WRAPREADY"}]
  BY DEF move_cursor
<1> HIDE DEF x
<1>6. x.mode \ {"WRAPREADY"} \in SUBSET Modes
  BY <1>4 DEF Good, TermState
<1> QED  BY <1>4, <1>5, <1>6, ModeGood

LEMMA SetRegionGood ==
  ASSUME NEW u, Good(u), NEW a \in Nat, NEW b \in Nat
  PROVE  Good(set_region(u, a, b))
<1> DEFINE tp == LIMIT(a - 1, 0, Rows - 1)
           bt == LIMIT(IF b = 0 THEN Rows ELSE b, tp + 1, Rows)
           w  == [u EXCEPT !.top = tp, !.bot = bt]
<1>1. tp \in RowIds /\ tp \in Int /\ tp + 1 <= Rows
  <2>1. a - 1 \in Int /\ Rows - 1 \in Int /\ 0 <= Rows - 1
    OBVIOUS
  <2>2. tp \in 0..(Rows - 1)
    BY <2>1, LimitType
  <2> HIDE DEF tp
  <2> QED  BY <2>2 DEF RowIds
<1>2. bt \in 1..Rows /\ tp < bt
  <2> HIDE DEF tp
  <2>1. bt \in (tp + 1)..Rows
    <3>1. (IF b = 0 THEN Rows ELSE b) \in Int /\ tp + 1 \in Int /\ Rows \in Int
      BY <1>1
    <3> QED  BY <1>1, <3>1, LimitType
  <2> HIDE DEF bt
  <2> QED  BY <1>1, <2>1 DEF RowIds
<1>3. Good(w)
  <2> HIDE DEF tp, bt
  <2> QED  BY <1>1, <1>2 DEF Good, TermState
<1>4. set_region(u, a, b) \in {w, move_cursor(w, tp, 0)}
  BY DEF set_region
<1> HIDE DEF w, tp
<1> QED  BY <1>1, <1>3, <1>4, MoveCursorGood

LEMMA AdvanceGood ==
  ASSUME NEW u, Good(u), NEW dr \in Int, NEW dc \in Int, NEW scrl
  PROVE  Good(advance(u, dr, dc, scrl))
<1> DEFINE r    == u.row + dr
           down == u.bot - r - 1
           up   == u.top - r
           v == IF dr # 0 /\ r >= u.bot /\ scrl = 1 /\ (u.bot - u.top) + down > 0
                THEN scroll_screen(u, u.top - down, (u.bot - u.top) + down, down) ELSE u
           w == IF dr # 0 /\ r < u.top /\ scrl = 1 /\ (u.bot - u.top) - up > 0
                THEN scroll_screen(v, u.top, (u.bot - u.top) - up, up) ELSE v
           rr == IF dr # 0 THEN LIMIT(r, u.top, u.bot - 1) ELSE r
           cc == LIMIT(u.col + dc, 0, Cols - 1)
<1>1. r \in Int /\ down \in Int /\ up \in Int
  BY Position
<1>2. (u.bot - u.top) + down \in Int /\ (u.bot - u.top) - up \in Int /\ u.top - down \in Int
  BY <1>1, Position
<1>3. Good(v)
  <2>1. CASE r >= u.bot
    <3>1. u.top - down >= 0
      BY <2>1, Position
    <3> HIDE DEF down
    <3> QED  BY <1>1, <1>2, <3>1, ScrollScreenGood
  <2>2. CASE ~(r >= u.bot)
    BY <2>2
  <2> QED  BY <2>1, <2>2
<1>4. Good(w)
  <2> HIDE DEF v, up
  <2> QED  BY <1>1, <1>2, <1>3, Position, ScrollScreenGood
<1>5. rr \in Int /\ cc \in Int
  <2>1. cc \in 0..(Cols - 1)
    <3>1. u.col + dc \in Int /\ Cols - 1 \in Int /\ 0 <= Cols - 1
      BY Position
    <3> QED  BY <3>1 DEF LIMIT
  <2>2. u.top \in Int /\ u.bot - 1 \in Int /\ u.top <= u.bot - 1
    BY Position
  <2>3. LIMIT(r, u.top, u.bot - 1) \in u.top..(u.bot - 1)
    <3> HIDE DEF r
    <3> QED  BY <1>1, <2>2, LimitType
  <2> HIDE DEF r
  <2> QED  BY <1>1, <2>1, <2>3
<1>6. advance(u, dr, dc, scrl) = move_cursor(w, rr, cc)
  BY DEF advance
<1> HIDE DEF w, rr, cc
<1> QED  BY <1>4, <1>5, <1>6, MoveCursorGood

LEMMA KillCharsGood ==
  ASSUME NEW u, Good(u), NEW sc, NEW ec
  PROVE  Good(kill_chars(u, sc, ec))
<1>1. "" \in Glyphs
  BY DEF Glyphs
<1> QED  BY <1>1, DrawCharsGood, DrawCursorGood DEF kill_chars

LEMMA MoveCharsGood ==
  ASSUME NEW u, Good(u), NEW sc \in Int, NEW nc \in Int, NEW n \in Int
  PROVE  Good(move_chars(u, sc, nc, n))
<1> DEFINE a == draw_cursor(u, FALSE)
           b == screen_move(a, Ofs(u.row, sc + n), Ofs(u.row, sc), nc)
           c == IF n > 0 THEN screen_reset(b, Ofs(u.row, sc), n)
                ELSE screen_reset(b, Ofs(u.row, Cols + n), -n)
           d == draw_cols(c, u.row, Lesser(sc, sc + n), Cols)
<1>1. /\ Ofs(u.row, sc + n) \in Int /\ Ofs(u.row, sc) \in Int
      /\ Ofs(u.row, Cols + n) \in Int /\ -n \in Int /\ Lesser(sc, sc + n) \in Int
  BY Position DEF Ofs, Lesser
<1>2. Good(b)
  <2>1. Good(a)
    BY DrawCursorGood
  <2> HIDE DEF a
  <2> QED  BY <1>1, <2>1, ScreenMoveGood
<1>3. Good(c)
  <2> HIDE DEF b
  <2> QED  BY <1>1, <1>2, ScreenResetGood
<1>4. Good(d)
  <2> HIDE DEF c
  <2> QED  BY <1>1, <1>3, Position, DrawColsGood
<1>5. move_chars(u, sc, nc, n) = draw_cursor(d, TRUE)
  BY DEF move_chars
<1> HIDE DEF d
<1> QED  BY <1>4, <1>5, DrawCursorGood

LEMMA DeleteCharsGood ==
  ASSUME NEW u, Good(u), NEW n \in Int
  PROVE  Good(delete_chars(u, n))
BY Position, MoveCharsGood DEF delete_chars

LEMMA InsertCharsGood ==
  ASSUME NEW u, Good(u), NEW n \in Int
  PROVE  Good(insert_chars(u, n))
BY Position, MoveCharsGood DEF insert_chars

LEMMA InsertCharGood ==
  ASSUME NEW u, Good(u), NEW c \in Glyphs
  PROVE  Good(insertchar(u, c))
<1> DEFINE b == Shifted(Wrapped(u))
           d == DrawChars(b, c, {b.col})
<1>1. Good(Wrapped(u))
  <2>1. -u.col \in Int
    BY Position
  <2> QED  BY <2>1, AdvanceGood DEF Wrapped
<1>2. Good(b)
  BY <1>1, InsertCharsGood DEF Shifted
<1>3. Good(d)
  <2> HIDE DEF b
  <2> QED  BY <1>2, DrawCharsGood
<1>4. insertchar(u, c) = IF d.col = Cols - 1 THEN [d EXCEPT !.mode = @ \cup {"WRAPREADY"}]
                         ELSE advance(d, 0, 1, 1)
  BY DEF insertchar
<1> HIDE DEF d
<1>5. d.mode \cup {"WRAPREADY"} \in SUBSET Modes
  BY <1>3 DEF Good, TermState, Modes
<1>6. Good([d EXCEPT !.mode = d.mode \cup {"WRAPREADY"}])
  BY <1>3, <1>5, ModeGood
<1>7. Good(advance(d, 0, 1, 1))
  BY <1>3, AdvanceGood
<1> QED  BY <1>4, <1>6, <1>7

LEMMA InsertWideGood ==
  ASSUME NEW u, Good(u), NEW c \in WideChars
  PROVE  Good(insertwide(u, c))
<1>1. "" \in Glyphs /\ c \in Glyphs /\ DWCHAR[c] \in Glyphs
  BY DEF Glyphs
<1> QED  BY <1>1, InsertCharGood DEF insertwide

LEMMA TermResetGood ==
  ASSUME NEW u, Good(u) \/ u = Zeroed
  PROVE  Good(term_reset(u))
<1> DEFINE w == [u EXCEPT !.row = 0, !.col = 0, !.top = 0, !.bot = Rows,
                          !.mode = {"CURSOR", "WRAP"}, !.fg = FGCOLOR, !.bg = BGCOLOR]
<1>1. 0 \in RowIds /\ 0 \in ColIds /\ Rows \in 1..Rows /\ 0 < Rows
  BY DEF RowIds, ColIds
<1>2. {"CURSOR", "WRAP"} \in SUBSET Modes /\ FGCOLOR \in Colors /\ BGCOLOR \in Colors
  BY TermData DEF Modes
<1>3. Good(w)
  <2>1. CASE Good(u)
    BY <1>1, <1>2, <2>1 DEF Good, TermState
  <2>2. CASE u = Zeroed
    <3>1. [i \in Cells |-> [ch |-> "", fg |-> BGCOLOR, bg |-> BGCOLOR]] \in [Cells -> Cell]
      BY <1>2 DEF Cell, Glyphs
    <3>2. [i \in Cells |-> Foreign] \in [Cells -> Looks]
      BY <1>2, LookType DEF Foreign
    <3>3. [k \in 0..(NHIST - 1) |-> [c \in ColIds |-> ""]] \in [0..(NHIST - 1) -> [ColIds -> Glyphs]]
      BY DEF Glyphs
    <3>4. [row |-> 0, col |-> 0, fg |-> BGCOLOR, bg |-> BGCOLOR, mode |-> {}] \in State
      BY <1>1, <1>2 DEF State
    <3>5. 0 \in 0..(NHIST - 1) /\ 0 \in 0..NHIST
      OBVIOUS
    <3> QED  BY <1>1, <1>2, <2>2, <3>1, <3>2, <3>3, <3>4, <3>5 DEF Good, TermState, Zeroed, Looks
  <2> QED  BY <2>1, <2>2
<1>4. term_reset(u) = term_blank(w)
  BY DEF term_reset
<1> HIDE DEF w
<1> QED  BY <1>3, <1>4, TermBlankGood

LEMMA MiscGood ==
  ASSUME NEW u, Good(u)
  PROVE  Good(misc_save(u)) /\ Good(misc_load(u))
<1>1. Saved(u) \in State
  BY DEF Good, TermState, Saved, State
<1>2. Good(misc_save(u))
  BY <1>1 DEF Good, TermState, misc_save
<1>3. Good(misc_load(u))
  BY DEF Good, TermState, misc_load, State
<1> QED  BY <1>2, <1>3

LEMMA RedrawGood ==
  ASSUME NEW u, Good(u)
  PROVE  Good(RedrawAll(u)) /\ Good(RedrawChanged(u)) /\ Good(Show(u)) /\ Good(term_save(u))
<1>1. \A w : Good(w) => Good([w EXCEPT !.lazy = TRUE, !.dirty = RowIds])
  BY DEF Good, TermState
<1>2. \A w : Good(w) => Good(RedrawAll(w))
  BY <1>1, LazyFlushGood DEF RedrawAll
<1>3. Good([u EXCEPT !.visible = TRUE])
  BY DEF Good, TermState
<1>4. Good(term_save(u))
  <2> DEFINE w == IF u.lazy THEN u ELSE lazy_start(u)
             p == [i \in Cells |-> Foreign]
  <2>1. Good(w)
    BY LazyStartGood
  <2>2. Foreign \in Looks
    BY LookType, TermData DEF Foreign
  <2>3. term_save(u) = [w EXCEPT !.visible = FALSE, !.pad = p]
    BY DEF term_save
  <2>4. p \in [Cells -> Looks]
    BY <2>2
  <2>5. Good([w EXCEPT !.visible = FALSE, !.pad = p])
    <3> HIDE DEF w, p
    <3> QED  BY <2>1, <2>4 DEF Good, TermState, Looks
  <2> QED  BY <2>3, <2>5
<1> QED  BY <1>2, <1>3, <1>4, LazyFlushGood DEF RedrawChanged, Show

LEMMA TermScrlGood ==
  ASSUME NEW u, Good(u), NEW n \in Int
  PROVE  Good(term_scrl(u, n))
<1> DEFINE hp == LIMIT(u.hpos + n, 0, NHIST)
           view(i) == LET r == RowOf(i)
                          s == u.screen[i - hp * Cols]
                      IN  IF r < hp THEN Look(HISTROW(u, hp - r)[i % Cols], BGCOLOR, FGCOLOR)
                          ELSE Look(s.ch, s.fg, s.bg)
           p == [i \in Cells |-> view(i)]
<1>1. hp \in 0..NHIST
  <2>1. u.hpos + n \in Int
    BY DEF Good, TermState
  <2> QED  BY <2>1 DEF LIMIT
<1>2. ASSUME NEW i \in Cells
      PROVE  view(i) \in Looks
  <2>1. i \in Int /\ 0 <= i /\ i < Rows * Cols /\ i % Cols \in ColIds
    BY DEF Cells, ColIds
  <2>2. CASE RowOf(i) < hp
    <3>1. hp - RowOf(i) \in Int
      BY <1>1, <2>1, RowOfInt
    <3>2. (u.hrow + NHIST - (hp - RowOf(i))) % NHIST \in 0..(NHIST - 1)
      BY <3>1 DEF Good, TermState
    <3>3. HISTROW(u, hp - RowOf(i)) \in [ColIds -> Glyphs]
      BY <3>2 DEF HISTROW, Good, TermState
    <3>4. HISTROW(u, hp - RowOf(i))[i % Cols] \in Glyphs
      BY <2>1, <3>3
    <3>5. view(i) = Look(HISTROW(u, hp - RowOf(i))[i % Cols], BGCOLOR, FGCOLOR)
      BY <2>2
    <3> QED  BY <3>4, <3>5, LookType, TermData
  <2>3. CASE ~(RowOf(i) < hp)
    <3>1. i \div Cols >= hp
      BY <1>1, <2>1, <2>3 DEF RowOf
    <3>2. (i \div Cols) * Cols <= i /\ i \div Cols \in Int
      BY <2>1
    <3>3. hp * Cols <= (i \div Cols) * Cols
      BY <1>1, <3>1, <3>2
    <3>4. hp * Cols \in Int /\ 0 <= hp * Cols
      BY <1>1
    <3> HIDE DEF hp
    <3>5. i - hp * Cols \in Cells
      BY <2>1, <3>2, <3>3, <3>4 DEF Cells
    <3>6. u.screen[i - hp * Cols] \in Cell
      BY <3>5 DEF Good, TermState
    <3>7. view(i) = Look(u.screen[i - hp * Cols].ch, u.screen[i - hp * Cols].fg, u.screen[i - hp * Cols].bg)
      BY <2>3
    <3> QED  BY <3>6, <3>7, LookType DEF Cell
  <2> QED  BY <2>2, <2>3
<1>3. p \in [Cells -> Looks]
  <2> HIDE DEF view
  <2> QED  BY <1>2
<1>4. term_scrl(u, n) = IF hp = 0 THEN lazy_flush([u EXCEPT !.hpos = 0])
                        ELSE [u EXCEPT !.hpos = hp, !.lazy = TRUE, !.dirty = RowIds, !.pad = p]
  BY DEF term_scrl
<1>5. Good([u EXCEPT !.hpos = 0])
  <2>1. 0 \in 0..NHIST
    OBVIOUS
  <2> QED  BY <2>1 DEF Good, TermState
<1>6. Good([u EXCEPT !.hpos = hp, !.lazy = TRUE, !.dirty = RowIds, !.pad = p])
  <2> HIDE DEF hp, p
  <2> QED  BY <1>1, <1>3 DEF Good, TermState, Looks
<1> HIDE DEF hp, p
<1> QED  BY <1>4, <1>5, <1>6, LazyFlushGood

-----------------------------------------------------------------------------
(* Sequences *)

LEMMA ControlGood ==
  ASSUME NEW u, Good(u), NEW s
  PROVE  Good(ctlseq(u, s))
<1>1. -u.col \in Int /\ 8 - (u.col % 8) \in Int /\ -1 \in Int
  BY Position
<1>2. (IF "AUTOCR" \in u.mode THEN -u.col ELSE 0) \in Int
  BY <1>1
<1>3. /\ Good(advance(u, 0, 8 - (u.col % 8), 0)) /\ Good(advance(u, 0, -1, 0))
      /\ Good(advance(u, 0, -u.col, 0)) /\ Good(advance(u, -1, 0, 1))
      /\ Good(advance(u, 1, 0, 1)) /\ Good(advance(u, 1, -u.col, 1))
  BY <1>1, AdvanceGood
<1>4. Good(advance(u, 1, IF "AUTOCR" \in u.mode THEN -u.col ELSE 0, 1))
  BY <1>2, AdvanceGood
<1> QED  BY <1>3, <1>4, MiscGood, TermResetGood DEF ctlseq

LEMMA EraseGood ==
  ASSUME NEW u, Good(u), NEW a
  PROVE  Good(EraseDisplay(u, a)) /\ Good(EraseLine(u, a))
<1>1. /\ Good(kill_chars(u, u.col, Cols)) /\ Good(kill_chars(u, 0, u.col + 1))
      /\ Good(kill_chars(u, 0, Cols))
  BY KillCharsGood
<1>2. u.row + 1 \in Int /\ u.row - 1 \in Int
  BY Position
<1>3. /\ Good(blank_rows(kill_chars(u, u.col, Cols), u.row + 1, Rows))
      /\ Good(blank_rows(kill_chars(u, 0, u.col + 1), 0, u.row - 1))
  BY <1>1, <1>2, BlankRowsGood
<1> QED  BY <1>1, <1>3, TermBlankGood DEF EraseDisplay, EraseLine

LEMMA AttrGood ==
  ASSUME NEW u, Good(u), NEW m
  PROVE  Good(setattr(u, m))
<1>1. FGCOLOR \in Colors /\ BGCOLOR \in Colors
  BY TermData
<1>2. Good([u EXCEPT !.fg = FGCOLOR, !.bg = BGCOLOR, !.mode = @ \ {"REV"}])
  BY <1>1 DEF Good, TermState
<1>3. Good([u EXCEPT !.mode = @ \cup {"REV"}]) /\ Good([u EXCEPT !.mode = @ \ {"REV"}])
  BY DEF Good, TermState, Modes
<1>4. \A c \in Colors : Good([u EXCEPT !.fg = c]) /\ Good([u EXCEPT !.bg = c])
  BY DEF Good, TermState
<1>5. m \in DOMAIN FgCodes => Good([u EXCEPT !.fg = FgCodes[m]])
  BY <1>4, TermData
<1>6. m \in DOMAIN BgCodes => Good([u EXCEPT !.bg = BgCodes[m]])
  BY <1>4, TermData
<1> QED  BY <1>2, <1>3, <1>5, <1>6 DEF setattr

LEMMA CsiGood ==
  ASSUME NEW u, Good(u), NEW s \in [seq : STRING, a : Nat, b : Nat]
  PROVE  Good(csiseq(u, s))
<1>1. s.a \in Nat /\ s.b \in Nat
  OBVIOUS
<1>2. Given(s.a) \in Int /\ Given(s.a) >= 0 /\ -Given(s.a) \in Int
  BY <1>1 DEF Given, Greater
<1>3. \A r \in Int : absrow(u, r) \in Int
  BY Position DEF absrow
<1>4. /\ Greater(0, s.a - 1) \in Int /\ Greater(0, s.b - 1) \in Int
      /\ Greater(0, s.a - 1) - u.col \in Int
  BY <1>1, Position DEF Greater
<1>5. /\ Good(move_cursor(u, absrow(u, Greater(0, s.a - 1)), Greater(0, s.b - 1)))
      /\ Good(move_cursor(u, absrow(u, Given(s.a) - 1), u.col))
  <2>1. Given(s.a) - 1 \in Int
    BY <1>2
  <2> QED  BY <1>3, <1>4, <2>1, Position, MoveCursorGood
<1>6. /\ Good(advance(u, -Given(s.a), 0, 0)) /\ Good(advance(u, Given(s.a), 0, 0))
      /\ Good(advance(u, 0, Given(s.a), 0)) /\ Good(advance(u, 0, -Given(s.a), 0))
      /\ Good(advance(u, 0, Greater(0, s.a - 1) - u.col, 0))
  BY <1>2, <1>4, AdvanceGood
<1>7. Good(insert_lines(u, Given(s.a))) /\ Good(delete_lines(u, Given(s.a)))
  BY <1>2, InsertLinesGood, DeleteLinesGood
<1>8. /\ Good(scroll_screen(u, Given(s.a), Rows - Given(s.a), -Given(s.a)))
      /\ Good(scroll_screen(u, 0, Rows - Given(s.a), Given(s.a)))
  BY <1>2, ScrollScreenGood
<1>9. LIMIT(s.a, 1, Cols - u.col) \in Int
  BY <1>1, Position DEF LIMIT
<1>10. /\ Good(delete_chars(u, LIMIT(s.a, 1, Cols - u.col)))
       /\ Good(insert_chars(u, LIMIT(s.a, 1, Cols - u.col)))
  BY <1>9, DeleteCharsGood, InsertCharsGood
<1>11. Good(kill_chars(u, u.col, Lesser(u.col + Given(s.a), Cols)))
  BY KillCharsGood
<1>12. Good(set_region(u, s.a, s.b)) /\ Good(setattr(u, s.a))
  BY <1>1, SetRegionGood, AttrGood
<1>13. Good(EraseDisplay(u, s.a)) /\ Good(EraseLine(u, s.a))
  BY EraseGood
<1> QED
  BY <1>5, <1>6, <1>7, <1>8, <1>10, <1>11, <1>12, <1>13 DEF csiseq

LEMMA ModeSeqGood ==
  ASSUME NEW u, Good(u), NEW m \in ModeSeqs, NEW set
  PROVE  Good(modeseq(u, m, set))
<1>1. BIT_SET(u.mode, m, set) \in SUBSET Modes
  BY TermInput DEF Good, TermState, BIT_SET
<1>2. Good([u EXCEPT !.mode = BIT_SET(u.mode, m, set)])
  BY <1>1, ModeGood
<1> QED  BY <1>2, DrawCursorGood DEF modeseq

-----------------------------------------------------------------------------
(* Steps *)

LEMMA StartsGood ==
  ASSUME Good(t), NEW u \in Starts
  PROVE  Good(u)
BY LazyStartGood DEF Starts

LEMMA ReadingGood ==
  ASSUME NEW u, Good(u)
  PROVE  Good(Reading(u)) /\ Good([u EXCEPT !.reading = FALSE])
BY DEF Good, TermState, Reading

\* Every step of the terminal keeps the cursor on the screen and the region
\* non-empty (TermNext, one case per kind of sequence and user action).
LEMMA StepGood ==
  ASSUME Good(t), [TermNext]_t
  PROVE  Good(t)'
<1>1. CASE UNCHANGED t
  BY <1>1 DEF Good
<1>2. ASSUME NEW c \in Chars, PutChar(c)
      PROVE  Good(t)'
  <2>1. PICK u \in Starts : t' = Reading(insertchar(u, c))
    BY <1>2 DEF PutChar
  <2>2. c \in Glyphs
    BY DEF Glyphs
  <2>3. Good(Reading(insertchar(u, c)))
    BY <2>1, <2>2, StartsGood, InsertCharGood, ReadingGood
  <2> QED  BY <2>1, <2>3 DEF Good
<1>3. ASSUME NEW c \in WideChars, PutWide(c)
      PROVE  Good(t)'
  <2>1. PICK u \in Starts : t' = Reading(insertwide(u, c))
    BY <1>3 DEF PutWide
  <2>2. Good(Reading(insertwide(u, c)))
    BY <2>1, StartsGood, InsertWideGood, ReadingGood
  <2> QED  BY <2>1, <2>2 DEF Good
<1>4. ASSUME NEW s \in Controls, Control(s)
      PROVE  Good(t)'
  <2>1. PICK u \in Starts : t' = Reading(ctlseq(u, s))
    BY <1>4 DEF Control
  <2>2. Good(Reading(ctlseq(u, s)))
    BY <2>1, StartsGood, ControlGood, ReadingGood
  <2> QED  BY <2>1, <2>2 DEF Good
<1>5. ASSUME NEW s \in CsiArgs, Csi(s)
      PROVE  Good(t)'
  <2>1. PICK u \in Starts : t' = Reading(csiseq(u, s))
    BY <1>5 DEF Csi
  <2>2. s \in [seq : STRING, a : Nat, b : Nat]
    BY TermInput
  <2>3. Good(Reading(csiseq(u, s)))
    BY <2>1, <2>2, StartsGood, CsiGood, ReadingGood
  <2> QED  BY <2>1, <2>3 DEF Good
<1>6. ASSUME NEW m \in ModeSeqs, NEW set, Mode(m, set)
      PROVE  Good(t)'
  <2>1. PICK u \in Starts : t' = Reading(modeseq(u, m, set))
    BY <1>6 DEF Mode
  <2>2. Good(Reading(modeseq(u, m, set)))
    BY <2>1, StartsGood, ModeSeqGood, ReadingGood
  <2> QED  BY <2>1, <2>2 DEF Good
<1>7. CASE EndRead
  <2>1. Good([lazy_flush(t) EXCEPT !.reading = FALSE])
    BY LazyFlushGood, ReadingGood
  <2> QED  BY <1>7, <2>1 DEF EndRead, Good
<1>8. ASSUME NEW n \in ScrlSteps, Scrl(n)
      PROVE  Good(t)'
  <2>1. Good(term_scrl(t, n))
    BY TermScrlGood, TermInput
  <2> QED  BY <1>8, <2>1 DEF Scrl, Good
<1>9. CASE Redraw
  BY <1>9, RedrawGood DEF Redraw, Good
<1>10. CASE Hide
  BY <1>10, RedrawGood DEF Hide, Good
<1>11. CASE Unhide
  BY <1>11, RedrawGood DEF Unhide, Good
<1>12. CASE Crashed
  BY <1>1, <1>12 DEF Crashed
<1> QED
  BY <1>1, <1>2, <1>3, <1>4, <1>5, <1>6, <1>7, <1>8, <1>9, <1>10, <1>11, <1>12 DEF TermNext

\* term.c: whatever a program sends and the user does, the cursor and the saved
\* cursor stay on the screen and the scrolling region keeps a row.
THEOREM TermTypeCorrect == TermSpec => []TermTypeOK
<1>1. TermInit => Good(t)
  BY TermResetGood DEF TermInit
<1>2. Good(t) /\ [TermNext]_t => Good(t)'
  BY StepGood
<1>3. Good(t) <=> TermTypeOK
  BY DEF Good, TermTypeOK
<1> QED  BY <1>1, <1>2, <1>3, PTL DEF TermSpec

-----------------------------------------------------------------------------
(* Nothing is written outside the screen *)

Safe(u) == Good(u) /\ ~u.wild

LEMMA NotedSafe ==
  ASSUME NEW u, Safe(u), NEW sr \in Int, NEW er \in Int, 0 <= sr, er <= Rows
  PROVE  Safe(Noted(u, sr, er))
<1>1. sr..(er - 1) \subseteq RowIds
  BY DEF RowIds
<1>2. ~Noted(u, sr, er).wild
  BY <1>1 DEF Safe, Good, TermState, Noted
<1> QED  BY <1>2, NotedGood DEF Safe

LEMMA DrawCellsSafe ==
  ASSUME NEW u, Safe(u), NEW S
  PROVE  Safe(DrawCells(u, S))
<1>1. DrawCells(u, S).wild = u.wild
  BY DEF Safe, Good, TermState, DrawCells
<1> QED  BY <1>1, DrawCellsGood DEF Safe

LEMMA DrawPosSafe ==
  ASSUME NEW u, Safe(u), NEW r \in RowIds, NEW c \in ColIds, NEW put
  PROVE  Safe(DrawPos(u, r, c, put))
<1>1. DrawPos(u, r, c, put).wild = u.wild
  BY DEF Safe, Good, TermState, DrawPos
<1> QED  BY <1>1, DrawPosGood DEF Safe

LEMMA DrawRowsSafe ==
  ASSUME NEW u, Safe(u), NEW sr \in Int, NEW er \in Int, 0 <= sr, er <= Rows
  PROVE  Safe(draw_rows(u, sr, er))
BY NotedSafe, DrawCellsSafe DEF draw_rows

LEMMA DrawColsSafe ==
  ASSUME NEW u, Safe(u), NEW r \in RowIds, NEW sc \in Int, NEW ec \in Int
  PROVE  Safe(draw_cols(u, r, sc, ec))
<1>1. r \in Int /\ r + 1 \in Int /\ 0 <= r /\ r + 1 <= Rows
  BY DEF RowIds
<1> QED  BY <1>1, NotedSafe, DrawCellsSafe DEF draw_cols

\* The cursor's row can be noted.
LEMMA OwnRowSafe ==
  ASSUME NEW u, Safe(u), NEW w, Safe(w)
  PROVE  Safe(Noted(w, u.row, u.row + 1))
<1>1. u.row \in Int /\ u.row + 1 \in Int /\ 0 <= u.row /\ u.row + 1 <= Rows
  BY Position DEF Safe
<1> QED  BY <1>1, NotedSafe

LEMMA DrawCursorSafe ==
  ASSUME NEW u, Safe(u), NEW put
  PROVE  Safe(draw_cursor(u, put))
<1>1. u.row \in RowIds /\ u.col \in ColIds
  BY Position DEF Safe
<1> QED  BY <1>1, OwnRowSafe, DrawPosSafe DEF draw_cursor

LEMMA ScreenSafe ==
  ASSUME NEW u, Safe(u), NEW s \in [Cells -> Cell]
  PROVE  Safe([u EXCEPT !.screen = s])
<1>1. [u EXCEPT !.screen = s].wild = u.wild
  BY DEF Safe, Good, TermState
<1> QED  BY <1>1, ScreenGood DEF Safe

LEMMA DrawCharsSafe ==
  ASSUME NEW u, Safe(u), NEW ch \in Glyphs, NEW S
  PROVE  Safe(DrawChars(u, ch, S))
<1> DEFINE cells == { Ofs(u.row, c) : c \in S }
           s == [i \in Cells |-> IF i \in cells THEN [ch |-> ch, fg |-> fgcolor(u), bg |-> bgcolor(u)]
                                 ELSE u.screen[i]]
           w == [u EXCEPT !.screen = s]
<1>1. [ch |-> ch, fg |-> fgcolor(u), bg |-> bgcolor(u)] \in Cell
  BY DEF Safe, Good, TermState, fgcolor, bgcolor, Cell
<1>2. s \in [Cells -> Cell]
  BY <1>1 DEF Safe, Good, TermState
<1>3. Safe(w)
  <2> HIDE DEF s
  <2> QED  BY <1>2, ScreenSafe
<1>4. DrawChars(u, ch, S) \in {u, DrawCells(w, cells), Noted(w, u.row, u.row + 1)}
  BY DEF DrawChars
<1> HIDE DEF w
<1> QED  BY <1>3, <1>4, OwnRowSafe, DrawCellsSafe

LEMMA LazySafe ==
  ASSUME NEW u, Safe(u)
  PROVE  Safe(lazy_start(u)) /\ Safe(lazy_flush(u))
<1>1. lazy_start(u).wild = u.wild
  BY DEF Safe, Good, TermState, lazy_start
<1> DEFINE w == DrawCells(u, InRows(u.dirty))
           x == IF u.row \in u.dirty THEN DrawPos(w, u.row, u.col, TRUE) ELSE w
<1>2. Safe(w)
  BY DrawCellsSafe
<1>3. Safe(x)
  <2> HIDE DEF w
  <2>1. u.row \in RowIds /\ u.col \in ColIds
    BY Position DEF Safe
  <2> QED  BY <1>2, <2>1, DrawPosSafe
<1>4. lazy_flush(u) \in {u, [x EXCEPT !.lazy = FALSE, !.hpos = 0]}
  BY DEF lazy_flush
<1> HIDE DEF x
<1>5. [x EXCEPT !.lazy = FALSE, !.hpos = 0].wild = x.wild
  BY <1>3 DEF Safe, Good, TermState
<1>6. Safe([x EXCEPT !.lazy = FALSE, !.hpos = 0])
  BY <1>3, <1>5, FlushedGood DEF Safe
<1> QED  BY <1>1, <1>4, <1>6, LazyStartGood DEF Safe

\* A part of the screen lies in its rows.
LEMMA RowOfBounds ==
  ASSUME NEW i \in Int, 0 <= i, i <= Rows * Cols
  PROVE  RowOf(i) \in Int /\ 0 <= RowOf(i) /\ RowOf(i) <= Rows
<1> DEFINE q == i \div Cols
<1>1. q \in Int /\ 0 <= q /\ q * Cols <= i
  OBVIOUS
<1>2. q <= Rows
  <2> HIDE DEF q
  <2> SUFFICES ASSUME q >= Rows + 1 PROVE FALSE
    BY <1>1
  <2>1. q * Cols >= (Rows + 1) * Cols
    BY <1>1
  <2>2. (Rows + 1) * Cols = Rows * Cols + Cols
    OBVIOUS
  <2>3. q * Cols \in Int /\ Rows * Cols \in Int
    BY <1>1
  <2> QED  BY <1>1, <2>1, <2>2, <2>3
<1> QED  BY <1>1, <1>2 DEF RowOf

LEMMA ScreenResetSafe ==
  ASSUME NEW u, Safe(u), NEW i \in Int, NEW n \in Int, OnScreen(i, n)
  PROVE  Safe(screen_reset(u, i, n))
<1> DEFINE w == Noted(u, RowOf(i), RowOf(i + n))
           s == [k \in Cells |-> IF k \in i..(i + n - 1)
                                 THEN [ch |-> "", fg |-> u.fg, bg |-> u.bg] ELSE u.screen[k]]
<1>1. Safe(w)
  <2>1. 0 <= i /\ i <= Rows * Cols /\ i + n \in Int /\ 0 <= i + n /\ i + n <= Rows * Cols
    BY DEF OnScreen
  <2> QED  BY <2>1, RowOfBounds, NotedSafe
<1>2. s \in [Cells -> Cell]
  BY BlankCell DEF Safe, Good, TermState
<1>3. screen_reset(u, i, n) = [w EXCEPT !.screen = s]
  BY DEF screen_reset
<1> HIDE DEF w, s
<1> QED  BY <1>1, <1>2, <1>3, ScreenSafe

LEMMA ScreenMoveSafe ==
  ASSUME NEW u, Safe(u), NEW dst \in Int, NEW src \in Int, NEW n \in Int,
         OnScreen(dst, n), OnScreen(src, n)
  PROVE  Safe(screen_move(u, dst, src, n))
<1> DEFINE w == Noted(u, RowOf(Lesser(src, dst)), RowOf(Greater(src, dst) + n))
           s == [k \in Cells |-> IF k \in dst..(dst + n - 1) THEN u.screen[src + k - dst]
                                 ELSE u.screen[k]]
<1>1. Safe(w)
  <2>1. /\ Lesser(src, dst) \in Int /\ 0 <= Lesser(src, dst) /\ Lesser(src, dst) <= Rows * Cols
        /\ Greater(src, dst) + n \in Int /\ 0 <= Greater(src, dst) + n
        /\ Greater(src, dst) + n <= Rows * Cols
    BY DEF OnScreen, Lesser, Greater
  <2> QED  BY <2>1, RowOfBounds, NotedSafe
<1>2. \A k \in dst..(dst + n - 1) : src + k - dst \in 0..(Rows * Cols - 1)
  BY DEF OnScreen
<1>3. s \in [Cells -> Cell]
  BY <1>2 DEF Safe, Good, TermState, Cells
<1>4. screen_move(u, dst, src, n) = [w EXCEPT !.screen = s]
  BY DEF screen_move
<1> HIDE DEF w, s
<1> QED  BY <1>1, <1>3, <1>4, ScreenSafe

\* Whole rows of the screen.
LEMMA RowsOnScreen ==
  ASSUME NEW sr \in Int, NEW nr \in Int, 0 <= sr, 0 <= nr, sr + nr <= Rows
  PROVE  Ofs(sr, 0) \in Int /\ nr * Cols \in Int /\ OnScreen(Ofs(sr, 0), nr * Cols)
<1>1. sr * Cols \in Int /\ sr * Cols >= 0 /\ nr * Cols \in Int /\ nr * Cols >= 0
  OBVIOUS
<1>2. (sr + nr) * Cols = sr * Cols + nr * Cols
  OBVIOUS
<1>3. (sr + nr) * Cols <= Rows * Cols
  OBVIOUS
<1> QED  BY <1>1, <1>2, <1>3 DEF Ofs, OnScreen

\* Part of one row.
LEMMA ColsOnScreen ==
  ASSUME NEW r \in RowIds, NEW c \in Int, NEW n \in Int, 0 <= c, 0 <= n, c + n <= Cols
  PROVE  Ofs(r, c) \in Int /\ OnScreen(Ofs(r, c), n)
<1>1. r \in Int /\ r * Cols \in Int /\ r * Cols >= 0
  BY DEF RowIds
<1>2. (r + 1) * Cols = r * Cols + Cols
  BY <1>1
<1>3. (r + 1) * Cols <= Rows * Cols
  BY DEF RowIds
<1>4. Rows * Cols \in Int
  OBVIOUS
<1> QED  BY <1>1, <1>2, <1>3, <1>4 DEF Ofs, OnScreen

LEMMA EmptyRowsSafe ==
  ASSUME NEW u, Safe(u), NEW sr \in Int, NEW er \in Int, 0 <= sr, sr <= er, er <= Rows
  PROVE  Safe(empty_rows(u, sr, er))
<1>1. er - sr \in Int /\ 0 <= er - sr /\ sr + (er - sr) <= Rows
  OBVIOUS
<1>2. Ofs(sr, 0) \in Int /\ (er - sr) * Cols \in Int /\ OnScreen(Ofs(sr, 0), (er - sr) * Cols)
  BY <1>1, RowsOnScreen
<1> QED  BY <1>2, ScreenResetSafe DEF empty_rows

LEMMA BlankRowsSafe ==
  ASSUME NEW u, Safe(u), NEW sr \in Int, NEW er \in Int, 0 <= sr, sr <= er, er <= Rows
  PROVE  Safe(blank_rows(u, sr, er))
BY EmptyRowsSafe, DrawRowsSafe, DrawCursorSafe DEF blank_rows

LEMMA TermBlankSafe ==
  ASSUME NEW u, Safe(u)
  PROVE  Safe(term_blank(u))
<1> DEFINE w == screen_reset(u, 0, Rows * Cols)
           p == [i \in Cells |-> Look("", FGCOLOR, bgcolor(u))]
<1>1. Safe(w)
  <2>1. Rows * Cols \in Int /\ OnScreen(0, Rows * Cols)
    BY DEF OnScreen
  <2> QED  BY <2>1, ScreenResetSafe
<1>2. term_blank(u) \in {w, [w EXCEPT !.pad = p]}
  BY DEF term_blank
<1>3. [w EXCEPT !.pad = p].wild = w.wild
  <2> HIDE DEF w, p
  <2> QED  BY <1>1 DEF Safe, Good, TermState
<1>4. ~term_blank(u).wild
  <2> HIDE DEF w, p
  <2> QED  BY <1>1, <1>2, <1>3 DEF Safe
<1> QED  BY <1>4, TermBlankGood DEF Safe

LEMMA ScrlRowsSafe ==
  ASSUME NEW u, Safe(u), NEW nr \in Int, nr >= 0, nr <= Rows
  PROVE  Safe(scrl_rows(u, nr))
<1>1. scrl_rows(u, nr).wild = u.wild
  BY DEF Safe, Good, TermState, scrl_rows
<1> QED  BY <1>1, ScrlRowsGood DEF Safe

LEMMA ScrollScreenSafe ==
  ASSUME NEW u, Safe(u), NEW sr \in Int, NEW nr \in Int, NEW n \in Int,
         0 <= sr, 0 <= nr, sr + nr <= Rows, 0 <= sr + n, sr + n + nr <= Rows
  PROVE  Safe(scroll_screen(u, sr, nr, n))
<1> DEFINE a == draw_cursor(u, FALSE)
           b == IF sr + n = 0 THEN scrl_rows(a, sr) ELSE a
           c == screen_move(b, Ofs(sr + n, 0), Ofs(sr, 0), nr * Cols)
           d == IF n > 0 THEN empty_rows(c, sr, sr + n)
                ELSE empty_rows(c, sr + nr + n, sr + nr)
           e == draw_rows(d, Lesser(sr, sr + n), Greater(sr + nr, sr + nr + n))
<1>1. Safe(a)
  BY DrawCursorSafe
<1>2. Safe(b)
  <2> HIDE DEF a
  <2> QED  BY <1>1, ScrlRowsSafe
<1>3. Safe(c)
  <2> HIDE DEF b
  <2>1. Ofs(sr, 0) \in Int /\ nr * Cols \in Int /\ OnScreen(Ofs(sr, 0), nr * Cols)
    BY RowsOnScreen
  <2>2. sr + n \in Int
    OBVIOUS
  <2>3. Ofs(sr + n, 0) \in Int /\ OnScreen(Ofs(sr + n, 0), nr * Cols)
    BY <2>2, RowsOnScreen
  <2> QED  BY <1>2, <2>1, <2>3, ScreenMoveSafe
<1>4. Safe(d)
  <2> HIDE DEF c
  <2>1. CASE n > 0
    BY <1>3, <2>1, EmptyRowsSafe
  <2>2. CASE ~(n > 0)
    <3>1. /\ sr + nr + n \in Int /\ sr + nr \in Int /\ 0 <= sr + nr + n
          /\ sr + nr + n <= sr + nr /\ sr + nr <= Rows
      BY <2>2
    <3> QED  BY <1>3, <2>2, <3>1, EmptyRowsSafe
  <2> QED  BY <2>1, <2>2
<1>5. Safe(e)
  <2> HIDE DEF d
  <2>1. /\ Lesser(sr, sr + n) \in Int /\ 0 <= Lesser(sr, sr + n)
        /\ Greater(sr + nr, sr + nr + n) \in Int /\ Greater(sr + nr, sr + nr + n) <= Rows
    BY DEF Lesser, Greater
  <2> QED  BY <1>4, <2>1, DrawRowsSafe
<1>6. scroll_screen(u, sr, nr, n) = draw_cursor(e, TRUE)
  BY DEF scroll_screen
<1> HIDE DEF e
<1> QED  BY <1>5, <1>6, DrawCursorSafe

LEMMA LinesSafe ==
  ASSUME NEW u, Safe(u), u.row >= u.top, u.row < u.bot, NEW n \in Int, n >= 1
  PROVE  Safe(insert_lines(u, n)) /\ Safe(delete_lines(u, n))
<1>1. /\ u.row \in Int /\ 0 <= u.row /\ u.bot \in Int /\ u.bot <= Rows /\ u.top \in Int
      /\ Greater(u.top, u.row) = u.row
  BY Position DEF Safe, Greater
<1>2. Safe(insert_lines(u, n))
  <2>1. CASE u.bot - u.row - n > 0
    <3>1. /\ u.bot - u.row - n \in Int /\ 0 <= u.bot - u.row - n
          /\ u.row + (u.bot - u.row - n) <= Rows /\ 0 <= u.row + n
          /\ u.row + n + (u.bot - u.row - n) <= Rows
      BY <1>1, <2>1
    <3>2. Safe(scroll_screen(u, u.row, u.bot - u.row - n, n))
      BY <1>1, <3>1, ScrollScreenSafe
    <3> QED  BY <1>1, <2>1, <3>2 DEF insert_lines
  <2>2. CASE ~(u.bot - u.row - n > 0)
    BY <2>2 DEF insert_lines
  <2> QED  BY <2>1, <2>2
<1>3. Safe(delete_lines(u, n))
  <2>1. CASE u.bot - u.row - n > 0
    <3>1. /\ u.bot - u.row - n \in Int /\ 0 <= u.bot - u.row - n /\ -n \in Int
          /\ u.row + n \in Int /\ 0 <= u.row + n
          /\ u.row + n + (u.bot - u.row - n) <= Rows /\ 0 <= u.row + n + (-n)
          /\ u.row + n + (-n) + (u.bot - u.row - n) <= Rows
      BY <1>1, <2>1
    <3>2. Safe(scroll_screen(u, u.row + n, u.bot - u.row - n, -n))
      BY <3>1, ScrollScreenSafe
    <3> QED  BY <1>1, <2>1, <3>2 DEF delete_lines
  <2>2. CASE ~(u.bot - u.row - n > 0)
    BY <1>1, <2>2 DEF delete_lines
  <2> QED  BY <2>1, <2>2
<1> QED  BY <1>2, <1>3

LEMMA MoveCursorSafe ==
  ASSUME NEW u, Safe(u), NEW r \in Int, NEW c \in Int
  PROVE  Safe(move_cursor(u, r, c))
<1> DEFINE tt == IF origin(u) THEN u.top ELSE 0
           bb == IF origin(u) THEN u.bot ELSE Rows
           v  == draw_cursor(u, FALSE)
           w  == [v EXCEPT !.row = LIMIT(r, tt, bb - 1), !.col = LIMIT(c, 0, Cols - 1)]
           x  == draw_cursor(w, TRUE)
<1>1. Safe(v)
  BY DrawCursorSafe
<1>2. Safe(w)
  <2>1. tt \in Int /\ bb \in Int /\ 0 <= tt /\ tt <= bb - 1 /\ bb <= Rows
    BY Position DEF Safe
  <2> HIDE DEF tt, bb
  <2>2. LIMIT(r, tt, bb - 1) \in RowIds /\ LIMIT(c, 0, Cols - 1) \in ColIds
    BY <2>1 DEF LIMIT, RowIds, ColIds
  <2> HIDE DEF v
  <2>3. w.wild = v.wild
    BY <1>1 DEF Safe, Good, TermState
  <2> QED  BY <1>1, <2>2, <2>3, CursorGood DEF Safe
<1>3. Safe(x)
  <2> HIDE DEF w
  <2> QED  BY <1>2, DrawCursorSafe
<1>4. move_cursor(u, r, c) = [x EXCEPT !.mode = x.mode \ {"WRAPREADY"}]
  BY DEF move_cursor
<1> HIDE DEF x
<1>5. [x EXCEPT !.mode = x.mode \ {"WRAPREADY"}].wild = x.wild
  BY <1>3 DEF Safe, Good, TermState
<1>6. ~move_cursor(u, r, c).wild
  BY <1>3, <1>4, <1>5 DEF Safe
<1> QED  BY <1>6, MoveCursorGood DEF Safe

LEMMA SetRegionSafe ==
  ASSUME NEW u, Safe(u), NEW a \in Nat, NEW b \in Nat
  PROVE  Safe(set_region(u, a, b))
<1> DEFINE tp == LIMIT(a - 1, 0, Rows - 1)
           bt == LIMIT(IF b = 0 THEN Rows ELSE b, tp + 1, Rows)
           w  == [u EXCEPT !.top = tp, !.bot = bt]
<1>1. tp \in RowIds /\ tp \in Int /\ tp + 1 <= Rows
  BY DEF LIMIT, RowIds
<1>2. bt \in 1..Rows /\ tp < bt
  <2> HIDE DEF tp
  <2> QED  BY <1>1 DEF LIMIT, RowIds
<1>3. Safe(w)
  <2> HIDE DEF tp, bt
  <2> QED  BY <1>1, <1>2 DEF Safe, Good, TermState
<1>4. set_region(u, a, b) \in {w, move_cursor(w, tp, 0)}
  BY DEF set_region
<1> HIDE DEF w, tp
<1> QED  BY <1>1, <1>3, <1>4, MoveCursorSafe

LEMMA AdvanceSafe ==
  ASSUME NEW u, Safe(u), NEW dr \in Int, NEW dc \in Int, NEW scrl
  PROVE  Safe(advance(u, dr, dc, scrl))
<1> DEFINE r    == u.row + dr
           down == u.bot - r - 1
           up   == u.top - r
           nd   == (u.bot - u.top) + down
           nu   == (u.bot - u.top) - up
           v == IF dr # 0 /\ r >= u.bot /\ scrl = 1 /\ nd > 0
                THEN scroll_screen(u, u.top - down, nd, down) ELSE u
           w == IF dr # 0 /\ r < u.top /\ scrl = 1 /\ nu > 0
                THEN scroll_screen(v, u.top, nu, up) ELSE v
           rr == IF dr # 0 THEN LIMIT(r, u.top, u.bot - 1) ELSE r
           cc == LIMIT(u.col + dc, 0, Cols - 1)
<1>1. r \in Int /\ down \in Int /\ up \in Int /\ nd \in Int /\ nu \in Int
  BY Position DEF Safe
<1>2. Safe(v)
  <2>1. CASE r >= u.bot /\ nd > 0
    <3>1. /\ u.top - down \in Int /\ 0 <= u.top - down /\ 0 <= nd /\ (u.top - down) + nd <= Rows
          /\ 0 <= (u.top - down) + down /\ (u.top - down) + down + nd <= Rows
      BY <2>1, Position DEF Safe
    <3> HIDE DEF down, nd
    <3> QED  BY <1>1, <3>1, ScrollScreenSafe
  <2>2. CASE ~(r >= u.bot /\ nd > 0)
    BY <2>2
  <2> QED  BY <2>1, <2>2
<1>3. Safe(w)
  <2>1. CASE r < u.top /\ nu > 0
    <3>1. /\ u.top \in Int /\ 0 <= u.top /\ 0 <= nu /\ u.top + nu <= Rows
          /\ 0 <= u.top + up /\ u.top + up + nu <= Rows
      BY <2>1, Position DEF Safe
    <3> HIDE DEF up, nu, v
    <3> QED  BY <1>1, <1>2, <3>1, ScrollScreenSafe
  <2>2. CASE ~(r < u.top /\ nu > 0)
    <3> HIDE DEF v
    <3> QED  BY <1>2, <2>2
  <2> QED  BY <2>1, <2>2
<1>4. rr \in Int /\ cc \in Int
  BY Position DEF Safe, LIMIT
<1>5. advance(u, dr, dc, scrl) = move_cursor(w, rr, cc)
  BY DEF advance
<1> HIDE DEF w, rr, cc
<1> QED  BY <1>3, <1>4, <1>5, MoveCursorSafe

LEMMA KillCharsSafe ==
  ASSUME NEW u, Safe(u), NEW sc, NEW ec
  PROVE  Safe(kill_chars(u, sc, ec))
<1>1. "" \in Glyphs
  BY DEF Glyphs
<1> QED  BY <1>1, DrawCharsSafe, DrawCursorSafe DEF kill_chars

\* Characters move inside their row.
LEMMA MoveCharsSafe ==
  ASSUME NEW u, Safe(u), NEW sc \in Int, NEW nc \in Int, NEW n \in Int,
         0 <= sc, 0 <= nc, sc + nc <= Cols, 0 <= sc + n, sc + n + nc <= Cols,
         sc + n <= Cols, 0 <= Cols + n
  PROVE  Safe(move_chars(u, sc, nc, n))
<1> DEFINE a == draw_cursor(u, FALSE)
           b == screen_move(a, Ofs(u.row, sc + n), Ofs(u.row, sc), nc)
           c == IF n > 0 THEN screen_reset(b, Ofs(u.row, sc), n)
                ELSE screen_reset(b, Ofs(u.row, Cols + n), -n)
           d == draw_cols(c, u.row, Lesser(sc, sc + n), Cols)
<1>1. u.row \in RowIds
  BY Position DEF Safe
<1>2. Safe(b)
  <2>1. Safe(a)
    BY DrawCursorSafe
  <2> HIDE DEF a
  <2>2. sc + n \in Int
    OBVIOUS
  <2>3. Ofs(u.row, sc) \in Int /\ OnScreen(Ofs(u.row, sc), nc)
    BY <1>1, ColsOnScreen
  <2>4. Ofs(u.row, sc + n) \in Int /\ OnScreen(Ofs(u.row, sc + n), nc)
    BY <1>1, <2>2, ColsOnScreen
  <2> QED  BY <2>1, <2>3, <2>4, ScreenMoveSafe
<1>3. Safe(c)
  <2> HIDE DEF b
  <2>1. CASE n > 0
    <3>1. Ofs(u.row, sc) \in Int /\ OnScreen(Ofs(u.row, sc), n)
      BY <1>1, <2>1, ColsOnScreen
    <3> QED  BY <1>2, <2>1, <3>1, ScreenResetSafe
  <2>2. CASE ~(n > 0)
    <3>1. Cols + n \in Int /\ -n \in Int /\ 0 <= -n /\ (Cols + n) + (-n) <= Cols
      BY <2>2
    <3>2. Ofs(u.row, Cols + n) \in Int /\ OnScreen(Ofs(u.row, Cols + n), -n)
      BY <1>1, <3>1, ColsOnScreen
    <3> QED  BY <1>2, <2>2, <3>1, <3>2, ScreenResetSafe
  <2> QED  BY <2>1, <2>2
<1>4. Safe(d)
  <2> HIDE DEF c
  <2>1. Lesser(sc, sc + n) \in Int
    BY DEF Lesser
  <2> QED  BY <1>1, <1>3, <2>1, DrawColsSafe
<1>5. move_chars(u, sc, nc, n) = draw_cursor(d, TRUE)
  BY DEF move_chars
<1> HIDE DEF d
<1> QED  BY <1>4, <1>5, DrawCursorSafe

LEMMA CharsSafe ==
  ASSUME NEW u, Safe(u), NEW n \in Int, 1 <= n, n <= Cols - u.col
  PROVE  Safe(insert_chars(u, n)) /\ Safe(delete_chars(u, n))
<1>1. u.col \in Int /\ 0 <= u.col /\ u.col < Cols
  BY Position DEF Safe
<1>2. Safe(move_chars(u, u.col, Cols - u.col - n, n))
  <2>1. /\ Cols - u.col - n \in Int /\ 0 <= Cols - u.col - n
        /\ u.col + (Cols - u.col - n) <= Cols /\ 0 <= u.col + n
        /\ u.col + n + (Cols - u.col - n) <= Cols /\ u.col + n <= Cols /\ 0 <= Cols + n
    BY <1>1
  <2> QED  BY <1>1, <2>1, MoveCharsSafe
<1>3. Safe(move_chars(u, u.col + n, Cols - (u.col + n), -n))
  <2>1. /\ u.col + n \in Int /\ Cols - (u.col + n) \in Int /\ -n \in Int
        /\ 0 <= u.col + n /\ 0 <= Cols - (u.col + n)
        /\ u.col + n + (Cols - (u.col + n)) <= Cols /\ 0 <= u.col + n + (-n)
        /\ u.col + n + (-n) + (Cols - (u.col + n)) <= Cols /\ u.col + n + (-n) <= Cols
        /\ 0 <= Cols + (-n)
    BY <1>1
  <2> QED  BY <2>1, MoveCharsSafe
<1> QED  BY <1>2, <1>3 DEF insert_chars, delete_chars

LEMMA InsertCharSafe ==
  ASSUME NEW u, Safe(u), NEW c \in Glyphs
  PROVE  Safe(insertchar(u, c))
<1> DEFINE b == Shifted(Wrapped(u))
           d == DrawChars(b, c, {b.col})
<1>1. Safe(Wrapped(u))
  <2>1. -u.col \in Int
    BY Position DEF Safe
  <2> QED  BY <2>1, AdvanceSafe DEF Wrapped
<1>2. Safe(b)
  <2>1. 1 <= Cols - Wrapped(u).col
    BY <1>1, Position DEF Safe
  <2> QED  BY <1>1, <2>1, CharsSafe DEF Shifted
<1>3. Safe(d)
  <2> HIDE DEF b
  <2> QED  BY <1>2, DrawCharsSafe
<1>4. insertchar(u, c) = IF d.col = Cols - 1 THEN [d EXCEPT !.mode = @ \cup {"WRAPREADY"}]
                         ELSE advance(d, 0, 1, 1)
  BY DEF insertchar
<1> HIDE DEF d
<1>5. Safe([d EXCEPT !.mode = @ \cup {"WRAPREADY"}])
  BY <1>3 DEF Safe, Good, TermState, Modes
<1>6. Safe(advance(d, 0, 1, 1))
  BY <1>3, AdvanceSafe
<1> QED  BY <1>4, <1>5, <1>6

LEMMA InsertWideSafe ==
  ASSUME NEW u, Safe(u), NEW c \in WideChars
  PROVE  Safe(insertwide(u, c))
<1>1. "" \in Glyphs /\ c \in Glyphs /\ DWCHAR[c] \in Glyphs
  BY DEF Glyphs
<1> QED  BY <1>1, InsertCharSafe DEF insertwide

LEMMA TermResetSafe ==
  ASSUME NEW u, Safe(u)
  PROVE  Safe(term_reset(u))
<1> DEFINE w == [u EXCEPT !.row = 0, !.col = 0, !.top = 0, !.bot = Rows,
                          !.mode = {"CURSOR", "WRAP"}, !.fg = FGCOLOR, !.bg = BGCOLOR]
<1>1. 0 \in RowIds /\ 0 \in ColIds /\ Rows \in 1..Rows /\ 0 < Rows
  BY DEF RowIds, ColIds
<1>2. {"CURSOR", "WRAP"} \in SUBSET Modes /\ FGCOLOR \in Colors /\ BGCOLOR \in Colors
  BY TermData DEF Modes
<1>3. Safe(w)
  BY <1>1, <1>2 DEF Safe, Good, TermState
<1>4. term_reset(u) = term_blank(w)
  BY DEF term_reset
<1> HIDE DEF w
<1> QED  BY <1>3, <1>4, TermBlankSafe

LEMMA ControlSafe ==
  ASSUME NEW u, Safe(u), NEW s
  PROVE  Safe(ctlseq(u, s))
<1>1. -u.col \in Int /\ 8 - (u.col % 8) \in Int /\ -1 \in Int
  BY Position DEF Safe
<1>2. (IF "AUTOCR" \in u.mode THEN -u.col ELSE 0) \in Int
  BY <1>1
<1>3. /\ Safe(advance(u, 0, 8 - (u.col % 8), 0)) /\ Safe(advance(u, 0, -1, 0))
      /\ Safe(advance(u, 0, -u.col, 0)) /\ Safe(advance(u, -1, 0, 1))
      /\ Safe(advance(u, 1, 0, 1)) /\ Safe(advance(u, 1, -u.col, 1))
  BY <1>1, AdvanceSafe
<1>4. Safe(advance(u, 1, IF "AUTOCR" \in u.mode THEN -u.col ELSE 0, 1))
  BY <1>2, AdvanceSafe
<1>5. misc_save(u).wild = u.wild /\ misc_load(u).wild = u.wild
  BY DEF Safe, Good, TermState, misc_save, misc_load
<1>6. Safe(misc_save(u)) /\ Safe(misc_load(u))
  BY <1>5, MiscGood DEF Safe
<1> QED  BY <1>3, <1>4, <1>6, TermResetSafe DEF ctlseq

\* The sequences whose argument is not checked against the screen.
Unchecked(u, s) ==
  \/ s.seq = "ED" /\ s.a = 1 /\ u.row = 0
  \/ s.seq \in {"SU", "SD"} /\ s.a > Rows

LEMMA EraseSafe ==
  ASSUME NEW u, Safe(u), NEW a
  PROVE  /\ ~(a = 1 /\ u.row = 0) => Safe(EraseDisplay(u, a))
         /\ Safe(EraseLine(u, a))
<1>1. /\ Safe(kill_chars(u, u.col, Cols)) /\ Safe(kill_chars(u, 0, u.col + 1))
      /\ Safe(kill_chars(u, 0, Cols))
  BY KillCharsSafe
<1>2. /\ u.row + 1 \in Int /\ 0 <= u.row + 1 /\ u.row + 1 <= Rows
      /\ u.row - 1 \in Int /\ u.row - 1 <= Rows /\ (u.row # 0 => 0 <= u.row - 1)
  BY Position DEF Safe
<1>3. Safe(blank_rows(kill_chars(u, u.col, Cols), u.row + 1, Rows))
  BY <1>1, <1>2, BlankRowsSafe
<1>4. u.row # 0 => Safe(blank_rows(kill_chars(u, 0, u.col + 1), 0, u.row - 1))
  BY <1>1, <1>2, BlankRowsSafe
<1> QED  BY <1>1, <1>3, <1>4, TermBlankSafe DEF EraseDisplay, EraseLine

LEMMA AttrSafe ==
  ASSUME NEW u, Safe(u), NEW m
  PROVE  Safe(setattr(u, m))
<1>1. setattr(u, m).wild = u.wild
  BY DEF Safe, Good, TermState, setattr
<1> QED  BY <1>1, AttrGood DEF Safe

LEMMA CsiSafe ==
  ASSUME NEW u, Safe(u), NEW s \in [seq : STRING, a : Nat, b : Nat], ~Unchecked(u, s)
  PROVE  Safe(csiseq(u, s))
<1>1. s.a \in Nat /\ s.b \in Nat
  OBVIOUS
<1>2. Given(s.a) \in Int /\ Given(s.a) >= 1 /\ -Given(s.a) \in Int
  BY <1>1 DEF Given, Greater
<1>3. \A r \in Int : absrow(u, r) \in Int
  BY Position DEF absrow, Safe
<1>4. /\ Greater(0, s.a - 1) \in Int /\ Greater(0, s.b - 1) \in Int
      /\ Greater(0, s.a - 1) - u.col \in Int /\ u.col \in Int
  BY <1>1, Position DEF Greater, Safe
<1>5. /\ Safe(move_cursor(u, absrow(u, Greater(0, s.a - 1)), Greater(0, s.b - 1)))
      /\ Safe(move_cursor(u, absrow(u, Given(s.a) - 1), u.col))
  <2>1. Given(s.a) - 1 \in Int
    BY <1>2
  <2> QED  BY <1>3, <1>4, <2>1, MoveCursorSafe
<1>6. /\ Safe(advance(u, -Given(s.a), 0, 0)) /\ Safe(advance(u, Given(s.a), 0, 0))
      /\ Safe(advance(u, 0, Given(s.a), 0)) /\ Safe(advance(u, 0, -Given(s.a), 0))
      /\ Safe(advance(u, 0, Greater(0, s.a - 1) - u.col, 0))
  BY <1>2, <1>4, AdvanceSafe
<1>7. u.row >= u.top /\ u.row < u.bot
      => Safe(insert_lines(u, Given(s.a))) /\ Safe(delete_lines(u, Given(s.a)))
  BY <1>2, LinesSafe
<1>8. s.seq \in {"SU", "SD"} =>
        /\ Safe(scroll_screen(u, Given(s.a), Rows - Given(s.a), -Given(s.a)))
        /\ Safe(scroll_screen(u, 0, Rows - Given(s.a), Given(s.a)))
  <2> SUFFICES ASSUME s.seq \in {"SU", "SD"}
               PROVE  /\ Safe(scroll_screen(u, Given(s.a), Rows - Given(s.a), -Given(s.a)))
                      /\ Safe(scroll_screen(u, 0, Rows - Given(s.a), Given(s.a)))
    OBVIOUS
  <2>1. Given(s.a) <= Rows
    BY <1>1 DEF Unchecked, Given, Greater
  <2>2. /\ Rows - Given(s.a) \in Int /\ 0 <= Rows - Given(s.a)
        /\ Given(s.a) + (Rows - Given(s.a)) <= Rows
        /\ 0 <= Given(s.a) + (-Given(s.a))
        /\ Given(s.a) + (-Given(s.a)) + (Rows - Given(s.a)) <= Rows
        /\ 0 + (Rows - Given(s.a)) <= Rows /\ 0 <= 0 + Given(s.a)
        /\ 0 + Given(s.a) + (Rows - Given(s.a)) <= Rows /\ 0 <= Given(s.a)
    BY <1>2, <2>1
  <2>3. Safe(scroll_screen(u, Given(s.a), Rows - Given(s.a), -Given(s.a)))
    BY <1>2, <2>2, ScrollScreenSafe
  <2>4. Safe(scroll_screen(u, 0, Rows - Given(s.a), Given(s.a)))
    BY <1>2, <2>2, ScrollScreenSafe
  <2> QED  BY <2>3, <2>4
<1>9. /\ LIMIT(s.a, 1, Cols - u.col) \in Int /\ 1 <= LIMIT(s.a, 1, Cols - u.col)
      /\ LIMIT(s.a, 1, Cols - u.col) <= Cols - u.col
  BY <1>1, Position DEF LIMIT, Safe
<1>10. /\ Safe(delete_chars(u, LIMIT(s.a, 1, Cols - u.col)))
       /\ Safe(insert_chars(u, LIMIT(s.a, 1, Cols - u.col)))
  BY <1>9, CharsSafe
<1>11. Safe(kill_chars(u, u.col, Lesser(u.col + Given(s.a), Cols)))
  BY KillCharsSafe
<1>12. Safe(set_region(u, s.a, s.b)) /\ Safe(setattr(u, s.a))
  BY <1>1, SetRegionSafe, AttrSafe
<1>13. /\ s.seq = "ED" => Safe(EraseDisplay(u, s.a))
       /\ Safe(EraseLine(u, s.a))
  BY EraseSafe DEF Unchecked
<1> QED
  BY <1>5, <1>6, <1>7, <1>8, <1>10, <1>11, <1>12, <1>13 DEF csiseq

LEMMA ModeSeqSafe ==
  ASSUME NEW u, Safe(u), NEW m \in ModeSeqs, NEW set
  PROVE  Safe(modeseq(u, m, set))
<1>1. BIT_SET(u.mode, m, set) \in SUBSET Modes
  BY TermInput DEF Safe, Good, TermState, BIT_SET
<1>2. Safe([u EXCEPT !.mode = BIT_SET(u.mode, m, set)])
  BY <1>1 DEF Safe, Good, TermState
<1> QED  BY <1>2, DrawCursorSafe DEF modeseq

LEMMA RedrawSafe ==
  ASSUME NEW u, Safe(u)
  PROVE  Safe(RedrawChanged(u)) /\ Safe(Show(u)) /\ Safe(term_save(u))
<1>1. Safe(RedrawChanged(u))
  BY LazySafe DEF RedrawChanged
<1>2. Safe([u EXCEPT !.visible = TRUE])
  BY DEF Safe, Good, TermState
<1>3. \A w : Safe(w) => Safe([w EXCEPT !.lazy = TRUE, !.dirty = RowIds])
  BY DEF Safe, Good, TermState
<1>4. Safe(Show(u))
  BY <1>2, <1>3, LazySafe DEF Show, RedrawAll
<1>5. term_save(u).wild = u.wild
  BY DEF Safe, Good, TermState, term_save, lazy_start
<1>6. Safe(term_save(u))
  BY <1>5, RedrawGood DEF Safe
<1> QED  BY <1>1, <1>4, <1>6

LEMMA TermScrlSafe ==
  ASSUME NEW u, Safe(u), NEW n \in Int
  PROVE  Safe(term_scrl(u, n))
<1>1. CASE LIMIT(u.hpos + n, 0, NHIST) = 0
  <2>1. 0 \in 0..NHIST
    OBVIOUS
  <2>2. Safe([u EXCEPT !.hpos = 0])
    BY <2>1 DEF Safe, Good, TermState
  <2>3. term_scrl(u, n) = lazy_flush([u EXCEPT !.hpos = 0])
    BY <1>1 DEF term_scrl
  <2> QED  BY <2>2, <2>3, LazySafe
<1>2. CASE LIMIT(u.hpos + n, 0, NHIST) # 0
  <2>1. term_scrl(u, n).wild = u.wild
    BY <1>2 DEF term_scrl, Safe, Good, TermState
  <2> QED  BY <2>1, TermScrlGood DEF Safe
<1> QED  BY <1>1, <1>2

LEMMA StartsSafe ==
  ASSUME Safe(t), NEW u \in Starts
  PROVE  Safe(u) /\ u.row = t.row
<1>1. lazy_start(t).row = t.row
  BY DEF Safe, Good, TermState, lazy_start
<1> QED  BY <1>1, LazySafe DEF Starts

LEMMA ReadingSafe ==
  ASSUME NEW u, Safe(u)
  PROVE  Safe(Reading(u)) /\ Safe([u EXCEPT !.reading = FALSE])
BY DEF Safe, Good, TermState, Reading

\* A step that is not one of the unchecked sequences writes inside the screen.
LEMMA StepSafe ==
  ASSUME Safe(t), TermNext, \A s \in CsiArgs : Csi(s) => ~Unchecked(t, s)
  PROVE  Safe(t)'
<1>1. ASSUME NEW c \in Chars, PutChar(c)
      PROVE  Safe(t)'
  <2>1. PICK u \in Starts : t' = Reading(insertchar(u, c))
    BY <1>1 DEF PutChar
  <2>2. c \in Glyphs
    BY DEF Glyphs
  <2>3. Safe(Reading(insertchar(u, c)))
    BY <2>1, <2>2, StartsSafe, InsertCharSafe, ReadingSafe
  <2> QED  BY <2>1, <2>3 DEF Safe, Good
<1>2. ASSUME NEW c \in WideChars, PutWide(c)
      PROVE  Safe(t)'
  <2>1. PICK u \in Starts : t' = Reading(insertwide(u, c))
    BY <1>2 DEF PutWide
  <2>2. Safe(Reading(insertwide(u, c)))
    BY <2>1, StartsSafe, InsertWideSafe, ReadingSafe
  <2> QED  BY <2>1, <2>2 DEF Safe, Good
<1>3. ASSUME NEW s \in Controls, Control(s)
      PROVE  Safe(t)'
  <2>1. PICK u \in Starts : t' = Reading(ctlseq(u, s))
    BY <1>3 DEF Control
  <2>2. Safe(Reading(ctlseq(u, s)))
    BY <2>1, StartsSafe, ControlSafe, ReadingSafe
  <2> QED  BY <2>1, <2>2 DEF Safe, Good
<1>4. ASSUME NEW s \in CsiArgs, Csi(s)
      PROVE  Safe(t)'
  <2>1. PICK u \in Starts : t' = Reading(csiseq(u, s))
    BY <1>4 DEF Csi
  <2>2. s \in [seq : STRING, a : Nat, b : Nat]
    BY TermInput
  <2>3. Safe(u) /\ ~Unchecked(u, s)
    BY <1>4, <2>1, StartsSafe DEF Unchecked
  <2>4. Safe(Reading(csiseq(u, s)))
    BY <2>2, <2>3, CsiSafe, ReadingSafe
  <2> QED  BY <2>1, <2>4 DEF Safe, Good
<1>5. ASSUME NEW m \in ModeSeqs, NEW set, Mode(m, set)
      PROVE  Safe(t)'
  <2>1. PICK u \in Starts : t' = Reading(modeseq(u, m, set))
    BY <1>5 DEF Mode
  <2>2. Safe(Reading(modeseq(u, m, set)))
    BY <2>1, StartsSafe, ModeSeqSafe, ReadingSafe
  <2> QED  BY <2>1, <2>2 DEF Safe, Good
<1>6. CASE EndRead
  <2>1. Safe([lazy_flush(t) EXCEPT !.reading = FALSE])
    BY LazySafe, ReadingSafe
  <2> QED  BY <1>6, <2>1 DEF EndRead, Safe, Good
<1>7. ASSUME NEW n \in ScrlSteps, Scrl(n)
      PROVE  Safe(t)'
  <2>1. Safe(term_scrl(t, n))
    BY TermScrlSafe, TermInput
  <2> QED  BY <1>7, <2>1 DEF Scrl, Safe, Good
<1>8. CASE Redraw
  BY <1>8, RedrawSafe DEF Redraw, Safe, Good
<1>9. CASE Hide
  BY <1>9, RedrawSafe DEF Hide, Safe, Good
<1>10. CASE Unhide
  BY <1>10, RedrawSafe DEF Unhide, Safe, Good
<1>11. CASE Crashed
  BY <1>11 DEF Crashed, Safe
<1> QED
  BY <1>1, <1>2, <1>3, <1>4, <1>5, <1>6, <1>7, <1>8, <1>9, <1>10, <1>11 DEF TermNext

\* term.c: on a screen of any size, nothing but ED 1 in the first row and SU or SD
\* of more rows than there are makes memset, memmove or a loop leave the arrays.
THEOREM TermWritesInside == TermSpec => WildOnlyFrom
<1>1. TermSpec => []Good(t)
  <2>1. TermInit => Good(t)
    BY TermResetGood DEF TermInit
  <2>2. Good(t) /\ [TermNext]_t => Good(t)'
    BY StepGood
  <2> QED  BY <2>1, <2>2, PTL DEF TermSpec
<1> DEFINE A == t'.wild => \/ t.wild
                          \/ \E s \in CsiArgs : Csi(s) /\ \/ s.seq = "ED" /\ s.a = 1 /\ t.row = 0
                                                          \/ s.seq \in {"SU", "SD"} /\ s.a > Rows
<1>2. Good(t) /\ [TermNext]_t => [A]_t
  <2> SUFFICES ASSUME Good(t), TermNext, ~t.wild,
                      \A s \in CsiArgs : Csi(s) => ~Unchecked(t, s)
               PROVE  ~t'.wild
    BY DEF Unchecked
  <2> QED  BY StepSafe DEF Safe
<1> QED  BY <1>1, <1>2, PTL DEF TermSpec, WildOnlyFrom

-----------------------------------------------------------------------------
(* The cursor report *)

LEMMA DrawCursorStays ==
  ASSUME NEW u, Good(u), NEW put \in BOOLEAN
  PROVE  /\ draw_cursor(u, put).row = u.row
         /\ draw_cursor(u, put).col = u.col
BY DEF draw_cursor, DrawPos, Noted, Good, TermState

\* term.c, move_cursor: a cell inside the limits is reached.
LEMMA MoveCursorReaches ==
  ASSUME NEW u, Good(u), NEW r \in Int, NEW c \in ColIds,
         IF origin(u) THEN r \in u.top..(u.bot - 1) ELSE r \in RowIds
  PROVE  move_cursor(u, r, c).row = r /\ move_cursor(u, r, c).col = c
<1> DEFINE tt == IF origin(u) THEN u.top ELSE 0
           bb == IF origin(u) THEN u.bot ELSE Rows
           v  == draw_cursor(u, FALSE)
           w  == [v EXCEPT !.row = LIMIT(r, tt, bb - 1), !.col = LIMIT(c, 0, Cols - 1)]
           x  == draw_cursor(w, TRUE)
<1>1. tt \in Int /\ bb \in Int /\ tt <= r /\ r <= bb - 1
  BY Position, TermSize DEF RowIds
<1>2. LIMIT(r, tt, bb - 1) = r
  <2> HIDE DEF tt, bb
  <2> QED  BY <1>1 DEF LIMIT
<1>3. LIMIT(c, 0, Cols - 1) = c
  BY TermSize DEF LIMIT, ColIds
<1>4. r \in RowIds
  BY Position, TermSize DEF RowIds
<1>5. Good(v)
  BY DrawCursorGood
<1>6. Good(w) /\ w.row = r /\ w.col = c
  <2> HIDE DEF v, tt, bb
  <2>1. w = [v EXCEPT !.row = r, !.col = c]
    BY <1>2, <1>3
  <2>2. Good([v EXCEPT !.row = r, !.col = c])
    BY <1>4, <1>5, CursorGood
  <2> QED  BY <2>1, <2>2, <1>5 DEF Good, TermState
<1>7. Good(x) /\ x.row = r /\ x.col = c
  <2> HIDE DEF w
  <2> QED  BY <1>6, DrawCursorGood, DrawCursorStays
<1>8. move_cursor(u, r, c) = [x EXCEPT !.mode = x.mode \ {"WRAPREADY"}]
  BY DEF move_cursor
<1> HIDE DEF x
<1> QED  BY <1>7, <1>8 DEF Good, TermState

LEMMA CupIsMove ==
  ASSUME NEW u, NEW s, s.seq = "CUP"
  PROVE  csiseq(u, s) = move_cursor(u, absrow(u, Greater(0, s.a - 1)), Greater(0, s.b - 1))
BY DEF csiseq

\* term.c, csiseq_dsr and CUP: on a screen of any size, with any region and origin
\* mode, the reported position leads back to where the cursor was.
THEOREM ReportAlwaysReturns == TermSpec => []ReportReturns
<1>1. TermSpec => []Good(t)
  <2>1. TermInit => Good(t)
    BY TermResetGood DEF TermInit
  <2>2. Good(t) /\ [TermNext]_t => Good(t)'
    BY StepGood
  <2> QED  BY <2>1, <2>2, PTL DEF TermSpec
<1>2. Good(t) => ReportReturns
  <2> SUFFICES ASSUME Good(t), origin(t) => t.row \in t.top..(t.bot - 1)
               PROVE  LET at == csiseq_dsr(t)
                          w  == csiseq(t, [seq |-> "CUP", a |-> at.row, b |-> at.col])
                      IN  w.row = t.row /\ w.col = t.col
    BY DEF ReportReturns
  <2> DEFINE at == csiseq_dsr(t)
             s  == [seq |-> "CUP", a |-> at.row, b |-> at.col]
  <2>1. t.row \in RowIds /\ t.col \in ColIds /\ t.top \in Int /\ t.bot \in Int
    BY DEF Good, TermState, RowIds
  <2>2. at.row \in Int /\ at.col = t.col + 1
    BY <2>1 DEF csiseq_dsr, RowIds
  <2>3. absrow(t, Greater(0, at.row - 1)) = t.row
    <3>1. CASE origin(t)
      BY <3>1, <2>1 DEF csiseq_dsr, absrow, Greater
    <3>2. CASE ~origin(t)
      BY <3>2, <2>1 DEF csiseq_dsr, absrow, Greater, RowIds
    <3> QED  BY <3>1, <3>2
  <2>4. Greater(0, at.col - 1) = t.col
    BY <2>1, <2>2 DEF Greater, ColIds
  <2>5. csiseq(t, s) = move_cursor(t, t.row, t.col)
    <3>1. s.seq = "CUP" /\ s.a = at.row /\ s.b = at.col
      OBVIOUS
    <3> HIDE DEF s
    <3>2. csiseq(t, s) = move_cursor(t, absrow(t, Greater(0, s.a - 1)), Greater(0, s.b - 1))
      BY <3>1, CupIsMove
    <3> QED  BY <3>1, <3>2, <2>3, <2>4
  <2>6. IF origin(t) THEN t.row \in t.top..(t.bot - 1) ELSE t.row \in RowIds
    BY <2>1
  <2>7. move_cursor(t, t.row, t.col).row = t.row /\ move_cursor(t, t.row, t.col).col = t.col
    <3>1. t.row \in Int
      BY <2>1 DEF RowIds
    <3> QED  BY <2>1, <2>6, <3>1, MoveCursorReaches
  <2> QED  BY <2>5, <2>7
<1> QED  BY <1>1, <1>2, PTL
-----------------------------------------------------------------------------
(* What the functions leave alone *)

\* Everything but the screen, the pad, the dirty rows and the history.
Frame(u, w) ==
  /\ w.row = u.row /\ w.col = u.col /\ w.top = u.top /\ w.bot = u.bot
  /\ w.fg = u.fg /\ w.bg = u.bg /\ w.mode = u.mode
  /\ w.visible = u.visible /\ w.lazy = u.lazy

SameHist(u, w) == w.hist = u.hist /\ w.hrow = u.hrow

\* Cells outside lo..hi-1 keep what they hold.
SameOutside(u, w, lo, hi) ==
  \A i \in Cells : i < lo \/ i >= hi => w.screen[i] = u.screen[i]

LEMMA NotedFrame ==
  ASSUME NEW u, Good(u), NEW sr, NEW er
  PROVE  /\ Frame(u, Noted(u, sr, er)) /\ SameHist(u, Noted(u, sr, er))
         /\ Noted(u, sr, er).screen = u.screen
BY DEF Good, TermState, Noted, Frame, SameHist

LEMMA DrawCellsFrame ==
  ASSUME NEW u, Good(u), NEW S
  PROVE  /\ Frame(u, DrawCells(u, S)) /\ SameHist(u, DrawCells(u, S))
         /\ DrawCells(u, S).screen = u.screen
BY DEF Good, TermState, DrawCells, Frame, SameHist

LEMMA DrawRowsFrame ==
  ASSUME NEW u, Good(u), NEW sr, NEW er
  PROVE  /\ Frame(u, draw_rows(u, sr, er)) /\ SameHist(u, draw_rows(u, sr, er))
         /\ draw_rows(u, sr, er).screen = u.screen
BY NotedFrame, DrawCellsFrame DEF draw_rows

LEMMA DrawColsFrame ==
  ASSUME NEW u, Good(u), NEW r, NEW sc, NEW ec
  PROVE  /\ Frame(u, draw_cols(u, r, sc, ec)) /\ SameHist(u, draw_cols(u, r, sc, ec))
         /\ draw_cols(u, r, sc, ec).screen = u.screen
BY NotedFrame, DrawCellsFrame DEF draw_cols

LEMMA DrawCursorFrame ==
  ASSUME NEW u, Good(u), NEW put
  PROVE  /\ Frame(u, draw_cursor(u, put)) /\ SameHist(u, draw_cursor(u, put))
         /\ draw_cursor(u, put).screen = u.screen
<1>1. CASE Drawable(u)
  BY <1>1 DEF draw_cursor, DrawPos, Good, TermState, Frame, SameHist
<1>2. CASE ~Drawable(u)
  BY <1>2, NotedFrame DEF draw_cursor
<1> QED  BY <1>1, <1>2

LEMMA ScreenResetFrame ==
  ASSUME NEW u, Good(u), NEW i \in Int, NEW n \in Int
  PROVE  /\ Frame(u, screen_reset(u, i, n)) /\ SameHist(u, screen_reset(u, i, n))
         /\ SameOutside(u, screen_reset(u, i, n), i, i + n)
<1> DEFINE w == Noted(u, RowOf(i), RowOf(i + n))
           s == [k \in Cells |-> IF k \in i..(i + n - 1)
                                 THEN [ch |-> "", fg |-> u.fg, bg |-> u.bg] ELSE u.screen[k]]
<1>1. CASE ~OnScreen(i, n)
  <2>1. screen_reset(u, i, n) = [u EXCEPT !.wild = TRUE]
    BY <1>1 DEF screen_reset, Wild
  <2> QED  BY <2>1 DEF Good, TermState, Frame, SameHist, SameOutside
<1>2. CASE OnScreen(i, n)
  <2>1. screen_reset(u, i, n) = [w EXCEPT !.screen = s]
    BY <1>2 DEF screen_reset
  <2>2. Good(w) /\ Frame(u, w) /\ SameHist(u, w)
    BY NotedFrame, NotedGood, RowOfInt
  <2>3. \A k \in Cells : k < i \/ k >= i + n => s[k] = u.screen[k]
    <3>1. \A k \in Cells : k < i \/ k >= i + n => k \notin i..(i + n - 1)
      BY DEF Cells
    <3> QED  BY <3>1
  <2> HIDE DEF w, s
  <2>4. [w EXCEPT !.screen = s].screen = s
    BY <2>2 DEF Good, TermState
  <2>5. SameOutside(u, screen_reset(u, i, n), i, i + n)
    BY <2>1, <2>3, <2>4 DEF SameOutside
  <2> QED  BY <2>1, <2>2, <2>5 DEF Good, TermState, Frame, SameHist
<1> QED  BY <1>1, <1>2

LEMMA ScreenMoveFrame ==
  ASSUME NEW u, Good(u), NEW dst \in Int, NEW src \in Int, NEW n \in Int
  PROVE  /\ Frame(u, screen_move(u, dst, src, n)) /\ SameHist(u, screen_move(u, dst, src, n))
         /\ SameOutside(u, screen_move(u, dst, src, n), dst, dst + n)
<1> DEFINE w == Noted(u, RowOf(Lesser(src, dst)), RowOf(Greater(src, dst) + n))
           s == [k \in Cells |-> IF k \in dst..(dst + n - 1) THEN u.screen[src + k - dst]
                                 ELSE u.screen[k]]
<1>1. CASE ~OnScreen(dst, n) \/ ~OnScreen(src, n)
  <2>1. screen_move(u, dst, src, n) = [u EXCEPT !.wild = TRUE]
    BY <1>1 DEF screen_move, Wild
  <2> QED  BY <2>1 DEF Good, TermState, Frame, SameHist, SameOutside
<1>2. CASE OnScreen(dst, n) /\ OnScreen(src, n)
  <2>1. screen_move(u, dst, src, n) = [w EXCEPT !.screen = s]
    BY <1>2 DEF screen_move
  <2>2. Good(w) /\ Frame(u, w) /\ SameHist(u, w)
    <3>1. Lesser(src, dst) \in Int /\ Greater(src, dst) + n \in Int
      BY DEF Lesser, Greater
    <3> QED  BY <3>1, NotedFrame, NotedGood, RowOfInt
  <2>3. \A k \in Cells : k < dst \/ k >= dst + n => s[k] = u.screen[k]
    <3>1. \A k \in Cells : k < dst \/ k >= dst + n => k \notin dst..(dst + n - 1)
      BY DEF Cells
    <3> QED  BY <3>1
  <2> HIDE DEF w, s
  <2>4. [w EXCEPT !.screen = s].screen = s
    BY <2>2 DEF Good, TermState
  <2>5. SameOutside(u, screen_move(u, dst, src, n), dst, dst + n)
    BY <2>1, <2>3, <2>4 DEF SameOutside
  <2> QED  BY <2>1, <2>2, <2>5 DEF Good, TermState, Frame, SameHist
<1> QED  BY <1>1, <1>2

LEMMA ScrlRowsFrame ==
  ASSUME NEW u, Good(u), NEW nr
  PROVE  Frame(u, scrl_rows(u, nr)) /\ scrl_rows(u, nr).screen = u.screen
BY DEF Good, TermState, scrl_rows, Wild, Frame

LEMMA MoveCursorFrame ==
  ASSUME NEW u, Good(u), NEW r \in Int, NEW c \in Int
  PROVE  SameHist(u, move_cursor(u, r, c)) /\ move_cursor(u, r, c).screen = u.screen
<1> DEFINE tt == IF origin(u) THEN u.top ELSE 0
           bb == IF origin(u) THEN u.bot ELSE Rows
           v  == draw_cursor(u, FALSE)
           w  == [v EXCEPT !.row = LIMIT(r, tt, bb - 1), !.col = LIMIT(c, 0, Cols - 1)]
           x  == draw_cursor(w, TRUE)
<1>1. Good(v) /\ SameHist(u, v) /\ v.screen = u.screen
  BY DrawCursorGood, DrawCursorFrame
<1>2. Good(w) /\ SameHist(v, w) /\ w.screen = v.screen
  <2>1. tt \in Int /\ bb \in Int /\ 0 <= tt /\ tt <= bb - 1 /\ bb <= Rows
    BY Position
  <2> HIDE DEF tt, bb
  <2>2. LIMIT(r, tt, bb - 1) \in RowIds /\ LIMIT(c, 0, Cols - 1) \in ColIds
    BY <2>1 DEF LIMIT, RowIds, ColIds
  <2> HIDE DEF v
  <2> QED  BY <1>1, <2>2, CursorGood DEF Good, TermState, SameHist
<1>3. Good(x) /\ SameHist(w, x) /\ x.screen = w.screen
  <2> HIDE DEF w
  <2> QED  BY <1>2, DrawCursorGood, DrawCursorFrame
<1>4. move_cursor(u, r, c) = [x EXCEPT !.mode = x.mode \ {"WRAPREADY"}]
  BY DEF move_cursor
<1> HIDE DEF v, w, x
<1> QED  BY <1>1, <1>2, <1>3, <1>4 DEF Good, TermState, SameHist

\* Rows begin at multiples of Cols.
LEMMA OfsRows ==
  ASSUME NEW a \in Int, NEW b \in Int
  PROVE  /\ Ofs(a, 0) \in Int /\ Ofs(a, 0) + b * Cols = Ofs(a + b, 0) /\ b * Cols \in Int
         /\ a <= b => Ofs(a, 0) <= Ofs(b, 0)
<1>1. a * Cols \in Int /\ b * Cols \in Int /\ a * Cols + b * Cols = (a + b) * Cols
  OBVIOUS
<1>2. a <= b => a * Cols <= b * Cols
  OBVIOUS
<1> QED  BY <1>1, <1>2 DEF Ofs

\* A cell lies in its row.
LEMMA RowOfOfs ==
  ASSUME NEW i \in Int, 0 <= i, NEW r \in Int
  PROVE  /\ RowOf(i) < r <=> i < Ofs(r, 0)
<1> DEFINE q == i \div Cols
<1>1. q \in Int /\ 0 <= q /\ q * Cols <= i /\ i < q * Cols + Cols
  OBVIOUS
<1>2. q * Cols \in Int /\ r * Cols \in Int /\ (q + 1) * Cols = q * Cols + Cols
  BY <1>1
<1>3. q < r => q * Cols + Cols <= r * Cols
  <2>1. q < r => q + 1 <= r
    BY <1>1
  <2>2. q + 1 <= r => (q + 1) * Cols <= r * Cols
    BY <1>1
  <2> QED  BY <1>2, <2>1, <2>2
<1>4. q >= r => q * Cols >= r * Cols
  BY <1>1
<1> HIDE DEF q
<1>5. q < r <=> i < r * Cols
  BY <1>1, <1>2, <1>3, <1>4
<1> QED  BY <1>5 DEF q, RowOf, Ofs

LEMMA EmptyRowsFrame ==
  ASSUME NEW u, Good(u), NEW sr \in Int, NEW er \in Int
  PROVE  /\ Frame(u, empty_rows(u, sr, er)) /\ SameHist(u, empty_rows(u, sr, er))
         /\ SameOutside(u, empty_rows(u, sr, er), Ofs(sr, 0), Ofs(er, 0))
<1>1. er - sr \in Int /\ sr + (er - sr) = er
  OBVIOUS
<1>2. /\ Ofs(sr, 0) \in Int /\ (er - sr) * Cols \in Int
      /\ Ofs(sr, 0) + (er - sr) * Cols = Ofs(er, 0)
  <2>1. Ofs(sr, 0) + (er - sr) * Cols = Ofs(sr + (er - sr), 0)
    BY <1>1, OfsRows
  <2>2. Ofs(sr, 0) \in Int /\ (er - sr) * Cols \in Int
    BY <1>1, OfsRows
  <2> QED  BY <1>1, <2>1, <2>2
<1> QED  BY <1>1, <1>2, ScreenResetFrame DEF empty_rows

LEMMA FrameTrans ==
  ASSUME NEW u, NEW v, NEW w, Frame(u, v), Frame(v, w)
  PROVE  Frame(u, w)
BY DEF Frame

LEMMA OutsideTrans ==
  ASSUME NEW u, NEW v, NEW w, NEW a \in Int, NEW b \in Int, NEW c \in Int, NEW d \in Int,
         NEW lo \in Int, NEW hi \in Int, lo <= a, lo <= c, b <= hi, d <= hi,
         SameOutside(u, v, a, b), SameOutside(v, w, c, d)
  PROVE  SameOutside(u, w, lo, hi)
<1> SUFFICES ASSUME NEW i \in Cells, i < lo \/ i >= hi
             PROVE  w.screen[i] = u.screen[i]
  BY DEF SameOutside
<1>1. i \in Int
  BY DEF Cells
<1>2. (i < a \/ i >= b) /\ (i < c \/ i >= d)
  BY <1>1
<1> QED  BY <1>2 DEF SameOutside

\* scroll_screen rewrites only the rows between the first and the last it is given,
\* and only rows that leave at the top go into the history.
LEMMA ScrollScreenFrame ==
  ASSUME NEW u, Good(u), NEW sr \in Int, sr >= 0, NEW nr \in Int, NEW n \in Int
  PROVE  /\ Frame(u, scroll_screen(u, sr, nr, n))
         /\ nr >= 0 => SameOutside(u, scroll_screen(u, sr, nr, n), Ofs(Lesser(sr, sr + n), 0),
                                   Ofs(Greater(sr + nr, sr + nr + n), 0))
         /\ sr + n # 0 => SameHist(u, scroll_screen(u, sr, nr, n))
         /\ sr + n = 0 => SameHist(scrl_rows(u, sr), scroll_screen(u, sr, nr, n))
<1> DEFINE a == draw_cursor(u, FALSE)
           b == IF sr + n = 0 THEN scrl_rows(a, sr) ELSE a
           c == screen_move(b, Ofs(sr + n, 0), Ofs(sr, 0), nr * Cols)
           d == IF n > 0 THEN empty_rows(c, sr, sr + n)
                ELSE empty_rows(c, sr + nr + n, sr + nr)
           e == draw_rows(d, Lesser(sr, sr + n), Greater(sr + nr, sr + nr + n))
           f == draw_cursor(e, TRUE)
           lo == Ofs(Lesser(sr, sr + n), 0)
           hi == Ofs(Greater(sr + nr, sr + nr + n), 0)
<1>1. Good(a) /\ Frame(u, a) /\ a.screen = u.screen /\ SameHist(u, a)
  BY DrawCursorGood, DrawCursorFrame
<1>2. SameHist(scrl_rows(u, sr), scrl_rows(a, sr))
  <2> HIDE DEF a
  <2>1. CASE sr > Rows
    BY <1>1, <2>1 DEF scrl_rows, Wild, Good, TermState, SameHist
  <2>2. CASE ~(sr > Rows)
    BY <1>1, <2>2 DEF scrl_rows, Good, TermState, SameHist
  <2> QED  BY <2>1, <2>2
<1>3. /\ Good(b) /\ Frame(u, b) /\ b.screen = u.screen
      /\ sr + n # 0 => SameHist(u, b)
      /\ sr + n = 0 => SameHist(scrl_rows(u, sr), b)
  <2> HIDE DEF a
  <2>1. Good(scrl_rows(a, sr)) /\ Frame(a, scrl_rows(a, sr)) /\ scrl_rows(a, sr).screen = a.screen
    BY <1>1, ScrlRowsGood, ScrlRowsFrame
  <2>2. Frame(u, scrl_rows(a, sr))
    BY <1>1, <2>1, FrameTrans
  <2> QED  BY <1>1, <1>2, <2>1, <2>2
<1>4. /\ Good(c) /\ Frame(b, c) /\ SameHist(b, c)
      /\ SameOutside(b, c, Ofs(sr + n, 0), Ofs(sr + n + nr, 0))
  <2> HIDE DEF b
  <2>1. /\ Ofs(sr + n, 0) \in Int /\ Ofs(sr, 0) \in Int /\ nr * Cols \in Int
        /\ Ofs(sr + n, 0) + nr * Cols = Ofs(sr + n + nr, 0)
    <3>1. sr + n \in Int
      OBVIOUS
    <3> QED  BY <3>1, OfsRows
  <2> QED  BY <1>3, <2>1, ScreenMoveGood, ScreenMoveFrame
<1>5. /\ Good(d) /\ Frame(c, d) /\ SameHist(c, d)
      /\ nr >= 0 => SameOutside(b, d, lo, hi)
  <2> HIDE DEF b, c
  <2>1. /\ lo \in Int /\ hi \in Int /\ lo <= Ofs(sr + n, 0) /\ Ofs(sr + n + nr, 0) <= hi
        /\ lo <= Ofs(sr, 0) /\ Ofs(sr + nr, 0) <= hi
        /\ nr >= 0 /\ n > 0 => Ofs(sr + n, 0) <= hi
        /\ nr >= 0 /\ ~(n > 0) => lo <= Ofs(sr + nr + n, 0)
        /\ Ofs(sr, 0) \in Int /\ Ofs(sr + n, 0) \in Int /\ Ofs(sr + n + nr, 0) \in Int
        /\ Ofs(sr + nr, 0) \in Int /\ Ofs(sr + nr + n, 0) \in Int
    <3>1. Lesser(sr, sr + n) \in Int /\ Greater(sr + nr, sr + nr + n) \in Int
      BY DEF Lesser, Greater
    <3>2. /\ Lesser(sr, sr + n) <= sr + n /\ Lesser(sr, sr + n) <= sr
          /\ sr + n + nr <= Greater(sr + nr, sr + nr + n) /\ sr + nr <= Greater(sr + nr, sr + nr + n)
      BY DEF Lesser, Greater
    <3>3. /\ nr >= 0 /\ n > 0 => sr + n <= Greater(sr + nr, sr + nr + n)
          /\ nr >= 0 /\ ~(n > 0) => Lesser(sr, sr + n) <= sr + nr + n
      BY DEF Lesser, Greater
    <3>4. /\ \A k \in Int : Ofs(k, 0) \in Int
          /\ \A k, m \in Int : k <= m => Ofs(k, 0) <= Ofs(m, 0)
      BY OfsRows
    <3>5. sr + n \in Int /\ sr + n + nr \in Int /\ sr + nr \in Int /\ sr + nr + n \in Int
      OBVIOUS
    <3> QED  BY <3>1, <3>2, <3>3, <3>4, <3>5
  <2> HIDE DEF lo, hi
  <2>2. CASE n > 0
    <3>1. d = empty_rows(c, sr, sr + n) /\ sr + n \in Int
      BY <2>2
    <3> HIDE DEF d
    <3>2. SameOutside(c, d, Ofs(sr, 0), Ofs(sr + n, 0)) /\ Good(d) /\ Frame(c, d) /\ SameHist(c, d)
      BY <1>4, <3>1, EmptyRowsFrame, EmptyRowsGood
    <3> QED  BY <1>4, <2>1, <2>2, <3>2, OutsideTrans
  <2>3. CASE ~(n > 0)
    <3>1. d = empty_rows(c, sr + nr + n, sr + nr) /\ sr + nr + n \in Int /\ sr + nr \in Int
      BY <2>3
    <3> HIDE DEF d
    <3>2. /\ SameOutside(c, d, Ofs(sr + nr + n, 0), Ofs(sr + nr, 0))
          /\ Good(d) /\ Frame(c, d) /\ SameHist(c, d)
      BY <1>4, <3>1, EmptyRowsFrame, EmptyRowsGood
    <3> QED  BY <1>4, <2>1, <2>3, <3>2, OutsideTrans
  <2> QED  BY <2>2, <2>3
<1>6. Good(e) /\ Frame(d, e) /\ SameHist(d, e) /\ e.screen = d.screen
  <2> HIDE DEF d
  <2>1. Lesser(sr, sr + n) \in Int /\ Greater(sr + nr, sr + nr + n) \in Int
    BY DEF Lesser, Greater
  <2> QED  BY <1>5, <2>1, DrawRowsGood, DrawRowsFrame
<1>7. Frame(e, f) /\ SameHist(e, f) /\ f.screen = e.screen
  <2> HIDE DEF e
  <2> QED  BY <1>6, DrawCursorFrame
<1>8. scroll_screen(u, sr, nr, n) = f
  BY DEF scroll_screen
<1> HIDE DEF a, b, c, d, e, f
<1>9. nr >= 0 => SameOutside(u, f, lo, hi)
  BY <1>3, <1>5, <1>6, <1>7 DEF SameOutside
<1>10. Frame(u, f)
  BY <1>3, <1>4, <1>5, <1>6, <1>7 DEF Frame
<1>11. SameHist(b, f)
  BY <1>4, <1>5, <1>6, <1>7 DEF SameHist
<1> QED  BY <1>3, <1>8, <1>9, <1>10, <1>11 DEF SameHist

\* The same with the first and the last row named.
LEMMA ScrollOutside ==
  ASSUME NEW u, Good(u), NEW sr \in Int, sr >= 0, NEW nr \in Int, nr >= 0, NEW n \in Int,
         NEW lo, NEW hi, lo = Lesser(sr, sr + n), hi = Greater(sr + nr, sr + nr + n)
  PROVE  SameOutside(u, scroll_screen(u, sr, nr, n), Ofs(lo, 0), Ofs(hi, 0))
BY ScrollScreenFrame

LEMMA LinesOutside ==
  ASSUME NEW u, Good(u), u.row >= u.top, u.row < u.bot, NEW n \in Int, n >= 1
  PROVE  /\ SameOutside(u, insert_lines(u, n), Ofs(u.top, 0), Ofs(u.bot, 0))
         /\ SameOutside(u, delete_lines(u, n), Ofs(u.top, 0), Ofs(u.bot, 0))
<1> DEFINE nr == u.bot - u.row - n
<1>1. /\ u.row \in Int /\ 0 <= u.row /\ u.bot \in Int /\ u.bot <= Rows /\ u.top \in Int
      /\ Greater(u.top, u.row) = u.row /\ nr \in Int
  BY Position DEF Greater
<1>2. SameOutside(u, u, Ofs(u.top, 0), Ofs(u.bot, 0))
  BY DEF SameOutside
<1>3. Ofs(u.top, 0) <= Ofs(u.row, 0) /\ Ofs(u.row, 0) \in Int /\ Ofs(u.top, 0) \in Int /\ Ofs(u.bot, 0) \in Int
  BY <1>1, OfsRows
<1>4. ASSUME NEW w, SameOutside(u, w, Ofs(u.row, 0), Ofs(u.bot, 0))
      PROVE  SameOutside(u, w, Ofs(u.top, 0), Ofs(u.bot, 0))
  BY <1>3, <1>4, <1>2, OutsideTrans
<1>5. SameOutside(u, insert_lines(u, n), Ofs(u.top, 0), Ofs(u.bot, 0))
  <2>1. CASE nr > 0
    <3>1. /\ Lesser(u.row, u.row + n) = u.row /\ Greater(u.row + nr, u.row + nr + n) = u.bot
          /\ nr >= 0 /\ u.row >= 0
      BY <1>1, <2>1 DEF Lesser, Greater
    <3>2. SameOutside(u, scroll_screen(u, u.row, nr, n), Ofs(u.row, 0), Ofs(u.bot, 0))
      <4> HIDE DEF nr
      <4> QED BY <1>1, <2>1, <3>1, ScrollOutside
    <3>3. insert_lines(u, n) = scroll_screen(u, u.row, nr, n)
      BY <1>1, <2>1 DEF insert_lines
    <3> QED  BY <1>4, <3>2, <3>3
  <2>2. CASE ~(nr > 0)
    BY <1>2, <2>2 DEF insert_lines
  <2> QED  BY <2>1, <2>2
<1>6. SameOutside(u, delete_lines(u, n), Ofs(u.top, 0), Ofs(u.bot, 0))
  <2>1. CASE nr > 0
    <3>1. /\ Lesser(u.row + n, u.row + n + (-n)) = u.row
          /\ Greater(u.row + n + nr, u.row + n + nr + (-n)) = u.bot
          /\ u.row + n \in Int /\ u.row + n >= 0 /\ -n \in Int /\ nr >= 0
      BY <1>1, <2>1 DEF Lesser, Greater
    <3>2. SameOutside(u, scroll_screen(u, u.row + n, nr, -n), Ofs(u.row, 0), Ofs(u.bot, 0))
      <4> HIDE DEF nr
      <4> QED BY <1>1, <2>1, <3>1, ScrollOutside
    <3>3. delete_lines(u, n) = scroll_screen(u, u.row + n, nr, -n)
      BY <1>1, <2>1 DEF delete_lines
    <3> QED  BY <1>4, <3>2, <3>3
  <2>2. CASE ~(nr > 0)
    BY <1>1, <1>2, <2>2 DEF delete_lines
  <2> QED  BY <2>1, <2>2
<1> QED  BY <1>5, <1>6

\* advance scrolls the region and nothing else.
LEMMA AdvanceOutside ==
  ASSUME NEW u, Good(u), NEW dr \in Int, NEW dc \in Int, NEW scrl
  PROVE  SameOutside(u, advance(u, dr, dc, scrl), Ofs(u.top, 0), Ofs(u.bot, 0))
<1> DEFINE r    == u.row + dr
           down == u.bot - r - 1
           up   == u.top - r
           nd   == (u.bot - u.top) + down
           nu   == (u.bot - u.top) - up
           v == IF dr # 0 /\ r >= u.bot /\ scrl = 1 /\ nd > 0
                THEN scroll_screen(u, u.top - down, nd, down) ELSE u
           w == IF dr # 0 /\ r < u.top /\ scrl = 1 /\ nu > 0
                THEN scroll_screen(v, u.top, nu, up) ELSE v
           rr == IF dr # 0 THEN LIMIT(r, u.top, u.bot - 1) ELSE r
           cc == LIMIT(u.col + dc, 0, Cols - 1)
           lo == Ofs(u.top, 0)
           hi == Ofs(u.bot, 0)
<1>1. r \in Int /\ down \in Int /\ up \in Int /\ nd \in Int /\ nu \in Int
  BY Position
<1>2. SameOutside(u, u, lo, hi)
  BY DEF SameOutside
<1>3. SameOutside(u, v, lo, hi) /\ (r < u.top => v = u) /\ Good(v)
  <2>1. CASE r >= u.bot /\ nd > 0
    <3>1. /\ u.top - down \in Int /\ u.top - down >= 0 /\ nd >= 0
          /\ Lesser(u.top - down, u.top - down + down) = u.top
          /\ Greater(u.top - down + nd, u.top - down + nd + down) = u.bot
      BY <2>1, Position DEF Lesser, Greater
    <3>2. ~(r < u.top)
      BY <1>1, <2>1, Position
    <3> HIDE DEF down, nd, r
    <3>3. SameOutside(u, scroll_screen(u, u.top - down, nd, down), lo, hi)
      <4> QED BY <1>1, <2>1, <3>1, ScrollOutside
    <3>4. Good(scroll_screen(u, u.top - down, nd, down))
      BY <1>1, <2>1, <3>1, ScrollScreenGood
    <3> QED  BY <1>2, <3>2, <3>3, <3>4
  <2>2. CASE ~(r >= u.bot /\ nd > 0)
    BY <1>2, <2>2
  <2> QED  BY <2>1, <2>2
<1>4. SameOutside(u, w, lo, hi) /\ Good(w)
  <2>1. CASE r < u.top /\ nu > 0
    <3>1. /\ u.top \in Int /\ u.top >= 0 /\ nu >= 0
          /\ Lesser(u.top, u.top + up) = u.top
          /\ Greater(u.top + nu, u.top + nu + up) = u.bot
      BY <2>1, Position DEF Lesser, Greater
    <3> HIDE DEF up, nu, r, v
    <3>2. SameOutside(u, scroll_screen(u, u.top, nu, up), lo, hi)
      <4> QED BY <1>1, <2>1, <3>1, ScrollOutside
    <3>3. Good(scroll_screen(u, u.top, nu, up))
      BY <1>1, <2>1, <3>1, ScrollScreenGood
    <3> QED  BY <1>2, <1>3, <2>1, <3>2, <3>3
  <2>2. CASE ~(r < u.top /\ nu > 0)
    <3> HIDE DEF v, r, nu
    <3> QED  BY <1>3, <2>2
  <2> QED  BY <2>1, <2>2
<1>5. rr \in Int /\ cc \in Int
  BY Position DEF LIMIT
<1>6. advance(u, dr, dc, scrl) = move_cursor(w, rr, cc)
  BY DEF advance
<1> HIDE DEF w, rr, cc
<1>7. move_cursor(w, rr, cc).screen = w.screen
  BY <1>4, <1>5, MoveCursorFrame
<1>8. advance(u, dr, dc, scrl).screen = w.screen
  BY <1>6, <1>7
<1> QED  BY <1>4, <1>8 DEF SameOutside

LEMMA StartsFrame ==
  ASSUME Good(t), NEW u \in Starts
  PROVE  /\ Good(u) /\ u.row = t.row /\ u.col = t.col /\ u.top = t.top /\ u.bot = t.bot
         /\ u.mode = t.mode /\ u.screen = t.screen /\ SameHist(t, u) /\ u.visible = t.visible
         /\ u.wild = t.wild /\ u.fg = t.fg /\ u.bg = t.bg /\ u.pad = t.pad
<1>1. CASE u = t
  BY <1>1 DEF SameHist
<1>2. CASE u = lazy_start(t)
  BY <1>2, LazyStartGood DEF lazy_start, Good, TermState, SameHist
<1> QED  BY <1>1, <1>2 DEF Starts

LEMMA ReadingFrame ==
  ASSUME NEW u, Good(u)
  PROVE  /\ Reading(u).screen = u.screen /\ SameHist(u, Reading(u))
BY DEF Reading, Good, TermState, SameHist

\* term.c, insert_lines, delete_lines and advance: on a screen of any size, IL, DL,
\* LF, RI, IND and NEL leave every row outside the scrolling region alone.
THEOREM RegionKept == TermSpec => RegionOnly
<1>1. TermSpec => []Good(t)
  <2>1. TermInit => Good(t)
    BY TermResetGood DEF TermInit
  <2>2. Good(t) /\ [TermNext]_t => Good(t)'
    BY StepGood
  <2> QED  BY <2>1, <2>2, PTL DEF TermSpec
<1> DEFINE A == (\E i \in Cells : RowOf(i) \notin t.top..(t.bot - 1) /\ t'.screen[i] # t.screen[i])
                => ~FeedsLines
<1>2. Good(t) => A
  <2> SUFFICES ASSUME Good(t), FeedsLines, NEW i \in Cells, RowOf(i) \notin t.top..(t.bot - 1)
               PROVE  t'.screen[i] = t.screen[i]
    OBVIOUS
  <2>1. i < Ofs(t.top, 0) \/ i >= Ofs(t.bot, 0)
    <3>1. i \in Int /\ 0 <= i /\ t.top \in Int /\ t.bot \in Int
      BY Position DEF Cells
    <3>2. RowOf(i) \in Int /\ Ofs(t.bot, 0) \in Int
      BY <3>1, RowOfInt, OfsRows
    <3>3. /\ RowOf(i) < t.top <=> i < Ofs(t.top, 0)
          /\ RowOf(i) < t.bot <=> i < Ofs(t.bot, 0)
      BY <3>1, RowOfOfs
    <3> QED  BY <3>1, <3>2, <3>3
  <2>2. ASSUME NEW s \in CsiArgs, s.seq \in {"IL", "DL"}, Csi(s)
        PROVE  t'.screen[i] = t.screen[i]
    <3>1. PICK u \in Starts : t' = Reading(csiseq(u, s))
      BY <2>2 DEF Csi
    <3>2. Good(u) /\ u.top = t.top /\ u.bot = t.bot /\ u.screen = t.screen
      BY StartsFrame
    <3>3. s \in [seq : STRING, a : Nat, b : Nat]
      BY TermInput
    <3>4. Given(s.a) \in Int /\ Given(s.a) >= 1
      BY <3>3 DEF Given, Greater
    <3>5. /\ s.seq = "IL" => csiseq(u, s) = IF u.row >= u.top /\ u.row < u.bot
                                            THEN insert_lines(u, Given(s.a)) ELSE u
          /\ s.seq = "DL" => csiseq(u, s) = IF u.row >= u.top /\ u.row < u.bot
                                            THEN delete_lines(u, Given(s.a)) ELSE u
      BY DEF csiseq
    <3>6. csiseq(u, s).screen[i] = u.screen[i]
      <4>1. CASE u.row >= u.top /\ u.row < u.bot
        <5>1. /\ SameOutside(u, insert_lines(u, Given(s.a)), Ofs(u.top, 0), Ofs(u.bot, 0))
              /\ SameOutside(u, delete_lines(u, Given(s.a)), Ofs(u.top, 0), Ofs(u.bot, 0))
          BY <3>2, <3>4, <4>1, LinesOutside
        <5> QED  BY <2>1, <2>2, <3>2, <3>5, <4>1, <5>1 DEF SameOutside
      <4>2. CASE ~(u.row >= u.top /\ u.row < u.bot)
        BY <2>2, <3>5, <4>2
      <4> QED  BY <4>1, <4>2
    <3>7. Reading(csiseq(u, s)).screen = csiseq(u, s).screen
      BY <3>2, <3>3, CsiGood, ReadingFrame
    <3> QED  BY <3>1, <3>2, <3>6, <3>7
  <2>3. ASSUME NEW s \in {"LF", "RI", "IND", "NEL"}, Control(s)
        PROVE  t'.screen[i] = t.screen[i]
    <3>1. PICK u \in Starts : t' = Reading(ctlseq(u, s))
      BY <2>3 DEF Control
    <3>2. Good(u) /\ u.top = t.top /\ u.bot = t.bot /\ u.screen = t.screen
      BY StartsFrame
    <3>3. PICK dr \in Int, dc \in Int : ctlseq(u, s) = advance(u, dr, dc, 1)
      <4>1. -u.col \in Int /\ (IF "AUTOCR" \in u.mode THEN -u.col ELSE 0) \in Int /\ -1 \in Int
        BY <3>2, Position
      <4>2. /\ s = "LF" => ctlseq(u, s) = advance(u, 1, IF "AUTOCR" \in u.mode THEN -u.col ELSE 0, 1)
            /\ s = "RI" => ctlseq(u, s) = advance(u, -1, 0, 1)
            /\ s = "IND" => ctlseq(u, s) = advance(u, 1, 0, 1)
            /\ s = "NEL" => ctlseq(u, s) = advance(u, 1, -u.col, 1)
        BY DEF ctlseq
      <4>3. s = "LF" \/ s = "RI" \/ s = "IND" \/ s = "NEL"
        OBVIOUS
      <4> QED  BY <4>1, <4>2, <4>3
    <3>4. ctlseq(u, s).screen[i] = u.screen[i]
      BY <2>1, <3>2, <3>3, AdvanceOutside DEF SameOutside
    <3>5. Reading(ctlseq(u, s)).screen = ctlseq(u, s).screen
      BY <3>2, ControlGood, ReadingFrame
    <3> QED  BY <3>1, <3>2, <3>4, <3>5
  <2> QED  BY <2>2, <2>3 DEF FeedsLines
<1>3. Good(t) /\ [TermNext]_t => [A]_t
  BY <1>2
<1> QED  BY <1>1, <1>3, PTL DEF TermSpec, RegionOnly

-----------------------------------------------------------------------------
(* The history is a queue *)

\* The remainder is the only one.
LEMMA ModUnique ==
  ASSUME NEW N \in Nat \ {0}, NEW x \in Int, NEW q \in Int, NEW r \in Int,
         0 <= r, r < N, x = q * N + r
  PROVE  x % N = r
<1> DEFINE d == x \div N
           m == x % N
<1>1. d \in Int /\ m \in Int /\ 0 <= m /\ m < N /\ x = d * N + m
  OBVIOUS
<1> HIDE DEF d, m
<1>2. q * N \in Int /\ d * N \in Int
  BY <1>1
<1>3. q >= d + 1 => q * N >= d * N + N
  <2>1. (d + 1) * N = d * N + N
    BY <1>1
  <2>2. q >= d + 1 => q * N >= (d + 1) * N
    BY <1>1
  <2> QED  BY <2>1, <2>2
<1>4. d >= q + 1 => d * N >= q * N + N
  <2>1. (q + 1) * N = q * N + N
    BY <1>1
  <2>2. d >= q + 1 => d * N >= (q + 1) * N
    BY <1>1
  <2> QED  BY <2>1, <2>2
<1>5. d = q
  BY <1>1, <1>2, <1>3, <1>4
<1> QED  BY <1>1, <1>2, <1>5 DEF m

LEMMA ModSplit ==
  ASSUME NEW N \in Nat \ {0}, NEW x \in Int
  PROVE  /\ x % N \in Int /\ 0 <= x % N /\ x % N < N
         /\ \E q \in Int : x = q * N + (x % N)
<1>1. x \div N \in Int /\ x % N \in 0..(N - 1) /\ x = (x \div N) * N + (x % N)
  OBVIOUS
<1>2. \E q \in Int : x = q * N + (x % N)
  <2> WITNESS x \div N \in Int
  <2> QED  BY <1>1
<1>3. x % N \in Int /\ 0 <= x % N /\ x % N < N
  OBVIOUS
<1> QED  BY <1>2, <1>3, Zenon

\* The k uppermost rows of u were appended to the history: w is what came of u.
Appended(u, w, k) ==
  \A p \in 1..NHIST :
    HISTROW(w, p) = IF p > k THEN HISTROW(u, p - k)
                    ELSE [c \in ColIds |-> u.screen[Ofs(k - p, c)].ch]

Appends(u, w) == SameHist(u, w) \/ \E k \in 1..Rows : Appended(u, w, k)

\* scrl_rows: the ring holds the rows in their order, whatever hrow is.
LEMMA ScrlRowsAppends ==
  ASSUME NEW u, Good(u), NEW nr \in Int, 1 <= nr, nr <= Rows
  PROVE  Appended(u, scrl_rows(u, nr), nr)
<1> DEFINE N == NHIST
           w == scrl_rows(u, nr)
           rw(k) == nr - 1 - ((u.hrow + nr - 1 - k) % N)
           h == [k \in 0..(N - 1) |->
                   IF rw(k) < 0 THEN u.hist[k] ELSE [c \in ColIds |-> u.screen[Ofs(rw(k), c)].ch]]
<1>1. w = [u EXCEPT !.hrow = (@ + nr) % N, !.hist = h]
  BY DEF scrl_rows
<1>2. w.hrow = (u.hrow + nr) % N /\ w.hist = h /\ u.hrow \in Int
  <2> HIDE DEF h
  <2> QED  BY <1>1 DEF Good, TermState
<1>21. u.hrow \in Int
  BY <1>2
<1> SUFFICES ASSUME NEW p \in 1..N
             PROVE  HISTROW(w, p) = IF p > nr THEN HISTROW(u, p - nr)
                                    ELSE [c \in ColIds |-> u.screen[Ofs(nr - p, c)].ch]
  BY DEF Appended
<1> DEFINE z == (u.hrow + nr) % N
           y == z + N - p
           K == y % N
<1>0. N \in Nat \ {0} /\ u.hrow + nr \in Int /\ p \in Int
  BY <1>2
<1> HIDE DEF N
<1>3. PICK a \in Int : u.hrow + nr = a * N + z
  BY <1>0, ModSplit
<1>4. z \in Int /\ 0 <= z /\ z < N
  BY <1>0, ModSplit
<1> HIDE DEF z
<1>5. y \in Int
  BY <1>0, <1>4
<1> HIDE DEF y
<1>6. PICK b \in Int : y = b * N + K
  BY <1>0, <1>5, ModSplit
<1>62. K \in Int /\ 0 <= K /\ K < N
  BY <1>0, <1>5, ModSplit
<1> HIDE DEF K
<1>7. /\ a * N \in Int /\ b * N \in Int /\ (a + b - 1) * N = a * N + b * N - N
      /\ (a + b) * N = a * N + b * N /\ a + b - 1 \in Int /\ a + b \in Int
  BY <1>0
<1>71. /\ u.hrow + nr - 1 - K = (a + b - 1) * N + (p - 1)
       /\ u.hrow + N - (p - nr) = (a + b) * N + K
  <2>1. z + N - p = b * N + K
    BY <1>6 DEF y
  <2>2. /\ u.hrow + nr - 1 - K = (a * N + b * N - N) + (p - 1)
        /\ u.hrow + N - (p - nr) = (a * N + b * N) + K
    <3> DEFINE A == a * N
               B == b * N
    <3>1. A \in Int /\ B \in Int /\ u.hrow + nr = A + z /\ z + N - p = B + K /\ N \in Int
      BY <1>0, <1>3, <1>7, <2>1
    <3> HIDE DEF A, B
    <3>2. /\ u.hrow + nr - 1 - K = (A + B - N) + (p - 1)
          /\ u.hrow + N - (p - nr) = (A + B) + K
      BY <1>0, <1>21, <1>4, <1>62, <3>1
    <3> QED  BY <3>2 DEF A, B
  <2> QED  BY <1>7, <2>2
<1>8. (u.hrow + nr - 1 - K) % N = p - 1
  <2>1. u.hrow + nr - 1 - K \in Int /\ p - 1 \in Int /\ 0 <= p - 1 /\ p - 1 < N
    BY <1>0, <1>2, <1>62
  <2> QED  BY <1>0, <1>7, <1>71, <2>1, ModUnique
<1>9. rw(K) = nr - p
  BY <1>8
<1>10. HISTROW(w, p) = h[K]
  <2> HIDE DEF w, h
  <2> QED  BY <1>2 DEF HISTROW, z, y, K, N
<1>11. h[K] = IF nr - p < 0 THEN u.hist[K] ELSE [c \in ColIds |-> u.screen[Ofs(nr - p, c)].ch]
  <2>1. K \in 0..(N - 1)
    BY <1>0, <1>62
  <2> HIDE DEF rw
  <2> QED  BY <1>9, <2>1
<1>12. p > nr => HISTROW(u, p - nr) = u.hist[K]
  <2>1. u.hrow + N - (p - nr) \in Int
    BY <1>0, <1>2
  <2>2. (u.hrow + N - (p - nr)) % N = K
    BY <1>0, <1>62, <1>7, <1>71, <2>1, ModUnique
  <2> QED  BY <2>2 DEF HISTROW, N
<1> HIDE DEF h, w
<1>13. p > nr <=> nr - p < 0
  BY <1>0
<1> QED  BY <1>10, <1>11, <1>12, <1>13

LEMMA AppendedSame ==
  ASSUME NEW u, NEW v, NEW w, NEW k, Appended(u, v, k), SameHist(v, w)
  PROVE  Appended(u, w, k)
BY DEF Appended, SameHist, HISTROW

LEMMA ScrollScreenAppends ==
  ASSUME NEW u, Good(u), NEW sr \in Int, sr >= 0, NEW nr \in Int, NEW n \in Int, n # 0
  PROVE  \/ SameHist(u, scroll_screen(u, sr, nr, n))
         \/ sr + n = 0 /\ 1 <= sr /\ sr <= Rows /\ Appended(u, scroll_screen(u, sr, nr, n), sr)
<1> DEFINE w == scroll_screen(u, sr, nr, n)
<1>1. sr + n # 0 => SameHist(u, w)
  BY ScrollScreenFrame
<1>2. sr + n = 0 => SameHist(scrl_rows(u, sr), w)
  BY ScrollScreenFrame
<1> HIDE DEF w
<1>3. ASSUME sr + n = 0, sr <= Rows
      PROVE  1 <= sr /\ Appended(u, w, sr)
  <2>1. 1 <= sr
    BY <1>3
  <2>2. Appended(u, scrl_rows(u, sr), sr)
    BY <1>3, <2>1, ScrlRowsAppends
  <2> QED  BY <1>2, <1>3, <2>1, <2>2, AppendedSame
<1>4. ASSUME sr + n = 0, sr > Rows
      PROVE  SameHist(u, w)
  <2>1. SameHist(u, scrl_rows(u, sr))
    BY <1>4 DEF scrl_rows, Wild, Good, TermState, SameHist
  <2> QED  BY <1>2, <1>4, <2>1 DEF SameHist
<1>5. sr <= Rows \/ sr > Rows
  OBVIOUS
<1> QED  BY <1>1, <1>3, <1>4, <1>5 DEF w

LEMMA AdvanceAppends ==
  ASSUME NEW u, Good(u), NEW dr \in Int, NEW dc \in Int, NEW scrl
  PROVE  /\ Appends(u, advance(u, dr, dc, scrl))
         /\ dr = 0 => SameHist(u, advance(u, dr, dc, scrl))
         /\ dr = 1 => \/ SameHist(u, advance(u, dr, dc, scrl))
                      \/ \E k \in 1..Rows : k <= u.row /\ Appended(u, advance(u, dr, dc, scrl), k)
<1> DEFINE r    == u.row + dr
           down == u.bot - r - 1
           up   == u.top - r
           nd   == (u.bot - u.top) + down
           nu   == (u.bot - u.top) - up
           v == IF dr # 0 /\ r >= u.bot /\ scrl = 1 /\ nd > 0
                THEN scroll_screen(u, u.top - down, nd, down) ELSE u
           w == IF dr # 0 /\ r < u.top /\ scrl = 1 /\ nu > 0
                THEN scroll_screen(v, u.top, nu, up) ELSE v
           rr == IF dr # 0 THEN LIMIT(r, u.top, u.bot - 1) ELSE r
           cc == LIMIT(u.col + dc, 0, Cols - 1)
           Fine(x) == \/ SameHist(u, x)
                      \/ /\ dr # 0
                         /\ \E k \in 1..Rows : (dr = 1 => k <= u.row) /\ Appended(u, x, k)
<1>1. r \in Int /\ down \in Int /\ up \in Int /\ nd \in Int /\ nu \in Int
  BY Position
<1>2. SameHist(u, u)
  BY DEF SameHist
<1>3. Fine(v) /\ (r < u.top => v = u) /\ Good(v)
  <2>1. CASE dr # 0 /\ r >= u.bot /\ scrl = 1 /\ nd > 0
    <3>1. /\ u.top - down \in Int /\ u.top - down >= 0 /\ nd >= 0 /\ down # 0
          /\ u.top - down + down = u.top
      BY <2>1, Position
    <3>2. ~(r < u.top)
      BY <1>1, <2>1, Position
    <3>3. v = scroll_screen(u, u.top - down, nd, down)
      BY <2>1
    <3>4. u.top = 0 /\ dr = 1 => u.top - down <= u.row
      BY <2>1, Position
    <3> HIDE DEF down, nd, r, v
    <3>5. Good(v)
      BY <1>1, <3>1, <3>3, ScrollScreenGood
    <3>6. \/ SameHist(u, v)
          \/ /\ u.top - down + down = 0 /\ 1 <= u.top - down /\ u.top - down <= Rows
             /\ Appended(u, v, u.top - down)
      BY <1>1, <3>1, <3>3, ScrollScreenAppends
    <3>7. CASE SameHist(u, v)
      BY <3>2, <3>5, <3>7
    <3>8. CASE /\ u.top - down + down = 0 /\ 1 <= u.top - down /\ u.top - down <= Rows
               /\ Appended(u, v, u.top - down)
      <4>1. u.top - down \in 1..Rows /\ (dr = 1 => u.top - down <= u.row)
        BY <3>1, <3>4, <3>8
      <4> QED  BY <2>1, <3>2, <3>5, <3>8, <4>1
    <3> QED  BY <3>6, <3>7, <3>8
  <2>2. CASE ~(dr # 0 /\ r >= u.bot /\ scrl = 1 /\ nd > 0)
    BY <1>2, <2>2
  <2> QED  BY <2>1, <2>2
<1>4. Fine(w) /\ Good(w)
  <2>1. CASE dr # 0 /\ r < u.top /\ scrl = 1 /\ nu > 0
    <3>1. u.top \in Int /\ u.top >= 0 /\ nu >= 0 /\ up # 0 /\ u.top + up # 0
      BY <2>1, Position
    <3> HIDE DEF up, nu, r, v
    <3>2. w = scroll_screen(u, u.top, nu, up)
      BY <1>3, <2>1
    <3> HIDE DEF w
    <3>3. SameHist(u, w)
      BY <1>1, <3>1, <3>2, ScrollScreenAppends
    <3>4. Good(w)
      BY <1>1, <3>1, <3>2, ScrollScreenGood
    <3> QED  BY <3>3, <3>4
  <2>2. CASE ~(dr # 0 /\ r < u.top /\ scrl = 1 /\ nu > 0)
    <3>1. w = v
      BY <2>2
    <3> HIDE DEF v, w
    <3> QED  BY <1>3, <3>1
  <2> QED  BY <2>1, <2>2
<1>5. rr \in Int /\ cc \in Int
  BY Position DEF LIMIT
<1>6. advance(u, dr, dc, scrl) = move_cursor(w, rr, cc)
  BY DEF advance
<1> HIDE DEF w, rr, cc
<1>7. SameHist(w, move_cursor(w, rr, cc))
  BY <1>4, <1>5, MoveCursorFrame
<1>8. Fine(advance(u, dr, dc, scrl))
  <2>1. CASE SameHist(u, w)
    BY <1>6, <1>7, <2>1 DEF SameHist
  <2>2. ASSUME dr # 0, NEW k \in 1..Rows, dr = 1 => k <= u.row, Appended(u, w, k)
        PROVE  Fine(advance(u, dr, dc, scrl))
    <3>1. Appended(u, advance(u, dr, dc, scrl), k)
      BY <1>6, <1>7, <2>2, AppendedSame
    <3> QED  BY <2>2, <3>1
  <2> QED  BY <1>4, <2>1, <2>2
<1> HIDE DEF r, down, up, nd, nu, v
<1> QED  BY <1>8 DEF Appends

\* DrawChars writes in the cursor's row.
LEMMA DrawCharsFrame ==
  ASSUME NEW u, Good(u), NEW ch \in Glyphs, NEW S, S \subseteq ColIds
  PROVE  /\ Frame(u, DrawChars(u, ch, S)) /\ SameHist(u, DrawChars(u, ch, S))
         /\ SameOutside(u, DrawChars(u, ch, S), Ofs(u.row, 0), Ofs(u.row + 1, 0))
<1> DEFINE cells == { Ofs(u.row, c) : c \in S }
           s == [i \in Cells |-> IF i \in cells THEN [ch |-> ch, fg |-> fgcolor(u), bg |-> bgcolor(u)]
                                 ELSE u.screen[i]]
           w == [u EXCEPT !.screen = s]
<1>1. [ch |-> ch, fg |-> fgcolor(u), bg |-> bgcolor(u)] \in Cell
  BY DEF Good, TermState, fgcolor, bgcolor, Cell
<1>2. s \in [Cells -> Cell]
  BY <1>1 DEF Good, TermState
<1>3. Good(w) /\ Frame(u, w) /\ SameHist(u, w) /\ w.screen = s
  <2> HIDE DEF s
  <2> QED  BY <1>2, ScreenGood DEF Good, TermState, Frame, SameHist
<1>4. SameOutside(u, w, Ofs(u.row, 0), Ofs(u.row + 1, 0))
  <2> SUFFICES ASSUME NEW i \in Cells, i < Ofs(u.row, 0) \/ i >= Ofs(u.row + 1, 0)
               PROVE  s[i] = u.screen[i]
    BY <1>3 DEF SameOutside
  <2>1. \A c \in S : i # Ofs(u.row, c)
    <3>1. u.row \in Int /\ u.row * Cols \in Int /\ (u.row + 1) * Cols = u.row * Cols + Cols
      BY Position
    <3> QED  BY <3>1 DEF ColIds, Ofs, Cells
  <2>2. i \notin cells
    BY <2>1
  <2> HIDE DEF cells
  <2> QED  BY <2>2
<1>5. SameOutside(u, u, Ofs(u.row, 0), Ofs(u.row + 1, 0)) /\ Frame(u, u) /\ SameHist(u, u)
  BY DEF SameOutside, Frame, SameHist
<1>6. DrawChars(u, ch, S) \in {u, DrawCells(w, cells), Noted(w, u.row, u.row + 1)}
  BY DEF DrawChars
<1> HIDE DEF w
<1>7. ASSUME NEW x, Frame(w, x), SameHist(w, x), x.screen = w.screen
      PROVE  /\ Frame(u, x) /\ SameHist(u, x)
             /\ SameOutside(u, x, Ofs(u.row, 0), Ofs(u.row + 1, 0))
  BY <1>3, <1>4, <1>7 DEF Frame, SameHist, SameOutside
<1>8. /\ Frame(w, DrawCells(w, cells)) /\ SameHist(w, DrawCells(w, cells))
      /\ DrawCells(w, cells).screen = w.screen
  BY <1>3, DrawCellsFrame
<1>9. /\ Frame(w, Noted(w, u.row, u.row + 1)) /\ SameHist(w, Noted(w, u.row, u.row + 1))
      /\ Noted(w, u.row, u.row + 1).screen = w.screen
  BY <1>3, NotedFrame
<1> HIDE DEF cells
<1> QED  BY <1>5, <1>6, <1>7, <1>8, <1>9

\* move_chars moves characters inside the cursor's row.
LEMMA MoveCharsFrame ==
  ASSUME NEW u, Good(u), NEW sc \in Int, NEW nc \in Int, NEW n \in Int,
         0 <= sc, 0 <= nc, sc + nc <= Cols, 0 <= sc + n, sc + n + nc <= Cols,
         sc + n <= Cols, 0 <= Cols + n
  PROVE  /\ Frame(u, move_chars(u, sc, nc, n)) /\ SameHist(u, move_chars(u, sc, nc, n))
         /\ SameOutside(u, move_chars(u, sc, nc, n), Ofs(u.row, 0), Ofs(u.row + 1, 0))
<1> DEFINE a == draw_cursor(u, FALSE)
           b == screen_move(a, Ofs(u.row, sc + n), Ofs(u.row, sc), nc)
           c == IF n > 0 THEN screen_reset(b, Ofs(u.row, sc), n)
                ELSE screen_reset(b, Ofs(u.row, Cols + n), -n)
           d == draw_cols(c, u.row, Lesser(sc, sc + n), Cols)
           e == draw_cursor(d, TRUE)
           lo == Ofs(u.row, 0)
           hi == Ofs(u.row + 1, 0)
<1>1. /\ u.row \in RowIds /\ Lesser(sc, sc + n) \in Int /\ -n \in Int
      /\ lo \in Int /\ hi \in Int /\ hi = lo + Cols /\ lo + 0 = lo
      /\ \A k \in Int : Ofs(u.row, k) = lo + k
  <2>1. u.row \in RowIds /\ u.row \in Int /\ Lesser(sc, sc + n) \in Int /\ -n \in Int
    BY Position DEF Lesser
  <2>2. u.row * Cols \in Int /\ (u.row + 1) * Cols = u.row * Cols + Cols
    BY <2>1
  <2> QED  BY <2>1, <2>2 DEF Ofs
<1> HIDE DEF lo, hi
<1>2. Good(a) /\ Frame(u, a) /\ SameHist(u, a) /\ a.screen = u.screen
  BY DrawCursorGood, DrawCursorFrame
<1>3. /\ Good(b) /\ Frame(a, b) /\ SameHist(a, b)
      /\ SameOutside(a, b, lo + (sc + n), lo + (sc + n) + nc)
  <2> HIDE DEF a
  <2>1. Ofs(u.row, sc + n) = lo + (sc + n) /\ Ofs(u.row, sc) = lo + sc
    BY <1>1
  <2>2. lo + (sc + n) \in Int /\ lo + sc \in Int
    BY <1>1
  <2> HIDE DEF b
  <2>3. b = screen_move(a, lo + (sc + n), lo + sc, nc)
    BY <2>1 DEF b
  <2> QED  BY <1>2, <2>2, <2>3, ScreenMoveGood, ScreenMoveFrame
<1>4. Good(c) /\ Frame(b, c) /\ SameHist(b, c) /\ SameOutside(a, c, lo, hi)
  <2> HIDE DEF a, b
  <2>1. CASE n > 0
    <3>1. c = screen_reset(b, lo + sc, n) /\ lo + sc \in Int
      BY <1>1, <2>1
    <3> HIDE DEF c
    <3>2. Good(c) /\ Frame(b, c) /\ SameHist(b, c) /\ SameOutside(b, c, lo + sc, lo + sc + n)
      BY <1>3, <3>1, ScreenResetGood, ScreenResetFrame
    <3>3. /\ lo <= lo + (sc + n) /\ lo + (sc + n) + nc <= hi /\ lo <= lo + sc /\ lo + sc + n <= hi
          /\ lo + (sc + n) \in Int /\ lo + (sc + n) + nc \in Int /\ lo + sc + n \in Int
      BY <1>1, <2>1
    <3>4. SameOutside(a, c, lo, hi)
      BY <1>1, <1>3, <3>1, <3>2, <3>3, OutsideTrans
    <3> QED  BY <3>2, <3>4
  <2>2. CASE ~(n > 0)
    <3>1. c = screen_reset(b, lo + (Cols + n), -n) /\ lo + (Cols + n) \in Int
      BY <1>1, <2>2
    <3> HIDE DEF c
    <3>2. /\ Good(c) /\ Frame(b, c) /\ SameHist(b, c)
          /\ SameOutside(b, c, lo + (Cols + n), lo + (Cols + n) + (-n))
      BY <1>1, <1>3, <3>1, ScreenResetGood, ScreenResetFrame
    <3>3. /\ lo <= lo + (sc + n) /\ lo + (sc + n) + nc <= hi
          /\ lo <= lo + (Cols + n) /\ lo + (Cols + n) + (-n) <= hi
          /\ lo + (sc + n) \in Int /\ lo + (sc + n) + nc \in Int /\ lo + (Cols + n) + (-n) \in Int
      BY <1>1, <2>2
    <3>4. SameOutside(a, c, lo, hi)
      BY <1>1, <1>3, <3>1, <3>2, <3>3, OutsideTrans
    <3> QED  BY <3>2, <3>4
  <2> QED  BY <2>1, <2>2
<1>5. Good(d) /\ Frame(c, d) /\ SameHist(c, d) /\ d.screen = c.screen
  <2> HIDE DEF c
  <2> QED  BY <1>1, <1>4, DrawColsGood, DrawColsFrame
<1>6. Frame(d, e) /\ SameHist(d, e) /\ e.screen = d.screen
  <2> HIDE DEF d
  <2> QED  BY <1>5, DrawCursorFrame
<1>7. move_chars(u, sc, nc, n) = e
  BY DEF move_chars
<1> HIDE DEF a, b, c, d, e
<1>8. Frame(u, e) /\ SameHist(u, e)
  BY <1>2, <1>3, <1>4, <1>5, <1>6 DEF Frame, SameHist
<1>9. SameOutside(u, e, lo, hi)
  BY <1>2, <1>4, <1>5, <1>6 DEF SameOutside
<1> QED  BY <1>7, <1>8, <1>9 DEF lo, hi

LEMMA MoveCursorPlain ==
  ASSUME NEW u, Good(u), NEW r \in Int, NEW c \in Int
  PROVE  /\ "WRAPREADY" \notin move_cursor(u, r, c).mode
         /\ move_cursor(u, r, c).col = LIMIT(c, 0, Cols - 1)
<1> DEFINE tt == IF origin(u) THEN u.top ELSE 0
           bb == IF origin(u) THEN u.bot ELSE Rows
           v  == draw_cursor(u, FALSE)
           cc == LIMIT(c, 0, Cols - 1)
           w  == [v EXCEPT !.row = LIMIT(r, tt, bb - 1), !.col = cc]
           x  == draw_cursor(w, TRUE)
<1>1. Good(v)
  BY DrawCursorGood
<1>2. Good(w) /\ w.col = cc
  <2>1. tt \in Int /\ bb \in Int /\ 0 <= tt /\ tt <= bb - 1 /\ bb <= Rows
    BY Position
  <2> HIDE DEF tt, bb
  <2>2. LIMIT(r, tt, bb - 1) \in RowIds /\ cc \in ColIds
    BY <2>1 DEF LIMIT, RowIds, ColIds
  <2> HIDE DEF v, cc
  <2> QED  BY <1>1, <2>2, CursorGood DEF Good, TermState
<1>3. Good(x) /\ x.col = cc
  <2> HIDE DEF w, cc
  <2> QED  BY <1>2, DrawCursorGood, DrawCursorFrame DEF Frame
<1>4. move_cursor(u, r, c) = [x EXCEPT !.mode = x.mode \ {"WRAPREADY"}]
  BY DEF move_cursor
<1> HIDE DEF x, cc
<1>5. [x EXCEPT !.mode = x.mode \ {"WRAPREADY"}].col = cc
  BY <1>3 DEF Good, TermState
<1>6. [x EXCEPT !.mode = x.mode \ {"WRAPREADY"}].mode = x.mode \ {"WRAPREADY"}
  BY <1>3 DEF Good, TermState
<1> QED  BY <1>4, <1>5, <1>6 DEF cc

LEMMA AdvancePlain ==
  ASSUME NEW u, Good(u), NEW dr \in Int, NEW dc \in Int, NEW scrl
  PROVE  /\ "WRAPREADY" \notin advance(u, dr, dc, scrl).mode
         /\ advance(u, dr, dc, scrl).col = LIMIT(u.col + dc, 0, Cols - 1)
<1> DEFINE r    == u.row + dr
           down == u.bot - r - 1
           up   == u.top - r
           v == IF dr # 0 /\ r >= u.bot /\ scrl = 1 /\ (u.bot - u.top) + down > 0
                THEN scroll_screen(u, u.top - down, (u.bot - u.top) + down, down) ELSE u
           w == IF dr # 0 /\ r < u.top /\ scrl = 1 /\ (u.bot - u.top) - up > 0
                THEN scroll_screen(v, u.top, (u.bot - u.top) - up, up) ELSE v
           rr == IF dr # 0 THEN LIMIT(r, u.top, u.bot - 1) ELSE r
           cc == LIMIT(u.col + dc, 0, Cols - 1)
<1>1. r \in Int /\ down \in Int /\ up \in Int
  BY Position
<1>2. (u.bot - u.top) + down \in Int /\ (u.bot - u.top) - up \in Int /\ u.top - down \in Int
  BY <1>1, Position
<1>3. Good(v)
  <2>1. CASE r >= u.bot
    <3>1. u.top - down >= 0
      BY <2>1, Position
    <3> HIDE DEF down
    <3> QED  BY <1>1, <1>2, <3>1, ScrollScreenGood
  <2>2. CASE ~(r >= u.bot)
    BY <2>2
  <2> QED  BY <2>1, <2>2
<1>4. Good(w)
  <2> HIDE DEF v, up
  <2> QED  BY <1>1, <1>2, <1>3, Position, ScrollScreenGood
<1>5. rr \in Int /\ cc \in Int /\ LIMIT(cc, 0, Cols - 1) = cc
  BY Position DEF LIMIT
<1>6. advance(u, dr, dc, scrl) = move_cursor(w, rr, cc)
  BY DEF advance
<1> HIDE DEF w, rr, cc
<1>7. "WRAPREADY" \notin move_cursor(w, rr, cc).mode /\ move_cursor(w, rr, cc).col = cc
  BY <1>4, <1>5, MoveCursorPlain
<1> QED  BY <1>6, <1>7 DEF cc

LEMMA AdvanceInRow ==
  ASSUME NEW u, Good(u), NEW dc \in Int, NEW scrl
  PROVE  SameHist(u, advance(u, 0, dc, scrl))
<1>1. 0 \in Int /\ 0 = 0
  OBVIOUS
<1> QED  BY <1>1, AdvanceAppends

LEMMA AdvanceAppending ==
  ASSUME NEW u, Good(u), NEW dr \in Int, NEW dc \in Int, NEW scrl
  PROVE  Appends(u, advance(u, dr, dc, scrl))
BY AdvanceAppends

\* insertchar where no wrap is due: it draws in the cursor's row, and in the last
\* column it makes a wrap due.
LEMMA InsertCharPlain ==
  ASSUME NEW u, Good(u), NEW c \in Glyphs, "WRAPREADY" \notin u.mode
  PROVE  LET w == insertchar(u, c)
         IN  /\ SameHist(u, w)
             /\ u.col # Cols - 1 => "WRAPREADY" \notin w.mode
             /\ u.col = Cols - 1 => /\ "WRAPREADY" \in w.mode /\ w.row = u.row
                                    /\ SameOutside(u, w, Ofs(u.row, 0), Ofs(u.row + 1, 0))
<1> DEFINE b == Shifted(u)
           d == DrawChars(b, c, {b.col})
           e == [d EXCEPT !.mode = @ \cup {"WRAPREADY"}]
           lo == Ofs(u.row, 0)
           hi == Ofs(u.row + 1, 0)
<1>1. Wrapped(u) = u
  BY DEF Wrapped
<1>2. Good(b) /\ Frame(u, b) /\ SameHist(u, b) /\ SameOutside(u, b, lo, hi)
  <2>1. CASE "INSERT" \in u.mode
    <3>1. b = move_chars(u, u.col, Cols - u.col - 1, 1)
      BY <2>1 DEF Shifted, insert_chars
    <3>2. /\ u.col \in Int /\ Cols - u.col - 1 \in Int /\ 0 <= u.col /\ 0 <= Cols - u.col - 1
          /\ u.col + (Cols - u.col - 1) <= Cols /\ 0 <= u.col + 1
          /\ u.col + 1 + (Cols - u.col - 1) <= Cols /\ u.col + 1 <= Cols /\ 0 <= Cols + 1
      BY Position
    <3> HIDE DEF b
    <3> QED  BY <3>1, <3>2, MoveCharsFrame, MoveCharsGood
  <2>2. CASE "INSERT" \notin u.mode
    BY <2>2 DEF Shifted, Frame, SameHist, SameOutside
  <2> QED  BY <2>1, <2>2
<1> HIDE DEF b
<1>3. /\ Good(d) /\ Frame(b, d) /\ SameHist(b, d)
      /\ SameOutside(b, d, Ofs(b.row, 0), Ofs(b.row + 1, 0))
  <2>1. {b.col} \subseteq ColIds
    BY <1>2, Position
  <2> QED  BY <1>2, <2>1, DrawCharsGood, DrawCharsFrame
<1>4. insertchar(u, c) = IF d.col = Cols - 1 THEN e ELSE advance(d, 0, 1, 1)
  BY <1>1 DEF insertchar, b
<1> HIDE DEF d
<1>5. Frame(u, d) /\ SameHist(u, d) /\ SameOutside(u, d, lo, hi)
  BY <1>2, <1>3 DEF Frame, SameHist, SameOutside
<1>6. e.mode = d.mode \cup {"WRAPREADY"} /\ SameHist(d, e) /\ e.row = d.row /\ e.screen = d.screen
  <2>1. d \in TermState
    BY <1>3 DEF Good
  <2> QED  BY <2>1 DEF TermState, SameHist
<1>7. SameHist(d, advance(d, 0, 1, 1)) /\ "WRAPREADY" \notin advance(d, 0, 1, 1).mode
  <2>1. 0 \in Int /\ 1 \in Int
    OBVIOUS
  <2> QED  BY <1>3, <2>1, AdvanceInRow, AdvancePlain, Zenon
<1> HIDE DEF e, lo, hi
<1>8. CASE u.col = Cols - 1
  <2>1. insertchar(u, c) = e
    BY <1>4, <1>5, <1>8 DEF Frame
  <2>2. SameHist(u, e)
    BY <1>5, <1>6 DEF SameHist
  <2>3. "WRAPREADY" \in e.mode /\ e.row = u.row /\ SameOutside(u, e, lo, hi)
    BY <1>5, <1>6 DEF Frame, SameOutside
  <2> QED  BY <1>8, <2>1, <2>2, <2>3 DEF lo, hi
<1>9. CASE u.col # Cols - 1
  <2>1. insertchar(u, c) = advance(d, 0, 1, 1)
    BY <1>4, <1>5, <1>9 DEF Frame
  <2> QED  BY <1>5, <1>7, <1>9, <2>1 DEF SameHist
<1> QED  BY <1>8, <1>9

\* insertchar where a wrap is due: the cursor first goes to the next line.
LEMMA InsertCharWraps ==
  ASSUME NEW u, Good(u), NEW c \in Glyphs, "WRAPREADY" \in u.mode
  PROVE  LET w == insertchar(u, c)
         IN  /\ \/ SameHist(u, w)
                \/ \E k \in 1..Rows : k <= u.row /\ Appended(u, w, k)
             /\ Cols >= 2 => "WRAPREADY" \notin w.mode
<1> DEFINE v == advance(u, 1, -u.col, 1)
           w == insertchar(u, c)
<1>1. -u.col \in Int
  BY Position
<1>2. Good(v) /\ "WRAPREADY" \notin v.mode
  BY <1>1, AdvanceGood, AdvancePlain
<1>3. v.col = 0
  <2>1. v.col = LIMIT(u.col + (-u.col), 0, Cols - 1)
    BY <1>1, AdvancePlain
  <2> QED  BY <2>1, Position DEF LIMIT
<1>4. SameHist(u, v) \/ \E k \in 1..Rows : k <= u.row /\ Appended(u, v, k)
  BY <1>1, AdvanceAppends
<1>5. Wrapped(u) = v
  BY DEF Wrapped
<1> HIDE DEF v
<1>6. Wrapped(v) = v
  BY <1>2 DEF Wrapped
<1>7. w = insertchar(v, c)
  BY <1>5, <1>6 DEF insertchar
<1> HIDE DEF w
<1>8. SameHist(v, w) /\ (Cols >= 2 => "WRAPREADY" \notin w.mode)
  BY <1>2, <1>3, <1>7, InsertCharPlain
<1>9. SameHist(u, w) \/ \E k \in 1..Rows : k <= u.row /\ Appended(u, w, k)
  <2>1. CASE SameHist(u, v)
    BY <1>8, <2>1 DEF SameHist
  <2>2. ASSUME NEW k \in 1..Rows, k <= u.row, Appended(u, v, k)
        PROVE  k <= u.row /\ Appended(u, w, k)
    BY <1>8, <2>2, AppendedSame
  <2> QED  BY <1>4, <2>1, <2>2
<1> QED  BY <1>8, <1>9 DEF w

LEMMA InsertCharAppends ==
  ASSUME NEW u, Good(u), NEW c \in Glyphs
  PROVE  Appends(u, insertchar(u, c))
<1>1. CASE "WRAPREADY" \in u.mode
  BY <1>1, InsertCharWraps DEF Appends
<1>2. CASE "WRAPREADY" \notin u.mode
  BY <1>2, InsertCharPlain DEF Appends
<1> QED  BY <1>1, <1>2

\* insertwide wraps at most once, and the blank it may draw first is not among the
\* rows that leave.
LEMMA InsertWideAppends ==
  ASSUME NEW u, Good(u), NEW c \in WideChars, Cols >= 2
  PROVE  Appends(u, insertwide(u, c))
<1> DEFINE first == u.col + 1 = Cols /\ "WRAPREADY" \notin u.mode
           a == IF first THEN insertchar(u, "") ELSE u
           x == insertchar(a, c)
           y == insertchar(x, DWCHAR[c])
<1>1. "" \in Glyphs /\ c \in Glyphs /\ DWCHAR[c] \in Glyphs
  BY DEF Glyphs
<1>2. u.col = Cols - 1 <=> u.col + 1 = Cols
  BY Position
<1>3. Good(a)
  BY <1>1, InsertCharGood
<1>4. Appends(u, x) /\ "WRAPREADY" \notin x.mode
  <2>1. CASE ~first
    <3>1. a = u
      BY <2>1
    <3>2. "WRAPREADY" \notin u.mode => u.col # Cols - 1
      BY <1>2, <2>1
    <3> QED  BY <1>1, <3>1, <3>2, InsertCharAppends, InsertCharPlain, InsertCharWraps
  <2>2. CASE first
    <3>1. /\ SameHist(u, a) /\ "WRAPREADY" \in a.mode /\ a.row = u.row
          /\ SameOutside(u, a, Ofs(u.row, 0), Ofs(u.row + 1, 0))
      BY <1>1, <1>2, <2>2, InsertCharPlain
    <3> HIDE DEF a
    <3>2. /\ "WRAPREADY" \notin x.mode
          /\ SameHist(a, x) \/ \E k \in 1..Rows : k <= a.row /\ Appended(a, x, k)
      BY <1>1, <1>3, <3>1, InsertCharWraps
    <3> HIDE DEF x
    <3>3. CASE SameHist(a, x)
      BY <3>1, <3>2, <3>3 DEF Appends, SameHist
    <3>4. ASSUME NEW k \in 1..Rows, k <= a.row, Appended(a, x, k)
          PROVE  Appended(u, x, k)
      <4> SUFFICES ASSUME NEW p \in 1..NHIST
                   PROVE  HISTROW(x, p) = IF p > k THEN HISTROW(u, p - k)
                                          ELSE [d \in ColIds |-> u.screen[Ofs(k - p, d)].ch]
        BY DEF Appended
      <4>1. HISTROW(a, p - k) = HISTROW(u, p - k)
        BY <3>1 DEF SameHist, HISTROW
      <4>2. ASSUME ~(p > k), NEW d \in ColIds
            PROVE  a.screen[Ofs(k - p, d)] = u.screen[Ofs(k - p, d)]
        <5>1. k - p \in RowIds /\ k - p \in Int /\ k - p + 1 <= u.row /\ u.row \in Int
          BY <3>1, <3>4, <4>2, Position DEF RowIds
        <5>2. Ofs(k - p, d) \in Cells
          BY <5>1, OfsCell
        <5>3. Ofs(k - p, d) < Ofs(u.row, 0)
          <6>1. (k - p) * Cols \in Int /\ (k - p + 1) * Cols = (k - p) * Cols + Cols
            BY <5>1
          <6>2. (k - p + 1) * Cols <= u.row * Cols /\ u.row * Cols \in Int
            BY <5>1
          <6> QED  BY <6>1, <6>2 DEF Ofs, ColIds
        <5> QED  BY <3>1, <5>2, <5>3 DEF SameOutside
      <4>3. HISTROW(x, p) = IF p > k THEN HISTROW(a, p - k)
                            ELSE [d \in ColIds |-> a.screen[Ofs(k - p, d)].ch]
        BY <3>4 DEF Appended
      <4>4. ~(p > k) => [d \in ColIds |-> a.screen[Ofs(k - p, d)].ch]
                        = [d \in ColIds |-> u.screen[Ofs(k - p, d)].ch]
        BY <4>2
      <4> QED  BY <4>1, <4>3, <4>4
    <3> QED  BY <3>2, <3>3, <3>4 DEF Appends
  <2> QED  BY <2>1, <2>2
<1>5. Good(x)
  <2> HIDE DEF a
  <2> QED  BY <1>1, <1>3, InsertCharGood
<1>6. SameHist(x, y)
  <2> HIDE DEF x
  <2> QED  BY <1>1, <1>4, <1>5, InsertCharPlain
<1>7. insertwide(u, c) = y
  BY DEF insertwide
<1> HIDE DEF x, y
<1>8. CASE SameHist(u, x)
  BY <1>6, <1>7, <1>8 DEF Appends, SameHist
<1>9. CASE \E k \in 1..Rows : Appended(u, x, k)
  BY <1>6, <1>7, <1>9, AppendedSame DEF Appends
<1> QED  BY <1>4, <1>8, <1>9 DEF Appends

\* Drawing, erasing and the cursor leave the history alone.
LEMMA ErasesSameHist ==
  ASSUME NEW u, Good(u)
  PROVE  /\ \A i \in Int, n \in Int : SameHist(u, screen_reset(u, i, n))
         /\ SameHist(u, term_blank(u))
         /\ \A sr \in Int, er \in Int : SameHist(u, blank_rows(u, sr, er))
<1>1. \A i \in Int, n \in Int : SameHist(u, screen_reset(u, i, n))
  BY ScreenResetFrame
<1>2. SameHist(u, term_blank(u))
  <2> DEFINE w == screen_reset(u, 0, Rows * Cols)
             p == [i \in Cells |-> Look("", FGCOLOR, bgcolor(u))]
  <2>1. Good(w) /\ SameHist(u, w)
    BY <1>1, ScreenResetGood
  <2>2. term_blank(u) \in {w, [w EXCEPT !.pad = p]}
    BY DEF term_blank
  <2> HIDE DEF w, p
  <2>3. SameHist(u, [w EXCEPT !.pad = p])
    BY <2>1 DEF Good, TermState, SameHist
  <2> QED  BY <2>1, <2>2, <2>3
<1>3. ASSUME NEW sr \in Int, NEW er \in Int
      PROVE  SameHist(u, blank_rows(u, sr, er))
  <2> DEFINE v == empty_rows(u, sr, er)
             w == draw_rows(v, sr, er)
  <2>1. Good(v) /\ SameHist(u, v)
    BY EmptyRowsGood, EmptyRowsFrame
  <2> HIDE DEF v
  <2>2. Good(w) /\ SameHist(v, w)
    BY <2>1, DrawRowsGood, DrawRowsFrame
  <2> HIDE DEF w
  <2>3. SameHist(w, draw_cursor(w, TRUE))
    BY <2>2, DrawCursorFrame
  <2> QED  BY <2>1, <2>2, <2>3 DEF blank_rows, v, w, SameHist
<1> QED  BY <1>1, <1>2, <1>3

LEMMA KillCharsFrame ==
  ASSUME NEW u, Good(u), NEW sc \in Int, NEW ec \in Int, 0 <= sc, ec <= Cols
  PROVE  SameHist(u, kill_chars(u, sc, ec)) /\ Frame(u, kill_chars(u, sc, ec))
<1> DEFINE v == DrawChars(u, "", sc..(ec - 1))
<1>1. "" \in Glyphs /\ sc..(ec - 1) \subseteq ColIds
  BY DEF Glyphs, ColIds
<1>2. Good(v) /\ SameHist(u, v) /\ Frame(u, v)
  BY <1>1, DrawCharsGood, DrawCharsFrame
<1> HIDE DEF v
<1>3. SameHist(v, draw_cursor(v, TRUE)) /\ Frame(v, draw_cursor(v, TRUE))
  BY <1>2, DrawCursorFrame
<1> QED  BY <1>2, <1>3 DEF kill_chars, v, SameHist, Frame

LEMMA SameHistAppends ==
  ASSUME NEW u, NEW w, SameHist(u, w)
  PROVE  Appends(u, w)
BY DEF Appends

LEMMA ControlAppends ==
  ASSUME NEW u, Good(u), NEW s
  PROVE  Appends(u, ctlseq(u, s))
<1>1. -u.col \in Int /\ 8 - (u.col % 8) \in Int /\ -1 \in Int
  BY Position
<1>2. (IF "AUTOCR" \in u.mode THEN -u.col ELSE 0) \in Int
  BY <1>1
<1>3. /\ Appends(u, advance(u, 0, 8 - (u.col % 8), 0)) /\ Appends(u, advance(u, 0, -1, 0))
      /\ Appends(u, advance(u, 0, -u.col, 0)) /\ Appends(u, advance(u, -1, 0, 1))
      /\ Appends(u, advance(u, 1, 0, 1)) /\ Appends(u, advance(u, 1, -u.col, 1))
  BY <1>1, AdvanceAppending
<1>4. Appends(u, advance(u, 1, IF "AUTOCR" \in u.mode THEN -u.col ELSE 0, 1))
  BY <1>2, AdvanceAppending
<1>5. Appends(u, misc_save(u)) /\ Appends(u, misc_load(u)) /\ Appends(u, u)
  <2>1. SameHist(u, misc_save(u)) /\ SameHist(u, misc_load(u)) /\ SameHist(u, u)
    BY DEF misc_save, misc_load, Good, TermState, SameHist
  <2> QED  BY <2>1, SameHistAppends
<1>6. Appends(u, term_reset(u))
  <2> DEFINE v == [u EXCEPT !.row = 0, !.col = 0, !.top = 0, !.bot = Rows,
                            !.mode = {"CURSOR", "WRAP"}, !.fg = FGCOLOR, !.bg = BGCOLOR]
  <2>1. Good(v) /\ SameHist(u, v)
    <3>1. 0 \in RowIds /\ 0 \in ColIds /\ Rows \in 1..Rows /\ 0 < Rows
      BY DEF RowIds, ColIds
    <3>2. {"CURSOR", "WRAP"} \in SUBSET Modes /\ FGCOLOR \in Colors /\ BGCOLOR \in Colors
      BY TermData DEF Modes
    <3> QED  BY <3>1, <3>2 DEF Good, TermState, SameHist
  <2>2. term_reset(u) = term_blank(v)
    BY DEF term_reset
  <2> HIDE DEF v
  <2>3. SameHist(v, term_blank(v))
    BY <2>1, ErasesSameHist
  <2> QED  BY <2>1, <2>2, <2>3, SameHistAppends DEF SameHist
<1> QED  BY <1>3, <1>4, <1>5, <1>6 DEF ctlseq

LEMMA CsiAppends ==
  ASSUME NEW u, Good(u), NEW s \in [seq : STRING, a : Nat, b : Nat]
  PROVE  Appends(u, csiseq(u, s))
<1> DEFINE g == Given(s.a)
<1>1. /\ s.a \in Nat /\ s.b \in Nat /\ g \in Int /\ g >= 1
      /\ u.row \in Int /\ u.col \in Int /\ 0 <= u.row /\ u.row < Rows /\ 0 <= u.col /\ u.col < Cols
      /\ u.top \in Int
  BY Position DEF Given, Greater
<1>2. Appends(u, u)
  BY SameHistAppends DEF SameHist
<1>3. ASSUME NEW r \in Int, NEW c \in Int
      PROVE  Appends(u, move_cursor(u, r, c))
  BY MoveCursorFrame, SameHistAppends
<1>4. ASSUME NEW dr \in Int, NEW dc \in Int
      PROVE  Appends(u, advance(u, dr, dc, 0))
  BY AdvanceAppends
<1>5. \A sc, ec \in Int : 0 <= sc /\ ec <= Cols =>
        Good(kill_chars(u, sc, ec)) /\ SameHist(u, kill_chars(u, sc, ec))
  BY KillCharsGood, KillCharsFrame
<1>6. CASE s.seq \in {"CUP", "VPA"}
  <2>1. /\ absrow(u, Greater(0, s.a - 1)) \in Int /\ Greater(0, s.b - 1) \in Int
        /\ absrow(u, g - 1) \in Int
    BY <1>1 DEF absrow, Greater
  <2>2. /\ Appends(u, move_cursor(u, absrow(u, Greater(0, s.a - 1)), Greater(0, s.b - 1)))
        /\ Appends(u, move_cursor(u, absrow(u, g - 1), u.col))
    BY <1>1, <1>3, <2>1
  <2>3. s.seq = "CUP" \/ s.seq = "VPA"
    BY <1>6
  <2> QED  BY <2>2, <2>3 DEF csiseq
<1>7. CASE s.seq \in {"CUU", "CUD", "CUF", "CUB", "CHA"}
  <2>1. -g \in Int /\ Greater(0, s.a - 1) - u.col \in Int
    BY <1>1 DEF Greater
  <2>2. /\ Appends(u, advance(u, -g, 0, 0)) /\ Appends(u, advance(u, g, 0, 0))
        /\ Appends(u, advance(u, 0, g, 0)) /\ Appends(u, advance(u, 0, -g, 0))
        /\ Appends(u, advance(u, 0, Greater(0, s.a - 1) - u.col, 0))
    BY <1>1, <1>4, <2>1
  <2>3. s.seq = "CUU" \/ s.seq = "CUD" \/ s.seq = "CUF" \/ s.seq = "CUB" \/ s.seq = "CHA"
    BY <1>7
  <2> QED  BY <2>2, <2>3 DEF csiseq
<1>8. CASE s.seq \in {"ED", "EL", "ECH"}
  <2>1. /\ Lesser(u.col + g, Cols) \in Int /\ Lesser(u.col + g, Cols) <= Cols /\ u.col + 1 \in Int
        /\ u.col + 1 <= Cols /\ u.row + 1 \in Int /\ u.row - 1 \in Int
    BY <1>1 DEF Lesser
  <2>2. /\ Good(kill_chars(u, u.col, Cols)) /\ SameHist(u, kill_chars(u, u.col, Cols))
        /\ Good(kill_chars(u, 0, u.col + 1)) /\ SameHist(u, kill_chars(u, 0, u.col + 1))
        /\ SameHist(u, kill_chars(u, 0, Cols))
        /\ SameHist(u, kill_chars(u, u.col, Lesser(u.col + g, Cols)))
    BY <1>1, <1>5, <2>1
  <2>3. SameHist(u, blank_rows(kill_chars(u, u.col, Cols), u.row + 1, Rows))
    BY <2>1, <2>2, ErasesSameHist DEF SameHist
  <2>4. SameHist(u, blank_rows(kill_chars(u, 0, u.col + 1), 0, u.row - 1))
    BY <2>1, <2>2, ErasesSameHist DEF SameHist
  <2>5. SameHist(u, EraseDisplay(u, s.a))
    BY <2>3, <2>4, ErasesSameHist DEF EraseDisplay, SameHist
  <2>6. SameHist(u, EraseLine(u, s.a))
    BY <2>2 DEF EraseLine, SameHist
  <2>7. s.seq = "ED" \/ s.seq = "EL" \/ s.seq = "ECH"
    BY <1>8
  <2>8. SameHist(u, csiseq(u, s))
    BY <2>2, <2>5, <2>6, <2>7 DEF csiseq
  <2> QED  BY <2>8, SameHistAppends
<1>9. CASE s.seq \in {"IL", "DL", "SU", "SD"}
  <2>1. ASSUME NEW sr \in Int, NEW nr \in Int, NEW n \in Int, sr >= 0, n # 0
        PROVE  Appends(u, scroll_screen(u, sr, nr, n))
    <3>1. \/ SameHist(u, scroll_screen(u, sr, nr, n))
          \/ sr + n = 0 /\ 1 <= sr /\ sr <= Rows /\ Appended(u, scroll_screen(u, sr, nr, n), sr)
      BY <2>1, ScrollScreenAppends
    <3> QED  BY <3>1 DEF Appends
  <2>2. Appends(u, insert_lines(u, g)) /\ Appends(u, delete_lines(u, g))
    <3> DEFINE r == Greater(u.top, u.row)
    <3>1. /\ r \in Int /\ r >= 0 /\ r + g \in Int /\ r + g >= 0 /\ -g \in Int /\ -g # 0 /\ g # 0
          /\ u.bot - u.row - g \in Int /\ u.bot - r - g \in Int
      BY <1>1, Position DEF Greater
    <3> HIDE DEF r, g
    <3>2. Appends(u, scroll_screen(u, r, u.bot - u.row - g, g))
      BY <1>1, <2>1, <3>1
    <3>3. Appends(u, scroll_screen(u, r + g, u.bot - r - g, -g))
      BY <1>1, <2>1, <3>1
    <3> QED  BY <1>2, <3>2, <3>3 DEF insert_lines, delete_lines, r
  <2>3. Appends(u, scroll_screen(u, g, Rows - g, -g)) /\ Appends(u, scroll_screen(u, 0, Rows - g, g))
    <3>1. g >= 0 /\ g # 0 /\ -g # 0 /\ -g \in Int /\ Rows - g \in Int
      BY <1>1
    <3> HIDE DEF g
    <3> QED  BY <1>1, <2>1, <3>1
  <2>4. s.seq = "IL" \/ s.seq = "DL" \/ s.seq = "SU" \/ s.seq = "SD"
    BY <1>9
  <2> QED  BY <1>2, <2>2, <2>3, <2>4 DEF csiseq
<1>10. CASE s.seq \in {"DCH", "ICH"}
  <2>1. LIMIT(s.a, 1, Cols - u.col) \in 1..(Cols - u.col)
    BY <1>1 DEF LIMIT
  <2>2. ASSUME NEW n \in 1..(Cols - u.col)
        PROVE  SameHist(u, delete_chars(u, n)) /\ SameHist(u, insert_chars(u, n))
    <3>1. /\ u.col + n \in Int /\ Cols - (u.col + n) \in Int /\ -n \in Int
          /\ 0 <= u.col + n /\ 0 <= Cols - (u.col + n)
          /\ u.col + n + (Cols - (u.col + n)) <= Cols /\ 0 <= u.col + n + (-n)
          /\ u.col + n + (-n) + (Cols - (u.col + n)) <= Cols /\ u.col + n + (-n) <= Cols
          /\ 0 <= Cols + (-n)
      BY <1>1
    <3>2. /\ n \in Int /\ Cols - u.col - n \in Int /\ 0 <= Cols - u.col - n
          /\ u.col + (Cols - u.col - n) <= Cols
          /\ u.col + n + (Cols - u.col - n) <= Cols /\ u.col + n <= Cols /\ 0 <= Cols + n
      BY <1>1
    <3>3. SameHist(u, move_chars(u, u.col + n, Cols - (u.col + n), -n))
      BY <3>1, MoveCharsFrame
    <3>4. SameHist(u, move_chars(u, u.col, Cols - u.col - n, n))
      BY <1>1, <3>1, <3>2, MoveCharsFrame
    <3> QED  BY <3>3, <3>4 DEF delete_chars, insert_chars
  <2>3. s.seq = "DCH" \/ s.seq = "ICH"
    BY <1>10
  <2>4. SameHist(u, csiseq(u, s))
    BY <2>1, <2>2, <2>3 DEF csiseq
  <2> QED  BY <2>4, SameHistAppends
<1>11. CASE s.seq = "SGR"
  <2>1. SameHist(u, setattr(u, s.a))
    BY DEF setattr, Good, TermState, SameHist
  <2> QED  BY <1>11, <2>1, SameHistAppends DEF csiseq
<1>12. CASE s.seq = "STBM"
  <2> DEFINE tp == LIMIT(s.a - 1, 0, Rows - 1)
             bt == LIMIT(IF s.b = 0 THEN Rows ELSE s.b, tp + 1, Rows)
             w  == [u EXCEPT !.top = tp, !.bot = bt]
  <2>1. tp \in RowIds /\ tp \in Int /\ tp + 1 <= Rows
    BY <1>1 DEF LIMIT, RowIds
  <2>2. bt \in 1..Rows /\ tp < bt
    <3> HIDE DEF tp
    <3> QED  BY <1>1, <2>1 DEF LIMIT, RowIds
  <2>3. Good(w) /\ SameHist(u, w)
    <3> HIDE DEF tp, bt
    <3> QED  BY <2>1, <2>2 DEF Good, TermState, SameHist
  <2>4. csiseq(u, s) \in {w, move_cursor(w, tp, 0)}
    BY <1>12 DEF csiseq, set_region
  <2> HIDE DEF w, tp
  <2>5. SameHist(w, move_cursor(w, tp, 0))
    BY <2>1, <2>3, MoveCursorFrame
  <2>6. SameHist(u, csiseq(u, s))
    BY <2>3, <2>4, <2>5 DEF SameHist
  <2> QED  BY <2>6, SameHistAppends
<1>13. CASE s.seq \notin {"CUP", "VPA", "CUU", "CUD", "CUF", "CUB", "CHA", "ED", "EL", "ECH", "IL",
                          "DL", "SU", "SD", "DCH", "ICH", "SGR", "STBM"}
  BY <1>2, <1>13 DEF csiseq
<1> HIDE DEF g
<1> QED  BY <1>6, <1>7, <1>8, <1>9, <1>10, <1>11, <1>12, <1>13

\* What shows the terminal, scrolls its view or hides it leaves the history alone.
LEMMA ShowsSameHist ==
  ASSUME NEW u, Good(u)
  PROVE  /\ SameHist(u, lazy_flush(u)) /\ \A n \in Int : SameHist(u, term_scrl(u, n))
         /\ SameHist(u, RedrawChanged(u)) /\ SameHist(u, term_save(u)) /\ SameHist(u, Show(u))
<1>1. ASSUME NEW v, Good(v)
      PROVE  SameHist(v, lazy_flush(v))
  <2> DEFINE w == DrawCells(v, InRows(v.dirty))
             x == IF v.row \in v.dirty THEN DrawPos(w, v.row, v.col, TRUE) ELSE w
  <2>1. Good(w) /\ SameHist(v, w)
    BY <1>1, DrawCellsGood, DrawCellsFrame
  <2>2. lazy_flush(v) \in {v, [x EXCEPT !.lazy = FALSE, !.hpos = 0]}
    BY DEF lazy_flush
  <2> HIDE DEF w
  <2>3. Good(x) /\ SameHist(w, x)
    <3>1. Good(DrawPos(w, v.row, v.col, TRUE))
      BY <1>1, <2>1, Position, DrawPosGood
    <3>2. SameHist(w, DrawPos(w, v.row, v.col, TRUE))
      BY <2>1 DEF DrawPos, Good, TermState, SameHist
    <3> QED  BY <2>1, <3>1, <3>2 DEF SameHist
  <2> HIDE DEF x
  <2>4. SameHist(x, [x EXCEPT !.lazy = FALSE, !.hpos = 0])
    BY <2>3 DEF Good, TermState, SameHist
  <2> QED  BY <2>1, <2>2, <2>3, <2>4 DEF SameHist
<1>2. ASSUME NEW n \in Int
      PROVE  SameHist(u, term_scrl(u, n))
  <2>1. CASE LIMIT(u.hpos + n, 0, NHIST) = 0
    <3>1. term_scrl(u, n) = lazy_flush([u EXCEPT !.hpos = 0])
      BY <2>1 DEF term_scrl
    <3>2. Good([u EXCEPT !.hpos = 0]) /\ SameHist(u, [u EXCEPT !.hpos = 0])
      <4>1. 0 \in 0..NHIST
        OBVIOUS
      <4> QED  BY <4>1 DEF Good, TermState, SameHist
    <3> QED  BY <1>1, <3>1, <3>2 DEF SameHist
  <2>2. CASE LIMIT(u.hpos + n, 0, NHIST) # 0
    BY <2>2 DEF term_scrl, Good, TermState, SameHist
  <2> QED  BY <2>1, <2>2
<1>3. SameHist(u, RedrawChanged(u))
  BY <1>1 DEF RedrawChanged, SameHist
<1>4. SameHist(u, term_save(u))
  BY DEF term_save, lazy_start, Good, TermState, SameHist
<1>5. SameHist(u, Show(u))
  <2> DEFINE v == [[u EXCEPT !.visible = TRUE] EXCEPT !.lazy = TRUE, !.dirty = RowIds]
  <2>1. Good(v) /\ SameHist(u, v)
    BY DEF Good, TermState, SameHist
  <2>2. Show(u) = lazy_flush(v)
    BY DEF Show, RedrawAll
  <2> HIDE DEF v
  <2> QED  BY <1>1, <2>1, <2>2 DEF SameHist
<1> QED  BY <1>1, <1>2, <1>3, <1>4, <1>5

\* term.c, scrl_rows and HISTROW: on a screen and with a history of any size, every
\* step leaves the history alone or appends the uppermost rows in their order.  On
\* a screen of one column a wide character may wrap, and so scroll, twice.
THEOREM HistoryIsQueue ==
  ASSUME WideChars = {} \/ Cols >= 2
  PROVE  TermSpec => HistoryOrder
<1>1. TermSpec => []Good(t)
  <2>1. TermInit => Good(t)
    BY TermResetGood DEF TermInit
  <2>2. Good(t) /\ [TermNext]_t => Good(t)'
    BY StepGood
  <2> QED  BY <2>1, <2>2, PTL DEF TermSpec
<1> DEFINE A == \/ t'.hist = t.hist /\ t'.hrow = t.hrow
                \/ \E k \in 1..Rows : \A p \in 1..NHIST :
                     HISTROW(t', p) = IF p > k THEN HISTROW(t, p - k)
                                      ELSE [c \in ColIds |-> t.screen[Ofs(k - p, c)].ch]
<1>2. Good(t) /\ TermNext => Appends(t, t')
  <2> SUFFICES ASSUME Good(t), TermNext
               PROVE  Appends(t, t')
    OBVIOUS
  <2>1. ASSUME NEW u \in Starts, NEW w, Good(w), Appends(u, w), t' = Reading(w)
        PROVE  Appends(t, t')
    <3>1. SameHist(w, t')
      BY <2>1, ReadingFrame
    <3>2. SameHist(t, u) /\ u.screen = t.screen
      BY StartsFrame
    <3>3. CASE SameHist(u, w)
      BY <3>1, <3>2, <3>3 DEF Appends, SameHist
    <3>4. ASSUME NEW k \in 1..Rows, Appended(u, w, k)
          PROVE  Appended(t, t', k)
      <4>1. Appended(u, t', k)
        BY <3>1, <3>4, AppendedSame
      <4>2. \A p : HISTROW(u, p) = HISTROW(t, p)
        BY <3>2 DEF SameHist, HISTROW
      <4> QED  BY <3>2, <4>1, <4>2 DEF Appended
    <3> QED  BY <2>1, <3>3, <3>4 DEF Appends
  <2>2. ASSUME NEW c \in Chars, PutChar(c)
        PROVE  Appends(t, t')
    <3>1. PICK u \in Starts : t' = Reading(insertchar(u, c))
      BY <2>2 DEF PutChar
    <3>2. c \in Glyphs
      BY DEF Glyphs
    <3> QED  BY <2>1, <3>1, <3>2, StartsGood, InsertCharGood, InsertCharAppends
  <2>3. ASSUME NEW c \in WideChars, PutWide(c)
        PROVE  Appends(t, t')
    <3>1. PICK u \in Starts : t' = Reading(insertwide(u, c))
      BY <2>3 DEF PutWide
    <3>2. Cols >= 2
      OBVIOUS
    <3> QED  BY <2>1, <3>1, <3>2, StartsGood, InsertWideGood, InsertWideAppends
  <2>4. ASSUME NEW s \in Controls, Control(s)
        PROVE  Appends(t, t')
    <3>1. PICK u \in Starts : t' = Reading(ctlseq(u, s))
      BY <2>4 DEF Control
    <3> QED  BY <2>1, <3>1, StartsGood, ControlGood, ControlAppends
  <2>5. ASSUME NEW s \in CsiArgs, Csi(s)
        PROVE  Appends(t, t')
    <3>1. PICK u \in Starts : t' = Reading(csiseq(u, s))
      BY <2>5 DEF Csi
    <3>2. s \in [seq : STRING, a : Nat, b : Nat]
      BY TermInput
    <3> QED  BY <2>1, <3>1, <3>2, StartsGood, CsiGood, CsiAppends
  <2>6. ASSUME NEW m \in ModeSeqs, NEW set, Mode(m, set)
        PROVE  Appends(t, t')
    <3>1. PICK u \in Starts : t' = Reading(modeseq(u, m, set))
      BY <2>6 DEF Mode
    <3> DEFINE v == [u EXCEPT !.mode = BIT_SET(@, m, set)]
    <3>2. Good(u)
      BY StartsGood
    <3>3. BIT_SET(u.mode, m, set) \in SUBSET Modes
      BY <3>2, TermInput DEF BIT_SET, Good, TermState
    <3>4. Good(v) /\ SameHist(u, v)
      <4> HIDE DEF Modes
      <4> QED  BY <3>2, <3>3 DEF Good, TermState, SameHist
    <3>5. modeseq(u, m, set) = draw_cursor(v, TRUE)
      BY DEF modeseq
    <3> HIDE DEF v
    <3>6. SameHist(u, modeseq(u, m, set)) /\ Good(modeseq(u, m, set))
      BY <3>4, <3>5, DrawCursorGood, DrawCursorFrame DEF SameHist
    <3> QED  BY <2>1, <3>1, <3>6, SameHistAppends
  <2>7. CASE EndRead
    <3>1. Good(lazy_flush(t)) /\ SameHist(t, lazy_flush(t))
      BY LazyFlushGood, ShowsSameHist
    <3>2. SameHist(t, [lazy_flush(t) EXCEPT !.reading = FALSE])
      BY <3>1 DEF Good, TermState, SameHist
    <3> QED  BY <2>7, <3>2, SameHistAppends DEF EndRead
  <2>8. ASSUME NEW n \in ScrlSteps, Scrl(n)
        PROVE  Appends(t, t')
    <3>1. n \in Int
      BY TermInput
    <3>2. SameHist(t, term_scrl(t, n))
      BY <3>1, ShowsSameHist
    <3> QED  BY <2>8, <3>2, SameHistAppends DEF Scrl
  <2>9. CASE Redraw
    BY <2>9, ShowsSameHist, SameHistAppends DEF Redraw
  <2>10. CASE Hide
    BY <2>10, ShowsSameHist, SameHistAppends DEF Hide
  <2>11. CASE Unhide
    BY <2>11, ShowsSameHist, SameHistAppends DEF Unhide
  <2>12. CASE Crashed
    BY <2>12 DEF Crashed, Appends, SameHist
  <2> QED
    BY <2>2, <2>3, <2>4, <2>5, <2>6, <2>7, <2>8, <2>9, <2>10, <2>11, <2>12 DEF TermNext
<1>3. Appends(t, t') => A
  BY DEF Appends, Appended, SameHist
<1>4. Good(t) /\ [TermNext]_t => [A]_t
  BY <1>2, <1>3
<1> QED  BY <1>1, <1>4, PTL DEF TermSpec, HistoryOrder

-----------------------------------------------------------------------------
(* The picture is never behind the screen *)

\* Outside S the pad shows the screen or will be drawn; in C it may be reversed.
Kept(u, S, C) ==
  (u.visible /\ ~u.wild) =>
    \A i \in Cells \ S :
      \/ u.lazy /\ RowOf(i) \in u.dirty
      \/ u.pad[i] = Image(u.screen[i], FALSE)
      \/ i \in C /\ u.pad[i] = Image(u.screen[i], TRUE)

LEMMA SettledIsKept ==
  ASSUME NEW u
  PROVE  Settled(u) <=> Kept(u, {}, {CursorCell(u)})
BY DEF Settled, Kept

LEMMA KeptWider ==
  ASSUME NEW u, NEW S, NEW S2, NEW C, NEW C2, Kept(u, S, C), Cells \cap S \subseteq S2, C \subseteq C2
  PROVE  Kept(u, S2, C2)
BY DEF Kept

LEMMA KeptIn ==
  ASSUME NEW u, NEW S, NEW S2, NEW C, Kept(u, S, C), Cells \cap S \subseteq S2
  PROVE  Kept(u, S2, C)
BY DEF Kept

LEMMA WildKept ==
  ASSUME NEW u, u.wild, NEW S, NEW C
  PROVE  Kept(u, S, C)
BY DEF Kept

\* What a step does not touch, it does not spoil.
LEMMA SameKept ==
  ASSUME NEW u, NEW w, NEW S, NEW C, Kept(u, S, C), w.screen = u.screen, w.pad = u.pad,
         w.dirty = u.dirty, w.lazy = u.lazy, w.visible = u.visible, w.wild = u.wild
  PROVE  Kept(w, S, C)
BY DEF Kept

LEMMA NotedKept ==
  ASSUME NEW u, Good(u), NEW S, NEW C, Kept(u, S, C), NEW sr \in Int, NEW er \in Int
  PROVE  /\ Kept(Noted(u, sr, er), S, C)
         /\ u.lazy => Kept(Noted(u, sr, er), S \ InRows(sr..(er - 1)), C)
         /\ u.wild => Noted(u, sr, er).wild
<1> DEFINE w == Noted(u, sr, er)
<1>1. CASE ~u.lazy
  BY <1>1 DEF Noted
<1>2. CASE u.lazy
  <2>1. /\ w.dirty = u.dirty \cup (RowIds \cap sr..(er - 1))
        /\ w.wild = (u.wild \/ ~(sr..(er - 1) \subseteq RowIds))
        /\ w.screen = u.screen /\ w.pad = u.pad /\ w.lazy = u.lazy /\ w.visible = u.visible
    BY <1>2 DEF Noted, Good, TermState
  <2> HIDE DEF w
  <2>2. ASSUME w.visible, ~w.wild, NEW i \in Cells \ (S \ InRows(sr..(er - 1)))
        PROVE  \/ w.lazy /\ RowOf(i) \in w.dirty
               \/ w.pad[i] = Image(w.screen[i], FALSE)
               \/ i \in C /\ w.pad[i] = Image(w.screen[i], TRUE)
    <3>1. CASE i \in InRows(sr..(er - 1))
      <4>1. RowOf(i) \in sr..(er - 1) /\ sr..(er - 1) \subseteq RowIds
        BY <2>1, <2>2, <3>1 DEF InRows
      <4> QED  BY <1>2, <2>1, <4>1
    <3>2. CASE i \in Cells \ S
      BY <2>1, <2>2, <3>2 DEF Kept
    <3> QED  BY <2>2, <3>1, <3>2
  <2>3. Kept(w, S \ InRows(sr..(er - 1)), C)
    BY <2>2 DEF Kept
  <2>4. Cells \cap (S \ InRows(sr..(er - 1))) \subseteq S
    OBVIOUS
  <2>5. Kept(w, S, C)
    BY <2>3, <2>4, KeptWider
  <2> QED  BY <1>2, <2>1, <2>3, <2>5 DEF w
<1> QED  BY <1>1, <1>2

LEMMA DrawCellsKept ==
  ASSUME NEW u, Good(u), NEW S, NEW C, Kept(u, S, C), NEW D
  PROVE  /\ Kept(DrawCells(u, D), S \ D, C)
         /\ DrawCells(u, D).wild = u.wild
<1> DEFINE w == DrawCells(u, D)
           p == [i \in Cells |-> IF i \in D THEN Image(u.screen[i], FALSE) ELSE u.pad[i]]
<1>1. /\ w.pad = p /\ w.screen = u.screen /\ w.dirty = u.dirty /\ w.lazy = u.lazy
      /\ w.visible = u.visible /\ w.wild = u.wild
  <2>1. w = [u EXCEPT !.pad = p]
    BY DEF DrawCells
  <2> HIDE DEF w, p
  <2> QED  BY <2>1 DEF Good, TermState
<1>2. \A i \in Cells : w.pad[i] = IF i \in D THEN Image(u.screen[i], FALSE) ELSE u.pad[i]
  BY <1>1
<1> HIDE DEF w
<1> QED  BY <1>1, <1>2 DEF Kept, w

\* draw_rows and draw_cols make up for what was changed.
LEMMA DrawRowsKept ==
  ASSUME NEW u, Good(u), NEW S, NEW C, Kept(u, S, C), NEW sr \in Int, NEW er \in Int
  PROVE  /\ Kept(draw_rows(u, sr, er), S \ InRows(sr..(er - 1)), C)
         /\ u.wild => draw_rows(u, sr, er).wild
<1>1. CASE Drawable(u)
  BY <1>1, DrawCellsKept DEF draw_rows
<1>2. CASE ~Drawable(u) /\ u.lazy
  BY <1>2, NotedKept DEF draw_rows
<1>3. CASE ~u.visible /\ ~u.lazy
  <2>1. draw_rows(u, sr, er) = u
    BY <1>3 DEF draw_rows, Drawable, Noted
  <2> QED  BY <1>3, <2>1 DEF Kept
<1>4. u.visible \in BOOLEAN /\ u.lazy \in BOOLEAN
  BY DEF Good, TermState
<1> QED  BY <1>1, <1>2, <1>3, <1>4 DEF Drawable

\* A cell lies in the row it is counted from.
LEMMA RowOfCell ==
  ASSUME NEW r \in RowIds, NEW c \in ColIds
  PROVE  RowOf(Ofs(r, c)) = r
<1>1. Ofs(r, c) \in Int /\ 0 <= Ofs(r, c) /\ r \in Int /\ r + 1 \in Int
  BY OfsCell DEF Cells, RowIds
<1>2. RowOf(Ofs(r, c)) \in Int
  BY <1>1, RowOfInt
<1>3. /\ RowOf(Ofs(r, c)) < r <=> Ofs(r, c) < Ofs(r, 0)
      /\ RowOf(Ofs(r, c)) < r + 1 <=> Ofs(r, c) < Ofs(r + 1, 0)
  BY <1>1, RowOfOfs
<1>4. ~(Ofs(r, c) < Ofs(r, 0)) /\ Ofs(r, c) < Ofs(r + 1, 0)
  <2>1. r * Cols \in Int /\ (r + 1) * Cols = r * Cols + Cols
    BY <1>1
  <2> QED  BY <2>1 DEF Ofs, ColIds
<1> QED  BY <1>1, <1>2, <1>3, <1>4

\* The cells of whole rows.
LEMMA CellsOfRows ==
  ASSUME NEW sr \in Int, NEW er \in Int
  PROVE  Cells \cap (Ofs(sr, 0)..(Ofs(er, 0) - 1)) \subseteq InRows(sr..(er - 1))
<1> SUFFICES ASSUME NEW i \in Cells, i \in Ofs(sr, 0)..(Ofs(er, 0) - 1)
             PROVE  RowOf(i) \in sr..(er - 1)
  BY DEF InRows
<1>1. i \in Int /\ 0 <= i /\ RowOf(i) \in Int /\ Ofs(sr, 0) \in Int /\ Ofs(er, 0) \in Int
  BY RowOfInt, OfsRows DEF Cells
<1>2. /\ RowOf(i) < sr <=> i < Ofs(sr, 0)
      /\ RowOf(i) < er <=> i < Ofs(er, 0)
  BY <1>1, RowOfOfs
<1>3. ~(i < Ofs(sr, 0)) /\ i < Ofs(er, 0)
  BY <1>1
<1> QED  BY <1>1, <1>2, <1>3

LEMMA DrawColsKept ==
  ASSUME NEW u, Good(u), NEW S, NEW C, Kept(u, S, C), NEW r \in RowIds,
         NEW sc \in Int, NEW ec \in Int, 0 <= sc, ec <= Cols
  PROVE  /\ Kept(draw_cols(u, r, sc, ec), S \ (Ofs(r, sc)..(Ofs(r, ec) - 1)), C)
         /\ u.wild => draw_cols(u, r, sc, ec).wild
<1> DEFINE D == Ofs(r, sc)..(Ofs(r, ec) - 1)
<1>1. CASE Drawable(u)
  BY <1>1, DrawCellsKept DEF draw_cols
<1>2. CASE ~Drawable(u) /\ u.lazy
  <2> DEFINE q == r + 1
  <2>1. r \in Int /\ q \in Int
    BY DEF RowIds
  <2>2. /\ Ofs(r, 0) \in Int /\ Ofs(r, sc) \in Int /\ Ofs(r, ec) \in Int
        /\ Ofs(r, 0) <= Ofs(r, sc) /\ Ofs(r, ec) <= Ofs(q, 0) /\ Ofs(q, 0) \in Int
    <3>1. r * Cols \in Int /\ (r + 1) * Cols = r * Cols + Cols
      BY <2>1
    <3> QED  BY <3>1 DEF Ofs
  <2>3. draw_cols(u, r, sc, ec) = Noted(u, r, q)
    BY <1>2 DEF draw_cols
  <2> HIDE DEF q
  <2>4. Cells \cap D \subseteq InRows(r..(q - 1))
    <3>1. D \subseteq Ofs(r, 0)..(Ofs(q, 0) - 1)
      BY <2>2
    <3>2. Cells \cap (Ofs(r, 0)..(Ofs(q, 0) - 1)) \subseteq InRows(r..(q - 1))
      BY <2>1, CellsOfRows
    <3> HIDE DEF D
    <3> QED  BY <3>1, <3>2
  <2>5. /\ Kept(Noted(u, r, q), S \ InRows(r..(q - 1)), C)
        /\ u.wild => Noted(u, r, q).wild
    BY <1>2, <2>1, NotedKept
  <2> HIDE DEF D
  <2>6. Kept(Noted(u, r, q), S \ D, C)
    <3>1. Cells \cap (S \ InRows(r..(q - 1))) \subseteq S \ D
      BY <2>4
    <3> QED  BY <2>5, <3>1, KeptWider
  <2> QED  BY <2>3, <2>5, <2>6 DEF D
<1>3. CASE ~u.visible /\ ~u.lazy
  <2>1. draw_cols(u, r, sc, ec) = u
    BY <1>3 DEF draw_cols, Drawable, Noted
  <2> QED  BY <1>3, <2>1 DEF Kept
<1>4. u.visible \in BOOLEAN /\ u.lazy \in BOOLEAN
  BY DEF Good, TermState
<1> QED  BY <1>1, <1>2, <1>3, <1>4 DEF Drawable

\* w came of u by drawing the cell o, reversed perhaps.
DrawnAt(u, w, o) ==
  /\ \A i \in Cells : i # o => w.pad[i] = u.pad[i]
  /\ w.pad[o] = Image(u.screen[o], FALSE) \/ w.pad[o] = Image(u.screen[o], TRUE)
  /\ w.screen = u.screen /\ w.dirty = u.dirty /\ w.lazy = u.lazy
  /\ w.visible = u.visible /\ w.wild = u.wild /\ w.row = u.row /\ w.col = u.col

LEMMA DrawPosPad ==
  ASSUME NEW u, Good(u), NEW r \in RowIds, NEW c \in ColIds, NEW put \in BOOLEAN
  PROVE  /\ DrawnAt(u, DrawPos(u, r, c, put), Ofs(r, c))
         /\ ~put => DrawPos(u, r, c, put).pad[Ofs(r, c)] = Image(u.screen[Ofs(r, c)], FALSE)
<1> DEFINE w == DrawPos(u, r, c, put)
           o == Ofs(r, c)
           g == Image(u.screen[o], put /\ "CURSOR" \in u.mode)
<1>1. o \in Cells
  BY OfsCell
<1>2. w = [u EXCEPT !.pad[o] = g]
  BY DEF DrawPos
<1>3. /\ ~put => g = Image(u.screen[o], FALSE)
      /\ g \in {Image(u.screen[o], FALSE), Image(u.screen[o], TRUE)}
  BY DEF Image
<1> HIDE DEF w, o, g
<1>4. /\ w.pad = [u.pad EXCEPT ![o] = g]
      /\ w.screen = u.screen /\ w.dirty = u.dirty /\ w.lazy = u.lazy
      /\ w.visible = u.visible /\ w.wild = u.wild /\ w.row = u.row /\ w.col = u.col
  BY <1>2 DEF Good, TermState
<1>5. u.pad \in [Cells -> Looks]
  BY DEF Good, TermState, Looks
<1>6. w.pad[o] = g /\ \A i \in Cells : i # o => w.pad[i] = u.pad[i]
  BY <1>1, <1>4, <1>5
<1> QED  BY <1>3, <1>4, <1>6 DEF w, o, DrawnAt

\* draw_cursor(0) takes the cursor off the pad, draw_cursor(1) may put it back.
LEMMA DrawCursorKept ==
  ASSUME NEW u, Good(u), Settled(u), NEW put \in BOOLEAN
  PROVE  /\ Settled(draw_cursor(u, put))
         /\ ~put => Kept(draw_cursor(u, put), {}, {})
<1> DEFINE w == draw_cursor(u, put)
           o == Ofs(u.row, u.col)
<1>0. u.row \in RowIds /\ u.col \in ColIds /\ u.row \in Int /\ o \in Cells
  BY Position, OfsCell
<1>1. CASE Drawable(u)
  <2>1. w = DrawPos(u, u.row, u.col, put)
    BY <1>1 DEF draw_cursor
  <2>2. DrawnAt(u, w, o) /\ (~put => w.pad[o] = Image(u.screen[o], FALSE))
    <3>1. u.row \in RowIds /\ u.col \in ColIds
      BY <1>0
    <3>2. /\ DrawnAt(u, DrawPos(u, u.row, u.col, put), Ofs(u.row, u.col))
          /\ ~put => DrawPos(u, u.row, u.col, put).pad[Ofs(u.row, u.col)]
                     = Image(u.screen[Ofs(u.row, u.col)], FALSE)
      BY <3>1, DrawPosPad
    <3> HIDE DEF w
    <3> QED  BY <2>1, <3>2
  <2>3. CursorCell(u) = o /\ CursorCell(w) = o
    BY <2>2 DEF CursorCell, DrawnAt
  <2> HIDE DEF w, o
  <2>4. Settled(w)
    BY <2>2, <2>3 DEF Settled, DrawnAt
  <2>5. ~put => Kept(w, {}, {})
    BY <2>2, <2>3 DEF Settled, Kept, DrawnAt
  <2> QED  BY <2>4, <2>5 DEF w
<1>2. CASE ~Drawable(u) /\ u.lazy
  <2> DEFINE q == u.row + 1
  <2>1. q \in Int /\ u.row \in u.row..(q - 1)
    BY <1>0
  <2>2. w = Noted(u, u.row, q)
    BY <1>2 DEF draw_cursor
  <2>3. RowOf(o) = u.row
    BY <1>0, RowOfCell
  <2> HIDE DEF q
  <2>4. o \in InRows(u.row..(q - 1))
    BY <1>0, <2>1, <2>3 DEF InRows
  <2>5. Kept(u, {o}, {})
    <3>1. CursorCell(u) = o
      BY DEF CursorCell
    <3> HIDE DEF o
    <3> QED  BY <3>1 DEF Settled, Kept
  <2>6. Kept(w, {o} \ InRows(u.row..(q - 1)), {})
    BY <1>0, <1>2, <2>1, <2>2, <2>5, NotedKept
  <2> HIDE DEF w, o
  <2>7. Kept(w, {}, {})
    BY <2>4, <2>6, KeptWider
  <2>8. Settled(w)
    BY <2>7, KeptWider, SettledIsKept
  <2> QED  BY <2>7, <2>8 DEF w
<1>3. CASE ~u.visible /\ ~u.lazy
  <2>1. w = u
    BY <1>3 DEF draw_cursor, Drawable, Noted
  <2> QED  BY <1>3, <2>1 DEF Kept
<1>4. u.visible \in BOOLEAN /\ u.lazy \in BOOLEAN
  BY DEF Good, TermState
<1> QED  BY <1>1, <1>2, <1>3, <1>4 DEF Drawable

LEMMA ExactSettled ==
  ASSUME NEW u, Kept(u, {}, {})
  PROVE  Settled(u)
BY KeptWider, SettledIsKept

\* Wild stays wild.
LEMMA DrawCursorWild ==
  ASSUME NEW u, Good(u), u.wild, NEW put \in BOOLEAN
  PROVE  draw_cursor(u, put).wild
<1>1. u.row \in RowIds /\ u.col \in ColIds
  BY Position
<1>2. DrawPos(u, u.row, u.col, put).wild = u.wild
  BY DEF DrawPos, Good, TermState
<1>3. Noted(u, u.row, u.row + 1).wild
  BY DEF Noted, Good, TermState
<1> QED  BY <1>2, <1>3 DEF draw_cursor

\* screen_reset and screen_move spoil the cells they write.
Written(u, sr, er, s) == [Noted(u, sr, er) EXCEPT !.screen = s]

\* s is what u shows but in D.
ChangedIn(u, s, D) == \A i \in Cells \ D : s[i] = u.screen[i]

LEMMA WrittenKept ==
  ASSUME NEW u, Good(u), NEW S, NEW C, Kept(u, S, C), NEW s, NEW D, NEW sr \in Int, NEW er \in Int,
         ChangedIn(u, s, D)
  PROVE  Kept(Written(u, sr, er, s), S \cup D, C) /\ (u.wild => Written(u, sr, er, s).wild)
<1> DEFINE v == Noted(u, sr, er)
           w == Written(u, sr, er, s)
<1>1. Good(v) /\ Kept(v, S, C) /\ v.screen = u.screen /\ (u.wild => v.wild)
  BY NotedKept, NotedGood, NotedFrame
<1>2. w = [v EXCEPT !.screen = s]
  BY DEF Written
<1> HIDE DEF v, w
<1>3. /\ w.screen = s /\ w.pad = v.pad /\ w.dirty = v.dirty /\ w.lazy = v.lazy
      /\ w.visible = v.visible /\ w.wild = v.wild
  BY <1>1, <1>2 DEF Good, TermState
<1>4. Kept(w, S \cup D, C)
  BY <1>1, <1>3 DEF Kept, ChangedIn
<1> QED  BY <1>1, <1>3, <1>4 DEF w

LEMMA ScreenResetKept ==
  ASSUME NEW u, Good(u), NEW S, NEW C, Kept(u, S, C), NEW i \in Int, NEW n \in Int
  PROVE  /\ Kept(screen_reset(u, i, n), S \cup (i..(i + n - 1)), C)
         /\ u.wild => screen_reset(u, i, n).wild
<1> DEFINE D == i..(i + n - 1)
           s == [k \in Cells |-> IF k \in D THEN [ch |-> "", fg |-> u.fg, bg |-> u.bg] ELSE u.screen[k]]
<1>1. CASE ~OnScreen(i, n)
  <2>1. screen_reset(u, i, n) = [u EXCEPT !.wild = TRUE]
    BY <1>1 DEF screen_reset, Wild
  <2>2. screen_reset(u, i, n).wild
    BY <2>1 DEF Good, TermState
  <2> QED  BY <2>2, WildKept
<1>2. CASE OnScreen(i, n)
  <2>1. screen_reset(u, i, n) = Written(u, RowOf(i), RowOf(i + n), s)
    BY <1>2 DEF screen_reset, Written
  <2>2. ChangedIn(u, s, D)
    BY DEF ChangedIn
  <2>3. RowOf(i) \in Int /\ RowOf(i + n) \in Int
    BY RowOfInt
  <2> HIDE DEF s, D
  <2>4. Kept(screen_reset(u, i, n), S \cup D, C) /\ (u.wild => screen_reset(u, i, n).wild)
    BY <2>1, <2>2, <2>3, WrittenKept
  <2> QED  BY <2>4 DEF D
<1> QED  BY <1>1, <1>2

LEMMA ScreenMoveKept ==
  ASSUME NEW u, Good(u), NEW S, NEW C, Kept(u, S, C), NEW dst \in Int, NEW src \in Int, NEW n \in Int
  PROVE  /\ Kept(screen_move(u, dst, src, n), S \cup (dst..(dst + n - 1)), C)
         /\ u.wild \/ n < 0 => screen_move(u, dst, src, n).wild
<1> DEFINE D == dst..(dst + n - 1)
           s == [k \in Cells |-> IF k \in D THEN u.screen[src + k - dst] ELSE u.screen[k]]
<1>1. CASE ~OnScreen(dst, n) \/ ~OnScreen(src, n)
  <2>1. screen_move(u, dst, src, n) = [u EXCEPT !.wild = TRUE]
    BY <1>1 DEF screen_move, Wild
  <2>2. screen_move(u, dst, src, n).wild
    BY <2>1 DEF Good, TermState
  <2> QED  BY <2>2, WildKept
<1>2. CASE OnScreen(dst, n) /\ OnScreen(src, n)
  <2> DEFINE a == RowOf(Lesser(src, dst))
             b == RowOf(Greater(src, dst) + n)
  <2>1. screen_move(u, dst, src, n) = Written(u, a, b, s)
    BY <1>2 DEF screen_move, Written
  <2>2. ChangedIn(u, s, D)
    BY DEF ChangedIn
  <2>3. a \in Int /\ b \in Int
    <3>1. Lesser(src, dst) \in Int /\ Greater(src, dst) + n \in Int
      BY DEF Lesser, Greater
    <3> QED  BY <3>1, RowOfInt
  <2>4. ~(n < 0)
    BY <1>2 DEF OnScreen
  <2> HIDE DEF s, a, b, D
  <2>5. /\ Kept(screen_move(u, dst, src, n), S \cup D, C)
        /\ u.wild => screen_move(u, dst, src, n).wild
    BY <2>1, <2>2, <2>3, WrittenKept
  <2> QED  BY <2>4, <2>5 DEF D
<1> QED  BY <1>1, <1>2

LEMMA ScrlRowsKept ==
  ASSUME NEW u, Good(u), NEW S, NEW C, Kept(u, S, C), NEW nr
  PROVE  Kept(scrl_rows(u, nr), S, C) /\ (u.wild => scrl_rows(u, nr).wild)
<1>1. CASE nr > Rows
  BY <1>1 DEF scrl_rows, Wild, Kept, Good, TermState
<1>2. CASE ~(nr > Rows)
  BY <1>2, SameKept DEF scrl_rows, Good, TermState
<1> QED  BY <1>1, <1>2

\* scroll_screen draws again all it moved or emptied, and the cursor.
LEMMA ScrollScreenSettled ==
  ASSUME NEW u, Good(u), Settled(u), NEW sr \in Int, sr >= 0, NEW nr \in Int, NEW n \in Int
  PROVE  Settled(scroll_screen(u, sr, nr, n))
<1> DEFINE a == draw_cursor(u, FALSE)
           b == IF sr + n = 0 THEN scrl_rows(a, sr) ELSE a
           c == screen_move(b, Ofs(sr + n, 0), Ofs(sr, 0), nr * Cols)
           d == IF n > 0 THEN empty_rows(c, sr, sr + n)
                ELSE empty_rows(c, sr + nr + n, sr + nr)
           lr == Lesser(sr, sr + n)
           hr == Greater(sr + nr, sr + nr + n)
           e == draw_rows(d, lr, hr)
           lo == Ofs(lr, 0)
           hi == Ofs(hr, 0)
           W == lo..(hi - 1)
<1>1. Good(a) /\ Kept(a, {}, {})
  BY DrawCursorGood, DrawCursorKept
<1>2. Good(b) /\ Kept(b, {}, {})
  <2> HIDE DEF a
  <2> QED  BY <1>1, ScrlRowsGood, ScrlRowsKept
<1>3. /\ lr \in Int /\ hr \in Int /\ lo \in Int /\ hi \in Int
      /\ lo <= Ofs(sr + n, 0) /\ Ofs(sr + n, 0) + nr * Cols <= hi
      /\ nr >= 0 /\ n > 0 => lo <= Ofs(sr, 0) /\ Ofs(sr + n, 0) <= hi
      /\ nr >= 0 /\ ~(n > 0) => lo <= Ofs(sr + nr + n, 0) /\ Ofs(sr + nr, 0) <= hi
      /\ Ofs(sr + n, 0) \in Int /\ Ofs(sr, 0) \in Int /\ nr * Cols \in Int
      /\ Ofs(sr + nr + n, 0) \in Int /\ Ofs(sr + nr, 0) \in Int
  <2>1. lr \in Int /\ hr \in Int
    BY DEF Lesser, Greater
  <2>2. /\ lr <= sr + n /\ lr <= sr /\ sr + n + nr <= hr /\ sr + nr <= hr
        /\ nr >= 0 /\ n > 0 => sr + n <= hr
        /\ nr >= 0 /\ ~(n > 0) => lr <= sr + nr + n
    BY DEF Lesser, Greater
  <2>3. /\ \A k \in Int : Ofs(k, 0) \in Int
        /\ \A k, m \in Int : k <= m => Ofs(k, 0) <= Ofs(m, 0)
    BY OfsRows
  <2>4. sr + n \in Int /\ sr + n + nr \in Int /\ sr + nr \in Int /\ sr + nr + n \in Int
    OBVIOUS
  <2>5. Ofs(sr + n, 0) + nr * Cols = Ofs(sr + n + nr, 0) /\ nr * Cols \in Int
    BY <2>4, OfsRows
  <2> HIDE DEF lr, hr
  <2> QED  BY <2>1, <2>2, <2>3, <2>4, <2>5
<1>4. Good(c) /\ Kept(c, W, {}) /\ (nr < 0 => c.wild)
  <2> DEFINE x == Ofs(sr + n, 0)
             m == nr * Cols
  <2> HIDE DEF b, x, m
  <2>1. x \in Int /\ m \in Int /\ lo \in Int /\ hi \in Int /\ lo <= x /\ x + m <= hi
    BY <1>3 DEF x, m
  <2>2. nr < 0 => m < 0
    BY DEF m
  <2>3. c = screen_move(b, x, Ofs(sr, 0), m)
    BY DEF x, m
  <2> HIDE DEF c, lo, hi
  <2>4. Kept(c, {} \cup (x..(x + m - 1)), {}) /\ (m < 0 => c.wild) /\ Good(c)
    BY <1>2, <1>3, <2>1, <2>3, ScreenMoveKept, ScreenMoveGood
  <2>5. Cells \cap ({} \cup (x..(x + m - 1))) \subseteq W
    BY <2>1
  <2> HIDE DEF W
  <2>6. Kept(c, W, {})
    BY <2>4, <2>5, KeptIn
  <2> QED  BY <2>2, <2>4, <2>6
<1>5. Good(d) /\ Kept(d, W, {})
  <2> HIDE DEF c
  <2>1. ASSUME NEW f \in Int, NEW g \in Int
        PROVE  /\ Good(empty_rows(c, f, g)) /\ (c.wild => empty_rows(c, f, g).wild)
               /\ Kept(empty_rows(c, f, g), W \cup (Ofs(f, 0)..(Ofs(g, 0) - 1)), {})
    <3> DEFINE x == Ofs(f, 0)
               m == (g - f) * Cols
    <3>1. x \in Int /\ m \in Int /\ Ofs(g, 0) = x + m
      <4>1. g - f \in Int /\ f + (g - f) = g
        OBVIOUS
      <4>2. Ofs(f, 0) + (g - f) * Cols = Ofs(f + (g - f), 0)
        BY <4>1, OfsRows
      <4>3. Ofs(f, 0) \in Int /\ (g - f) * Cols \in Int
        BY <4>1, OfsRows
      <4> QED  BY <4>1, <4>2, <4>3
    <3>2. empty_rows(c, f, g) = screen_reset(c, x, m)
      BY DEF empty_rows
    <3> HIDE DEF x, m, W
    <3>3. /\ Kept(screen_reset(c, x, m), W \cup (x..(x + m - 1)), {})
          /\ c.wild => screen_reset(c, x, m).wild
      BY <1>4, <3>1, ScreenResetKept
    <3>4. Good(empty_rows(c, f, g))
      BY <1>4, EmptyRowsGood
    <3>5. Ofs(f, 0) = x
      BY DEF x
    <3>6. Ofs(f, 0)..(Ofs(g, 0) - 1) = x..(x + m - 1)
      BY <3>1, <3>5
    <3> QED  BY <3>2, <3>3, <3>4, <3>6
  <2>2. CASE n > 0
    <3>1. d = empty_rows(c, sr, sr + n) /\ sr + n \in Int
      BY <2>2
    <3> HIDE DEF d, lo, hi
    <3>2. /\ Good(d) /\ (c.wild => d.wild)
          /\ Kept(d, W \cup (Ofs(sr, 0)..(Ofs(sr + n, 0) - 1)), {})
      BY <2>1, <3>1
    <3>3. CASE nr >= 0
      <4>1. Cells \cap (W \cup (Ofs(sr, 0)..(Ofs(sr + n, 0) - 1))) \subseteq W
        BY <1>3, <2>2, <3>3
      <4> HIDE DEF W
      <4> QED  BY <3>2, <4>1, KeptIn
    <3>4. CASE nr < 0
      BY <1>4, <3>2, <3>4, WildKept
    <3> QED  BY <3>3, <3>4
  <2>3. CASE ~(n > 0)
    <3>1. d = empty_rows(c, sr + nr + n, sr + nr) /\ sr + nr + n \in Int /\ sr + nr \in Int
      BY <2>3
    <3> HIDE DEF d, lo, hi
    <3>2. /\ Good(d) /\ (c.wild => d.wild)
          /\ Kept(d, W \cup (Ofs(sr + nr + n, 0)..(Ofs(sr + nr, 0) - 1)), {})
      BY <2>1, <3>1
    <3>3. CASE nr >= 0
      <4>1. Cells \cap (W \cup (Ofs(sr + nr + n, 0)..(Ofs(sr + nr, 0) - 1))) \subseteq W
        BY <1>3, <2>3, <3>3
      <4> HIDE DEF W
      <4> QED  BY <3>2, <4>1, KeptIn
    <3>4. CASE nr < 0
      BY <1>4, <3>2, <3>4, WildKept
    <3> QED  BY <3>3, <3>4
  <2> QED  BY <2>2, <2>3
<1>6. Good(e) /\ Kept(e, {}, {})
  <2> HIDE DEF d, lr, hr
  <2>1. Good(e) /\ Kept(e, W \ InRows(lr..(hr - 1)), {})
    BY <1>3, <1>5, DrawRowsGood, DrawRowsKept
  <2>2. Cells \cap W \subseteq InRows(lr..(hr - 1))
    BY <1>3, CellsOfRows
  <2> HIDE DEF W, e
  <2>3. Cells \cap (W \ InRows(lr..(hr - 1))) \subseteq {}
    BY <2>2
  <2> QED  BY <2>1, <2>3, KeptWider
<1>7. scroll_screen(u, sr, nr, n) = draw_cursor(e, TRUE)
  BY DEF scroll_screen
<1> HIDE DEF e
<1> QED  BY <1>6, <1>7, ExactSettled, DrawCursorKept

LEMMA MoveCursorSettled ==
  ASSUME NEW u, Good(u), Settled(u), NEW r \in Int, NEW c \in Int
  PROVE  Settled(move_cursor(u, r, c))
<1> DEFINE tt == IF origin(u) THEN u.top ELSE 0
           bb == IF origin(u) THEN u.bot ELSE Rows
           v  == draw_cursor(u, FALSE)
           w  == [v EXCEPT !.row = LIMIT(r, tt, bb - 1), !.col = LIMIT(c, 0, Cols - 1)]
           x  == draw_cursor(w, TRUE)
<1>1. Good(v) /\ Kept(v, {}, {})
  BY DrawCursorGood, DrawCursorKept
<1>2. Good(w) /\ Kept(w, {}, {})
  <2>1. tt \in Int /\ bb \in Int /\ 0 <= tt /\ tt <= bb - 1 /\ bb <= Rows
    BY Position
  <2> HIDE DEF tt, bb
  <2>2. LIMIT(r, tt, bb - 1) \in RowIds /\ LIMIT(c, 0, Cols - 1) \in ColIds
    BY <2>1 DEF LIMIT, RowIds, ColIds
  <2> HIDE DEF v
  <2>3. /\ w.screen = v.screen /\ w.pad = v.pad /\ w.dirty = v.dirty /\ w.lazy = v.lazy
        /\ w.visible = v.visible /\ w.wild = v.wild
    BY <1>1 DEF Good, TermState
  <2>4. Good(w)
    BY <1>1, <2>2, CursorGood
  <2> HIDE DEF w
  <2> QED  BY <1>1, <2>3, <2>4, SameKept
<1>3. Good(x) /\ Settled(x)
  <2> HIDE DEF w
  <2> QED  BY <1>2, DrawCursorGood, DrawCursorKept, ExactSettled
<1>4. move_cursor(u, r, c) = [x EXCEPT !.mode = x.mode \ {"WRAPREADY"}]
  BY DEF move_cursor
<1> HIDE DEF x
<1>5. Settled([x EXCEPT !.mode = x.mode \ {"WRAPREADY"}])
  BY <1>3 DEF Good, TermState, Settled, CursorCell
<1> QED  BY <1>4, <1>5

LEMMA InsertLinesSettled ==
  ASSUME NEW u, Good(u), Settled(u), NEW n \in Int
  PROVE  Settled(insert_lines(u, n))
<1>1. Greater(u.top, u.row) \in Int /\ Greater(u.top, u.row) >= 0
  BY Position DEF Greater
<1>2. u.bot - u.row - n \in Int
  BY Position
<1> QED  BY <1>1, <1>2, ScrollScreenSettled DEF insert_lines

LEMMA DeleteLinesSettled ==
  ASSUME NEW u, Good(u), Settled(u), NEW n \in Int, n >= 0
  PROVE  Settled(delete_lines(u, n))
<1> DEFINE r == Greater(u.top, u.row)
<1>1. r \in Int /\ r >= 0
  BY Position DEF Greater
<1>2. u.bot - r - n \in Int
  BY <1>1, Position
<1> HIDE DEF r
<1>3. r + n \in Int /\ r + n >= 0 /\ -n \in Int
  BY <1>1
<1>4. Settled(scroll_screen(u, r + n, u.bot - r - n, -n))
  BY <1>2, <1>3, ScrollScreenSettled
<1> QED  BY <1>4 DEF delete_lines, r

LEMMA AdvanceSettled ==
  ASSUME NEW u, Good(u), Settled(u), NEW dr \in Int, NEW dc \in Int, NEW scrl
  PROVE  Settled(advance(u, dr, dc, scrl))
<1> DEFINE r    == u.row + dr
           down == u.bot - r - 1
           up   == u.top - r
           v == IF dr # 0 /\ r >= u.bot /\ scrl = 1 /\ (u.bot - u.top) + down > 0
                THEN scroll_screen(u, u.top - down, (u.bot - u.top) + down, down) ELSE u
           w == IF dr # 0 /\ r < u.top /\ scrl = 1 /\ (u.bot - u.top) - up > 0
                THEN scroll_screen(v, u.top, (u.bot - u.top) - up, up) ELSE v
           rr == IF dr # 0 THEN LIMIT(r, u.top, u.bot - 1) ELSE r
           cc == LIMIT(u.col + dc, 0, Cols - 1)
<1>1. r \in Int /\ down \in Int /\ up \in Int
  BY Position
<1>2. (u.bot - u.top) + down \in Int /\ (u.bot - u.top) - up \in Int /\ u.top - down \in Int
  BY <1>1, Position
<1>3. Good(v) /\ Settled(v)
  <2>1. CASE r >= u.bot
    <3>1. u.top - down >= 0
      BY <2>1, Position
    <3> HIDE DEF down
    <3> QED  BY <1>1, <1>2, <3>1, ScrollScreenGood, ScrollScreenSettled
  <2>2. CASE ~(r >= u.bot)
    BY <2>2
  <2> QED  BY <2>1, <2>2
<1>4. Good(w) /\ Settled(w)
  <2>1. u.top \in Int /\ u.top >= 0
    BY Position
  <2> HIDE DEF v, up
  <2> QED  BY <1>1, <1>2, <1>3, <2>1, ScrollScreenGood, ScrollScreenSettled
<1>5. rr \in Int /\ cc \in Int
  <2>1. cc \in 0..(Cols - 1)
    <3>1. u.col + dc \in Int /\ Cols - 1 \in Int /\ 0 <= Cols - 1
      BY Position
    <3> QED  BY <3>1 DEF LIMIT
  <2>2. u.top \in Int /\ u.bot - 1 \in Int /\ u.top <= u.bot - 1
    BY Position
  <2>3. LIMIT(r, u.top, u.bot - 1) \in u.top..(u.bot - 1)
    <3> HIDE DEF r
    <3> QED  BY <1>1, <2>2, LimitType
  <2> HIDE DEF r
  <2> QED  BY <1>1, <2>1, <2>3
<1>6. advance(u, dr, dc, scrl) = move_cursor(w, rr, cc)
  BY DEF advance
<1> HIDE DEF w, rr, cc
<1> QED  BY <1>4, <1>5, <1>6, MoveCursorSettled

\* draw_char writes the cells on the screen and draws or notes them.
LEMMA DrawCharsSettled ==
  ASSUME NEW u, Good(u), Settled(u), NEW ch \in Glyphs, NEW S, S \subseteq ColIds
  PROVE  Settled(DrawChars(u, ch, S))
<1> DEFINE cells == { Ofs(u.row, c) : c \in S }
           s == [i \in Cells |-> IF i \in cells THEN [ch |-> ch, fg |-> fgcolor(u), bg |-> bgcolor(u)]
                                 ELSE u.screen[i]]
           w == [u EXCEPT !.screen = s]
           q == u.row + 1
           C == {CursorCell(u)}
<1>1. s \in [Cells -> Cell]
  <2>1. [ch |-> ch, fg |-> fgcolor(u), bg |-> bgcolor(u)] \in Cell
    BY DEF Good, TermState, fgcolor, bgcolor, Cell
  <2> QED  BY <2>1 DEF Good, TermState
<1>2. Good(w)
  BY <1>1, ScreenGood
<1>3. u.row \in RowIds /\ u.row \in Int /\ q \in Int /\ u.row \in u.row..(q - 1)
  BY Position
<1>4. Kept(w, cells, C)
  <2>1. Kept(u, {}, C)
    BY SettledIsKept
  <2>2. \A i \in Cells \ cells : s[i] = u.screen[i]
    OBVIOUS
  <2> HIDE DEF s, cells, C
  <2>3. /\ w.screen = s /\ w.pad = u.pad /\ w.dirty = u.dirty /\ w.lazy = u.lazy
        /\ w.visible = u.visible /\ w.wild = u.wild
    BY DEF Good, TermState
  <2> HIDE DEF w
  <2> QED  BY <2>1, <2>2, <2>3 DEF Kept
<1>5. cells \subseteq InRows(u.row..(q - 1))
  <2> SUFFICES ASSUME NEW c \in S
               PROVE  Ofs(u.row, c) \in InRows(u.row..(q - 1))
    OBVIOUS
  <2>1. c \in ColIds
    OBVIOUS
  <2>2. Ofs(u.row, c) \in Cells /\ RowOf(Ofs(u.row, c)) = u.row
    BY <1>3, <2>1, OfsCell, RowOfCell
  <2> QED  BY <1>3, <2>2 DEF InRows
<1>6. DrawChars(u, ch, S) = IF S = {} THEN u
                            ELSE IF Drawable(u) THEN DrawCells(w, cells) ELSE Noted(w, u.row, q)
  BY DEF DrawChars
<1>7. /\ w.row = u.row /\ w.col = u.col /\ w.lazy = u.lazy /\ w.visible = u.visible
      /\ u.visible \in BOOLEAN /\ u.lazy \in BOOLEAN
  <2> HIDE DEF s
  <2> QED  BY DEF Good, TermState
<1> HIDE DEF w, cells, q
<1>8. CASE S = {}
  BY <1>6, <1>8
<1>9. CASE S # {} /\ Drawable(u)
  <2>1. Kept(DrawCells(w, cells), cells \ cells, C) /\ Frame(w, DrawCells(w, cells))
    BY <1>2, <1>4, DrawCellsKept, DrawCellsFrame
  <2>2. CursorCell(DrawCells(w, cells)) = CursorCell(u)
    BY <1>7, <2>1 DEF CursorCell, Frame
  <2>3. Kept(DrawCells(w, cells), {}, C)
    BY <2>1, KeptIn
  <2> QED  BY <1>6, <1>9, <2>2, <2>3, SettledIsKept
<1>10. CASE S # {} /\ ~Drawable(u) /\ u.lazy
  <2>1. /\ Kept(Noted(w, u.row, q), cells \ InRows(u.row..(q - 1)), C)
        /\ Frame(w, Noted(w, u.row, q))
    BY <1>2, <1>3, <1>4, <1>7, <1>10, NotedKept, NotedFrame
  <2>2. CursorCell(Noted(w, u.row, q)) = CursorCell(u)
    BY <1>7, <2>1 DEF CursorCell, Frame
  <2>3. Kept(Noted(w, u.row, q), {}, C)
    BY <1>5, <2>1, KeptIn
  <2> QED  BY <1>6, <1>10, <2>2, <2>3, SettledIsKept
<1>11. CASE S # {} /\ ~u.visible /\ ~u.lazy
  <2>1. Noted(w, u.row, q) = w
    BY <1>7, <1>11 DEF Noted
  <2> QED  BY <1>6, <1>7, <1>11, <2>1 DEF Settled, Drawable
<1> QED  BY <1>7, <1>8, <1>9, <1>10, <1>11 DEF Drawable

LEMMA KillCharsSettled ==
  ASSUME NEW u, Good(u), Settled(u), NEW sc \in Int, NEW ec \in Int, 0 <= sc, ec <= Cols
  PROVE  Settled(kill_chars(u, sc, ec))
<1>1. "" \in Glyphs
  BY DEF Glyphs
<1>2. sc..(ec - 1) \subseteq ColIds
  BY DEF ColIds
<1>3. Good(DrawChars(u, "", sc..(ec - 1))) /\ Settled(DrawChars(u, "", sc..(ec - 1)))
  BY <1>1, <1>2, DrawCharsGood, DrawCharsSettled
<1> QED  BY <1>3, DrawCursorKept DEF kill_chars

\* Characters move inside their row, which is drawn again from the first of them.
LEMMA MoveCharsSettled ==
  ASSUME NEW u, Good(u), Settled(u), NEW sc \in Int, NEW nc \in Int, NEW n \in Int,
         0 <= sc, 0 <= nc, sc + nc <= Cols, 0 <= sc + n, sc + n + nc <= Cols,
         sc + n <= Cols, 0 <= Cols + n
  PROVE  Settled(move_chars(u, sc, nc, n))
<1> DEFINE a == draw_cursor(u, FALSE)
           b == screen_move(a, Ofs(u.row, sc + n), Ofs(u.row, sc), nc)
           c == IF n > 0 THEN screen_reset(b, Ofs(u.row, sc), n)
                ELSE screen_reset(b, Ofs(u.row, Cols + n), -n)
           lc == Lesser(sc, sc + n)
           d == draw_cols(c, u.row, lc, Cols)
           lo == Ofs(u.row, lc)
           hi == Ofs(u.row, Cols)
           W == lo..(hi - 1)
<1>1. u.row \in RowIds /\ u.row \in Int
  BY Position
<1>2. Good(a) /\ Kept(a, {}, {})
  BY DrawCursorGood, DrawCursorKept
<1>3. /\ lc \in Int /\ 0 <= lc /\ lo \in Int /\ hi \in Int
      /\ Ofs(u.row, sc) \in Int /\ Ofs(u.row, sc + n) \in Int /\ Ofs(u.row, Cols + n) \in Int
      /\ lo <= Ofs(u.row, sc) /\ lo <= Ofs(u.row, sc + n)
      /\ Ofs(u.row, sc + n) + nc <= hi /\ Ofs(u.row, sc) + n <= hi
      /\ lo <= Ofs(u.row, Cols + n) \/ n > 0
      /\ Ofs(u.row, Cols + n) + (-n) <= hi
  <2>1. u.row * Cols \in Int
    BY <1>1
  <2> QED  BY <1>1, <2>1 DEF Ofs, Lesser
<1> HIDE DEF lo, hi, lc, a
<1>4. Good(b) /\ Kept(b, W, {})
  <2>1. Good(b) /\ Kept(b, {} \cup (Ofs(u.row, sc + n)..(Ofs(u.row, sc + n) + nc - 1)), {})
    BY <1>2, <1>3, ScreenMoveGood, ScreenMoveKept
  <2>2. Cells \cap ({} \cup (Ofs(u.row, sc + n)..(Ofs(u.row, sc + n) + nc - 1))) \subseteq W
    BY <1>3
  <2> HIDE DEF b, W
  <2> QED  BY <2>1, <2>2, KeptIn
<1> HIDE DEF b
<1>5. Good(c) /\ Kept(c, W, {})
  <2>1. CASE n > 0
    <3>1. c = screen_reset(b, Ofs(u.row, sc), n)
      BY <2>1
    <3>2. Good(c) /\ Kept(c, W \cup (Ofs(u.row, sc)..(Ofs(u.row, sc) + n - 1)), {})
      <4> HIDE DEF c, W
      <4> QED  BY <1>3, <1>4, <3>1, ScreenResetGood, ScreenResetKept
    <3>3. Cells \cap (W \cup (Ofs(u.row, sc)..(Ofs(u.row, sc) + n - 1))) \subseteq W
      BY <1>3
    <3> HIDE DEF c, W
    <3> QED  BY <3>2, <3>3, KeptIn
  <2>2. CASE ~(n > 0)
    <3> DEFINE m == -n
    <3>1. c = screen_reset(b, Ofs(u.row, Cols + n), m) /\ m \in Int
      BY <2>2
    <3>2. Ofs(u.row, Cols + n) + m <= hi
      BY <1>3
    <3> HIDE DEF m
    <3>3. Good(c) /\ Kept(c, W \cup (Ofs(u.row, Cols + n)..(Ofs(u.row, Cols + n) + m - 1)), {})
      <4> HIDE DEF c, W
      <4> QED  BY <1>3, <1>4, <3>1, ScreenResetGood, ScreenResetKept
    <3>4. Cells \cap (W \cup (Ofs(u.row, Cols + n)..(Ofs(u.row, Cols + n) + m - 1))) \subseteq W
      BY <1>3, <2>2, <3>1, <3>2
    <3> HIDE DEF c, W
    <3> QED  BY <3>3, <3>4, KeptIn
  <2> QED  BY <2>1, <2>2
<1> HIDE DEF c
<1>6. Good(d) /\ Kept(d, {}, {})
  <2>1. Good(d)
    BY <1>1, <1>3, <1>5, DrawColsGood
  <2>2. Kept(d, W \ (Ofs(u.row, lc)..(Ofs(u.row, Cols) - 1)), {})
    <3>1. Cols \in Int /\ Cols <= Cols
      OBVIOUS
    <3> HIDE DEF W
    <3> QED  BY <1>1, <1>3, <1>5, <3>1, DrawColsKept
  <2>3. W = Ofs(u.row, lc)..(Ofs(u.row, Cols) - 1)
    BY DEF lo, hi
  <2> HIDE DEF W, d
  <2> QED  BY <2>1, <2>2, <2>3, KeptIn
<1>7. move_chars(u, sc, nc, n) = draw_cursor(d, TRUE)
  BY DEF move_chars, a, b, c, lc
<1> HIDE DEF d
<1> QED  BY <1>6, <1>7, ExactSettled, DrawCursorKept

LEMMA CharsSettled ==
  ASSUME NEW u, Good(u), Settled(u), NEW n \in Int, 1 <= n, n <= Cols - u.col
  PROVE  Settled(insert_chars(u, n)) /\ Settled(delete_chars(u, n))
<1>1. u.col \in Int /\ 0 <= u.col /\ u.col < Cols
  BY Position
<1>2. Settled(move_chars(u, u.col, Cols - u.col - n, n))
  <2>1. /\ Cols - u.col - n \in Int /\ 0 <= Cols - u.col - n
        /\ u.col + (Cols - u.col - n) <= Cols /\ 0 <= u.col + n
        /\ u.col + n + (Cols - u.col - n) <= Cols /\ u.col + n <= Cols /\ 0 <= Cols + n
    BY <1>1
  <2> QED  BY <1>1, <2>1, MoveCharsSettled
<1>3. Settled(move_chars(u, u.col + n, Cols - (u.col + n), -n))
  <2>1. /\ u.col + n \in Int /\ Cols - (u.col + n) \in Int /\ -n \in Int
        /\ 0 <= u.col + n /\ 0 <= Cols - (u.col + n)
        /\ u.col + n + (Cols - (u.col + n)) <= Cols /\ 0 <= u.col + n + (-n)
        /\ u.col + n + (-n) + (Cols - (u.col + n)) <= Cols /\ u.col + n + (-n) <= Cols
        /\ 0 <= Cols + (-n)
    BY <1>1
  <2> QED  BY <2>1, MoveCharsSettled
<1> QED  BY <1>2, <1>3 DEF insert_chars, delete_chars

\* The mode is not part of the picture.
LEMMA ModeSettled ==
  ASSUME NEW u, Good(u), Settled(u), NEW m
  PROVE  Settled([u EXCEPT !.mode = m])
BY DEF Good, TermState, Settled, CursorCell

LEMMA InsertCharSettled ==
  ASSUME NEW u, Good(u), Settled(u), NEW c \in Glyphs
  PROVE  Settled(insertchar(u, c))
<1> DEFINE b == Shifted(Wrapped(u))
           d == DrawChars(b, c, {b.col})
<1>1. Good(Wrapped(u)) /\ Settled(Wrapped(u))
  <2>1. -u.col \in Int
    BY Position
  <2> QED  BY <2>1, AdvanceGood, AdvanceSettled DEF Wrapped
<1>2. Good(b) /\ Settled(b)
  <2>1. 1 <= Cols - Wrapped(u).col
    BY <1>1, Position
  <2> QED  BY <1>1, <2>1, InsertCharsGood, CharsSettled DEF Shifted
<1>3. Good(d) /\ Settled(d)
  <2> HIDE DEF b
  <2>1. {b.col} \subseteq ColIds
    BY <1>2, Position
  <2> QED  BY <1>2, <2>1, DrawCharsGood, DrawCharsSettled
<1>4. insertchar(u, c) = IF d.col = Cols - 1 THEN [d EXCEPT !.mode = d.mode \cup {"WRAPREADY"}]
                         ELSE advance(d, 0, 1, 1)
  BY DEF insertchar
<1> HIDE DEF d
<1>5. Settled([d EXCEPT !.mode = d.mode \cup {"WRAPREADY"}])
  BY <1>3, ModeSettled
<1>6. Settled(advance(d, 0, 1, 1))
  BY <1>3, AdvanceSettled
<1> QED  BY <1>4, <1>5, <1>6

LEMMA InsertWideSettled ==
  ASSUME NEW u, Good(u), Settled(u), NEW c \in WideChars
  PROVE  Settled(insertwide(u, c))
<1>1. "" \in Glyphs /\ c \in Glyphs /\ DWCHAR[c] \in Glyphs
  BY DEF Glyphs
<1> QED  BY <1>1, InsertCharGood, InsertCharSettled DEF insertwide

LEMMA BlankRowsSettled ==
  ASSUME NEW u, Good(u), Settled(u), NEW sr \in Int, NEW er \in Int
  PROVE  Settled(blank_rows(u, sr, er))
<1> DEFINE c == empty_rows(u, sr, er)
           d == draw_rows(c, sr, er)
           W == Ofs(sr, 0)..(Ofs(er, 0) - 1)
           C == {CursorCell(u)}
<1>1. Good(c) /\ Frame(u, c)
  BY EmptyRowsGood, EmptyRowsFrame
<1>2. Kept(c, {} \cup W, C)
  <2> DEFINE x == Ofs(sr, 0)
             m == (er - sr) * Cols
  <2>1. x \in Int /\ m \in Int /\ Ofs(er, 0) = x + m
    <3>1. er - sr \in Int /\ sr + (er - sr) = er
      OBVIOUS
    <3>2. Ofs(sr, 0) + (er - sr) * Cols = Ofs(sr + (er - sr), 0)
      BY <3>1, OfsRows
    <3>3. Ofs(sr, 0) \in Int /\ (er - sr) * Cols \in Int
      BY <3>1, OfsRows
    <3> QED  BY <3>1, <3>2, <3>3
  <2>2. c = screen_reset(u, x, m)
    BY DEF empty_rows
  <2>3. W = x..(Ofs(er, 0) - 1)
    OBVIOUS
  <2> HIDE DEF x, m, W, c, C
  <2>4. W = x..(x + m - 1)
    BY <2>1, <2>3
  <2>5. Kept(u, {}, C)
    BY SettledIsKept DEF C
  <2>6. Kept(screen_reset(u, x, m), {} \cup (x..(x + m - 1)), C)
    BY <2>1, <2>5, ScreenResetKept
  <2> QED  BY <2>2, <2>4, <2>6
<1> HIDE DEF c
<1>3. Good(d) /\ Frame(c, d) /\ Kept(d, ({} \cup W) \ InRows(sr..(er - 1)), C)
  <2> HIDE DEF W, C
  <2> QED  BY <1>1, <1>2, DrawRowsGood, DrawRowsFrame, DrawRowsKept
<1>4. Cells \cap W \subseteq InRows(sr..(er - 1))
  BY CellsOfRows
<1> HIDE DEF d, W
<1>5. Cells \cap (({} \cup W) \ InRows(sr..(er - 1))) \subseteq {}
  BY <1>4
<1>6. CursorCell(d) = CursorCell(u)
  BY <1>1, <1>3 DEF CursorCell, Frame
<1>7. Settled(d)
  <2> HIDE DEF C
  <2>1. Kept(d, {}, C)
    BY <1>3, <1>5, KeptIn
  <2> QED  BY <1>6, <2>1, SettledIsKept DEF C
<1>8. blank_rows(u, sr, er) = draw_cursor(d, TRUE)
  BY DEF blank_rows, c, d
<1> QED  BY <1>3, <1>7, <1>8, DrawCursorKept

\* Unless it is in reverse video, term_blank makes pad and screen the same blank.
LEMMA TermBlankSettled ==
  ASSUME NEW u, Good(u), "REV" \notin u.mode
  PROVE  Settled(term_blank(u))
<1> DEFINE m == Rows * Cols
           s == [k \in Cells |-> IF k \in 0..(0 + m - 1)
                                 THEN [ch |-> "", fg |-> u.fg, bg |-> u.bg] ELSE u.screen[k]]
           v == Noted(u, RowOf(0), RowOf(0 + m))
           w == [v EXCEPT !.screen = s]
           p == [i \in Cells |-> Look("", FGCOLOR, u.bg)]
<1>1. m \in Int /\ m >= 0 /\ 0 + m = m
  OBVIOUS
<1>2. OnScreen(0, m)
  BY <1>1 DEF OnScreen
<1>3. screen_reset(u, 0, m) = w
  BY <1>2 DEF screen_reset
<1>4. Good(v) /\ Frame(u, v)
  <2>1. RowOf(0) \in Int /\ RowOf(0 + m) \in Int
    BY <1>1, RowOfInt
  <2> QED  BY <2>1, NotedGood, NotedFrame
<1>5. bgcolor(u) = u.bg
  BY DEF bgcolor
<1>6. term_blank(u) = IF u.visible THEN [w EXCEPT !.pad = p] ELSE w
  <2>1. term_blank(u) = IF u.visible
                        THEN [screen_reset(u, 0, m) EXCEPT !.pad = [i \in Cells |-> Look("", FGCOLOR, bgcolor(u))]]
                        ELSE screen_reset(u, 0, m)
    BY DEF term_blank
  <2> HIDE DEF w, m
  <2> QED  BY <1>3, <1>5, <2>1
<1>7. ASSUME NEW i \in Cells
      PROVE  p[i] = Image(s[i], FALSE)
  <2>1. i \in 0..(0 + m - 1)
    BY DEF Cells
  <2>2. s[i] = [ch |-> "", fg |-> u.fg, bg |-> u.bg]
    BY <2>1
  <2>3. p[i] = Look("", FGCOLOR, u.bg)
    OBVIOUS
  <2> HIDE DEF s, p
  <2>4. Image(s[i], FALSE) = Look(s[i].ch, s[i].fg, s[i].bg)
    BY DEF Image
  <2> DEFINE z == s[i]
  <2>5. z.ch = "" /\ z.bg = u.bg
    <3> HIDE DEF w, v
    <3>1. z = [ch |-> "", fg |-> u.fg, bg |-> u.bg]
      BY <2>2
    <3> HIDE DEF z
    <3> QED  BY <3>1
  <2> QED  BY <2>3, <2>4, <2>5 DEF Look
<1> HIDE DEF s, p, v
<1>8. [w EXCEPT !.pad = p].screen = s /\ [w EXCEPT !.pad = p].pad = p
  BY <1>4 DEF Good, TermState
<1>9. w.visible = u.visible
  BY <1>4 DEF Good, TermState, Frame
<1>10. CASE u.visible
  <2>1. term_blank(u) = [w EXCEPT !.pad = p]
    BY <1>6, <1>10
  <2> QED  BY <1>7, <1>8, <2>1 DEF Settled
<1>11. CASE ~u.visible
  <2>1. term_blank(u) = w
    BY <1>6, <1>11
  <2> QED  BY <1>9, <1>11, <2>1 DEF Settled
<1> QED  BY <1>10, <1>11

LEMMA TermResetSettled ==
  ASSUME NEW u, Good(u)
  PROVE  Settled(term_reset(u))
<1> DEFINE w == [u EXCEPT !.row = 0, !.col = 0, !.top = 0, !.bot = Rows,
                          !.mode = {"CURSOR", "WRAP"}, !.fg = FGCOLOR, !.bg = BGCOLOR]
<1>1. 0 \in RowIds /\ 0 \in ColIds /\ Rows \in 1..Rows /\ 0 < Rows
  BY DEF RowIds, ColIds
<1>2. {"CURSOR", "WRAP"} \in SUBSET Modes /\ FGCOLOR \in Colors /\ BGCOLOR \in Colors
  BY TermData DEF Modes
<1>3. Good(w) /\ "REV" \notin w.mode
  BY <1>1, <1>2 DEF Good, TermState
<1>4. term_reset(u) = term_blank(w)
  BY DEF term_reset
<1> HIDE DEF w
<1> QED  BY <1>3, <1>4, TermBlankSettled

\* lazy_flush draws what was noted.
LEMMA LazyFlushSettled ==
  ASSUME NEW u, Good(u), Settled(u)
  PROVE  Settled(lazy_flush(u))
<1> DEFINE w == DrawCells(u, InRows(u.dirty))
           o == Ofs(u.row, u.col)
           x == IF u.row \in u.dirty THEN DrawPos(w, u.row, u.col, TRUE) ELSE w
           y == [x EXCEPT !.lazy = FALSE, !.hpos = 0]
<1>1. Good(w) /\ Frame(u, w) /\ w.screen = u.screen /\ w.wild = u.wild
  BY SettledIsKept, DrawCellsGood, DrawCellsFrame, DrawCellsKept
<1>2. ~u.wild /\ u.visible =>
        \A i \in Cells : \/ w.pad[i] = Image(w.screen[i], FALSE)
                         \/ i = o /\ w.pad[i] = Image(w.screen[i], TRUE)
  <2> SUFFICES ASSUME ~u.wild, u.visible, NEW i \in Cells
               PROVE  \/ w.pad[i] = Image(w.screen[i], FALSE)
                      \/ i = o /\ w.pad[i] = Image(w.screen[i], TRUE)
    OBVIOUS
  <2>1. w.pad[i] = IF i \in InRows(u.dirty) THEN Image(u.screen[i], FALSE) ELSE u.pad[i]
    BY DEF DrawCells, Good, TermState
  <2>2. i \in InRows(u.dirty) <=> RowOf(i) \in u.dirty
    BY DEF InRows
  <2> HIDE DEF w
  <2> QED  BY <1>1, <2>1, <2>2 DEF Settled, CursorCell
<1>3. u.row \in RowIds /\ u.col \in ColIds /\ o \in Cells
  BY Position, OfsCell
<1>4. DrawnAt(w, DrawPos(w, u.row, u.col, TRUE), o) /\ Good(DrawPos(w, u.row, u.col, TRUE))
  <2> HIDE DEF w
  <2> QED  BY <1>1, <1>3, DrawPosPad, DrawPosGood
<1> HIDE DEF w
<1>5. Good(x) /\ x.row = u.row /\ x.col = u.col /\ x.wild = u.wild /\ x.visible = u.visible
  BY <1>1, <1>4 DEF DrawnAt, Frame
<1>6. ~u.wild /\ u.visible =>
        \A i \in Cells : \/ x.pad[i] = Image(x.screen[i], FALSE)
                         \/ i = o /\ x.pad[i] = Image(x.screen[i], TRUE)
  <2>1. CASE u.row \in u.dirty
    <3> DEFINE z == DrawPos(w, u.row, u.col, TRUE)
    <3>1. x = z
      BY <2>1
    <3> HIDE DEF z, x, o
    <3>2. ~u.wild /\ u.visible =>
            \A i \in Cells : \/ z.pad[i] = Image(z.screen[i], FALSE)
                             \/ i = o /\ z.pad[i] = Image(z.screen[i], TRUE)
      BY <1>2, <1>4 DEF DrawnAt, z
    <3> QED  BY <3>1, <3>2
  <2>2. CASE u.row \notin u.dirty
    BY <1>2, <2>2
  <2> QED  BY <2>1, <2>2
<1>7. lazy_flush(u) \in {u, y}
  BY DEF lazy_flush, w
<1> HIDE DEF x
<1>8. /\ y.row = u.row /\ y.col = u.col /\ y.wild = u.wild /\ y.visible = u.visible
      /\ y.screen = x.screen /\ y.pad = x.pad
  BY <1>5 DEF Good, TermState
<1> HIDE DEF y
<1>9. Settled(y)
  BY <1>6, <1>8 DEF Settled, CursorCell
<1> QED  BY <1>7, <1>9

\* What neither pad, screen, notes nor cursor sees.
LEMMA SameSettled ==
  ASSUME NEW u, NEW w, Settled(u), w.screen = u.screen, w.pad = u.pad, w.dirty = u.dirty,
         w.lazy = u.lazy, w.visible = u.visible, w.wild = u.wild, w.row = u.row, w.col = u.col
  PROVE  Settled(w)
BY DEF Settled, CursorCell

\* The row of every cell is one that can be noted.
LEMMA RowOfRow ==
  ASSUME NEW i \in Cells
  PROVE  RowOf(i) \in RowIds
<1>1. i \in Int /\ 0 <= i /\ i < Ofs(Rows, 0) /\ i >= Ofs(0, 0) /\ RowOf(i) \in Int
  BY RowOfInt DEF Cells, Ofs
<1>2. (RowOf(i) < 0 <=> i < Ofs(0, 0)) /\ (RowOf(i) < Rows <=> i < Ofs(Rows, 0))
  BY <1>1, RowOfOfs
<1>3. Ofs(0, 0) \in Int /\ Ofs(Rows, 0) \in Int
  BY OfsRows
<1> QED  BY <1>1, <1>2, <1>3 DEF RowIds

LEMMA AllNotedSettled ==
  ASSUME NEW w, w.lazy, w.dirty = RowIds
  PROVE  Settled(w)
BY RowOfRow DEF Settled

\* What shows the terminal, scrolls its view or hides it.
LEMMA ShowsSettled ==
  ASSUME NEW u, Good(u), Settled(u)
  PROVE  /\ \A n \in Int : Settled(term_scrl(u, n))
         /\ Settled(RedrawChanged(u)) /\ Settled(term_save(u)) /\ Settled(Show(u))
<1>1. ASSUME NEW n \in Int
      PROVE  Settled(term_scrl(u, n))
  <2>1. CASE LIMIT(u.hpos + n, 0, NHIST) = 0
    <3> DEFINE v == [u EXCEPT !.hpos = 0]
    <3>1. term_scrl(u, n) = lazy_flush(v)
      BY <2>1 DEF term_scrl
    <3>2. Good(v)
      <4>1. 0 \in 0..NHIST
        OBVIOUS
      <4> QED  BY <4>1 DEF Good, TermState
    <3>3. Settled(v)
      BY DEF Good, TermState, Settled, CursorCell
    <3> HIDE DEF v
    <3> QED  BY <3>1, <3>2, <3>3, LazyFlushSettled
  <2>2. CASE LIMIT(u.hpos + n, 0, NHIST) # 0
    <3>1. term_scrl(u, n).lazy /\ term_scrl(u, n).dirty = RowIds
      BY <2>2 DEF term_scrl, Good, TermState
    <3> QED  BY <3>1, AllNotedSettled
  <2> QED  BY <2>1, <2>2
<1>2. Settled(RedrawChanged(u))
  BY LazyFlushSettled DEF RedrawChanged
<1>3. Settled(term_save(u))
  <2>1. term_save(u).visible = FALSE
    BY DEF term_save, lazy_start, Good, TermState
  <2> QED  BY <2>1 DEF Settled
<1>4. Settled(Show(u))
  <2> DEFINE v == [[u EXCEPT !.visible = TRUE] EXCEPT !.lazy = TRUE, !.dirty = RowIds]
  <2>1. Good(v) /\ v.lazy /\ v.dirty = RowIds
    BY DEF Good, TermState
  <2>2. Show(u) = lazy_flush(v)
    BY DEF Show, RedrawAll
  <2> HIDE DEF v
  <2> QED  BY <2>1, <2>2, AllNotedSettled, LazyFlushSettled
<1> QED  BY <1>1, <1>2, <1>3, <1>4

LEMMA ControlSettled ==
  ASSUME NEW u, Good(u), Settled(u), NEW s, s # "DECRC"
  PROVE  Settled(ctlseq(u, s))
<1>1. -u.col \in Int /\ 8 - (u.col % 8) \in Int /\ -1 \in Int
  BY Position
<1>2. (IF "AUTOCR" \in u.mode THEN -u.col ELSE 0) \in Int
  BY <1>1
<1>3. /\ Settled(advance(u, 0, 8 - (u.col % 8), 0)) /\ Settled(advance(u, 0, -1, 0))
      /\ Settled(advance(u, 0, -u.col, 0)) /\ Settled(advance(u, -1, 0, 1))
      /\ Settled(advance(u, 1, 0, 1)) /\ Settled(advance(u, 1, -u.col, 1))
  BY <1>1, AdvanceSettled
<1>4. Settled(advance(u, 1, IF "AUTOCR" \in u.mode THEN -u.col ELSE 0, 1))
  BY <1>2, AdvanceSettled
<1>5. Settled(misc_save(u))
  BY DEF Good, TermState, misc_save, Settled, CursorCell
<1> QED  BY <1>3, <1>4, <1>5, TermResetSettled DEF ctlseq

LEMMA EraseSettled ==
  ASSUME NEW u, Good(u), Settled(u), NEW a
  PROVE  /\ ~(a = 2 /\ "REV" \in u.mode) => Settled(EraseDisplay(u, a))
         /\ Settled(EraseLine(u, a))
<1>1. /\ u.col \in Int /\ 0 <= u.col /\ u.col + 1 \in Int /\ u.col + 1 <= Cols
      /\ u.row + 1 \in Int /\ u.row - 1 \in Int
  BY Position
<1>2. Settled(kill_chars(u, u.col, Cols)) /\ Good(kill_chars(u, u.col, Cols))
  BY <1>1, KillCharsGood, KillCharsSettled
<1>3. Settled(kill_chars(u, 0, u.col + 1)) /\ Good(kill_chars(u, 0, u.col + 1))
  BY <1>1, KillCharsGood, KillCharsSettled
<1>4. Settled(kill_chars(u, 0, Cols))
  BY KillCharsSettled
<1>5. Settled(blank_rows(kill_chars(u, u.col, Cols), u.row + 1, Rows))
  BY <1>1, <1>2, BlankRowsSettled
<1>6. Settled(blank_rows(kill_chars(u, 0, u.col + 1), 0, u.row - 1))
  BY <1>1, <1>3, BlankRowsSettled
<1> QED  BY <1>2, <1>3, <1>4, <1>5, <1>6, TermBlankSettled DEF EraseDisplay, EraseLine

LEMMA SetRegionSettled ==
  ASSUME NEW u, Good(u), Settled(u), NEW a \in Nat, NEW b \in Nat
  PROVE  Settled(set_region(u, a, b))
<1> DEFINE tp == LIMIT(a - 1, 0, Rows - 1)
           bt == LIMIT(IF b = 0 THEN Rows ELSE b, tp + 1, Rows)
           w  == [u EXCEPT !.top = tp, !.bot = bt]
<1>1. tp \in RowIds /\ tp \in Int /\ tp + 1 <= Rows
  BY DEF LIMIT, RowIds
<1>2. bt \in 1..Rows /\ tp < bt
  <2> HIDE DEF tp
  <2> QED  BY <1>1 DEF LIMIT, RowIds
<1>3. Good(w) /\ Settled(w)
  <2> HIDE DEF tp, bt
  <2>1. Good(w)
    BY <1>1, <1>2 DEF Good, TermState
  <2>2. Settled(w)
    BY DEF Good, TermState, Settled, CursorCell
  <2> QED  BY <2>1, <2>2
<1>4. set_region(u, a, b) \in {w, move_cursor(w, tp, 0)}
  BY DEF set_region
<1> HIDE DEF w, tp
<1> QED  BY <1>1, <1>3, <1>4, MoveCursorSettled

LEMMA CsiSettled ==
  ASSUME NEW u, Good(u), Settled(u), NEW s \in [seq : STRING, a : Nat, b : Nat],
         ~("REV" \in u.mode /\ s.seq = "ED" /\ s.a = 2)
  PROVE  Settled(csiseq(u, s))
<1> DEFINE g == Given(s.a)
<1>1. /\ s.a \in Nat /\ s.b \in Nat /\ u.col \in Int /\ 0 <= u.col /\ u.col < Cols
      /\ u.top \in Int
  BY Position
<1>2. g \in Int /\ g >= 1 /\ -g \in Int
  BY <1>1 DEF Given, Greater
<1>3. CASE s.seq \in {"CUP", "VPA"}
  <2>1. \A r \in Int : absrow(u, r) \in Int
    BY <1>1 DEF absrow
  <2>2. Greater(0, s.a - 1) \in Int /\ Greater(0, s.b - 1) \in Int
    BY <1>1 DEF Greater
  <2>3. Settled(move_cursor(u, absrow(u, Greater(0, s.a - 1)), Greater(0, s.b - 1)))
    BY <2>1, <2>2, MoveCursorSettled
  <2>4. Settled(move_cursor(u, absrow(u, g - 1), u.col))
    <3> HIDE DEF g
    <3> QED  BY <1>1, <1>2, <2>1, MoveCursorSettled
  <2>5. s.seq = "CUP" \/ s.seq = "VPA"
    BY <1>3
  <2> QED  BY <2>3, <2>4, <2>5 DEF csiseq
<1>4. CASE s.seq \in {"CUU", "CUD", "CUF", "CUB", "CHA"}
  <2> DEFINE h == Greater(0, s.a - 1) - u.col
  <2>1. h \in Int
    BY <1>1 DEF Greater
  <2>2. /\ Settled(advance(u, -g, 0, 0)) /\ Settled(advance(u, g, 0, 0))
        /\ Settled(advance(u, 0, g, 0)) /\ Settled(advance(u, 0, -g, 0))
        /\ Settled(advance(u, 0, h, 0))
    <3> HIDE DEF g, h
    <3> QED  BY <1>2, <2>1, AdvanceSettled
  <2>3. csiseq(u, s) \in {advance(u, -g, 0, 0), advance(u, g, 0, 0), advance(u, 0, g, 0),
                          advance(u, 0, -g, 0), advance(u, 0, h, 0)}
    BY <1>4 DEF csiseq
  <2> HIDE DEF g, h
  <2> QED  BY <2>2, <2>3
<1>5. CASE s.seq \in {"ED", "EL", "ECH"}
  <2> DEFINE e == Lesser(u.col + g, Cols)
  <2>1. e \in Int /\ e <= Cols
    <3> HIDE DEF g
    <3> QED  BY <1>1, <1>2 DEF Lesser
  <2>2. Settled(kill_chars(u, u.col, e))
    <3> HIDE DEF e
    <3> QED  BY <1>1, <2>1, KillCharsSettled
  <2>3. s.seq = "ED" \/ s.seq = "EL" \/ s.seq = "ECH"
    BY <1>5
  <2> QED  BY <2>2, <2>3, EraseSettled DEF csiseq
<1>6. CASE s.seq \in {"IL", "DL"}
  <2>1. Settled(insert_lines(u, g)) /\ Settled(delete_lines(u, g))
    <3> HIDE DEF g
    <3> QED  BY <1>2, InsertLinesSettled, DeleteLinesSettled
  <2>2. s.seq = "IL" \/ s.seq = "DL"
    BY <1>6
  <2> QED  BY <2>1, <2>2 DEF csiseq
<1>7. CASE s.seq \in {"SU", "SD"}
  <2>1. Settled(scroll_screen(u, g, Rows - g, -g)) /\ Settled(scroll_screen(u, 0, Rows - g, g))
    <3> HIDE DEF g
    <3>1. g >= 0 /\ Rows - g \in Int
      BY <1>2
    <3> QED  BY <1>2, <3>1, ScrollScreenSettled
  <2>2. s.seq = "SU" \/ s.seq = "SD"
    BY <1>7
  <2> QED  BY <2>1, <2>2 DEF csiseq
<1>8. CASE s.seq \in {"DCH", "ICH"}
  <2> DEFINE n == LIMIT(s.a, 1, Cols - u.col)
  <2>1. n \in Int /\ 1 <= n /\ n <= Cols - u.col
    BY <1>1 DEF LIMIT
  <2>2. Settled(delete_chars(u, n)) /\ Settled(insert_chars(u, n))
    <3> HIDE DEF n
    <3> QED  BY <2>1, CharsSettled
  <2>3. s.seq = "DCH" \/ s.seq = "ICH"
    BY <1>8
  <2> QED  BY <2>2, <2>3 DEF csiseq
<1>9. CASE s.seq = "SGR"
  <2>1. Settled(setattr(u, s.a))
    BY DEF setattr, Good, TermState, Settled, CursorCell
  <2> QED  BY <1>9, <2>1 DEF csiseq
<1>10. CASE s.seq = "STBM"
  BY <1>1, <1>10, SetRegionSettled DEF csiseq
<1>11. CASE s.seq \notin {"CUP", "VPA", "CUU", "CUD", "CUF", "CUB", "CHA", "ED", "EL", "ECH", "IL",
                          "DL", "SU", "SD", "DCH", "ICH", "SGR", "STBM"}
  BY <1>11 DEF csiseq
<1> HIDE DEF g
<1> QED  BY <1>3, <1>4, <1>5, <1>6, <1>7, <1>8, <1>9, <1>10, <1>11

LEMMA StartsSettled ==
  ASSUME Good(t), Settled(t), NEW u \in Starts
  PROVE  Settled(u)
<1>1. CASE u = t
  BY <1>1
<1>2. CASE u # t
  <2>1. u = lazy_start(t) /\ ~t.lazy
    BY <1>2 DEF Starts
  <2> QED  BY <2>1 DEF lazy_start, Good, TermState, Settled, CursorCell
<1> QED  BY <1>1, <1>2

LEMMA ReadingSettled ==
  ASSUME NEW u, Good(u), Settled(u)
  PROVE  Settled(Reading(u)) /\ Settled([u EXCEPT !.reading = FALSE])
BY DEF Reading, Good, TermState, Settled, CursorCell

\* term.c, candraw, lazy_start, lazy_flush, draw_cursor and all that draws: for
\* every size of terminal and every program, no step but DECRC and, in reverse
\* video, ED 2 lets the picture fall behind the screen.
THEOREM PictureNeverBehind == TermSpec => PictureKept
<1>1. TermSpec => []Good(t)
  <2>1. TermInit => Good(t)
    BY TermResetGood DEF TermInit
  <2>2. Good(t) /\ [TermNext]_t => Good(t)'
    BY StepGood
  <2> QED  BY <2>1, <2>2, PTL DEF TermSpec
<1> DEFINE A == Settled(t) =>
                  \/ Settled(t')
                  \/ Control("DECRC")
                  \/ "REV" \in t.mode /\ \E s \in CsiArgs : s.seq = "ED" /\ s.a = 2 /\ Csi(s)
<1>2. Good(t) /\ TermNext => A
  <2> SUFFICES ASSUME Good(t), TermNext, Settled(t), ~Control("DECRC"),
                      ~("REV" \in t.mode /\ \E s \in CsiArgs : s.seq = "ED" /\ s.a = 2 /\ Csi(s))
               PROVE  Settled(t')
    OBVIOUS
  <2>1. ASSUME NEW u \in Starts
        PROVE  Good(u) /\ Settled(u) /\ u.mode = t.mode
    BY StartsGood, StartsSettled, StartsFrame
  <2>2. ASSUME NEW c \in Chars, PutChar(c)
        PROVE  Settled(t')
    <3>1. PICK u \in Starts : t' = Reading(insertchar(u, c))
      BY <2>2 DEF PutChar
    <3>2. c \in Glyphs
      BY DEF Glyphs
    <3> QED  BY <2>1, <3>1, <3>2, InsertCharGood, InsertCharSettled, ReadingSettled
  <2>3. ASSUME NEW c \in WideChars, PutWide(c)
        PROVE  Settled(t')
    <3>1. PICK u \in Starts : t' = Reading(insertwide(u, c))
      BY <2>3 DEF PutWide
    <3> QED  BY <2>1, <3>1, InsertWideGood, InsertWideSettled, ReadingSettled
  <2>4. ASSUME NEW s \in Controls, Control(s)
        PROVE  Settled(t')
    <3>1. PICK u \in Starts : t' = Reading(ctlseq(u, s))
      BY <2>4 DEF Control
    <3>2. s # "DECRC"
      BY <2>4
    <3> QED  BY <2>1, <3>1, <3>2, ControlGood, ControlSettled, ReadingSettled
  <2>5. ASSUME NEW s \in CsiArgs, Csi(s)
        PROVE  Settled(t')
    <3>1. PICK u \in Starts : t' = Reading(csiseq(u, s))
      BY <2>5 DEF Csi
    <3>2. s \in [seq : STRING, a : Nat, b : Nat]
      BY TermInput
    <3>3. ~("REV" \in u.mode /\ s.seq = "ED" /\ s.a = 2)
      BY <2>1, <2>5
    <3> QED  BY <2>1, <3>1, <3>2, <3>3, CsiGood, CsiSettled, ReadingSettled
  <2>6. ASSUME NEW m \in ModeSeqs, NEW set, Mode(m, set)
        PROVE  Settled(t')
    <3>1. PICK u \in Starts : t' = Reading(modeseq(u, m, set))
      BY <2>6 DEF Mode
    <3> DEFINE v == [u EXCEPT !.mode = BIT_SET(u.mode, m, set)]
    <3>2. Good(u) /\ Settled(u)
      BY <2>1
    <3>3. BIT_SET(u.mode, m, set) \in SUBSET Modes
      BY <3>2, TermInput DEF BIT_SET, Good, TermState
    <3>4. Good(v) /\ Settled(v)
      BY <3>2, <3>3, ModeGood, ModeSettled
    <3>5. modeseq(u, m, set) = draw_cursor(v, TRUE)
      BY DEF modeseq
    <3> HIDE DEF v
    <3>6. Good(modeseq(u, m, set)) /\ Settled(modeseq(u, m, set))
      BY <3>4, <3>5, DrawCursorGood, DrawCursorKept
    <3> QED  BY <3>1, <3>6, ReadingSettled
  <2>7. CASE EndRead
    <3>1. Good(lazy_flush(t)) /\ Settled(lazy_flush(t))
      BY LazyFlushGood, LazyFlushSettled
    <3> QED  BY <2>7, <3>1, ReadingSettled DEF EndRead
  <2>8. ASSUME NEW n \in ScrlSteps, Scrl(n)
        PROVE  Settled(t')
    <3>1. n \in Int
      BY TermInput
    <3> QED  BY <2>8, <3>1, ShowsSettled DEF Scrl
  <2>9. CASE Redraw
    BY <2>9, ShowsSettled DEF Redraw
  <2>10. CASE Hide
    BY <2>10, ShowsSettled DEF Hide
  <2>11. CASE Unhide
    BY <2>11, ShowsSettled DEF Unhide
  <2>12. CASE Crashed
    BY <2>12 DEF Crashed
  <2> QED
    BY <2>2, <2>3, <2>4, <2>5, <2>6, <2>7, <2>8, <2>9, <2>10, <2>11, <2>12 DEF TermNext
<1>3. Good(t) /\ [TermNext]_t => [A]_t
  BY <1>2
<1> QED  BY <1>1, <1>3, PTL DEF TermSpec, PictureKept
=============================================================================
