------------------------- MODULE ConsoleTermProofs -------------------------
(***************************************************************************)
(* Theorems about ConsoleTerm, for every console size and every stream.    *)
(*                                                                         *)
(* A terminal is calm when it draws at once, is visible, has not scrolled, *)
(* is in none of the modes that move or reverse characters, and its pad    *)
(* shows its screen.  A call of vtc_paint or vtc_cursormove keeps it calm  *)
(* and has the one effect its name says; a step of the console is a        *)
(* sequence of such calls, taken by induction on its length.               *)
(***************************************************************************)
EXTENDS ConsoleTerm, VtConsoleProofs

\* f records the terminal after each of the first n calls.
Traces(u, calls, n, f) ==
  f = [k \in 0..n |-> IF k = 0 THEN u ELSE Call(f[k - 1], calls[k])]

\* Every sequence of calls has a trace: the terminals it passes through.
LEMMA TraceExists ==
  ASSUME NEW u, NEW calls, NEW n \in Nat
  PROVE  \E f : Traces(u, calls, n, f)
<1> DEFINE S == { k \in Nat : \E f : Traces(u, calls, k, f) }
<1>1. 0 \in S
  <2> DEFINE f == [k \in 0..0 |-> u]
  <2>1. Traces(u, calls, 0, f)
    BY DEF Traces
  <2> QED  BY <2>1
<1>2. ASSUME NEW k \in 0..(n - 1), k \in S
      PROVE  k + 1 \in S
  <2>1. PICK f : Traces(u, calls, k, f)
    BY <1>2
  <2> DEFINE g == [j \in 0..(k + 1) |-> IF j = k + 1 THEN Call(f[k], calls[k + 1]) ELSE f[j]]
             h == [j \in 0..(k + 1) |-> IF j = 0 THEN u ELSE Call(g[j - 1], calls[j])]
  <2>2. ASSUME NEW j \in 0..(k + 1)
        PROVE  g[j] = IF j = 0 THEN u ELSE Call(g[j - 1], calls[j])
    <3>1. CASE j = k + 1
      <4>1. g[j] = Call(f[k], calls[j]) /\ g[j - 1] = f[k] /\ j # 0
        BY <3>1
      <4> HIDE DEF g
      <4> QED  BY <4>1
    <3>2. CASE j # k + 1
      <4>1. j \in 0..k /\ g[j] = f[j] /\ (j # 0 => g[j - 1] = f[j - 1])
        BY <3>2
      <4>2. f[j] = IF j = 0 THEN u ELSE Call(f[j - 1], calls[j])
        BY <2>1, <4>1 DEF Traces
      <4> HIDE DEF g
      <4> QED  BY <4>1, <4>2
    <3> QED  BY <3>1, <3>2
  <2>3. g = h
    BY <2>2
  <2>4. Traces(u, calls, k + 1, g)
    BY <2>3 DEF Traces
  <2> QED  BY <2>4
<1> HIDE DEF S
<1>3. \A k \in 0..n : k \in S
  BY <1>1, <1>2, SetInduction
<1> QED  BY <1>3 DEF S

\* Two traces that start alike and agree on their calls agree.
LEMMA TraceUnique ==
  ASSUME NEW u, NEW calls, NEW more, NEW n \in Nat, NEW m \in Nat, m <= n, NEW f, NEW g,
         Traces(u, calls, n, f), Traces(u, more, m, g), \A k \in 1..m : more[k] = calls[k]
  PROVE  g[m] = f[m]
<1> DEFINE S == { k \in Nat : g[k] = f[k] }
<1>1. 0 \in S
  BY DEF Traces
<1>2. ASSUME NEW k \in 0..(m - 1), k \in S
      PROVE  k + 1 \in S
  <2>1. k + 1 \in 0..n /\ k + 1 \in 0..m /\ k + 1 # 0 /\ (k + 1) - 1 = k /\ k + 1 \in 1..m
    OBVIOUS
  <2>2. f[k + 1] = Call(f[k], calls[k + 1]) /\ g[k + 1] = Call(g[k], more[k + 1])
    BY <2>1 DEF Traces
  <2> QED  BY <1>2, <2>1, <2>2
<1> HIDE DEF S
<1>3. \A k \in 0..m : k \in S
  BY <1>1, <1>2, SetInduction
<1> QED  BY <1>3 DEF S

\* After is the end of a trace.
LEMMA AfterTraced ==
  ASSUME NEW u, NEW calls, Len(calls) \in Nat
  PROVE  \E f : Traces(u, calls, Len(calls), f) /\ After(u, calls) = f[Len(calls)]
<1> DEFINE n == Len(calls)
           f == CHOOSE g : Traces(u, calls, n, g)
<1>1. Traces(u, calls, n, f)
  BY TraceExists
<1>2. After(u, calls) = f[n]
  BY DEF After, Traces
<1> QED  BY <1>1, <1>2

-----------------------------------------------------------------------------
(* A terminal that draws at once and never scrolls *)

Ink == {White, Black} \cup { Painted8[n] : n \in 0..7 }

Looks == [ch : T!Glyphs \cup {"other"}, fg : Ink, bg : Ink]

\* The states of the terminal that serves as the console's screen.
LEMMA TermStates ==
  T!TermState =
    [screen : [T!Cells -> T!Cell], pad : [T!Cells -> Looks],
     hist : [0..(NHIST - 1) -> [T!ColIds -> T!Glyphs]],
     dirty : SUBSET T!RowIds, lazy : BOOLEAN, visible : BOOLEAN,
     hrow : 0..(NHIST - 1), hpos : 0..NHIST,
     row : T!RowIds, col : T!ColIds, top : T!RowIds, bot : 1..Height,
     fg : Ink, bg : Ink, mode : SUBSET T!Modes, sav : T!State,
     reading : BOOLEAN, wild : BOOLEAN]
BY DEF T!TermState, Looks, Ink

\* The terminal's cells are the console's.
LEMMA SameCells ==
  /\ T!Cells = Cells
  /\ T!RowIds = 0..(Height - 1) /\ T!ColIds = 0..(Width - 1)
  /\ \A x \in Int, y \in Int : T!Ofs(y, x) = At(x, y)
<1>1. Height * Width = Width * Height
  BY ConsoleSize
<1>2. \A x \in Int, y \in Int : y * Width + x = x + y * Width
  BY ConsoleSize
<1> QED  BY <1>1, <1>2 DEF T!Cells, Cells, T!RowIds, T!ColIds, T!Ofs, At

Still(u) ==
  /\ u \in T!TermState /\ u.visible /\ ~u.lazy /\ ~u.wild /\ u.hrow = 0
  /\ "REV" \notin u.mode /\ "INSERT" \notin u.mode /\ "ORIGIN" \notin u.mode

\* The pad shows the screen, and nowhere a cursor.
Exact(u) == \A i \in T!Cells : u.pad[i] = T!Image(u.screen[i], FALSE)

Calm(u) == Still(u) /\ T!Settled(u)

\* w differs from u in its pad at most, and perhaps in its cursor.
SameText(u, w) == w.screen = u.screen /\ w.mode = u.mode /\ w.fg = u.fg /\ w.bg = u.bg

\* The cursor of such a terminal is on a cell.
LEMMA Place ==
  ASSUME NEW u, Still(u)
  PROVE  /\ u.row \in T!RowIds /\ u.col \in T!ColIds /\ T!Ofs(u.row, u.col) \in T!Cells
         /\ u.row \in 0..(Height - 1) /\ u.col \in 0..(Width - 1)
<1>1. u.row \in T!RowIds /\ u.col \in T!ColIds
  BY DEF Still, T!TermState
<1>2. u.row \in 0..(Height - 1) /\ u.col \in 0..(Width - 1)
  BY <1>1, SameCells
<1>3. T!Ofs(u.row, u.col) = At(u.col, u.row)
  BY <1>2, SameCells
<1>4. At(u.col, u.row) \in Cells
  BY <1>2, AtIsCell
<1> QED  BY <1>1, <1>2, <1>3, <1>4, SameCells

\* What a cell looks like, reversed or not, is made of the inks.
LEMMA ImageOfCell ==
  ASSUME NEW c \in T!Cell, NEW rev \in BOOLEAN
  PROVE  T!Image(c, rev) \in Looks
<1>1. c.ch \in T!Glyphs /\ c.fg \in Ink /\ c.bg \in Ink
  BY DEF T!Cell, Ink
<1> HIDE DEF Ink
<1> QED  BY <1>1 DEF T!Image, T!Look, Looks

\* Drawing the cursor's cell.
LEMMA DrawsCursor ==
  ASSUME NEW u, Still(u), NEW put \in BOOLEAN
  PROVE  LET o == T!Ofs(u.row, u.col)
             w == T!draw_cursor(u, put)
         IN  /\ Still(w) /\ SameText(u, w) /\ w.row = u.row /\ w.col = u.col
             /\ w.pad = [u.pad EXCEPT ![o] = T!Image(u.screen[o], put /\ "CURSOR" \in u.mode)]
<1> DEFINE o == T!Ofs(u.row, u.col)
           g == T!Image(u.screen[o], put /\ "CURSOR" \in u.mode)
           w == T!draw_cursor(u, put)
           p == [u.pad EXCEPT ![o] = g]
<1>1. o \in T!Cells
  BY Place
<1>2. w = [u EXCEPT !.pad[o] = g]
  BY DEF T!draw_cursor, T!Drawable, T!DrawPos, Still
<1>3. g \in Looks
  <2>1. u.screen[o] \in T!Cell
    BY <1>1 DEF Still, T!TermState
  <2>2. (put /\ "CURSOR" \in u.mode) \in BOOLEAN
    OBVIOUS
  <2> HIDE DEF o
  <2> QED  BY <2>1, <2>2, ImageOfCell
<1> HIDE DEF g, o
<1>4. w = [u EXCEPT !.pad = p]
  BY <1>2
<1>5. p \in [T!Cells -> Looks]
  <2>1. u.pad \in [T!Cells -> Looks]
    BY TermStates DEF Still
  <2> QED  BY <1>1, <1>3, <2>1
<1> HIDE DEF p, w
<1>6. /\ w.pad = p /\ SameText(u, w) /\ w.row = u.row /\ w.col = u.col
      /\ w.visible = u.visible /\ w.lazy = u.lazy /\ w.wild = u.wild /\ w.hrow = u.hrow
  BY <1>4 DEF Still, T!TermState, SameText
<1>7. w \in T!TermState
  BY <1>4, <1>5, TermStates DEF Still
<1>8. Still(w)
  BY <1>6, <1>7 DEF Still, SameText
<1> QED  BY <1>6, <1>8 DEF w, o, p, g

\* Taking the cursor away leaves a pad that shows the screen and no cursor.
LEMMA CursorOff ==
  ASSUME NEW u, Calm(u)
  PROVE  LET w == T!draw_cursor(u, FALSE)
         IN  Still(w) /\ Exact(w) /\ SameText(u, w) /\ w.row = u.row /\ w.col = u.col
<1> DEFINE o == T!Ofs(u.row, u.col)
           w == T!draw_cursor(u, FALSE)
<1>1. Still(u) /\ o \in T!Cells
  BY Place DEF Calm
<1>2. /\ Still(w) /\ SameText(u, w) /\ w.row = u.row /\ w.col = u.col
      /\ w.pad = [u.pad EXCEPT ![o] = T!Image(u.screen[o], FALSE)]
  <2>1. (FALSE /\ "CURSOR" \in u.mode) = FALSE
    OBVIOUS
  <2> QED  BY <1>1, <2>1, DrawsCursor
<1>3. \A i \in T!Cells : w.pad[i] = IF i = o THEN T!Image(u.screen[o], FALSE) ELSE u.pad[i]
  <2>1. DOMAIN u.pad = T!Cells
    BY <1>1 DEF Still, T!TermState
  <2> HIDE DEF w, o
  <2> QED  BY <1>2, <2>1
<1>4. \A i \in T!Cells : i # o => u.pad[i] = T!Image(u.screen[i], FALSE)
  BY DEF Calm, Still, T!Settled, T!CursorCell
<1> HIDE DEF w, o
<1>5. Exact(w)
  BY <1>2, <1>3, <1>4 DEF Exact, SameText
<1> QED  BY <1>2, <1>5 DEF w

\* Putting it back makes the terminal calm again.
LEMMA CursorOn ==
  ASSUME NEW u, Still(u), Exact(u)
  PROVE  LET w == T!draw_cursor(u, TRUE)
         IN  Calm(w) /\ SameText(u, w) /\ w.row = u.row /\ w.col = u.col
<1> DEFINE o == T!Ofs(u.row, u.col)
           w == T!draw_cursor(u, TRUE)
           rev == TRUE /\ "CURSOR" \in u.mode
<1>1. /\ Still(w) /\ SameText(u, w) /\ w.row = u.row /\ w.col = u.col
      /\ w.pad = [u.pad EXCEPT ![o] = T!Image(u.screen[o], rev)]
  BY DrawsCursor
<1>2. \A i \in T!Cells : i # o => w.pad[i] = T!Image(u.screen[i], FALSE)
  <2>1. DOMAIN u.pad = T!Cells
    BY DEF Still, T!TermState
  <2> HIDE DEF w, o
  <2> QED  BY <1>1, <2>1 DEF Exact
<1>3. w.pad[o] \in {T!Image(u.screen[o], FALSE), T!Image(u.screen[o], TRUE)}
  <2>1. DOMAIN u.pad = T!Cells /\ o \in T!Cells
    BY Place DEF Still, T!TermState
  <2>2. w.pad[o] = T!Image(u.screen[o], rev)
    <3> HIDE DEF w, o
    <3> QED  BY <1>1, <2>1
  <2>3. rev \in BOOLEAN
    OBVIOUS
  <2> HIDE DEF rev, w, o
  <2> QED  BY <2>2, <2>3
<1>4. T!CursorCell(w) = o
  BY <1>1 DEF T!CursorCell
<1> HIDE DEF w, o
<1>5. T!Settled(w)
  BY <1>1, <1>2, <1>3, <1>4 DEF T!Settled, SameText
<1> QED  BY <1>1, <1>5 DEF w, Calm

\* w came of u by moving the cursor towards row r and column c.
MovedTo(u, w, r, c) ==
  /\ Calm(w) /\ w.screen = u.screen /\ w.fg = u.fg /\ w.bg = u.bg
  /\ w.mode = u.mode \ {"WRAPREADY"}
  /\ w.row = T!LIMIT(r, 0, Height - 1) /\ w.col = T!LIMIT(c, 0, Width - 1)

\* move_cursor: the old cell loses the cursor, the new one gets it.
LEMMA MovesCursor ==
  ASSUME NEW u, Calm(u), NEW r \in Int, NEW c \in Int
  PROVE  MovedTo(u, T!move_cursor(u, r, c), r, c)
<1> DEFINE v == T!draw_cursor(u, FALSE)
           rr == T!LIMIT(r, 0, Height - 1)
           cc == T!LIMIT(c, 0, Width - 1)
           w == [v EXCEPT !.row = rr, !.col = cc]
           x == T!draw_cursor(w, TRUE)
           y == [x EXCEPT !.mode = x.mode \ {"WRAPREADY"}]
<1>1. T!move_cursor(u, r, c) = y
  <2>1. ~T!origin(u)
    BY DEF T!origin, Calm, Still
  <2> QED  BY <2>1 DEF T!move_cursor
<1>2. Still(v) /\ Exact(v) /\ SameText(u, v)
  BY CursorOff
<1>3. rr \in T!RowIds /\ cc \in T!ColIds
  <2>1. rr \in 0..(Height - 1) /\ cc \in 0..(Width - 1)
    BY ConsoleSize DEF T!LIMIT
  <2> HIDE DEF rr, cc
  <2> QED  BY <2>1, SameCells
<1> HIDE DEF v, rr, cc
<1>4. /\ w.screen = v.screen /\ w.pad = v.pad /\ w.mode = v.mode /\ w.fg = v.fg /\ w.bg = v.bg
      /\ w.visible = v.visible /\ w.lazy = v.lazy /\ w.wild = v.wild /\ w.hrow = v.hrow
      /\ w.row = rr /\ w.col = cc /\ w \in T!TermState
  BY <1>2, <1>3, TermStates DEF Still
<1> HIDE DEF w
<1>5. Still(w) /\ Exact(w)
  BY <1>2, <1>4 DEF Still, Exact
<1>6. Calm(x) /\ SameText(w, x) /\ x.row = rr /\ x.col = cc
  BY <1>4, <1>5, CursorOn
<1> HIDE DEF x
<1>7. /\ y.screen = x.screen /\ y.pad = x.pad /\ y.mode = x.mode \ {"WRAPREADY"}
      /\ y.fg = x.fg /\ y.bg = x.bg
      /\ y.visible = x.visible /\ y.lazy = x.lazy /\ y.wild = x.wild /\ y.hrow = x.hrow
      /\ y.row = x.row /\ y.col = x.col /\ y.dirty = x.dirty /\ y \in T!TermState
  BY <1>6, TermStates DEF Calm, Still
<1> HIDE DEF y
<1>8. Calm(y)
  BY <1>6, <1>7 DEF Calm, Still, T!Settled, T!CursorCell
<1> QED  BY <1>1, <1>2, <1>4, <1>6, <1>7, <1>8 DEF MovedTo, SameText, rr, cc

\* The colours are not part of the picture.
Colored(u, f, b) == [u EXCEPT !.fg = f, !.bg = b]

\* term_setfgcolor and term_setbgcolor draw nothing.
LEMMA ColorsCalm ==
  ASSUME NEW u, Calm(u), NEW f \in Ink, NEW b \in Ink
  PROVE  /\ Calm(Colored(u, f, b)) /\ Colored(u, f, b).screen = u.screen
         /\ Colored(u, f, b).fg = f /\ Colored(u, f, b).bg = b
<1> DEFINE w == Colored(u, f, b)
<1>1. /\ w.screen = u.screen /\ w.pad = u.pad /\ w.mode = u.mode /\ w.fg = f /\ w.bg = b
      /\ w.visible = u.visible /\ w.lazy = u.lazy /\ w.wild = u.wild /\ w.hrow = u.hrow
      /\ w.row = u.row /\ w.col = u.col /\ w.dirty = u.dirty /\ w \in T!TermState
  BY TermStates DEF Calm, Still, Colored
<1> HIDE DEF w
<1>2. Calm(w)
  BY <1>1 DEF Calm, Still, T!Settled, T!CursorCell
<1> QED  BY <1>1, <1>2 DEF w

\* The screen s with the cell o written.
With(s, o, ch, f, b) ==
  [i \in T!Cells |-> IF i = o THEN [ch |-> ch, fg |-> f, bg |-> b] ELSE s[i]]

\* draw_char in the cursor's cell changes that cell and shows it.
LEMMA DrawsChar ==
  ASSUME NEW u, Calm(u), NEW ch \in T!Glyphs
  PROVE  LET w == T!DrawChars(u, ch, {u.col})
         IN  /\ Calm(w) /\ w.screen = With(u.screen, T!Ofs(u.row, u.col), ch, u.fg, u.bg)
             /\ w.row = u.row /\ w.col = u.col /\ w.mode = u.mode
<1> DEFINE o == T!Ofs(u.row, u.col)
           cells == { T!Ofs(u.row, c) : c \in {u.col} }
           s == With(u.screen, o, ch, u.fg, u.bg)
           v == [u EXCEPT !.screen = s]
           p == [i \in T!Cells |-> IF i \in {o} THEN T!Image(v.screen[i], FALSE) ELSE v.pad[i]]
           w == [v EXCEPT !.pad = p]
<1>0. Still(u) /\ o \in T!Cells
  BY Place DEF Calm
<1>1. cells = {o}
  OBVIOUS
<1>2. T!DrawChars(u, ch, {u.col}) = w
  <2>1. T!fgcolor(u) = u.fg /\ T!bgcolor(u) = u.bg
    BY <1>0 DEF Still, T!fgcolor, T!bgcolor
  <2>2. T!Drawable(u) /\ {u.col} # {}
    BY <1>0 DEF Still, T!Drawable
  <2>3. s = [i \in T!Cells |-> IF i \in cells THEN [ch |-> ch, fg |-> T!fgcolor(u), bg |-> T!bgcolor(u)]
                               ELSE u.screen[i]]
    BY <1>1, <2>1 DEF With
  <2>4. T!DrawChars(u, ch, {u.col}) = T!DrawCells(v, cells)
    <3> DEFINE z == [i \in T!Cells |->
                       IF i \in cells THEN [ch |-> ch, fg |-> T!fgcolor(u), bg |-> T!bgcolor(u)]
                       ELSE u.screen[i]]
    <3>1. T!DrawChars(u, ch, {u.col}) = T!DrawCells([u EXCEPT !.screen = z], cells)
      BY <2>2 DEF T!DrawChars
    <3> HIDE DEF s, cells
    <3>2. z = s
      BY <2>3
    <3> HIDE DEF z
    <3> QED  BY <3>1, <3>2
  <2> HIDE DEF v, cells
  <2>5. T!DrawCells(v, {o}) = w
    BY DEF T!DrawCells
  <2> QED  BY <1>1, <2>4, <2>5
<1>3. s \in [T!Cells -> T!Cell]
  <2>1. [ch |-> ch, fg |-> u.fg, bg |-> u.bg] \in T!Cell
    <3>1. u.fg \in Ink /\ u.bg \in Ink
      BY <1>0, TermStates DEF Still
    <3> QED  BY <3>1 DEF T!Cell, Ink
  <2>2. u.screen \in [T!Cells -> T!Cell]
    BY <1>0, TermStates DEF Still
  <2> QED  BY <2>1, <2>2 DEF With
<1> HIDE DEF s
<1>4. /\ v.screen = s /\ v.pad = u.pad /\ v.mode = u.mode /\ v.fg = u.fg /\ v.bg = u.bg
      /\ v.visible = u.visible /\ v.lazy = u.lazy /\ v.wild = u.wild /\ v.hrow = u.hrow
      /\ v.row = u.row /\ v.col = u.col /\ v \in T!TermState
  BY <1>0, <1>3, TermStates DEF Still
<1> HIDE DEF v
<1>5. p \in [T!Cells -> Looks]
  <2>1. \A i \in T!Cells : T!Image(v.screen[i], FALSE) \in Looks
    BY <1>3, <1>4, ImageOfCell
  <2>2. v.pad \in [T!Cells -> Looks]
    BY <1>4, TermStates
  <2> QED  BY <2>1, <2>2
<1>6. \A i \in T!Cells : p[i] = T!Image(s[i], FALSE)
  <2>1. ASSUME NEW i \in T!Cells, i # o
        PROVE  u.pad[i] = T!Image(s[i], FALSE)
    <3>1. u.pad[i] = T!Image(u.screen[i], FALSE)
      BY <2>1 DEF Calm, Still, T!Settled, T!CursorCell
    <3>2. s[i] = u.screen[i]
      BY <2>1 DEF s, With
    <3> QED  BY <3>1, <3>2
  <2>2. ASSUME NEW i \in T!Cells
        PROVE  p[i] = T!Image(s[i], FALSE)
    <3>1. p[i] = IF i = o THEN T!Image(v.screen[i], FALSE) ELSE v.pad[i]
      OBVIOUS
    <3> HIDE DEF p, o
    <3> QED  BY <1>4, <2>1, <3>1
  <2> QED  BY <2>2
<1> HIDE DEF p
<1>7. /\ w.screen = s /\ w.pad = p /\ w.mode = u.mode
      /\ w.visible = u.visible /\ w.lazy = u.lazy /\ w.wild = u.wild /\ w.hrow = u.hrow
      /\ w.row = u.row /\ w.col = u.col /\ w \in T!TermState
  BY <1>4, <1>5, TermStates
<1> HIDE DEF w
<1>8. Calm(w)
  <2>1. Still(w)
    BY <1>0, <1>7 DEF Still
  <2>2. T!Settled(w)
    BY <1>6, <1>7 DEF T!Settled
  <2> QED  BY <2>1, <2>2 DEF Calm
<1> QED  BY <1>2, <1>7, <1>8 DEF s

ConsoleCell == [ink : BOOLEAN, attr : Attrs]

\* The cell that vtc_paint paints in.
Target(x, y) == T!Ofs(T!LIMIT(y, 0, Height - 1), T!LIMIT(x, 0, Width - 1))

\* How a cell of the console is to be shown.
Shown(cell) == [ch |-> IF cell.ink THEN "x" ELSE "",
                fg |-> Painted8[cell.attr.fg], bg |-> Painted8[cell.attr.bg]]

\* w came of u by painting cell at x and y.
PaintedAt(u, w, cell, x, y) ==
  /\ Calm(w)
  /\ w.screen = [i \in T!Cells |-> IF i = Target(x, y) THEN Shown(cell) ELSE u.screen[i]]

\* Without WRAPREADY and INSERT a character is drawn, and the cursor moves on.
LEMMA InsertsInPlace ==
  ASSUME NEW b, Calm(b), "WRAPREADY" \notin b.mode, NEW ch \in T!Glyphs
  PROVE  LET w == T!insertchar(b, ch)
         IN  Calm(w) /\ w.screen = With(b.screen, T!Ofs(b.row, b.col), ch, b.fg, b.bg)
<1> DEFINE d == T!DrawChars(b, ch, {b.col})
           e == [d EXCEPT !.mode = d.mode \cup {"WRAPREADY"}]
           c == T!LIMIT(d.col + 1, 0, Width - 1)
           f == T!move_cursor(d, d.row + 0, c)
<1>1. /\ Calm(d) /\ d.screen = With(b.screen, T!Ofs(b.row, b.col), ch, b.fg, b.bg)
  BY DrawsChar
<1>2. T!insertchar(b, ch) = IF d.col = Width - 1 THEN e ELSE T!advance(d, 0, 1, 1)
  <2>1. T!Wrapped(b) = b
    BY DEF T!Wrapped
  <2>2. T!Shifted(b) = b
    BY DEF T!Shifted, Calm, Still
  <2> QED  BY <2>1, <2>2 DEF T!insertchar
<1> HIDE DEF d
<1>3. T!advance(d, 0, 1, 1) = f
  BY DEF T!advance
<1>4. Calm(f) /\ f.screen = d.screen
  <2>1. d.row \in Int /\ d.col \in Int
    BY <1>1, Place DEF Calm
  <2>2. d.row + 0 \in Int /\ c \in Int
    BY <2>1, ConsoleSize DEF T!LIMIT
  <2> HIDE DEF c
  <2> QED  BY <1>1, <2>2, MovesCursor DEF MovedTo
<1>5. Calm(e) /\ e.screen = d.screen
  <2>1. /\ e.screen = d.screen /\ e.pad = d.pad /\ e.mode = d.mode \cup {"WRAPREADY"}
        /\ e.visible = d.visible /\ e.lazy = d.lazy /\ e.wild = d.wild /\ e.hrow = d.hrow
        /\ e.row = d.row /\ e.col = d.col /\ e.dirty = d.dirty /\ e \in T!TermState
    BY <1>1, TermStates DEF Calm, Still, T!Modes
  <2> HIDE DEF e
  <2> QED  BY <1>1, <2>1 DEF Calm, Still, T!Settled, T!CursorCell
<1> HIDE DEF e, f
<1> QED  BY <1>1, <1>2, <1>3, <1>4, <1>5

\* vtc_paint puts one cell, wherever it is asked to paint.
LEMMA Paints ==
  ASSUME NEW u, Calm(u), NEW cell \in ConsoleCell, NEW x \in Int, NEW y \in Int
  PROVE  PaintedAt(u, vtc_paint(u, cell, x, y), cell, x, y)
<1> DEFINE f == Painted8[cell.attr.fg]
           b == Painted8[cell.attr.bg]
           ch == IF cell.ink THEN "x" ELSE ""
           v == Colored(u, f, b)
           w == T!move_cursor(v, y, x)
           z == T!insertchar(w, ch)
<1>1. f \in Ink /\ b \in Ink /\ ch \in T!Glyphs
  <2>1. cell.attr.fg \in 0..7 /\ cell.attr.bg \in 0..7
    BY DEF ConsoleCell, Attrs
  <2>2. ch \in T!Glyphs
    BY DEF T!Glyphs
  <2>3. \A n \in 0..7 : Painted8[n] \in Ink
    BY DEF Ink
  <2>4. Painted8[cell.attr.fg] \in Ink /\ Painted8[cell.attr.bg] \in Ink
    BY <2>1, <2>3
  <2> QED  BY <2>2, <2>4
<1>2. Calm(v) /\ v.screen = u.screen /\ v.fg = f /\ v.bg = b
  <2>1. f \in Ink /\ b \in Ink
    BY <1>1
  <2> HIDE DEF f, b, ch
  <2> QED  BY <2>1, ColorsCalm
<1> HIDE DEF v
<1>3. MovedTo(v, w, y, x)
  BY <1>2, MovesCursor
<1>4. /\ Calm(w) /\ w.screen = u.screen /\ w.fg = f /\ w.bg = b /\ "WRAPREADY" \notin w.mode
      /\ T!Ofs(w.row, w.col) = Target(x, y)
  BY <1>2, <1>3 DEF MovedTo, Target
<1> HIDE DEF w
<1>5. Calm(z) /\ z.screen = With(w.screen, T!Ofs(w.row, w.col), ch, w.fg, w.bg)
  <2> HIDE DEF ch
  <2> QED  BY <1>1, <1>4, InsertsInPlace
<1>6. vtc_paint(u, cell, x, y) = z
  BY DEF vtc_paint, v, w, Colored
<1>7. z.screen = [i \in T!Cells |-> IF i = Target(x, y) THEN Shown(cell) ELSE u.screen[i]]
  <2>1. Shown(cell) = [ch |-> ch, fg |-> f, bg |-> b]
    BY DEF Shown
  <2> HIDE DEF z, ch, f, b
  <2> QED  BY <1>4, <1>5, <2>1 DEF With
<1> QED  BY <1>5, <1>6, <1>7 DEF PaintedAt

-----------------------------------------------------------------------------
(* Sequences of calls *)

Calls == [paints : {TRUE}, cell : ConsoleCell, x : Int, y : Int]
           \cup [paints : {FALSE}, x : Int, y : Int]

\* No call changes nothing.
LEMMA AfterNone ==
  ASSUME NEW u
  PROVE  After(u, <<>>) = u
<1>1. Len(<<>>) = 0
  OBVIOUS
<1>2. PICK f : Traces(u, <<>>, Len(<<>>), f) /\ After(u, <<>>) = f[Len(<<>>)]
  BY <1>1, AfterTraced
<1> QED  BY <1>1, <1>2 DEF Traces

\* The last call comes after the others.
LEMMA AfterAppend ==
  ASSUME NEW u, NEW s \in Seq(Calls), NEW c \in Calls
  PROVE  After(u, Append(s, c)) = Call(After(u, s), c)
<1> DEFINE n == Len(s)
           r == Append(s, c)
<1>1. n \in Nat /\ Len(r) = n + 1 /\ r[n + 1] = c /\ \A k \in 1..n : s[k] = r[k]
  OBVIOUS
<1> HIDE DEF r, n
<1>2. PICK f : Traces(u, s, n, f) /\ After(u, s) = f[n]
  BY <1>1, AfterTraced DEF n
<1>3. PICK g : Traces(u, r, n + 1, g) /\ After(u, r) = g[n + 1]
  <2>1. Len(r) \in Nat
    BY <1>1
  <2>2. \E g : Traces(u, r, Len(r), g) /\ After(u, r) = g[Len(r)]
    BY <2>1, AfterTraced
  <2> QED  BY <1>1, <2>2
<1>4. f[n] = g[n]
  BY <1>1, <1>2, <1>3, TraceUnique
<1>5. g[n + 1] = Call(g[n], r[n + 1])
  <2>1. n + 1 \in 0..(n + 1) /\ n + 1 # 0 /\ (n + 1) - 1 = n
    BY <1>1
  <2> QED  BY <1>3, <2>1 DEF Traces
<1> QED  BY <1>1, <1>2, <1>3, <1>4, <1>5 DEF r

\* A call keeps the terminal calm, wherever it paints or moves to.
LEMMA CallCalm ==
  ASSUME NEW u, Calm(u), NEW c \in Calls
  PROVE  /\ Calm(Call(u, c))
         /\ c.paints => PaintedAt(u, Call(u, c), c.cell, c.x, c.y)
         /\ ~c.paints => MovedTo(u, Call(u, c), c.y, c.x)
<1>1. CASE c \in [paints : {TRUE}, cell : ConsoleCell, x : Int, y : Int]
  <2>1. c.paints /\ c.cell \in ConsoleCell /\ c.x \in Int /\ c.y \in Int
    BY <1>1
  <2>2. PaintedAt(u, Call(u, c), c.cell, c.x, c.y)
    BY <2>1, Paints DEF Call
  <2> QED  BY <2>1, <2>2 DEF PaintedAt
<1>2. CASE c \in [paints : {FALSE}, x : Int, y : Int]
  <2>1. ~c.paints /\ c.x \in Int /\ c.y \in Int
    BY <1>2
  <2>2. MovedTo(u, Call(u, c), c.y, c.x)
    BY <2>1, MovesCursor DEF Call, vtc_cursormove
  <2> QED  BY <2>1, <2>2 DEF MovedTo
<1> QED  BY <1>1, <1>2 DEF Calls

\* A cell's column and row lead back to it.
LEMMA TargetOfCell ==
  ASSUME NEW i \in Cells
  PROVE  i % Width \in Int /\ i \div Width \in Int /\ Target(i % Width, i \div Width) = i
<1> DEFINE q == i \div Width
           m == i % Width
<1>1. i \in Int /\ 0 <= i /\ i < Width * Height
  BY ConsoleSize DEF Cells
<1>2. q \in Int /\ 0 <= q /\ q * Width <= i /\ i < q * Width + Width
  BY <1>1, ConsoleSize
<1>3. m \in Int /\ 0 <= m /\ m <= Width - 1 /\ q * Width + m = i
  BY <1>1, ConsoleSize
<1> HIDE DEF q, m
<1>4. q <= Height - 1
  <2>1. SUFFICES ASSUME q >= Height
                 PROVE  FALSE
    BY <1>2, ConsoleSize
  <2>2. q * Width >= Height * Width
    BY <1>2, <2>1, ConsoleSize
  <2>3. Height * Width = Width * Height
    BY ConsoleSize
  <2> QED  BY <1>1, <1>2, <2>2, <2>3, ConsoleSize
<1>5. T!LIMIT(q, 0, Height - 1) = q /\ T!LIMIT(m, 0, Width - 1) = m
  BY <1>2, <1>3, <1>4, ConsoleSize DEF T!LIMIT
<1>6. Target(m, q) = i
  BY <1>3, <1>5 DEF Target, T!Ofs
<1> QED  BY <1>2, <1>3, <1>6 DEF q, m

\* On the screen nothing is clamped.
LEMMA TargetOnScreen ==
  ASSUME NEW x \in 0..(Width - 1), NEW y \in 0..(Height - 1)
  PROVE  Target(x, y) = At(x, y)
<1>1. T!LIMIT(y, 0, Height - 1) = y /\ T!LIMIT(x, 0, Width - 1) = x
  BY ConsoleSize DEF T!LIMIT
<1> QED  BY <1>1, SameCells DEF Target

PaintOf(buf, i) == Paint(buf[i], i % Width, i \div Width)

\* Painting a cell of the buffer is a call.
LEMMA PaintOfIsCall ==
  ASSUME NEW buf \in [Cells -> ConsoleCell], NEW i \in Cells
  PROVE  PaintOf(buf, i) \in Calls
<1>1. buf[i] \in ConsoleCell /\ i % Width \in Int /\ i \div Width \in Int
  BY TargetOfCell
<1> QED  BY <1>1 DEF PaintOf, Paint, Calls

\* The calls of PaintCells, one for each cell of a range that is not empty.
LEMMA PaintCellsDef ==
  ASSUME NEW buf, NEW from, NEW to, NEW k, from < to, to - from = k
  PROVE  PaintCells(buf, from, to) = [j \in 1..k |-> PaintOf(buf, from + j - 1)]
<1>1. PaintCells(buf, from, to) = [j \in 1..(to - from) |-> PaintOf(buf, from + j - 1)]
  BY DEF PaintCells, PaintOf
<1> QED  BY <1>1

\* PaintCells of a range inside the buffer is a sequence of calls.
LEMMA PaintCellsSeq ==
  ASSUME NEW buf \in [Cells -> ConsoleCell], NEW from \in Int, NEW k \in Nat,
         \A i \in from..(from + k - 1) : i \in Cells
  PROVE  PaintCells(buf, from, from + k) \in Seq(Calls)
<1> DEFINE s == [j \in 1..((from + k) - from) |-> PaintOf(buf, from + j - 1)]
<1>1. CASE k = 0
  BY <1>1 DEF PaintCells
<1>2. CASE k # 0
  <2>1. PaintCells(buf, from, from + k) = s
    BY <1>2 DEF PaintCells, PaintOf
  <2>2. (from + k) - from = k
    OBVIOUS
  <2>3. s \in [1..k -> Calls]
    <3>1. ASSUME NEW j \in 1..k
          PROVE  PaintOf(buf, from + j - 1) \in Calls
      <4>1. from + j - 1 \in Cells
        OBVIOUS
      <4> QED  BY <4>1, PaintOfIsCall
    <3> QED  BY <2>2, <3>1
  <2> HIDE DEF s
  <2>4. s \in Seq(Calls)
    BY <2>3
  <2> QED  BY <2>1, <2>4
<1> QED  BY <1>1, <1>2

\* One cell more is one call more.
LEMMA PaintCellsGrows ==
  ASSUME NEW buf \in [Cells -> ConsoleCell], NEW from \in Int, NEW k \in Nat,
         \A i \in from..(from + k) : i \in Cells
  PROVE  PaintCells(buf, from, from + (k + 1)) = Append(PaintCells(buf, from, from + k), PaintOf(buf, from + k))
<1> DEFINE r == [j \in 1..(k + 1) |-> PaintOf(buf, from + j - 1)]
           s == PaintCells(buf, from, from + k)
           c == PaintOf(buf, from + k)
<1>1. PaintCells(buf, from, from + (k + 1)) = r
  <2>1. from < from + (k + 1) /\ (from + (k + 1)) - from = k + 1
    OBVIOUS
  <2> QED  BY <2>1, PaintCellsDef
<1>2. s \in Seq(Calls)
  <2>1. \A i \in from..(from + k - 1) : i \in Cells
    OBVIOUS
  <2> QED  BY <2>1, PaintCellsSeq
<1>3. Len(s) = k /\ \A j \in 1..k : s[j] = PaintOf(buf, from + j - 1)
  <2>1. CASE k = 0
    BY <2>1 DEF PaintCells
  <2>2. CASE k # 0
    <3>1. from < from + k /\ (from + k) - from = k
      BY <2>2
    <3>2. s = [j \in 1..k |-> PaintOf(buf, from + j - 1)]
      BY <3>1 DEF PaintCells, PaintOf
    <3> HIDE DEF s
    <3> QED  BY <3>2
  <2> QED  BY <2>1, <2>2
<1>4. r[k + 1] = c
  <2>1. k + 1 \in 1..(k + 1) /\ from + (k + 1) - 1 = from + k
    OBVIOUS
  <2> QED  BY <2>1
<1>5. c \in Calls
  BY PaintOfIsCall
<1> HIDE DEF s, c
<1>6. /\ Append(s, c) \in Seq(Calls) /\ Len(Append(s, c)) = k + 1
      /\ Append(s, c)[k + 1] = c /\ \A j \in 1..k : Append(s, c)[j] = s[j]
  BY <1>2, <1>3, <1>5
<1>7. ASSUME NEW j \in 1..(k + 1)
      PROVE  Append(s, c)[j] = r[j]
  <2>1. CASE j = k + 1
    BY <1>4, <1>6, <2>1
  <2>2. CASE j # k + 1
    <3>1. j \in 1..k
      BY <2>2
    <3> QED  BY <1>3, <1>6, <3>1
  <2> QED  BY <2>1, <2>2
<1>8. Append(s, c) \in [1..(k + 1) -> Calls]
  <2> DEFINE z == Append(s, c)
  <2>1. z \in Seq(Calls) /\ Len(z) = k + 1
    BY <1>6
  <2> HIDE DEF z
  <2>2. z \in [1..Len(z) -> Calls]
    BY <2>1
  <2> QED  BY <2>1, <2>2 DEF z
<1>9. Append(s, c) = r
  BY <1>7, <1>8
<1> QED  BY <1>1, <1>9 DEF s, c

\* w shows the cells S of buf and else what u shows.
Shows(u, w, buf, S) ==
  /\ Calm(w)
  /\ \A i \in Cells : w.screen[i] = IF i \in S THEN Shown(buf[i]) ELSE u.screen[i]

\* Painting a range shows its cells and leaves the others, by induction on its length.
LEMMA PaintsCells ==
  ASSUME NEW u, Calm(u), NEW buf \in [Cells -> ConsoleCell], NEW from \in Int, NEW to \in Int,
         \A i \in from..(to - 1) : i \in Cells
  PROVE  Shows(u, After(u, PaintCells(buf, from, to)), buf, from..(to - 1))
<1>1. CASE ~(from < to)
  <2>1. PaintCells(buf, from, to) = <<>> /\ from..(to - 1) = {}
    BY <1>1 DEF PaintCells
  <2>2. After(u, PaintCells(buf, from, to)) = u
    BY <2>1, AfterNone
  <2> QED  BY <2>1, <2>2 DEF Shows
<1>2. CASE from < to
  <2> DEFINE n == to - from
             w(k) == After(u, PaintCells(buf, from, from + k))
             S == { k \in Nat : k <= n /\ Shows(u, w(k), buf, from..(from + k - 1)) }
  <2>1. n \in Nat /\ from + n = to
    BY <1>2
  <2> HIDE DEF n
  <2>2. 0 \in S
    <3>1. PaintCells(buf, from, from + 0) = <<>> /\ from..(from + 0 - 1) = {}
      BY DEF PaintCells
    <3>2. w(0) = u
      BY <3>1, AfterNone
    <3> QED  BY <2>1, <3>1, <3>2 DEF Shows
  <2>3. ASSUME NEW k \in 0..(n - 1), k \in S
        PROVE  k + 1 \in S
    <3> DEFINE i == from + k
               c == PaintOf(buf, i)
    <3>1. /\ k \in Nat /\ k + 1 \in Nat /\ k + 1 <= n
          /\ from + (k + 1) - 1 = i
      BY <2>1
    <3>2. i \in Cells /\ (\A j \in from..i : j \in Cells) /\ \A j \in from..(i - 1) : j \in Cells
      BY <2>1
    <3>3. Shows(u, w(k), buf, from..(i - 1))
      BY <2>3
    <3>4. w(k + 1) = Call(w(k), c)
      <4>1. PaintCells(buf, from, from + (k + 1)) = Append(PaintCells(buf, from, from + k), c)
        BY <3>1, <3>2, PaintCellsGrows
      <4>2. PaintCells(buf, from, from + k) \in Seq(Calls)
        <5>1. \A j \in from..(from + k - 1) : j \in Cells
          BY <3>2
        <5> QED  BY <3>1, <5>1, PaintCellsSeq
      <4>3. c \in Calls
        BY <3>2, PaintOfIsCall
      <4> QED  BY <4>1, <4>2, <4>3, AfterAppend
    <3> HIDE DEF w
    <3>5. PaintedAt(w(k), w(k + 1), buf[i], i % Width, i \div Width)
      <4>1. c \in Calls /\ c.paints /\ c.cell = buf[i] /\ c.x = i % Width /\ c.y = i \div Width
        BY <3>2, PaintOfIsCall DEF PaintOf, Paint
      <4> HIDE DEF c
      <4> QED  BY <3>3, <3>4, <4>1, CallCalm DEF Shows
    <3>6. Target(i % Width, i \div Width) = i
      BY <3>2, TargetOfCell
    <3>7. \A j \in Cells : w(k + 1).screen[j] = IF j = i THEN Shown(buf[i]) ELSE w(k).screen[j]
      BY <3>5, <3>6, SameCells DEF PaintedAt
    <3>8. \A j \in Cells : j \in from..i <=> j = i \/ j \in from..(i - 1)
      BY <3>1, <3>2 DEF Cells
    <3>9. Shows(u, w(k + 1), buf, from..i)
      <4> HIDE DEF i
      <4> QED  BY <3>3, <3>5, <3>7, <3>8 DEF Shows, PaintedAt
    <3> QED  BY <3>1, <3>9
  <2>4. \A k \in 0..n : k \in S
    <3> HIDE DEF S
    <3> QED  BY <2>1, <2>2, <2>3, SetInduction
  <2>5. n \in S
    BY <2>1, <2>4
  <2>6. Shows(u, w(n), buf, from..(from + n - 1))
    BY <2>5
  <2> QED  BY <2>1, <2>6
<1> QED  BY <1>1, <1>2

\* The screen of u shows buf, and its cursor stands where cur is, or as near as it can.
Mirrors(u, buf) == \A i \in Cells : u.screen[i] = Shown(buf[i])
CursorAt(u, cur) == u.row = T!LIMIT(cur.y, 0, Height - 1) /\ u.col = T!LIMIT(cur.x, 0, Width - 1)

\* Moving the cursor is a call.
LEMMA MoveToCalls ==
  ASSUME NEW cur \in [x : Int, y : Int]
  PROVE  MoveTo(cur) \in Calls /\ ~MoveTo(cur).paints /\ MoveTo(cur).x = cur.x /\ MoveTo(cur).y = cur.y
  BY DEF MoveTo, Calls

\* A last call that moves the cursor.
LEMMA EndsAt ==
  ASSUME NEW u, NEW s \in Seq(Calls), NEW cur \in [x : Int, y : Int], Calm(After(u, s))
  PROVE  /\ Append(s, MoveTo(cur)) \in Seq(Calls)
         /\ Calm(After(u, Append(s, MoveTo(cur))))
         /\ CursorAt(After(u, Append(s, MoveTo(cur))), cur)
         /\ After(u, Append(s, MoveTo(cur))).screen = After(u, s).screen
<1> DEFINE c == MoveTo(cur)
           v == After(u, s)
           w == After(u, Append(s, c))
<1>1. c \in Calls /\ ~c.paints /\ c.x = cur.x /\ c.y = cur.y
  BY MoveToCalls
<1> HIDE DEF c
<1>2. w = Call(v, c)
  BY <1>1, AfterAppend
<1>3. MovedTo(v, Call(v, c), c.y, c.x)
  BY <1>1, CallCalm
<1>4. Append(s, c) \in Seq(Calls)
  BY <1>1
<1> HIDE DEF v, w
<1>5. Calm(w) /\ CursorAt(w, cur) /\ w.screen = v.screen
  BY <1>1, <1>2, <1>3 DEF MovedTo, CursorAt
<1> QED  BY <1>4, <1>5 DEF c, v, w

\* Moving the cursor and no more.
LEMMA JustMoves ==
  ASSUME NEW u, Calm(u), NEW cur \in [x : Int, y : Int]
  PROVE  /\ Calm(After(u, <<MoveTo(cur)>>)) /\ CursorAt(After(u, <<MoveTo(cur)>>), cur)
         /\ After(u, <<MoveTo(cur)>>).screen = u.screen
<1>1. <<MoveTo(cur)>> = Append(<<>>, MoveTo(cur))
  OBVIOUS
<1>2. <<>> \in Seq(Calls) /\ After(u, <<>>) = u
  BY AfterNone
<1> QED  BY <1>1, <1>2, EndsAt

\* vtconsole_scroll paints the whole buffer.
LEMMA PaintsAll ==
  ASSUME NEW u, Calm(u), NEW buf \in [Cells -> ConsoleCell]
  PROVE  /\ PaintCells(buf, 0, Width * Height) \in Seq(Calls)
         /\ Calm(After(u, PaintCells(buf, 0, Width * Height)))
         /\ Mirrors(After(u, PaintCells(buf, 0, Width * Height)), buf)
<1> DEFINE n == Width * Height
<1>1. n \in Nat /\ 0 + n = n
  BY ConsoleSize
<1>2. Cells = 0..(n - 1)
  BY DEF Cells
<1>3. (\A i \in 0..(n - 1) : i \in Cells) /\ \A i \in 0..(0 + n - 1) : i \in Cells
  BY <1>1, <1>2
<1> HIDE DEF n
<1>4. PaintCells(buf, 0, n) \in Seq(Calls)
  <2> DEFINE z == 0
  <2>1. z \in Int /\ z + n = n /\ \A i \in z..(z + n - 1) : i \in Cells
    BY <1>1, <1>3
  <2> HIDE DEF z
  <2>2. PaintCells(buf, z, z + n) \in Seq(Calls)
    BY <1>1, <2>1, PaintCellsSeq
  <2> QED  BY <2>1, <2>2 DEF z
<1>5. Shows(u, After(u, PaintCells(buf, 0, n)), buf, 0..(n - 1))
  BY <1>1, <1>3, PaintsCells
<1> QED  BY <1>1, <1>2, <1>4, <1>5 DEF Shows, Mirrors, n

\* A scroll leaves the screen as the scrolled buffer is.
LEMMA TellsScroll ==
  ASSUME VtInv, NEW u, Calm(u)
  PROVE  /\ TellScroll \in Seq(Calls) /\ Calm(After(u, TellScroll))
         /\ Mirrors(u, buffer) => Mirrors(After(u, TellScroll), vtconsole_newline.buf)
<1> DEFINE buf == vtconsole_newline.buf
           cur == vtconsole_newline.cur
           p == PaintCells(buf, 0, Width * Height)
<1>1. buf \in [Cells -> ConsoleCell] /\ cur \in [x : Int, y : Int]
  BY NewlineType DEF VtInv, ConsoleCell
<1>2. CASE cursor.y + 1 = Height
  <2>1. TellScroll = Append(p, MoveTo(cur))
    BY <1>2 DEF TellScroll
  <2> HIDE DEF buf, cur
  <2>2. p \in Seq(Calls) /\ Calm(After(u, p)) /\ Mirrors(After(u, p), buf)
    BY <1>1, PaintsAll
  <2> HIDE DEF p
  <2>3. /\ Append(p, MoveTo(cur)) \in Seq(Calls) /\ Calm(After(u, Append(p, MoveTo(cur))))
        /\ After(u, Append(p, MoveTo(cur))).screen = After(u, p).screen
    BY <1>1, <2>2, EndsAt
  <2>4. Mirrors(After(u, Append(p, MoveTo(cur))), buf)
    BY <2>2, <2>3 DEF Mirrors
  <2> QED  BY <2>1, <2>3, <2>4 DEF buf
<1>3. CASE cursor.y + 1 # Height
  <2>1. TellScroll = <<>> /\ buf = buffer
    BY <1>3 DEF TellScroll, vtconsole_newline
  <2>2. After(u, TellScroll) = u
    BY <2>1, AfterNone
  <2> QED  BY <2>1, <2>2
<1> QED  BY <1>2, <1>3

\* vtconsole_newline ends with the cursor moved, scrolled or not.
LEMMA TellsNewline ==
  ASSUME VtInv, NEW u, Calm(u)
  PROVE  /\ TellNewline \in Seq(Calls) /\ Calm(After(u, TellNewline))
         /\ CursorAt(After(u, TellNewline), vtconsole_newline.cur)
         /\ Mirrors(u, buffer) => Mirrors(After(u, TellNewline), vtconsole_newline.buf)
<1> DEFINE cur == vtconsole_newline.cur
           s == TellScroll
<1>1. cur \in [x : Int, y : Int]
  BY NewlineType DEF VtInv
<1>2. /\ s \in Seq(Calls) /\ Calm(After(u, s))
      /\ Mirrors(u, buffer) => Mirrors(After(u, s), vtconsole_newline.buf)
  BY TellsScroll
<1>3. TellNewline = Append(s, MoveTo(cur))
  BY DEF TellNewline
<1> HIDE DEF s
<1>4. /\ Append(s, MoveTo(cur)) \in Seq(Calls) /\ Calm(After(u, Append(s, MoveTo(cur))))
      /\ CursorAt(After(u, Append(s, MoveTo(cur))), cur)
      /\ After(u, Append(s, MoveTo(cur))).screen = After(u, s).screen
  <2> HIDE DEF cur
  <2> QED  BY <1>1, <1>2, EndsAt
<1> QED  BY <1>2, <1>3, <1>4 DEF Mirrors

\* Two more calls, one after the other.
LEMMA TwoMore ==
  ASSUME NEW s \in Seq(Calls), NEW a \in Calls, NEW b \in Calls
  PROVE  s \o <<a, b>> = Append(Append(s, a), b)
<1> DEFINE l == s \o <<a, b>>
           r == Append(Append(s, a), b)
           n == Len(s)
<1>1. n \in Nat /\ l \in Seq(Calls) /\ r \in Seq(Calls) /\ Len(l) = n + 2 /\ Len(r) = n + 2
  OBVIOUS
<1>2. /\ \A k \in 1..n : l[k] = s[k] /\ r[k] = s[k]
      /\ l[n + 1] = a /\ r[n + 1] = a /\ l[n + 2] = b /\ r[n + 2] = b
  OBVIOUS
<1> HIDE DEF l, r, n
<1>3. l \in [1..(n + 2) -> Calls] /\ r \in [1..(n + 2) -> Calls]
  BY <1>1
<1>4. \A k \in 1..(n + 2) : l[k] = r[k]
  BY <1>1, <1>2
<1> QED  BY <1>3, <1>4 DEF l, r

\* What a step of the console leaves of the terminal: always, and when it puts a
\* character.
Faithful(w) ==
  /\ Calm(w)
  /\ Mirrors(t, buffer) => Mirrors(w, buffer')
  /\ cursor' # cursor => CursorAt(w, cursor')

FaithfulInside(w) ==
  /\ Calm(w)
  /\ OnConsole(cursor) /\ Mirrors(t, buffer) => Mirrors(w, buffer')
  /\ cursor' # cursor => CursorAt(w, cursor')

\* A character: a newline at the end of a row, the cell, the cursor.
LEMMA PutFollowed ==
  ASSUME VtInv, Calm(t), NEW ink \in BOOLEAN, PutChar(ink), ~wild'
  PROVE  FaithfulInside(After(t, TellPut))
<1> DEFINE full == cursor.x >= Width
           cur == IF full THEN vtconsole_newline.cur ELSE cursor
           buf == IF full THEN vtconsole_newline.buf ELSE buffer
           s == IF full THEN TellNewline ELSE <<>>
           i == At(cur.x, cur.y)
           a == Paint(buffer'[i], cur.x, cur.y)
           v == After(t, s)
           p == After(t, Append(s, a))
           w == After(t, TellPut)
<1>1. /\ i \in Cells
      /\ buffer' = [j \in Cells |-> IF j = i THEN [ink |-> ink, attr |-> attr] ELSE buf[j]]
  BY DEF PutChar
<1>2. buffer' \in [Cells -> ConsoleCell] /\ cursor' \in [x : Int, y : Int]
  BY PutCharType DEF VtInv, ConsoleCell
<1>3. cur \in [x : Int, y : Int]
  BY NewlineType DEF VtInv, VtTypeOK
<1>4. s \in Seq(Calls) /\ Calm(v) /\ (Mirrors(t, buffer) => Mirrors(v, buf))
  <2>1. CASE full
    BY <2>1, TellsNewline
  <2>2. CASE ~full
    <3>1. s = <<>> /\ v = t /\ buf = buffer
      BY <2>2, AfterNone
    <3>2. <<>> \in Seq(Calls)
      OBVIOUS
    <3> HIDE DEF s, v, buf
    <3> QED  BY <3>1, <3>2
  <2> QED  BY <2>1, <2>2
<1>5. OnConsole(cursor) => cur.x \in 0..(Width - 1) /\ cur.y \in 0..(Height - 1)
  <2>1. CASE full
    BY <2>1, ConsoleSize DEF vtconsole_newline, VtInv, VtTypeOK, CursorBelow, OnConsole
  <2>2. CASE ~full
    BY <2>2, ConsoleSize DEF VtInv, VtTypeOK, CursorBelow, OnConsole
  <2> QED  BY <2>1, <2>2
<1>6. TellPut = s \o <<a, MoveTo(cursor')>>
  BY DEF TellPut
<1>7. a \in Calls /\ a.paints /\ a.cell = buffer'[i] /\ a.x = cur.x /\ a.y = cur.y
  <2>1. buffer'[i] \in ConsoleCell /\ cur.x \in Int /\ cur.y \in Int
    BY <1>1, <1>2, <1>3
  <2> HIDE DEF cur, i
  <2> QED  BY <2>1 DEF Paint, Calls
<1>8. OnConsole(cursor) => Target(cur.x, cur.y) = i
  <2> HIDE DEF cur
  <2> QED  BY <1>5, TargetOnScreen
<1> HIDE DEF full, cur, buf, s, i, a, v
<1>9. p = Call(v, a) /\ Append(s, a) \in Seq(Calls)
  BY <1>4, <1>7, AfterAppend DEF v
<1>10. PaintedAt(v, Call(v, a), buffer'[i], cur.x, cur.y)
  BY <1>4, <1>7, CallCalm
<1>11. TellPut = Append(Append(s, a), MoveTo(cursor'))
  BY <1>2, <1>4, <1>6, <1>7, MoveToCalls, TwoMore
<1>12. Calm(p)
  BY <1>9, <1>10 DEF PaintedAt
<1>13. Calm(w) /\ CursorAt(w, cursor') /\ w.screen = p.screen
  <2> DEFINE r == Append(s, a)
  <2>1. r \in Seq(Calls) /\ p = After(t, r) /\ TellPut = Append(r, MoveTo(cursor'))
    BY <1>9, <1>11
  <2> HIDE DEF r
  <2> QED  BY <1>2, <1>12, <2>1, EndsAt
<1> HIDE DEF p, w
<1>14. ASSUME OnConsole(cursor), Mirrors(t, buffer) PROVE Mirrors(w, buffer')
  <2>1. Mirrors(v, buf) /\ Target(cur.x, cur.y) = i
    BY <1>4, <1>8, <1>14
  <2>2. \A j \in Cells : p.screen[j] = IF j = i THEN Shown(buffer'[i]) ELSE v.screen[j]
    BY <1>9, <1>10, <2>1, SameCells DEF PaintedAt
  <2>3. \A j \in Cells : j # i => buffer'[j] = buf[j]
    BY <1>1
  <2> QED  BY <1>13, <2>1, <2>2, <2>3 DEF Mirrors
<1> QED  BY <1>13, <1>14 DEF FaithfulInside, w

\* A terminal that term_reset has made new is calm.
LEMMA ResetCalm == Calm(T!term_reset(T!Zeroed))
<1> DEFINE z == T!Zeroed
           w == [z EXCEPT !.row = 0, !.col = 0, !.top = 0, !.bot = Height,
                          !.mode = {"CURSOR", "WRAP"}, !.fg = White, !.bg = Black]
           scr == [k \in T!Cells |-> [ch |-> "", fg |-> White, bg |-> Black]]
           pad == [i \in T!Cells |-> T!Look("", White, Black)]
           r == [[w EXCEPT !.screen = scr] EXCEPT !.pad = pad]
<1>1. White \in Ink /\ Black \in Ink /\ "" \in T!Glyphs
  BY DEF Ink, T!Glyphs
<1>2. 0 \in T!RowIds /\ 0 \in T!ColIds /\ Height \in 1..Height
  BY ConsoleSize DEF T!RowIds, T!ColIds
<1>3. {"CURSOR", "WRAP"} \in SUBSET T!Modes
  BY DEF T!Modes
<1>4. z \in [screen : [T!Cells -> T!Cell], pad : [T!Cells -> Looks],
             hist : [0..(NHIST - 1) -> [T!ColIds -> T!Glyphs]],
             dirty : SUBSET T!RowIds, lazy : {FALSE}, visible : {TRUE},
             hrow : {0}, hpos : {0},
             row : T!RowIds, col : T!ColIds, top : T!RowIds, bot : {0},
             fg : Ink, bg : Ink, mode : SUBSET T!Modes, sav : T!State,
             reading : BOOLEAN, wild : {FALSE}]
  <2>1. [i \in T!Cells |-> [ch |-> "", fg |-> Black, bg |-> Black]] \in [T!Cells -> T!Cell]
    BY <1>1 DEF T!Cell, Ink
  <2>2. [i \in T!Cells |-> T!Foreign] \in [T!Cells -> Looks]
    BY <1>1 DEF T!Foreign, T!Look, Looks
  <2>3. [k \in 0..(NHIST - 1) |-> [c \in T!ColIds |-> ""]] \in [0..(NHIST - 1) -> [T!ColIds -> T!Glyphs]]
    BY <1>1
  <2>4. [row |-> 0, col |-> 0, fg |-> Black, bg |-> Black, mode |-> {}] \in T!State
    BY <1>1, <1>2 DEF T!State, Ink
  <2>5. {} \in SUBSET T!RowIds /\ {} \in SUBSET T!Modes
    OBVIOUS
  <2> QED  BY <1>1, <1>2, <2>1, <2>2, <2>3, <2>4, <2>5 DEF T!Zeroed
<1>5. T!term_reset(z) = T!term_blank(w)
  BY DEF T!term_reset
<1> HIDE DEF z
<1>6. w \in T!TermState /\ w.visible /\ ~w.lazy /\ ~w.wild /\ w.hrow = 0
  <2>1. 0 \in 0..(NHIST - 1) /\ 0 \in 0..NHIST
    BY HistorySize
  <2>2. w.visible /\ ~w.lazy /\ ~w.wild /\ w.hrow = 0
    BY <1>4
  <2>3. w \in T!TermState
    BY <1>1, <1>2, <1>3, <1>4, <2>1, TermStates
  <2> QED  BY <2>2, <2>3
<1>7. /\ w.mode = {"CURSOR", "WRAP"} /\ w.fg = White /\ w.bg = Black
      /\ w.screen \in [T!Cells -> T!Cell] /\ w.row = 0 /\ w.col = 0
  BY <1>4
<1> HIDE DEF w
<1>8. T!Noted(w, T!RowOf(0), T!RowOf(0 + Height * Width)) = w
  BY <1>6 DEF T!Noted
<1>9. T!OnScreen(0, Height * Width)
  BY ConsoleSize DEF T!OnScreen
<1>10. T!Cells = 0..(0 + Height * Width - 1)
  BY ConsoleSize DEF T!Cells
<1>11. T!screen_reset(w, 0, Height * Width) = [w EXCEPT !.screen = scr]
  <2>1. T!screen_reset(w, 0, Height * Width)
          = [w EXCEPT !.screen = [k \in T!Cells |-> IF k \in 0..(0 + Height * Width - 1)
                THEN [ch |-> "", fg |-> White, bg |-> Black] ELSE w.screen[k]]]
    BY <1>7, <1>8, <1>9 DEF T!screen_reset
  <2>2. [k \in T!Cells |-> IF k \in 0..(0 + Height * Width - 1)
            THEN [ch |-> "", fg |-> White, bg |-> Black] ELSE w.screen[k]] = scr
    BY <1>10
  <2> QED  BY <2>1, <2>2
<1>12. T!term_blank(w) = r
  <2>1. T!bgcolor(w) = Black
    BY <1>7 DEF T!bgcolor
  <2> HIDE DEF scr
  <2> QED  BY <1>6, <1>11, <2>1 DEF T!term_blank
<1>13. scr \in [T!Cells -> T!Cell] /\ pad \in [T!Cells -> Looks]
  BY <1>1 DEF T!Cell, Ink, Looks, T!Look
<1>14. \A i \in T!Cells : pad[i] = T!Image(scr[i], FALSE)
  BY DEF T!Image
<1> HIDE DEF scr, pad
<1>15. r \in T!TermState /\ r.visible /\ ~r.lazy /\ ~r.wild /\ r.hrow = 0 /\ r.mode = {"CURSOR", "WRAP"}
       /\ r.screen = scr /\ r.pad = pad
  BY <1>6, <1>7, <1>13, TermStates
<1> HIDE DEF r
<1>16. Calm(r)
  BY <1>14, <1>15 DEF Calm, Still, T!Settled
<1> QED  BY <1>5, <1>12, <1>16 DEF z

\* A terminal that shows the console, all of it blank, is what libfbpads_init leaves.
LEMMA StartsCalm ==
  ASSUME CtInit
  PROVE  VtInv /\ ~wild /\ Calm(t) /\ Mirrors(t, buffer)
<1>1. VtInv /\ ~wild
  BY VtInitInv DEF CtInit, VtInit
<1>2. buffer \in [Cells -> ConsoleCell]
  BY <1>1 DEF VtInv, VtTypeOK, ConsoleCell
<1> DEFINE z == T!term_reset(T!Zeroed)
<1>3. Calm(z)
  BY ResetCalm
<1>4. t = After(z, PaintCells(buffer, 0, Width * Height))
  BY DEF CtInit
<1> HIDE DEF z
<1> QED  BY <1>1, <1>2, <1>3, <1>4, PaintsAll

-----------------------------------------------------------------------------
(* The steps *)

\* vtconsole_clear paints what it has blanked, and no more.
LEMMA EraseFollowed ==
  ASSUME VtInv, Calm(t), NEW a \in Int, NEW b \in Int, NEW c \in Int, NEW d \in Int,
         vtconsole_clear(a, b, c, d), ~wild', UNCHANGED cursor
  PROVE  Faithful(After(t, PaintCells(buffer', At(a, b), At(c, d))))
<1> DEFINE from == At(a, b)
           to == At(c, d)
           w == After(t, PaintCells(buffer', from, to))
<1>1. from \in Int /\ to \in Int
  BY ConsoleSize DEF At
<1>2. \A i \in from..(to - 1) : i \in Cells
  BY DEF vtconsole_clear
<1>3. buffer' \in [Cells -> ConsoleCell]
  BY ClearType DEF VtInv, ConsoleCell
<1>4. \A i \in Cells : ~(from <= i /\ i < to) => buffer'[i] = buffer[i]
  BY DEF vtconsole_clear
<1> HIDE DEF from, to
<1>5. Shows(t, w, buffer', from..(to - 1))
  BY <1>1, <1>2, <1>3, PaintsCells
<1> HIDE DEF w
<1>6. \A i \in Cells : i \in from..(to - 1) <=> from <= i /\ i < to
  BY <1>1, ConsoleSize DEF Cells
<1>7. Mirrors(t, buffer) => Mirrors(w, buffer')
  BY <1>4, <1>5, <1>6 DEF Shows, Mirrors
<1> QED  BY <1>5, <1>7 DEF Faithful, Shows, w, from, to

\* Nothing told, nothing changed.
LEMMA NothingFollowed ==
  ASSUME Calm(t), UNCHANGED <<cursor, buffer>>
  PROVE  Faithful(After(t, <<>>)) /\ Faithful(t)
<1>1. After(t, <<>>) = t
  BY AfterNone
<1> QED  BY <1>1 DEF Faithful, Mirrors

\* A cursor that moves and nothing else.
LEMMA MoveFollowed ==
  ASSUME Calm(t), UNCHANGED buffer, cursor' \in [x : Int, y : Int]
  PROVE  Faithful(After(t, <<MoveTo(cursor')>>))
<1>1. /\ Calm(After(t, <<MoveTo(cursor')>>)) /\ CursorAt(After(t, <<MoveTo(cursor')>>), cursor')
      /\ After(t, <<MoveTo(cursor')>>).screen = t.screen
  BY JustMoves
<1> QED  BY <1>1 DEF Faithful, Mirrors

\* A character outside a sequence.
LEMMA AppendFollowed ==
  ASSUME VtInv, Calm(t), NEW c, vtconsole_append(c), ~wild'
  PROVE  /\ FaithfulInside(After(t, TellAppend(c)))
         /\ c \in {"\n", "\r", "\t", "BS"} => Faithful(After(t, TellAppend(c)))
<1>1. CASE c = "\n"
  <2>1. cursor' = vtconsole_newline.cur /\ buffer' = vtconsole_newline.buf
    BY <1>1 DEF vtconsole_append
  <2>2. TellAppend(c) = TellNewline
    BY <1>1 DEF TellAppend
  <2>3. /\ Calm(After(t, TellNewline)) /\ CursorAt(After(t, TellNewline), vtconsole_newline.cur)
        /\ Mirrors(t, buffer) => Mirrors(After(t, TellNewline), vtconsole_newline.buf)
    BY TellsNewline
  <2> QED  BY <2>1, <2>2, <2>3 DEF Faithful, FaithfulInside
<1>2. CASE c \in {"\r", "BS"}
  <2>1. UNCHANGED buffer
    BY <1>2 DEF vtconsole_append
  <2>2. cursor' \in [x : Int, y : Int]
    BY AppendInv
  <2>3. TellAppend(c) = <<MoveTo(cursor')>>
    BY <1>2 DEF TellAppend
  <2> QED  BY <2>1, <2>2, <2>3, MoveFollowed DEF Faithful, FaithfulInside
<1>3. CASE c = "\t"
  <2>1. UNCHANGED <<cursor, buffer>>
    BY <1>3 DEF vtconsole_append, cellVars
  <2>2. TellAppend(c) = <<>>
    BY <1>3 DEF TellAppend
  <2> QED  BY <2>1, <2>2, NothingFollowed DEF Faithful, FaithfulInside
<1>4. CASE c \notin {"\n", "\r", "\t", "BS"}
  <2>1. PutChar(c # " ")
    BY <1>4 DEF vtconsole_append
  <2>2. (c # " ") \in BOOLEAN
    OBVIOUS
  <2>3. TellAppend(c) = TellPut
    BY <1>4 DEF TellAppend
  <2> QED  BY <1>4, <2>1, <2>2, <2>3, PutFollowed
<1> QED  BY <1>1, <1>2, <1>3, <1>4

\* The last cell ends the buffer.
LEMMA AtEnd == At(Width, Height - 1) = Width * Height /\ At(0, 0) = 0
<1>1. Width + (Height - 1) * Width = Width * Height
  BY ConsoleSize
<1>2. 0 + 0 * Width = 0
  BY ConsoleSize
<1> QED  BY <1>1, <1>2 DEF At

\* The end of a sequence: CUP moves the cursor, ED and EL paint their ranges.
LEMMA FinalFollowed ==
  ASSUME VtInv, Calm(t), NEW c, NEW count \in Nat, count < StackSize, Final(c, count), ~wild'
  PROVE  Faithful(After(t, TellFinal(c)))
<1> DEFINE x == cursor.x
           y == cursor.y
<1>0. x \in Int /\ y \in Int /\ Width \in Int /\ Height - 1 \in Int /\ 0 \in Int
  BY ConsoleSize DEF VtInv, VtTypeOK
<1>1. CASE c = "H"
  <2>1. UNCHANGED buffer
    BY <1>1 DEF Final
  <2>2. cursor' \in [x : Int, y : Int]
    BY FinalInv
  <2>3. TellFinal(c) = <<MoveTo(cursor')>>
    BY <1>1 DEF TellFinal
  <2> QED  BY <2>1, <2>2, <2>3, MoveFollowed
<1>2. CASE c = "J"
  <2>0. vtconsole_csi_ed /\ UNCHANGED cursor
    BY <1>2 DEF Final
  <2>1. TellFinal(c) = PaintCells(buffer', ErasedByEd[1], ErasedByEd[2])
    BY <1>2 DEF TellFinal
  <2>2. CASE Param0 = 0
    <3>1. vtconsole_clear(x, y, Width, Height - 1)
      BY <2>0, <2>2 DEF vtconsole_csi_ed
    <3>2. TellFinal(c) = PaintCells(buffer', At(x, y), At(Width, Height - 1))
      BY <2>1, <2>2, AtEnd DEF ErasedByEd
    <3> HIDE DEF x, y
    <3> QED  BY <1>0, <2>0, <3>1, <3>2, EraseFollowed
  <2>3. CASE Param0 = 1
    <3>1. vtconsole_clear(0, 0, x, y)
      BY <2>0, <2>3 DEF vtconsole_csi_ed
    <3>2. TellFinal(c) = PaintCells(buffer', At(0, 0), At(x, y))
      BY <2>1, <2>3, AtEnd DEF ErasedByEd
    <3> HIDE DEF x, y
    <3> QED  BY <1>0, <2>0, <3>1, <3>2, EraseFollowed
  <2>4. CASE Param0 = 2
    <3>1. vtconsole_clear(0, 0, Width, Height - 1)
      BY <2>0, <2>4 DEF vtconsole_csi_ed
    <3>2. TellFinal(c) = PaintCells(buffer', At(0, 0), At(Width, Height - 1))
      BY <2>1, <2>4, AtEnd DEF ErasedByEd
    <3> QED  BY <1>0, <2>0, <3>1, <3>2, EraseFollowed
  <2>5. CASE Param0 \notin {0, 1, 2}
    <3>1. UNCHANGED buffer
      BY <2>0, <2>5 DEF vtconsole_csi_ed
    <3>2. TellFinal(c) = PaintCells(buffer', 0, 0)
      BY <2>1, <2>5 DEF ErasedByEd
    <3>3. TellFinal(c) = <<>>
      BY <3>2 DEF PaintCells
    <3> QED  BY <2>0, <3>1, <3>3, NothingFollowed
  <2> QED  BY <2>2, <2>3, <2>4, <2>5
<1>3. CASE c = "K"
  <2>0. vtconsole_csi_el /\ UNCHANGED cursor
    BY <1>3 DEF Final
  <2>1. TellFinal(c) = PaintCells(buffer', ErasedByEl[1], ErasedByEl[2])
    BY <1>3 DEF TellFinal
  <2>2. CASE Param0 = 0
    <3>1. vtconsole_clear(x, y, Width, y)
      BY <2>0, <2>2 DEF vtconsole_csi_el
    <3>2. TellFinal(c) = PaintCells(buffer', At(x, y), At(Width, y))
      BY <2>1, <2>2 DEF ErasedByEl
    <3> HIDE DEF x, y
    <3> QED  BY <1>0, <2>0, <3>1, <3>2, EraseFollowed
  <2>3. CASE Param0 = 1
    <3>1. vtconsole_clear(0, y, x, y)
      BY <2>0, <2>3 DEF vtconsole_csi_el
    <3>2. TellFinal(c) = PaintCells(buffer', At(0, y), At(x, y))
      BY <2>1, <2>3 DEF ErasedByEl
    <3> HIDE DEF x, y
    <3> QED  BY <1>0, <2>0, <3>1, <3>2, EraseFollowed
  <2>4. CASE Param0 = 2
    <3>1. vtconsole_clear(0, y, Width, y)
      BY <2>0, <2>4 DEF vtconsole_csi_el
    <3>2. TellFinal(c) = PaintCells(buffer', At(0, y), At(Width, y))
      BY <2>1, <2>4 DEF ErasedByEl
    <3> HIDE DEF x, y
    <3> QED  BY <1>0, <2>0, <3>1, <3>2, EraseFollowed
  <2>5. CASE Param0 \notin {0, 1, 2}
    <3>1. UNCHANGED buffer
      BY <2>0, <2>5 DEF vtconsole_csi_el
    <3>2. TellFinal(c) = PaintCells(buffer', 0, 0)
      BY <2>1, <2>5 DEF ErasedByEl
    <3>3. TellFinal(c) = <<>>
      BY <3>2 DEF PaintCells
    <3> QED  BY <2>0, <3>1, <3>3, NothingFollowed
  <2> QED  BY <2>2, <2>3, <2>4, <2>5
<1>4. CASE c \notin {"H", "J", "K"}
  <2>1. UNCHANGED <<cursor, buffer>>
    BY <1>4 DEF Final, cellVars
  <2>2. TellFinal(c) = <<>>
    BY <1>4 DEF TellFinal
  <2> QED  BY <2>1, <2>2, NothingFollowed
<1> QED  BY <1>1, <1>2, <1>3, <1>4

\* Console and terminal step together: what the console does, VtNext allows, and
\* while it stays in its buffer the terminal follows.
LEMMA CtStep ==
  ASSUME VtInv, ~wild => Calm(t), [CtNext]_ctVars
  PROVE  /\ [VtNext]_vtcVars
         /\ ~wild' => /\ ~wild /\ FaithfulInside(t')
                      /\ Prints \/ Faithful(t')
<1>0. \A w : Faithful(w) => FaithfulInside(w)
  BY DEF Faithful, FaithfulInside
<1>1. ASSUME CtTab, ~wild
      PROVE  VtNext /\ Prints /\ (~wild' => FaithfulInside(t'))
  <2>1. TabBlank /\ PutChar(FALSE) /\ Told(TellPut)
    BY <1>1 DEF CtTab, TabBlank
  <2>2. FALSE \in BOOLEAN
    OBVIOUS
  <2>3. ASSUME ~wild' PROVE FaithfulInside(t')
    <3>1. t' = After(t, TellPut)
      BY <2>1, <2>3 DEF Told
    <3> QED  BY <1>1, <2>1, <2>2, <2>3, <3>1, PutFollowed
  <2> QED  BY <2>1, <2>3 DEF VtNext, Prints
<1>2. ASSUME NEW c \in Alphabet, CtPlain(c), ~wild
      PROVE  VtNext /\ (~wild' => FaithfulInside(t') /\ (Prints \/ Faithful(t')))
  <2>1. tabs = 0 /\ PlainChar(c) /\ vtconsole_append(c) /\ Told(TellAppend(c))
    BY <1>2 DEF CtPlain, PlainChar
  <2>2. ASSUME ~wild'
        PROVE  FaithfulInside(t') /\ (c \in {"\n", "\r", "\t", "BS"} => Faithful(t'))
    <3>1. t' = After(t, TellAppend(c))
      BY <2>1, <2>2 DEF Told
    <3> QED  BY <1>2, <2>1, <2>2, <3>1, AppendFollowed
  <2>3. c \in {"\n", "\r", "\t", "BS"} \/ Prints
    BY <2>1 DEF Prints
  <2> QED  BY <2>1, <2>2, <2>3 DEF VtNext, vtconsole_process
<1>3. ASSUME NEW c \in Alphabet, CtParam(c), ~wild PROVE VtNext /\ (~wild' => Faithful(t'))
  <2>1. tabs = 0 /\ (StartSequence(c) \/ OpenSequence(c) \/ ParamDigit(c)) /\ UNCHANGED t
    BY <1>3 DEF CtParam
  <2>2. UNCHANGED <<cursor, buffer>>
    BY <2>1 DEF StartSequence, OpenSequence, ParamDigit, cellVars
  <2>3. Faithful(t)
    BY <1>3, <2>2, NothingFollowed
  <2> QED  BY <2>1, <2>3 DEF VtNext, vtconsole_process
<1>4. ASSUME NEW c \in Alphabet, CtEnd(c), ~wild PROVE VtNext /\ (~wild' => Faithful(t'))
  <2> DEFINE calls == IF c = ";" THEN <<>> ELSE TellFinal(c)
  <2>1. tabs = 0 /\ (EndParam(c) \/ Overrun(c)) /\ Told(calls)
    BY <1>4 DEF CtEnd
  <2>2. ASSUME ~wild' PROVE Faithful(t')
    <3>1. t' = After(t, calls)
      BY <2>1, <2>2 DEF Told
    <3>2. EndParam(c)
      BY <2>1, <2>2 DEF Overrun
    <3>3. CASE c = ";"
      <4>1. UNCHANGED <<cursor, buffer>>
        BY <3>2, <3>3 DEF EndParam, cellVars
      <4> QED  BY <1>4, <3>1, <3>3, <4>1, NothingFollowed
    <3>4. CASE c # ";"
      <4>1. Final(c, index + 1) /\ index + 1 < StackSize
        BY <3>2, <3>4 DEF EndParam
      <4>2. index + 1 \in Nat
        BY DEF VtInv, VtTypeOK
      <4> QED  BY <1>4, <2>2, <3>1, <3>4, <4>1, <4>2, FinalFollowed
    <3> QED  BY <3>3, <3>4
  <2> QED  BY <2>1, <2>2 DEF VtNext, vtconsole_process
<1>5. CASE UNCHANGED ctVars
  <2>1. UNCHANGED vtcVars /\ UNCHANGED <<cursor, buffer, wild, t>>
    BY <1>5 DEF ctVars, vtcVars
  <2> QED  BY <1>0, <2>1, NothingFollowed
<1>6. CASE CtCrashed
  BY <1>6 DEF CtCrashed, vtcVars
<1>7. CASE ~wild /\ (CtTab \/ \E c \in Alphabet : CtPlain(c) \/ CtParam(c) \/ CtEnd(c))
  BY <1>0, <1>1, <1>2, <1>3, <1>4, <1>7
<1> QED  BY <1>5, <1>6, <1>7 DEF CtNext

\* The invariant: the console's own, and a calm terminal as long as it holds.
CtInv == VtInv /\ (~wild => Calm(t))

\* libfbpads_init establishes it.
LEMMA CtInitInv == CtInit => CtInv
  BY StartsCalm DEF CtInv

\* Every step keeps it.
LEMMA CtNextInv == CtInv /\ [CtNext]_ctVars => CtInv'
<1> SUFFICES ASSUME CtInv, [CtNext]_ctVars PROVE CtInv'
  OBVIOUS
<1>1. [VtNext]_vtcVars /\ (~wild' => FaithfulInside(t'))
  BY CtStep DEF CtInv
<1>2. VtInv'
  BY <1>1, VtNextInv DEF CtInv
<1> QED  BY <1>1, <1>2 DEF CtInv, FaithfulInside

\* Whatever the console is sent, vtc_paint and vtc_cursormove keep the terminal
\* inside its arrays, never scroll it, and leave its pad showing its screen.
THEOREM AlwaysInPlace == CtSpec => []PaintsInPlace
<1>1. CtInv => PaintsInPlace
  BY DEF CtInv, PaintsInPlace, Calm, Still
<1> QED  BY <1>1, CtInitInv, CtNextInv, PTL DEF CtSpec

\* The two ways of saying that a screen shows a buffer.
LEMMA MirrorsCells ==
  ASSUME NEW u, Calm(u), NEW buf
  PROVE  Mirrors(u, buf) <=>
           \A i \in Cells :
             /\ u.screen[i].ch = IF buf[i].ink THEN "x" ELSE ""
             /\ u.screen[i].fg = Painted8[buf[i].attr.fg]
             /\ u.screen[i].bg = Painted8[buf[i].attr.bg]
<1>1. u.screen \in [Cells -> T!Cell]
  BY TermStates, SameCells DEF Calm, Still
<1>2. ASSUME NEW i \in Cells, NEW b
      PROVE  u.screen[i] = Shown(b) <=>
             /\ u.screen[i].ch = IF b.ink THEN "x" ELSE ""
             /\ u.screen[i].fg = Painted8[b.attr.fg]
             /\ u.screen[i].bg = Painted8[b.attr.bg]
  <2>1. u.screen[i] \in T!Cell
    BY <1>1
  <2>2. \A s \in T!Cell : \A l, m, n : s = [ch |-> l, fg |-> m, bg |-> n] <=> s.ch = l /\ s.fg = m /\ s.bg = n
    BY DEF T!Cell
  <2> DEFINE l == IF b.ink THEN "x" ELSE ""
             m == Painted8[b.attr.fg]
             n == Painted8[b.attr.bg]
             s == u.screen[i]
  <2>3. Shown(b) = [ch |-> l, fg |-> m, bg |-> n]
    BY DEF Shown
  <2>4. s \in T!Cell
    BY <2>1
  <2> HIDE DEF l, m, n, s
  <2>5. s = [ch |-> l, fg |-> m, bg |-> n] <=> s.ch = l /\ s.fg = m /\ s.bg = n
    BY <2>2, <2>4
  <2>6. s = Shown(b) <=> s.ch = l /\ s.fg = m /\ s.bg = n
    BY <2>3, <2>5
  <2> QED  BY <2>6 DEF l, m, n, s
<1> QED  BY <1>2 DEF Mirrors

\* A step that puts no character, or puts it from a cursor on the screen.
LEMMA StepMirrors ==
  ASSUME CtInv, [CtNext]_ctVars, ~wild', Mirror, Prints => OnConsole(cursor)
  PROVE  Mirror'
<1>1. ~wild /\ FaithfulInside(t') /\ (Prints \/ Faithful(t')) /\ Calm(t)
  BY CtStep DEF CtInv
<1>2. Calm(t')
  BY <1>1 DEF FaithfulInside
<1>3. Mirrors(t, buffer)
  BY <1>1, MirrorsCells DEF Mirror
<1>4. Mirrors(t', buffer')
  BY <1>1, <1>3 DEF Faithful, FaithfulInside
<1>5. \A i \in Cells :
        /\ t'.screen[i].ch = IF buffer'[i].ink THEN "x" ELSE ""
        /\ t'.screen[i].fg = Painted8[buffer'[i].attr.fg]
        /\ t'.screen[i].bg = Painted8[buffer'[i].attr.bg]
  BY <1>2, <1>4, MirrorsCells
<1> QED  BY <1>5 DEF Mirror

\* Writing, tabs, line feeds, scrolling and erasing keep the terminal's screen equal
\* to the console's buffer, for every console size, unless a character is put from a
\* cursor left of or above the screen.
THEOREM MirrorKept == CtSpec => StaysMirrored
<1>1. CtInv /\ [CtNext]_ctVars
        => [~wild' /\ Mirror /\ (Prints => OnConsole(cursor)) => Mirror']_ctVars
  BY StepMirrors
<1> QED  BY <1>1, CtInitInv, CtNextInv, PTL DEF CtSpec, StaysMirrored

\* Every step that moves the console's cursor takes the terminal's along.
THEOREM CursorAlwaysFollows == CtSpec => CursorFollows
<1>1. CtInv /\ [CtNext]_ctVars
        => [~wild' /\ cursor' # cursor =>
              /\ t'.row = T!LIMIT(cursor'.y, 0, Height - 1)
              /\ t'.col = T!LIMIT(cursor'.x, 0, Width - 1)]_ctVars
  <2> SUFFICES ASSUME CtInv, [CtNext]_ctVars, ~wild', cursor' # cursor
               PROVE  CursorAt(t', cursor')
    BY DEF CursorAt
  <2>1. FaithfulInside(t')
    BY CtStep DEF CtInv
  <2> QED  BY <2>1 DEF FaithfulInside
<1> QED  BY <1>1, CtInitInv, CtNextInv, PTL DEF CtSpec, CursorFollows

\* The console itself steps as VtConsole says: joined to the terminal it is the
\* console that was proved about alone.
THEOREM ConsoleUnchanged == CtSpec => VtSpec
<1>1. CtInit => VtInit
  BY DEF CtInit
<1>2. CtInv /\ [CtNext]_ctVars => [VtNext]_vtcVars
  BY CtStep DEF CtInv
<1> QED  BY <1>1, <1>2, CtInitInv, CtNextInv, PTL DEF CtSpec, VtSpec

\* A program that puts characters only while the cursor is on the console sees its
\* buffer on the screen at all times, from the first paint on, until something is
\* written outside the buffer.  Between the characters the cursor may leave the
\* console, as it does in every reset_pointer of main.c.
THEOREM MirrorFromStart ==
  CtSpec => ([][Prints => OnConsole(cursor)]_ctVars => [](wild \/ Mirror))
<1> DEFINE M == wild \/ Mirror
<1>1. CtInit => M
  <2> SUFFICES ASSUME CtInit PROVE M
    OBVIOUS
  <2>1. ~wild /\ Calm(t) /\ Mirrors(t, buffer)
    BY StartsCalm
  <2> QED  BY <2>1, MirrorsCells DEF Mirror
<1>2. CtInv /\ M /\ [CtNext]_ctVars /\ [Prints => OnConsole(cursor)]_ctVars => M'
  <2> SUFFICES ASSUME CtInv, M, [CtNext]_ctVars, [Prints => OnConsole(cursor)]_ctVars, ~wild'
               PROVE  Mirror'
    OBVIOUS
  <2>1. ~wild /\ Mirror
    BY CtStep DEF CtInv
  <2>2. CASE Prints => OnConsole(cursor)
    BY <2>1, <2>2, StepMirrors
  <2>3. CASE UNCHANGED ctVars
    <3>1. UNCHANGED <<buffer, t>>
      BY <2>3 DEF ctVars, vtcVars
    <3> QED  BY <2>1, <3>1 DEF Mirror
  <2> QED  BY <2>2, <2>3
<1> QED  BY <1>1, <1>2, CtInitInv, CtNextInv, PTL DEF CtSpec
=============================================================================
