----------------------------- MODULE MenuScreen -----------------------------
(***************************************************************************)
(* What main.c draws on the framebuffer console: its output functions as   *)
(* the characters they hand to libfbpads_vprintf, composed with VtConsole, *)
(* which consumes them one by one.                                         *)
(*                                                                         *)
(* A text is a run of the letter "x"; its length is what the layout sees.  *)
(* Every call of lbml_printf goes through a buffer of BufSize bytes, which *)
(* cuts what does not fit.                                                 *)
(***************************************************************************)
EXTENDS VtConsole, SequencesExt

CONSTANTS
  BufSize,      \* sizeof(buf) in libfbpads_vprintf
  HeaderLen,    \* strlen(header)
  TitleLens,    \* lengths of the titles of menu_entries[]
  FooterRows,   \* lines of the footer
  MessageLens   \* lengths of the texts given to log_center, all literals

ASSUME ScreenAssumption ==
  /\ BufSize \in Nat /\ HeaderLen \in Nat /\ FooterRows \in Nat
  /\ TitleLens \in Seq(Nat) /\ MessageLens \subseteq Nat
  /\ StackSize >= 3       \* two parameters and what follows them
  /\ Height < 999         \* bound: rows have at most three digits
  \* The literals fit; header and titles come from the configuration and may be
  \* wider than the screen and longer than the buffer.
  /\ BufSize > 14 /\ 2 * FooterRows + 1 < BufSize
  /\ \A n \in MessageLens : n <= Width /\ n + 14 < BufSize

VARIABLES
  out,     \* characters on their way to vtconsole_write
  drawn    \* what was drawn last: the entry printUI highlighted, or NoMenu

screenVars == <<vtcVars, out, drawn>>

NoMenu == -1

-----------------------------------------------------------------------------
(* Strings *)

Decimal(n) ==
  LET D == <<"0", "1", "2", "3", "4", "5", "6", "7", "8", "9">>
      low == D[(n % 10) + 1]
      mid == D[((n \div 10) % 10) + 1]
  IN  IF n < 10 THEN <<low>> ELSE IF n < 100 THEN <<mid, low>>
      ELSE <<D[(n \div 100) + 1], mid, low>>
Run(c, n) == [i \in 1..n |-> c]
Csi(s) == <<"ESC", "[">> \o s
Sgr(a, b) == Csi(Decimal(a) \o <<";">> \o Decimal(b) \o <<"m">>)

\* libfbpads_vprintf; lbml_puts adds the newline.
Printf(s) == SubSeq(s, 1, Least(Len(s), BufSize - 1))
Puts(s) == Printf(s \o <<"\n">>)

-----------------------------------------------------------------------------
(* The output functions of main.c *)

clear_screen == Puts(Csi(<<"2", "J">>))

\* Mutant: the sequence without the newline that lbml_puts adds.
reset_pointer_NoNewline == Printf(Csi(<<"0", ";", "0", "H">>))

reset_pointer == Puts(Csi(<<"0", ";", "0", "H">>))

\* Mutant: the coordinates are sent counted from 0.
set_cursor_pos_FromZero(x, y) ==
  Printf(Csi(Decimal(IF y < 0 THEN 0 ELSE y) \o <<";">> \o Decimal(IF x < 0 THEN 0 ELSE x)
               \o <<"H">>))

set_cursor_pos(x, y) ==
  LET col == IF x < 0 THEN 0 ELSE x
      row == IF y < 0 THEN 0 ELSE y
  IN  Printf(Csi(Decimal(row + 1) \o <<";">> \o Decimal(col + 1) \o <<"H">>))

\* set_echo_enabled's "\x1b[?25h" and "\x1b[?25l"
cursor_visible(on) == Printf(Csi(<<"?", "2", "5">>) \o <<IF on THEN "h" ELSE "l">>)

\* Mutant: title and reset in one call, which cuts the reset of a long title.
entry_line_OneCall(i, sel) ==
  Puts((IF i = sel THEN Sgr(30, 47) ELSE Sgr(37, 40)) \o Run("x", TitleLens[i + 1])
         \o Sgr(0, 0) \o <<"\n">>)

entry_line(i, sel) ==
  Printf((IF i = sel THEN Sgr(30, 47) ELSE Sgr(37, 40)) \o Run("x", TitleLens[i + 1]))
    \o Puts(Sgr(0, 0) \o <<"\n">>)

Entries == Len(TitleLens)

printUI(sel) ==
  clear_screen \o reset_pointer
    \o Printf(Run("x", HeaderLen) \o <<"\n">>)
    \o Run("x", HeaderLen)                        \* '=' by '='
    \o Puts(<<"\n">>)
    \o FlattenSeq([i \in 1..Entries |-> entry_line(i - 1, sel)])
    \o Puts(FlattenSeq([i \in 1..FooterRows |-> <<"x", "\n">>]))

\* log_center of a text of one line on this console.
log_center(n, white_bg) ==
  clear_screen
    \o set_cursor_pos(0, (Height - 1) \div 2)
    \o Run(" ", (Width - n) \div 2)               \* ' ' by ' '
    \o Printf((IF white_bg THEN Sgr(30, 36) ELSE Sgr(37, 40)) \o Run("x", n) \o Sgr(0, 0))
    \o Puts(<<>>)

\* The message, then the image row by row; going_exit may end it after any
\* row.  Every pixel takes two cells, and the division rounds to zero.
display_logo(n, width, height, upto) ==
  LET itw   == Width \div 2
      paddx == Max({0, itw - width})
      paddy == IF height > Height THEN -((height - Height) \div 2)
               ELSE (Height - height) \div 2
  IN  log_center(n, FALSE)
        \o set_cursor_pos(0, paddy)
        \o FlattenSeq([y \in 1..upto |->
             set_cursor_pos(0, paddy + y - 1) \o Run(" ", paddx) \o Run("x", 2 * width)])

-----------------------------------------------------------------------------
(* The program draws, the console follows *)

ScreenInit == VtInit /\ out = <<>> /\ drawn = NoMenu

Draw(s, what) ==
  /\ out = <<>> /\ tabs = 0
  /\ out' = s
  /\ drawn' = what
  /\ UNCHANGED vtcVars

DrawMenu    == \E sel \in 0..(Entries - 1) : Draw(printUI(sel), sel)
DrawMessage == \E n \in MessageLens, white_bg \in BOOLEAN :
                 Draw(log_center(n, white_bg), NoMenu)

\* The scaling makes one side fit, which may leave the image too large in the
\* other; when it fails the image stays as it is, too large in both.  Up to one
\* pixel here (bound).
DrawLogo ==
  \E n \in MessageLens, width \in 1..((Width \div 2) + 1), height \in 1..(Height + 1) :
    \E upto \in 1..height : Draw(display_logo(n, width, height, upto), NoMenu)
EnterEntry  == Draw(clear_screen \o reset_pointer, NoMenu)
SetEcho     == \E on \in BOOLEAN : Draw(cursor_visible(on), NoMenu)

\* vtconsole_write, one character
Consume ==
  /\ out # <<>>
  /\ vtconsole_process(Head(out))
  /\ out' = Tail(out)
  /\ UNCHANGED drawn

ScreenNext == DrawMenu \/ DrawMessage \/ DrawLogo \/ EnterEntry \/ SetEcho \/ Consume

ScreenSpec == ScreenInit /\ [][ScreenNext]_screenVars

-----------------------------------------------------------------------------
(* Properties *)

Idle == out = <<>>
Lit == { i \in Cells : buffer[i].ink /\ buffer[i].attr.fg = 0 /\ buffer[i].attr.bg = 7 }

\* What is left of a title behind the eight bytes of its colours.
Shown(n) == Least(n, BufSize - 9)

\* No line of the menu is wider than the screen.
MenuFits ==
  /\ HeaderLen <= Width /\ HeaderLen + 1 < BufSize
  /\ \A i \in 1..Entries : Shown(TitleLens[i]) <= Width

\* Rows a drawn menu is scrolled up by when it needs more than the screen has.
Overhang == Max({0, 2 * Entries + FooterRows + 5 - Height})

\* End to end: after printUI exactly the cells of the selected title are
\* highlighted, on its row; entries scrolled off the top are the exception.
MenuLayout ==
  \A sel \in 0..(Entries - 1) :
    Idle /\ drawn = sel /\ MenuFits =>
      LET row == 3 + 2 * sel - Overhang
      IN  Lit = { At(x, row) : x \in 0..(Shown(TitleLens[sel + 1]) - 1) } \cap Cells

\* Between two calls the parser is outside any sequence and the attributes are
\* the default ones, so that no call depends on the one before, although the
\* buffer may cut what a call prints.
CallsIndependent == Idle => pstate = "ESC" /\ attr = VTC_DEFAULT_ATTR

\* reset_pointer sends the cursor to (-1, -1), but nothing is ever written
\* outside the buffer: its newline brings the cursor back first.
NoWildWrite == ~wild

\* Nor is a character put to the left of the screen, where it would land in the
\* row above: while the cursor is outside, the console reads no character to show.
PutsNext ==
  /\ out # <<>> /\ Head(out) \notin {"\n", "\r", "\t", "BS"}
  /\ \/ pstate = "ESC" /\ Head(out) # "ESC"
     \/ pstate = "BRACKET" /\ Head(out) # "["
PrintsOnScreen == PutsNext => cursor.x >= 0 /\ cursor.y >= 0
=============================================================================
