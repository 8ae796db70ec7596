----------------------------- MODULE VtConsole -----------------------------
(***************************************************************************)
(* The console lbml3rd draws on the framebuffer (libfbpads/vtconsole.c): a *)
(* parser of ANSI escape sequences over a buffer of width x height cells.  *)
(*                                                                         *)
(* A character is a string, a digit too; of a cell only "blank or not" and *)
(* the attributes are kept.  The on_paint and on_move callbacks redraw     *)
(* what changed and have no say in what changes.                           *)
(***************************************************************************)
EXTENDS Integers, FiniteSetsExt

CONSTANTS
  Width, Height,   \* of the console, in cells
  StackSize,       \* VTC_ANSI_PARSER_STACK_SIZE
  MaxValue,        \* bound: largest parameter of a sequence
  RowsAbove,       \* bound: rows above the screen that '\b' reaches
  Alphabet         \* characters that are written

ASSUME ConsoleSize ==
  Width \in Nat \ {0} /\ Height \in Nat \ {0} /\ StackSize \in Nat \ {0}
  /\ MaxValue \in Nat /\ RowsAbove \in Nat

VARIABLES
  cursor,   \* position, [x |-> column, y |-> row]
  buffer,   \* the cells, by x + y * Width
  attr,     \* attributes of the characters to come
  pstate,   \* ansiparser.state
  stack,    \* ansiparser.stack
  index,    \* ansiparser.index
  tabs,     \* blanks the loop of '\t' has still to append
  wild      \* history: a cell outside the buffer, or the stack, has been written

cellVars   == <<cursor, buffer, wild>>
parserVars == <<pstate, stack, index>>
vtcVars    == <<cursor, buffer, attr, pstate, stack, index, tabs, wild>>

Digits == {"0", "1", "2", "3", "4", "5", "6", "7", "8", "9"}
DigitVal(c) ==
  CASE c = "0" -> 0 [] c = "1" -> 1 [] c = "2" -> 2 [] c = "3" -> 3
    [] c = "4" -> 4 [] c = "5" -> 5 [] c = "6" -> 6 [] c = "7" -> 7
    [] c = "8" -> 8 [] OTHER -> 9

Attrs == [bright : BOOLEAN, fg : 0..7, bg : 0..7]
VTC_DEFAULT_ATTR == [bright |-> FALSE, fg |-> 7, bg |-> 0]
Blank == [ink |-> FALSE, attr |-> VTC_DEFAULT_ATTR]
Cells == 0..(Width * Height - 1)
Empty == [value |-> 0, empty |-> TRUE]

\* The parser stays inside its stack, and every cell and attribute is of its
\* type; the cursor may be anywhere.
VtTypeOK ==
  /\ cursor \in [x : Int, y : Int]
  /\ buffer \in [Cells -> [ink : BOOLEAN, attr : Attrs]]
  /\ attr \in Attrs
  /\ pstate \in {"ESC", "BRACKET", "ATTR"}
  /\ stack \in [0..(StackSize - 1) -> [value : 0..MaxValue, empty : BOOLEAN]]
  /\ index \in 0..(StackSize - 1)
  /\ tabs \in Nat
  /\ wild \in BOOLEAN

\* vtconsole()
VtInit ==
  /\ cursor = [x |-> 0, y |-> 0]
  /\ buffer = [i \in Cells |-> Blank]
  /\ attr = VTC_DEFAULT_ATTR
  /\ pstate = "ESC"
  /\ stack = [i \in 0..(StackSize - 1) |-> [value |-> 0, empty |-> FALSE]]
  /\ index = 0
  /\ tabs = 0
  /\ wild = FALSE

-----------------------------------------------------------------------------
(* The buffer *)

At(x, y) == x + y * Width
Least(a, b) == IF a > b THEN b ELSE a

\* vtconsole_clear, from one position up to another, exclusive.
vtconsole_clear(fromx, fromy, tox, toy) ==
  /\ buffer' = [i \in Cells |-> IF At(fromx, fromy) <= i /\ i < At(tox, toy)
                                THEN Blank ELSE buffer[i]]
  /\ wild' = (wild \/ \E i \in At(fromx, fromy)..(At(tox, toy) - 1) : i \notin Cells)

\* vtconsole_scroll(vtc, 1)
Scrolled(b) ==
  [i \in Cells |-> IF i + Width \in Cells THEN b[i + Width] ELSE Blank]

\* Mutant: the bottom row is one too low.
vtconsole_newline_Late ==
  LET y == cursor.y + 1
  IN  [cur |-> [x |-> 0, y |-> IF y > Height THEN y - 1 ELSE y],
       buf |-> IF y > Height THEN Scrolled(buffer) ELSE buffer]

\* Cursor and buffer after vtconsole_newline.  Only the row right below the
\* last one scrolls, and the scroll moves the cursor up again.
vtconsole_newline ==
  LET y == cursor.y + 1
  IN  [cur |-> [x |-> 0, y |-> IF y = Height THEN y - 1 ELSE y],
       buf |-> IF y = Height THEN Scrolled(buffer) ELSE buffer]

\* Mutant: the end of a row is not noticed.
PutChar_NoWrap(ink) ==
  LET i == At(cursor.x, cursor.y)
  IN  /\ cursor' = [cursor EXCEPT !.x = Least(@ + 1, Width)]
      /\ buffer' = [j \in Cells |-> IF j = i THEN [ink |-> ink, attr |-> attr]
                                    ELSE buffer[j]]
      /\ wild' = (wild \/ i \notin Cells)

\* A character goes to the cursor's cell, in the next row at the end of one.
PutChar(ink) ==
  LET w == IF cursor.x >= Width THEN vtconsole_newline
           ELSE [cur |-> cursor, buf |-> buffer]
      i == At(w.cur.x, w.cur.y)
  IN  /\ cursor' = [w.cur EXCEPT !.x = @ + 1]
      /\ buffer' = [j \in Cells |-> IF j = i THEN [ink |-> ink, attr |-> attr]
                                    ELSE w.buf[j]]
      /\ wild' = (wild \/ i \notin Cells)

\* '\b' in column 0 goes to the end of the row before, row 0 included.
Backspace ==
  IF cursor.x > 0 THEN [cursor EXCEPT !.x = @ - 1]
  ELSE [x |-> Width - 1, y |-> cursor.y - 1]

\* C's remainder takes the sign of its left operand.
TabStop == 8 - (IF cursor.x >= 0 THEN cursor.x % 8 ELSE -((-cursor.x) % 8))

vtconsole_append(c) ==
  CASE c = "\n" -> /\ cursor' = vtconsole_newline.cur
                   /\ buffer' = vtconsole_newline.buf
                   /\ UNCHANGED <<tabs, wild>>
    [] c = "\r" -> /\ cursor' = [cursor EXCEPT !.x = 0]
                   /\ UNCHANGED <<buffer, tabs, wild>>
    [] c = "\t" -> tabs' = TabStop /\ UNCHANGED cellVars
    [] c = "BS" -> cursor' = Backspace /\ UNCHANGED <<buffer, tabs, wild>>
    [] OTHER    -> PutChar(c # " ") /\ UNCHANGED tabs

-----------------------------------------------------------------------------
(* The sequences *)

\* vtconsole_csi_cup.  The branch for an omitted column sets the row.
CupCursor(count) ==
  IF count = 1 /\ stack[0].empty THEN [x |-> 0, y |-> 0]
  ELSE IF count = 2
  THEN [x |-> IF stack[1].empty THEN cursor.x ELSE Least(stack[1].value - 1, Width - 1),
        y |-> IF stack[0].empty \/ stack[1].empty THEN 0
              ELSE Least(stack[0].value - 1, Height - 1)]
  ELSE cursor

Param0 == IF stack[0].empty THEN 0 ELSE stack[0].value

vtconsole_csi_ed ==
  CASE Param0 = 0 -> vtconsole_clear(cursor.x, cursor.y, Width, Height - 1)
    [] Param0 = 1 -> vtconsole_clear(0, 0, cursor.x, cursor.y)
    [] Param0 = 2 -> vtconsole_clear(0, 0, Width, Height - 1)
    [] OTHER      -> UNCHANGED <<buffer, wild>>

vtconsole_csi_el ==
  CASE Param0 = 0 -> vtconsole_clear(cursor.x, cursor.y, Width, cursor.y)
    [] Param0 = 1 -> vtconsole_clear(0, cursor.y, cursor.x, cursor.y)
    [] Param0 = 2 -> vtconsole_clear(0, cursor.y, Width, cursor.y)
    [] OTHER      -> UNCHANGED <<buffer, wild>>

\* vtconsole_csi_sgr applies the parameters in turn: for each attribute the
\* last parameter that resets or sets it decides.
Resets(count) == { i \in 0..(count - 1) : stack[i].empty \/ stack[i].value = 0 }
Setters(count, lo, hi) ==
  { i \in 0..(count - 1) : ~stack[i].empty /\ stack[i].value \in lo..hi }

SgrField(count, lo, hi, old, default, val(_)) ==
  LET S == Resets(count) \cup Setters(count, lo, hi)
  IN  IF S = {} THEN old
      ELSE IF Max(S) \in Resets(count) THEN default ELSE val(stack[Max(S)].value)

SgrAttr(count) ==
  [bright |-> SgrField(count, 1, 1, attr.bright, FALSE, LAMBDA v : TRUE),
   fg     |-> SgrField(count, 30, 37, attr.fg, 7, LAMBDA v : v - 30),
   bg     |-> SgrField(count, 40, 47, attr.bg, 0, LAMBDA v : v - 40)]

\* The final character of a sequence with count parameters.
Final(c, count) ==
  CASE c = "H" -> cursor' = CupCursor(count) /\ UNCHANGED <<buffer, attr, wild>>
    [] c = "J" -> vtconsole_csi_ed /\ UNCHANGED <<cursor, attr>>
    [] c = "K" -> vtconsole_csi_el /\ UNCHANGED <<cursor, attr>>
    [] c = "m" -> attr' = SgrAttr(count) /\ UNCHANGED cellVars
    [] OTHER   -> UNCHANGED <<cellVars, attr>>

-----------------------------------------------------------------------------
(* vtconsole_process, one character *)

StartSequence(c) ==
  /\ pstate = "ESC" /\ c = "ESC"
  /\ pstate' = "BRACKET"
  /\ index' = 0
  /\ stack' = [stack EXCEPT ![0] = Empty]
  /\ UNCHANGED <<cellVars, attr, tabs>>

OpenSequence(c) ==
  /\ pstate = "BRACKET" /\ c = "["
  /\ pstate' = "ATTR"
  /\ UNCHANGED <<cellVars, attr, stack, index, tabs>>

\* Outside a sequence, and after an ESC that does not start one.
PlainChar(c) ==
  /\ (pstate = "ESC" /\ c # "ESC") \/ (pstate = "BRACKET" /\ c # "[")
  /\ c = "BS" => cursor.y > -RowsAbove
  /\ pstate' = "ESC"
  /\ vtconsole_append(c)
  /\ UNCHANGED <<attr, stack, index>>

ParamDigit(c) ==
  /\ pstate = "ATTR" /\ c \in Digits
  /\ LET v == stack[index].value * 10 + DigitVal(c)
     IN  /\ v <= MaxValue
         /\ stack' = [stack EXCEPT ![index] = [value |-> v, empty |-> FALSE]]
  /\ UNCHANGED <<cellVars, attr, pstate, index, tabs>>

\* A character that ends a parameter, and the sequence unless it is ';'.
EndParam(c) ==
  /\ pstate = "ATTR" /\ c \notin Digits
  /\ index + 1 < StackSize
  /\ index' = index + 1
  /\ stack' = [stack EXCEPT ![index + 1] = Empty]
  /\ IF c = ";" THEN pstate' = "ATTR" /\ UNCHANGED <<cellVars, attr>>
     ELSE pstate' = "ESC" /\ Final(c, index + 1)
  /\ UNCHANGED tabs

\* The test lets index reach StackSize, and the element behind the stack is
\* written, which is index itself.
Overrun(c) ==
  /\ pstate = "ATTR" /\ c \notin Digits
  /\ index + 1 = StackSize
  /\ wild' = TRUE
  /\ UNCHANGED <<cursor, buffer, attr, parserVars, tabs>>

vtconsole_process(c) ==
  /\ tabs = 0
  /\ \/ StartSequence(c) \/ OpenSequence(c) \/ PlainChar(c)
     \/ ParamDigit(c) \/ EndParam(c) \/ Overrun(c)

\* Mutant: one blank too many.
TabBlank_OneMore ==
  /\ tabs >= 0
  /\ PutChar(FALSE)
  /\ tabs' = tabs - 1
  /\ UNCHANGED <<attr, parserVars>>

\* One round of the loop of '\t'.
TabBlank ==
  /\ tabs > 0
  /\ PutChar(FALSE)
  /\ tabs' = tabs - 1
  /\ UNCHANGED <<attr, parserVars>>

VtNext == TabBlank \/ \E c \in Alphabet : vtconsole_process(c)

VtSpec == VtInit /\ [][VtNext]_vtcVars

-----------------------------------------------------------------------------
(* Properties *)

\* Whatever is written, the cursor never passes the bottom or the right end
\* of the console, although vtconsole_newline tests the row for equality.
CursorBelow == cursor.x <= Width /\ cursor.y < Height

\* The only ways out of the buffer and the parser: a cursor left of or above the
\* screen (a zero parameter of CUP, a '\b' in the first cell), and a sequence with
\* as many parameters as the stack has elements.
StackFull == pstate = "ATTR" /\ index + 1 = StackSize
WildExplained ==
  [][~wild /\ wild' => cursor.x < 0 \/ cursor.y < 0 \/ StackFull]_vtcVars
=============================================================================
