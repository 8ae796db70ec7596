-------------------------- MODULE VtConsoleProofs --------------------------
(* Theorems about VtConsole, for every size of console and every stream. *)
EXTENDS VtConsole, WellFoundedInduction, TLAPS

\* Induction over the natural numbers, for a set.
LEMMA SetInduction ==
  ASSUME NEW S, 0 \in S, NEW n \in Nat, \A k \in 0..(n - 1) : k \in S => k + 1 \in S
  PROVE  \A k \in 0..n : k \in S
<1> DEFINE B == { k \in Nat : k <= n /\ k \notin S }
           R == OpToRel(<, Nat)
<1>1. SUFFICES ASSUME B # {}
               PROVE  FALSE
  BY DEF B
<1>2. IsWellFoundedOn(R, Nat)
  BY NatLessThanWellFounded
<1>3. \E m \in B : \A j \in B : ~(<<j, m>> \in R)
  <2>1. B \subseteq Nat
    OBVIOUS
  <2> HIDE DEF B, R
  <2> QED  BY <1>1, <1>2, <2>1, WFMin
<1>4. PICK m \in B : \A j \in B : ~(<<j, m>> \in R)
  BY <1>3
<1>5. \A j \in B : ~(j < m)
  BY <1>4 DEF OpToRel
<1>6. m # 0 /\ m \in Nat /\ m <= n
  BY <1>4
<1>7. m - 1 \in 0..(n - 1) /\ m - 1 \notin B
  BY <1>5, <1>6
<1>8. m - 1 \in S
  BY <1>6, <1>7
<1>9. (m - 1) + 1 \in S /\ (m - 1) + 1 = m
  BY <1>6, <1>7, <1>8
<1> QED  BY <1>4, <1>9

\* A non-empty set of indices below a bound has a largest element, so that
\* Max, which SgrField uses, picks one of them.
LEMMA MaxExists ==
  ASSUME NEW n \in Nat, NEW S, S \subseteq 0..n, S # {}
  PROVE  Max(S) \in S
<1> DEFINE T == { n - x : x \in S }
<1>1. T \subseteq Nat /\ T # {}
  <2>1. \A x \in S : n - x \in Nat
    OBVIOUS
  <2>2. PICK x \in S : TRUE
    OBVIOUS
  <2>3. n - x \in T
    OBVIOUS
  <2> QED  BY <2>1, <2>3
<1> DEFINE R == OpToRel(<, Nat)
<1>2. IsWellFoundedOn(R, Nat)
  BY NatLessThanWellFounded
<1>3. \E t \in T : \A u \in T : ~(<<u, t>> \in R)
  <2> HIDE DEF T, R
  <2> QED  BY <1>1, <1>2, WFMin
<1>4. PICK t \in T : \A u \in T : ~(<<u, t>> \in R)
  BY <1>3
<1>5. \A u \in T : ~(u < t)
  BY <1>1, <1>4 DEF OpToRel
<1>6. PICK x \in S : t = n - x
  BY <1>4
<1>7. \A y \in S : x >= y
  BY <1>5, <1>6
<1> QED
  BY <1>6, <1>7 DEF Max

-----------------------------------------------------------------------------
(* Types *)

\* vtconsole_newline yields a cursor and a buffer.
LEMMA NewlineType ==
  ASSUME VtTypeOK
  PROVE  /\ vtconsole_newline.cur \in [x : Int, y : Int]
         /\ vtconsole_newline.buf \in [Cells -> [ink : BOOLEAN, attr : Attrs]]
<1>1. Blank \in [ink : BOOLEAN, attr : Attrs]
  BY DEF Blank, Attrs, VTC_DEFAULT_ATTR
<1>2. Scrolled(buffer) \in [Cells -> [ink : BOOLEAN, attr : Attrs]]
  BY <1>1 DEF Scrolled, VtTypeOK
<1> QED
  BY <1>2, ConsoleSize DEF vtconsole_newline, VtTypeOK

\* Writing a character keeps the types.
LEMMA PutCharType ==
  ASSUME VtTypeOK, NEW ink \in BOOLEAN, PutChar(ink)
  PROVE  /\ cursor' \in [x : Int, y : Int]
         /\ buffer' \in [Cells -> [ink : BOOLEAN, attr : Attrs]]
         /\ wild' \in BOOLEAN
<1> DEFINE w == IF cursor.x >= Width THEN vtconsole_newline
                ELSE [cur |-> cursor, buf |-> buffer]
<1>1. w.cur \in [x : Int, y : Int] /\ w.buf \in [Cells -> [ink : BOOLEAN, attr : Attrs]]
  BY NewlineType DEF VtTypeOK
<1>2. cursor' = [w.cur EXCEPT !.x = @ + 1]
  BY DEF PutChar
<1>3. PICK i : buffer' = [j \in Cells |-> IF j = i THEN [ink |-> ink, attr |-> attr]
                                          ELSE w.buf[j]]
  BY DEF PutChar
<1>4. wild' \in BOOLEAN
  BY DEF PutChar, VtTypeOK
<1> HIDE DEF w
<1> QED
  BY <1>1, <1>2, <1>3, <1>4 DEF VtTypeOK

\* Clearing keeps the types.
LEMMA ClearType ==
  ASSUME VtTypeOK, NEW a, NEW b, NEW c, NEW d, vtconsole_clear(a, b, c, d)
  PROVE  buffer' \in [Cells -> [ink : BOOLEAN, attr : Attrs]] /\ wild' \in BOOLEAN
  BY DEF vtconsole_clear, VtTypeOK, Blank, Attrs, VTC_DEFAULT_ATTR

\* The attributes an SGR sequence leaves.
LEMMA SgrType ==
  ASSUME VtTypeOK, NEW count \in Nat, count < StackSize
  PROVE  SgrAttr(count) \in Attrs
<1>1. ASSUME NEW lo \in Nat, NEW hi \in Nat
      PROVE  LET S == Resets(count) \cup Setters(count, lo, hi)
             IN  S # {} /\ Max(S) \notin Resets(count)
                   => stack[Max(S)].value \in lo..hi
  <2> DEFINE S == Resets(count) \cup Setters(count, lo, hi)
  <2>1. S \subseteq 0..count
    BY DEF Resets, Setters
  <2>2. ASSUME S # {} PROVE Max(S) \in S
    <3> HIDE DEF S
    <3> QED  BY <2>1, <2>2, MaxExists
  <2> QED
    BY <2>2 DEF Setters
<1>2. SgrField(count, 1, 1, attr.bright, FALSE, LAMBDA v : TRUE) \in BOOLEAN
  BY DEF SgrField, VtTypeOK, Attrs
<1>3. SgrField(count, 30, 37, attr.fg, 7, LAMBDA v : v - 30) \in 0..7
  <2> DEFINE S == Resets(count) \cup Setters(count, 30, 37)
  <2>1. S # {} /\ Max(S) \notin Resets(count) => stack[Max(S)].value \in 30..37
    BY <1>1
  <2>2. SgrField(count, 30, 37, attr.fg, 7, LAMBDA v : v - 30)
          = IF S = {} THEN attr.fg
            ELSE IF Max(S) \in Resets(count) THEN 7 ELSE stack[Max(S)].value - 30
    BY DEF SgrField
  <2>3. attr.fg \in 0..7
    BY DEF VtTypeOK, Attrs
  <2> HIDE DEF S
  <2>4. (IF S = {} THEN attr.fg
         ELSE IF Max(S) \in Resets(count) THEN 7 ELSE stack[Max(S)].value - 30) \in 0..7
    BY <2>1, <2>3
  <2> QED
    BY <2>2, <2>4
<1>4. SgrField(count, 40, 47, attr.bg, 0, LAMBDA v : v - 40) \in 0..7
  <2> DEFINE S == Resets(count) \cup Setters(count, 40, 47)
  <2>1. S # {} /\ Max(S) \notin Resets(count) => stack[Max(S)].value \in 40..47
    BY <1>1
  <2>2. SgrField(count, 40, 47, attr.bg, 0, LAMBDA v : v - 40)
          = IF S = {} THEN attr.bg
            ELSE IF Max(S) \in Resets(count) THEN 0 ELSE stack[Max(S)].value - 40
    BY DEF SgrField
  <2>3. attr.bg \in 0..7
    BY DEF VtTypeOK, Attrs
  <2> HIDE DEF S
  <2>4. (IF S = {} THEN attr.bg
         ELSE IF Max(S) \in Resets(count) THEN 0 ELSE stack[Max(S)].value - 40) \in 0..7
    BY <2>1, <2>3
  <2> QED
    BY <2>2, <2>4
<1> QED
  BY <1>2, <1>3, <1>4 DEF SgrAttr, Attrs

-----------------------------------------------------------------------------
(* The invariant: the types, and CursorBelow *)

VtInv == VtTypeOK /\ CursorBelow

\* A newline stays within the console.
LEMMA NewlineBelow ==
  ASSUME VtInv
  PROVE  vtconsole_newline.cur.x = 0 /\ vtconsole_newline.cur.y < Height
  BY ConsoleSize DEF VtInv, VtTypeOK, CursorBelow, vtconsole_newline

\* So does a written character.
LEMMA PutCharInv ==
  ASSUME VtInv, NEW ink \in BOOLEAN, PutChar(ink)
  PROVE  CursorBelow'
<1>1. CASE cursor.x >= Width
  <2>1. cursor' = [vtconsole_newline.cur EXCEPT !.x = @ + 1]
    BY <1>1 DEF PutChar
  <2> QED
    BY <2>1, NewlineBelow, NewlineType, ConsoleSize DEF VtInv, CursorBelow
<1>2. CASE ~(cursor.x >= Width)
  <2>1. cursor' = [cursor EXCEPT !.x = @ + 1]
    BY <1>2 DEF PutChar
  <2> QED
    BY <1>2, <2>1, ConsoleSize DEF VtInv, VtTypeOK, CursorBelow
<1> QED
  BY <1>1, <1>2

\* A character outside a sequence.
LEMMA AppendInv ==
  ASSUME VtInv, NEW c, vtconsole_append(c)
  PROVE  /\ cursor' \in [x : Int, y : Int]
         /\ buffer' \in [Cells -> [ink : BOOLEAN, attr : Attrs]]
         /\ wild' \in BOOLEAN /\ tabs' \in Nat
         /\ CursorBelow'
<1> USE DEF VtInv
<1>1. CASE c = "\n"
  BY <1>1, NewlineType, NewlineBelow, ConsoleSize
     DEF vtconsole_append, VtTypeOK, CursorBelow
<1>2. CASE c = "\r"
  BY <1>2, ConsoleSize DEF vtconsole_append, VtTypeOK, CursorBelow
<1>3. CASE c = "\t"
  <2>1. TabStop \in Nat
    <3>1. CASE cursor.x >= 0
      BY <3>1 DEF TabStop, VtTypeOK
    <3>2. CASE ~(cursor.x >= 0)
      BY <3>2 DEF TabStop, VtTypeOK
    <3> QED  BY <3>1, <3>2
  <2> QED
    BY <1>3, <2>1 DEF vtconsole_append, VtTypeOK, CursorBelow, cellVars
<1>4. CASE c = "BS"
  <2>1. cursor' = Backspace /\ UNCHANGED <<buffer, tabs, wild>>
    BY <1>4 DEF vtconsole_append
  <2>2. /\ Backspace \in [x : Int, y : Int]
        /\ Backspace.x <= Width /\ Backspace.y < Height
    <3>1. /\ cursor \in [x : Int, y : Int]
          /\ cursor.x <= Width /\ cursor.y < Height
      BY DEF VtTypeOK, CursorBelow
    <3>2. CASE cursor.x > 0
      <4>1. Backspace = [x |-> cursor.x - 1, y |-> cursor.y]
        BY <3>1, <3>2 DEF Backspace
      <4> QED
        BY <3>1, <4>1, ConsoleSize
    <3>3. CASE ~(cursor.x > 0)
      BY <3>1, <3>3, ConsoleSize DEF Backspace
    <3> QED
      BY <3>2, <3>3
  <2> QED
    BY <2>1, <2>2 DEF VtTypeOK, CursorBelow
<1>5. CASE c \notin {"\n", "\r", "\t", "BS"}
  <2>1. PutChar(c # " ") /\ UNCHANGED tabs
    BY <1>5 DEF vtconsole_append
  <2>2. (c # " ") \in BOOLEAN
    OBVIOUS
  <2> QED
    BY <2>1, <2>2, PutCharType, PutCharInv DEF VtTypeOK
<1> QED
  BY <1>1, <1>2, <1>3, <1>4, <1>5

\* CUP stays within the console: it takes the lesser of the parameter and
\* the last row or column.
LEMMA CupBelow ==
  ASSUME VtInv, NEW count \in Nat, count < StackSize
  PROVE  /\ CupCursor(count) \in [x : Int, y : Int]
         /\ CupCursor(count).x <= Width /\ CupCursor(count).y < Height
<1>1. stack[0].value \in Int
  BY ConsoleSize DEF VtInv, VtTypeOK
<1>2. count = 2 => stack[1].value \in Int
  BY ConsoleSize DEF VtInv, VtTypeOK
<1> QED
  BY <1>1, <1>2, ConsoleSize DEF CupCursor, Least, VtInv, VtTypeOK, CursorBelow

\* The end of a sequence.
LEMMA FinalInv ==
  ASSUME VtInv, NEW c, NEW count \in Nat, count < StackSize, Final(c, count)
  PROVE  /\ cursor' \in [x : Int, y : Int]
         /\ buffer' \in [Cells -> [ink : BOOLEAN, attr : Attrs]]
         /\ attr' \in Attrs
         /\ wild' \in BOOLEAN
         /\ CursorBelow'
<1> USE DEF VtInv
<1>1. CASE c = "H"
  <2>1. cursor' = CupCursor(count) /\ UNCHANGED <<buffer, attr, wild>>
    BY <1>1 DEF Final
  <2> QED
    BY <2>1, CupBelow DEF VtTypeOK, CursorBelow
<1>2. CASE c \in {"J", "K"}
  <2>1. UNCHANGED <<cursor, attr>>
    BY <1>2 DEF Final
  <2>2. \/ \E p, q, r, t : vtconsole_clear(p, q, r, t)
        \/ UNCHANGED <<buffer, wild>>
    BY <1>2 DEF Final, vtconsole_csi_ed, vtconsole_csi_el
  <2>3. buffer' \in [Cells -> [ink : BOOLEAN, attr : Attrs]] /\ wild' \in BOOLEAN
    BY <2>2, ClearType DEF VtTypeOK
  <2> QED
    BY <2>1, <2>3 DEF VtTypeOK, CursorBelow
<1>3. CASE c = "m"
  <2>1. attr' = SgrAttr(count) /\ UNCHANGED <<cursor, buffer, wild>>
    BY <1>3 DEF Final, cellVars
  <2>2. SgrAttr(count) \in Attrs
    BY SgrType
  <2> QED
    BY <2>1, <2>2 DEF VtTypeOK, CursorBelow
<1>4. CASE c \notin {"H", "J", "K", "m"}
  BY <1>4 DEF Final, VtTypeOK, CursorBelow, cellVars
<1> QED
  BY <1>1, <1>2, <1>3, <1>4

\* vtconsole() starts inside the screen.
LEMMA VtInitInv == VtInit => VtInv
<1> SUFFICES ASSUME VtInit PROVE VtInv
  OBVIOUS
<1>1. VTC_DEFAULT_ATTR \in Attrs /\ Blank \in [ink : BOOLEAN, attr : Attrs]
  BY DEF VTC_DEFAULT_ATTR, Attrs, Blank
<1>2. [value |-> 0, empty |-> FALSE] \in [value : 0..MaxValue, empty : BOOLEAN]
  BY ConsoleSize
<1>3. buffer \in [Cells -> [ink : BOOLEAN, attr : Attrs]] /\ attr \in Attrs
  BY <1>1 DEF VtInit
<1>4. stack \in [0..(StackSize - 1) -> [value : 0..MaxValue, empty : BOOLEAN]]
  BY <1>2 DEF VtInit
<1>5. /\ cursor \in [x : Int, y : Int] /\ CursorBelow
      /\ index \in 0..(StackSize - 1) /\ tabs \in Nat
  BY ConsoleSize DEF VtInit, CursorBelow
<1>6. pstate \in {"ESC", "BRACKET", "ATTR"} /\ wild \in BOOLEAN
  BY DEF VtInit
<1> QED
  BY <1>3, <1>4, <1>5, <1>6 DEF VtInv, VtTypeOK

\* A character keeps the types and the cursor below.
LEMMA ProcessInv ==
  ASSUME VtInv, NEW c, vtconsole_process(c)
  PROVE  VtInv'
<1>0. Empty \in [value : 0..MaxValue, empty : BOOLEAN]
  BY ConsoleSize DEF Empty
<1>1. CASE StartSequence(c)
  BY <1>0, <1>1, ConsoleSize
     DEF StartSequence, VtInv, VtTypeOK, CursorBelow, cellVars
<1>2. CASE OpenSequence(c)
  BY <1>2 DEF OpenSequence, VtInv, VtTypeOK, CursorBelow, cellVars
<1>3. CASE PlainChar(c)
  <2>1. vtconsole_append(c) /\ pstate' = "ESC" /\ UNCHANGED <<attr, stack, index>>
    BY <1>3 DEF PlainChar
  <2> QED
    BY <2>1, AppendInv DEF VtInv, VtTypeOK
<1>4. CASE ParamDigit(c)
  <2> DEFINE v == stack[index].value * 10 + DigitVal(c)
  <2>1. DigitVal(c) \in 0..9
    BY DEF DigitVal
  <2>2. v \in 0..MaxValue
    <3>1. stack[index].value \in Nat
      BY ConsoleSize DEF VtInv, VtTypeOK
    <3>2. v <= MaxValue
      BY <1>4 DEF ParamDigit
    <3> QED
      BY <2>1, <3>1, <3>2, ConsoleSize
  <2>3. stack' = [stack EXCEPT ![index] = [value |-> v, empty |-> FALSE]]
    BY <1>4 DEF ParamDigit
  <2>4. UNCHANGED <<cellVars, attr, pstate, index, tabs>>
    BY <1>4 DEF ParamDigit
  <2> HIDE DEF v
  <2> QED
    BY <2>2, <2>3, <2>4 DEF VtInv, VtTypeOK, CursorBelow, cellVars
<1>5. CASE EndParam(c)
  <2>1. /\ index + 1 \in Nat /\ index + 1 < StackSize
        /\ index' = index + 1
        /\ stack' = [stack EXCEPT ![index + 1] = Empty]
        /\ UNCHANGED tabs
    <3>1. index + 1 \in Nat
      BY DEF VtInv, VtTypeOK
    <3>2. /\ index + 1 < StackSize
          /\ index' = index + 1
          /\ stack' = [stack EXCEPT ![index + 1] = Empty]
          /\ UNCHANGED tabs
      BY <1>5 DEF EndParam
    <3> QED
      BY <3>1, <3>2
  <2>2. /\ index' \in 0..(StackSize - 1)
        /\ stack' \in [0..(StackSize - 1) -> [value : 0..MaxValue, empty : BOOLEAN]]
    BY <2>1, <1>0, ConsoleSize DEF VtInv, VtTypeOK
  <2>3. CASE c = ";"
    <3>1. pstate' = "ATTR" /\ UNCHANGED <<cellVars, attr>>
      BY <1>5, <2>3 DEF EndParam
    <3> QED
      BY <2>1, <2>2, <3>1 DEF VtInv, VtTypeOK, CursorBelow, cellVars
  <2>4. CASE c # ";"
    <3>1. pstate' = "ESC" /\ Final(c, index + 1)
      BY <1>5, <2>4 DEF EndParam
    <3> QED
      BY <2>1, <2>2, <3>1, FinalInv DEF VtInv, VtTypeOK
  <2> QED
    BY <2>3, <2>4
<1>6. CASE Overrun(c)
  BY <1>6 DEF Overrun, parserVars, VtInv, VtTypeOK, CursorBelow
<1> QED
  BY <1>1, <1>2, <1>3, <1>4, <1>5, <1>6 DEF vtconsole_process

\* So does every step of the console.
LEMMA VtNextInv == VtInv /\ [VtNext]_vtcVars => VtInv'
<1> SUFFICES ASSUME VtInv, [VtNext]_vtcVars PROVE VtInv'
  OBVIOUS
<1>1. CASE TabBlank
  <2>1. PutChar(FALSE) /\ tabs' \in Nat /\ UNCHANGED <<attr, parserVars>>
    <3>1. /\ tabs > 0 /\ tabs' = tabs - 1
          /\ PutChar(FALSE) /\ UNCHANGED <<attr, parserVars>>
      BY <1>1 DEF TabBlank
    <3>2. tabs \in Nat
      BY DEF VtInv, VtTypeOK
    <3>3. tabs' \in Nat
      BY <3>1, <3>2
    <3> QED
      BY <3>1, <3>3
  <2> QED
    BY <2>1, PutCharType, PutCharInv DEF VtInv, VtTypeOK, parserVars
<1>2. ASSUME NEW c \in Alphabet, vtconsole_process(c) PROVE VtInv'
  BY <1>2, ProcessInv
<1>3. CASE UNCHANGED vtcVars
  BY <1>3 DEF vtcVars, VtInv, VtTypeOK, CursorBelow
<1> QED
  BY <1>1, <1>2, <1>3 DEF VtNext

\* Every reachable state of the console is well typed, for every size and
\* every stream.
THEOREM VtTypeCorrect == VtSpec => []VtTypeOK
<1>1. VtInv => VtTypeOK
  BY DEF VtInv
<1> QED
  BY <1>1, VtInitInv, VtNextInv, PTL DEF VtSpec

\* The cursor never passes the bottom or the right end of the console.
THEOREM CursorStaysBelow == VtSpec => []CursorBelow
<1>1. VtInv => CursorBelow
  BY DEF VtInv
<1> QED
  BY <1>1, VtInitInv, VtNextInv, PTL DEF VtSpec

-----------------------------------------------------------------------------
(* Writes stay in the buffer while the cursor is on the screen *)

\* Row by row: the cells before row y, for a row up to the height.
LEMMA RowBound ==
  ASSUME NEW y \in 0..Height
  PROVE  y * Width \in Int /\ 0 <= y * Width /\ y * Width <= Width * Height
<1>1. (Height - y) * Width >= 0
  BY ConsoleSize
<1> QED
  BY <1>1, ConsoleSize

\* A position whose column may be one past the row.
LEMMA AtBound ==
  ASSUME NEW x \in 0..Width, NEW y \in 0..(Height - 1)
  PROVE  At(x, y) \in Int /\ 0 <= At(x, y) /\ At(x, y) <= Width * Height
<1>1. 0 <= y * Width /\ (y + 1) * Width <= Width * Height /\ y * Width \in Int
  BY RowBound, ConsoleSize
<1> QED
  BY <1>1, ConsoleSize DEF At

\* A position on the screen is a cell.
LEMMA AtIsCell ==
  ASSUME NEW x \in 0..(Width - 1), NEW y \in 0..(Height - 1)
  PROVE  At(x, y) \in Cells
<1>1. 0 <= At(x + 1, y) /\ At(x + 1, y) <= Width * Height /\ At(x + 1, y) \in Int
  BY AtBound, ConsoleSize
<1>2. At(x, y) = At(x + 1, y) - 1
  BY ConsoleSize DEF At
<1>3. 0 <= At(x, y)
  BY AtBound, ConsoleSize
<1>4. Width * Height \in Int
  BY ConsoleSize
<1> QED
  BY <1>1, <1>2, <1>3, <1>4 DEF Cells

\* vtconsole_clear between positions on the screen stays in the buffer.
LEMMA ClearInside ==
  ASSUME NEW a, NEW b, NEW c, NEW d, vtconsole_clear(a, b, c, d), ~wild,
         At(a, b) \in Nat, At(c, d) \in Int, At(c, d) <= Width * Height
  PROVE  ~wild'
<1>1. \A i \in At(a, b)..(At(c, d) - 1) : i \in Cells
  BY ConsoleSize DEF Cells
<1> QED
  BY <1>1 DEF vtconsole_clear

OnScreen == cursor.x >= 0 /\ cursor.y >= 0

\* So does a character written from a cursor that is not left of or above it.
LEMMA PutCharInside ==
  ASSUME VtInv, OnScreen, ~wild, NEW ink, PutChar(ink)
  PROVE  ~wild'
<1> DEFINE w == IF cursor.x >= Width THEN vtconsole_newline
                ELSE [cur |-> cursor, buf |-> buffer]
<1>1. w.cur.x \in 0..(Width - 1) /\ w.cur.y \in 0..(Height - 1)
  <2>1. CASE cursor.x >= Width
    <3>1. /\ vtconsole_newline.cur.x = 0
          /\ vtconsole_newline.cur.y \in 0..(Height - 1)
      BY ConsoleSize DEF vtconsole_newline, VtInv, VtTypeOK, CursorBelow, OnScreen
    <3> QED  BY <2>1, <3>1, ConsoleSize
  <2>2. CASE ~(cursor.x >= Width)
    BY <2>2, ConsoleSize DEF VtInv, VtTypeOK, CursorBelow, OnScreen
  <2> QED  BY <2>1, <2>2
<1>2. At(w.cur.x, w.cur.y) \in Cells
  <2> HIDE DEF w
  <2> QED  BY <1>1, AtIsCell
<1> QED
  BY <1>2 DEF PutChar

\* The erasing sequences.
LEMMA EraseInside ==
  ASSUME VtInv, OnScreen, ~wild, vtconsole_csi_ed \/ vtconsole_csi_el
  PROVE  ~wild'
<1> DEFINE x == cursor.x
           y == cursor.y
<1>1. x \in 0..Width /\ y \in 0..(Height - 1)
  BY ConsoleSize DEF VtInv, VtTypeOK, CursorBelow, OnScreen
<1>2. 0 \in 0..Width /\ 0 \in 0..(Height - 1) /\ Width \in 0..Width /\ Height - 1 \in 0..(Height - 1)
  BY ConsoleSize
<1>3. \A p \in {0, x, Width}, q \in {0, y, Height - 1} :
        At(p, q) \in Nat /\ At(p, q) \in Int /\ At(p, q) <= Width * Height
  <2> HIDE DEF x, y
  <2> TAKE p \in {0, x, Width}, q \in {0, y, Height - 1}
  <2>1. p \in 0..Width /\ q \in 0..(Height - 1)
    BY <1>1, <1>2
  <2> QED  BY <2>1, AtBound
<1>4. \/ \E p, r \in {0, x, Width}, q, t \in {0, y, Height - 1} : vtconsole_clear(p, q, r, t)
      \/ UNCHANGED wild
  BY DEF vtconsole_csi_ed, vtconsole_csi_el
<1> QED
  <2> HIDE DEF x, y
  <2> QED  BY <1>3, <1>4, ClearInside

\* One step of the console from such a cursor writes nothing outside.
LEMMA StepInside ==
  ASSUME VtInv, [VtNext]_vtcVars, ~wild, OnScreen, ~StackFull
  PROVE  ~wild'
<1>1. CASE TabBlank
  BY <1>1, PutCharInside DEF TabBlank
<1>2. ASSUME NEW c \in Alphabet, StartSequence(c) \/ OpenSequence(c) \/ ParamDigit(c)
      PROVE  ~wild'
  BY <1>2 DEF StartSequence, OpenSequence, ParamDigit, cellVars
<1>3. ASSUME NEW c \in Alphabet, PlainChar(c) PROVE ~wild'
  <2>1. UNCHANGED wild \/ \E ink : PutChar(ink)
    BY <1>3 DEF PlainChar, vtconsole_append, cellVars
  <2> QED
    BY <2>1, PutCharInside
<1>4. ASSUME NEW c \in Alphabet, EndParam(c) PROVE ~wild'
  <2>1. UNCHANGED wild \/ Final(c, index + 1)
    BY <1>4 DEF EndParam, cellVars
  <2>2. UNCHANGED wild \/ vtconsole_csi_ed \/ vtconsole_csi_el
    BY <2>1 DEF Final, cellVars
  <2> QED
    BY <2>2, EraseInside
<1>5. ASSUME NEW c \in Alphabet PROVE ~Overrun(c)
  BY DEF Overrun, StackFull
<1>6. CASE UNCHANGED vtcVars
  BY <1>6 DEF vtcVars
<1> QED
  BY <1>1, <1>2, <1>3, <1>4, <1>5, <1>6 DEF VtNext, vtconsole_process

\* A write outside the buffer or the parser's stack only ever starts from a cursor
\* that is left of or above the screen, or at the end of a parameter for which the
\* stack has no room (vtconsole_clear, vtconsole_append, vtconsole_process).
THEOREM WildAlwaysExplained == VtSpec => WildExplained
<1>1. VtInv /\ [VtNext]_vtcVars
        => [~wild /\ wild' => cursor.x < 0 \/ cursor.y < 0 \/ StackFull]_vtcVars
  <2> SUFFICES ASSUME VtInv, [VtNext]_vtcVars, ~wild, wild'
               PROVE  cursor.x < 0 \/ cursor.y < 0 \/ StackFull
    BY DEF VtInv
  <2>1. ~OnScreen \/ StackFull
    BY StepInside
  <2>2. cursor.x \in Int /\ cursor.y \in Int
    BY DEF VtInv, VtTypeOK
  <2> QED
    BY <2>1, <2>2 DEF OnScreen
<1> QED
  BY <1>1, VtInitInv, VtNextInv, PTL DEF VtSpec, WildExplained
=============================================================================
