----------------------------- MODULE PadPicture -----------------------------
(***************************************************************************)
(* What the pad promises the terminal: a character put into a cell appears *)
(* there in the font and the colours asked for, whatever was drawn before. *)
(***************************************************************************)
EXTENDS Integers

CONSTANTS Rows, Cols,   \* the pad's size in characters
          Codes,        \* character codes
          Printable,    \* those that are neither control characters nor blanks
          Fonts,        \* the loaded fonts, 0 regular, 1 italic, 2 bold: their glyphs
          Colors,       \* colours without the font bits, 0 being black
          Inks          \* pairs of foreground and background, each a colour
                        \* with the bits FN_B and FN_I

ASSUME PadSize == Rows \in Nat \ {0} /\ Cols \in Nat \ {0}
ASSUME PadCodes == Codes \subseteq Nat /\ Printable \subseteq Codes \ {0}
ASSUME PadFonts ==
  /\ DOMAIN Fonts \subseteq 0..2 /\ 0 \in DOMAIN Fonts
  /\ \A f \in DOMAIN Fonts : Fonts[f] \subseteq Codes
ASSUME PadColors ==
  /\ 0 \in Colors
  /\ Inks \subseteq [c : Colors, b : BOOLEAN, i : BOOLEAN] \X [c : Colors, b : BOOLEAN, i : BOOLEAN]

Cells == (0..(Rows - 1)) \X (0..(Cols - 1))

VARIABLES pad,   \* what every cell shows
          call   \* the last call and its arguments

Box(color) == [kind |-> "box", color |-> color]
Glyph(fn, ch, fg, bg) == [kind |-> "glyph", font |-> fn, ch |-> ch, fg |-> fg, bg |-> bg]

\* Bold is preferred to italic, and the regular font has what the wanted one lacks.
Wanted(fg, bg) ==
  IF (fg.b \/ bg.b) THEN IF 2 \in DOMAIN Fonts THEN 2 ELSE 0
  ELSE IF (fg.i \/ bg.i) /\ 1 \in DOMAIN Fonts THEN 1 ELSE 0

Picture(ch, fg, bg) ==
  IF ch \notin Printable THEN Box(bg.c)
  ELSE IF ch \in Fonts[Wanted(fg, bg)] THEN Glyph(Wanted(fg, bg), ch, fg.c, bg.c)
  ELSE IF ch \in Fonts[0] THEN Glyph(0, ch, fg.c, bg.c)
  ELSE Box(bg.c)

picVars == <<pad, call>>

PicInit == pad = [x \in Cells |-> Box(0)] /\ call = <<"none">>

ShowChar(ch, x, fg, bg) ==
  /\ call' = <<"put", ch, x, fg, bg>>
  /\ pad' = [pad EXCEPT ![x] = Picture(ch, fg, bg)]

ShowBox(sr, er, sc, ec, color) ==
  /\ call' = <<"fill", sr, er, sc, ec, color>>
  /\ pad' = [x \in Cells |-> IF /\ sr <= x[1] /\ (er < 0 \/ x[1] < er)
                                /\ sc <= x[2] /\ (ec < 0 \/ x[2] < ec)
                             THEN Box(color) ELSE pad[x]]

PicNext ==
  \/ \E ch \in Codes, x \in Cells, ink \in Inks : ShowChar(ch, x, ink[1], ink[2])
  \/ \E sr \in 0..(Rows - 1), er \in -1..Rows, sc \in 0..Cols, ec \in -1..Cols, color \in Colors :
       ShowBox(sr, er, sc, ec, color)

PicSpec == PicInit /\ [][PicNext]_picVars
=============================================================================
