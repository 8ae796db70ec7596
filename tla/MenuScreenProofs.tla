-------------------------- MODULE MenuScreenProofs --------------------------
(***************************************************************************)
(* What main.c draws, for every console and every menu.                    *)
(*                                                                         *)
(* The output of a call is a long string, and the console is somewhere in  *)
(* it.  A route through a string tells, between any two characters, what   *)
(* is known of the console there (Step: one character; Plays: a string).   *)
(* Each output function has a route from what every call may rely on to    *)
(* what it leaves, put together from the routes of its parts; a character  *)
(* read by vtconsole_process makes true what the route says (StepSound).   *)
(* The inductive invariant is that the rest of the output has a route from *)
(* what is true of the console now (OnRoute).                              *)
(***************************************************************************)
EXTENDS MenuScreen, VtConsoleProofs

\* The characters that the output functions send.
Chars == {"ESC", "[", ";", "?", "x", " ", "\n", "h", "l", "J", "H", "m"} \cup Digits

-----------------------------------------------------------------------------
(* What is known of the console between two characters.                    *)
(* p, of the parser: its state, index and first two parameters, -1 for one *)
(* that is still empty.  d, of the rest: hue, of the attributes; pos, of   *)
(* the cursor: "on" the screen, on a screen without highlighted cell       *)
(* ("blank"), left of and above such a one ("away"), or "at" column x,     *)
(* r newlines after the first cell, when the m first columns of the row    *)
(* that was begun after v newlines are the highlighted ones.               *)

Parsing(ps, ix, v0, v1) == [ps |-> ps, ix |-> ix, v0 |-> v0, v1 |-> v1]
Quiet  == Parsing("ESC", 0, -1, -1)
Opened == Parsing("BRACKET", 0, -1, -1)
Param(ix, v0, v1) == Parsing("ATTR", ix, v0, v1)

Display(hue, pos, r, x, v, m) == [hue |-> hue, pos |-> pos, r |-> r, x |-> x, v |-> v, m |-> m]
Anywhere(hue) == Display(hue, "on", 0, 0, 0, 0)
Cleared  == Display("std", "blank", 0, 0, 0, 0)
Away     == Display("std", "away", 0, 0, 0, 0)
Writing(hue, r, x, v, m) == Display(hue, "at", r, x, v, m)

Knowing(p, d) == [p |-> p, d |-> d]

Grown(v, c) == (IF v = -1 THEN 0 ELSE v) * 10 + DigitVal(c)

\* A character that only the parser sees.
ParserStep(a, c, b) ==
  /\ b.d = a.d
  /\ \/ a.p = Quiet /\ c = "ESC" /\ b.p = Opened
     \/ a.p = Opened /\ c = "[" /\ b.p = Param(0, -1, -1)
     \/ \E v0 \in Nat \cup {-1} : a.p = Param(0, v0, -1) /\ c \in Digits /\ b.p = Param(0, Grown(v0, c), -1)
     \/ \E v0 \in Nat : a.p = Param(0, v0, -1) /\ c = ";" /\ b.p = Param(1, v0, -1)
     \/ \E v0 \in Nat, v1 \in Nat \cup {-1} :
          a.p = Param(1, v0, v1) /\ c \in Digits /\ b.p = Param(1, v0, Grown(v1, c))
     \/ a.p = Param(0, -1, -1) /\ c = "?" /\ b.p = Quiet

\* A character that is shown, or a newline.
PlainStep(a, c, b) ==
  /\ a.p = Quiet /\ b.p = Quiet
  /\ \/ /\ c \notin {"ESC", "\n", "\r", "\t", "BS"}
        /\ \/ \E hue \in {"std", "any"} : a.d = Anywhere(hue) /\ b.d = a.d
           \/ \E r, x, v, m \in Nat :
                /\ x < Width
                /\ \/ /\ m = 0 \/ v < r
                      /\ a.d = Writing("std", r, x, v, m) /\ b.d = Writing("std", r, x + 1, v, m)
                   \/ /\ m = x /\ v = r /\ c # " "
                      /\ a.d = Writing("hot", r, x, v, m) /\ b.d = Writing("hot", r, x + 1, v, m + 1)
     \/ /\ c = "\n"
        /\ \/ \E hue \in {"std", "any"} : a.d = Anywhere(hue) /\ b.d = a.d
           \/ a.d = Cleared /\ b.d = Cleared
           \/ a.d = Away /\ b.d \in {Writing("std", 0, 0, 0, 0), Anywhere("std")}
           \/ \E r, x, v, m \in Nat :
                a.d = Writing("std", r, x, v, m) /\ b.d = Writing("std", r + 1, 0, v, m)

\* The end of a sequence.
FinalStep(a, c, b) ==
  /\ b.p = Quiet
  /\ \/ c = "J" /\ a.p = Param(0, 2, -1) /\ a.d = Anywhere("std") /\ b.d = Cleared
     \/ c = "H" /\ a.p = Param(1, 0, 0) /\ a.d = Cleared /\ b.d = Away
     \/ /\ c = "H" /\ \E v0, v1 \in Nat \ {0} : a.p = Param(1, v0, v1)
        /\ a.d \in {Anywhere("std"), Cleared} /\ b.d = Anywhere("std")
     \/ /\ c = "m"
        /\ \/ /\ a.p = Param(1, 0, 0)
              /\ \/ a.d \in {Anywhere("std"), Anywhere("any")} /\ b.d = Anywhere("std")
                 \/ \E r, x, v, m \in Nat, hue \in {"std", "hot"} :
                      a.d = Writing(hue, r, x, v, m) /\ b.d = Writing("std", r, x, v, m)
           \/ /\ a.p = Param(1, 37, 40) /\ b.d = a.d
              /\ \/ a.d = Anywhere("std")
                 \/ \E r, x, v, m \in Nat : a.d = Writing("std", r, x, v, m)
           \/ /\ a.p \in {Param(1, 30, 36), Param(1, 30, 47)}
              /\ a.d = Anywhere("std") /\ b.d = Anywhere("any")
           \/ /\ a.p = Param(1, 30, 47)
              /\ \E r, v \in Nat : a.d = Writing("std", r, 0, v, 0) /\ b.d = Writing("hot", r, 0, r, 0)

Step(a, c, b) == ParserStep(a, c, b) \/ PlainStep(a, c, b) \/ FinalStep(a, c, b)

\* Writing s takes the console from what a knows to what b knows.
Route(f, a, s, b) ==
  /\ f[0] = a /\ f[Len(s)] = b
  /\ \A k \in 1..Len(s) : Step(f[k - 1], s[k], f[k])
Plays(a, s, b) == s \in Seq(Chars) /\ \E f : Route(f, a, s, b)

-----------------------------------------------------------------------------
(* Putting routes together *)

\* The empty string leads nowhere.
LEMMA PlaysNone ==
  ASSUME NEW a, NEW s, Len(s) = 0, s \in Seq(Chars)
  PROVE  Plays(a, s, a)
<1> DEFINE f == [k \in {0} |-> a]
<1>1. Route(f, a, s, a)
  BY DEF Route
<1> QED  BY <1>1 DEF Plays

\* One character is one step.
LEMMA PlaysOne ==
  ASSUME NEW a, NEW c \in Chars, NEW b, Step(a, c, b)
  PROVE  Plays(a, <<c>>, b)
<1> DEFINE f == [k \in 0..1 |-> IF k = 0 THEN a ELSE b]
           s == <<c>>
<1>1. s \in Seq(Chars) /\ Len(s) = 1 /\ s[1] = c /\ f[0] = a /\ f[1] = b
  OBVIOUS
<1> HIDE DEF f, s
<1>2. ASSUME NEW k \in 1..1 PROVE Step(f[k - 1], s[k], f[k])
  BY <1>1
<1>3. Route(f, a, s, b)
  BY <1>1, <1>2 DEF Route
<1> QED  BY <1>1, <1>3 DEF Plays, s

\* One string after another.
LEMMA PlaysBoth ==
  ASSUME NEW a, NEW s, NEW b, NEW r, NEW e, Plays(a, s, b), Plays(b, r, e)
  PROVE  Plays(a, s \o r, e)
<1>1. PICK f : Route(f, a, s, b)
  BY DEF Plays
<1>2. PICK g : Route(g, b, r, e)
  BY DEF Plays
<1> DEFINE n == Len(s)
           l == Len(r)
           w == s \o r
           h == [k \in 0..(n + l) |-> IF k <= n THEN f[k] ELSE g[k - n]]
<1>3. s \in Seq(Chars) /\ r \in Seq(Chars)
  BY DEF Plays
<1>4. /\ n \in Nat /\ l \in Nat /\ w \in Seq(Chars) /\ Len(w) = n + l
      /\ \A k \in 1..n : w[k] = s[k]
      /\ \A k \in (n + 1)..(n + l) : w[k] = r[k - n]
  BY <1>3
<1> HIDE DEF w, n, l
<1>5. /\ \A k \in 0..n : h[k] = f[k]
      /\ \A k \in n..(n + l) : h[k] = g[k - n]
  <2>1. f[n] = b /\ g[0] = b
    BY <1>1, <1>2 DEF Route, n
  <2>2. \A k \in 0..n : h[k] = f[k]
    BY <1>4
  <2>3. ASSUME NEW k \in n..(n + l) PROVE h[k] = g[k - n]
    <3>1. CASE k = n
      BY <1>4, <2>1, <3>1
    <3>2. CASE k # n
      BY <1>4, <3>2
    <3> QED  BY <3>1, <3>2
  <2> QED  BY <2>2, <2>3
<1> HIDE DEF h
<1>6. ASSUME NEW k \in 1..(n + l) PROVE Step(h[k - 1], w[k], h[k])
  <2>1. CASE k <= n
    <3>1. k \in 1..n /\ k - 1 \in 0..n /\ k \in 0..n
      BY <1>4, <2>1
    <3>2. Step(f[k - 1], s[k], f[k])
      BY <1>1, <3>1 DEF Route, n
    <3> QED  BY <1>4, <1>5, <3>1, <3>2
  <2>2. CASE ~(k <= n)
    <3>1. k - n \in 1..l /\ k \in (n + 1)..(n + l) /\ k - 1 \in n..(n + l) /\ k \in n..(n + l)
          /\ (k - 1) - n = (k - n) - 1
      BY <1>4, <2>2
    <3>2. Step(g[(k - n) - 1], r[k - n], g[k - n])
      BY <1>2, <3>1 DEF Route, l
    <3> QED  BY <1>4, <1>5, <3>1, <3>2
  <2> QED  BY <2>1, <2>2, <1>4
<1>7. h[0] = a /\ h[n + l] = e
  <2>1. f[0] = a /\ g[l] = e
    BY <1>1, <1>2 DEF Route, l
  <2>2. 0 \in 0..n /\ n + l \in n..(n + l) /\ (n + l) - n = l
    BY <1>4
  <2> QED  BY <1>5, <2>1, <2>2
<1>8. Route(h, a, w, e)
  BY <1>4, <1>6, <1>7 DEF Route
<1> QED  BY <1>4, <1>8 DEF Plays, w

\* A character behind a string.
LEMMA GlueOne ==
  ASSUME NEW s \in Seq(Chars), NEW c \in Chars
  PROVE  s \o <<c>> = Append(s, c)
  OBVIOUS

\* A character behind another.
LEMMA GlueTwo ==
  ASSUME NEW c1 \in Chars, NEW c2 \in Chars
  PROVE  <<c1>> \o <<c2>> = <<c1, c2>>
<1>1. <<c1>> \in Seq(Chars) /\ <<c1, c2>> = Append(<<c1>>, c2)
  OBVIOUS
<1> QED  BY <1>1, GlueOne

\* A character behind two.
LEMMA GlueThree ==
  ASSUME NEW c1 \in Chars, NEW c2 \in Chars, NEW c3 \in Chars
  PROVE  <<c1, c2>> \o <<c3>> = <<c1, c2, c3>>
<1>1. <<c1, c2>> \in Seq(Chars) /\ <<c1, c2, c3>> = Append(<<c1, c2>>, c3)
  OBVIOUS
<1> QED  BY <1>1, GlueOne

\* A character behind three.
LEMMA GlueFour ==
  ASSUME NEW c1 \in Chars, NEW c2 \in Chars, NEW c3 \in Chars, NEW c4 \in Chars
  PROVE  <<c1, c2, c3>> \o <<c4>> = <<c1, c2, c3, c4>>
<1>1. <<c1, c2, c3>> \in Seq(Chars) /\ <<c1, c2, c3, c4>> = Append(<<c1, c2, c3>>, c4)
  OBVIOUS
<1> QED  BY <1>1, GlueOne

\* Two characters are two steps.
LEMMA PlaysTwo ==
  ASSUME NEW a, NEW b, NEW e, NEW c1 \in Chars, NEW c2 \in Chars, Step(a, c1, b), Step(b, c2, e)
  PROVE  Plays(a, <<c1, c2>>, e)
<1>1. Plays(a, <<c1>>, b) /\ Plays(b, <<c2>>, e)
  BY PlaysOne
<1>2. <<c1>> \o <<c2>> = <<c1, c2>>
  BY GlueTwo
<1>3. Plays(a, <<c1>> \o <<c2>>, e)
  BY <1>1, PlaysBoth
<1> QED  BY <1>2, <1>3

\* Three characters are three steps.
LEMMA PlaysThree ==
  ASSUME NEW a, NEW b, NEW d, NEW e, NEW c1 \in Chars, NEW c2 \in Chars, NEW c3 \in Chars,
         Step(a, c1, b), Step(b, c2, d), Step(d, c3, e)
  PROVE  Plays(a, <<c1, c2, c3>>, e)
<1>1. Plays(a, <<c1, c2>>, d) /\ Plays(d, <<c3>>, e)
  BY PlaysOne, PlaysTwo
<1>2. <<c1, c2>> \o <<c3>> = <<c1, c2, c3>>
  BY GlueThree
<1>3. Plays(a, <<c1, c2>> \o <<c3>>, e)
  BY <1>1, PlaysBoth
<1> QED  BY <1>2, <1>3

\* Four characters are four steps.
LEMMA PlaysFour ==
  ASSUME NEW a, NEW b, NEW d, NEW g, NEW e,
         NEW c1 \in Chars, NEW c2 \in Chars, NEW c3 \in Chars, NEW c4 \in Chars,
         Step(a, c1, b), Step(b, c2, d), Step(d, c3, g), Step(g, c4, e)
  PROVE  Plays(a, <<c1, c2, c3, c4>>, e)
<1>1. Plays(a, <<c1, c2, c3>>, g) /\ Plays(g, <<c4>>, e)
  BY PlaysOne, PlaysThree
<1>2. <<c1, c2, c3>> \o <<c4>> = <<c1, c2, c3, c4>>
  BY GlueFour
<1>3. Plays(a, <<c1, c2, c3>> \o <<c4>>, e)
  BY <1>1, PlaysBoth
<1> QED  BY <1>2, <1>3

\* One more character on the way: what is left of a route.
LEMMA PlaysTail ==
  ASSUME NEW a, NEW s, NEW e, s # <<>>, Plays(a, s, e)
  PROVE  /\ Head(s) \in Chars
         /\ \E b : Step(a, Head(s), b) /\ Plays(b, Tail(s), e)
<1>1. PICK f : Route(f, a, s, e)
  BY DEF Plays
<1> DEFINE n == Len(s)
           r == Tail(s)
           g == [k \in 0..(n - 1) |-> f[k + 1]]
<1>2. s \in Seq(Chars)
  BY DEF Plays
<1>3. /\ n \in Nat /\ n >= 1 /\ r \in Seq(Chars) /\ Len(r) = n - 1
      /\ Head(s) = s[1] /\ \A k \in 1..(n - 1) : r[k] = s[k + 1]
  BY <1>2
<1>4. Head(s) \in Chars
  BY <1>2
<1> HIDE DEF n, r
<1>5. \A k \in 0..(n - 1) : g[k] = f[k + 1]
  OBVIOUS
<1> HIDE DEF g
<1>6. Step(f[0], s[1], f[1]) /\ f[0] = a
  <2>1. 1 \in 1..n /\ 1 - 1 = 0
    BY <1>3
  <2> QED  BY <1>1, <2>1 DEF Route, n
<1>7. ASSUME NEW k \in 1..(n - 1) PROVE Step(g[k - 1], r[k], g[k])
  <2>1. k + 1 \in 1..n /\ k - 1 \in 0..(n - 1) /\ k \in 0..(n - 1) /\ (k - 1) + 1 = k /\ (k + 1) - 1 = k
    BY <1>3
  <2>2. Step(f[(k + 1) - 1], s[k + 1], f[k + 1])
    BY <1>1, <2>1 DEF Route, n
  <2> QED  BY <1>3, <1>5, <2>1, <2>2
<1>8. g[0] = f[1] /\ g[n - 1] = e
  <2>1. 0 \in 0..(n - 1) /\ n - 1 \in 0..(n - 1) /\ 0 + 1 = 1 /\ (n - 1) + 1 = n
    BY <1>3
  <2>2. f[n] = e
    BY <1>1 DEF Route, n
  <2> QED  BY <1>5, <2>1, <2>2
<1>9. Route(g, f[1], r, e)
  BY <1>3, <1>7, <1>8 DEF Route
<1>10. Step(a, Head(s), f[1]) /\ Plays(f[1], r, e)
  BY <1>3, <1>6, <1>9 DEF Plays
<1> QED  BY <1>4, <1>10 DEF r

-----------------------------------------------------------------------------
(* What the console is like when something is known of it *)

Holds(k, v) == stack[k] = IF v = -1 THEN Empty ELSE [value |-> v, empty |-> FALSE]
ParserShows(p) ==
  /\ pstate = p.ps
  /\ p.ps = "BRACKET" => index = 0 /\ stack[0] = Empty
  /\ p.ps = "ATTR" => index = p.ix /\ Holds(0, p.v0) /\ (p.ix = 1 => Holds(1, p.v1))

\* Rows that have been scrolled out after r newlines, and the highlighted cells then.
Gone(r) == IF r < Height THEN 0 ELSE r - (Height - 1)
LitOf(r, v, m) == { At(x, v - Gone(r)) : x \in 0..(m - 1) } \cap Cells

Hot == [bright |-> FALSE, fg |-> 0, bg |-> 7]
HueShows(hue) == (hue = "std" => attr = VTC_DEFAULT_ATTR) /\ (hue = "hot" => attr = Hot)
InMenu(r, x, v, m) ==
  /\ cursor = [x |-> x, y |-> r - Gone(r)] /\ x <= Width /\ v <= r /\ m <= Width
  /\ Lit = LitOf(r, v, m)
DisplayShows(d) ==
  /\ HueShows(d.hue)
  /\ d.pos \in {"on", "blank"} => OnScreen
  /\ d.pos \in {"blank", "away"} => Lit = {}
  /\ d.pos = "away" => cursor = [x |-> -1, y |-> -1]
  /\ d.pos = "at" => InMenu(d.r, d.x, d.v, d.m)
Known(a) == ParserShows(a.p) /\ DisplayShows(a.d)

-----------------------------------------------------------------------------
(* The parser *)

\* What is known while the parameters of a sequence are read.
LEMMA ParamShown ==
  ASSUME NEW ix, NEW v0, NEW v1
  PROVE  /\ ParserShows(Param(ix, v0, v1)) <=>
              pstate = "ATTR" /\ index = ix /\ Holds(0, v0) /\ (ix = 1 => Holds(1, v1))
         /\ ParserShows(Param(ix, v0, v1))' <=>
              pstate' = "ATTR" /\ index' = ix /\ Holds(0, v0)' /\ (ix = 1 => Holds(1, v1)')
  BY DEF ParserShows, Param, Parsing

\* Which branch of vtconsole_process takes a character.
LEMMA Branches ==
  ASSUME NEW c, vtconsole_process(c), VtInv
  PROVE  /\ pstate = "ESC" /\ c = "ESC" => StartSequence(c)
         /\ pstate = "ESC" /\ c # "ESC" => PlainChar(c)
         /\ pstate = "BRACKET" /\ c = "[" => OpenSequence(c)
         /\ pstate = "ATTR" /\ c \in Digits => ParamDigit(c)
         /\ pstate = "ATTR" /\ c \notin Digits /\ index \in 0..1 => EndParam(c)
<1>1. index \in 0..1 => index + 1 # StackSize
  BY ScreenAssumption, ConsoleSize
<1> QED  BY <1>1 DEF vtconsole_process, StartSequence, PlainChar, OpenSequence, ParamDigit, EndParam, Overrun

\* What is known of the cells lasts as long as they do.
LEMMA DisplayKept ==
  ASSUME NEW d, DisplayShows(d), UNCHANGED <<cellVars, attr>>
  PROVE  DisplayShows(d)' /\ (~wild => ~wild')
  BY DEF DisplayShows, HueShows, InMenu, cellVars, Lit, OnScreen

\* A parameter stays a natural number.
LEMMA GrownNat ==
  ASSUME NEW v \in Nat \cup {-1}, NEW c
  PROVE  Grown(v, c) \in Nat
<1>1. DigitVal(c) \in 0..9
  BY DEF DigitVal
<1> QED  BY <1>1 DEF Grown

\* A digit of the parameter that is being read.
LEMMA DigitRead ==
  ASSUME VtInv, NEW c, ParamDigit(c), NEW v \in Nat \cup {-1}, Holds(index, v), index \in 0..1
  PROVE  /\ Holds(index, Grown(v, c))' /\ \A k \in 0..1 : k # index => stack'[k] = stack[k]
         /\ UNCHANGED <<cellVars, attr, pstate, index, tabs>>
<1>1. stack' = [stack EXCEPT ![index] = [value |-> stack[index].value * 10 + DigitVal(c), empty |-> FALSE]]
  BY DEF ParamDigit
<1>2. UNCHANGED <<cellVars, attr, pstate, index, tabs>>
  BY DEF ParamDigit
<1>3. stack[index].value = IF v = -1 THEN 0 ELSE v
  BY DEF Holds, Empty
<1>4. /\ 0 \in 0..(StackSize - 1) /\ 1 \in 0..(StackSize - 1)
      /\ stack \in [0..(StackSize - 1) -> [value : 0..MaxValue, empty : BOOLEAN]]
  BY ScreenAssumption, ConsoleSize DEF VtInv, VtTypeOK
<1>5. stack[index].value * 10 + DigitVal(c) = Grown(v, c)
  BY <1>3 DEF Grown
<1>6. stack'[index] = [value |-> Grown(v, c), empty |-> FALSE] /\ \A k \in 0..1 : k # index => stack'[k] = stack[k]
  <2> DEFINE e == [value |-> Grown(v, c), empty |-> FALSE]
  <2>1. stack' = [stack EXCEPT ![index] = e]
    BY <1>1, <1>5
  <2>2. index \in 0..(StackSize - 1) /\ \A k \in 0..1 : k \in 0..(StackSize - 1)
    BY <1>4
  <2> HIDE DEF e
  <2>3. stack'[index] = e /\ \A k \in 0..1 : k # index => stack'[k] = stack[k]
    BY <1>4, <2>1, <2>2
  <2> QED  BY <2>3 DEF e
<1>7. Grown(v, c) # -1
  BY GrownNat
<1> QED  BY <1>2, <1>6, <1>7 DEF Holds

\* The next parameter starts empty.
LEMMA ParamEnded ==
  ASSUME VtInv, NEW c, EndParam(c), index \in 0..1
  PROVE  /\ index' = index + 1 /\ UNCHANGED tabs
         /\ \A k \in 0..index : stack'[k] = stack[k]
         /\ stack'[index + 1] = Empty
         /\ c = ";" => pstate' = "ATTR" /\ UNCHANGED <<cellVars, attr>>
         /\ c # ";" => pstate' = "ESC" /\ Final(c, index + 1)
<1>1. /\ index' = index + 1 /\ UNCHANGED tabs
      /\ stack' = [stack EXCEPT ![index + 1] = Empty]
      /\ c = ";" => pstate' = "ATTR" /\ UNCHANGED <<cellVars, attr>>
      /\ c # ";" => pstate' = "ESC" /\ Final(c, index + 1)
  BY DEF EndParam
<1>2. /\ \A k \in 0..2 : k \in 0..(StackSize - 1)
      /\ stack \in [0..(StackSize - 1) -> [value : 0..MaxValue, empty : BOOLEAN]]
  BY ScreenAssumption, ConsoleSize DEF VtInv, VtTypeOK
<1>3. index + 1 \in 0..(StackSize - 1) /\ \A k \in 0..index : k \in 0..(StackSize - 1) /\ k # index + 1
  BY <1>2
<1>4. stack'[index + 1] = Empty /\ \A k \in 0..index : stack'[k] = stack[k]
  <2> HIDE DEF Empty
  <2> QED  BY <1>1, <1>2, <1>3
<1> QED  BY <1>1, <1>4

\* A character that only the parser sees does what its step says.
LEMMA ParserSound ==
  ASSUME VtInv, ~wild, tabs = 0, NEW a, NEW b, NEW c, Known(a), ParserStep(a, c, b), vtconsole_process(c)
  PROVE  Known(b)' /\ ~wild' /\ tabs' = 0
<1>0. DisplayShows(a.d) /\ b.d = a.d
  BY DEF Known, ParserStep
<1>1. CASE a.p = Quiet /\ c = "ESC" /\ b.p = Opened
  <2>1. StartSequence(c)
    BY <1>1, Branches DEF Known, ParserShows, Quiet, Parsing
  <2>2. UNCHANGED <<cellVars, attr>> /\ UNCHANGED tabs
    BY <2>1 DEF StartSequence
  <2>3. pstate' = "BRACKET" /\ index' = 0 /\ stack' = [stack EXCEPT ![0] = Empty]
    BY <2>1 DEF StartSequence
  <2>4. stack'[0] = Empty
    BY <2>3, ScreenAssumption, ConsoleSize DEF VtInv, VtTypeOK
  <2>5. ParserShows(b.p)'
    BY <1>1, <2>3, <2>4 DEF ParserShows, Opened, Parsing
  <2> QED  BY <1>0, <2>2, <2>5, DisplayKept DEF Known
<1>2. CASE a.p = Opened /\ c = "[" /\ b.p = Param(0, -1, -1)
  <2>1. OpenSequence(c) /\ index = 0 /\ stack[0] = Empty
    BY <1>2, Branches DEF Known, ParserShows, Opened, Parsing
  <2>2. UNCHANGED <<cellVars, attr>> /\ UNCHANGED tabs /\ pstate' = "ATTR" /\ index' = index /\ stack' = stack
    BY <2>1 DEF OpenSequence
  <2>3. ParserShows(b.p)'
    BY <1>2, <2>1, <2>2 DEF ParserShows, Param, Parsing, Holds
  <2> QED  BY <1>0, <2>2, <2>3, DisplayKept DEF Known
<1>3. ASSUME NEW v0 \in Nat \cup {-1}, a.p = Param(0, v0, -1), c \in Digits, b.p = Param(0, Grown(v0, c), -1)
      PROVE  Known(b)' /\ ~wild' /\ tabs' = 0
  <2>1. pstate = "ATTR" /\ index = 0 /\ Holds(0, v0)
    BY <1>3 DEF Known, ParserShows, Param, Parsing
  <2>2. ParamDigit(c)
    BY <1>3, <2>1, Branches
  <2>3. Holds(index, Grown(v0, c))' /\ UNCHANGED <<cellVars, attr, pstate, index, tabs>>
    BY <1>3, <2>1, <2>2, DigitRead
  <2>4. ParserShows(b.p)'
    BY <1>3, <2>1, <2>3 DEF ParserShows, Param, Parsing, Holds
  <2> QED  BY <1>0, <2>3, <2>4, DisplayKept DEF Known
<1>4. ASSUME NEW v0 \in Nat, a.p = Param(0, v0, -1), c = ";", b.p = Param(1, v0, -1)
      PROVE  Known(b)' /\ ~wild' /\ tabs' = 0
  <2>1. pstate = "ATTR" /\ index = 0 /\ Holds(0, v0)
    BY <1>4, ParamShown DEF Known
  <2>2. c \notin Digits
    BY <1>4 DEF Digits
  <2>3. EndParam(c)
    BY <2>1, <2>2, Branches
  <2>4. /\ index' = 1 /\ UNCHANGED tabs /\ stack'[0] = stack[0] /\ stack'[1] = Empty
        /\ pstate' = "ATTR" /\ UNCHANGED <<cellVars, attr>>
    <3>1. index \in 0..1 /\ 0 \in 0..index
      BY <2>1
    <3>2. /\ index' = index + 1 /\ UNCHANGED tabs /\ stack'[0] = stack[0] /\ stack'[index + 1] = Empty
          /\ pstate' = "ATTR" /\ UNCHANGED <<cellVars, attr>>
      BY <1>4, <2>3, <3>1, ParamEnded
    <3> QED  BY <2>1, <3>2
  <2>5. ParserShows(b.p)'
    <3>1. Holds(0, v0)' /\ Holds(1, -1)'
      BY <2>1, <2>4 DEF Holds
    <3> QED  BY <1>4, <2>4, <3>1, ParamShown
  <2> QED  BY <1>0, <2>4, <2>5, DisplayKept DEF Known
<1>5. ASSUME NEW v0 \in Nat, NEW v1 \in Nat \cup {-1}, a.p = Param(1, v0, v1), c \in Digits,
             b.p = Param(1, v0, Grown(v1, c))
      PROVE  Known(b)' /\ ~wild' /\ tabs' = 0
  <2>1. pstate = "ATTR" /\ index = 1 /\ Holds(0, v0) /\ Holds(1, v1)
    BY <1>5 DEF Known, ParserShows, Param, Parsing
  <2>2. ParamDigit(c)
    BY <1>5, <2>1, Branches
  <2>3. /\ Holds(index, Grown(v1, c))' /\ UNCHANGED <<cellVars, attr, pstate, index, tabs>>
        /\ stack'[0] = stack[0]
    BY <1>5, <2>1, <2>2, DigitRead
  <2>4. ParserShows(b.p)'
    BY <1>5, <2>1, <2>3 DEF ParserShows, Param, Parsing, Holds
  <2> QED  BY <1>0, <2>3, <2>4, DisplayKept DEF Known
<1>6. CASE a.p = Param(0, -1, -1) /\ c = "?" /\ b.p = Quiet
  <2>1. pstate = "ATTR" /\ index = 0
    BY <1>6 DEF Known, ParserShows, Param, Parsing
  <2>2. c \notin Digits
    BY <1>6 DEF Digits
  <2>3. EndParam(c)
    BY <2>1, <2>2, Branches
  <2>4. pstate' = "ESC" /\ Final(c, index + 1) /\ UNCHANGED tabs
    <3>1. index \in 0..1 /\ c # ";"
      BY <1>6, <2>1
    <3> QED  BY <2>3, <3>1, ParamEnded
  <2>5. UNCHANGED <<cellVars, attr>>
    BY <1>6, <2>4 DEF Final
  <2>6. ParserShows(b.p)'
    BY <1>6, <2>4 DEF ParserShows, Quiet, Parsing
  <2> QED  BY <1>0, <2>4, <2>5, <2>6, DisplayKept DEF Known
<1> QED  BY <1>1, <1>2, <1>3, <1>4, <1>5, <1>6 DEF ParserStep

-----------------------------------------------------------------------------
(* Characters that are shown *)

\* A cell of a higher row comes first.
LEMMA RowsApart ==
  ASSUME NEW x \in 0..(Width - 1), NEW z \in Nat, NEW p \in Int, NEW q \in Int, p < q
  PROVE  At(x, p) < At(z, q)
<1>1. p * Width \in Int /\ q * Width \in Int /\ (q - 1) * Width = q * Width - Width
  BY ConsoleSize
<1>2. p * Width <= (q - 1) * Width
  <2>1. (q - 1 - p) * Width >= 0
    BY ConsoleSize
  <2> QED  BY <2>1, ConsoleSize
<1> QED  BY <1>1, <1>2, ConsoleSize DEF At

\* The cell below is one width further.
LEMMA NextRow ==
  ASSUME NEW x \in Int, NEW y \in Int
  PROVE  At(x, y) \in Int /\ At(x, y + 1) = At(x, y) + Width
<1>1. (y + 1) * Width = y * Width + Width /\ y * Width \in Int
  BY ConsoleSize
<1> QED  BY <1>1, ConsoleSize DEF At

\* The cursor's row, and when a newline scrolls.
LEMMA GoneRows ==
  ASSUME NEW r \in Nat
  PROVE  /\ Gone(r) \in Nat /\ r - Gone(r) \in 0..(Height - 1)
         /\ r - Gone(r) + 1 = Height => Gone(r + 1) = Gone(r) + 1
         /\ r - Gone(r) + 1 # Height => Gone(r + 1) = Gone(r)
  BY ConsoleSize DEF Gone

\* A cell is highlighted or not.
LitCell(cell) == cell.ink /\ cell.attr.fg = 0 /\ cell.attr.bg = 7

\* Membership in Lit, cell by cell, now and after a step.
LEMMA LitMeans ==
  /\ \A i \in Cells : i \in Lit <=> LitCell(buffer[i])
  /\ \A i \in Cells : i \in Lit' <=> LitCell(buffer'[i])
  /\ Lit \subseteq Cells /\ Lit' \subseteq Cells
  BY DEF Lit, LitCell

\* A blank is never highlighted.
LEMMA BlankUnlit == ~LitCell(Blank)
  BY DEF LitCell, Blank, VTC_DEFAULT_ATTR

\* vtconsole_newline moves the highlighted cells up with the rows.
LEMMA LitNewline ==
  ASSUME VtInv, buffer' = vtconsole_newline.buf
  PROVE  /\ cursor.y + 1 # Height => Lit' = Lit
         /\ cursor.y + 1 = Height => \A i \in Cells : i \in Lit' <=> i + Width \in Lit
<1>1. CASE cursor.y + 1 # Height
  <2>1. buffer' = buffer
    BY <1>1 DEF vtconsole_newline
  <2> QED  BY <1>1, <2>1 DEF Lit
<1>2. CASE cursor.y + 1 = Height
  <2>1. buffer' = [i \in Cells |-> IF i + Width \in Cells THEN buffer[i + Width] ELSE Blank]
    BY <1>2 DEF vtconsole_newline, Scrolled
  <2>2. ASSUME NEW i \in Cells PROVE i \in Lit' <=> i + Width \in Lit
    <3>1. i \in Lit' <=> LitCell(buffer'[i])
      BY LitMeans
    <3>2. CASE i + Width \in Cells
      <4>1. buffer'[i] = buffer[i + Width]
        BY <2>1, <3>2
      <4> QED  BY <3>1, <3>2, <4>1, LitMeans
    <3>3. CASE i + Width \notin Cells
      <4>1. buffer'[i] = Blank
        BY <2>1, <3>3
      <4> QED  BY <3>1, <3>3, <4>1, LitMeans, BlankUnlit
    <3> QED  BY <3>2, <3>3
  <2> QED  BY <1>2, <2>2
<1> QED  BY <1>1, <1>2

\* Where vtconsole_newline leaves the cursor.
LEMMA NewlineCursor ==
  ASSUME VtInv
  PROVE  /\ cursor.y + 1 = Height => vtconsole_newline.cur = [x |-> 0, y |-> cursor.y]
         /\ cursor.y + 1 # Height => vtconsole_newline.cur = [x |-> 0, y |-> cursor.y + 1]
<1>1. cursor.y \in Int /\ Height \in Int
  BY ConsoleSize DEF VtInv, VtTypeOK
<1>2. CASE cursor.y + 1 = Height
  <2>1. cursor.y + 1 - 1 = cursor.y
    BY <1>1
  <2> DEFINE z == cursor.y + 1
  <2>2. vtconsole_newline.cur = [x |-> 0, y |-> IF z = Height THEN z - 1 ELSE z]
    <3>1. vtconsole_newline = [cur |-> [x |-> 0, y |-> IF z = Height THEN z - 1 ELSE z],
                               buf |-> IF z = Height THEN Scrolled(buffer) ELSE buffer]
      BY Zenon DEF vtconsole_newline
    <3> HIDE DEF z
    <3> QED  BY <3>1
  <2>3. (IF z = Height THEN z - 1 ELSE z) = cursor.y
    BY <1>1, <1>2
  <2> QED  BY <2>2, <2>3
<1>3. CASE cursor.y + 1 # Height
  BY <1>3 DEF vtconsole_newline
<1> QED  BY <1>2, <1>3

\* A newline of the menu.
LEMMA MenuNewline ==
  ASSUME VtInv, NEW r \in Nat, NEW x \in Nat, NEW v \in Nat, NEW m \in Nat, InMenu(r, x, v, m),
         cursor' = vtconsole_newline.cur, buffer' = vtconsole_newline.buf
  PROVE  InMenu(r + 1, 0, v, m)'
<1> DEFINE y == r - Gone(r)
           g == Gone(r)
           h == Gone(r + 1)
<1>1. cursor = [x |-> x, y |-> y] /\ v <= r /\ m <= Width /\ Lit = LitOf(r, v, m)
  BY DEF InMenu
<1>2. /\ g \in Nat /\ y \in 0..(Height - 1) /\ y = r - g
      /\ y + 1 = Height => h = g + 1
      /\ y + 1 # Height => h = g
  BY GoneRows
<1>3. cursor' = [x |-> 0, y |-> (r + 1) - h]
  <2>1. cursor.y = y
    BY <1>1
  <2>2. CASE y + 1 = Height
    <3>1. cursor' = [x |-> 0, y |-> cursor.y]
      BY <2>1, <2>2, NewlineCursor
    <3>2. (r + 1) - h = y
      BY <1>2, <2>2
    <3> QED  BY <2>1, <3>1, <3>2
  <2>3. CASE y + 1 # Height
    <3>1. cursor' = [x |-> 0, y |-> cursor.y + 1]
      BY <2>1, <2>3, NewlineCursor
    <3>2. (r + 1) - h = y + 1
      BY <1>2, <2>3
    <3> QED  BY <2>1, <3>1, <3>2
  <2> QED  BY <2>2, <2>3
<1>4. Lit' = LitOf(r + 1, v, m)
  <2>1. LitOf(r, v, m) = { At(k, v - g) : k \in 0..(m - 1) } \cap Cells
    BY DEF LitOf
  <2>2. LitOf(r + 1, v, m) = { At(k, v - h) : k \in 0..(m - 1) } \cap Cells
    BY DEF LitOf
  <2>3. cursor.y = y
    BY <1>1
  <2> HIDE DEF y, g, h
  <2>4. CASE y + 1 # Height
    <3>1. Lit' = Lit /\ h = g
      BY <1>2, <2>3, <2>4, LitNewline
    <3> QED  BY <1>1, <2>1, <2>2, <3>1
  <2>5. CASE y + 1 = Height
    <3>1. h = g + 1 /\ \A i \in Cells : i \in Lit' <=> i + Width \in Lit
      BY <1>2, <2>3, <2>5, LitNewline
    <3>2. ASSUME NEW i \in Cells
          PROVE  i + Width \in LitOf(r, v, m) <=> i \in LitOf(r + 1, v, m)
      <4>1. \A k \in 0..(m - 1) : At(k, v - h) \in Int /\ At(k, v - g) = At(k, v - h) + Width
        <5> DEFINE q == v - h
        <5>1. q \in Int /\ v - g = q + 1
          BY <1>2, <3>1
        <5> HIDE DEF q
        <5>2. ASSUME NEW k \in 0..(m - 1)
              PROVE  At(k, q) \in Int /\ At(k, q + 1) = At(k, q) + Width
          <6>1. k \in Int /\ q \in Int
            BY <5>1
          <6> QED  BY <6>1, NextRow
        <5> QED  BY <5>1, <5>2 DEF q
      <4>2. i \in Int /\ Width \in Int
        BY ConsoleSize DEF Cells
      <4>3. \A k \in 0..(m - 1) : i = At(k, v - h) <=> i + Width = At(k, v - g)
        BY <4>1, <4>2
      <4>4. \A k \in 0..(m - 1) : At(k, v - g) <= Width * Height - 1 /\ At(k, v - g) \in Int
        <5>1. SUFFICES ASSUME NEW k \in 0..(m - 1)
                       PROVE  At(k, v - g) <= Width * Height - 1 /\ At(k, v - g) \in Int
          OBVIOUS
        <5>2. k \in 0..(Width - 1) /\ v - g \in Int /\ v - g < Height /\ Height \in Int
          BY <1>1, <1>2, ConsoleSize
        <5>3. At(k, v - g) < At(0, Height) /\ At(k, v - g) \in Int
          <6> DEFINE q == v - g
          <6>1. q \in Int /\ q < Height /\ k \in Int /\ 0 \in Nat
            BY <5>2
          <6> HIDE DEF q
          <6>2. At(k, q) < At(0, Height)
            BY <5>2, <6>1, RowsApart
          <6>3. At(k, q) \in Int
            BY <6>1, NextRow
          <6> QED  BY <6>2, <6>3 DEF q
        <5>4. At(0, Height) = Width * Height /\ Width * Height \in Int
          BY ConsoleSize DEF At
        <5> QED  BY <5>3, <5>4
      <4>5. i >= 0 /\ Width > 0
        BY ConsoleSize DEF Cells
      <4>6. \A k \in 0..(m - 1) : i + Width = At(k, v - g) => i + Width \in Cells
        <5>1. Width * Height \in Int
          BY ConsoleSize
        <5> QED  BY <4>2, <4>4, <4>5, <5>1 DEF Cells
      <4> QED  BY <2>1, <2>2, <4>3, <4>6
    <3>3. \A i \in Cells : i \in Lit' <=> i \in LitOf(r + 1, v, m)
      BY <1>1, <3>1, <3>2
    <3>4. Lit' \subseteq Cells /\ LitOf(r + 1, v, m) \subseteq Cells
      BY <2>2, LitMeans
    <3> QED  BY <3>3, <3>4
  <2> QED  BY <2>4, <2>5
<1>5. 0 <= Width /\ v <= r + 1
  BY <1>1, ConsoleSize
<1> QED  BY <1>1, <1>3, <1>4, <1>5 DEF InMenu

\* A character that does not wrap.
LEMMA LitPut ==
  ASSUME VtInv, OnScreen, cursor.x < Width, NEW ink \in BOOLEAN, PutChar(ink)
  PROVE  /\ cursor' = [x |-> cursor.x + 1, y |-> cursor.y]
         /\ At(cursor.x, cursor.y) \in Cells
         /\ ink /\ attr = Hot => Lit' = Lit \cup {At(cursor.x, cursor.y)}
         /\ attr = VTC_DEFAULT_ATTR => Lit' = Lit \ {At(cursor.x, cursor.y)}
<1> DEFINE o == At(cursor.x, cursor.y)
<1>1. cursor \in [x : Int, y : Int] /\ cursor.x \in 0..(Width - 1) /\ cursor.y \in 0..(Height - 1)
  BY ConsoleSize DEF VtInv, VtTypeOK, CursorBelow, OnScreen
<1>2. ~(cursor.x >= Width)
  BY <1>1, ConsoleSize
<1>3. /\ cursor' = [cursor EXCEPT !.x = @ + 1]
      /\ buffer' = [j \in Cells |-> IF j = o THEN [ink |-> ink, attr |-> attr] ELSE buffer[j]]
  BY <1>2 DEF PutChar
<1>4. o \in Cells
  BY <1>1, AtIsCell
<1> HIDE DEF o
<1>5. \A j \in Cells : j \in Lit' <=> IF j = o THEN LitCell([ink |-> ink, attr |-> attr]) ELSE j \in Lit
  <2> TAKE j \in Cells
  <2>1. CASE j = o
    BY <1>3, <2>1, LitMeans
  <2>2. CASE j # o
    BY <1>3, <2>2, LitMeans
  <2> QED  BY <2>1, <2>2
<1>6. attr = VTC_DEFAULT_ATTR => ~LitCell([ink |-> ink, attr |-> attr])
  BY DEF LitCell, VTC_DEFAULT_ATTR
<1>7. ink /\ attr = Hot => LitCell([ink |-> ink, attr |-> attr])
  BY DEF LitCell, Hot
<1>8. cursor' = [x |-> cursor.x + 1, y |-> cursor.y]
  BY <1>1, <1>3
<1>9. ASSUME ink, attr = Hot PROVE Lit' = Lit \cup {o}
  BY <1>4, <1>5, <1>7, <1>9, LitMeans
<1>10. ASSUME attr = VTC_DEFAULT_ATTR PROVE Lit' = Lit \ {o}
  BY <1>4, <1>5, <1>6, <1>10, LitMeans
<1> QED  BY <1>4, <1>8, <1>9, <1>10 DEF o

\* A character in the default attributes leaves the highlighted row alone.
LEMMA MenuPlain ==
  ASSUME VtInv, NEW r \in Nat, NEW x \in Nat, NEW v \in Nat, NEW m \in Nat, InMenu(r, x, v, m),
         x < Width, m = 0 \/ v < r, attr = VTC_DEFAULT_ATTR, NEW ink \in BOOLEAN, PutChar(ink)
  PROVE  InMenu(r, x + 1, v, m)'
<1> DEFINE y == r - Gone(r)
<1>1. cursor = [x |-> x, y |-> y] /\ v <= r /\ m <= Width /\ Lit = LitOf(r, v, m)
  BY DEF InMenu
<1>2. Gone(r) \in Nat /\ y \in 0..(Height - 1)
  BY GoneRows
<1>3. cursor.x = x /\ cursor.y = y
  BY <1>1
<1>4. OnScreen
  BY <1>2, <1>3 DEF OnScreen
<1>5. cursor' = [x |-> x + 1, y |-> y] /\ Lit' = Lit \ {At(x, y)}
  <2> HIDE DEF y
  <2> QED  BY <1>3, <1>4, LitPut
<1>6. At(x, y) \notin LitOf(r, v, m)
  <2>1. CASE m = 0
    BY <2>1 DEF LitOf
  <2>2. CASE v < r
    <3>1. ASSUME NEW k \in 0..(m - 1) PROVE At(k, v - Gone(r)) # At(x, y)
      <4>1. k \in 0..(Width - 1) /\ v - Gone(r) \in Int /\ y \in Int /\ v - Gone(r) < y
        BY <1>1, <1>2, <2>2, ConsoleSize
      <4>2. At(k, v - Gone(r)) < At(x, y) /\ At(k, v - Gone(r)) \in Int
        <5> DEFINE q == v - Gone(r)
        <5>1. q \in Int /\ q < y /\ k \in Int
          BY <4>1
        <5> HIDE DEF y, q
        <5>2. At(k, q) < At(x, y)
          BY <4>1, <5>1, RowsApart
        <5>3. At(k, q) \in Int
          BY <5>1, NextRow
        <5> QED  BY <5>2, <5>3 DEF q
      <4> QED  BY <4>2
    <3> QED  BY <3>1 DEF LitOf
  <2> QED  BY <2>1, <2>2
<1>7. Lit' = LitOf(r, v, m)
  BY <1>1, <1>5, <1>6
<1>8. x + 1 <= Width
  BY ConsoleSize
<1> QED  BY <1>1, <1>5, <1>7, <1>8 DEF InMenu

\* A character in the highlight's attributes adds its cell to them.
LEMMA MenuHot ==
  ASSUME VtInv, NEW r \in Nat, NEW x \in Nat, InMenu(r, x, r, x),
         x < Width, attr = Hot, PutChar(TRUE)
  PROVE  InMenu(r, x + 1, r, x + 1)'
<1> DEFINE y == r - Gone(r)
<1>1. cursor = [x |-> x, y |-> y] /\ Lit = LitOf(r, r, x)
  BY DEF InMenu
<1>2. Gone(r) \in Nat /\ y \in 0..(Height - 1)
  BY GoneRows
<1>3. cursor.x = x /\ cursor.y = y
  BY <1>1
<1>4. OnScreen
  BY <1>2, <1>3 DEF OnScreen
<1>5. cursor' = [x |-> x + 1, y |-> y] /\ Lit' = Lit \cup {At(x, y)} /\ At(x, y) \in Cells
  <2> HIDE DEF y
  <2> QED  BY <1>3, <1>4, LitPut
<1>6. LitOf(r, r, x + 1) = LitOf(r, r, x) \cup {At(x, y)}
  <2>1. 0..((x + 1) - 1) = 0..(x - 1) \cup {x}
    OBVIOUS
  <2>2. LitOf(r, r, x) = { At(k, y) : k \in 0..(x - 1) } \cap Cells
    BY DEF LitOf
  <2>3. LitOf(r, r, x + 1) = { At(k, y) : k \in 0..((x + 1) - 1) } \cap Cells
    BY DEF LitOf
  <2> HIDE DEF y
  <2> QED  BY <1>5, <2>1, <2>2, <2>3
<1>7. x + 1 <= Width
  BY ConsoleSize
<1> QED  BY <1>1, <1>5, <1>6, <1>7 DEF InMenu

\* What is known of the display, one kind of knowledge after the other.
LEMMA DisplayMeans ==
  ASSUME NEW hue, NEW r, NEW x, NEW v, NEW m
  PROVE  /\ DisplayShows(Anywhere(hue)) <=> HueShows(hue) /\ OnScreen
         /\ DisplayShows(Cleared) <=> HueShows("std") /\ OnScreen /\ Lit = {}
         /\ DisplayShows(Away) <=> HueShows("std") /\ cursor = [x |-> -1, y |-> -1] /\ Lit = {}
         /\ DisplayShows(Writing(hue, r, x, v, m)) <=> HueShows(hue) /\ InMenu(r, x, v, m)
<1>1. DisplayShows(Anywhere(hue)) <=> HueShows(hue) /\ OnScreen
  BY DEF DisplayShows, Anywhere, Display
<1>2. DisplayShows(Cleared) <=> HueShows("std") /\ OnScreen /\ Lit = {}
  BY DEF DisplayShows, Cleared, Display
<1>3. DisplayShows(Away) <=> HueShows("std") /\ cursor = [x |-> -1, y |-> -1] /\ Lit = {}
  BY DEF DisplayShows, Away, Display
<1>4. DisplayShows(Writing(hue, r, x, v, m)) <=> HueShows(hue) /\ InMenu(r, x, v, m)
  BY DEF DisplayShows, Writing, Display
<1> QED  BY <1>1, <1>2, <1>3, <1>4

\* The same after a step.
LEMMA DisplayMeansNext ==
  ASSUME NEW hue, NEW r, NEW x, NEW v, NEW m
  PROVE  /\ DisplayShows(Anywhere(hue))' <=> HueShows(hue)' /\ OnScreen'
         /\ DisplayShows(Cleared)' <=> HueShows("std")' /\ OnScreen' /\ Lit' = {}
         /\ DisplayShows(Away)' <=> HueShows("std")' /\ cursor' = [x |-> -1, y |-> -1] /\ Lit' = {}
         /\ DisplayShows(Writing(hue, r, x, v, m))' <=> HueShows(hue)' /\ InMenu(r, x, v, m)'
<1>1. DisplayShows(Anywhere(hue))' <=> HueShows(hue)' /\ OnScreen'
  BY DEF DisplayShows, Anywhere, Display
<1>2. DisplayShows(Cleared)' <=> HueShows("std")' /\ OnScreen' /\ Lit' = {}
  BY DEF DisplayShows, Cleared, Display
<1>3. DisplayShows(Away)' <=> HueShows("std")' /\ cursor' = [x |-> -1, y |-> -1] /\ Lit' = {}
  BY DEF DisplayShows, Away, Display
<1>4. DisplayShows(Writing(hue, r, x, v, m))' <=> HueShows(hue)' /\ InMenu(r, x, v, m)'
  BY DEF DisplayShows, Writing, Display
<1> QED  BY <1>1, <1>2, <1>3, <1>4

\* A cursor on the screen stays there.
LEMMA StaysOn ==
  ASSUME VtInv, OnScreen
  PROVE  /\ cursor' = vtconsole_newline.cur => OnScreen'
         /\ \A ink : PutChar(ink) => OnScreen'
<1>1. cursor \in [x : Int, y : Int] /\ cursor.x >= 0 /\ cursor.y >= 0
  BY DEF VtInv, VtTypeOK, OnScreen
<1>2. vtconsole_newline.cur \in [x : Int, y : Int] /\ vtconsole_newline.cur.x = 0 /\ vtconsole_newline.cur.y >= 0
  <2>1. CASE cursor.y + 1 = Height
    BY <1>1, <2>1, NewlineCursor
  <2>2. CASE cursor.y + 1 # Height
    BY <1>1, <2>2, NewlineCursor
  <2> QED  BY <2>1, <2>2
<1>3. cursor' = vtconsole_newline.cur => OnScreen'
  BY <1>2 DEF OnScreen
<1>4. ASSUME NEW ink, PutChar(ink) PROVE OnScreen'
  <2>1. CASE cursor.x >= Width
    <3>1. cursor' = [vtconsole_newline.cur EXCEPT !.x = @ + 1]
      BY <1>4, <2>1 DEF PutChar
    <3> QED  BY <1>2, <3>1 DEF OnScreen
  <2>2. CASE ~(cursor.x >= Width)
    <3>1. cursor' = [cursor EXCEPT !.x = @ + 1]
      BY <1>4, <2>2 DEF PutChar
    <3> QED  BY <1>1, <3>1 DEF OnScreen
  <2> QED  BY <2>1, <2>2
<1> QED  BY <1>3, <1>4

\* While a menu is drawn the cursor is on the screen.
LEMMA InMenuOn ==
  ASSUME NEW r \in Nat, NEW x \in Nat, NEW v, NEW m, InMenu(r, x, v, m)
  PROVE  OnScreen
<1>1. cursor = [x |-> x, y |-> r - Gone(r)]
  BY DEF InMenu
<1>2. r - Gone(r) \in 0..(Height - 1)
  BY GoneRows
<1>3. cursor.x = x /\ cursor.y = r - Gone(r)
  BY <1>1
<1> QED  BY <1>2, <1>3, ConsoleSize DEF OnScreen

\* A character that is shown, or a newline, does what its step says.
LEMMA PlainSound ==
  ASSUME VtInv, ~wild, tabs = 0, NEW a, NEW b, NEW c, Known(a), PlainStep(a, c, b), vtconsole_process(c)
  PROVE  Known(b)' /\ ~wild' /\ tabs' = 0
<1>1. a.p = Quiet /\ b.p = Quiet /\ DisplayShows(a.d) /\ ParserShows(Quiet)
  BY DEF Known, PlainStep
<1>2. pstate = "ESC" /\ c # "ESC"
  <2>1. pstate = "ESC"
    BY <1>1 DEF ParserShows, Quiet, Parsing
  <2>2. c # "ESC"
    BY DEF PlainStep
  <2> QED  BY <2>1, <2>2
<1>3. pstate' = "ESC" /\ vtconsole_append(c) /\ attr' = attr
  BY <1>2, Branches DEF PlainChar
<1>4. ParserShows(Quiet)'
  BY <1>3 DEF ParserShows, Quiet, Parsing
<1>5. \A hue : HueShows(hue) => HueShows(hue)'
  BY <1>3 DEF HueShows
<1>6. SUFFICES DisplayShows(b.d)' /\ ~wild' /\ tabs' = 0
  BY <1>1, <1>4 DEF Known
<1>7. CASE c \notin {"ESC", "\n", "\r", "\t", "BS"}
  <2> DEFINE ink == c # " "
  <2>1. PutChar(ink) /\ UNCHANGED tabs /\ ink \in BOOLEAN
    BY <1>3, <1>7 DEF vtconsole_append
  <2> HIDE DEF ink
  <2>2. ASSUME NEW hue \in {"std", "any"}, a.d = Anywhere(hue), b.d = a.d
        PROVE  DisplayShows(b.d)' /\ ~wild' /\ tabs' = 0
    <3>1. HueShows(hue) /\ OnScreen
      BY <1>1, <2>2, DisplayMeans
    <3>2. OnScreen' /\ ~wild'
      BY <2>1, <3>1, StaysOn, PutCharInside
    <3> QED  BY <1>5, <2>1, <2>2, <3>1, <3>2, DisplayMeansNext
  <2>3. ASSUME NEW r \in Nat, NEW x \in Nat, NEW v \in Nat, NEW m \in Nat, x < Width, m = 0 \/ v < r,
               a.d = Writing("std", r, x, v, m), b.d = Writing("std", r, x + 1, v, m)
        PROVE  DisplayShows(b.d)' /\ ~wild' /\ tabs' = 0
    <3>1. HueShows("std") /\ InMenu(r, x, v, m)
      BY <1>1, <2>3, DisplayMeans
    <3>2. OnScreen
      BY <3>1, InMenuOn
    <3>3. ~wild'
      BY <2>1, <3>2, PutCharInside
    <3>4. attr = VTC_DEFAULT_ATTR
      BY <3>1 DEF HueShows
    <3>5. InMenu(r, x + 1, v, m)'
      BY <2>1, <2>3, <3>1, <3>4, MenuPlain
    <3>6. DisplayShows(Writing("std", r, x + 1, v, m))'
      BY <1>5, <3>1, <3>5, DisplayMeansNext
    <3> QED  BY <2>1, <2>3, <3>3, <3>6
  <2>4. ASSUME NEW r \in Nat, NEW x \in Nat, NEW v \in Nat, NEW m \in Nat, x < Width, m = x, v = r, c # " ",
               a.d = Writing("hot", r, x, v, m), b.d = Writing("hot", r, x + 1, v, m + 1)
        PROVE  DisplayShows(b.d)' /\ ~wild' /\ tabs' = 0
    <3>1. HueShows("hot") /\ InMenu(r, x, v, m)
      BY <1>1, <2>4, DisplayMeans
    <3>2. OnScreen
      BY <3>1, InMenuOn
    <3>3. ~wild'
      BY <2>1, <3>2, PutCharInside
    <3>4. attr = Hot
      BY <3>1 DEF HueShows
    <3>5. PutChar(TRUE)
      <4>1. ink = TRUE
        BY <2>4 DEF ink
      <4> QED  BY <2>1, <4>1
    <3>6. InMenu(r, x, r, x)
      BY <2>4, <3>1
    <3>7. InMenu(r, x + 1, r, x + 1)'
      BY <2>4, <3>4, <3>5, <3>6, MenuHot
    <3>8. b.d = Writing("hot", r, x + 1, r, x + 1)
      BY <2>4
    <3>9. DisplayShows(Writing("hot", r, x + 1, r, x + 1))'
      BY <1>5, <3>1, <3>7, DisplayMeansNext
    <3> QED  BY <2>1, <3>3, <3>8, <3>9
  <2>5. \/ \E hue \in {"std", "any"} : a.d = Anywhere(hue) /\ b.d = a.d
        \/ \E r, x, v, m \in Nat :
             /\ x < Width
             /\ \/ /\ m = 0 \/ v < r
                   /\ a.d = Writing("std", r, x, v, m) /\ b.d = Writing("std", r, x + 1, v, m)
                \/ /\ m = x /\ v = r /\ c # " "
                   /\ a.d = Writing("hot", r, x, v, m) /\ b.d = Writing("hot", r, x + 1, v, m + 1)
    BY <1>7 DEF PlainStep
  <2> QED  BY <2>2, <2>3, <2>4, <2>5
<1>8. CASE c = "\n"
  <2>1. cursor' = vtconsole_newline.cur /\ buffer' = vtconsole_newline.buf /\ UNCHANGED <<tabs, wild>>
    BY <1>3, <1>8 DEF vtconsole_append
  <2>2. ASSUME NEW hue \in {"std", "any"}, a.d = Anywhere(hue), b.d = a.d
        PROVE  DisplayShows(b.d)'
    <3>1. HueShows(hue) /\ OnScreen
      BY <1>1, <2>2, DisplayMeans
    <3>2. OnScreen'
      BY <2>1, <3>1, StaysOn
    <3> QED  BY <1>5, <2>2, <3>1, <3>2, DisplayMeansNext
  <2>3. Lit = {} => Lit' = {}
    <3>1. CASE cursor.y + 1 # Height
      BY <2>1, <3>1, LitNewline
    <3>2. CASE cursor.y + 1 = Height
      BY <2>1, <3>2, LitNewline, LitMeans
    <3> QED  BY <3>1, <3>2
  <2>4. ASSUME a.d = Cleared, b.d = Cleared PROVE DisplayShows(b.d)'
    <3>1. HueShows("std") /\ OnScreen /\ Lit = {}
      BY <1>1, <2>4, DisplayMeans
    <3>2. OnScreen'
      BY <2>1, <3>1, StaysOn
    <3> QED  BY <1>5, <2>3, <2>4, <3>1, <3>2, DisplayMeansNext
  <2>5. ASSUME a.d = Away, b.d \in {Writing("std", 0, 0, 0, 0), Anywhere("std")}
        PROVE  DisplayShows(b.d)'
    <3>1. HueShows("std") /\ cursor = [x |-> -1, y |-> -1] /\ Lit = {}
      BY <1>1, <2>5, DisplayMeans
    <3>2. cursor.y + 1 = 0 /\ Height # 0
      BY <3>1, ConsoleSize
    <3>3. cursor' = [x |-> 0, y |-> 0]
      BY <2>1, <3>2, NewlineCursor
    <3>4. Gone(0) = 0 /\ LitOf(0, 0, 0) = {}
      BY ConsoleSize DEF Gone, LitOf
    <3>5. InMenu(0, 0, 0, 0)'
      BY <2>3, <3>1, <3>3, <3>4, ConsoleSize DEF InMenu
    <3>6. DisplayShows(Writing("std", 0, 0, 0, 0))'
      BY <1>5, <3>1, <3>5, DisplayMeansNext
    <3>7. DisplayShows(Anywhere("std"))'
      <4>1. OnScreen'
        BY <3>3 DEF OnScreen
      <4> QED  BY <1>5, <3>1, <4>1, DisplayMeansNext
    <3> QED  BY <2>5, <3>6, <3>7
  <2>6. ASSUME NEW r \in Nat, NEW x \in Nat, NEW v \in Nat, NEW m \in Nat,
               a.d = Writing("std", r, x, v, m), b.d = Writing("std", r + 1, 0, v, m)
        PROVE  DisplayShows(b.d)'
    <3>1. HueShows("std") /\ InMenu(r, x, v, m)
      BY <1>1, <2>6, DisplayMeans
    <3>2. InMenu(r + 1, 0, v, m)'
      BY <2>1, <3>1, MenuNewline
    <3>3. DisplayShows(Writing("std", r + 1, 0, v, m))'
      BY <1>5, <3>1, <3>2, DisplayMeansNext
    <3> QED  BY <2>6, <3>3
  <2>7. \/ \E hue \in {"std", "any"} : a.d = Anywhere(hue) /\ b.d = a.d
        \/ a.d = Cleared /\ b.d = Cleared
        \/ a.d = Away /\ b.d \in {Writing("std", 0, 0, 0, 0), Anywhere("std")}
        \/ \E r, x, v, m \in Nat :
             a.d = Writing("std", r, x, v, m) /\ b.d = Writing("std", r + 1, 0, v, m)
    BY <1>8 DEF PlainStep
  <2>8. DisplayShows(b.d)'
    BY <2>2, <2>4, <2>5, <2>6, <2>7
  <2> QED  BY <2>1, <2>8
<1> QED  BY <1>7, <1>8 DEF PlainStep

-----------------------------------------------------------------------------
(* The ends of sequences *)

Given(v0, v1) == Holds(0, v0) /\ Holds(1, v1)

\* A parameter that was given is in the stack.
LEMMA GivenStack ==
  ASSUME NEW v \in Nat, NEW k, Holds(k, v)
  PROVE  stack[k].value = v /\ stack[k].empty = FALSE
  BY DEF Holds

\* "\x1b[0;0m" resets all attributes.
LEMMA SgrReset ==
  ASSUME Given(0, 0)
  PROVE  SgrAttr(2) = VTC_DEFAULT_ATTR
<1>1. stack[0].value = 0 /\ stack[1].value = 0
  BY GivenStack DEF Given
<1>2. Resets(2) = {0, 1}
  BY <1>1 DEF Resets
<1>3. ASSUME NEW lo, NEW hi PROVE Setters(2, lo, hi) \subseteq {0, 1}
  BY DEF Setters
<1>4. ASSUME NEW lo, NEW hi
      PROVE  LET S == Resets(2) \cup Setters(2, lo, hi) IN S # {} /\ Max(S) \in Resets(2)
  <2> DEFINE S == Resets(2) \cup Setters(2, lo, hi)
  <2>1. S = {0, 1}
    BY <1>2, <1>3
  <2>2. {0, 1} \subseteq 0..1 /\ {0, 1} # {}
    OBVIOUS
  <2>3. Max({0, 1}) \in {0, 1}
    <3> DEFINE U == {0, 1}
    <3>1. U \subseteq 0..1 /\ U # {} /\ 1 \in Nat
      OBVIOUS
    <3> HIDE DEF U
    <3>2. Max(U) \in U
      BY <3>1, MaxExists
    <3> QED  BY <3>2 DEF U
  <2> QED  BY <1>2, <2>1, <2>2, <2>3
<1>5. SgrField(2, 1, 1, attr.bright, FALSE, LAMBDA v : TRUE) = FALSE
  BY <1>4 DEF SgrField
<1>6. SgrField(2, 30, 37, attr.fg, 7, LAMBDA v : v - 30) = 7
  BY <1>4 DEF SgrField
<1>7. SgrField(2, 40, 47, attr.bg, 0, LAMBDA v : v - 40) = 0
  BY <1>4 DEF SgrField
<1> QED  BY <1>5, <1>6, <1>7 DEF SgrAttr, VTC_DEFAULT_ATTR

\* A colour of the foreground and one of the background.
LEMMA SgrColors ==
  ASSUME NEW f \in 30..37, NEW g \in 40..47, Given(f, g), attr = VTC_DEFAULT_ATTR
  PROVE  SgrAttr(2) = [bright |-> FALSE, fg |-> f - 30, bg |-> g - 40]
<1>0. f \in Nat /\ g \in Nat /\ Holds(0, f) /\ Holds(1, g)
  BY DEF Given
<1>1. stack[0].value = f /\ stack[1].value = g /\ ~stack[0].empty /\ ~stack[1].empty
  BY <1>0, GivenStack
<1>2. 0..(2 - 1) = {0, 1}
  OBVIOUS
<1>3. Resets(2) = {}
  BY <1>1, <1>2 DEF Resets
<1>4. Setters(2, 1, 1) = {} /\ Setters(2, 30, 37) = {0} /\ Setters(2, 40, 47) = {1}
  <2>1. Setters(2, 1, 1) = {}
    BY <1>1, <1>2 DEF Setters
  <2>2. Setters(2, 30, 37) = {0}
    BY <1>1, <1>2 DEF Setters
  <2>3. Setters(2, 40, 47) = {1}
    BY <1>1, <1>2 DEF Setters
  <2> QED  BY <2>1, <2>2, <2>3
<1>5. ASSUME NEW k \in 0..1 PROVE Max({k}) = k
  <2> DEFINE U == {k}
  <2>1. U \subseteq 0..1 /\ U # {} /\ 1 \in Nat
    OBVIOUS
  <2> HIDE DEF U
  <2>2. Max(U) \in U
    BY <2>1, MaxExists
  <2> QED  BY <2>2 DEF U
<1>6. Max({0}) = 0 /\ Max({1}) = 1
  BY <1>5
<1>7. attr.bright = FALSE
  BY DEF VTC_DEFAULT_ATTR
<1>8. SgrField(2, 1, 1, attr.bright, FALSE, LAMBDA v : TRUE) = FALSE
  BY <1>3, <1>4, <1>7 DEF SgrField
<1>9. SgrField(2, 30, 37, attr.fg, 7, LAMBDA v : v - 30) = f - 30
  <2>1. Resets(2) \cup Setters(2, 30, 37) = {0} /\ {0} # {} /\ Max({0}) = 0
    BY <1>3, <1>4, <1>6
  <2>2. SgrField(2, 30, 37, attr.fg, 7, LAMBDA v : v - 30) = stack[0].value - 30
    BY <1>3, <2>1 DEF SgrField
  <2> QED  BY <1>1, <2>2
<1>10. SgrField(2, 40, 47, attr.bg, 0, LAMBDA v : v - 40) = g - 40
  <2>1. Resets(2) \cup Setters(2, 40, 47) = {1} /\ {1} # {} /\ Max({1}) = 1
    BY <1>3, <1>4, <1>6
  <2>2. SgrField(2, 40, 47, attr.bg, 0, LAMBDA v : v - 40) = stack[1].value - 40
    BY <1>3, <2>1 DEF SgrField
  <2> QED  BY <1>1, <2>2
<1> QED  BY <1>8, <1>9, <1>10 DEF SgrAttr

\* CUP of two parameters.
LEMMA CupGiven ==
  ASSUME NEW v0 \in Nat, NEW v1 \in Nat, Given(v0, v1)
  PROVE  CupCursor(2) = [x |-> Least(v1 - 1, Width - 1), y |-> Least(v0 - 1, Height - 1)]
<1>1. stack[0].value = v0 /\ stack[1].value = v1 /\ ~stack[0].empty /\ ~stack[1].empty
  BY GivenStack DEF Given
<1> QED  BY <1>1 DEF CupCursor

\* ED 2 blanks every cell.
LEMMA EdAll ==
  ASSUME VtInv, OnScreen, ~wild, Holds(0, 2), vtconsole_csi_ed
  PROVE  Lit' = {} /\ ~wild'
<1>1. stack[0].value = 2 /\ ~stack[0].empty
  BY GivenStack
<1>2. Param0 = 2
  BY <1>1 DEF Param0
<1>3. vtconsole_clear(0, 0, Width, Height - 1)
  BY <1>2 DEF vtconsole_csi_ed
<1>4. At(Width, Height - 1) = Width * Height /\ At(0, 0) = 0
  <2>1. Width + (Height - 1) * Width = Width * Height
    BY ConsoleSize
  <2>2. 0 + 0 * Width = 0
    BY ConsoleSize
  <2> QED  BY <2>1, <2>2 DEF At
<1>5. \A i \in Cells : 0 <= i /\ i < Width * Height
  BY ConsoleSize DEF Cells
<1>6. \A i \in Cells : buffer'[i] = Blank
  BY <1>3, <1>4, <1>5 DEF vtconsole_clear
<1>7. Lit' = {}
  BY <1>6, LitMeans, BlankUnlit
<1>8. ~wild'
  BY EraseInside
<1> QED  BY <1>7, <1>8

\* The end of a sequence does what its step says.
LEMMA FinalSound ==
  ASSUME VtInv, ~wild, tabs = 0, NEW a, NEW b, NEW c, Known(a), FinalStep(a, c, b), vtconsole_process(c)
  PROVE  Known(b)' /\ ~wild' /\ tabs' = 0
<1>0. DisplayShows(a.d) /\ ParserShows(a.p) /\ b.p = Quiet
  BY DEF Known, FinalStep
<1>1. ASSUME NEW ix \in 0..1, NEW v0, NEW v1, a.p = Param(ix, v0, v1), c \in {"J", "H", "m"}
      PROVE  /\ Holds(0, v0) /\ (ix = 1 => Given(v0, v1)) /\ tabs' = 0
             /\ Final(c, ix + 1) /\ ParserShows(Quiet)'
  <2>1. pstate = "ATTR" /\ index = ix /\ Holds(0, v0) /\ (ix = 1 => Holds(1, v1))
    BY <1>0, <1>1, ParamShown
  <2>2. c \notin Digits /\ c # ";"
    BY <1>1 DEF Digits
  <2>3. EndParam(c)
    BY <2>1, <2>2, Branches
  <2>4. pstate' = "ESC" /\ Final(c, ix + 1) /\ UNCHANGED tabs
    BY <2>1, <2>2, <2>3, ParamEnded
  <2>5. ParserShows(Quiet)'
    BY <2>4 DEF ParserShows, Quiet, Parsing
  <2> QED  BY <2>1, <2>4, <2>5 DEF Given
<1>2. SUFFICES DisplayShows(b.d)' /\ ~wild' /\ tabs' = 0 /\ ParserShows(Quiet)'
  BY <1>0 DEF Known
<1>3. CASE c = "J" /\ a.p = Param(0, 2, -1) /\ a.d = Anywhere("std") /\ b.d = Cleared
  <2>1. Holds(0, 2) /\ tabs' = 0 /\ Final(c, 0 + 1) /\ ParserShows(Quiet)'
    BY <1>1, <1>3
  <2>2. vtconsole_csi_ed /\ UNCHANGED <<cursor, attr>>
    BY <1>3, <2>1 DEF Final
  <2>3. HueShows("std") /\ OnScreen
    BY <1>0, <1>3, DisplayMeans
  <2>4. HueShows("std")' /\ OnScreen'
    BY <2>2, <2>3 DEF HueShows, OnScreen
  <2>5. Lit' = {} /\ ~wild'
    BY <2>1, <2>2, <2>3, EdAll
  <2> QED  BY <1>3, <2>1, <2>4, <2>5, DisplayMeansNext
<1>4. CASE c = "H" /\ a.p = Param(1, 0, 0) /\ a.d = Cleared /\ b.d = Away
  <2>1. Given(0, 0) /\ tabs' = 0 /\ Final(c, 1 + 1) /\ ParserShows(Quiet)'
    BY <1>1, <1>4
  <2>2. cursor' = CupCursor(2) /\ UNCHANGED <<buffer, attr, wild>>
    BY <1>4, <2>1 DEF Final
  <2>3. HueShows("std") /\ Lit = {}
    BY <1>0, <1>4, DisplayMeans
  <2>4. HueShows("std")' /\ Lit' = {}
    BY <2>2, <2>3 DEF HueShows, Lit
  <2>5. cursor' = [x |-> -1, y |-> -1]
    <3>1. Least(0 - 1, Width - 1) = -1 /\ Least(0 - 1, Height - 1) = -1
      BY ConsoleSize DEF Least
    <3>2. CupCursor(2) = [x |-> Least(0 - 1, Width - 1), y |-> Least(0 - 1, Height - 1)]
      BY <2>1, CupGiven
    <3> QED  BY <2>2, <3>1, <3>2
  <2> QED  BY <1>4, <2>1, <2>2, <2>4, <2>5, DisplayMeansNext
<1>5. ASSUME c = "H", NEW v0 \in Nat \ {0}, NEW v1 \in Nat \ {0}, a.p = Param(1, v0, v1),
             a.d \in {Anywhere("std"), Cleared}, b.d = Anywhere("std")
      PROVE  DisplayShows(b.d)' /\ ~wild' /\ tabs' = 0 /\ ParserShows(Quiet)'
  <2>1. Given(v0, v1) /\ tabs' = 0 /\ Final(c, 1 + 1) /\ ParserShows(Quiet)'
    BY <1>1, <1>5
  <2>2. cursor' = CupCursor(2) /\ UNCHANGED <<buffer, attr, wild>>
    BY <1>5, <2>1 DEF Final
  <2>3. HueShows("std")
    BY <1>0, <1>5, DisplayMeans
  <2>4. HueShows("std")'
    BY <2>2, <2>3 DEF HueShows
  <2>5. OnScreen'
    <3>1. Least(v1 - 1, Width - 1) >= 0 /\ Least(v0 - 1, Height - 1) >= 0
      BY ConsoleSize DEF Least
    <3>2. CupCursor(2) = [x |-> Least(v1 - 1, Width - 1), y |-> Least(v0 - 1, Height - 1)]
      BY <2>1, CupGiven
    <3> QED  BY <2>2, <3>1, <3>2 DEF OnScreen
  <2> QED  BY <1>5, <2>1, <2>2, <2>4, <2>5, DisplayMeansNext
<1>6. ASSUME c = "m", NEW v0, NEW v1, a.p = Param(1, v0, v1)
      PROVE  /\ Given(v0, v1) /\ tabs' = 0 /\ ParserShows(Quiet)' /\ attr' = SgrAttr(2)
             /\ UNCHANGED <<cursor, buffer, wild>> /\ (OnScreen => OnScreen')
             /\ \A r, x, v, m : InMenu(r, x, v, m) => InMenu(r, x, v, m)'
  <2>1. Given(v0, v1) /\ tabs' = 0 /\ Final(c, 1 + 1) /\ ParserShows(Quiet)'
    BY <1>1, <1>6
  <2>2. attr' = SgrAttr(2) /\ UNCHANGED <<cursor, buffer, wild>>
    BY <1>6, <2>1 DEF Final, cellVars
  <2>3. OnScreen => OnScreen'
    BY <2>2 DEF OnScreen
  <2>4. \A r, x, v, m : InMenu(r, x, v, m) => InMenu(r, x, v, m)'
    BY <2>2 DEF InMenu, Lit
  <2> QED  BY <2>1, <2>2, <2>3, <2>4
<1>7. CASE c = "m" /\ a.p = Param(1, 0, 0)
  <2>1. attr' = VTC_DEFAULT_ATTR /\ tabs' = 0 /\ ParserShows(Quiet)' /\ ~wild'
    BY <1>6, <1>7, SgrReset
  <2>2. HueShows("std")'
    BY <2>1 DEF HueShows
  <2>3. ASSUME NEW hue, a.d = Anywhere(hue), b.d = Anywhere("std") PROVE DisplayShows(b.d)'
    BY <1>0, <1>6, <1>7, <2>2, <2>3, DisplayMeans, DisplayMeansNext
  <2>4. ASSUME NEW hue, NEW r, NEW x, NEW v, NEW m,
               a.d = Writing(hue, r, x, v, m), b.d = Writing("std", r, x, v, m)
        PROVE  DisplayShows(b.d)'
    BY <1>0, <1>6, <1>7, <2>2, <2>4, DisplayMeans, DisplayMeansNext
  <2>5. \/ \E hue : a.d = Anywhere(hue) /\ b.d = Anywhere("std")
        \/ \E hue, r, x, v, m : a.d = Writing(hue, r, x, v, m) /\ b.d = Writing("std", r, x, v, m)
    <3>1. Param(1, 0, 0) # Param(1, 37, 40) /\ Param(1, 0, 0) # Param(1, 30, 36) /\ Param(1, 0, 0) # Param(1, 30, 47)
      BY DEF Param, Parsing
    <3> QED  BY <1>7, <3>1 DEF FinalStep
  <2> QED  BY <2>1, <2>3, <2>4, <2>5
<1>8. CASE /\ c = "m" /\ a.p = Param(1, 37, 40) /\ b.d = a.d
           /\ a.d = Anywhere("std") \/ \E r, x, v, m \in Nat : a.d = Writing("std", r, x, v, m)
  <2>1. HueShows("std")
    BY <1>0, <1>8, DisplayMeans
  <2>2. attr = VTC_DEFAULT_ATTR
    BY <2>1 DEF HueShows
  <2>3. SgrAttr(2) = [bright |-> FALSE, fg |-> 37 - 30, bg |-> 40 - 40]
    BY <1>6, <1>8, <2>2, SgrColors
  <2>4. SgrAttr(2) = VTC_DEFAULT_ATTR
    BY <2>3 DEF VTC_DEFAULT_ATTR
  <2>5. attr' = VTC_DEFAULT_ATTR /\ tabs' = 0 /\ ParserShows(Quiet)' /\ ~wild'
    BY <1>6, <1>8, <2>4
  <2>6. HueShows("std")'
    BY <2>5 DEF HueShows
  <2>7. DisplayShows(b.d)'
    BY <1>0, <1>6, <1>8, <2>6, DisplayMeans, DisplayMeansNext
  <2> QED  BY <2>5, <2>7
<1>9. CASE /\ c = "m" /\ a.p \in {Param(1, 30, 36), Param(1, 30, 47)}
           /\ a.d = Anywhere("std") /\ b.d = Anywhere("any")
  <2>1. tabs' = 0 /\ ParserShows(Quiet)' /\ ~wild' /\ (OnScreen => OnScreen')
    BY <1>6, <1>9
  <2>2. OnScreen
    BY <1>0, <1>9, DisplayMeans
  <2>3. HueShows("any")'
    BY DEF HueShows
  <2> QED  BY <1>9, <2>1, <2>2, <2>3, DisplayMeansNext
<1>10. ASSUME c = "m", a.p = Param(1, 30, 47), NEW r \in Nat, NEW v \in Nat,
              a.d = Writing("std", r, 0, v, 0), b.d = Writing("hot", r, 0, r, 0)
       PROVE  DisplayShows(b.d)' /\ ~wild' /\ tabs' = 0 /\ ParserShows(Quiet)'
  <2>1. HueShows("std") /\ InMenu(r, 0, v, 0)
    BY <1>0, <1>10, DisplayMeans
  <2>2. attr = VTC_DEFAULT_ATTR
    BY <2>1 DEF HueShows
  <2>3. SgrAttr(2) = [bright |-> FALSE, fg |-> 30 - 30, bg |-> 47 - 40]
    BY <1>6, <1>10, <2>2, SgrColors
  <2>4. SgrAttr(2) = Hot
    BY <2>3 DEF Hot
  <2>5. attr' = Hot /\ tabs' = 0 /\ ParserShows(Quiet)' /\ ~wild' /\ InMenu(r, 0, v, 0)'
    BY <1>6, <1>10, <2>1, <2>4
  <2>6. HueShows("hot")'
    BY <2>5 DEF HueShows
  <2>7. LitOf(r, v, 0) = {} /\ LitOf(r, r, 0) = {}
    BY DEF LitOf
  <2>8. InMenu(r, 0, r, 0)'
    BY <2>5, <2>7, ConsoleSize DEF InMenu
  <2>9. DisplayShows(Writing("hot", r, 0, r, 0))'
    BY <2>6, <2>8, DisplayMeansNext
  <2> QED  BY <1>10, <2>5, <2>9
<1> QED  BY <1>3, <1>4, <1>5, <1>7, <1>8, <1>9, <1>10 DEF FinalStep

\* A character that the route foresees.
LEMMA StepSound ==
  ASSUME VtInv, ~wild, tabs = 0, NEW a, NEW b, NEW c, Known(a), Step(a, c, b), vtconsole_process(c)
  PROVE  Known(b)' /\ ~wild' /\ tabs' = 0
  BY ParserSound, PlainSound, FinalSound DEF Step

-----------------------------------------------------------------------------
(* Routes of bounded length, through the buffer of libfbpads_vprintf *)

\* Writing s, of at most n characters, takes the console from a to b.
Says(a, s, b, n) == Plays(a, s, b) /\ Len(s) <= n

\* The parts of Says.
LEMMA SaysSeq ==
  ASSUME NEW a, NEW s, NEW b, NEW n \in Nat, Says(a, s, b, n)
  PROVE  s \in Seq(Chars) /\ Len(s) \in Nat /\ Len(s) <= n /\ Plays(a, s, b)
  BY DEF Says, Plays

\* One character.
LEMMA SaysOne ==
  ASSUME NEW a, NEW c \in Chars, NEW b, Step(a, c, b)
  PROVE  Says(a, <<c>>, b, 1)
  BY PlaysOne DEF Says

\* One string after another: the lengths add up.
LEMMA SaysBoth ==
  ASSUME NEW a, NEW s, NEW b, NEW r, NEW e, NEW n \in Nat, NEW l \in Nat, Says(a, s, b, n), Says(b, r, e, l)
  PROVE  Says(a, s \o r, e, n + l)
<1>1. /\ s \in Seq(Chars) /\ Len(s) \in Nat /\ Len(s) <= n /\ Plays(a, s, b)
      /\ r \in Seq(Chars) /\ Len(r) \in Nat /\ Len(r) <= l /\ Plays(b, r, e)
  BY SaysSeq
<1>2. Plays(a, s \o r, e)
  BY <1>1, PlaysBoth
<1>3. Len(s \o r) = Len(s) + Len(r)
  BY <1>1
<1> QED  BY <1>1, <1>2, <1>3 DEF Says

\* A string that fits the buffer passes it whole.
LEMMA SaysPrintf ==
  ASSUME NEW a, NEW s, NEW b, NEW n \in Nat, Says(a, s, b, n), n < BufSize
  PROVE  Says(a, Printf(s), b, n)
<1>1. s \in Seq(Chars) /\ Len(s) \in Nat /\ Len(s) <= n
  BY SaysSeq
<1>2. Least(Len(s), BufSize - 1) = Len(s)
  BY <1>1, ScreenAssumption DEF Least
<1>3. SubSeq(s, 1, Len(s)) = s
  BY <1>1
<1>4. Printf(s) = s
  BY <1>2, <1>3 DEF Printf
<1> QED  BY <1>4

\* lbml_puts.
LEMMA SaysPuts ==
  ASSUME NEW a, NEW s, NEW b, NEW e, NEW n \in Nat, Says(a, s, b, n), n + 1 < BufSize, Step(b, "\n", e)
  PROVE  Says(a, Puts(s), e, n + 1)
<1>1. "\n" \in Chars
  BY DEF Chars
<1>2. Says(b, <<"\n">>, e, 1)
  BY <1>1, SaysOne
<1>3. Says(a, s \o <<"\n">>, e, n + 1)
  BY <1>2, SaysBoth
<1>4. Says(a, Printf(s \o <<"\n">>), e, n + 1)
  BY <1>3, SaysPrintf
<1> QED  BY <1>4 DEF Puts

\* The buffer holds every sequence.
LEMMA BufferHolds == BufSize \in Nat /\ BufSize > 14
  BY ScreenAssumption

\* One character again and again.
LEMMA SaysRun ==
  ASSUME NEW c \in Chars, NEW n \in Nat, NEW g, \A k \in 1..n : Step(g[k - 1], c, g[k])
  PROVE  Says(g[0], Run(c, n), g[n], n)
<1> DEFINE s == Run(c, n)
<1>1. s \in Seq(Chars) /\ Len(s) = n /\ \A k \in 1..n : s[k] = c
  BY DEF Run
<1> HIDE DEF s
<1>2. Route(g, g[0], s, g[n])
  BY <1>1 DEF Route
<1> QED  BY <1>1, <1>2 DEF Says, Plays, s

\* A run of a character that changes nothing of what is known.
LEMMA SaysRunStays ==
  ASSUME NEW c \in Chars, NEW n \in Nat, NEW a, Step(a, c, a)
  PROVE  Says(a, Run(c, n), a, n)
<1> DEFINE g == [k \in 0..n |-> a]
<1>1. g[0] = a /\ g[n] = a
  OBVIOUS
<1>2. \A k \in 1..n : g[k - 1] = a /\ g[k] = a
  OBVIOUS
<1> HIDE DEF g
<1>3. Says(g[0], Run(c, n), g[n], n)
  BY <1>2, SaysRun
<1> QED  BY <1>1, <1>3

-----------------------------------------------------------------------------
(* One string after another *)

Flattens(seqs, n, f) ==
  f = [i \in 1..n |-> IF i = 1 THEN seqs[i] ELSE f[i - 1] \o seqs[i]]

\* The recursive function inside FlattenSeq exists.
LEMMA FlattenExists ==
  ASSUME NEW seqs, NEW n \in Nat
  PROVE  \E f : Flattens(seqs, n, f)
<1> DEFINE S == { k \in Nat : \E f : Flattens(seqs, k, f) }
<1>1. 0 \in S
  <2> DEFINE f == [i \in 1..0 |-> 0]
             g == [i \in 1..0 |-> IF i = 1 THEN seqs[i] ELSE f[i - 1] \o seqs[i]]
  <2>1. \A i \in 1..0 : FALSE
    OBVIOUS
  <2>2. f = g
    BY <2>1
  <2>3. Flattens(seqs, 0, f)
    BY <2>2 DEF Flattens
  <2> QED  BY <2>3
<1>2. ASSUME NEW k \in 0..(n - 1), k \in S
      PROVE  k + 1 \in S
  <2>1. PICK f : Flattens(seqs, k, f)
    BY <1>2
  <2> DEFINE last == IF k + 1 = 1 THEN seqs[k + 1] ELSE f[k] \o seqs[k + 1]
             g == [j \in 1..(k + 1) |-> IF j = k + 1 THEN last ELSE f[j]]
             h == [j \in 1..(k + 1) |-> IF j = 1 THEN seqs[j] ELSE g[j - 1] \o seqs[j]]
  <2>2. ASSUME NEW j \in 1..(k + 1)
        PROVE  g[j] = IF j = 1 THEN seqs[j] ELSE g[j - 1] \o seqs[j]
    <3>1. CASE j = k + 1
      <4>1. g[j] = IF j = 1 THEN seqs[j] ELSE f[k] \o seqs[j]
        BY <3>1
      <4>2. j # 1 => g[j - 1] = f[k]
        BY <3>1
      <4> HIDE DEF g
      <4> QED  BY <4>1, <4>2
    <3>2. CASE j # k + 1
      <4>1. j \in 1..k /\ g[j] = f[j] /\ (j # 1 => g[j - 1] = f[j - 1])
        BY <3>2
      <4>2. f[j] = IF j = 1 THEN seqs[j] ELSE f[j - 1] \o seqs[j]
        BY <2>1, <4>1 DEF Flattens
      <4> HIDE DEF g
      <4> QED  BY <4>1, <4>2
    <3> QED  BY <3>1, <3>2
  <2>3. g = h
    BY <2>2
  <2>4. Flattens(seqs, k + 1, g)
    BY <2>3 DEF Flattens
  <2> QED  BY <2>4
<1> HIDE DEF S
<1>3. \A k \in 0..n : k \in S
  BY <1>1, <1>2, SetInduction
<1> QED  BY <1>3 DEF S

\* FlattenSeq is its last value.
LEMMA FlattenIs ==
  ASSUME NEW seqs, Len(seqs) \in Nat \ {0}
  PROVE  \E f : Flattens(seqs, Len(seqs), f) /\ FlattenSeq(seqs) = f[Len(seqs)]
<1> DEFINE n == Len(seqs)
           f == CHOOSE g : Flattens(seqs, n, g)
<1>1. Flattens(seqs, n, f)
  BY FlattenExists
<1>2. FlattenSeq(seqs) = f[n]
  BY DEF FlattenSeq, Flattens
<1> QED  BY <1>1, <1>2

\* A family of routes, one string after another.
LEMMA SaysFlatten ==
  ASSUME NEW n \in Nat, NEW l \in Nat, NEW seqs, Len(seqs) = n, n = 0 => seqs = <<>>,
         NEW g, \A k \in 1..n : Says(g[k - 1], seqs[k], g[k], l)
  PROVE  Says(g[0], FlattenSeq(seqs), g[n], n * l)
<1>1. CASE n = 0
  <2>1. FlattenSeq(seqs) = seqs
    BY <1>1 DEF FlattenSeq
  <2>2. <<>> \in Seq(Chars) /\ Len(<<>>) = 0
    OBVIOUS
  <2>3. Plays(g[0], <<>>, g[0])
    BY <2>2, PlaysNone
  <2>4. n * l = 0
    BY <1>1
  <2> QED  BY <1>1, <2>1, <2>2, <2>3, <2>4 DEF Says
<1>2. CASE n # 0
  <2>1. PICK f : Flattens(seqs, n, f) /\ FlattenSeq(seqs) = f[n]
    BY <1>2, FlattenIs
  <2> DEFINE S == { k \in Nat : Says(g[0], f[k + 1], g[k + 1], (k + 1) * l) }
  <2>2. 0 \in S
    <3>1. 1 \in 1..n
      BY <1>2
    <3>2. f[1] = seqs[1]
      BY <2>1, <3>1 DEF Flattens
    <3>3. Says(g[1 - 1], seqs[1], g[1], l)
      BY <3>1
    <3>4. 1 - 1 = 0 /\ 0 + 1 = 1 /\ 1 * l = l
      OBVIOUS
    <3>5. Says(g[0], f[0 + 1], g[0 + 1], (0 + 1) * l)
      BY <3>2, <3>3, <3>4
    <3> QED  BY <3>5
  <2>3. ASSUME NEW k \in 0..((n - 1) - 1), k \in S
        PROVE  k + 1 \in S
    <3>1. k + 2 \in 1..n /\ k + 2 # 1 /\ (k + 2) - 1 = k + 1 /\ (k + 1) + 1 = k + 2 /\ k \in Nat
      BY <1>2
    <3>2. f[k + 2] = f[(k + 2) - 1] \o seqs[k + 2]
      BY <2>1, <3>1 DEF Flattens
    <3>3. Says(g[(k + 2) - 1], seqs[k + 2], g[k + 2], l)
      BY <3>1
    <3>4. Says(g[0], f[k + 1], g[k + 1], (k + 1) * l)
      BY <2>3
    <3>5. (k + 1) * l \in Nat /\ (k + 2) * l = (k + 1) * l + l
      BY <3>1
    <3>6. Says(g[0], f[k + 1] \o seqs[k + 2], g[k + 2], (k + 1) * l + l)
      BY <3>1, <3>3, <3>4, <3>5, SaysBoth
    <3>7. Says(g[0], f[(k + 1) + 1], g[(k + 1) + 1], ((k + 1) + 1) * l)
      BY <3>1, <3>2, <3>5, <3>6
    <3> QED  BY <3>1, <3>7
  <2> HIDE DEF S
  <2>4. n - 1 \in Nat /\ n - 1 \in 0..(n - 1) /\ (n - 1) + 1 = n
    BY <1>2
  <2>5. \A k \in 0..(n - 1) : k \in S
    BY <2>2, <2>3, <2>4, SetInduction
  <2>6. Says(g[0], f[(n - 1) + 1], g[(n - 1) + 1], ((n - 1) + 1) * l)
    BY <2>4, <2>5 DEF S
  <2> QED  BY <2>1, <2>4, <2>6
<1> QED  BY <1>1, <1>2

-----------------------------------------------------------------------------
(* Sequences *)

\* A number below 1000 in decimal digits.
LEMMA DigitOf ==
  ASSUME NEW k \in 0..9
  PROVE  LET D == <<"0", "1", "2", "3", "4", "5", "6", "7", "8", "9">>
         IN  D[k + 1] \in Digits /\ DigitVal(D[k + 1]) = k
<1> DEFINE D == <<"0", "1", "2", "3", "4", "5", "6", "7", "8", "9">>
<1>1. \/ k = 0 \/ k = 1 \/ k = 2 \/ k = 3 \/ k = 4 \/ k = 5 \/ k = 6 \/ k = 7 \/ k = 8 \/ k = 9
  OBVIOUS
<1>2. /\ D[1] = "0" /\ D[2] = "1" /\ D[3] = "2" /\ D[4] = "3" /\ D[5] = "4"
      /\ D[6] = "5" /\ D[7] = "6" /\ D[8] = "7" /\ D[9] = "8" /\ D[10] = "9"
  OBVIOUS
<1> HIDE DEF D
<1>3. /\ DigitVal("0") = 0 /\ DigitVal("1") = 1 /\ DigitVal("2") = 2 /\ DigitVal("3") = 3 /\ DigitVal("4") = 4
      /\ DigitVal("5") = 5 /\ DigitVal("6") = 6 /\ DigitVal("7") = 7 /\ DigitVal("8") = 8 /\ DigitVal("9") = 9
  BY DEF DigitVal
<1>4. D[k + 1] \in Digits /\ DigitVal(D[k + 1]) = k
  BY <1>1, <1>2, <1>3 DEF Digits
<1> QED  BY <1>4 DEF D

\* Numbers of at most three digits.
Short == 0..999
DigitCount(n) == IF n < 10 THEN 1 ELSE IF n < 100 THEN 2 ELSE 3

\* The digits of a number, by their count.
LEMMA DecimalParts ==
  ASSUME NEW n \in Short
  PROVE  /\ n < 10 => \E c \in Digits : Decimal(n) = <<c>> /\ DigitVal(c) = n
         /\ n >= 10 /\ n < 100 => \E b, c \in Digits : Decimal(n) = <<b, c>> /\ DigitVal(b) * 10 + DigitVal(c) = n
         /\ n >= 100 => \E a, b, c \in Digits : /\ Decimal(n) = <<a, b, c>>
                                               /\ (DigitVal(a) * 10 + DigitVal(b)) * 10 + DigitVal(c) = n
<1> DEFINE D == <<"0", "1", "2", "3", "4", "5", "6", "7", "8", "9">>
           lo == n % 10
           mi == (n \div 10) % 10
           hi == n \div 100
<1>0. n \in 0..999
  BY DEF Short
<1>1. lo \in 0..9 /\ mi \in 0..9 /\ hi \in 0..9
  BY <1>0
<1>2. /\ n < 10 => lo = n
      /\ n < 100 => mi * 10 + lo = n
      /\ (hi * 10 + mi) * 10 + lo = n
  BY <1>0
<1>3. /\ n < 10 => Decimal(n) = <<D[lo + 1]>>
      /\ n >= 10 /\ n < 100 => Decimal(n) = <<D[mi + 1], D[lo + 1]>>
      /\ n >= 100 => Decimal(n) = <<D[hi + 1], D[mi + 1], D[lo + 1]>>
  <2>1. CASE n < 10
    BY <1>0, <2>1 DEF Decimal
  <2>2. CASE ~(n < 10) /\ n < 100
    BY <1>0, <2>2 DEF Decimal
  <2>3. CASE ~(n < 10) /\ ~(n < 100)
    BY <1>0, <2>3 DEF Decimal
  <2> QED  BY <1>0, <2>1, <2>2, <2>3
<1>4. \A k \in 0..9 : D[k + 1] \in Digits /\ DigitVal(D[k + 1]) = k
  BY DigitOf
<1> HIDE DEF D, lo, mi, hi
<1>5. CASE n < 10
  BY <1>1, <1>2, <1>3, <1>4, <1>5
<1>6. CASE n >= 10 /\ n < 100
  <2>1. D[mi + 1] \in Digits /\ D[lo + 1] \in Digits /\ DigitVal(D[mi + 1]) = mi /\ DigitVal(D[lo + 1]) = lo
    BY <1>1, <1>4
  <2>2. Decimal(n) = <<D[mi + 1], D[lo + 1]>> /\ mi * 10 + lo = n
    BY <1>2, <1>3, <1>6
  <2> QED  BY <1>0, <1>6, <2>1, <2>2
<1>7. CASE n >= 100
  <2>1. /\ D[mi + 1] \in Digits /\ D[lo + 1] \in Digits /\ D[hi + 1] \in Digits
        /\ DigitVal(D[mi + 1]) = mi /\ DigitVal(D[lo + 1]) = lo /\ DigitVal(D[hi + 1]) = hi
    BY <1>1, <1>4
  <2>2. Decimal(n) = <<D[hi + 1], D[mi + 1], D[lo + 1]>> /\ (hi * 10 + mi) * 10 + lo = n
    BY <1>2, <1>3, <1>7
  <2> QED  BY <1>0, <1>7, <2>1, <2>2
<1> QED  BY <1>0, <1>5, <1>6, <1>7

\* A route through the digits of a parameter: G[v] is what is known when the
\* digits so far say v.
LEMMA SaysDecimal ==
  ASSUME NEW n \in Short, NEW G,
         \A v \in Nat \cup {-1}, c \in Digits : Step(G[v], c, G[Grown(v, c)])
  PROVE  Says(G[-1], Decimal(n), G[n], DigitCount(n))
<1>0. \A c \in Digits : c \in Chars /\ DigitVal(c) \in Nat
  BY DEF Chars, DigitVal
<1>1. \A c \in Digits : Grown(-1, c) = DigitVal(c)
  BY <1>0 DEF Grown
<1>2. \A v \in Nat, c \in Digits : Grown(v, c) = v * 10 + DigitVal(c)
  BY DEF Grown
<1>3. CASE n < 10
  <2>1. PICK c \in Digits : Decimal(n) = <<c>> /\ DigitVal(c) = n
    BY <1>3, DecimalParts
  <2>2. Step(G[-1], c, G[n])
    BY <1>1, <2>1
  <2>3. Says(G[-1], <<c>>, G[n], 1)
    BY <1>0, <2>2, SaysOne
  <2> QED  BY <1>3, <2>1, <2>3 DEF DigitCount
<1>4. CASE n >= 10 /\ n < 100
  <2>1. PICK b \in Digits, c \in Digits : Decimal(n) = <<b, c>> /\ DigitVal(b) * 10 + DigitVal(c) = n
    BY <1>4, DecimalParts
  <2>2. Step(G[-1], b, G[DigitVal(b)])
    BY <1>1
  <2>3. Step(G[DigitVal(b)], c, G[n])
    BY <1>0, <1>2, <2>1
  <2>4. b \in Chars /\ c \in Chars
    BY <1>0
  <2>5. Plays(G[-1], <<b, c>>, G[n])
    BY <2>2, <2>3, <2>4, PlaysTwo
  <2>6. Len(<<b, c>>) = 2 /\ DigitCount(n) = 2
    BY <1>4 DEF DigitCount, Short
  <2> QED  BY <2>1, <2>5, <2>6 DEF Says
<1>5. CASE n >= 100
  <2>1. PICK a \in Digits, b \in Digits, c \in Digits :
          Decimal(n) = <<a, b, c>> /\ (DigitVal(a) * 10 + DigitVal(b)) * 10 + DigitVal(c) = n
    BY <1>5, DecimalParts
  <2> DEFINE w == DigitVal(a) * 10 + DigitVal(b)
  <2>0. DigitVal(a) \in Nat /\ DigitVal(b) \in Nat /\ w \in Nat
    BY <1>0
  <2>2. Step(G[-1], a, G[DigitVal(a)])
    BY <1>1
  <2>3. Step(G[DigitVal(a)], b, G[w])
    BY <1>2, <2>0
  <2>4. Step(G[w], c, G[n])
    BY <1>2, <2>0, <2>1
  <2>5. a \in Chars /\ b \in Chars /\ c \in Chars
    BY <1>0
  <2> HIDE DEF w
  <2>6. Plays(G[-1], <<a, b, c>>, G[n])
    BY <2>2, <2>3, <2>4, <2>5, PlaysThree
  <2>7. Len(<<a, b, c>>) = 3 /\ DigitCount(n) = 3
    BY <1>5 DEF DigitCount, Short
  <2> QED  BY <2>1, <2>6, <2>7 DEF Says
<1> QED  BY <1>3, <1>4, <1>5 DEF Short

\* The first parameter of a sequence.
LEMMA SaysFirst ==
  ASSUME NEW n \in Short, NEW d
  PROVE  Says(Knowing(Param(0, -1, -1), d), Decimal(n), Knowing(Param(0, n, -1), d), DigitCount(n))
<1> DEFINE G == [v \in Nat \cup {-1} |-> Knowing(Param(0, v, -1), d)]
<1>1. \A v \in Nat \cup {-1} : G[v] = Knowing(Param(0, v, -1), d)
  OBVIOUS
<1> HIDE DEF G
<1>2. ASSUME NEW v \in Nat \cup {-1}, NEW c \in Digits PROVE Step(G[v], c, G[Grown(v, c)])
  <2>1. Grown(v, c) \in Nat
    BY GrownNat
  <2> DEFINE w == Grown(v, c)
  <2>2. G[v] = Knowing(Param(0, v, -1), d) /\ G[w] = Knowing(Param(0, w, -1), d)
    <3> HIDE DEF w
    <3>1. w \in Nat
      BY <2>1 DEF w
    <3> QED  BY <1>1, <3>1
  <2>3. Step(Knowing(Param(0, v, -1), d), c, Knowing(Param(0, w, -1), d))
    BY DEF Step, ParserStep, Knowing
  <2> QED  BY <2>2, <2>3
<1>3. Says(G[-1], Decimal(n), G[n], DigitCount(n))
  BY <1>2, SaysDecimal
<1> QED  BY <1>1, <1>3 DEF Short

\* The second parameter of a sequence.
LEMMA SaysSecond ==
  ASSUME NEW n \in Short, NEW d, NEW v0 \in Nat
  PROVE  Says(Knowing(Param(1, v0, -1), d), Decimal(n), Knowing(Param(1, v0, n), d), DigitCount(n))
<1> DEFINE G == [v \in Nat \cup {-1} |-> Knowing(Param(1, v0, v), d)]
<1>1. \A v \in Nat \cup {-1} : G[v] = Knowing(Param(1, v0, v), d)
  OBVIOUS
<1> HIDE DEF G
<1>2. ASSUME NEW v \in Nat \cup {-1}, NEW c \in Digits PROVE Step(G[v], c, G[Grown(v, c)])
  <2>1. Grown(v, c) \in Nat
    BY GrownNat
  <2> DEFINE w == Grown(v, c)
  <2>2. G[v] = Knowing(Param(1, v0, v), d) /\ G[w] = Knowing(Param(1, v0, w), d)
    <3> HIDE DEF w
    <3>1. w \in Nat
      BY <2>1 DEF w
    <3> QED  BY <1>1, <3>1
  <2>3. Step(Knowing(Param(1, v0, v), d), c, Knowing(Param(1, v0, w), d))
    BY DEF Step, ParserStep, Knowing
  <2> QED  BY <2>2, <2>3
<1>3. Says(G[-1], Decimal(n), G[n], DigitCount(n))
  BY <1>2, SaysDecimal
<1> QED  BY <1>1, <1>3 DEF Short

\* How a sequence begins.
LEMMA SaysOpening ==
  ASSUME NEW d
  PROVE  Says(Knowing(Quiet, d), <<"ESC", "[">>, Knowing(Param(0, -1, -1), d), 2)
<1>1. Step(Knowing(Quiet, d), "ESC", Knowing(Opened, d)) /\ Step(Knowing(Opened, d), "[", Knowing(Param(0, -1, -1), d))
  BY DEF Step, ParserStep, Knowing
<1>2. "ESC" \in Chars /\ "[" \in Chars
  BY DEF Chars
<1>3. Plays(Knowing(Quiet, d), <<"ESC", "[">>, Knowing(Param(0, -1, -1), d))
  BY <1>1, <1>2, PlaysTwo
<1>4. Len(<<"ESC", "[">>) = 2
  OBVIOUS
<1> QED  BY <1>3, <1>4 DEF Says

\* A sequence after its opening.
LEMMA SaysCsi ==
  ASSUME NEW d, NEW s, NEW b, NEW n \in Nat, Says(Knowing(Param(0, -1, -1), d), s, b, n)
  PROVE  Says(Knowing(Quiet, d), Csi(s), b, 2 + n)
  BY SaysOpening, SaysBoth DEF Csi

\* A sequence of two parameters.
TwoLen(n0, n1) == DigitCount(n0) + DigitCount(n1) + 4
TwoParams(n0, n1, c) == Csi(Decimal(n0) \o <<";">> \o Decimal(n1) \o <<c>>)

\* A sequence of two parameters, digit by digit.
LEMMA SaysTwoParams ==
  ASSUME NEW n0 \in Short, NEW n1 \in Short, NEW c \in Chars, NEW d, NEW b,
         Step(Knowing(Param(1, n0, n1), d), c, b)
  PROVE  Says(Knowing(Quiet, d), TwoParams(n0, n1, c), b, TwoLen(n0, n1))
<1> DEFINE l0 == DigitCount(n0)
           l1 == DigitCount(n1)
           s0 == Decimal(n0)
           s1 == Decimal(n1)
<1>1. l0 \in Nat /\ l1 \in Nat /\ n0 \in Nat
  BY DEF DigitCount, Short
<1>2. Says(Knowing(Param(0, -1, -1), d), s0, Knowing(Param(0, n0, -1), d), l0)
  BY SaysFirst
<1>3. Says(Knowing(Param(1, n0, -1), d), s1, Knowing(Param(1, n0, n1), d), l1)
  BY <1>1, SaysSecond
<1>4. Says(Knowing(Param(0, n0, -1), d), <<";">>, Knowing(Param(1, n0, -1), d), 1)
  <2>1. Step(Knowing(Param(0, n0, -1), d), ";", Knowing(Param(1, n0, -1), d))
    BY <1>1 DEF Step, ParserStep, Knowing
  <2>2. ";" \in Chars
    BY DEF Chars
  <2> QED  BY <2>1, <2>2, SaysOne
<1>5. Says(Knowing(Param(1, n0, n1), d), <<c>>, b, 1)
  BY SaysOne
<1> HIDE DEF l0, l1, s0, s1
<1>6. Says(Knowing(Param(0, -1, -1), d), s0 \o <<";">>, Knowing(Param(1, n0, -1), d), l0 + 1)
  BY <1>1, <1>2, <1>4, SaysBoth
<1>7. Says(Knowing(Param(0, -1, -1), d), (s0 \o <<";">>) \o s1, Knowing(Param(1, n0, n1), d), (l0 + 1) + l1)
  <2>1. l0 + 1 \in Nat
    BY <1>1
  <2> QED  BY <1>1, <1>3, <1>6, <2>1, SaysBoth
<1>8. Says(Knowing(Param(0, -1, -1), d), ((s0 \o <<";">>) \o s1) \o <<c>>, b, ((l0 + 1) + l1) + 1)
  <2>1. (l0 + 1) + l1 \in Nat
    BY <1>1
  <2> QED  BY <1>5, <1>7, <2>1, SaysBoth
<1>9. Says(Knowing(Quiet, d), Csi(((s0 \o <<";">>) \o s1) \o <<c>>), b, 2 + (((l0 + 1) + l1) + 1))
  <2>1. ((l0 + 1) + l1) + 1 \in Nat
    BY <1>1
  <2> QED  BY <1>8, <2>1, SaysCsi
<1>10. 2 + (((l0 + 1) + l1) + 1) = l0 + l1 + 4
  BY <1>1
<1>11. Says(Knowing(Quiet, d), Csi(((s0 \o <<";">>) \o s1) \o <<c>>), b, l0 + l1 + 4)
  BY <1>9, <1>10
<1> QED  BY <1>11 DEF l0, l1, s0, s1, TwoParams, TwoLen

\* Colours on and off.
LEMMA SaysSgr ==
  ASSUME NEW n0 \in Short, NEW n1 \in Short, NEW d, NEW b, Step(Knowing(Param(1, n0, n1), d), "m", b)
  PROVE  Says(Knowing(Quiet, d), Sgr(n0, n1), b, TwoLen(n0, n1))
<1>1. PICK c \in Chars : c = "m"
  BY DEF Chars
<1>2. Step(Knowing(Param(1, n0, n1), d), c, b)
  BY <1>1
<1>3. Says(Knowing(Quiet, d), TwoParams(n0, n1, c), b, TwoLen(n0, n1))
  BY <1>2, SaysTwoParams
<1> QED  BY <1>1, <1>3 DEF Sgr, TwoParams

-----------------------------------------------------------------------------
(* The output functions *)

\* Outside any sequence, with the default attributes.
Free == Knowing(Quiet, Anywhere("std"))
Wiped == Knowing(Quiet, Cleared)
AtLine(r, x, v, m) == Knowing(Quiet, Writing("std", r, x, v, m))

\* A greater bound on the length.
LEMMA SaysMore ==
  ASSUME NEW a, NEW s, NEW b, NEW n \in Nat, NEW l \in Nat, Says(a, s, b, n), n <= l
  PROVE  Says(a, s, b, l)
  BY SaysSeq DEF Says

\* The empty string.
LEMMA SaysNone ==
  ASSUME NEW a
  PROVE  Says(a, <<>>, a, 0)
<1>1. <<>> \in Seq(Chars) /\ Len(<<>>) = 0
  OBVIOUS
<1>2. Plays(a, <<>>, a)
  BY <1>1, PlaysNone
<1> QED  BY <1>1, <1>2 DEF Says

\* Steps outside a sequence.
LEMMA FreeSteps ==
  /\ \A c \in {"x", " ", "\n", "2", "5", "h", "l"} : Step(Free, c, Free)
  /\ Step(Wiped, "\n", Wiped)
  /\ Step(Knowing(Quiet, Away), "\n", AtLine(0, 0, 0, 0)) /\ Step(Knowing(Quiet, Away), "\n", Free)
  /\ Step(Knowing(Quiet, Anywhere("any")), "x", Knowing(Quiet, Anywhere("any")))
<1>1. \A c \in {"x", " ", "\n", "2", "5", "h", "l"} : PlainStep(Free, c, Free)
  BY DEF PlainStep, Free, Knowing
<1>2. PlainStep(Wiped, "\n", Wiped)
  BY DEF PlainStep, Wiped, Knowing
<1>3. PlainStep(Knowing(Quiet, Away), "\n", AtLine(0, 0, 0, 0)) /\ PlainStep(Knowing(Quiet, Away), "\n", Free)
  BY DEF PlainStep, AtLine, Free, Knowing
<1>4. PlainStep(Knowing(Quiet, Anywhere("any")), "x", Knowing(Quiet, Anywhere("any")))
  BY DEF PlainStep, Knowing
<1> QED  BY <1>1, <1>2, <1>3, <1>4 DEF Step

\* Steps on a row of the menu.
LEMMA LineSteps ==
  ASSUME NEW r \in Nat, NEW x \in Nat, NEW v \in Nat, NEW m \in Nat
  PROVE  /\ Step(AtLine(r, x, v, m), "\n", AtLine(r + 1, 0, v, m))
         /\ x < Width /\ (m = 0 \/ v < r) => Step(AtLine(r, x, v, m), "x", AtLine(r, x + 1, v, m))
<1>1. PlainStep(AtLine(r, x, v, m), "\n", AtLine(r + 1, 0, v, m))
  BY DEF PlainStep, AtLine, Knowing
<1>2. x < Width /\ (m = 0 \/ v < r) => PlainStep(AtLine(r, x, v, m), "x", AtLine(r, x + 1, v, m))
  BY DEF PlainStep, AtLine, Knowing
<1> QED  BY <1>1, <1>2 DEF Step

\* clear_screen blanks the screen.
LEMMA SaysClear == Says(Free, clear_screen, Wiped, 5)
<1> DEFINE d == Anywhere("std")
           s == <<"2", "J">>
<1>1. "2" \in Chars /\ "J" \in Chars /\ "2" \in Digits
  BY DEF Chars, Digits
<1>2. Grown(-1, "2") = 2
  BY DEF Grown, DigitVal
<1>3. Step(Knowing(Param(0, -1, -1), d), "2", Knowing(Param(0, 2, -1), d))
  BY <1>1, <1>2 DEF Step, ParserStep, Knowing
<1>4. Step(Knowing(Param(0, 2, -1), d), "J", Wiped)
  BY DEF Step, FinalStep, Knowing, Wiped
<1>5. Plays(Knowing(Param(0, -1, -1), d), s, Wiped)
  BY <1>1, <1>3, <1>4, PlaysTwo
<1>6. Len(s) <= 2
  OBVIOUS
<1> HIDE DEF d, s
<1>7. Says(Knowing(Param(0, -1, -1), d), s, Wiped, 2)
  BY <1>5, <1>6 DEF Says
<1>8. Says(Knowing(Quiet, d), Csi(s), Wiped, 2 + 2)
  BY <1>7, SaysCsi
<1>9. Says(Knowing(Quiet, d), Csi(s), Wiped, 4) /\ Step(Wiped, "\n", Wiped) /\ 4 + 1 < BufSize /\ 4 + 1 = 5
  <2>1. 2 + 2 = 4 /\ 4 + 1 < BufSize /\ 4 + 1 = 5
    BY BufferHolds
  <2>2. Step(Wiped, "\n", Wiped)
    BY FreeSteps
  <2> QED  BY <1>8, <2>1, <2>2
<1>10. Says(Knowing(Quiet, d), Puts(Csi(s)), Wiped, 4 + 1)
  BY <1>9, SaysPuts
<1> QED  BY <1>9, <1>10 DEF clear_screen, Free, d, s

\* reset_pointer sends the cursor to (-1, -1), and its newline brings it to the first cell.
LEMMA SaysPointer ==
  ASSUME NEW e, e \in {AtLine(0, 0, 0, 0), Free}
  PROVE  Says(Wiped, reset_pointer, e, 7)
<1> DEFINE d == Cleared
           s == <<"0", ";", "0", "H">>
<1>1. "0" \in Chars /\ "H" \in Chars /\ "0" \in Digits /\ ";" \in Chars
  BY DEF Chars, Digits
<1>2. Grown(-1, "0") = 0
  BY DEF Grown, DigitVal
<1>3. Step(Knowing(Param(0, -1, -1), d), "0", Knowing(Param(0, 0, -1), d))
  BY <1>1, <1>2 DEF Step, ParserStep, Knowing
<1>4. Step(Knowing(Param(0, 0, -1), d), ";", Knowing(Param(1, 0, -1), d))
  BY <1>1, <1>2 DEF Step, ParserStep, Knowing
<1>5. Step(Knowing(Param(1, 0, -1), d), "0", Knowing(Param(1, 0, 0), d))
  BY <1>1, <1>2 DEF Step, ParserStep, Knowing
<1>6. Step(Knowing(Param(1, 0, 0), d), "H", Knowing(Quiet, Away))
  BY DEF Step, FinalStep, Knowing
<1>7. Plays(Knowing(Param(0, -1, -1), d), s, Knowing(Quiet, Away))
  BY <1>1, <1>3, <1>4, <1>5, <1>6, PlaysFour
<1>8. Len(s) <= 4
  OBVIOUS
<1> HIDE DEF d, s
<1>9. Says(Knowing(Param(0, -1, -1), d), s, Knowing(Quiet, Away), 4)
  BY <1>7, <1>8 DEF Says
<1>10. Says(Knowing(Quiet, d), Csi(s), Knowing(Quiet, Away), 2 + 4)
  BY <1>9, SaysCsi
<1>11. /\ Says(Knowing(Quiet, d), Csi(s), Knowing(Quiet, Away), 6)
       /\ Step(Knowing(Quiet, Away), "\n", e) /\ 6 + 1 < BufSize /\ 6 + 1 = 7
  <2>1. 2 + 4 = 6 /\ 6 + 1 < BufSize /\ 6 + 1 = 7
    BY BufferHolds
  <2>2. Step(Knowing(Quiet, Away), "\n", e)
    BY FreeSteps
  <2> QED  BY <1>10, <2>1, <2>2
<1>12. Says(Knowing(Quiet, d), Puts(Csi(s)), e, 6 + 1)
  BY <1>11, SaysPuts
<1> QED  BY <1>11, <1>12 DEF reset_pointer, Wiped, d, s

\* The lengths of the sequences.
LEMMA TwoLenBound ==
  ASSUME NEW n0, NEW n1
  PROVE  /\ TwoLen(n0, n1) \in Nat /\ TwoLen(n0, n1) <= 10
         /\ TwoLen(0, 0) = 6 /\ TwoLen(37, 40) = 8 /\ TwoLen(30, 36) = 8 /\ TwoLen(30, 47) = 8
  BY DEF TwoLen, DigitCount

\* set_cursor_pos with a row that is at most one below the screen.
LEMMA SaysCursor ==
  ASSUME NEW d, d \in {Anywhere("std"), Cleared}, NEW y \in Int, y <= Height
  PROVE  Says(Knowing(Quiet, d), set_cursor_pos(0, y), Free, 10)
<1> DEFINE n0 == (IF y < 0 THEN 0 ELSE y) + 1
           s == TwoParams(n0, 1, "H")
           l == TwoLen(n0, 1)
<1>1. n0 \in Short /\ 1 \in Short /\ n0 \in Nat \ {0} /\ 1 \in Nat \ {0}
  BY ConsoleSize, ScreenAssumption DEF Short
<1>2. set_cursor_pos(0, y) = Printf(s)
  <2>1. (IF 0 < 0 THEN 0 ELSE 0) + 1 = 1
    OBVIOUS
  <2> QED  BY <2>1 DEF set_cursor_pos, TwoParams
<1> HIDE DEF n0
<1>3. Step(Knowing(Param(1, n0, 1), d), "H", Free)
  <2> DEFINE a == Knowing(Param(1, n0, 1), d)
  <2>1. a.p = Param(1, n0, 1) /\ a.d = d /\ Free.p = Quiet /\ Free.d = Anywhere("std")
    BY DEF Knowing, Free
  <2> HIDE DEF a
  <2>2. FinalStep(a, "H", Free)
    BY <1>1, <2>1 DEF FinalStep
  <2> QED  BY <2>2 DEF Step, a
<1>4. "H" \in Chars
  BY DEF Chars
<1>5. Says(Knowing(Quiet, d), s, Free, l)
  BY <1>1, <1>3, <1>4, SaysTwoParams
<1>6. l \in Nat /\ l <= 10
  BY TwoLenBound
<1> HIDE DEF s, l
<1>7. Says(Knowing(Quiet, d), s, Free, 10)
  BY <1>5, <1>6, SaysMore
<1>8. Says(Knowing(Quiet, d), Printf(s), Free, 10)
  BY <1>7, BufferHolds, SaysPrintf
<1> QED  BY <1>2, <1>8

\* set_echo_enabled: the parser ends the sequence at '?', and the rest is shown.
LEMMA SaysVisible ==
  ASSUME NEW on \in BOOLEAN
  PROVE  Says(Free, cursor_visible(on), Free, 6)
<1> DEFINE c == IF on THEN "h" ELSE "l"
           s == <<"?", "2", "5">>
           d == Anywhere("std")
<1>1. "?" \in Chars /\ "2" \in Chars /\ "5" \in Chars /\ c \in Chars
  BY DEF Chars, Digits
<1>2. Step(Knowing(Param(0, -1, -1), d), "?", Free)
  BY DEF Step, ParserStep, Knowing, Free
<1>3. Step(Free, "2", Free) /\ Step(Free, "5", Free) /\ Step(Free, c, Free)
  BY FreeSteps
<1>4. Plays(Knowing(Param(0, -1, -1), d), s, Free)
  BY <1>1, <1>2, <1>3, PlaysThree
<1>5. Len(s) <= 3
  OBVIOUS
<1> HIDE DEF c, s, d
<1>6. Says(Knowing(Param(0, -1, -1), d), s, Free, 3)
  BY <1>4, <1>5 DEF Says
<1>7. Says(Knowing(Quiet, d), Csi(s), Free, 2 + 3)
  BY <1>6, SaysCsi
<1>8. Says(Free, <<c>>, Free, 1)
  BY <1>1, <1>3, SaysOne
<1>9. Says(Knowing(Quiet, d), Csi(s) \o <<c>>, Free, 5 + 1)
  <2> DEFINE w == Csi(s)
             u == <<c>>
  <2>1. Says(Knowing(Quiet, d), w, Free, 5) /\ Says(Free, u, Free, 1)
    BY <1>7, <1>8
  <2> HIDE DEF w, u
  <2>2. Says(Knowing(Quiet, d), w \o u, Free, 5 + 1)
    BY <2>1, SaysBoth
  <2> QED  BY <2>2 DEF w, u
<1>10. Says(Knowing(Quiet, d), Printf(Csi(s) \o <<c>>), Free, 6)
  <2>1. Says(Knowing(Quiet, d), Csi(s) \o <<c>>, Free, 6) /\ 6 < BufSize
    BY <1>9, BufferHolds
  <2> QED  BY <2>1, SaysPrintf
<1> QED  BY <1>10 DEF cursor_visible, Free, c, s, d

\* The lengths of the messages.
LEMMA MessageFits ==
  ASSUME NEW n \in MessageLens
  PROVE  n \in Nat /\ n <= Width /\ n + 14 < BufSize
  BY ScreenAssumption

\* The lengths of the titles, and of what is shown of them.
LEMMA TitleLengths ==
  /\ Entries \in Nat
  /\ \A i \in 1..Entries : /\ TitleLens[i] \in Nat /\ Shown(TitleLens[i]) \in Nat
                           /\ Shown(TitleLens[i]) < BufSize
                           /\ MenuFits => Shown(TitleLens[i]) <= Width
<1>1. TitleLens \in Seq(Nat)
  BY ScreenAssumption
<1>2. Entries \in Nat /\ \A i \in 1..Entries : TitleLens[i] \in Nat
  BY <1>1 DEF Entries
<1>3. \A n \in Nat : Shown(n) \in Nat /\ Shown(n) < BufSize
  BY BufferHolds DEF Shown, Least
<1> QED  BY <1>2, <1>3 DEF MenuFits

\* The length of the header of a menu that fits.
LEMMA HeaderFits ==
  ASSUME MenuFits
  PROVE  HeaderLen \in Nat /\ HeaderLen <= Width /\ HeaderLen + 1 < BufSize
  BY ScreenAssumption DEF MenuFits

\* Two strings joined.
LEMMA Joined ==
  ASSUME NEW s \in Seq(Chars), NEW u \in Seq(Chars)
  PROVE  /\ s \o u \in Seq(Chars) /\ Len(s \o u) = Len(s) + Len(u)
         /\ \A k \in 1..Len(s) : (s \o u)[k] = s[k]
         /\ \A k \in (Len(s) + 1)..(Len(s) + Len(u)) : (s \o u)[k] = u[k - Len(s)]
  OBVIOUS

\* The colours of an entry are eight bytes long.
LEMMA ColourLength ==
  ASSUME NEW n0 \in Short, NEW n1 \in Short, n0 >= 10, n0 < 100, n1 >= 10, n1 < 100
  PROVE  Sgr(n0, n1) \in Seq(Chars) /\ Len(Sgr(n0, n1)) = 8
<1>1. PICK a, b \in Digits : Decimal(n0) = <<a, b>>
  BY DecimalParts
<1>2. PICK c, d \in Digits : Decimal(n1) = <<c, d>>
  BY DecimalParts
<1> DEFINE s1 == <<"ESC", "[">>
           s2 == <<a, b>>
           s3 == <<";">>
           s4 == <<c, d>>
           s5 == <<"m">>
<1>3. Sgr(n0, n1) = s1 \o (((s2 \o s3) \o s4) \o s5)
  BY <1>1, <1>2 DEF Sgr, Csi
<1>4. /\ a \in Chars /\ b \in Chars /\ c \in Chars /\ d \in Chars
      /\ "ESC" \in Chars /\ "[" \in Chars /\ ";" \in Chars /\ "m" \in Chars
  BY DEF Chars
<1>5. /\ \A e \in Chars : <<e>> \in Seq(Chars) /\ Len(<<e>>) = 1
      /\ \A e, g \in Chars : <<e, g>> \in Seq(Chars) /\ Len(<<e, g>>) = 2
  OBVIOUS
<1>6. /\ s1 \in Seq(Chars) /\ Len(s1) = 2 /\ s2 \in Seq(Chars) /\ Len(s2) = 2
      /\ s3 \in Seq(Chars) /\ Len(s3) = 1 /\ s4 \in Seq(Chars) /\ Len(s4) = 2
      /\ s5 \in Seq(Chars) /\ Len(s5) = 1
  BY <1>4, <1>5, Zenon
<1> HIDE DEF s1, s2, s3, s4, s5
<1> DEFINE j1 == s2 \o s3
           j2 == j1 \o s4
           j3 == j2 \o s5
           j4 == s1 \o j3
<1>7. j1 \in Seq(Chars) /\ Len(j1) = 3
  <2>1. j1 \in Seq(Chars) /\ Len(j1) = Len(s2) + Len(s3)
    BY <1>6, Joined, Zenon
  <2> HIDE DEF j1
  <2> QED  BY <2>1, <1>6
<1> HIDE DEF j1
<1>8. j2 \in Seq(Chars) /\ Len(j2) = 5
  <2>1. j2 \in Seq(Chars) /\ Len(j2) = Len(j1) + Len(s4)
    BY <1>6, <1>7, Joined, Zenon
  <2> HIDE DEF j2
  <2> QED  BY <2>1, <1>6, <1>7
<1> HIDE DEF j2
<1>9. j3 \in Seq(Chars) /\ Len(j3) = 6
  <2>1. j3 \in Seq(Chars) /\ Len(j3) = Len(j2) + Len(s5)
    BY <1>6, <1>8, Joined, Zenon
  <2> HIDE DEF j3
  <2> QED  BY <2>1, <1>6, <1>8
<1> HIDE DEF j3
<1>10. j4 \in Seq(Chars) /\ Len(j4) = 8
  <2>1. j4 \in Seq(Chars) /\ Len(j4) = Len(s1) + Len(j3)
    BY <1>6, <1>9, Joined, Zenon
  <2> HIDE DEF j4
  <2> QED  BY <2>1, <1>6, <1>9
<1> QED  BY <1>3, <1>10 DEF j1, j2, j3

\* A title behind its colours: the buffer cuts the title, never the colours.
LEMMA TitleCut ==
  ASSUME NEW s \in Seq(Chars), Len(s) = 8, NEW n \in Nat
  PROVE  Printf(s \o Run("x", n)) = s \o Run("x", Shown(n))
<1> DEFINE u == Run("x", n)
           w == s \o u
           v == Run("x", Shown(n))
           z == s \o v
           l == Least(Len(w), BufSize - 1)
           y == SubSeq(w, 1, l)
<1>0. "x" \in Chars
  BY DEF Chars
<1>1. Shown(n) \in Nat /\ Shown(n) <= n
  BY BufferHolds DEF Shown, Least
<1>2. u \in Seq(Chars) /\ Len(u) = n /\ \A k \in 1..n : u[k] = "x"
  BY <1>0 DEF Run
<1>3. v \in Seq(Chars) /\ Len(v) = Shown(n) /\ \A k \in 1..Shown(n) : v[k] = "x"
  BY <1>0, <1>1 DEF Run
<1> HIDE DEF u, v
<1>4. /\ w \in Seq(Chars) /\ Len(w) = 8 + n
      /\ \A k \in 1..(8 + n) : w[k] = IF k <= 8 THEN s[k] ELSE "x"
  <2>0. /\ w \in Seq(Chars) /\ Len(w) = Len(s) + Len(u)
        /\ \A k \in 1..Len(s) : w[k] = s[k]
        /\ \A k \in (Len(s) + 1)..(Len(s) + Len(u)) : w[k] = u[k - Len(s)]
    BY <1>2, Joined, Zenon
  <2> HIDE DEF w
  <2>1. /\ w \in Seq(Chars) /\ Len(w) = 8 + n
        /\ \A k \in 1..8 : w[k] = s[k]
        /\ \A k \in (8 + 1)..(8 + n) : w[k] = u[k - 8]
    BY <1>2, <2>0
  <2>2. \A k \in 1..(8 + n) : w[k] = IF k <= 8 THEN s[k] ELSE u[k - 8]
    BY <2>1
  <2>3. \A k \in 1..(8 + n) : ~(k <= 8) => u[k - 8] = "x"
    BY <1>2
  <2> QED  BY <2>1, <2>2, <2>3
<1>5. /\ z \in Seq(Chars) /\ Len(z) = 8 + Shown(n)
      /\ \A k \in 1..(8 + Shown(n)) : z[k] = IF k <= 8 THEN s[k] ELSE "x"
  <2>0. /\ z \in Seq(Chars) /\ Len(z) = Len(s) + Len(v)
        /\ \A k \in 1..Len(s) : z[k] = s[k]
        /\ \A k \in (Len(s) + 1)..(Len(s) + Len(v)) : z[k] = v[k - Len(s)]
    BY <1>3, Joined, Zenon
  <2> HIDE DEF z
  <2>1. /\ z \in Seq(Chars) /\ Len(z) = 8 + Shown(n)
        /\ \A k \in 1..8 : z[k] = s[k]
        /\ \A k \in (8 + 1)..(8 + Shown(n)) : z[k] = v[k - 8]
    BY <1>1, <1>3, <2>0
  <2>2. \A k \in 1..(8 + Shown(n)) : z[k] = IF k <= 8 THEN s[k] ELSE v[k - 8]
    BY <1>1, <2>1
  <2>3. \A k \in 1..(8 + Shown(n)) : ~(k <= 8) => v[k - 8] = "x"
    BY <1>1, <1>3
  <2> QED  BY <2>1, <2>2, <2>3
<1>6. l = 8 + Shown(n) /\ l \in Nat /\ l <= 8 + n
  <2>1. l = IF 8 + n > BufSize - 1 THEN BufSize - 1 ELSE 8 + n
    BY <1>4 DEF Least
  <2>2. Shown(n) = IF n > BufSize - 9 THEN BufSize - 9 ELSE n
    BY DEF Shown, Least
  <2> HIDE DEF l
  <2> QED  BY <2>1, <2>2, BufferHolds
<1> HIDE DEF w, z, l
<1>7. y \in Seq(Chars) /\ Len(y) = l /\ \A k \in 1..l : y[k] = w[k]
  BY <1>4, <1>6
<1>8. y = z
  <2> HIDE DEF y
  <2>1. Len(y) = Len(z) /\ \A k \in 1..Len(z) : y[k] = z[k]
    BY <1>1, <1>4, <1>5, <1>6, <1>7
  <2>2. y \in [1..Len(z) -> Chars] /\ z \in [1..Len(z) -> Chars]
    BY <1>5, <1>7, <2>1
  <2> QED  BY <2>1, <2>2
<1> QED  BY <1>8 DEF Printf, y, l, w, z, u, v

\* Colours that log_center switches on and off.
LEMMA ColourSteps ==
  /\ Step(Knowing(Param(1, 37, 40), Anywhere("std")), "m", Free)
  /\ Step(Knowing(Param(1, 30, 36), Anywhere("std")), "m", Knowing(Quiet, Anywhere("any")))
  /\ Step(Knowing(Param(1, 30, 47), Anywhere("std")), "m", Knowing(Quiet, Anywhere("any")))
  /\ Step(Knowing(Param(1, 0, 0), Anywhere("std")), "m", Free)
  /\ Step(Knowing(Param(1, 0, 0), Anywhere("any")), "m", Free)
<1>1. FinalStep(Knowing(Param(1, 37, 40), Anywhere("std")), "m", Free)
  BY DEF FinalStep, Knowing, Free
<1>2. FinalStep(Knowing(Param(1, 30, 36), Anywhere("std")), "m", Knowing(Quiet, Anywhere("any")))
  BY DEF FinalStep, Knowing
<1>3. FinalStep(Knowing(Param(1, 0, 0), Anywhere("std")), "m", Free)
  BY DEF FinalStep, Knowing, Free
<1>4. FinalStep(Knowing(Param(1, 0, 0), Anywhere("any")), "m", Free)
  BY DEF FinalStep, Knowing, Free
<1>5. FinalStep(Knowing(Param(1, 30, 47), Anywhere("std")), "m", Knowing(Quiet, Anywhere("any")))
  BY DEF FinalStep, Knowing
<1> QED  BY <1>1, <1>2, <1>3, <1>4, <1>5 DEF Step

\* The sequences that do so.
LEMMA FreeColours ==
  /\ Says(Free, Sgr(37, 40), Free, 8)
  /\ Says(Free, Sgr(30, 36), Knowing(Quiet, Anywhere("any")), 8)
  /\ Says(Free, Sgr(30, 47), Knowing(Quiet, Anywhere("any")), 8)
  /\ Says(Free, Sgr(0, 0), Free, 6)
  /\ Says(Knowing(Quiet, Anywhere("any")), Sgr(0, 0), Free, 6)
<1>1. 37 \in Short /\ 40 \in Short /\ 30 \in Short /\ 36 \in Short /\ 47 \in Short /\ 0 \in Short
  BY DEF Short
<1>2. Says(Knowing(Quiet, Anywhere("std")), Sgr(37, 40), Free, TwoLen(37, 40))
  BY <1>1, ColourSteps, SaysSgr
<1>3. Says(Knowing(Quiet, Anywhere("std")), Sgr(30, 36), Knowing(Quiet, Anywhere("any")), TwoLen(30, 36))
  BY <1>1, ColourSteps, SaysSgr
<1>4. Says(Knowing(Quiet, Anywhere("std")), Sgr(0, 0), Free, TwoLen(0, 0))
  BY <1>1, ColourSteps, SaysSgr
<1>5. Says(Knowing(Quiet, Anywhere("any")), Sgr(0, 0), Free, TwoLen(0, 0))
  BY <1>1, ColourSteps, SaysSgr
<1>6. TwoLen(37, 40) = 8 /\ TwoLen(30, 36) = 8 /\ TwoLen(30, 47) = 8 /\ TwoLen(0, 0) = 6
  BY TwoLenBound
<1>7. Says(Knowing(Quiet, Anywhere("std")), Sgr(30, 47), Knowing(Quiet, Anywhere("any")), TwoLen(30, 47))
  BY <1>1, ColourSteps, SaysSgr
<1> QED  BY <1>2, <1>3, <1>4, <1>5, <1>6, <1>7 DEF Free

\* The coloured text of log_center.
LEMMA SaysMessage ==
  ASSUME NEW n \in MessageLens, NEW white_bg \in BOOLEAN
  PROVE  Says(Free, Printf((IF white_bg THEN Sgr(30, 36) ELSE Sgr(37, 40)) \o Run("x", n) \o Sgr(0, 0)),
              Free, n + 14)
<1>0. n \in Nat /\ n + 14 < BufSize
  BY MessageFits
<1> DEFINE b == Knowing(Quiet, Anywhere(IF white_bg THEN "any" ELSE "std"))
           s1 == IF white_bg THEN Sgr(30, 36) ELSE Sgr(37, 40)
           s2 == Run("x", n)
           s3 == Sgr(0, 0)
<1>1. Says(Free, s1, b, 8)
  BY FreeColours DEF Free
<1>2. "x" \in Chars /\ Step(b, "x", b)
  <2>1. "x" \in Chars
    BY DEF Chars
  <2>2. CASE white_bg
    BY <2>1, <2>2, FreeSteps
  <2>3. CASE ~white_bg
    BY <2>1, <2>3, FreeSteps DEF Free
  <2> QED  BY <2>2, <2>3
<1>3. Says(b, s3, Free, 6)
  BY FreeColours DEF Free
<1> HIDE DEF b
<1>4. Says(b, s2, b, n)
  BY <1>0, <1>2, SaysRunStays
<1> HIDE DEF s1, s2, s3
<1>5. Says(Free, s1 \o s2, b, 8 + n)
  BY <1>0, <1>1, <1>4, SaysBoth
<1>6. Says(Free, (s1 \o s2) \o s3, Free, (8 + n) + 6)
  <2>1. 8 + n \in Nat
    BY <1>0
  <2> QED  BY <1>3, <1>5, <2>1, SaysBoth
<1>7. Says(Free, (s1 \o s2) \o s3, Free, n + 14) /\ n + 14 \in Nat
  <2>1. (8 + n) + 6 = n + 14 /\ n + 14 \in Nat
    BY <1>0
  <2> QED  BY <1>6, <2>1
<1>8. Says(Free, Printf((s1 \o s2) \o s3), Free, n + 14)
  BY <1>0, <1>7, SaysPrintf
<1> QED  BY <1>8 DEF s1, s2, s3

\* log_center leaves the console as it expects it.
LEMMA PlaysCenter ==
  ASSUME NEW n \in MessageLens, NEW white_bg \in BOOLEAN
  PROVE  Plays(Free, log_center(n, white_bg), Free)
<1> DEFINE y == (Height - 1) \div 2
           s1 == clear_screen
           s2 == set_cursor_pos(0, y)
           s3 == Run(" ", (Width - n) \div 2)
           s4 == Printf((IF white_bg THEN Sgr(30, 36) ELSE Sgr(37, 40)) \o Run("x", n) \o Sgr(0, 0))
           s5 == Puts(<<>>)
<1>0. n \in Nat /\ n <= Width
  BY MessageFits
<1>1. Plays(Free, s1, Wiped)
  BY SaysClear DEF Says
<1>2. Plays(Wiped, s2, Free)
  <2>1. y \in Int /\ y <= Height
    BY ConsoleSize
  <2> HIDE DEF y
  <2>2. Says(Knowing(Quiet, Cleared), set_cursor_pos(0, y), Free, 10)
    BY <2>1, SaysCursor
  <2> QED  BY <2>2 DEF Says, Wiped
<1>3. Plays(Free, s3, Free)
  <2> DEFINE l == (Width - n) \div 2
  <2>1. l \in Nat
    BY <1>0, ConsoleSize
  <2>2. " " \in Chars /\ Step(Free, " ", Free)
    BY FreeSteps DEF Chars
  <2> HIDE DEF l
  <2>3. Says(Free, Run(" ", l), Free, l)
    BY <2>1, <2>2, SaysRunStays
  <2> QED  BY <2>3 DEF Says, l
<1>4. Plays(Free, s4, Free)
  BY SaysMessage DEF Says
<1>5. Plays(Free, s5, Free)
  <2>1. Says(Free, <<>>, Free, 0) /\ Step(Free, "\n", Free) /\ 0 + 1 < BufSize
    <3>1. Says(Free, <<>>, Free, 0)
      BY SaysNone
    <3>2. Step(Free, "\n", Free)
      BY FreeSteps
    <3> QED  BY <3>1, <3>2, BufferHolds
  <2>2. Says(Free, Puts(<<>>), Free, 0 + 1)
    BY <2>1, SaysPuts
  <2> QED  BY <2>2 DEF Says
<1>6. log_center(n, white_bg) = (((s1 \o s2) \o s3) \o s4) \o s5
  BY DEF log_center
<1> HIDE DEF s1, s2, s3, s4, s5
<1>7. Plays(Free, s1 \o s2, Free)
  BY <1>1, <1>2, PlaysBoth
<1>8. Plays(Free, (s1 \o s2) \o s3, Free)
  BY <1>3, <1>7, PlaysBoth
<1>9. Plays(Free, ((s1 \o s2) \o s3) \o s4, Free)
  BY <1>4, <1>8, PlaysBoth
<1>10. Plays(Free, (((s1 \o s2) \o s3) \o s4) \o s5, Free)
  BY <1>5, <1>9, PlaysBoth
<1> QED  BY <1>6, <1>10

\* The greater of 0 and a number.
LEMMA MaxZero ==
  ASSUME NEW k \in Int
  PROVE  Max({0, k}) = IF k > 0 THEN k ELSE 0
<1> DEFINE m == IF k > 0 THEN k ELSE 0
           P(z) == \A w \in {0, k} : z >= w
<1>1. m \in {0, k} /\ P(m)
  OBVIOUS
<1>2. \A z \in {0, k} : P(z) => z = m
  OBVIOUS
<1>3. Max({0, k}) = CHOOSE z \in {0, k} : P(z)
  BY DEF Max
<1> HIDE DEF m, P
<1>4. Max({0, k}) = m
  BY <1>1, <1>2, <1>3, Zenon
<1> QED  BY <1>4 DEF m

\* display_logo too.
LEMMA PlaysLogo ==
  ASSUME NEW n \in MessageLens, NEW width \in Nat, NEW height \in 1..(Height + 1), NEW upto \in 1..height
  PROVE  Plays(Free, display_logo(n, width, height, upto), Free)
<1> DEFINE itw == Width \div 2
           paddx == Max({0, itw - width})
           paddy == IF height > Height THEN -((height - Height) \div 2) ELSE (Height - height) \div 2
           row(y) == set_cursor_pos(0, paddy + y - 1) \o Run(" ", paddx) \o Run("x", 2 * width)
           rows == [y \in 1..upto |-> row(y)]
           s1 == log_center(n, FALSE)
           s2 == set_cursor_pos(0, paddy)
           s3 == FlattenSeq(rows)
<1>1. display_logo(n, width, height, upto) = (s1 \o s2) \o s3
  BY DEF display_logo
<1>2. paddx \in Nat
  <2>1. itw - width \in Int
    BY ConsoleSize
  <2> QED  BY <2>1, MaxZero
<1>3. paddy \in Int /\ paddy <= Height /\ \A y \in 1..upto : paddy + y - 1 \in Int /\ paddy + y - 1 <= Height
  <2>1. CASE height > Height
    <3>1. height = Height + 1 /\ (height - Height) \div 2 = 0
      BY <2>1, ConsoleSize
    <3>2. paddy = 0
      BY <2>1, <3>1
    <3> QED  BY <3>1, <3>2, ConsoleSize
  <2>2. CASE ~(height > Height)
    <3>1. paddy = (Height - height) \div 2
      BY <2>2
    <3>2. paddy \in Nat /\ 2 * paddy <= Height - height
      BY <2>2, <3>1, ConsoleSize
    <3> HIDE DEF paddy
    <3> QED  BY <2>2, <3>2, ConsoleSize
  <2> QED  BY <2>1, <2>2
<1> HIDE DEF paddx, paddy, itw
<1> DEFINE l == (10 + paddx) + 2 * width
<1>4. ASSUME NEW y \in 1..upto
      PROVE  Says(Free, row(y), Free, l)
  <2> DEFINE z == paddy + y - 1
             r1 == set_cursor_pos(0, z)
             r2 == Run(" ", paddx)
             r3 == Run("x", 2 * width)
  <2>1. z \in Int /\ z <= Height
    BY <1>3
  <2>2. Says(Free, r1, Free, 10)
    <3> HIDE DEF z
    <3>1. Says(Knowing(Quiet, Anywhere("std")), set_cursor_pos(0, z), Free, 10)
      BY <2>1, SaysCursor
    <3> QED  BY <3>1 DEF Free
  <2>3. " " \in Chars /\ "x" \in Chars /\ Step(Free, " ", Free) /\ Step(Free, "x", Free)
    BY FreeSteps DEF Chars
  <2>4. Says(Free, r2, Free, paddx)
    BY <1>2, <2>3, SaysRunStays
  <2>5. 2 * width \in Nat
    OBVIOUS
  <2>6. Says(Free, r3, Free, 2 * width)
    BY <2>3, <2>5, SaysRunStays
  <2> HIDE DEF r1, r2, r3
  <2>7. Says(Free, r1 \o r2, Free, 10 + paddx)
    BY <1>2, <2>2, <2>4, SaysBoth
  <2>8. 10 + paddx \in Nat
    BY <1>2
  <2>9. Says(Free, (r1 \o r2) \o r3, Free, (10 + paddx) + 2 * width)
    BY <2>5, <2>6, <2>7, <2>8, SaysBoth
  <2> QED  BY <2>9 DEF r1, r2, r3
<1>5. l \in Nat
  BY <1>2
<1> HIDE DEF l
<1>6. Plays(Free, s3, Free)
  <2> DEFINE g == [k \in 0..upto |-> Free]
  <2>1. upto \in Nat /\ upto # 0 /\ Len(rows) = upto
    OBVIOUS
  <2>2. \A k \in 1..upto : rows[k] = row(k) /\ g[k - 1] = Free /\ g[k] = Free
    <3>1. \A k \in 1..upto : rows[k] = row(k)
      <4> HIDE DEF row
      <4> QED  OBVIOUS
    <3>2. \A k \in 1..upto : g[k - 1] = Free /\ g[k] = Free
      OBVIOUS
    <3> HIDE DEF row, g, rows
    <3> QED  BY <3>1, <3>2
  <2>3. g[0] = Free /\ g[upto] = Free
    OBVIOUS
  <2> HIDE DEF rows, g
  <2>4. \A k \in 1..upto : Says(g[k - 1], rows[k], g[k], l)
    BY <1>4, <2>2
  <2>5. Says(g[0], FlattenSeq(rows), g[upto], upto * l)
    BY <1>5, <2>1, <2>4, SaysFlatten
  <2> QED  BY <2>3, <2>5 DEF Says
<1>7. Plays(Free, s1, Free)
  BY PlaysCenter
<1>8. Plays(Free, s2, Free)
  <2>1. Says(Knowing(Quiet, Anywhere("std")), set_cursor_pos(0, paddy), Free, 10)
    BY <1>3, SaysCursor
  <2> QED  BY <2>1 DEF Free, Says
<1> HIDE DEF s1, s2, s3
<1>9. Plays(Free, s1 \o s2, Free)
  BY <1>7, <1>8, PlaysBoth
<1>10. Plays(Free, (s1 \o s2) \o s3, Free)
  BY <1>6, <1>9, PlaysBoth
<1> QED  BY <1>1, <1>10

\* Text that is not highlighted, on a row without highlighted cell.
LEMMA SaysText ==
  ASSUME NEW r \in Nat, NEW v \in Nat, NEW m \in Nat, NEW n \in Nat, n <= Width, m = 0 \/ v < r
  PROVE  Says(AtLine(r, 0, v, m), Run("x", n), AtLine(r, n, v, m), n)
<1> DEFINE g == [k \in 0..n |-> AtLine(r, k, v, m)]
<1>1. \A k \in 0..n : g[k] = AtLine(r, k, v, m)
  OBVIOUS
<1> HIDE DEF g
<1>2. ASSUME NEW k \in 1..n PROVE Step(g[k - 1], "x", g[k])
  <2>1. k - 1 \in Nat /\ k - 1 < Width /\ (k - 1) + 1 = k /\ k - 1 \in 0..n /\ k \in 0..n
    BY ConsoleSize
  <2>2. Step(AtLine(r, k - 1, v, m), "x", AtLine(r, (k - 1) + 1, v, m))
    BY <2>1, LineSteps
  <2> QED  BY <1>1, <2>1, <2>2
<1>3. "x" \in Chars
  BY DEF Chars
<1>4. Says(g[0], Run("x", n), g[n], n)
  BY <1>2, <1>3, SaysRun
<1> QED  BY <1>1, <1>4

HotLine(r, x) == Knowing(Quiet, Writing("hot", r, x, r, x))

\* The text of the selected entry.
LEMMA SaysHot ==
  ASSUME NEW r \in Nat, NEW n \in Nat, n <= Width
  PROVE  Says(HotLine(r, 0), Run("x", n), HotLine(r, n), n)
<1> DEFINE g == [k \in 0..n |-> HotLine(r, k)]
<1>1. \A k \in 0..n : g[k] = HotLine(r, k)
  OBVIOUS
<1> HIDE DEF g
<1>2. ASSUME NEW k \in 1..n PROVE Step(g[k - 1], "x", g[k])
  <2> DEFINE j == k - 1
  <2>1. j \in Nat /\ j < Width /\ j + 1 = k /\ j \in 0..n /\ k \in 0..n
    BY ConsoleSize
  <2> HIDE DEF j
  <2>2. PlainStep(HotLine(r, j), "x", HotLine(r, j + 1))
    BY <2>1 DEF PlainStep, HotLine, Knowing
  <2> QED  BY <1>1, <2>1, <2>2 DEF Step, j
<1>3. "x" \in Chars
  BY DEF Chars
<1>4. Says(g[0], Run("x", n), g[n], n)
  BY <1>2, <1>3, SaysRun
<1> QED  BY <1>1, <1>4

\* Colours on a row.
LEMMA LineColours ==
  ASSUME NEW r \in Nat, NEW x \in Nat, NEW v \in Nat, NEW m \in Nat
  PROVE  /\ Says(AtLine(r, x, v, m), Sgr(37, 40), AtLine(r, x, v, m), 8)
         /\ Says(AtLine(r, 0, v, 0), Sgr(30, 47), HotLine(r, 0), 8)
         /\ Says(AtLine(r, x, v, m), Sgr(0, 0), AtLine(r, x, v, m), 6)
         /\ Says(HotLine(r, x), Sgr(0, 0), AtLine(r, x, r, x), 6)
<1>0. 37 \in Short /\ 40 \in Short /\ 30 \in Short /\ 47 \in Short /\ 0 \in Short
  BY DEF Short
<1>1. Step(Knowing(Param(1, 37, 40), Writing("std", r, x, v, m)), "m", AtLine(r, x, v, m))
  <2>1. FinalStep(Knowing(Param(1, 37, 40), Writing("std", r, x, v, m)), "m", AtLine(r, x, v, m))
    BY DEF FinalStep, Knowing, AtLine
  <2> QED  BY <2>1 DEF Step
<1>2. Step(Knowing(Param(1, 30, 47), Writing("std", r, 0, v, 0)), "m", HotLine(r, 0))
  <2>1. FinalStep(Knowing(Param(1, 30, 47), Writing("std", r, 0, v, 0)), "m", HotLine(r, 0))
    BY DEF FinalStep, Knowing, HotLine
  <2> QED  BY <2>1 DEF Step
<1>3. Step(Knowing(Param(1, 0, 0), Writing("std", r, x, v, m)), "m", AtLine(r, x, v, m))
  <2>1. FinalStep(Knowing(Param(1, 0, 0), Writing("std", r, x, v, m)), "m", AtLine(r, x, v, m))
    BY DEF FinalStep, Knowing, AtLine
  <2> QED  BY <2>1 DEF Step
<1>4. Step(Knowing(Param(1, 0, 0), Writing("hot", r, x, r, x)), "m", AtLine(r, x, r, x))
  <2>1. FinalStep(Knowing(Param(1, 0, 0), Writing("hot", r, x, r, x)), "m", AtLine(r, x, r, x))
    BY DEF FinalStep, Knowing, AtLine
  <2> QED  BY <2>1 DEF Step
<1>5. Says(Knowing(Quiet, Writing("std", r, x, v, m)), Sgr(37, 40), AtLine(r, x, v, m), TwoLen(37, 40))
  BY <1>0, <1>1, SaysSgr
<1>6. Says(Knowing(Quiet, Writing("std", r, 0, v, 0)), Sgr(30, 47), HotLine(r, 0), TwoLen(30, 47))
  BY <1>0, <1>2, SaysSgr
<1>7. Says(Knowing(Quiet, Writing("std", r, x, v, m)), Sgr(0, 0), AtLine(r, x, v, m), TwoLen(0, 0))
  BY <1>0, <1>3, SaysSgr
<1>8. Says(Knowing(Quiet, Writing("hot", r, x, r, x)), Sgr(0, 0), AtLine(r, x, r, x), TwoLen(0, 0))
  BY <1>0, <1>4, SaysSgr
<1>9. TwoLen(37, 40) = 8 /\ TwoLen(30, 47) = 8 /\ TwoLen(0, 0) = 6
  BY TwoLenBound
<1> QED  BY <1>5, <1>6, <1>7, <1>8, <1>9 DEF AtLine, HotLine

\* How the line of an entry ends.
LEMMA LineEnd ==
  ASSUME NEW r \in Nat, NEW x \in Nat, NEW v \in Nat, NEW m \in Nat, NEW a, Says(a, Sgr(0, 0), AtLine(r, x, v, m), 6)
  PROVE  Says(a, Puts(Sgr(0, 0) \o <<"\n">>), AtLine(r + 2, 0, v, m), 8)
<1>1. "\n" \in Chars
  BY DEF Chars
<1>2. Step(AtLine(r, x, v, m), "\n", AtLine(r + 1, 0, v, m))
  BY LineSteps
<1>3. Step(AtLine(r + 1, 0, v, m), "\n", AtLine(r + 2, 0, v, m))
  <2>1. r + 1 \in Nat /\ (r + 1) + 1 = r + 2
    OBVIOUS
  <2>2. Step(AtLine(r + 1, 0, v, m), "\n", AtLine((r + 1) + 1, 0, v, m))
    BY <2>1, LineSteps
  <2> QED  BY <2>1, <2>2
<1> DEFINE s == Sgr(0, 0)
           u == <<"\n">>
<1>4. Says(AtLine(r, x, v, m), u, AtLine(r + 1, 0, v, m), 1)
  BY <1>1, <1>2, SaysOne
<1>5. Says(a, s, AtLine(r, x, v, m), 6)
  OBVIOUS
<1> HIDE DEF s, u
<1>6. Says(a, s \o u, AtLine(r + 1, 0, v, m), 6 + 1)
  BY <1>4, <1>5, SaysBoth
<1>7. 6 + 1 = 7 /\ 7 + 1 = 8 /\ 7 + 1 < BufSize
  BY BufferHolds
<1> DEFINE w == s \o u
<1>8. Says(a, w, AtLine(r + 1, 0, v, m), 7)
  BY <1>6, <1>7
<1> HIDE DEF w
<1>9. Says(a, Puts(w), AtLine(r + 2, 0, v, m), 7 + 1)
  BY <1>3, <1>7, <1>8, SaysPuts
<1> QED  BY <1>7, <1>9 DEF s, u, w

\* What the buffer makes of an entry.
LEMMA EntryCut ==
  ASSUME NEW i \in 0..(Entries - 1), NEW sel
  PROVE  entry_line(i, sel)
           = ((IF i = sel THEN Sgr(30, 47) ELSE Sgr(37, 40)) \o Run("x", Shown(TitleLens[i + 1])))
               \o Puts(Sgr(0, 0) \o <<"\n">>)
<1> DEFINE s == IF i = sel THEN Sgr(30, 47) ELSE Sgr(37, 40)
           n == TitleLens[i + 1]
<1>1. s \in Seq(Chars) /\ Len(s) = 8
  <2>1. Sgr(30, 47) \in Seq(Chars) /\ Len(Sgr(30, 47)) = 8
    BY ColourLength DEF Short
  <2>2. Sgr(37, 40) \in Seq(Chars) /\ Len(Sgr(37, 40)) = 8
    BY ColourLength DEF Short
  <2> QED  BY <2>1, <2>2
<1>2. n \in Nat
  <2>1. i + 1 \in 1..Entries
    BY TitleLengths
  <2> QED  BY <2>1, TitleLengths
<1>3. entry_line(i, sel) = Printf(s \o Run("x", n)) \o Puts(Sgr(0, 0) \o <<"\n">>)
  BY DEF entry_line
<1> HIDE DEF s, n
<1>4. Printf(s \o Run("x", n)) = s \o Run("x", Shown(n))
  BY <1>1, <1>2, TitleCut
<1> QED  BY <1>3, <1>4 DEF s, n

\* An entry of a menu that fits, the selected one and another.
LEMMA SaysEntry ==
  ASSUME MenuFits,
         NEW i \in 0..(Entries - 1), NEW sel \in 0..(Entries - 1), NEW r \in Nat, NEW v \in Nat, NEW m \in Nat
  PROVE  LET n == Shown(TitleLens[i + 1])
         IN  /\ i # sel /\ (m = 0 \/ v < r)
                  => Says(AtLine(r, 0, v, m), entry_line(i, sel), AtLine(r + 2, 0, v, m), Width + 16)
             /\ i = sel => Says(AtLine(r, 0, v, 0), entry_line(i, sel), AtLine(r + 2, 0, r, n), Width + 16)
<1> DEFINE n == Shown(TitleLens[i + 1])
<1>1. n \in Nat /\ n <= Width
  <2>1. i + 1 \in 1..Entries
    BY TitleLengths
  <2> QED  BY <2>1, TitleLengths
<1>2. 8 + n \in Nat /\ (8 + n) + 8 \in Nat /\ (8 + n) + 8 <= Width + 16 /\ Width + 16 \in Nat
  BY <1>1, ConsoleSize
<1> DEFINE s2 == Run("x", n)
           s3 == Puts(Sgr(0, 0) \o <<"\n">>)
<1>3. CASE i # sel /\ (m = 0 \/ v < r)
  <2> DEFINE s1 == Sgr(37, 40)
  <2>1. entry_line(i, sel) = (s1 \o s2) \o s3
    BY <1>3, EntryCut
  <2>2. Says(AtLine(r, 0, v, m), s1, AtLine(r, 0, v, m), 8)
    BY LineColours
  <2>3. Says(AtLine(r, 0, v, m), s2, AtLine(r, n, v, m), n)
    <3> HIDE DEF n
    <3> QED  BY <1>1, <1>3, SaysText
  <2>4. Says(AtLine(r, n, v, m), s3, AtLine(r + 2, 0, v, m), 8)
    <3> HIDE DEF n
    <3>1. Says(AtLine(r, n, v, m), Sgr(0, 0), AtLine(r, n, v, m), 6)
      BY <1>1, LineColours
    <3> QED  BY <1>1, <3>1, LineEnd
  <2> HIDE DEF s1, s2, s3, n
  <2>5. Says(AtLine(r, 0, v, m), s1 \o s2, AtLine(r, n, v, m), 8 + n)
    BY <1>1, <2>2, <2>3, SaysBoth
  <2>6. Says(AtLine(r, 0, v, m), (s1 \o s2) \o s3, AtLine(r + 2, 0, v, m), (8 + n) + 8)
    BY <1>2, <2>4, <2>5, SaysBoth
  <2>7. Says(AtLine(r, 0, v, m), entry_line(i, sel), AtLine(r + 2, 0, v, m), Width + 16)
    BY <1>2, <2>1, <2>6, SaysMore
  <2> QED  BY <1>3, <2>7
<1>4. CASE i = sel
  <2> DEFINE s1 == Sgr(30, 47)
  <2>1. entry_line(i, sel) = (s1 \o s2) \o s3
    BY <1>4, EntryCut
  <2>2. Says(AtLine(r, 0, v, 0), s1, HotLine(r, 0), 8)
    BY LineColours
  <2>3. Says(HotLine(r, 0), s2, HotLine(r, n), n)
    <3> HIDE DEF n
    <3> QED  BY <1>1, SaysHot
  <2>4. Says(HotLine(r, n), s3, AtLine(r + 2, 0, r, n), 8)
    <3> HIDE DEF n
    <3>1. Says(HotLine(r, n), Sgr(0, 0), AtLine(r, n, r, n), 6)
      BY <1>1, LineColours
    <3> QED  BY <1>1, <3>1, LineEnd
  <2> HIDE DEF s1, s2, s3
  <2>5. Says(AtLine(r, 0, v, 0), s1 \o s2, HotLine(r, n), 8 + n)
    <3> HIDE DEF n
    <3> QED  BY <1>1, <2>2, <2>3, SaysBoth
  <2>6. Says(AtLine(r, 0, v, 0), (s1 \o s2) \o s3, AtLine(r + 2, 0, r, n), (8 + n) + 8)
    <3> HIDE DEF n
    <3> QED  BY <1>2, <2>4, <2>5, SaysBoth
  <2>7. Says(AtLine(r, 0, v, 0), entry_line(i, sel), AtLine(r + 2, 0, r, n), Width + 16)
    <3> HIDE DEF n
    <3> QED  BY <1>2, <2>1, <2>6, SaysMore
  <2> QED  BY <1>4, <2>7
<1> QED  BY <1>3, <1>4

\* What is known when a menu has been drawn.
MenuEnd(sel) ==
  IF MenuFits THEN AtLine(2 * Entries + FooterRows + 4, 0, 3 + 2 * sel, Shown(TitleLens[sel + 1]))
  ELSE Free

\* The numbers of a menu.
LEMMA MenuNumbers ==
  ASSUME NEW sel \in 0..(Entries - 1)
  PROVE  /\ Entries \in Nat /\ FooterRows \in Nat /\ sel \in Nat
         /\ Shown(TitleLens[sel + 1]) \in Nat
<1>1. Entries \in Nat /\ FooterRows \in Nat
  BY TitleLengths, ScreenAssumption
<1>2. sel + 1 \in 1..Entries
  BY <1>1
<1> QED  BY <1>1, <1>2, TitleLengths

\* The header and the line under it.
LEMMA PlaysHeader ==
  ASSUME MenuFits
  PROVE  /\ Plays(AtLine(0, 0, 0, 0), Printf(Run("x", HeaderLen) \o <<"\n">>), AtLine(1, 0, 0, 0))
         /\ Plays(AtLine(1, 0, 0, 0), Run("x", HeaderLen), AtLine(1, HeaderLen, 0, 0))
         /\ Plays(AtLine(1, HeaderLen, 0, 0), Puts(<<"\n">>), AtLine(3, 0, 0, 0))
<1> DEFINE n == HeaderLen
           s == Run("x", n)
           u == <<"\n">>
<1>0. n \in Nat /\ n <= Width /\ n + 1 < BufSize
  BY HeaderFits
<1>1. "\n" \in Chars
  BY DEF Chars
<1>2. Says(AtLine(0, 0, 0, 0), s, AtLine(0, n, 0, 0), n) /\ Says(AtLine(1, 0, 0, 0), s, AtLine(1, n, 0, 0), n)
  BY <1>0, SaysText
<1>3. Step(AtLine(0, n, 0, 0), "\n", AtLine(1, 0, 0, 0))
  <2>1. Step(AtLine(0, n, 0, 0), "\n", AtLine(0 + 1, 0, 0, 0))
    BY <1>0, LineSteps
  <2> QED  BY <2>1
<1>4. Step(AtLine(1, n, 0, 0), "\n", AtLine(2, 0, 0, 0))
  <2>1. Step(AtLine(1, n, 0, 0), "\n", AtLine(1 + 1, 0, 0, 0))
    BY <1>0, LineSteps
  <2> QED  BY <2>1
<1>5. Step(AtLine(2, 0, 0, 0), "\n", AtLine(3, 0, 0, 0))
  <2>1. Step(AtLine(2, 0, 0, 0), "\n", AtLine(2 + 1, 0, 0, 0))
    BY <1>0, LineSteps
  <2> QED  BY <2>1
<1>6. Says(AtLine(0, n, 0, 0), u, AtLine(1, 0, 0, 0), 1)
  BY <1>1, <1>3, SaysOne
<1>7. Says(AtLine(1, n, 0, 0), u, AtLine(2, 0, 0, 0), 1)
  BY <1>1, <1>4, SaysOne
<1> HIDE DEF s, u, n
<1>8. Says(AtLine(0, 0, 0, 0), s \o u, AtLine(1, 0, 0, 0), n + 1)
  BY <1>0, <1>2, <1>6, SaysBoth
<1>9. n + 1 \in Nat /\ n + 1 < BufSize /\ 1 + 1 < BufSize
  BY <1>0, BufferHolds
<1>10. Says(AtLine(0, 0, 0, 0), Printf(s \o u), AtLine(1, 0, 0, 0), n + 1)
  BY <1>8, <1>9, SaysPrintf
<1>11. Says(AtLine(1, n, 0, 0), Puts(u), AtLine(3, 0, 0, 0), 1 + 1)
  BY <1>5, <1>7, <1>9, SaysPuts
<1> QED  BY <1>2, <1>10, <1>11 DEF Says, s, u, n

\* The entries.
LEMMA PlaysEntries ==
  ASSUME MenuFits, NEW sel \in 0..(Entries - 1)
  PROVE  Plays(AtLine(3, 0, 0, 0), FlattenSeq([i \in 1..Entries |-> entry_line(i - 1, sel)]),
               AtLine(3 + 2 * Entries, 0, 3 + 2 * sel, Shown(TitleLens[sel + 1])))
<1> DEFINE n == Entries
           t == Shown(TitleLens[sel + 1])
           V(k) == IF k > sel THEN 3 + 2 * sel ELSE 0
           M(k) == IF k > sel THEN t ELSE 0
           g == [k \in 0..n |-> AtLine(3 + 2 * k, 0, V(k), M(k))]
           s == [i \in 1..n |-> entry_line(i - 1, sel)]
           l == Width + 16
<1>0. n \in Nat /\ n # 0 /\ sel \in Nat /\ sel < n /\ t \in Nat /\ l \in Nat
  BY MenuNumbers, ConsoleSize
<1>1. \A k \in 0..n : g[k] = AtLine(3 + 2 * k, 0, V(k), M(k))
  <2> HIDE DEF V, M
  <2> QED  OBVIOUS
<1>2. Len(s) = n /\ \A k \in 1..n : s[k] = entry_line(k - 1, sel)
  BY <1>0
<1>3. \A k \in 0..n : /\ V(k) \in Nat /\ M(k) \in Nat
                      /\ (k <= sel => V(k) = 0 /\ M(k) = 0)
                      /\ (k > sel => V(k) = 3 + 2 * sel /\ M(k) = t)
  BY <1>0
<1> HIDE DEF V, M, g, s, l
<1>4. ASSUME NEW k \in 1..n PROVE Says(g[k - 1], s[k], g[k], l)
  <2> DEFINE i == k - 1
             r == 3 + 2 * i
  <2>1. i \in 0..(Entries - 1) /\ i \in 0..n /\ k \in 0..n /\ r \in Nat /\ 3 + 2 * k = r + 2 /\ i + 1 = k
    BY <1>0
  <2>2. g[k - 1] = AtLine(r, 0, V(i), M(i)) /\ g[k] = AtLine(r + 2, 0, V(k), M(k)) /\ s[k] = entry_line(i, sel)
    <3>1. g[k] = AtLine(3 + 2 * k, 0, V(k), M(k)) /\ g[i] = AtLine(3 + 2 * i, 0, V(i), M(i))
      BY <1>1, <2>1
    <3> QED  BY <1>2, <2>1, <3>1
  <2>3. V(i) \in Nat /\ M(i) \in Nat
    BY <1>3, <2>1
  <2>4. CASE i < sel
    <3>1. i <= sel /\ k <= sel /\ i # sel
      BY <1>0, <2>1, <2>4
    <3>2. V(i) = 0 /\ M(i) = 0 /\ V(k) = 0 /\ M(k) = 0
      BY <1>3, <2>1, <3>1
    <3> HIDE DEF i, r
    <3>3. Says(AtLine(r, 0, 0, 0), entry_line(i, sel), AtLine(r + 2, 0, 0, 0), l)
      BY <2>1, <3>1, SaysEntry DEF l
    <3> QED  BY <2>2, <3>2, <3>3
  <2>5. CASE i = sel
    <3>1. i <= sel /\ k > sel
      BY <1>0, <2>1, <2>5
    <3>2. V(i) = 0 /\ M(i) = 0 /\ V(k) = r /\ M(k) = t
      BY <1>3, <2>1, <2>5, <3>1
    <3>3. t = Shown(TitleLens[i + 1])
      BY <2>5
    <3> HIDE DEF i, r, t
    <3>4. Says(AtLine(r, 0, 0, 0), entry_line(i, sel), AtLine(r + 2, 0, r, t), l)
      BY <2>1, <2>5, <3>3, SaysEntry DEF l
    <3> QED  BY <2>2, <3>2, <3>4
  <2>6. CASE i > sel
    <3>1. k > sel /\ i # sel /\ 3 + 2 * sel < r
      BY <1>0, <2>1, <2>6
    <3>2. V(i) = V(k) /\ M(i) = M(k) /\ V(i) < r
      BY <1>3, <2>1, <2>6, <3>1
    <3> HIDE DEF i, r
    <3>3. Says(AtLine(r, 0, V(i), M(i)), entry_line(i, sel), AtLine(r + 2, 0, V(i), M(i)), l)
      BY <2>1, <2>3, <3>1, <3>2, SaysEntry DEF l
    <3> QED  BY <2>2, <3>2, <3>3
  <2> QED  BY <1>0, <2>1, <2>4, <2>5, <2>6
<1>5. Says(g[0], FlattenSeq(s), g[n], n * l)
  <2>1. l \in Nat
    BY <1>0
  <2> HIDE DEF n
  <2> QED  BY <1>0, <1>2, <1>4, <2>1, SaysFlatten
<1>6. g[0] = AtLine(3, 0, 0, 0)
  <2>1. 0 \in 0..n /\ 0 <= sel /\ 3 + 2 * 0 = 3
    BY <1>0
  <2> QED  BY <1>1, <1>3, <2>1
<1>7. g[n] = AtLine(3 + 2 * n, 0, 3 + 2 * sel, t)
  <2>1. n \in 0..n /\ n > sel
    BY <1>0
  <2> QED  BY <1>1, <1>3, <2>1
<1> QED  BY <1>5, <1>6, <1>7 DEF Says, s

\* The footer.
LEMMA PlaysFooter ==
  ASSUME NEW r \in Nat, NEW v \in Nat, NEW m \in Nat, v < r
  PROVE  Plays(AtLine(r, 0, v, m), Puts(FlattenSeq([i \in 1..FooterRows |-> <<"x", "\n">>])),
               AtLine(r + FooterRows + 1, 0, v, m))
<1> DEFINE n == FooterRows
           g == [k \in 0..n |-> AtLine(r + k, 0, v, m)]
           s == [i \in 1..n |-> <<"x", "\n">>]
<1>0. n \in Nat
  BY ScreenAssumption
<1>1. \A k \in 0..n : g[k] = AtLine(r + k, 0, v, m)
  OBVIOUS
<1>2. Len(s) = n /\ (n = 0 => s = <<>>) /\ \A k \in 1..n : s[k] = <<"x", "\n">>
  <2>1. Len(s) = n
    BY <1>0
  <2>2. \A k \in 1..n : s[k] = <<"x", "\n">>
    BY <1>0
  <2>3. n = 0 => s = <<>>
    BY <1>0
  <2> QED  BY <2>1, <2>2, <2>3
<1> HIDE DEF g, s
<1>3. ASSUME NEW k \in 1..n PROVE Says(g[k - 1], s[k], g[k], 2)
  <2> DEFINE j == r + (k - 1)
  <2>1. k - 1 \in 0..n /\ k \in 0..n /\ j \in Nat /\ r + k = j + 1 /\ v < j /\ 0 < Width /\ 0 + 1 = 1
    BY <1>0, ConsoleSize
  <2>2. g[k - 1] = AtLine(j, 0, v, m) /\ g[k] = AtLine(j + 1, 0, v, m)
    <3>1. g[k - 1] = AtLine(r + (k - 1), 0, v, m) /\ g[k] = AtLine(r + k, 0, v, m)
      BY <1>1, <2>1
    <3> QED  BY <2>1, <3>1
  <2> HIDE DEF j
  <2>3. Step(AtLine(j, 0, v, m), "x", AtLine(j, 1, v, m))
    <3>1. Step(AtLine(j, 0, v, m), "x", AtLine(j, 0 + 1, v, m))
      BY <2>1, LineSteps
    <3> QED  BY <3>1
  <2>4. Step(AtLine(j, 1, v, m), "\n", AtLine(j + 1, 0, v, m))
    BY <2>1, LineSteps
  <2>5. "x" \in Chars /\ "\n" \in Chars
    BY DEF Chars
  <2>6. Plays(AtLine(j, 0, v, m), <<"x", "\n">>, AtLine(j + 1, 0, v, m))
    BY <2>3, <2>4, <2>5, PlaysTwo
  <2>7. Len(<<"x", "\n">>) <= 2
    OBVIOUS
  <2>8. Says(AtLine(j, 0, v, m), <<"x", "\n">>, AtLine(j + 1, 0, v, m), 2)
    BY <2>6, <2>7 DEF Says
  <2> QED  BY <1>2, <2>2, <2>8
<1>4. Says(g[0], FlattenSeq(s), g[n], n * 2)
  <2> HIDE DEF n
  <2> QED  BY <1>0, <1>2, <1>3, SaysFlatten
<1>5. g[0] = AtLine(r, 0, v, m) /\ g[n] = AtLine(r + n, 0, v, m)
  <2>1. 0 \in 0..n /\ n \in 0..n /\ r + 0 = r
    BY <1>0
  <2> QED  BY <1>1, <2>1
<1>6. n * 2 \in Nat /\ n * 2 + 1 < BufSize
  BY <1>0, ScreenAssumption
<1>7. Step(AtLine(r + n, 0, v, m), "\n", AtLine(r + n + 1, 0, v, m))
  <2>1. r + n \in Nat
    BY <1>0
  <2> QED  BY <2>1, LineSteps
<1> DEFINE w == FlattenSeq(s)
           l == n * 2
<1>8. Says(AtLine(r, 0, v, m), w, AtLine(r + n, 0, v, m), l)
  BY <1>4, <1>5
<1> HIDE DEF w
<1>9. Says(AtLine(r, 0, v, m), Puts(w), AtLine(r + n + 1, 0, v, m), l + 1)
  <2>1. l \in Nat /\ l + 1 < BufSize
    BY <1>6
  <2> HIDE DEF l
  <2> QED  BY <1>7, <1>8, <2>1, SaysPuts
<1> QED  BY <1>9 DEF Says, w, s

\* printUI, of a menu that fits.
LEMMA PlaysFitting ==
  ASSUME MenuFits, NEW sel \in 0..(Entries - 1)
  PROVE  Plays(Free, printUI(sel), MenuEnd(sel))
<1> DEFINE t == Shown(TitleLens[sel + 1])
           s1 == clear_screen
           s2 == reset_pointer
           s3 == Printf(Run("x", HeaderLen) \o <<"\n">>)
           s4 == Run("x", HeaderLen)
           s5 == Puts(<<"\n">>)
           s6 == FlattenSeq([i \in 1..Entries |-> entry_line(i - 1, sel)])
           s7 == Puts(FlattenSeq([i \in 1..FooterRows |-> <<"x", "\n">>]))
           r == 3 + 2 * Entries
           v == 3 + 2 * sel
<1>0. Entries \in Nat /\ FooterRows \in Nat /\ sel \in Nat /\ t \in Nat
  BY MenuNumbers
<1>1. Plays(Free, s1, Wiped)
  BY SaysClear DEF Says
<1>2. Plays(Wiped, s2, AtLine(0, 0, 0, 0))
  BY SaysPointer DEF Says
<1>3. /\ Plays(AtLine(0, 0, 0, 0), s3, AtLine(1, 0, 0, 0))
      /\ Plays(AtLine(1, 0, 0, 0), s4, AtLine(1, HeaderLen, 0, 0))
      /\ Plays(AtLine(1, HeaderLen, 0, 0), s5, AtLine(3, 0, 0, 0))
  BY PlaysHeader
<1>4. Plays(AtLine(3, 0, 0, 0), s6, AtLine(r, 0, v, t))
  BY PlaysEntries
<1>5. Plays(AtLine(r, 0, v, t), s7, AtLine(r + FooterRows + 1, 0, v, t))
  <2>1. r \in Nat /\ v \in Nat /\ v < r
    BY <1>0
  <2> HIDE DEF r, v, t
  <2> QED  BY <1>0, <2>1, PlaysFooter
<1>6. AtLine(r + FooterRows + 1, 0, v, t) = MenuEnd(sel)
  <2>1. r + FooterRows + 1 = 2 * Entries + FooterRows + 4
    BY <1>0
  <2> QED  BY <2>1 DEF MenuEnd
<1>7. printUI(sel) = (((((s1 \o s2) \o s3) \o s4) \o s5) \o s6) \o s7
  BY DEF printUI
<1> HIDE DEF s1, s2, s3, s4, s5, s6, s7, r, v, t
<1>8. Plays(Free, s1 \o s2, AtLine(0, 0, 0, 0))
  BY <1>1, <1>2, PlaysBoth
<1>9. Plays(Free, (s1 \o s2) \o s3, AtLine(1, 0, 0, 0))
  BY <1>3, <1>8, PlaysBoth
<1>10. Plays(Free, ((s1 \o s2) \o s3) \o s4, AtLine(1, HeaderLen, 0, 0))
  BY <1>3, <1>9, PlaysBoth
<1>11. Plays(Free, (((s1 \o s2) \o s3) \o s4) \o s5, AtLine(3, 0, 0, 0))
  BY <1>3, <1>10, PlaysBoth
<1>12. Plays(Free, ((((s1 \o s2) \o s3) \o s4) \o s5) \o s6, AtLine(r, 0, v, t))
  BY <1>4, <1>11, PlaysBoth
<1>13. Plays(Free, (((((s1 \o s2) \o s3) \o s4) \o s5) \o s6) \o s7, AtLine(r + FooterRows + 1, 0, v, t))
  BY <1>5, <1>12, PlaysBoth
<1> QED  BY <1>6, <1>7, <1>13

\* Letters and line feeds leave the console as every call expects it, wherever the
\* buffer cuts them.
LEMMA PlaysLetters ==
  ASSUME NEW s \in Seq({"x", "\n"})
  PROVE  Plays(Free, s, Free) /\ Plays(Free, Printf(s), Free)
<1>1. ASSUME NEW u \in Seq({"x", "\n"}) PROVE Plays(Free, u, Free)
  <2> DEFINE f == [k \in 0..Len(u) |-> Free]
  <2>1. u \in Seq(Chars)
    <3>1. {"x", "\n"} \subseteq Chars
      BY DEF Chars
    <3>2. \A S : S \subseteq Chars => Seq(S) \subseteq Seq(Chars)
      OBVIOUS
    <3> QED  BY <3>1, <3>2, Zenon
  <2>2. /\ Len(u) \in Nat /\ f[0] = Free /\ f[Len(u)] = Free
        /\ \A k \in 1..Len(u) : f[k - 1] = Free /\ f[k] = Free /\ u[k] \in {"x", "\n"}
    OBVIOUS
  <2> HIDE DEF f
  <2>3. \A c \in {"x", "\n"} : Step(Free, c, Free)
    BY FreeSteps
  <2>4. Route(f, Free, u, Free)
    BY <2>2, <2>3 DEF Route
  <2> QED  BY <2>1, <2>4 DEF Plays
<1>2. Printf(s) \in Seq({"x", "\n"})
  <2> DEFINE l == Least(Len(s), BufSize - 1)
  <2>1. Len(s) \in Nat /\ l \in 0..Len(s)
    BY BufferHolds DEF Least
  <2> HIDE DEF l
  <2>2. SubSeq(s, 1, l) \in Seq({"x", "\n"})
    BY <2>1
  <2> QED  BY <2>2 DEF Printf, l
<1> QED  BY <1>1, <1>2

\* An entry of any length: the reset behind it is never cut.
LEMMA SaysAnyEntry ==
  ASSUME NEW i \in 0..(Entries - 1), NEW sel
  PROVE  Says(Free, entry_line(i, sel), Free, BufSize + 16)
<1> DEFINE n == Shown(TitleLens[i + 1])
           b == IF i = sel THEN Knowing(Quiet, Anywhere("any")) ELSE Free
           s1 == IF i = sel THEN Sgr(30, 47) ELSE Sgr(37, 40)
           s2 == Run("x", n)
           s3 == Puts(Sgr(0, 0) \o <<"\n">>)
<1>1. n \in Nat /\ 8 + n \in Nat /\ (8 + n) + 8 \in Nat /\ BufSize + 16 \in Nat /\ (8 + n) + 8 <= BufSize + 16
  <2>1. i + 1 \in 1..Entries
    BY TitleLengths
  <2>2. n \in Nat /\ n < BufSize
    BY <2>1, TitleLengths
  <2> HIDE DEF n
  <2> QED  BY <2>2, BufferHolds
<1>2. entry_line(i, sel) = (s1 \o s2) \o s3
  BY EntryCut
<1>3. Says(Free, s1, b, 8)
  BY FreeColours
<1>4. Says(b, s2, b, n)
  <2>1. "x" \in Chars /\ Step(b, "x", b)
    BY FreeSteps DEF Chars
  <2> HIDE DEF b, n
  <2> QED  BY <1>1, <2>1, SaysRunStays
<1>5. Says(b, s3, Free, 8)
  <2> DEFINE u == Sgr(0, 0)
             w == u \o <<"\n">>
  <2>1. Says(b, u, Free, 6)
    BY FreeColours
  <2>2. "\n" \in Chars /\ Step(Free, "\n", Free)
    BY FreeSteps DEF Chars
  <2>3. Says(Free, <<"\n">>, Free, 1)
    BY <2>2, SaysOne
  <2> HIDE DEF u, b
  <2>4. Says(b, w, Free, 6 + 1)
    BY <2>1, <2>3, SaysBoth
  <2>5. 6 + 1 = 7 /\ 7 + 1 = 8 /\ 7 + 1 < BufSize
    BY BufferHolds
  <2>6. Says(b, w, Free, 7)
    BY <2>4, <2>5
  <2> HIDE DEF w
  <2>7. Says(b, Puts(w), Free, 7 + 1)
    BY <2>2, <2>5, <2>6, SaysPuts
  <2> QED  BY <2>5, <2>7 DEF w, u
<1> HIDE DEF n, b, s1, s2, s3
<1>6. Says(Free, s1 \o s2, b, 8 + n)
  BY <1>1, <1>3, <1>4, SaysBoth
<1>7. Says(Free, (s1 \o s2) \o s3, Free, (8 + n) + 8)
  BY <1>1, <1>5, <1>6, SaysBoth
<1> QED  BY <1>1, <1>2, <1>7, SaysMore

\* A family of strings that each leave the console as every call expects it.
LEMMA SaysFamily ==
  ASSUME NEW n \in Nat, NEW l \in Nat, NEW s, Len(s) = n, n = 0 => s = <<>>,
         \A k \in 1..n : Says(Free, s[k], Free, l)
  PROVE  Says(Free, FlattenSeq(s), Free, n * l)
<1> DEFINE g == [k \in 0..n |-> Free]
<1>1. g[0] = Free /\ g[n] = Free /\ \A k \in 1..n : g[k - 1] = Free /\ g[k] = Free
  OBVIOUS
<1> HIDE DEF g
<1>2. \A k \in 1..n : Says(g[k - 1], s[k], g[k], l)
  BY <1>1
<1>3. Says(g[0], FlattenSeq(s), g[n], n * l)
  BY <1>2, SaysFlatten
<1> QED  BY <1>1, <1>3

\* printUI, of any menu.
LEMMA PlaysAny ==
  ASSUME NEW sel \in 0..(Entries - 1)
  PROVE  Plays(Free, printUI(sel), Free)
<1> DEFINE h == Run("x", HeaderLen)
           s1 == clear_screen
           s2 == reset_pointer
           s3 == Printf(h \o <<"\n">>)
           s4 == h
           s5 == Puts(<<"\n">>)
           e  == [i \in 1..Entries |-> entry_line(i - 1, sel)]
           s6 == FlattenSeq(e)
           f  == [i \in 1..FooterRows |-> <<"x", "\n">>]
           s7 == Puts(FlattenSeq(f))
<1>0. Entries \in Nat /\ Entries # 0 /\ FooterRows \in Nat /\ HeaderLen \in Nat
  BY MenuNumbers, ScreenAssumption
<1>1. Plays(Free, s1, Wiped)
  BY SaysClear DEF Says
<1>2. Plays(Wiped, s2, Free)
  BY SaysPointer DEF Says
<1>3. Plays(Free, s3, Free) /\ Plays(Free, s4, Free) /\ Plays(Free, s5, Free)
  <2>1. h \in Seq({"x", "\n"}) /\ h \o <<"\n">> \in Seq({"x", "\n"})
    <3>1. h \in Seq({"x", "\n"})
      BY <1>0 DEF Run
    <3> HIDE DEF h
    <3> QED  BY <3>1
  <2>2. <<"\n">> \o <<"\n">> \in Seq({"x", "\n"})
    OBVIOUS
  <2> HIDE DEF h
  <2> QED  BY <2>1, <2>2, PlaysLetters DEF Puts
<1>4. Plays(Free, s6, Free)
  <2> DEFINE l == BufSize + 16
  <2>1. l \in Nat /\ Len(e) = Entries
    BY <1>0, BufferHolds
  <2>2. ASSUME NEW k \in 1..Entries PROVE Says(Free, e[k], Free, l)
    <3>1. k - 1 \in 0..(Entries - 1) /\ e[k] = entry_line(k - 1, sel)
      BY <1>0
    <3> HIDE DEF e
    <3> QED  BY <3>1, SaysAnyEntry
  <2> HIDE DEF e, l
  <2>3. Says(Free, FlattenSeq(e), Free, Entries * l)
    BY <1>0, <2>1, <2>2, SaysFamily
  <2> QED  BY <2>3 DEF Says
<1>5. Plays(Free, s7, Free)
  <2>1. Len(f) = FooterRows /\ (FooterRows = 0 => f = <<>>) /\ \A k \in 1..FooterRows : f[k] = <<"x", "\n">>
    BY <1>0
  <2>2. "x" \in Chars /\ "\n" \in Chars /\ Step(Free, "x", Free) /\ Step(Free, "\n", Free)
    BY FreeSteps DEF Chars
  <2>3. Says(Free, <<"x", "\n">>, Free, 2)
    <3>1. Plays(Free, <<"x", "\n">>, Free)
      BY <2>2, PlaysTwo
    <3>2. Len(<<"x", "\n">>) <= 2
      OBVIOUS
    <3> QED  BY <3>1, <3>2 DEF Says
  <2> HIDE DEF f
  <2>4. Says(Free, FlattenSeq(f), Free, FooterRows * 2)
    BY <1>0, <2>1, <2>3, SaysFamily
  <2> DEFINE w == FlattenSeq(f)
             l == FooterRows * 2
  <2>5. l \in Nat /\ l + 1 < BufSize /\ Says(Free, w, Free, l)
    BY <1>0, <2>4, ScreenAssumption
  <2> HIDE DEF w, l
  <2>6. Says(Free, Puts(w), Free, l + 1)
    BY <2>2, <2>5, SaysPuts
  <2> QED  BY <2>6 DEF Says, w
<1>6. printUI(sel) = (((((s1 \o s2) \o s3) \o s4) \o s5) \o s6) \o s7
  BY DEF printUI
<1> HIDE DEF h, e, f, s1, s2, s3, s4, s5, s6, s7
<1>7. Plays(Free, s1 \o s2, Free)
  BY <1>1, <1>2, PlaysBoth
<1>8. Plays(Free, (s1 \o s2) \o s3, Free)
  BY <1>3, <1>7, PlaysBoth
<1>9. Plays(Free, ((s1 \o s2) \o s3) \o s4, Free)
  BY <1>3, <1>8, PlaysBoth
<1>10. Plays(Free, (((s1 \o s2) \o s3) \o s4) \o s5, Free)
  BY <1>3, <1>9, PlaysBoth
<1>11. Plays(Free, ((((s1 \o s2) \o s3) \o s4) \o s5) \o s6, Free)
  BY <1>4, <1>10, PlaysBoth
<1>12. Plays(Free, (((((s1 \o s2) \o s3) \o s4) \o s5) \o s6) \o s7, Free)
  BY <1>5, <1>11, PlaysBoth
<1> QED  BY <1>6, <1>12

\* printUI.
LEMMA PlaysMenu ==
  ASSUME NEW sel \in 0..(Entries - 1)
  PROVE  Plays(Free, printUI(sel), MenuEnd(sel))
<1>1. CASE MenuFits
  BY <1>1, PlaysFitting
<1>2. CASE ~MenuFits
  BY <1>2, PlaysAny DEF MenuEnd
<1> QED  BY <1>1, <1>2

-----------------------------------------------------------------------------
(* The inductive invariant *)

\* What the last call leaves: a menu in place, or anything usable.
Done(b) ==
  \/ drawn = NoMenu /\ b \in {Free, AtLine(0, 0, 0, 0)}
  \/ drawn \in 0..(Entries - 1) /\ b = MenuEnd(drawn)

\* Something is known of the console from which what is on its way leads to
\* what the last call leaves.
OnRoute == \E a, b : Known(a) /\ Plays(a, out, b) /\ Done(b)

ScreenInv == VtInv /\ ~wild /\ tabs = 0 /\ OnRoute

\* What is known on a row of the menu.
LEMMA KnownLine ==
  ASSUME NEW r, NEW x, NEW v, NEW m
  PROVE  Known(AtLine(r, x, v, m)) <=> pstate = "ESC" /\ attr = VTC_DEFAULT_ATTR /\ InMenu(r, x, v, m)
<1>1. ParserShows(Quiet) <=> pstate = "ESC"
  BY DEF ParserShows, Quiet, Parsing
<1>2. HueShows("std") <=> attr = VTC_DEFAULT_ATTR
  BY DEF HueShows
<1>3. Known(AtLine(r, x, v, m)) <=> ParserShows(Quiet) /\ DisplayShows(Writing("std", r, x, v, m))
  BY DEF Known, AtLine, Knowing
<1> QED  BY <1>1, <1>2, <1>3, DisplayMeans

\* What every call may rely on.
LEMMA KnownFree == Known(Free) <=> pstate = "ESC" /\ attr = VTC_DEFAULT_ATTR /\ OnScreen
<1>1. ParserShows(Quiet) <=> pstate = "ESC"
  BY DEF ParserShows, Quiet, Parsing
<1>2. HueShows("std") <=> attr = VTC_DEFAULT_ATTR
  BY DEF HueShows
<1>3. Known(Free) <=> ParserShows(Quiet) /\ DisplayShows(Anywhere("std"))
  BY DEF Known, Free, Knowing
<1>4. DisplayShows(Anywhere("std")) <=> HueShows("std") /\ OnScreen
  BY DisplayMeans
<1> QED  BY <1>1, <1>2, <1>3, <1>4

\* Where a call has come to its end.
LEMMA PlaysEnd ==
  ASSUME NEW a, NEW b, Plays(a, <<>>, b)
  PROVE  a = b
<1>1. PICK f : Route(f, a, <<>>, b)
  BY DEF Plays
<1>2. Len(<<>>) = 0
  OBVIOUS
<1> QED  BY <1>1, <1>2 DEF Route

\* What is true when a call has come to its end.
LEMMA IdleKnown ==
  ASSUME OnRoute, out = <<>>
  PROVE  /\ Known(Free)
         /\ drawn # NoMenu => drawn \in 0..(Entries - 1) /\ Known(MenuEnd(drawn))
<1>1. PICK b : Known(b) /\ Done(b)
  BY PlaysEnd DEF OnRoute
<1>2. CASE drawn = NoMenu /\ b = Free
  <2>1. Known(Free)
    BY <1>1, <1>2
  <2> QED  BY <1>2, <2>1
<1>3. CASE drawn = NoMenu /\ b = AtLine(0, 0, 0, 0)
  <2>1. pstate = "ESC" /\ attr = VTC_DEFAULT_ATTR /\ InMenu(0, 0, 0, 0)
    BY <1>1, <1>3, KnownLine
  <2>2. OnScreen
    BY <2>1, InMenuOn
  <2> QED  BY <1>3, <2>1, <2>2, KnownFree
<1>4. CASE drawn \in 0..(Entries - 1) /\ b = MenuEnd(drawn)
  <2> DEFINE r == 2 * Entries + FooterRows + 4
  <2>1. r \in Nat
    BY <1>4, MenuNumbers
  <2>2. CASE MenuFits
    <3>1. pstate = "ESC" /\ attr = VTC_DEFAULT_ATTR /\ InMenu(r, 0, 3 + 2 * drawn, Shown(TitleLens[drawn + 1]))
      BY <1>1, <1>4, <2>2, KnownLine DEF MenuEnd
    <3> HIDE DEF r
    <3>2. OnScreen
      BY <2>1, <3>1, InMenuOn
    <3> QED  BY <1>1, <1>4, <3>1, <3>2, KnownFree
  <2>3. CASE ~MenuFits
    BY <1>1, <1>4, <2>3 DEF MenuEnd
  <2> QED  BY <2>2, <2>3
<1> QED  BY <1>1, <1>2, <1>3, <1>4 DEF Done

\* What is known lasts while the console stands still.
LEMMA KnownKept ==
  ASSUME NEW a, Known(a), UNCHANGED vtcVars
  PROVE  Known(a)'
  BY DEF Known, ParserShows, Holds, DisplayShows, HueShows, InMenu, Lit, OnScreen, vtcVars, cellVars, parserVars

\* A call begins.
LEMMA DrawInv ==
  ASSUME ScreenInv, NEW s, NEW what, NEW b, Draw(s, what), Plays(Free, s, b),
         \/ what = NoMenu /\ b \in {Free, AtLine(0, 0, 0, 0)}
         \/ what \in 0..(Entries - 1) /\ b = MenuEnd(what)
  PROVE  ScreenInv'
<1>1. out = <<>> /\ out' = s /\ drawn' = what /\ UNCHANGED vtcVars
  BY DEF Draw
<1>2. Known(Free)
  BY <1>1, IdleKnown DEF ScreenInv
<1>3. Known(Free)'
  BY <1>1, <1>2, KnownKept
<1>4. Done(b)'
  BY <1>1 DEF Done
<1>5. OnRoute'
  BY <1>1, <1>3, <1>4 DEF OnRoute
<1>6. VtInv' /\ ~wild' /\ tabs' = 0
  <2>1. VtInv'
    BY <1>1, VtNextInv DEF ScreenInv
  <2>2. ~wild' /\ tabs' = 0
    BY <1>1 DEF ScreenInv, vtcVars, cellVars
  <2> QED  BY <2>1, <2>2
<1> QED  BY <1>5, <1>6 DEF ScreenInv

\* The console reads a character.
LEMMA ConsumeInv ==
  ASSUME ScreenInv, Consume
  PROVE  ScreenInv'
<1> DEFINE c == Head(out)
<1>1. out # <<>> /\ vtconsole_process(c) /\ out' = Tail(out) /\ drawn' = drawn
  BY DEF Consume
<1>2. VtInv /\ ~wild /\ tabs = 0
  BY DEF ScreenInv
<1>3. PICK a, e : Known(a) /\ Plays(a, out, e) /\ Done(e)
  BY DEF ScreenInv, OnRoute
<1>4. PICK b : Step(a, c, b) /\ Plays(b, Tail(out), e)
  BY <1>1, <1>3, PlaysTail
<1> HIDE DEF c
<1>5. Known(b)' /\ ~wild' /\ tabs' = 0
  BY <1>1, <1>2, <1>3, <1>4, StepSound
<1>6. VtInv'
  BY <1>1, <1>2, ProcessInv
<1>7. Done(e)'
  BY <1>1, <1>3 DEF Done
<1>8. OnRoute'
  BY <1>1, <1>4, <1>5, <1>7 DEF OnRoute
<1> QED  BY <1>5, <1>6, <1>8 DEF ScreenInv

\* Before the first call.
LEMMA ScreenInitInv == ScreenInit => ScreenInv
<1> SUFFICES ASSUME ScreenInit PROVE ScreenInv
  OBVIOUS
<1>1. VtInit /\ out = <<>> /\ drawn = NoMenu
  BY DEF ScreenInit
<1>2. VtInv /\ ~wild /\ tabs = 0
  BY <1>1, VtInitInv DEF VtInit
<1>3. Known(Free)
  <2>1. pstate = "ESC" /\ attr = VTC_DEFAULT_ATTR /\ OnScreen
    BY <1>1 DEF VtInit, OnScreen
  <2> QED  BY <2>1, KnownFree
<1>4. Plays(Free, <<>>, Free)
  BY SaysNone DEF Says
<1>5. Done(Free)
  BY <1>1 DEF Done
<1>6. OnRoute
  BY <1>1, <1>3, <1>4, <1>5 DEF OnRoute
<1> QED  BY <1>2, <1>6 DEF ScreenInv

\* Every call and every character keep the invariant.
LEMMA ScreenNextInv == ScreenInv /\ [ScreenNext]_screenVars => ScreenInv'
<1> SUFFICES ASSUME ScreenInv, [ScreenNext]_screenVars PROVE ScreenInv'
  OBVIOUS
<1>1. CASE DrawMenu
  <2>1. PICK sel \in 0..(Entries - 1) : Draw(printUI(sel), sel)
    BY <1>1 DEF DrawMenu
  <2>2. Plays(Free, printUI(sel), MenuEnd(sel))
    BY PlaysMenu
  <2> QED  BY <2>1, <2>2, DrawInv
<1>2. CASE DrawMessage
  <2>1. PICK n \in MessageLens, white_bg \in BOOLEAN : Draw(log_center(n, white_bg), NoMenu)
    BY <1>2 DEF DrawMessage
  <2>2. Plays(Free, log_center(n, white_bg), Free)
    BY PlaysCenter
  <2> QED  BY <2>1, <2>2, DrawInv
<1>3. CASE DrawLogo
  <2>1. PICK n \in MessageLens, width \in 1..((Width \div 2) + 1), height \in 1..(Height + 1) :
          \E upto \in 1..height : Draw(display_logo(n, width, height, upto), NoMenu)
    BY <1>3 DEF DrawLogo
  <2>2. PICK upto \in 1..height : Draw(display_logo(n, width, height, upto), NoMenu)
    BY <2>1
  <2>3. width \in Nat
    BY ConsoleSize
  <2>4. Plays(Free, display_logo(n, width, height, upto), Free)
    BY <2>3, PlaysLogo
  <2> QED  BY <2>2, <2>4, DrawInv
<1>4. CASE EnterEntry
  <2>1. Draw(clear_screen \o reset_pointer, NoMenu)
    BY <1>4 DEF EnterEntry
  <2>2. Plays(Free, clear_screen, Wiped) /\ Plays(Wiped, reset_pointer, AtLine(0, 0, 0, 0))
    BY SaysClear, SaysPointer DEF Says
  <2>3. Plays(Free, clear_screen \o reset_pointer, AtLine(0, 0, 0, 0))
    BY <2>2, PlaysBoth
  <2> QED  BY <2>1, <2>3, DrawInv
<1>5. CASE SetEcho
  <2>1. PICK on \in BOOLEAN : Draw(cursor_visible(on), NoMenu)
    BY <1>5 DEF SetEcho
  <2>2. Plays(Free, cursor_visible(on), Free)
    BY SaysVisible DEF Says
  <2> QED  BY <2>1, <2>2, DrawInv
<1>6. CASE Consume
  BY <1>6, ConsumeInv
<1>7. CASE UNCHANGED screenVars
  <2>1. UNCHANGED vtcVars /\ out' = out /\ drawn' = drawn
    BY <1>7 DEF screenVars
  <2>2. VtInv'
    BY <2>1, VtNextInv DEF ScreenInv
  <2>3. ~wild' /\ tabs' = 0
    BY <2>1 DEF ScreenInv, vtcVars, cellVars
  <2>4. PICK a, e : Known(a) /\ Plays(a, out, e) /\ Done(e)
    BY DEF ScreenInv, OnRoute
  <2>5. Known(a)' /\ Done(e)'
    BY <2>1, <2>4, KnownKept DEF Done
  <2>6. OnRoute'
    BY <2>1, <2>4, <2>5 DEF OnRoute
  <2> QED  BY <2>2, <2>3, <2>6 DEF ScreenInv
<1> QED  BY <1>1, <1>2, <1>3, <1>4, <1>5, <1>6, <1>7 DEF ScreenNext

-----------------------------------------------------------------------------
(* Theorems *)

\* At any time what is on its way to the console has a route from what is
\* true of the console to what the last call leaves.
THEOREM ScreenAlwaysOnRoute == ScreenSpec => []ScreenInv
  BY ScreenInitInv, ScreenNextInv, PTL DEF ScreenSpec

\* Nothing that main.c draws is written outside the console's buffer.
THEOREM DrawingNeverWild == ScreenSpec => []NoWildWrite
<1>1. ScreenInv => NoWildWrite
  BY DEF ScreenInv, NoWildWrite
<1> QED  BY <1>1, ScreenAlwaysOnRoute, PTL

\* After each call of main.c's output functions the parser is outside any
\* sequence and the attributes are the default ones, for every header and every
\* title, however long: what the buffer cuts is text and never a sequence.
THEOREM CallsAlwaysIndependent == ScreenSpec => []CallsIndependent
<1>1. ScreenInv => CallsIndependent
  <2> SUFFICES ASSUME ScreenInv, Idle PROVE pstate = "ESC" /\ attr = VTC_DEFAULT_ATTR
    BY DEF CallsIndependent
  <2>1. Known(Free)
    BY IdleKnown DEF ScreenInv, Idle
  <2> QED  BY <2>1, KnownFree
<1> QED  BY <1>1, ScreenAlwaysOnRoute, PTL

\* A character that is put, by any of main.c's output functions, finds the cursor
\* on the screen, although every reset_pointer takes it off: what MirrorFromStart
\* of ConsoleTermProofs asks of a program.
THEOREM PutsAlwaysOnScreen == ScreenSpec => []PrintsOnScreen
<1>1. ScreenInv => PrintsOnScreen
  <2> SUFFICES ASSUME ScreenInv, PutsNext PROVE OnScreen
    BY DEF PrintsOnScreen, OnScreen
  <2> DEFINE c == Head(out)
  <2>1. PICK a, e : Known(a) /\ Plays(a, out, e)
    BY DEF ScreenInv, OnRoute
  <2>2. PICK b : Step(a, c, b)
    BY <2>1, PlaysTail DEF PutsNext
  <2>3. /\ ParserShows(a.p) /\ DisplayShows(a.d) /\ c \notin {"\n", "\r", "\t", "BS"}
        /\ (pstate = "ESC" /\ c # "ESC") \/ (pstate = "BRACKET" /\ c # "[")
    BY <2>1 DEF Known, PutsNext
  <2> HIDE DEF c
  <2>4. pstate = a.p.ps
    BY <2>3 DEF ParserShows
  <2>5. ~ParserStep(a, c, b) /\ ~FinalStep(a, c, b)
    <3>1. Quiet.ps = "ESC" /\ Opened.ps = "BRACKET" /\ \A ix, v0, v1 : Param(ix, v0, v1).ps = "ATTR"
      BY DEF Quiet, Opened, Param, Parsing
    <3>2. ASSUME ParserStep(a, c, b) PROVE FALSE
      <4>1. \/ a.p = Quiet /\ c = "ESC"
            \/ a.p = Opened /\ c = "["
            \/ \E ix, v0, v1 : a.p = Param(ix, v0, v1)
        BY <3>2, Zenon DEF ParserStep
      <4>2. CASE a.p = Quiet /\ c = "ESC"
        BY <2>3, <2>4, <3>1, <4>2
      <4>3. CASE a.p = Opened /\ c = "["
        BY <2>3, <2>4, <3>1, <4>3
      <4>4. CASE \E ix, v0, v1 : a.p = Param(ix, v0, v1)
        <5>1. a.p.ps = "ATTR"
          BY <3>1, <4>4, Zenon
        <5> QED  BY <2>3, <2>4, <5>1
      <4> QED  BY <4>1, <4>2, <4>3, <4>4
    <3>3. ASSUME FinalStep(a, c, b) PROVE FALSE
      <4>1. \E ix, v0, v1 : a.p = Param(ix, v0, v1)
        BY <3>3 DEF FinalStep
      <4> QED  BY <2>3, <2>4, <3>1, <4>1
    <3> QED  BY <3>2, <3>3
  <2>6. PlainStep(a, c, b)
    BY <2>2, <2>5 DEF Step
  <2>7. \/ \E hue : a.d = Anywhere(hue)
        \/ \E hue, v, m : \E r, x \in Nat : a.d = Writing(hue, r, x, v, m)
    BY <2>3, <2>6 DEF PlainStep
  <2>8. ASSUME NEW hue, a.d = Anywhere(hue) PROVE OnScreen
    BY <2>3, <2>8, DisplayMeans
  <2>9. ASSUME NEW hue, NEW v, NEW m, NEW r \in Nat, NEW x \in Nat, a.d = Writing(hue, r, x, v, m)
        PROVE  OnScreen
    <3>1. InMenu(r, x, v, m)
      BY <2>3, <2>9, DisplayMeans
    <3> QED  BY <3>1, InMenuOn
  <2> QED  BY <2>7, <2>8, <2>9
<1> QED  BY <1>1, ScreenAlwaysOnRoute, PTL

\* After printUI the cells of the selected title are the highlighted ones, for
\* every menu whose lines fit the screen, even one that scrolls.
THEOREM MenuAlwaysLaidOut == ScreenSpec => []MenuLayout
<1>1. ScreenInv => MenuLayout
  <2> SUFFICES ASSUME ScreenInv, NEW sel \in 0..(Entries - 1), Idle, drawn = sel, MenuFits
               PROVE  Lit = { At(x, 3 + 2 * sel - Overhang) : x \in 0..(Shown(TitleLens[sel + 1]) - 1) } \cap Cells
    BY DEF MenuLayout
  <2> DEFINE r == 2 * Entries + FooterRows + 4
  <2>0. r \in Nat /\ sel \in Nat /\ sel # NoMenu /\ Entries \in Nat /\ FooterRows \in Nat
    BY MenuNumbers DEF NoMenu
  <2>1. Known(MenuEnd(sel))
    BY <2>0, IdleKnown DEF ScreenInv, Idle
  <2>2. InMenu(r, 0, 3 + 2 * sel, Shown(TitleLens[sel + 1]))
    BY <2>1, KnownLine DEF MenuEnd
  <2>3. Lit = LitOf(r, 3 + 2 * sel, Shown(TitleLens[sel + 1]))
    BY <2>2 DEF InMenu
  <2>4. Overhang = Gone(r)
    <3> DEFINE k == 2 * Entries + FooterRows + 5 - Height
    <3>1. k \in Int /\ (k > 0 <=> ~(r < Height)) /\ r - (Height - 1) = k
      BY <2>0, ConsoleSize
    <3>2. Overhang = Max({0, k})
      BY DEF Overhang
    <3> HIDE DEF k, r
    <3>3. Max({0, k}) = IF k > 0 THEN k ELSE 0
      BY <3>1, MaxZero
    <3> QED  BY <3>1, <3>2, <3>3 DEF Gone
  <2> DEFINE m == Shown(TitleLens[sel + 1])
             row == 3 + 2 * sel - Overhang
  <2>5. SUFFICES Lit = { At(x, row) : x \in 0..(m - 1) } \cap Cells
    OBVIOUS
  <2> DEFINE v == 3 + 2 * sel
  <2>6. row = v - Overhang /\ Lit = LitOf(r, v, m)
    <3>1. row = v - Overhang
      <4>1. Overhang \in Int
        BY <2>0, <2>4, GoneRows
      <4> QED  BY <2>0, <4>1
    <3>2. Lit = LitOf(r, v, m)
      BY <2>3
    <3> QED  BY <3>1, <3>2
  <2> HIDE DEF r, row, m, v
  <2>7. LitOf(r, v, m) = { At(x, v - Gone(r)) : x \in 0..(m - 1) } \cap Cells
    BY DEF LitOf
  <2> QED  BY <2>4, <2>6, <2>7
<1> QED  BY <1>1, ScreenAlwaysOnRoute, PTL
=============================================================================
