-------------------------------- MODULE Isdw --------------------------------
(***************************************************************************)
(* libfbpads/isdw.c: whether a character is of double or of zero width,    *)
(* decided by a search in a table of ranges, one action per turn of find's *)
(* loop.                                                                   *)
(***************************************************************************)
EXTENDS Integers

CONSTANTS Tables,  \* dwchars and zwchars: n ranges lo[i]..hi[i], and the code
                   \* below which isdw and iszw do not look at the table
          WidthCodes   \* character codes that are looked up

\* What find needs of a table: ranges in rising order, apart from each other.
TableIsSorted(t) ==
  /\ t.n \in Nat \ {0}
  /\ t.from \in Int
  /\ t.lo \in [0..(t.n - 1) -> Int] /\ t.hi \in [0..(t.n - 1) -> Int]
  /\ \A i \in 0..(t.n - 1) : t.lo[i] <= t.hi[i]
  /\ \A i, j \in 0..(t.n - 1) : i < j => t.hi[i] < t.lo[j]
  /\ t.from <= t.lo[0]

ASSUME TablesSorted == \A t \in Tables : TableIsSorted(t)
ASSUME WidthCodesAreInts == WidthCodes \subseteq Int

VARIABLES tab,         \* the table of the caller, isdw or iszw
          wc, wl, wh,  \* find's argument c and the bounds l and h of its search
          wpc,         \* "idle", "called" or "loop"
          wret         \* the last result

isdwVars == <<tab, wc, wl, wh, wpc, wret>>

call_isdw(code) ==
  /\ wpc = "idle"
  /\ wpc' = "called" /\ wc' = code
  /\ UNCHANGED <<tab, wl, wh, wret>>

return(v) == wpc' = "idle" /\ wret' = v /\ UNCHANGED <<tab, wc, wl, wh>>

\* The test of isdw or iszw, and find's own before its loop.
below_table ==
  /\ wpc = "called" /\ (wc < tab.from \/ wc < tab.lo[0])
  /\ return(0)

enter_find ==
  /\ wpc = "called" /\ wc >= tab.from /\ wc >= tab.lo[0]
  /\ wpc' = "loop" /\ wl' = 0 /\ wh' = tab.n - 1
  /\ UNCHANGED <<tab, wc, wret>>

wm == (wh + wl) \div 2

isdw_hit == wpc = "loop" /\ wl <= wh /\ wc >= tab.lo[wm] /\ wc <= tab.hi[wm] /\ return(1)

isdw_lower ==
  /\ wpc = "loop" /\ wl <= wh /\ wc < tab.lo[wm]
  /\ wh' = wm - 1
  /\ UNCHANGED <<tab, wc, wl, wpc, wret>>

\* Mutant: the middle stays in the range.
isdw_upper_Keep ==
  /\ wpc = "loop" /\ wl <= wh /\ wc > tab.hi[wm] /\ wc >= tab.lo[wm]
  /\ wl' = wm
  /\ UNCHANGED <<tab, wc, wh, wpc, wret>>

isdw_upper ==
  /\ wpc = "loop" /\ wl <= wh /\ wc > tab.hi[wm] /\ wc >= tab.lo[wm]
  /\ wl' = wm + 1
  /\ UNCHANGED <<tab, wc, wh, wpc, wret>>

\* Mutant: a range of one element is not looked at.
isdw_miss_Early == wpc = "loop" /\ ~(wl < wh) /\ return(0)

isdw_miss == wpc = "loop" /\ ~(wl <= wh) /\ return(0)

IsdwInit ==
  /\ tab \in Tables
  /\ wc \in WidthCodes /\ wl = 0 /\ wh = 0
  /\ wpc = "idle" /\ wret = 0

find == below_table \/ enter_find \/ isdw_hit \/ isdw_lower \/ isdw_upper \/ isdw_miss

IsdwNext == find \/ \E code \in WidthCodes : call_isdw(code)
\* The loop is not left before it ends.
IsdwSpec == IsdwInit /\ [][IsdwNext]_isdwVars /\ WF_isdwVars(find)

-----------------------------------------------------------------------------
(* Properties *)

Inside(t, i, code) == t.lo[i] <= code /\ code <= t.hi[i]

InTable(t, code) == IF \E i \in 0..(t.n - 1) : Inside(t, i, code) THEN 1 ELSE 0

\* The bounds never leave the table by more than one and enclose every range that
\* the search may still have to find.
RangesEnclosed ==
  wpc = "loop" =>
    /\ wl \in 0..tab.n /\ wh \in -1..(tab.n - 1)
    /\ \A i \in 0..(tab.n - 1) : Inside(tab, i, wc) => wl <= i /\ i <= wh

WidthTable == INSTANCE TableLookup
            WITH Codes <- WidthCodes, Answers <- {0, 1},
                 right <- [code \in WidthCodes |-> InTable(tab, code)],
                 busy <- wpc # "idle", asked <- wc, answer <- wret

\* isdw and iszw answer each call with whether the character is in their table.
FindsWidth == WidthTable!LkSafe
\* ... and the answer comes: the loop ends.
WidthEnds == wpc # "idle" ~> wpc = "idle"
=============================================================================
