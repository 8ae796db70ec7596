------------------------------- MODULE MCText -------------------------------
(***************************************************************************)
(* Small instances of the three components that draw text, Font, Isdw and  *)
(* Pad, for TLC.  They share no state; a behaviour exercises one of them   *)
(* while the others stand still.                                           *)
(***************************************************************************)
EXTENDS Font, Isdw, Pad, SequencesExt

-----------------------------------------------------------------------------
(* Every font over six codes, glyphs in rising order *)

MCGlyphCodes == 1..7
FontOf(s) ==
  LET q == SetToSortSeq(s, <)
  IN  [n |-> Len(q), glyphs |-> [i \in 0..(Len(q) - 1) |-> q[i + 1]]]
MCTinyFonts == { FontOf(s) : s \in SUBSET (1..6) }

-----------------------------------------------------------------------------
(* The tables of isdw.c, and every table of up to three ranges over six codes *)

dwchars == <<
  <<\h1100, \h115f>>, <<\h11a3, \h11a7>>, <<\h11fa, \h11ff>>, <<\h2329, \h232a>>,
  <<\h2e80, \h2e99>>, <<\h2e9b, \h2ef3>>, <<\h2f00, \h2fd5>>, <<\h2ff0, \h2ffb>>,
  <<\h3000, \h3029>>, <<\h3030, \h303e>>, <<\h3041, \h3096>>, <<\h309b, \h30ff>>,
  <<\h3105, \h312d>>, <<\h3131, \h318e>>, <<\h3190, \h31b7>>, <<\h31c0, \h31e3>>,
  <<\h31f0, \h321e>>, <<\h3220, \h3247>>, <<\h3250, \h32fe>>, <<\h3300, \h4dbf>>,
  <<\h4e00, \ha48c>>, <<\ha490, \ha4c6>>, <<\ha960, \ha97c>>, <<\hac00, \hd7a3>>,
  <<\hd7b0, \hd7c6>>, <<\hd7cb, \hd7fb>>, <<\hf900, \hfaff>>, <<\hfe10, \hfe19>>,
  <<\hfe30, \hfe52>>, <<\hfe54, \hfe66>>, <<\hfe68, \hfe6b>>, <<\hff01, \hff60>>,
  <<\hffe0, \hffe6>>, <<\h1f200, \h1f200>>, <<\h1f210, \h1f231>>, <<\h1f240, \h1f248>>,
  <<\h20000, \h2ffff>>>>

zwchars == <<
  <<\h0300, \h036f>>, <<\h0483, \h0489>>, <<\h0591, \h05bd>>, <<\h05bf, \h05bf>>,
  <<\h05c1, \h05c2>>, <<\h05c4, \h05c5>>, <<\h05c7, \h05c7>>, <<\h0610, \h061a>>,
  <<\h064b, \h065e>>, <<\h0670, \h0670>>, <<\h06d6, \h06dc>>, <<\h06de, \h06e4>>,
  <<\h06e7, \h06e8>>, <<\h06ea, \h06ed>>, <<\h0711, \h0711>>, <<\h0730, \h074a>>,
  <<\h07a6, \h07b0>>, <<\h07eb, \h07f3>>, <<\h0816, \h0819>>, <<\h081b, \h0823>>,
  <<\h0825, \h0827>>, <<\h0829, \h082d>>, <<\h0900, \h0903>>, <<\h093c, \h093c>>,
  <<\h093e, \h094e>>, <<\h0951, \h0955>>, <<\h0962, \h0963>>, <<\h0981, \h0983>>,
  <<\h09bc, \h09bc>>, <<\h09be, \h09c4>>, <<\h09c7, \h09c8>>, <<\h09cb, \h09cd>>,
  <<\h09d7, \h09d7>>, <<\h09e2, \h09e3>>, <<\h0a01, \h0a03>>, <<\h0a3c, \h0a3c>>,
  <<\h0a3e, \h0a42>>, <<\h0a47, \h0a48>>, <<\h0a4b, \h0a4d>>, <<\h0a51, \h0a51>>,
  <<\h0a70, \h0a71>>, <<\h0a75, \h0a75>>, <<\h0a81, \h0a83>>, <<\h0abc, \h0abc>>,
  <<\h0abe, \h0ac5>>, <<\h0ac7, \h0ac9>>, <<\h0acb, \h0acd>>, <<\h0ae2, \h0ae3>>,
  <<\h0b01, \h0b03>>, <<\h0b3c, \h0b3c>>, <<\h0b3e, \h0b44>>, <<\h0b47, \h0b48>>,
  <<\h0b4b, \h0b4d>>, <<\h0b56, \h0b57>>, <<\h0b62, \h0b63>>, <<\h0b82, \h0b82>>,
  <<\h0bbe, \h0bc2>>, <<\h0bc6, \h0bc8>>, <<\h0bca, \h0bcd>>, <<\h0bd7, \h0bd7>>,
  <<\h0c01, \h0c03>>, <<\h0c3e, \h0c44>>, <<\h0c46, \h0c48>>, <<\h0c4a, \h0c4d>>,
  <<\h0c55, \h0c56>>, <<\h0c62, \h0c63>>, <<\h0c82, \h0c83>>, <<\h0cbc, \h0cbc>>,
  <<\h0cbe, \h0cc4>>, <<\h0cc6, \h0cc8>>, <<\h0cca, \h0ccd>>, <<\h0cd5, \h0cd6>>,
  <<\h0ce2, \h0ce3>>, <<\h0d02, \h0d03>>, <<\h0d3e, \h0d44>>, <<\h0d46, \h0d48>>,
  <<\h0d4a, \h0d4d>>, <<\h0d57, \h0d57>>, <<\h0d62, \h0d63>>, <<\h0d82, \h0d83>>,
  <<\h0dca, \h0dca>>, <<\h0dcf, \h0dd4>>, <<\h0dd6, \h0dd6>>, <<\h0dd8, \h0ddf>>,
  <<\h0df2, \h0df3>>, <<\h0e31, \h0e31>>, <<\h0e34, \h0e3a>>, <<\h0e47, \h0e4e>>,
  <<\h0eb1, \h0eb1>>, <<\h0eb4, \h0eb9>>, <<\h0ebb, \h0ebc>>, <<\h0ec8, \h0ecd>>,
  <<\h0f18, \h0f19>>, <<\h0f35, \h0f35>>, <<\h0f37, \h0f37>>, <<\h0f39, \h0f39>>,
  <<\h0f3e, \h0f3f>>, <<\h0f71, \h0f84>>, <<\h0f86, \h0f87>>, <<\h0f90, \h0f97>>,
  <<\h0f99, \h0fbc>>, <<\h0fc6, \h0fc6>>, <<\h102b, \h103e>>, <<\h1056, \h1059>>,
  <<\h105e, \h1060>>, <<\h1062, \h1064>>, <<\h1067, \h106d>>, <<\h1071, \h1074>>,
  <<\h1082, \h108d>>, <<\h108f, \h108f>>, <<\h109a, \h109d>>, <<\h135f, \h135f>>,
  <<\h1712, \h1714>>, <<\h1732, \h1734>>, <<\h1752, \h1753>>, <<\h1772, \h1773>>,
  <<\h17b6, \h17d3>>, <<\h17dd, \h17dd>>, <<\h180b, \h180d>>, <<\h18a9, \h18a9>>,
  <<\h1920, \h192b>>, <<\h1930, \h193b>>, <<\h19b0, \h19c0>>, <<\h19c8, \h19c9>>,
  <<\h1a17, \h1a1b>>, <<\h1a55, \h1a5e>>, <<\h1a60, \h1a7c>>, <<\h1a7f, \h1a7f>>,
  <<\h1b00, \h1b04>>, <<\h1b34, \h1b44>>, <<\h1b6b, \h1b73>>, <<\h1b80, \h1b82>>,
  <<\h1ba1, \h1baa>>, <<\h1c24, \h1c37>>, <<\h1cd0, \h1cd2>>, <<\h1cd4, \h1ce8>>,
  <<\h1ced, \h1ced>>, <<\h1cf2, \h1cf2>>, <<\h1dc0, \h1de6>>, <<\h1dfd, \h1dff>>,
  <<\h200b, \h200f>>, <<\h20d0, \h20f0>>, <<\h2cef, \h2cf1>>, <<\h2de0, \h2dff>>,
  <<\h302a, \h302f>>, <<\h3099, \h309a>>, <<\ha66f, \ha672>>, <<\ha67c, \ha67d>>,
  <<\ha6f0, \ha6f1>>, <<\ha802, \ha802>>, <<\ha806, \ha806>>, <<\ha80b, \ha80b>>,
  <<\ha823, \ha827>>, <<\ha880, \ha881>>, <<\ha8b4, \ha8c4>>, <<\ha8e0, \ha8f1>>,
  <<\ha926, \ha92d>>, <<\ha947, \ha953>>, <<\ha980, \ha983>>, <<\ha9b3, \ha9c0>>,
  <<\haa29, \haa36>>, <<\haa43, \haa43>>, <<\haa4c, \haa4d>>, <<\haa7b, \haa7b>>,
  <<\haab0, \haab0>>, <<\haab2, \haab4>>, <<\haab7, \haab8>>, <<\haabe, \haabf>>,
  <<\haac1, \haac1>>, <<\habe3, \habea>>, <<\habec, \habed>>, <<\hfb1e, \hfb1e>>,
  <<\hfe00, \hfe0f>>, <<\hfe20, \hfe26>>, <<\h101fd, \h101fd>>, <<\h10a01, \h10a03>>,
  <<\h10a05, \h10a06>>, <<\h10a0c, \h10a0f>>, <<\h10a38, \h10a3a>>, <<\h10a3f, \h10a3f>>,
  <<\h11080, \h11082>>, <<\h110b0, \h110ba>>, <<\h1d165, \h1d169>>, <<\h1d16d, \h1d172>>,
  <<\h1d17b, \h1d182>>, <<\h1d185, \h1d18b>>, <<\h1d1aa, \h1d1ad>>, <<\h1d242, \h1d244>>,
  <<\he0100, \he01ef>>>>

TableOf(s, from) ==
  [n |-> Len(s), from |-> from,
   lo |-> [i \in 0..(Len(s) - 1) |-> s[i + 1][1]],
   hi |-> [i \in 0..(Len(s) - 1) |-> s[i + 1][2]]]

MCRange == 0..5
Pairs == { p \in MCRange \X MCRange : p[1] <= p[2] }
Apart(s) == \A i \in 1..(Len(s) - 1) : s[i][2] < s[i + 1][1]
SmallTables ==
  { TableOf(s, 0) : s \in { q \in UNION { [1..k -> Pairs] : k \in 1..3 } : Apart(q) } }

MCTables == SmallTables \cup {TableOf(dwchars, \h1100), TableOf(zwchars, \h0300)}
\* The codes of the small tables, and the ends of the real ones.
MCWidthCodes == MCRange \cup {\h02ff, \h0300, \h1100, \h115f, \h2ffff, \h30000, \he01ef}

-----------------------------------------------------------------------------
(* A pad of one cell, a cache of two lists of two slots, three fonts *)

\* 0 is the empty cell; 1 and 3 share a list of the cache; 2 has no glyph in the
\* bold font, 3 only one in the italic one.
MCCodes == 0..3
MCPrintable == 1..3
MCFonts == 0 :> {1, 2} @@ 1 :> {1, 2, 3} @@ 2 :> {1}

Plain(n) == [c |-> n, b |-> FALSE, i |-> FALSE]
Bold(n) == [c |-> n, b |-> TRUE, i |-> FALSE]
Italic(n) == [c |-> n, b |-> FALSE, i |-> TRUE]
MCInks == {<<Plain(7), Plain(0)>>, <<Plain(7), Italic(7)>>, <<Bold(7), Plain(0)>>}

-----------------------------------------------------------------------------

VARIABLE part   \* the component that runs

textVars == <<fontVars, isdwVars, padVars, part>>

\* The others stand at one of their initial states.
TextInit ==
  /\ part \in {"font", "isdw", "pad"}
  /\ FontInit /\ (part # "font" => font.n = 0 /\ c = 1)
  /\ IsdwInit /\ (part # "isdw" => tab = TableOf(<<<<0, 0>>>>, 0) /\ wc = 0)
  /\ PadInit

TextNext ==
  /\ UNCHANGED part
  /\ \/ part = "font" /\ FontNext /\ UNCHANGED <<isdwVars, padVars>>
     \/ part = "isdw" /\ IsdwNext /\ UNCHANGED <<fontVars, padVars>>
     \/ part = "pad" /\ PadNext /\ UNCHANGED <<fontVars, isdwVars>>

TextSpec ==
  /\ TextInit /\ [][TextNext]_textVars
  /\ WF_fontVars(find_glyph) /\ WF_isdwVars(find)
=============================================================================
