------------------------------- MODULE MCTerm -------------------------------
(* Small instances of Term for TLC. *)
EXTENDS Term

HalfOf == [c \in WideChars |-> "w2"]
NoCodes == [m \in {} |-> BGCOLOR]
BothWays == {1, -1}

Seq(name, args) == { [seq |-> name, a |-> n, b |-> 0] : n \in args }

\* Rows: the whole screen, its upper and its lower part and (margins in the wrong
\* order) its middle row as region, so that a part of the screen scrolls; counts
\* below, at and above the number of rows.
Region(a, b) == { [seq |-> "STBM", a |-> a, b |-> b] }
RowControls == {"LF", "RI", "RIS"}
RowCsi ==
  Region(0, 0) \cup Region(1, 2) \cup Region(2, 3) \cup Region(2, 1) \cup Seq("CUP", {1, 3})
    \cup Seq("IL", {1}) \cup Seq("DL", 1..2) \cup Seq("SU", {1, 2, 4}) \cup Seq("SD", {2, 4})
    \cup Seq("VPA", {2}) \cup Seq("ED", 0..2)

\* One row: every sequence that writes, erases, inserts or deletes cells.
LineControls == {"CR", "BS", "HT", "DECRC"}
LineCsi ==
  Seq("SGR", {7, 27}) \cup Seq("ED", 0..3) \cup Seq("EL", 0..3) \cup Seq("DCH", {1, 2})
    \cup Seq("ICH", {1, 2}) \cup Seq("ECH", {0, 2}) \cup Seq("CHA", {0, 2, 3})
    \cup Seq("CUF", {0}) \cup Seq("CUB", {2}) \cup [seq : {"CUP"}, a : {1}, b : {0, 4}]
=============================================================================
