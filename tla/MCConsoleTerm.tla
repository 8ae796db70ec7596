---------------------------- MODULE MCConsoleTerm ----------------------------
(* Small instances of ConsoleTerm for TLC. *)
EXTENDS ConsoleTerm

\* Every control and final character but that of SGR, whose one attribute within
\* the bounded values (bright) the terminal is not told; an ignored sequence, and the
\* digits that parameters need.  The blank stands for blanks, the rest for text.
MCControls == {"ESC", "[", ";", "H", "J", "K", "A", "\n", "\r", "\t", "BS", " "}
MCAlphabet == MCControls \cup {"0", "1", "2"}
=============================================================================
