---------------------------- MODULE TableLookup ----------------------------
(***************************************************************************)
(* What the terminal expects of its lookup tables (glyphs of a font, the   *)
(* ranges of wide and of combining characters): a question about a code is *)
(* answered once, and with the table's answer.                             *)
(***************************************************************************)
CONSTANTS Codes,    \* codes that are looked up
          Answers   \* possible answers

VARIABLES right,    \* the table: its answer for every code
          busy,     \* a question is being answered
          asked,    \* the code of the last question
          answer    \* the last answer

lkVars == <<right, busy, asked, answer>>

LkInit ==
  /\ right \in [Codes -> Answers]
  /\ busy = FALSE
  /\ asked \in Codes
  /\ answer \in Answers

Ask(c) ==
  /\ ~busy
  /\ busy' = TRUE
  /\ asked' = c
  /\ UNCHANGED <<right, answer>>

Reply ==
  /\ busy
  /\ busy' = FALSE
  /\ answer' = right[asked]
  /\ UNCHANGED <<right, asked>>

LkNext == Reply \/ \E c \in Codes : Ask(c)
LkSafe == LkInit /\ [][LkNext]_lkVars
LkSpec == LkSafe /\ WF_lkVars(Reply)
=============================================================================
