--------------------------- MODULE MCMenuScreen ---------------------------
(* A small instance of MenuScreen for TLC. *)
EXTENDS MenuScreen

\* The second title is wider than the screen, and cut by the buffer.
MCTitleLens == <<3, 9>>
=============================================================================
