------------------------------- MODULE MCSash -------------------------------
(* A small instance of Sash for TLC. *)
EXTENDS Sash

Line(c, a, v) == [cmd |-> c, arg |-> a, val |-> v]

MCWords == BuiltIns \cup {"prog", "magic", "a", "b", "f", "g"}
\* Aliases of a program, of the built-in that nests files and of exec; every
\* built-in, a program, a command for /bin/sh; f runs programs, g sources f and,
\* through an alias, itself.
MCLines ==
  { Line("alias", "a", "prog"), Line("alias", "a", "source"), Line("alias", "a", "exec"),
    Line("alias", "b", "prog"), Line("alias", "prog", "b"), Line("alias", "alias", "a"),
    Line("unalias", "a", ""), Line("unalias", "b", ""), Line("unalias", "prog", ""),
    Line("unalias", "", ""), Line("aliasall", "", ""), Line("aliasall", "b", ""),
    Line("source", "f", ""), Line("source", "g", ""), Line("a", "g", ""), Line("source", "b", ""),
    Line("exec", "b", ""), Line("exit", "", ""), Line("prog", "", ""), Line("magic", "", "") }
MCText ==
  [x \in {"f", "g"} |->
     IF x = "f" THEN [i \in 1..3 |-> Line("prog", "", "")]
     ELSE <<Line("source", "f", ""), Line("a", "g", "")>>]
MCAliasAll == <<Line("alias", "b", "prog")>>
=============================================================================
