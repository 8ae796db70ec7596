------------------------------ MODULE AliasMap ------------------------------
(***************************************************************************)
(* What the aliases of the shell promise: a map from words to words that   *)
(* the commands alias and unalias change, and that every command line goes *)
(* through once before it is run.                                          *)
(***************************************************************************)
CONSTANTS
  Lines,     \* command lines: [cmd, arg, val]
  Standard   \* the alias commands that the shell may run by itself

VARIABLES
  aliases,   \* the map
  line,      \* the command line in hand
  ready      \* whether the aliases have been applied to it

Value(word) == IF word \in DOMAIN aliases THEN aliases[word] ELSE word

MapInit == aliases = [w \in {} |-> w] /\ ready = TRUE

\* alias, unless it is short of memory.
Define(l) ==
  /\ l.cmd = "alias"
  /\ aliases' = [w \in DOMAIN aliases \cup {l.arg} |-> IF w = l.arg THEN l.val ELSE aliases[w]]
Remove(l) ==
  /\ l.cmd = "unalias"
  /\ aliases' = [w \in DOMAIN aliases \ {l.arg} |-> aliases[w]]

Change ==
  /\ (ready /\ (Define(line) \/ Remove(line))) \/ \E l \in Standard : Define(l)
  /\ UNCHANGED <<line, ready>>
Take ==
  /\ ready /\ ready' = FALSE
  /\ line' \in Lines
  /\ UNCHANGED aliases
Expand ==
  /\ ~ready /\ ready' = TRUE
  /\ line' = [line EXCEPT !.cmd = Value(@)]
  /\ UNCHANGED aliases

MapNext == Change \/ Take \/ Expand
mapVars == <<aliases, line, ready>>
MapSpec == MapInit /\ [][MapNext]_mapVars
=============================================================================
