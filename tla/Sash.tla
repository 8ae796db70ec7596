-------------------------------- MODULE Sash --------------------------------
(***************************************************************************)
(* The core of the shell (sash/sash.c): the files it reads commands from,  *)
(* its aliases, and the programs it runs.  lbml3rd uses it in two ways: as *)
(* a child process with the terminal as stdin ("shell", enter_shell), and  *)
(* inside its own process for one command line after the other ("entry",   *)
(* sash_execCommand), where the tables live on between the calls.          *)
(*                                                                         *)
(* A command line is a word and up to two arguments, "" being none.  Files *)
(* are read in portions of whole lines.  The process stops (wild) when it  *)
(* writes outside its tables or uses a closed FILE.                        *)
(***************************************************************************)
EXTENDS Integers, Sequences

CONSTANTS
  Words, Lines,   \* words, and the command lines that are typed and read
  Files, Text,    \* names of the files that can be sourced, and their lines
  Aliasrc,        \* name of the user's .aliasrc
  AliasAll,       \* the alias commands that the option -a stands for
  Magic,          \* words with characters that only /bin/sh understands
  BufLines,       \* lines that fit into the buffer of a FILE (BUFSIZ)
  MAX_SOURCE, ALIAS_ALLOC,
  IsPid1,         \* whether lbml3rd is the init process
  MaxStrays       \* bound: other children of the process

BuiltIns == {"alias", "aliasall", "unalias", "source", "exec", "exit"}

ASSUME SashSizes ==
  /\ MAX_SOURCE \in Nat \ {0} /\ ALIAS_ALLOC \in Nat \ {0} /\ BufLines \in Nat \ {0}
  /\ MaxStrays \in Nat /\ IsPid1 \in BOOLEAN
ASSUME SashWords ==
  /\ Lines \subseteq [cmd : Words, arg : Words \cup {""}, val : Words \cup {""}]
  /\ "" \notin Words /\ "stdin" \notin Files /\ Magic \cap BuiltIns = {}
  /\ Text \in [Files -> Seq(Lines)]
  /\ AliasAll \in Seq([cmd : {"alias"}, arg : Words, val : Words])

VARIABLES
  mode,          \* "shell" or "entry"
  pc,            \* what the process does next
  cur,           \* the command line in hand
  todo,          \* alias commands that do_aliasall has still to run
  frames,        \* the activations of readFile, with their FILE
  sourcefiles, sourceCount,
  aliasTable, aliasCap, aliasCount,   \* the table, its allocated size, its used part
  intFlag,
  child,         \* the program runCmd has started
  anyChild,      \* whether runCmd waits for any child
  strays, zombies,   \* other children of the process, running and ended
  struck,        \* history: an interrupt has come while the command in hand was run
  wild           \* history: the process has left its tables

srcVars   == <<frames, sourcefiles, sourceCount>>
aliasVars == <<aliasTable, aliasCap, aliasCount>>
childVars == <<child, anyChild, strays, zombies>>
sashVars  == <<mode, pc, cur, todo, srcVars, aliasVars, intFlag, childVars, struck, wild>>

Garbage == [name |-> "", value |-> ""]   \* an entry that must not be read
NoLine  == [cmd |-> "exit", arg |-> "", val |-> ""]

\* A FILE: the offset of its descriptor, the next buffered line and how many are
\* left in the buffer; line is the last one read.
Frame(name) == [name |-> name, off |-> 0, next |-> 0, left |-> 0, line |-> 0, open |-> TRUE]
Top    == frames[Len(frames)]
OnFile == Top.name # "stdin"

SashInit ==
  /\ mode \in {"shell", "entry"}
  /\ pc = IF mode = "shell" THEN "aliasall" ELSE "idle"
  /\ cur = NoLine
  /\ todo = IF mode = "shell" THEN AliasAll ELSE <<>>
  /\ frames = <<>> /\ sourcefiles = [i \in 0..(MAX_SOURCE - 1) |-> 0] /\ sourceCount = 0
  /\ aliasTable = [i \in {} |-> Garbage] /\ aliasCap = 0 /\ aliasCount = 0
  /\ intFlag = FALSE /\ child = "none" /\ anyChild = FALSE /\ strays = 0 /\ zombies = 0
  /\ struck = FALSE /\ wild = FALSE

\* Back from a command: to the loop of readFile, or to do_entry.
Returned(fs) == IF fs # <<>> THEN "top" ELSE IF mode = "shell" THEN "stdin" ELSE "idle"

-----------------------------------------------------------------------------
(* Aliases *)

Used == 0..(aliasCount - 1)
IsAlias(w) == \E i \in Used : aliasTable[i].name = w
findAlias(w) ==
  CHOOSE i \in Used : aliasTable[i].name = w /\ \A j \in 0..(i - 1) : aliasTable[j].name # w

\* Mutant: the test looks one entry ahead.
Grown_Ahead ==
  IF (aliasCount + 1) % ALIAS_ALLOC = 0 THEN aliasCount + ALIAS_ALLOC ELSE aliasCap

\* The table is allocated anew whenever the count is a multiple of ALIAS_ALLOC,
\* after unaliasing also to a smaller size.
Grown == IF aliasCount % ALIAS_ALLOC = 0 THEN aliasCount + ALIAS_ALLOC ELSE aliasCap
Resized(n) == [i \in 0..(n - 1) |-> IF i < aliasCap THEN aliasTable[i] ELSE Garbage]

SetValue(w, v) ==
  /\ aliasTable' = [aliasTable EXCEPT ![findAlias(w)].value = v]
  /\ UNCHANGED <<aliasCap, aliasCount, wild>>
AppendAlias(w, v) ==
  IF aliasCount >= Grown THEN wild' = TRUE /\ UNCHANGED aliasVars
  ELSE /\ aliasCap' = Grown
       /\ aliasTable' = [Resized(Grown) EXCEPT ![aliasCount] = [name |-> w, value |-> v]]
       /\ aliasCount' = aliasCount + 1
       /\ UNCHANGED wild
\* The value, or the larger table, or after it the name finds no memory.
NoMemory ==
  /\ \/ UNCHANGED <<aliasTable, aliasCap>>
     \/ aliasTable' = Resized(Grown) /\ aliasCap' = Grown
  /\ UNCHANGED <<aliasCount, wild>>

define(w, v) ==
  IF IsAlias(w) THEN SetValue(w, v) \/ UNCHANGED <<aliasVars, wild>>
  ELSE AppendAlias(w, v) \/ NoMemory

\* Without a value the command only prints.
do_alias ==
  IF cur.arg \notin {"", "alias"} /\ cur.val # "" THEN define(cur.arg, cur.val)
  ELSE UNCHANGED <<aliasVars, wild>>

\* Mutant: the hole is left in place.
do_unalias_Hole ==
  IF IsAlias(cur.arg)
  THEN /\ aliasCount' = aliasCount - 1
       /\ UNCHANGED <<aliasTable, aliasCap>>
  ELSE UNCHANGED aliasVars

\* The last entry takes the place of the one removed.
do_unalias ==
  IF IsAlias(cur.arg)
  THEN LET last == aliasCount - 1
       IN  /\ aliasTable' = [aliasTable EXCEPT ![findAlias(cur.arg)] = aliasTable[last],
                                               ![last] = Garbage]
           /\ aliasCount' = last
           /\ UNCHANGED aliasCap
  ELSE UNCHANGED aliasVars

-----------------------------------------------------------------------------
(* Source files *)

\* readFile up to its loop; without a name the file is stdin.
readFile(name) ==
  IF sourceCount >= MAX_SOURCE \/ (name # "stdin" /\ name \notin Files)
  THEN pc' = Returned(frames) /\ UNCHANGED <<srcVars, wild>>
  ELSE /\ frames' = Append(frames, Frame(name))
       /\ sourcefiles' = [i \in DOMAIN sourcefiles |->
                            IF i = sourceCount THEN Len(frames) + 1 ELSE sourcefiles[i]]
       /\ wild' = (sourceCount < 0)
       /\ sourceCount' = sourceCount + 1
       /\ pc' = "top"

LeaveFile ==
  LET rest == SubSeq(frames, 1, Len(frames) - 1)
  IN  /\ frames' = rest
      /\ sourceCount' = sourceCount - 1
      /\ pc' = IF OnFile THEN Returned(rest) ELSE "ended"
      /\ UNCHANGED sourcefiles

\* Mutant: leaving a file ends the interrupt.
TestInt_Once ==
  IF intFlag /\ OnFile THEN LeaveFile /\ intFlag' = FALSE
  ELSE pc' = "read" /\ UNCHANGED <<srcVars, intFlag>>

\* The top of readFile's loop, for a regular file and for the terminal.
TestInt ==
  IF intFlag /\ OnFile THEN LeaveFile /\ UNCHANGED intFlag
  ELSE pc' = "read" /\ UNCHANGED <<srcVars, intFlag>>

UseClosed == pc \in {"top", "read"} /\ ~Top.open

\* fgets: a line of the buffer, which is filled from the descriptor's offset.
Least(a, b) == IF a < b THEN a ELSE b
Filled(f) ==
  LET n == Least(BufLines, Len(Text[f.name]) - f.off)
  IN  IF f.left = 0 THEN [f EXCEPT !.off = @ + n, !.next = f.off + 1, !.left = n] ELSE f
Taken(f) == [f EXCEPT !.line = f.next, !.next = @ + 1, !.left = @ - 1]

ReadLine ==
  /\ pc = "read" /\ ~wild /\ Top.open
  /\ IF OnFile
     THEN LET f == Filled(Top)
          IN  IF f.left = 0 THEN LeaveFile /\ UNCHANGED cur
              ELSE /\ frames' = [frames EXCEPT ![Len(frames)] = Taken(f)]
                   /\ cur' = Text[f.name][f.next]
                   /\ pc' = "cmd"
                   /\ UNCHANGED <<sourcefiles, sourceCount>>
     ELSE \/ LeaveFile /\ UNCHANGED cur
          \/ cur' \in Lines /\ pc' = "cmd" /\ UNCHANGED srcVars
  /\ UNCHANGED <<mode, todo, aliasVars, intFlag, childVars, struck, wild>>

Check ==
  /\ pc = "top" /\ ~wild /\ Top.open
  /\ TestInt
  /\ struck' = (struck /\ OnFile)
  /\ UNCHANGED <<mode, cur, todo, aliasVars, childVars, wild>>

Dangle ==
  /\ UseClosed /\ ~wild
  /\ wild' = TRUE
  /\ UNCHANGED <<mode, pc, cur, todo, srcVars, aliasVars, intFlag, childVars, struck>>

-----------------------------------------------------------------------------
(* Start: -a, .aliasrc, stdin; or one command line of an entry *)

EnterLine ==
  /\ pc = "idle" /\ ~wild
  /\ cur' \in Lines /\ todo' = AliasAll /\ pc' = "aliasall"
  /\ struck' = FALSE
  /\ UNCHANGED <<mode, srcVars, aliasVars, intFlag, childVars, wild>>

\* For the option, and for the command of that name.
do_aliasall ==
  /\ pc \in {"aliasall", "doall"} /\ ~wild
  /\ IF todo # <<>>
     THEN /\ define(Head(todo).arg, Head(todo).val)
          /\ todo' = Tail(todo) /\ UNCHANGED pc
     ELSE /\ pc' = IF pc = "doall" THEN Returned(frames)
                   ELSE IF mode = "shell" THEN "start" ELSE "cmd"
          /\ UNCHANGED <<todo, aliasVars, wild>>
  /\ UNCHANGED <<mode, cur, srcVars, intFlag, childVars, struck>>

Start ==
  /\ pc = "start" /\ ~wild
  /\ readFile(Aliasrc)
  /\ UNCHANGED <<mode, cur, todo, aliasVars, intFlag, childVars, struck>>

ReadStdin ==
  /\ pc = "stdin" /\ ~wild
  /\ readFile("stdin")
  /\ UNCHANGED <<mode, cur, todo, aliasVars, intFlag, childVars, struck>>

-----------------------------------------------------------------------------
(* Commands *)

\* command: the flag is reset, then the first word is looked up, once.
command ==
  /\ pc = "cmd" /\ ~wild
  /\ intFlag' = FALSE
  /\ cur' = IF IsAlias(cur.cmd) THEN [cur EXCEPT !.cmd = aliasTable[findAlias(cur.cmd)].value]
            ELSE cur
  /\ pc' = "run"
  /\ UNCHANGED <<mode, todo, srcVars, aliasVars, childVars, struck, wild>>

Running(c) == pc = "run" /\ ~wild /\ cur.cmd = c
\* Too few or too many arguments.
Usage ==
  \/ cur.cmd \in {"source", "unalias"} /\ (cur.arg = "" \/ cur.val # "")
  \/ cur.cmd = "aliasall" /\ cur.arg # ""
  \/ cur.cmd = "exec" /\ cur.arg = ""
  \/ cur.cmd = "exit" /\ cur.val # ""

RunAlias ==
  /\ Running("alias") /\ do_alias
  /\ pc' = Returned(frames)
  /\ UNCHANGED <<mode, cur, todo, srcVars, intFlag, childVars, struck>>
RunAliasall ==
  /\ Running("aliasall") /\ ~Usage
  /\ todo' = AliasAll /\ pc' = "doall"
  /\ UNCHANGED <<mode, cur, srcVars, aliasVars, intFlag, childVars, struck, wild>>
RunUnalias ==
  /\ Running("unalias") /\ ~Usage /\ do_unalias
  /\ pc' = Returned(frames)
  /\ UNCHANGED <<mode, cur, todo, srcVars, intFlag, childVars, struck, wild>>
RunSource ==
  /\ Running("source") /\ ~Usage /\ readFile(cur.arg)
  /\ UNCHANGED <<mode, cur, todo, aliasVars, intFlag, childVars, struck>>
RunUsage ==
  /\ pc = "run" /\ ~wild /\ Usage
  /\ pc' = Returned(frames)
  /\ UNCHANGED <<mode, cur, todo, srcVars, aliasVars, intFlag, childVars, struck, wild>>

\* The files that the loop over sourcefiles closes.
Listed == { sourcefiles[i] : i \in 0..(sourceCount - 1) }

\* exec closes every source file before it knows whether the program can be
\* executed, and leaves sourceCount at -1.
do_exec ==
  /\ Running("exec") /\ ~Usage
  /\ \/ pc' = "replaced" /\ UNCHANGED srcVars
     \/ /\ frames' = [i \in DOMAIN frames |->
                        IF i \in Listed /\ frames[i].name # "stdin"
                        THEN [frames[i] EXCEPT !.open = FALSE] ELSE frames[i]]
        /\ sourceCount' = -1
        /\ pc' = Returned(frames)
        /\ UNCHANGED sourcefiles
  /\ UNCHANGED <<mode, cur, todo, aliasVars, intFlag, childVars, struck, wild>>

\* exit does nothing in the init process.
do_exit ==
  /\ Running("exit") /\ ~Usage
  /\ pc' = IF IsPid1 /\ mode = "entry" THEN Returned(frames) ELSE "exited"
  /\ UNCHANGED <<mode, cur, todo, srcVars, aliasVars, intFlag, childVars, struck, wild>>

\* trySystem waits by itself, with the interrupt ignored.
trySystem ==
  /\ pc = "run" /\ ~wild /\ cur.cmd \in Magic
  /\ pc' = Returned(frames)
  /\ UNCHANGED <<mode, cur, todo, srcVars, aliasVars, intFlag, childVars, struck, wild>>

\* fclose in the child: the part of the buffer that was not read is given back by
\* moving the offset, which the parent shares, and not before the start.
GivenBack(f) == IF f.off >= f.left THEN [f EXCEPT !.off = @ - f.left] ELSE f

\* runCmd: the child closes the source files and executes the program, while the
\* parent waits; or there is no child.
runCmd ==
  /\ pc = "run" /\ ~wild /\ cur.cmd \notin BuiltIns \cup Magic
  /\ \/ /\ child' = "running" /\ pc' = "wait"
        /\ frames' = [i \in DOMAIN frames |->
                        IF i \in Listed /\ frames[i].name # "stdin"
                        THEN GivenBack(frames[i]) ELSE frames[i]]
        /\ UNCHANGED <<sourcefiles, sourceCount>>
     \/ pc' = Returned(frames) /\ UNCHANGED <<child, srcVars>>
  /\ UNCHANGED <<mode, cur, todo, aliasVars, intFlag, anyChild, strays, zombies, struck, wild>>

\* The loop of waitpid: after EINTR its argument is -1 and any child will do; the
\* program is then left behind, running or ended.
WaitEnds ==
  /\ pc = "wait" /\ ~wild
  /\ \/ child = "ended" /\ UNCHANGED <<strays, zombies>>
     \/ /\ anyChild /\ zombies > 0
        /\ strays'  = strays + (IF child = "running" THEN 1 ELSE 0)
        /\ zombies' = zombies - (IF child = "running" THEN 1 ELSE 0)
  /\ child' = "none" /\ anyChild' = FALSE
  /\ pc' = Returned(frames)
  /\ UNCHANGED <<mode, cur, todo, srcVars, aliasVars, intFlag, struck, wild>>

-----------------------------------------------------------------------------
(* Signals and the other processes *)

\* lbml3rd's own handler lets waitpid return; it only sets going_exit, so that
\* intFlag, and the source files of the entry, do not see the interrupt.
InterruptEntry ==
  /\ mode = "entry" /\ pc = "wait"
  /\ anyChild' = TRUE /\ struck' = TRUE
  /\ UNCHANGED <<pc, intFlag, child, strays, zombies>>

\* catchInt and catchQuit, installed with signal(): system calls are restarted.
InterruptShell ==
  /\ mode = "shell" /\ pc \in {"top", "read", "cmd", "run", "doall", "wait"}
  /\ intFlag' = TRUE
  /\ struck' = (struck \/ pc \in {"run", "doall", "wait"})
  /\ UNCHANGED <<pc, childVars>>

Interrupt ==
  /\ ~wild /\ (InterruptEntry \/ InterruptShell)
  /\ UNCHANGED <<mode, cur, todo, srcVars, aliasVars, wild>>

ChildEnds ==
  /\ child = "running" /\ child' = "ended"
  /\ UNCHANGED <<mode, pc, cur, todo, srcVars, aliasVars, intFlag, anyChild, strays, zombies,
                 struck, wild>>
StrayEnds ==
  /\ strays > 0 /\ strays' = strays - 1 /\ zombies' = zombies + 1
  /\ UNCHANGED <<mode, pc, cur, todo, srcVars, aliasVars, intFlag, child, anyChild, struck, wild>>
\* A shell of the menu that an interrupt has left behind.
Abandon ==
  /\ pc = "idle" /\ strays + zombies < MaxStrays /\ strays' = strays + 1
  /\ UNCHANGED <<mode, pc, cur, todo, srcVars, aliasVars, intFlag, child, anyChild, zombies,
                 struck, wild>>

Stopped == (wild \/ pc \in {"ended", "exited", "replaced"}) /\ UNCHANGED sashVars

SashNext ==
  \/ EnterLine \/ do_aliasall \/ Start \/ ReadStdin \/ Check \/ ReadLine \/ Dangle
  \/ command \/ RunAlias \/ RunAliasall \/ RunUnalias \/ RunSource \/ RunUsage
  \/ do_exec \/ do_exit \/ trySystem \/ runCmd \/ WaitEnds
  \/ Interrupt \/ ChildEnds \/ StrayEnds \/ Abandon \/ Stopped
SashSpec == SashInit /\ [][SashNext]_sashVars

-----------------------------------------------------------------------------
(* Properties *)

\* However aliases are made, changed, removed and short of memory, the table with
\* its moving entries is a map that every command line goes through once.
Aliases == INSTANCE AliasMap WITH
  aliases <- [w \in { aliasTable[i].name : i \in Used } |-> aliasTable[findAlias(w)].value],
  Standard <- { AliasAll[i] : i \in 1..Len(AliasAll) },
  line <- cur,
  ready <- ~(pc = "cmd" \/ (pc = "aliasall" /\ mode = "entry"))
AliasesAreMap == Aliases!MapSpec

\* The tables are left, or a closed file is used, only after an exec that failed;
\* nesting of source files and growing and shrinking of the alias table never do it.
WildNeedsExec == [][~wild /\ wild' => sourceCount < 0]_sashVars

\* In the shell process an interrupt that comes while a command runs ends all source
\* files on the way back to the terminal: none of them gets to read another line.
\* Inside lbml3rd, whose handler leaves intFlag alone, they are read to their end.
InterruptUnwinds == mode = "shell" /\ struck /\ pc = "read" => ~OnFile

\* sash.1 on source: "Execute commands which are contained in the specified file
\* name": one line after the other.
LinesInOrder ==
  [][pc = "read" /\ pc' = "cmd" /\ OnFile => frames'[Len(frames)].line = Top.line + 1]_sashVars
=============================================================================
