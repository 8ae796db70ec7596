----------------------------- MODULE SashProofs -----------------------------
(***************************************************************************)
(* What the shell's core keeps for every set of command lines, files and   *)
(* aliases and every size of its tables.                                   *)
(***************************************************************************)
EXTENDS Sash, TLAPS

-----------------------------------------------------------------------------
(* Interrupts *)

\* While an interrupt is pending the shell is on its way back: it is not about
\* to read, expand or accept a command line, and its flag is still set.
Pending ==
  mode = "shell" /\ struck =>
    intFlag = TRUE /\ pc \notin {"read", "cmd", "aliasall", "idle"}

LEMMA PendingInit == SashInit => Pending
BY DEF SashInit, Pending

LEMMA PendingNext == Pending /\ [SashNext]_sashVars => Pending'
<1> SUFFICES ASSUME Pending, [SashNext]_sashVars PROVE Pending'
  OBVIOUS
<1> USE DEF Pending
<1>1. CASE UNCHANGED sashVars
  BY <1>1 DEF sashVars
<1>2. CASE EnterLine
  BY <1>2 DEF EnterLine
<1>3. CASE do_aliasall
  BY <1>3 DEF do_aliasall, Returned
<1>4. CASE Start
  BY <1>4 DEF Start, readFile, Returned
<1>5. CASE ReadStdin
  BY <1>5 DEF ReadStdin, readFile, Returned
<1>6. CASE Check
  BY <1>6 DEF Check, TestInt, LeaveFile, Returned
<1>7. CASE ReadLine
  BY <1>7 DEF ReadLine
<1>8. CASE Dangle
  BY <1>8 DEF Dangle
<1>9. CASE command
  BY <1>9 DEF command
<1>10. CASE RunAlias \/ RunAliasall \/ RunUnalias \/ RunUsage
  BY <1>10 DEF RunAlias, RunAliasall, RunUnalias, RunUsage, Returned
<1>11. CASE RunSource
  BY <1>11 DEF RunSource, Running, readFile, Returned
<1>12. CASE do_exec \/ do_exit \/ trySystem
  BY <1>12 DEF do_exec, do_exit, trySystem, Returned
<1>13. CASE runCmd
  BY <1>13 DEF runCmd, Returned
<1>14. CASE WaitEnds
  BY <1>14 DEF WaitEnds, Returned
<1>15. CASE Interrupt
  BY <1>15 DEF Interrupt, InterruptEntry, InterruptShell
<1>16. CASE ChildEnds \/ StrayEnds \/ Abandon
  BY <1>16 DEF ChildEnds, StrayEnds, Abandon
<1>17. CASE Stopped
  BY <1>17 DEF Stopped, sashVars
<1> QED
  BY <1>1, <1>2, <1>3, <1>4, <1>5, <1>6, <1>7, <1>8, <1>9, <1>10, <1>11, <1>12, <1>13, <1>14,
     <1>15, <1>16, <1>17 DEF SashNext

\* However deep source files are nested, an interrupt during a command ends them
\* all before another line is read (intFlag in sash.c).
THEOREM InterruptAlwaysUnwinds == SashSpec => []InterruptUnwinds
<1>1. Pending => InterruptUnwinds
  BY DEF Pending, InterruptUnwinds
<1> QED
  BY <1>1, PendingInit, PendingNext, PTL DEF SashSpec

-----------------------------------------------------------------------------
(* The tables *)

\* A FILE's buffered lines are lines of its text.
Buffered(f) ==
  /\ f.off \in 0..Len(Text[f.name])
  /\ f.left > 0 => f.next >= 1 /\ f.next + f.left <= Len(Text[f.name]) + 1
FrameSet ==
  { f \in [name : Files \cup {"stdin"}, off : Int, next : Int, left : Nat, line : Int,
           open : BOOLEAN] : f.name # "stdin" => Buffered(f) }

\* sourceCount counts the activations of readFile, until an exec has failed.
FilesInv ==
  /\ frames \in Seq(FrameSet) /\ sourceCount \in Int
  /\ ~wild /\ sourceCount >= 0 =>
       sourceCount = Len(frames) /\ \A i \in 1..Len(frames) : frames[i].open
  /\ pc \in {"top", "read"} => frames # <<>>

\* The table has room up to a multiple of ALIAS_ALLOC.
RoomInv ==
  /\ aliasCap \in Nat /\ aliasCount \in 0..aliasCap
  /\ aliasCap % ALIAS_ALLOC = 0

LEMMA MultipleNext ==
  ASSUME NEW n \in Nat, n % ALIAS_ALLOC = 0 PROVE (n + ALIAS_ALLOC) % ALIAS_ALLOC = 0
<1> ALIAS_ALLOC \in Nat \ {0}
  BY SashSizes
<1> DEFINE q == n \div ALIAS_ALLOC
<1>1. n = ALIAS_ALLOC * q + (n % ALIAS_ALLOC) /\ q \in Nat
  OBVIOUS
<1>2. n + ALIAS_ALLOC = ALIAS_ALLOC * (q + 1) /\ q + 1 \in Nat
  BY <1>1
<1>3. ASSUME NEW k \in Nat PROVE (ALIAS_ALLOC * k) % ALIAS_ALLOC = 0
  OBVIOUS
<1> QED
  BY <1>2, <1>3

\* There is always room for one more alias.
LEMMA GrownHasRoom ==
  ASSUME RoomInv
  PROVE  /\ Grown \in Nat /\ aliasCount < Grown
         /\ Grown % ALIAS_ALLOC = 0
<1> ALIAS_ALLOC \in Nat \ {0}
  BY SashSizes
<1>1. CASE aliasCount % ALIAS_ALLOC = 0
  <2>1. Grown = aliasCount + ALIAS_ALLOC /\ aliasCount \in Nat
    BY <1>1 DEF RoomInv, Grown
  <2>2. (aliasCount + ALIAS_ALLOC) % ALIAS_ALLOC = 0
    BY <1>1, <2>1, MultipleNext
  <2>3. aliasCount + ALIAS_ALLOC \in Nat /\ aliasCount < aliasCount + ALIAS_ALLOC
    BY <2>1
  <2> QED
    BY <2>1, <2>2, <2>3
<1>2. CASE aliasCount % ALIAS_ALLOC # 0
  <2>1. aliasCount # aliasCap
    BY <1>2 DEF RoomInv
  <2> QED
    BY <1>2, <2>1 DEF RoomInv, Grown
<1> QED
  BY <1>1, <1>2

LEMMA RoomDefine ==
  ASSUME RoomInv, NEW w, NEW v, define(w, v)
  PROVE  RoomInv' /\ UNCHANGED wild
<1>1. CASE UNCHANGED <<aliasVars, wild>>
  BY <1>1 DEF aliasVars, RoomInv
<1>2. CASE SetValue(w, v)
  BY <1>2 DEF SetValue, RoomInv
<1>3. CASE AppendAlias(w, v)
  BY <1>3, GrownHasRoom DEF AppendAlias, RoomInv
<1>4. CASE NoMemory
  BY <1>4, GrownHasRoom DEF NoMemory, RoomInv
<1> QED
  BY <1>1, <1>2, <1>3, <1>4 DEF define

\* Three operations change the table.
LEMMA AliasesTouched ==
  ASSUME [SashNext]_sashVars
  PROVE  do_aliasall \/ RunAlias \/ RunUnalias \/ UNCHANGED aliasVars
<1>1. CASE UNCHANGED sashVars \/ Stopped
  BY <1>1 DEF sashVars, Stopped
<1>2. CASE EnterLine \/ Start \/ ReadStdin \/ Check \/ ReadLine \/ Dangle
  BY <1>2 DEF EnterLine, Start, ReadStdin, Check, ReadLine, Dangle
<1>3. CASE command \/ RunAliasall \/ RunSource \/ RunUsage
  BY <1>3 DEF command, RunAliasall, RunSource, RunUsage
<1>4. CASE do_exec \/ do_exit \/ trySystem \/ runCmd \/ WaitEnds
  BY <1>4 DEF do_exec, do_exit, trySystem, runCmd, WaitEnds
<1>5. CASE Interrupt \/ ChildEnds \/ StrayEnds \/ Abandon
  BY <1>5 DEF Interrupt, ChildEnds, StrayEnds, Abandon
<1> QED
  BY <1>1, <1>2, <1>3, <1>4, <1>5 DEF SashNext

LEMMA RoomNext ==
  ASSUME RoomInv, [SashNext]_sashVars PROVE RoomInv'
<1>1. CASE do_aliasall
  <2>1. CASE todo # <<>>
    BY <1>1, <2>1, RoomDefine DEF do_aliasall
  <2>2. CASE todo = <<>>
    BY <1>1, <2>2 DEF do_aliasall, aliasVars, RoomInv
  <2> QED
    BY <2>1, <2>2
<1>2. CASE RunAlias
  BY <1>2, RoomDefine DEF RunAlias, do_alias, aliasVars, RoomInv
<1>3. CASE RunUnalias
  <2>1. CASE IsAlias(cur.arg)
    BY <1>3, <2>1 DEF RunUnalias, do_unalias, IsAlias, Used, RoomInv
  <2>2. CASE ~IsAlias(cur.arg)
    BY <1>3, <2>2 DEF RunUnalias, do_unalias, aliasVars, RoomInv
  <2> QED
    BY <2>1, <2>2
<1>4. CASE UNCHANGED aliasVars
  BY <1>4 DEF aliasVars, RoomInv
<1> QED
  BY <1>1, <1>2, <1>3, <1>4, AliasesTouched

-----------------------------------------------------------------------------
(* The files *)

LEMMA FilledFrame ==
  ASSUME NEW f \in FrameSet, f.name # "stdin"
  PROVE  /\ Filled(f) \in FrameSet
         /\ Filled(f).name = f.name /\ Filled(f).open = f.open
<1> f.name \in Files /\ Text[f.name] \in Seq(Lines) /\ BufLines \in Nat \ {0}
  BY SashSizes, SashWords DEF FrameSet
<1> DEFINE size == Len(Text[f.name])
           n == Least(BufLines, size - f.off)
<1> size \in Nat
  OBVIOUS
<1>1. f.off \in 0..size
  BY DEF FrameSet, Buffered
<1>2. n \in Nat /\ f.off + n <= size
  BY <1>1 DEF Least
<1> HIDE DEF size, n
<1>3. CASE f.left = 0
  <2>1. Filled(f) = [f EXCEPT !.off = @ + n, !.next = f.off + 1, !.left = n]
    BY <1>3 DEF Filled, n, size
  <2>2. f \in [name : Files \cup {"stdin"}, off : Int, next : Int, left : Nat, line : Int,
               open : BOOLEAN]
    BY DEF FrameSet
  <2>3. Filled(f) \in [name : Files \cup {"stdin"}, off : Int, next : Int, left : Nat,
                       line : Int, open : BOOLEAN]
    <3>1. f.off + n \in Int /\ f.off + 1 \in Int
      BY <2>2, <1>2
    <3>2. Filled(f) = [name |-> f.name, off |-> f.off + n, next |-> f.off + 1, left |-> n,
                       line |-> f.line, open |-> f.open]
      BY <2>1, <2>2
    <3> QED
      BY <2>2, <1>2, <3>1, <3>2
  <2>4. /\ Filled(f).name = f.name /\ Filled(f).open = f.open /\ Filled(f).off = f.off + n
        /\ Filled(f).next = f.off + 1 /\ Filled(f).left = n
    BY <2>1, <2>2
  <2>5. Buffered(Filled(f))
    BY <2>4, <1>1, <1>2 DEF Buffered, size
  <2> QED
    BY <2>3, <2>4, <2>5 DEF FrameSet
<1>4. CASE f.left # 0
  BY <1>4 DEF Filled
<1> QED
  BY <1>3, <1>4

LEMMA TakenFrame ==
  ASSUME NEW f \in FrameSet, f.name # "stdin", f.left # 0
  PROVE  /\ Taken(f) \in FrameSet /\ Taken(f).open = f.open
         /\ Text[f.name][f.next] \in Lines
<1> f.name \in Files /\ Text[f.name] \in Seq(Lines)
  BY SashWords DEF FrameSet
<1>1. f \in [name : Files \cup {"stdin"}, off : Int, next : Int, left : Nat, line : Int,
             open : BOOLEAN]
  BY DEF FrameSet
<1>2. Buffered(f)
  BY DEF FrameSet
<1>3. Taken(f) \in [name : Files \cup {"stdin"}, off : Int, next : Int, left : Nat,
                    line : Int, open : BOOLEAN]
  <2>1. f.next + 1 \in Int /\ f.left - 1 \in Nat
    BY <1>1
  <2>2. Taken(f) = [name |-> f.name, off |-> f.off, next |-> f.next + 1, left |-> f.left - 1,
                    line |-> f.next, open |-> f.open]
    <3>1. Taken(f) = [f EXCEPT !.line = f.next, !.next = f.next + 1, !.left = f.left - 1]
      BY DEF Taken
    <3>2. f = [name |-> f.name, off |-> f.off, next |-> f.next, left |-> f.left,
               line |-> f.line, open |-> f.open]
      BY <1>1
    <3> QED
      BY <3>1, <3>2
  <2>3. f.name \in Files \cup {"stdin"} /\ f.off \in Int /\ f.next \in Int /\ f.open \in BOOLEAN
    BY <1>1
  <2> QED
    BY <2>1, <2>2, <2>3
<1>4. /\ Taken(f).name = f.name /\ Taken(f).open = f.open /\ Taken(f).off = f.off
      /\ Taken(f).next = f.next + 1 /\ Taken(f).left = f.left - 1
  BY <1>1 DEF Taken
<1>5. Buffered(Taken(f))
  BY <1>1, <1>2, <1>4 DEF Buffered
<1>6. f.next \in 1..Len(Text[f.name])
  BY <1>1, <1>2 DEF Buffered
<1> QED
  BY <1>3, <1>4, <1>5, <1>6 DEF FrameSet

LEMMA GivenBackFrame ==
  ASSUME NEW f \in FrameSet
  PROVE  GivenBack(f) \in FrameSet /\ GivenBack(f).open = f.open
<1>1. f \in [name : Files \cup {"stdin"}, off : Int, next : Int, left : Nat, line : Int,
             open : BOOLEAN]
  BY DEF FrameSet
<1>2. CASE f.off >= f.left
  <2> DEFINE g == [f EXCEPT !.off = @ - f.left]
  <2>1. GivenBack(f) = g
    BY <1>2 DEF GivenBack
  <2>2. g \in [name : Files \cup {"stdin"}, off : Int, next : Int, left : Nat, line : Int,
               open : BOOLEAN]
    BY <1>1
  <2>3. /\ g.name = f.name /\ g.open = f.open /\ g.off = f.off - f.left
        /\ g.next = f.next /\ g.left = f.left
    BY <1>1
  <2> HIDE DEF g
  <2>4. ASSUME f.name # "stdin" PROVE Buffered(g)
    <3> Text[f.name] \in Seq(Lines)
      BY <1>1, <2>4, SashWords
    <3>1. Buffered(f)
      BY <2>4 DEF FrameSet
    <3> QED
      BY <1>1, <1>2, <2>3, <3>1 DEF Buffered
  <2> QED
    BY <2>1, <2>2, <2>3, <2>4 DEF FrameSet
<1>3. CASE ~(f.off >= f.left)
  BY <1>3 DEF GivenBack
<1> QED
  BY <1>2, <1>3

\* A line that is read is a command line of the terminal or of a file.
LEMMA ReadsLines ==
  ASSUME FilesInv, ReadLine
  PROVE  (LeaveFile /\ cur' = cur) \/ (pc' = "cmd" /\ cur' \in Lines)
<1>1. CASE ~OnFile
  BY <1>1 DEF ReadLine
<1>2. CASE OnFile
  <2>1. pc = "read" /\ frames # <<>> /\ frames \in Seq(FrameSet)
    BY DEF ReadLine, FilesInv
  <2>2. Top \in FrameSet /\ Top.name # "stdin"
    BY <1>2, <2>1 DEF Top, OnFile
  <2>3. Filled(Top) \in FrameSet /\ Filled(Top).name # "stdin"
    BY <2>2, FilledFrame
  <2>4. CASE Filled(Top).left = 0
    BY <1>2, <2>4 DEF ReadLine
  <2>5. CASE Filled(Top).left # 0
    <3>1. Text[Filled(Top).name][Filled(Top).next] \in Lines
      BY <2>3, <2>5, TakenFrame
    <3> QED
      BY <1>2, <2>5, <3>1 DEF ReadLine
  <2> QED
    BY <2>4, <2>5
<1> QED
  BY <1>1, <1>2

LEMMA FilesReadFile ==
  ASSUME FilesInv, ~wild, NEW name, readFile(name) PROVE FilesInv'
<1>1. CASE sourceCount >= MAX_SOURCE \/ (name # "stdin" /\ name \notin Files)
  BY <1>1 DEF readFile, FilesInv, srcVars, Returned
<1>2. CASE ~(sourceCount >= MAX_SOURCE \/ (name # "stdin" /\ name \notin Files))
  <2>1. /\ frames' = Append(frames, Frame(name)) /\ sourceCount' = sourceCount + 1
        /\ wild' = (sourceCount < 0) /\ pc' = "top"
    BY <1>2 DEF readFile
  <2>2. Frame(name) \in FrameSet /\ Frame(name).open
    <3>a. name # "stdin" => Text[name] \in Seq(Lines)
      BY <1>2, SashWords
    <3>1. name # "stdin" => Len(Text[name]) \in Nat
      BY <3>a
    <3> QED
      BY <1>2, <3>1 DEF Frame, FrameSet, Buffered
  <2> HIDE DEF FrameSet
  <2>3. /\ frames' \in Seq(FrameSet) /\ Len(frames') = Len(frames) + 1 /\ frames' # <<>>
        /\ \A i \in 1..Len(frames) : frames'[i] = frames[i]
        /\ frames'[Len(frames) + 1] = Frame(name)
    BY <2>1, <2>2 DEF FilesInv
  <2>4. CASE sourceCount < 0
    <3>1. wild'
      BY <2>1, <2>4
    <3>2. sourceCount' \in Int
      BY <2>1 DEF FilesInv
    <3> QED
      BY <2>3, <3>1, <3>2 DEF FilesInv
  <2>5. CASE ~(sourceCount < 0)
    <3>1. sourceCount = Len(frames) /\ \A i \in 1..Len(frames) : frames[i].open
      BY <2>5 DEF FilesInv
    <3>2. Len(frames) \in Nat
      BY DEF FilesInv
    <3>3. \A i \in 1..Len(frames') : frames'[i].open
      BY <2>2, <2>3, <3>1, <3>2
    <3> QED
      BY <2>1, <2>3, <3>1, <3>2, <3>3 DEF FilesInv
  <2> QED
    BY <2>4, <2>5
<1> QED
  BY <1>1, <1>2

LEMMA FilesLeave ==
  ASSUME FilesInv, ~wild, wild' = wild, pc \in {"top", "read"}, LeaveFile PROVE FilesInv'
<1>1. frames # <<>> /\ frames \in Seq(FrameSet)
  BY DEF FilesInv
<1> DEFINE rest == SubSeq(frames, 1, Len(frames) - 1)
<1>2. /\ rest \in Seq(FrameSet) /\ Len(rest) = Len(frames) - 1
      /\ \A i \in 1..Len(rest) : rest[i] = frames[i]
  <2>1. Len(frames) \in Nat \ {0}
    BY <1>1
  <2>2. ASSUME NEW s \in Seq(FrameSet), NEW n \in Nat, n <= Len(s)
        PROVE  /\ SubSeq(s, 1, n) \in Seq(FrameSet) /\ Len(SubSeq(s, 1, n)) = n
               /\ \A i \in 1..n : SubSeq(s, 1, n)[i] = s[i]
    BY <2>2
  <2>3. Len(frames) - 1 \in Nat /\ Len(frames) - 1 <= Len(frames)
    BY <2>1
  <2>4. /\ rest \in Seq(FrameSet) /\ Len(rest) = Len(frames) - 1
        /\ \A i \in 1..(Len(frames) - 1) : rest[i] = frames[i]
    BY <1>1, <2>2, <2>3
  <2> QED
    BY <2>4
<1>3. frames' = rest /\ sourceCount' = sourceCount - 1 /\ pc' \in {Returned(rest), "ended"}
  BY DEF LeaveFile
<1>4. pc' \in {"top", "read"} => frames' # <<>>
  BY <1>3 DEF Returned
<1> HIDE DEF rest
<1> QED
  BY <1>2, <1>3, <1>4 DEF FilesInv

\* The frames with one step's change of each of them.
LEMMA FilesEach ==
  ASSUME FilesInv, ~wild, wild' = wild, DOMAIN frames' = DOMAIN frames,
         frames' = [i \in DOMAIN frames |-> frames'[i]],
         \A i \in DOMAIN frames : frames'[i] \in FrameSet,
         sourceCount' \in Int,
         sourceCount' >= 0 =>
           /\ sourceCount' = sourceCount
           /\ \A i \in DOMAIN frames : frames'[i].open = frames[i].open,
         pc' \in {"top", "read"} => frames # <<>>
  PROVE  FilesInv'
<1>1. frames' \in Seq(FrameSet) /\ Len(frames') = Len(frames) /\ DOMAIN frames = 1..Len(frames)
  BY DEF FilesInv
<1> QED
  BY <1>1 DEF FilesInv

LEMMA FilesNext ==
  ASSUME FilesInv, [SashNext]_sashVars, RoomInv PROVE FilesInv'
<1> DOMAIN frames = 1..Len(frames) /\ frames \in Seq(FrameSet)
  BY DEF FilesInv
<1>1. CASE UNCHANGED <<frames, sourceCount, pc, wild>>
  BY <1>1 DEF FilesInv
<1>2. CASE EnterLine \/ command
  BY <1>2 DEF EnterLine, command, srcVars, FilesInv
<1>3. CASE do_aliasall
  <2>1. UNCHANGED <<frames, sourceCount, wild>>
    BY <1>3, RoomDefine DEF do_aliasall, srcVars
  <2>2. pc' \in {"top", "read"} => frames # <<>> \/ pc' = pc
    BY <1>3 DEF do_aliasall, Returned
  <2> QED
    BY <2>1, <2>2 DEF FilesInv
<1>4. CASE Start
  BY <1>4, FilesReadFile DEF Start
<1>5. CASE ReadStdin
  BY <1>5, FilesReadFile DEF ReadStdin
<1>6. CASE RunSource
  BY <1>6, FilesReadFile DEF RunSource, Running
<1>7. CASE Check
  <2>1. ~wild /\ wild' = wild /\ pc \in {"top", "read"}
    BY <1>7 DEF Check
  <2>2. CASE LeaveFile
    BY <2>1, <2>2, FilesLeave
  <2>3. CASE UNCHANGED srcVars
    BY <2>1, <2>3 DEF srcVars, FilesInv
  <2> QED
    BY <1>7, <2>2, <2>3 DEF Check, TestInt
<1>8. CASE ReadLine
  <2>1. ~wild /\ wild' = wild /\ pc \in {"top", "read"}
    BY <1>8 DEF ReadLine
  <2>2. CASE LeaveFile
    BY <2>1, <2>2, FilesLeave
  <2>3. CASE UNCHANGED srcVars /\ pc' = "cmd"
    BY <2>1, <2>3 DEF srcVars, FilesInv
  <2>4. CASE /\ OnFile /\ Filled(Top).left # 0
             /\ frames' = [frames EXCEPT ![Len(frames)] = Taken(Filled(Top))]
             /\ sourceCount' = sourceCount /\ pc' = "cmd"
    <3>a. frames # <<>>
      BY <2>1 DEF FilesInv
    <3>1. Top \in FrameSet /\ Len(frames) \in DOMAIN frames
      BY <3>a DEF Top
    <3>2. Taken(Filled(Top)) \in FrameSet /\ Taken(Filled(Top)).open = Top.open
      BY <2>4, <3>1, FilledFrame, TakenFrame DEF OnFile
    <3> HIDE DEF FrameSet
    <3>3. /\ \A i \in DOMAIN frames : frames'[i] \in FrameSet /\ frames'[i].open = frames[i].open
          /\ DOMAIN frames' = DOMAIN frames
      BY <2>4, <3>1, <3>2 DEF Top
    <3>4. frames' = [i \in DOMAIN frames |-> frames'[i]]
      BY <2>4
    <3>5. sourceCount' \in Int
      BY <2>4 DEF FilesInv
    <3> QED
      BY <2>1, <2>4, <3>3, <3>4, <3>5, FilesEach
  <2> QED
    BY <1>8, <2>2, <2>3, <2>4 DEF ReadLine
<1>9. CASE Dangle
  BY <1>9 DEF Dangle, srcVars, FilesInv
<1>10. CASE RunAlias
  <2>1. UNCHANGED <<frames, sourceCount, wild>>
    BY <1>10, RoomDefine DEF RunAlias, do_alias, srcVars
  <2> QED
    BY <1>10, <2>1 DEF RunAlias, FilesInv, Returned
<1>11. CASE RunAliasall \/ RunUnalias \/ RunUsage \/ trySystem
  BY <1>11 DEF RunAliasall, RunUnalias, RunUsage, trySystem, srcVars, FilesInv, Returned
<1>12. CASE do_exit
  BY <1>12 DEF do_exit, srcVars, FilesInv, Returned
<1>13. CASE WaitEnds
  BY <1>13 DEF WaitEnds, srcVars, FilesInv, Returned
<1>14. CASE do_exec
  <2>1. CASE UNCHANGED srcVars /\ pc' = "replaced"
    BY <1>14, <2>1 DEF do_exec, srcVars, FilesInv
  <2>2. CASE /\ frames' = [i \in DOMAIN frames |->
                             IF i \in Listed /\ frames[i].name # "stdin"
                             THEN [frames[i] EXCEPT !.open = FALSE] ELSE frames[i]]
             /\ sourceCount' = -1
             /\ pc' = Returned(frames)
    <3>1. ASSUME NEW f \in FrameSet PROVE [f EXCEPT !.open = FALSE] \in FrameSet
      BY DEF FrameSet, Buffered
    <3>2. \A i \in DOMAIN frames : frames'[i] \in FrameSet
      BY <2>2, <3>1
    <3>3. DOMAIN frames' = DOMAIN frames /\ frames' = [i \in DOMAIN frames |-> frames'[i]]
      BY <2>2
    <3>4. ~wild /\ wild' = wild
      BY <1>14 DEF do_exec, Running
    <3> HIDE DEF FrameSet
    <3> QED
      BY <2>2, <3>2, <3>3, <3>4, FilesEach DEF Returned
  <2> QED
    BY <1>14, <2>1, <2>2 DEF do_exec
<1>15. CASE runCmd
  <2>1. CASE UNCHANGED srcVars /\ pc' = Returned(frames)
    BY <1>15, <2>1 DEF runCmd, srcVars, FilesInv, Returned
  <2>2. CASE /\ frames' = [i \in DOMAIN frames |->
                             IF i \in Listed /\ frames[i].name # "stdin"
                             THEN GivenBack(frames[i]) ELSE frames[i]]
             /\ sourceCount' = sourceCount
             /\ pc' = "wait"
    <3>2. \A i \in DOMAIN frames : frames'[i] \in FrameSet /\ frames'[i].open = frames[i].open
      BY <2>2, GivenBackFrame
    <3>3. DOMAIN frames' = DOMAIN frames /\ frames' = [i \in DOMAIN frames |-> frames'[i]]
      BY <2>2
    <3>4. ~wild /\ wild' = wild /\ sourceCount' \in Int
      BY <1>15, <2>2 DEF runCmd, FilesInv
    <3> HIDE DEF FrameSet
    <3> QED
      BY <2>2, <3>2, <3>3, <3>4, FilesEach
  <2> QED
    BY <1>15, <2>1, <2>2 DEF runCmd
<1>16. CASE Interrupt \/ ChildEnds \/ StrayEnds \/ Abandon \/ Stopped \/ UNCHANGED sashVars
  <2>1. UNCHANGED <<frames, sourceCount, pc, wild>>
    BY <1>16 DEF Interrupt, InterruptEntry, InterruptShell, ChildEnds, StrayEnds, Abandon,
                 Stopped, sashVars, srcVars
  <2> QED
    BY <1>1, <2>1
<1> QED
  BY <1>2, <1>3, <1>4, <1>5, <1>6, <1>7, <1>8, <1>9, <1>10, <1>11, <1>12, <1>13, <1>14, <1>15,
     <1>16 DEF SashNext

-----------------------------------------------------------------------------
(* Leaving the tables *)

TablesInv == RoomInv /\ FilesInv

LEMMA TablesInit == SashInit => TablesInv
<1> SUFFICES ASSUME SashInit PROVE TablesInv
  OBVIOUS
<1>1. RoomInv
  <2>1. 0 % ALIAS_ALLOC = 0
    BY SashSizes
  <2> QED
    BY <2>1 DEF SashInit, RoomInv
<1>2. FilesInv
  BY DEF SashInit, FilesInv
<1> QED
  BY <1>1, <1>2 DEF TablesInv

LEMMA TablesHold == SashSpec => []TablesInv
<1>1. TablesInv /\ [SashNext]_sashVars => TablesInv'
  BY RoomNext, FilesNext DEF TablesInv
<1> QED
  BY <1>1, TablesInit, PTL DEF SashSpec

\* The one way out of the tables: an exec that failed.
LEMMA WildStep ==
  ASSUME TablesInv, [SashNext]_sashVars, ~wild, wild' PROVE sourceCount < 0
<1>1. CASE Start \/ ReadStdin \/ RunSource
  BY <1>1 DEF Start, ReadStdin, RunSource, readFile
<1>2. CASE Dangle
  BY <1>2 DEF Dangle, UseClosed, Top, TablesInv, FilesInv
<1>3. CASE do_aliasall
  BY <1>3, RoomDefine DEF do_aliasall, TablesInv
<1>4. CASE RunAlias
  BY <1>4, RoomDefine DEF RunAlias, do_alias, TablesInv
<1>5. CASE EnterLine \/ Check \/ ReadLine \/ command \/ RunAliasall \/ RunUnalias \/ RunUsage
  BY <1>5 DEF EnterLine, Check, ReadLine, command, RunAliasall, RunUnalias, RunUsage
<1>6. CASE do_exec \/ do_exit \/ trySystem \/ runCmd \/ WaitEnds
  BY <1>6 DEF do_exec, do_exit, trySystem, runCmd, WaitEnds
<1>7. CASE Interrupt \/ ChildEnds \/ StrayEnds \/ Abandon \/ Stopped \/ UNCHANGED sashVars
  BY <1>7 DEF Interrupt, ChildEnds, StrayEnds, Abandon, Stopped, sashVars
<1> QED
  BY <1>1, <1>2, <1>3, <1>4, <1>5, <1>6, <1>7 DEF SashNext

\* The alias table and the list of source files are never left and no closed FILE
\* is used, whatever is aliased, unaliased and sourced, unless an exec has failed
\* (aliasTable and sourcefiles in sash.c).
THEOREM WildAlwaysNeedsExec == SashSpec => WildNeedsExec
<1>1. TablesInv /\ [SashNext]_sashVars => [~wild /\ wild' => sourceCount < 0]_sashVars
  BY WildStep
<1> QED
  BY <1>1, TablesHold, PTL DEF SashSpec, WildNeedsExec

-----------------------------------------------------------------------------
(* A table of entries as a map *)

NamesOf(tab, n) == { tab[i].name : i \in 0..(n - 1) }
Distinct(tab, n) ==
  \A i, j \in 0..(n - 1) : tab[i].name = tab[j].name => i = j
FindIn(tab, n, w) ==
  CHOOSE i \in 0..(n - 1) : tab[i].name = w /\ \A j \in 0..(i - 1) : tab[j].name # w
MapOf(tab, n) == [w \in NamesOf(tab, n) |-> tab[FindIn(tab, n, w)].value]

\* The first entry of a name is its only one.
LEMMA FindsEntry ==
  ASSUME NEW tab, NEW n \in Nat, Distinct(tab, n), NEW i \in 0..(n - 1)
  PROVE  FindIn(tab, n, tab[i].name) = i
<1>1. \A j \in 0..(i - 1) : tab[j].name # tab[i].name
  BY DEF Distinct
<1>2. \A k \in 0..(n - 1) : tab[k].name = tab[i].name => k = i
  BY DEF Distinct
<1> QED
  BY <1>1, <1>2 DEF FindIn

\* A function that agrees with the entries is the map of the table.
LEMMA MapIs ==
  ASSUME NEW tab, NEW n \in Nat, Distinct(tab, n), NEW g,
         g = [w \in NamesOf(tab, n) |-> g[w]],
         \A i \in 0..(n - 1) : g[tab[i].name] = tab[i].value
  PROVE  MapOf(tab, n) = g
<1>1. ASSUME NEW w \in NamesOf(tab, n) PROVE tab[FindIn(tab, n, w)].value = g[w]
  <2>1. PICK i \in 0..(n - 1) : tab[i].name = w
    BY DEF NamesOf
  <2> QED
    BY <2>1, FindsEntry
<1> QED
  BY <1>1 DEF MapOf

LEMMA MapAt ==
  ASSUME NEW tab, NEW n \in Nat, Distinct(tab, n)
  PROVE  /\ DOMAIN MapOf(tab, n) = NamesOf(tab, n)
         /\ \A i \in 0..(n - 1) : MapOf(tab, n)[tab[i].name] = tab[i].value
<1>1. ASSUME NEW i \in 0..(n - 1) PROVE MapOf(tab, n)[tab[i].name] = tab[i].value
  <2>1. tab[i].name \in NamesOf(tab, n)
    BY DEF NamesOf
  <2> QED
    BY <2>1, FindsEntry DEF MapOf
<1> QED
  BY <1>1 DEF MapOf

\* The table copied: growing, shrinking and failing keep the used part.
LEMMA MapCopied ==
  ASSUME NEW tab, NEW n \in Nat, Distinct(tab, n), NEW new,
         \A i \in 0..(n - 1) : new[i] = tab[i]
  PROVE  Distinct(new, n) /\ MapOf(new, n) = MapOf(tab, n)
<1>1. Distinct(new, n)
  BY DEF Distinct
<1>2. NamesOf(new, n) = NamesOf(tab, n)
  BY DEF NamesOf
<1>3. MapOf(tab, n) = [w \in NamesOf(new, n) |-> MapOf(tab, n)[w]]
  BY <1>2 DEF MapOf
<1>4. \A i \in 0..(n - 1) : MapOf(tab, n)[new[i].name] = new[i].value
  BY MapAt
<1> QED
  BY <1>1, <1>3, <1>4, MapIs

\* A function with the word w set to v.
Updated(f, w, v) == [x \in DOMAIN f \cup {w} |-> IF x = w THEN v ELSE f[x]]
Without(f, w) == [x \in DOMAIN f \ {w} |-> f[x]]

LEMMA MapSet ==
  ASSUME NEW tab, NEW n \in Nat, Distinct(tab, n), NEW k \in 0..(n - 1), NEW v, NEW new,
         \A i \in 0..(n - 1) : i # k => new[i] = tab[i],
         new[k].name = tab[k].name, new[k].value = v
  PROVE  Distinct(new, n) /\ MapOf(new, n) = Updated(MapOf(tab, n), tab[k].name, v)
<1> DEFINE g == Updated(MapOf(tab, n), tab[k].name, v)
<1>0. \A i \in 0..(n - 1) : new[i].name = tab[i].name
  OBVIOUS
<1>1. Distinct(new, n)
  BY <1>0 DEF Distinct
<1>2. NamesOf(new, n) = NamesOf(tab, n)
  BY <1>0 DEF NamesOf
<1>3. tab[k].name \in NamesOf(tab, n)
  BY DEF NamesOf
<1>4. DOMAIN MapOf(tab, n) = NamesOf(tab, n)
  BY DEF MapOf
<1>5. g = [w \in NamesOf(new, n) |-> g[w]]
  BY <1>2, <1>3, <1>4 DEF Updated
<1>6. ASSUME NEW i \in 0..(n - 1) PROVE g[new[i].name] = new[i].value
  <2>1. tab[i].name \in NamesOf(tab, n)
    BY DEF NamesOf
  <2>2. CASE i = k
    BY <1>3, <1>4, <2>2 DEF Updated
  <2>3. CASE i # k
    <3>1. tab[i].name # tab[k].name
      BY <2>3 DEF Distinct
    <3>2. g[tab[i].name] = MapOf(tab, n)[tab[i].name]
      BY <1>4, <2>1, <3>1 DEF Updated
    <3> QED
      BY <2>3, <3>2, MapAt
  <2> QED
    BY <2>2, <2>3
<1> HIDE DEF g
<1>7. MapOf(new, n) = g
  BY <1>1, <1>5, <1>6, MapIs
<1> QED
  BY <1>1, <1>7 DEF g

LEMMA MapAppended ==
  ASSUME NEW tab, NEW n \in Nat, Distinct(tab, n), NEW w, NEW v, NEW new,
         w \notin NamesOf(tab, n),
         \A i \in 0..(n - 1) : new[i] = tab[i],
         new[n].name = w, new[n].value = v
  PROVE  Distinct(new, n + 1) /\ MapOf(new, n + 1) = Updated(MapOf(tab, n), w, v)
<1> DEFINE g == Updated(MapOf(tab, n), w, v)
<1>0. 0..((n + 1) - 1) = 0..(n - 1) \cup {n}
  OBVIOUS
<1>1. Distinct(new, n + 1)
  BY <1>0 DEF Distinct, NamesOf
<1>2. NamesOf(new, n + 1) = NamesOf(tab, n) \cup {w}
  BY <1>0 DEF NamesOf
<1>4. DOMAIN MapOf(tab, n) = NamesOf(tab, n)
  BY DEF MapOf
<1>5. g = [x \in NamesOf(new, n + 1) |-> g[x]]
  BY <1>2, <1>4 DEF Updated
<1>6. ASSUME NEW i \in 0..(n - 1) PROVE g[new[i].name] = new[i].value
  <2>1. tab[i].name \in NamesOf(tab, n)
    BY DEF NamesOf
  <2>2. g[tab[i].name] = MapOf(tab, n)[tab[i].name]
    BY <1>4, <2>1 DEF Updated
  <2> QED
    BY <2>2, MapAt
<1>7. g[new[n].name] = new[n].value
  BY <1>4 DEF Updated
<1> HIDE DEF g
<1>8. \A i \in 0..((n + 1) - 1) : g[new[i].name] = new[i].value
  BY <1>0, <1>6, <1>7
<1>9. MapOf(new, n + 1) = g
  BY <1>1, <1>5, <1>8, MapIs
<1> QED
  BY <1>1, <1>9 DEF g

LEMMA MapRemoved ==
  ASSUME NEW tab, NEW n \in Nat, Distinct(tab, n + 1), NEW k \in 0..n, NEW new,
         \A i \in 0..(n - 1) : new[i] = IF i = k THEN tab[n] ELSE tab[i]
  PROVE  Distinct(new, n) /\ MapOf(new, n) = Without(MapOf(tab, n + 1), tab[k].name)
<1> DEFINE g == Without(MapOf(tab, n + 1), tab[k].name)
           from(i) == IF i = k THEN n ELSE i
<1>0. 0..((n + 1) - 1) = 0..n
  OBVIOUS
<1>a. \A i \in 0..(n - 1) : from(i) \in 0..n /\ new[i] = tab[from(i)] /\ from(i) # k
  OBVIOUS
<1>b. \A i, j \in 0..(n - 1) : from(i) = from(j) => i = j
  OBVIOUS
<1>c. \A i \in 0..n : i # k => \E j \in 0..(n - 1) : from(j) = i
  <2> SUFFICES ASSUME NEW i \in 0..n, i # k PROVE \E j \in 0..(n - 1) : from(j) = i
    OBVIOUS
  <2>1. CASE i = n
    <3>1. k \in 0..(n - 1) /\ from(k) = i
      BY <2>1
    <3> QED
      BY <3>1
  <2>2. CASE i # n
    <3>1. i \in 0..(n - 1) /\ from(i) = i
      BY <2>2
    <3> QED
      BY <3>1
  <2> QED
    BY <2>1, <2>2
<1>d. \A i, j \in 0..n : tab[i].name = tab[j].name => i = j
  BY <1>0 DEF Distinct
<1> HIDE DEF from
<1>1. Distinct(new, n)
  BY <1>a, <1>b, <1>d DEF Distinct
<1>2. NamesOf(new, n) = NamesOf(tab, n + 1) \ {tab[k].name}
  <2>1. ASSUME NEW x \in NamesOf(new, n) PROVE x \in NamesOf(tab, n + 1) \ {tab[k].name}
    <3>1. PICK i \in 0..(n - 1) : new[i].name = x
      BY DEF NamesOf
    <3>2. from(i) \in 0..n /\ tab[from(i)].name = x /\ from(i) # k
      BY <1>a, <3>1
    <3> QED
      BY <1>0, <1>d, <3>2 DEF NamesOf
  <2>2. ASSUME NEW x \in NamesOf(tab, n + 1) \ {tab[k].name} PROVE x \in NamesOf(new, n)
    <3>1. PICK i \in 0..n : tab[i].name = x
      BY <1>0 DEF NamesOf
    <3>2. i # k
      BY <3>1, <2>2
    <3>3. PICK j \in 0..(n - 1) : from(j) = i
      BY <1>c, <3>2
    <3> QED
      BY <1>a, <3>1, <3>3 DEF NamesOf
  <2> QED
    BY <2>1, <2>2
<1>4. DOMAIN MapOf(tab, n + 1) = NamesOf(tab, n + 1)
  BY DEF MapOf
<1>5. g = [x \in NamesOf(new, n) |-> g[x]]
  BY <1>2, <1>4 DEF Without
<1>6. ASSUME NEW i \in 0..(n - 1) PROVE g[new[i].name] = new[i].value
  <2>1. new[i].name \in NamesOf(new, n)
    BY DEF NamesOf
  <2>2. g[new[i].name] = MapOf(tab, n + 1)[new[i].name]
    BY <1>2, <1>4, <2>1 DEF Without
  <2>3. MapOf(tab, n + 1)[tab[from(i)].name] = tab[from(i)].value
    BY <1>0, <1>a, MapAt
  <2> QED
    BY <1>a, <2>2, <2>3
<1> HIDE DEF g
<1>7. MapOf(new, n) = g
  BY <1>1, <1>5, <1>6, MapIs
<1> QED
  BY <1>1, <1>7 DEF g

-----------------------------------------------------------------------------
(* Aliases *)

Any == Words \cup {""}
Entry == [name : Any, value : Any]
Standard == { AliasAll[i] : i \in 1..Len(AliasAll) }

EntriesInv ==
  /\ aliasTable \in [0..(aliasCap - 1) -> Entry]
  /\ Distinct(aliasTable, aliasCount)

\* Where command lines come from.
LineInv ==
  /\ mode \in {"shell", "entry"} /\ (pc = "idle" => mode = "entry")
  /\ cur \in [cmd : Any \cup {"exit"}, arg : Any, val : Any]
  /\ todo \in Seq(Standard)

AMap == [w \in { aliasTable[i].name : i \in Used } |-> aliasTable[findAlias(w)].value]

LEMMA AMapIs == AMap = MapOf(aliasTable, aliasCount)
BY DEF AMap, Used, findAlias, MapOf, NamesOf, FindIn
LEMMA AMapIsNext == AMap' = MapOf(aliasTable', aliasCount')
BY DEF AMap, Used, findAlias, MapOf, NamesOf, FindIn

LEMMA IsAliasFound ==
  ASSUME RoomInv, EntriesInv, NEW w, IsAlias(w)
  PROVE  findAlias(w) \in 0..(aliasCount - 1) /\ aliasTable[findAlias(w)].name = w
<1>1. PICK i \in 0..(aliasCount - 1) : aliasTable[i].name = w
  BY DEF IsAlias, Used
<1>2. findAlias(w) = FindIn(aliasTable, aliasCount, w)
  BY DEF findAlias, FindIn, Used
<1> QED
  BY <1>1, <1>2, FindsEntry DEF RoomInv, EntriesInv

\* The table allocated anew has the entries of the old one.
LEMMA ResizedEntries ==
  ASSUME RoomInv, EntriesInv
  PROVE  /\ Resized(Grown) \in [0..(Grown - 1) -> Entry]
         /\ \A i \in 0..(aliasCount - 1) : Resized(Grown)[i] = aliasTable[i]
<1>1. Grown \in Nat /\ aliasCount < Grown
  BY GrownHasRoom
<1>2. Garbage \in Entry
  BY DEF Garbage, Entry, Any
<1>3. \A i \in 0..(aliasCap - 1) : aliasTable[i] \in Entry
  BY DEF EntriesInv
<1> HIDE DEF Entry
<1> QED
  BY <1>1, <1>2, <1>3 DEF Resized, RoomInv

\* What alias does to the table: the word is set, or the map stays as it was.
LEMMA DefineMap ==
  ASSUME RoomInv, EntriesInv, NEW w \in Any, NEW v \in Any, define(w, v)
  PROVE  EntriesInv' /\ (AMap' = Updated(AMap, w, v) \/ AMap' = AMap)
<1> aliasCount \in Nat /\ aliasCount <= aliasCap /\ aliasCap \in Nat
  BY DEF RoomInv
<1> Distinct(aliasTable, aliasCount) /\ aliasTable \in [0..(aliasCap - 1) -> Entry]
  BY DEF EntriesInv
<1>1. CASE UNCHANGED aliasVars
  BY <1>1, AMapIs, AMapIsNext DEF aliasVars, EntriesInv
<1>2. CASE IsAlias(w) /\ SetValue(w, v)
  <2> DEFINE k == findAlias(w)
  <2>1. k \in 0..(aliasCount - 1) /\ aliasTable[k].name = w
    BY <1>2, IsAliasFound
  <2> HIDE DEF k
  <2>2. /\ aliasTable' = [aliasTable EXCEPT ![k] = [aliasTable[k] EXCEPT !.value = v]]
        /\ aliasCount' = aliasCount /\ aliasCap' = aliasCap
    BY <1>2 DEF SetValue, k
  <2>3. aliasTable[k] \in Entry
    BY <2>1
  <2>4. /\ [aliasTable[k] EXCEPT !.value = v] \in Entry
        /\ [aliasTable[k] EXCEPT !.value = v].name = w
        /\ [aliasTable[k] EXCEPT !.value = v].value = v
    BY <2>1, <2>3 DEF Entry
  <2> HIDE DEF Entry
  <2>5. aliasTable' \in [0..(aliasCap' - 1) -> Entry]
    BY <2>2, <2>4
  <2>6. /\ \A i \in 0..(aliasCount - 1) : i # k => aliasTable'[i] = aliasTable[i]
        /\ aliasTable'[k].name = aliasTable[k].name /\ aliasTable'[k].value = v
    BY <2>1, <2>2, <2>4
  <2>7. /\ Distinct(aliasTable', aliasCount)
        /\ MapOf(aliasTable', aliasCount)
             = Updated(MapOf(aliasTable, aliasCount), aliasTable[k].name, v)
    BY <2>1, <2>6, MapSet
  <2> QED
    BY <2>1, <2>2, <2>5, <2>7, AMapIs, AMapIsNext DEF EntriesInv
<1>3. CASE ~IsAlias(w) /\ AppendAlias(w, v)
  <2>1. Grown \in Nat /\ aliasCount < Grown
    BY GrownHasRoom
  <2>2. /\ aliasTable' = [Resized(Grown) EXCEPT ![aliasCount] = [name |-> w, value |-> v]]
        /\ aliasCount' = aliasCount + 1 /\ aliasCap' = Grown
    BY <1>3, <2>1 DEF AppendAlias
  <2>3. [name |-> w, value |-> v] \in Entry
    BY DEF Entry
  <2> HIDE DEF Entry
  <2>4. aliasTable' \in [0..(aliasCap' - 1) -> Entry]
    BY <2>1, <2>2, <2>3, ResizedEntries
  <2>5. /\ \A i \in 0..(aliasCount - 1) : aliasTable'[i] = aliasTable[i]
        /\ aliasTable'[aliasCount] = [name |-> w, value |-> v]
    BY <2>1, <2>2, ResizedEntries
  <2>6. w \notin NamesOf(aliasTable, aliasCount)
    BY <1>3 DEF IsAlias, Used, NamesOf
  <2>7. aliasTable'[aliasCount].name = w /\ aliasTable'[aliasCount].value = v
    BY <2>5
  <2>8. /\ Distinct(aliasTable', aliasCount + 1)
        /\ MapOf(aliasTable', aliasCount + 1) = Updated(MapOf(aliasTable, aliasCount), w, v)
    BY <2>5, <2>6, <2>7, MapAppended
  <2> QED
    BY <2>2, <2>4, <2>8, AMapIs, AMapIsNext DEF EntriesInv
<1>4. CASE NoMemory
  <2>1. CASE UNCHANGED <<aliasTable, aliasCap>>
    BY <1>4, <2>1, <1>1 DEF NoMemory, aliasVars
  <2>2. CASE aliasTable' = Resized(Grown) /\ aliasCap' = Grown
    <3>1. aliasCount' = aliasCount
      BY <1>4 DEF NoMemory
    <3>2. /\ Distinct(aliasTable', aliasCount)
          /\ MapOf(aliasTable', aliasCount) = MapOf(aliasTable, aliasCount)
      BY <2>2, ResizedEntries, MapCopied
    <3> HIDE DEF Entry
    <3> QED
      BY <2>2, <3>1, <3>2, ResizedEntries, AMapIs, AMapIsNext DEF EntriesInv
  <2> QED
    BY <1>4, <2>1, <2>2 DEF NoMemory
<1> QED
  BY <1>1, <1>2, <1>3, <1>4 DEF define

\* What unalias does: the word is removed.
LEMMA UnaliasMap ==
  ASSUME RoomInv, EntriesInv, do_unalias
  PROVE  EntriesInv' /\ (AMap' = Without(AMap, cur.arg) \/ AMap' = AMap)
<1> aliasCount \in Nat /\ aliasCount <= aliasCap /\ aliasCap \in Nat
  BY DEF RoomInv
<1> Distinct(aliasTable, aliasCount) /\ aliasTable \in [0..(aliasCap - 1) -> Entry]
  BY DEF EntriesInv
<1>1. CASE ~IsAlias(cur.arg)
  BY <1>1, AMapIs, AMapIsNext DEF do_unalias, aliasVars, EntriesInv
<1>2. CASE IsAlias(cur.arg)
  <2> DEFINE k == findAlias(cur.arg)
             n == aliasCount - 1
  <2>1. k \in 0..(aliasCount - 1) /\ aliasTable[k].name = cur.arg
    BY <1>2, IsAliasFound
  <2> HIDE DEF k
  <2>2. n \in Nat /\ aliasCount = n + 1 /\ k \in 0..n /\ n < aliasCap
    BY <2>1
  <2>3. /\ aliasTable' = [aliasTable EXCEPT ![k] = aliasTable[n], ![n] = Garbage]
        /\ aliasCount' = n /\ aliasCap' = aliasCap
    BY <1>2 DEF do_unalias, k
  <2> HIDE DEF n
  <2>4. Garbage \in Entry
    BY DEF Garbage, Entry, Any
  <2> HIDE DEF Entry
  <2>5. aliasTable' \in [0..(aliasCap' - 1) -> Entry]
    BY <2>2, <2>3, <2>4
  <2>6. \A i \in 0..(n - 1) : aliasTable'[i] = IF i = k THEN aliasTable[n] ELSE aliasTable[i]
    BY <2>2, <2>3
  <2>7. /\ Distinct(aliasTable', n)
        /\ MapOf(aliasTable', n) = Without(MapOf(aliasTable, n + 1), aliasTable[k].name)
    BY <2>2, <2>6, MapRemoved
  <2> QED
    BY <2>1, <2>2, <2>3, <2>5, <2>7, AMapIs, AMapIsNext DEF EntriesInv
<1> QED
  BY <1>1, <1>2

LEMMA StandardLines ==
  /\ \A l \in Standard : l.cmd = "alias" /\ l.arg \in Any /\ l.val \in Any
  /\ AliasAll \in Seq(Standard)
<1> DEFINE S == [cmd : {"alias"}, arg : Words, val : Words]
<1>1. AliasAll \in Seq(S)
  BY SashWords
<1>2. \A l \in S : l.cmd = "alias" /\ l.arg \in Any /\ l.val \in Any
  BY DEF Any
<1> HIDE DEF S
<1>3. \A i \in 1..Len(AliasAll) : AliasAll[i] \in S
  BY <1>1
<1>4. AliasAll \in Seq(Standard)
  BY <1>1 DEF Standard
<1> QED
  BY <1>2, <1>3, <1>4 DEF Standard

LEMMA EntriesNext ==
  ASSUME RoomInv, EntriesInv, LineInv, [SashNext]_sashVars PROVE EntriesInv'
<1>1. CASE do_aliasall
  <2>1. CASE todo # <<>>
    <3>1. Head(todo) \in Standard
      BY <2>1 DEF LineInv
    <3>2. Head(todo).arg \in Any /\ Head(todo).val \in Any
      BY <3>1, StandardLines
    <3> QED
      BY <1>1, <2>1, <3>2, DefineMap DEF do_aliasall
  <2>2. CASE todo = <<>>
    BY <1>1, <2>2 DEF do_aliasall, aliasVars, EntriesInv
  <2> QED
    BY <2>1, <2>2
<1>2. CASE RunAlias
  <2>1. cur.arg \in Any /\ cur.val \in Any
    BY DEF LineInv
  <2>2. CASE define(cur.arg, cur.val)
    BY <2>1, <2>2, DefineMap
  <2>3. CASE UNCHANGED aliasVars
    BY <2>3 DEF aliasVars, EntriesInv
  <2> QED
    BY <1>2, <2>2, <2>3 DEF RunAlias, do_alias
<1>3. CASE RunUnalias
  BY <1>3, UnaliasMap DEF RunUnalias
<1>4. CASE UNCHANGED aliasVars
  BY <1>4 DEF aliasVars, EntriesInv
<1> QED
  BY <1>1, <1>2, <1>3, <1>4, AliasesTouched

LEMMA LineNext ==
  ASSUME TablesInv, EntriesInv, LineInv, [SashNext]_sashVars PROVE LineInv'
<1> USE DEF LineInv
<1>a. Lines \subseteq [cmd : Any \cup {"exit"}, arg : Any, val : Any]
  BY SashWords DEF Any
<1>1. CASE UNCHANGED sashVars \/ Stopped
  BY <1>1 DEF sashVars, Stopped
<1>2. CASE EnterLine
  <2>1. todo' \in Seq(Standard) /\ mode' = mode /\ pc' = "aliasall" /\ cur' \in Lines
    BY <1>2, StandardLines DEF EnterLine
  <2> QED
    BY <1>a, <2>1
<1>3. CASE do_aliasall
  <2>1. todo' \in Seq(Standard)
    <3>1. CASE todo # <<>>
      BY <1>3, <3>1 DEF do_aliasall
    <3>2. CASE todo = <<>>
      BY <1>3, <3>2 DEF do_aliasall
    <3> QED
      BY <3>1, <3>2
  <2>2. mode' = mode /\ cur' = cur /\ (pc' = "idle" => mode = "entry")
    BY <1>3 DEF do_aliasall, Returned
  <2> QED
    BY <2>1, <2>2
<1>4. CASE Start \/ ReadStdin \/ RunSource
  BY <1>4 DEF Start, ReadStdin, RunSource, readFile, Returned
<1>5. CASE Check
  BY <1>5 DEF Check, TestInt, LeaveFile, Returned
<1>6. CASE ReadLine
  <2>1. mode' = mode /\ todo' = todo
    BY <1>6 DEF ReadLine
  <2>2. CASE LeaveFile /\ cur' = cur
    BY <2>1, <2>2 DEF LeaveFile, Returned
  <2>3. CASE pc' = "cmd" /\ cur' \in Lines
    BY <1>a, <2>1, <2>3
  <2> QED
    BY <1>6, <2>2, <2>3, ReadsLines DEF TablesInv
<1>7. CASE Dangle
  BY <1>7 DEF Dangle
<1>8. CASE command
  <2>1. mode' = mode /\ todo' = todo /\ pc' = "run"
    BY <1>8 DEF command
  <2>2. CASE ~IsAlias(cur.cmd)
    BY <1>8, <2>1, <2>2 DEF command
  <2>3. CASE IsAlias(cur.cmd)
    <3> DEFINE k == findAlias(cur.cmd)
    <3>1. k \in 0..(aliasCount - 1)
      BY <2>3, IsAliasFound DEF TablesInv
    <3>2. cur' = [cur EXCEPT !.cmd = aliasTable[k].value]
      BY <1>8, <2>3 DEF command
    <3> HIDE DEF k
    <3>3. k \in 0..(aliasCap - 1)
      BY <3>1 DEF TablesInv, RoomInv
    <3>4. aliasTable[k].value \in Any
      BY <3>3 DEF EntriesInv, Entry
    <3> QED
      BY <2>1, <3>2, <3>4
  <2> QED
    BY <2>2, <2>3
<1>9. CASE RunAlias \/ RunAliasall \/ RunUnalias \/ RunUsage \/ trySystem
  BY <1>9, StandardLines DEF RunAlias, RunAliasall, RunUnalias, RunUsage, trySystem, Returned
<1>10. CASE do_exec \/ do_exit
  BY <1>10 DEF do_exec, do_exit, Returned
<1>11. CASE runCmd \/ WaitEnds
  BY <1>11 DEF runCmd, WaitEnds, Returned
<1>12. CASE Interrupt
  BY <1>12 DEF Interrupt, InterruptEntry, InterruptShell
<1>13. CASE ChildEnds \/ StrayEnds \/ Abandon
  BY <1>13 DEF ChildEnds, StrayEnds, Abandon
<1> QED
  BY <1>1, <1>2, <1>3, <1>4, <1>5, <1>6, <1>7, <1>8, <1>9, <1>10, <1>11, <1>12, <1>13
     DEF SashNext

AliasInv == TablesInv /\ EntriesInv /\ LineInv

LEMMA AliasInvHolds == SashSpec => []AliasInv
<1>1. SashInit => AliasInv
  <2> SUFFICES ASSUME SashInit PROVE AliasInv
    OBVIOUS
  <2>1. EntriesInv
    BY DEF SashInit, EntriesInv, Distinct
  <2>2. LineInv
    <3>1. todo \in Seq(Standard)
      BY StandardLines DEF SashInit
    <3>2. cur \in [cmd : Any \cup {"exit"}, arg : Any, val : Any]
      BY DEF SashInit, NoLine, Any
    <3> QED
      BY <3>1, <3>2 DEF SashInit, LineInv
  <2> QED
    BY <2>1, <2>2, TablesInit DEF AliasInv
<1>2. AliasInv /\ [SashNext]_sashVars => AliasInv'
  BY RoomNext, FilesNext, EntriesNext, LineNext DEF AliasInv, TablesInv
<1> QED
  BY <1>1, <1>2, PTL DEF SashSpec

-----------------------------------------------------------------------------
(* The steps of the map *)

Ready == ~(pc = "cmd" \/ (pc = "aliasall" /\ mode = "entry"))

LEMMA SameMap == ASSUME UNCHANGED aliasVars PROVE AMap' = AMap
BY AMapIs, AMapIsNext DEF aliasVars

LEMMA MapStutter ==
  ASSUME AMap' = AMap, cur' = cur, Ready' = Ready PROVE UNCHANGED Aliases!mapVars
BY DEF AMap, Ready, Aliases!mapVars

LEMMA MapTake ==
  ASSUME AMap' = AMap, Ready, ~Ready', cur' \in Lines PROVE Aliases!Take
BY DEF AMap, Ready, Aliases!Take

LEMMA MapStandard ==
  ASSUME NEW l \in Standard, l.cmd = "alias", AMap' = Updated(AMap, l.arg, l.val),
         cur' = cur, Ready' = Ready
  PROVE  Aliases!Change
BY DEF AMap, Ready, Standard, Updated, Aliases!Change, Aliases!Define

LEMMA MapDefine ==
  ASSUME cur.cmd = "alias", AMap' = Updated(AMap, cur.arg, cur.val),
         cur' = cur, Ready, Ready'
  PROVE  Aliases!Change
BY DEF AMap, Ready, Updated, Aliases!Change, Aliases!Define

LEMMA MapRemove ==
  ASSUME cur.cmd = "unalias", AMap' = Without(AMap, cur.arg),
         cur' = cur, Ready, Ready'
  PROVE  Aliases!Change
BY DEF AMap, Ready, Without, Aliases!Change, Aliases!Remove

LEMMA MapExpand ==
  ASSUME AMap' = AMap, ~Ready, Ready',
         cur' = [cur EXCEPT !.cmd = IF cur.cmd \in DOMAIN AMap THEN AMap[cur.cmd] ELSE cur.cmd]
  PROVE  Aliases!Expand
BY DEF AMap, Ready, Aliases!Expand, Aliases!Value

LEMMA MapStep ==
  ASSUME AliasInv, [SashNext]_sashVars PROVE [Aliases!MapNext]_(Aliases!mapVars)
<1> USE DEF AliasInv
<1> mode \in {"shell", "entry"} /\ (pc = "idle" => mode = "entry")
  BY DEF LineInv
<1>1. CASE UNCHANGED sashVars \/ Stopped
  BY <1>1, SameMap, MapStutter DEF sashVars, Stopped, Ready
<1>2. CASE EnterLine
  BY <1>2, SameMap, MapTake DEF EnterLine, Ready, Aliases!MapNext
<1>3. CASE do_aliasall
  <2>1. cur' = cur /\ Ready' = Ready
    BY <1>3 DEF do_aliasall, Ready, Returned
  <2>2. CASE todo = <<>>
    BY <1>3, <2>1, <2>2, SameMap, MapStutter DEF do_aliasall
  <2>3. CASE todo # <<>>
    <3>1. Head(todo) \in Standard
      BY <2>3 DEF LineInv
    <3>2. Head(todo).cmd = "alias" /\ Head(todo).arg \in Any /\ Head(todo).val \in Any
      BY <3>1, StandardLines
    <3>3. AMap' = Updated(AMap, Head(todo).arg, Head(todo).val) \/ AMap' = AMap
      BY <1>3, <2>3, <3>2, DefineMap DEF do_aliasall, TablesInv
    <3> QED
      BY <2>1, <3>1, <3>2, <3>3, MapStandard, MapStutter DEF Aliases!MapNext
  <2> QED
    BY <2>2, <2>3
<1>4. CASE Start \/ ReadStdin \/ RunSource
  <2>1. cur' = cur /\ Ready' = Ready
    BY <1>4 DEF Start, ReadStdin, RunSource, Running, readFile, Returned, Ready
  <2> QED
    BY <1>4, <2>1, SameMap, MapStutter DEF Start, ReadStdin, RunSource
<1>5. CASE Check
  <2>1. cur' = cur /\ Ready' = Ready
    BY <1>5 DEF Check, TestInt, LeaveFile, Returned, Ready
  <2> QED
    BY <1>5, <2>1, SameMap, MapStutter DEF Check
<1>6. CASE ReadLine
  <2>1. AMap' = AMap /\ Ready
    BY <1>6, SameMap DEF ReadLine, Ready
  <2>2. CASE LeaveFile /\ cur' = cur
    <3>1. Ready'
      BY <1>6, <2>2 DEF ReadLine, LeaveFile, Returned, Ready
    <3> QED
      BY <2>1, <2>2, <3>1, MapStutter
  <2>3. CASE pc' = "cmd" /\ cur' \in Lines
    <3>1. ~Ready'
      BY <2>3 DEF Ready
    <3> QED
      BY <2>1, <2>3, <3>1, MapTake DEF Aliases!MapNext
  <2> QED
    BY <1>6, <2>2, <2>3, ReadsLines DEF TablesInv
<1>7. CASE Dangle
  BY <1>7, SameMap, MapStutter DEF Dangle, Ready
<1>8. CASE command
  <2>1. AMap' = AMap /\ ~Ready /\ Ready'
    BY <1>8, SameMap DEF command, Ready
  <2>2. DOMAIN AMap = NamesOf(aliasTable, aliasCount)
    BY AMapIs DEF MapOf
  <2>3. CASE IsAlias(cur.cmd)
    <3>1. cur.cmd \in DOMAIN AMap
      BY <2>2, <2>3 DEF IsAlias, Used, NamesOf
    <3>2. AMap[cur.cmd] = aliasTable[findAlias(cur.cmd)].value
      BY <3>1 DEF AMap
    <3>3. cur' = [cur EXCEPT !.cmd = AMap[cur.cmd]]
      BY <1>8, <2>3, <3>2 DEF command
    <3> HIDE DEF AliasInv
    <3> QED
      BY <2>1, <3>1, <3>3, MapExpand DEF Aliases!MapNext
  <2>4. CASE ~IsAlias(cur.cmd)
    <3>1. cur.cmd \notin DOMAIN AMap
      BY <2>2, <2>4 DEF IsAlias, Used, NamesOf
    <3>2. cur' = cur
      BY <1>8, <2>4 DEF command
    <3>3. cur = [cur EXCEPT !.cmd = cur.cmd]
      BY DEF LineInv
    <3>4. cur' = [cur EXCEPT !.cmd = IF cur.cmd \in DOMAIN AMap THEN AMap[cur.cmd] ELSE cur.cmd]
      BY <3>1, <3>2, <3>3
    <3> QED
      BY <2>1, <3>4, MapExpand DEF Aliases!MapNext
  <2> QED
    BY <2>3, <2>4
<1>9. CASE RunAlias
  <2>1. cur' = cur /\ Ready /\ Ready' /\ cur.cmd = "alias"
    BY <1>9 DEF RunAlias, Running, Returned, Ready
  <2>2. cur.arg \in Any /\ cur.val \in Any
    BY DEF LineInv
  <2>3. AMap' = Updated(AMap, cur.arg, cur.val) \/ AMap' = AMap
    <3>1. CASE define(cur.arg, cur.val)
      BY <2>2, <3>1, DefineMap DEF TablesInv
    <3>2. CASE UNCHANGED aliasVars
      BY <3>2, SameMap
    <3> QED
      BY <1>9, <3>1, <3>2 DEF RunAlias, do_alias
  <2> QED
    BY <2>1, <2>3, MapDefine, MapStutter DEF Aliases!MapNext
<1>10. CASE RunUnalias
  <2>1. cur' = cur /\ Ready /\ Ready' /\ cur.cmd = "unalias"
    BY <1>10 DEF RunUnalias, Running, Returned, Ready
  <2>2. AMap' = Without(AMap, cur.arg) \/ AMap' = AMap
    BY <1>10, UnaliasMap DEF RunUnalias, TablesInv
  <2> QED
    BY <2>1, <2>2, MapRemove, MapStutter DEF Aliases!MapNext
<1>11. CASE RunAliasall \/ RunUsage \/ trySystem \/ do_exec \/ do_exit
  <2>1. cur' = cur /\ Ready' = Ready
    BY <1>11 DEF RunAliasall, RunUsage, trySystem, do_exec, do_exit, Running, Returned, Ready
  <2> QED
    BY <1>11, <2>1, SameMap, MapStutter DEF RunAliasall, RunUsage, trySystem, do_exec, do_exit
<1>12. CASE runCmd \/ WaitEnds
  <2>1. cur' = cur /\ Ready' = Ready
    BY <1>12 DEF runCmd, WaitEnds, Returned, Ready
  <2> QED
    BY <1>12, <2>1, SameMap, MapStutter DEF runCmd, WaitEnds
<1>13. CASE Interrupt \/ ChildEnds \/ StrayEnds \/ Abandon
  <2>1. cur' = cur /\ Ready' = Ready
    BY <1>13 DEF Interrupt, InterruptEntry, InterruptShell, ChildEnds, StrayEnds, Abandon, Ready
  <2> QED
    BY <1>13, <2>1, SameMap, MapStutter DEF Interrupt, ChildEnds, StrayEnds, Abandon
<1> QED
  BY <1>1, <1>2, <1>3, <1>4, <1>5, <1>6, <1>7, <1>8, <1>9, <1>10, <1>11, <1>12, <1>13
     DEF SashNext

\* The alias table, with its moving entries, its growing and its shrinking, is a
\* map that every command line goes through once (do_alias, do_unalias, findAlias
\* and command in sash.c).
THEOREM AliasTableIsMap == SashSpec => AliasesAreMap
<1>1. SashInit => Aliases!MapInit
  <2> SUFFICES ASSUME SashInit PROVE Aliases!MapInit
    OBVIOUS
  <2>1. AMap = [w \in {} |-> w]
    BY DEF SashInit, AMap, Used
  <2>2. Ready
    BY DEF SashInit, Ready
  <2> QED
    BY <2>1, <2>2 DEF AMap, Ready, Aliases!MapInit
<1>2. AliasInv /\ [SashNext]_sashVars => [Aliases!MapNext]_(Aliases!mapVars)
  BY MapStep
<1> QED
  BY <1>1, <1>2, AliasInvHolds, PTL DEF SashSpec, AliasesAreMap, Aliases!MapSpec
=============================================================================
