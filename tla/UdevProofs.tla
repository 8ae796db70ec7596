----------------------------- MODULE UdevProofs -----------------------------
(***************************************************************************)
(* The threaded scan of udev_enumerate.c, for every set of devices.        *)
(***************************************************************************)
EXTENDS UdevEnumerate, TLAPS

Idle(d) == thr[d] \in {"none", "dead"}

\* The mutex is held by the threads between lock and unlock, one at most, so what
\* a thread has read of the list is still there when it links its entry.
MutexInv ==
  /\ \A d \in Devices : d \in mutex <=> thr[d] \in {"add", "link", "unlock"}
  /\ \A d, e \in mutex : d = e
  /\ \A d \in Devices : thr[d] = "link" => next[d] = devices

\* Which entries have a thread, in the loops of scan_devices.
LoopInv ==
  /\ pc = "create" =>
       /\ left \subseteq names
       /\ \A d \in left : thr[d] = "none"
       /\ \A d \in names \ left : thr[d] # "none"
       /\ \A d \in Devices \ names : Idle(d)
  /\ pc = "join" =>
       /\ left \subseteq names
       /\ \A d \in Devices \ left : Idle(d)
       /\ ~failed => \A d \in names \ left : thr[d] = "dead"
       /\ ~failed => \A d \in left : thr[d] # "none"
  /\ pc \in {"create", "join"} => names \subseteq Dir[dirno]

\* Directories that have not been scanned have no threads.
FreshInv ==
  /\ pc = "scandir" => \A d \in Dir[dirno] : thr[d] = "none"
  /\ dirno = 1 => \A d \in Dir[2] : thr[d] = "none"

\* Every entry that was not unplugged is in the scandir of its directory, and gets
\* its thread.
SeenInv ==
  ~failed =>
    /\ dirno = 2 => \A d \in Dir[1] : d \in gone \/ thr[d] = "dead"
    /\ pc \in {"create", "join"} => \A d \in Dir[dirno] : d \in gone \/ d \in names
    /\ pc \in {"scanned", "mknod", "done"} => \A d \in Devices : d \in gone \/ thr[d] = "dead"

\* What a thread leaves behind, and what has become of the list.
ListInv ==
  /\ \A d \in Devices : thr[d] = "unlock" => d \in devices \cup dropped
  /\ \A d \in Devices :
       thr[d] = "dead" /\ Selected(d) => d \in devices \cup dropped \cup gone
  /\ pc = "mknod" => \A d \in devices : d \in left \cup nodes \cup dropped
  /\ pc = "done" => \A d \in devices : d \in nodes \cup dropped

EnumInv ==
  /\ EnumTypeOK /\ MutexInv /\ LoopInv /\ FreshInv /\ SeenInv /\ ListInv
  /\ NoThreadAfterFree /\ CrashNeedsFailure
-----------------------------------------------------------------------------

ThreadStates == {"run", "want", "add", "link", "unlock", "dead"}

LEMMA DirsInDevices ==
  /\ \A n \in 1..2 : Dir[n] \subseteq Devices
  /\ Devices = Dir[1] \cup Dir[2]
  /\ Dir[1] \cap Dir[2] = {}
BY DirsDisjoint DEF Devices

\* A step of a thread that runs disturbs nothing that the calling thread relies on.
LEMMA ThreadKeepsLoops ==
  ASSUME EnumInv, NEW d \in Devices, NEW v \in ThreadStates,
         ~Idle(d), Running, thr' = [thr EXCEPT ![d] = v], UNCHANGED <<scanVars, gone>>
  PROVE  LoopInv' /\ FreshInv' /\ SeenInv' /\ NoThreadAfterFree' /\ CrashNeedsFailure'
<1>1. /\ thr'[d] = v /\ thr[d] \notin {"none", "dead"} /\ v # "none"
      /\ \A e \in Devices : e # d => thr'[e] = thr[e]
  BY DEF EnumInv, EnumTypeOK, ThreadStates, Idle
<1>2. pc \in {"create", "join"}
  BY <1>1 DEF EnumInv, EnumTypeOK, NoThreadAfterFree, Running
<1>3. UNCHANGED <<pc, dirno, names, left, failed, gone>>
  BY DEF scanVars
<1>4. LoopInv'
  BY <1>1, <1>2, <1>3 DEF EnumInv, EnumTypeOK, LoopInv, Idle
<1>5. FreshInv'
  BY <1>1, <1>2, <1>3, DirsInDevices DEF EnumInv, EnumTypeOK, FreshInv
<1>6. SeenInv'
  BY <1>1, <1>2, <1>3, DirsInDevices DEF EnumInv, EnumTypeOK, SeenInv
<1> QED
  BY <1>2, <1>3, <1>4, <1>5, <1>6 DEF EnumInv, NoThreadAfterFree, CrashNeedsFailure
\* What a thread's own step does to the mutex and to the list.
LEMMA ThreadKeepsInv ==
  ASSUME EnumInv, Running, NEW d \in Devices, Thread(d)
  PROVE  EnumInv'
<1> USE DEF Idle, ThreadStates
<1>0. EnumTypeOK /\ MutexInv /\ ListInv
  BY DEF EnumInv
<1>1. CASE LookAt(d)
  <2> DEFINE v == IF d \notin gone /\ Selected(d) THEN "want" ELSE "dead"
  <2>1. ~Idle(d) /\ v \in ThreadStates /\ thr' = [thr EXCEPT ![d] = v] /\ UNCHANGED <<scanVars, gone>>
    BY <1>1 DEF LookAt
  <2>2. LoopInv' /\ FreshInv' /\ SeenInv' /\ NoThreadAfterFree' /\ CrashNeedsFailure'
    BY <2>1, ThreadKeepsLoops
  <2>3. EnumTypeOK'
    BY <1>0, <1>1 DEF LookAt, EnumTypeOK, scanVars
  <2>4. MutexInv'
    BY <1>0, <1>1 DEF LookAt, EnumTypeOK, MutexInv
  <2>5. ListInv'
    BY <1>0, <1>1 DEF LookAt, EnumTypeOK, ListInv, scanVars
  <2> QED
    BY <2>2, <2>3, <2>4, <2>5 DEF EnumInv
<1>7. CASE LookAtNoMemory(d)
  <2>1. ~Idle(d) /\ thr' = [thr EXCEPT ![d] = "dead"] /\ UNCHANGED <<scanVars, gone>>
    BY <1>7 DEF LookAtNoMemory
  <2>2. LoopInv' /\ FreshInv' /\ SeenInv' /\ NoThreadAfterFree' /\ CrashNeedsFailure'
    BY <2>1, ThreadKeepsLoops
  <2>3. EnumTypeOK'
    BY <1>0, <1>7 DEF LookAtNoMemory, EnumTypeOK, scanVars
  <2>4. MutexInv'
    BY <1>0, <1>7 DEF LookAtNoMemory, EnumTypeOK, MutexInv
  <2>5. ListInv'
    BY <1>0, <1>7 DEF LookAtNoMemory, EnumTypeOK, ListInv, scanVars
  <2> QED
    BY <2>2, <2>3, <2>4, <2>5 DEF EnumInv
<1>2. CASE Lock(d)
  <2>1. ~Idle(d) /\ thr' = [thr EXCEPT ![d] = "add"] /\ UNCHANGED <<scanVars, gone>>
    BY <1>2 DEF Lock
  <2>2. LoopInv' /\ FreshInv' /\ SeenInv' /\ NoThreadAfterFree' /\ CrashNeedsFailure'
    BY <2>1, ThreadKeepsLoops
  <2>3. EnumTypeOK'
    BY <1>0, <1>2 DEF Lock, EnumTypeOK, scanVars
  <2>4. MutexInv'
    BY <1>0, <1>2 DEF Lock, EnumTypeOK, MutexInv
  <2>5. ListInv'
    BY <1>0, <1>2 DEF Lock, EnumTypeOK, MutexInv, ListInv, scanVars
  <2> QED
    BY <2>2, <2>3, <2>4, <2>5 DEF EnumInv
<1>3. CASE AddRead(d)
  <2>1. ~Idle(d) /\ thr' = [thr EXCEPT ![d] = "link"] /\ UNCHANGED <<scanVars, gone>>
    BY <1>3 DEF AddRead
  <2>2. LoopInv' /\ FreshInv' /\ SeenInv' /\ NoThreadAfterFree' /\ CrashNeedsFailure'
    BY <2>1, ThreadKeepsLoops
  <2>3. EnumTypeOK'
    BY <1>0, <1>3 DEF AddRead, EnumTypeOK, scanVars
  <2>4. MutexInv'
    BY <1>0, <1>3 DEF AddRead, EnumTypeOK, MutexInv
  <2>5. ListInv'
    BY <1>0, <1>3 DEF AddRead, EnumTypeOK, MutexInv, ListInv, scanVars
  <2> QED
    BY <2>2, <2>3, <2>4, <2>5 DEF EnumInv
<1>4. CASE AddNoMemory(d)
  <2>1. ~Idle(d) /\ thr' = [thr EXCEPT ![d] = "unlock"] /\ UNCHANGED <<scanVars, gone>>
    BY <1>4 DEF AddNoMemory
  <2>2. LoopInv' /\ FreshInv' /\ SeenInv' /\ NoThreadAfterFree' /\ CrashNeedsFailure'
    BY <2>1, ThreadKeepsLoops
  <2>3. EnumTypeOK'
    BY <1>0, <1>4 DEF AddNoMemory, EnumTypeOK, scanVars
  <2>4. MutexInv'
    BY <1>0, <1>4 DEF AddNoMemory, EnumTypeOK, MutexInv
  <2>5. ListInv'
    BY <1>0, <1>4 DEF AddNoMemory, EnumTypeOK, MutexInv, ListInv, scanVars
  <2> QED
    BY <2>2, <2>3, <2>4, <2>5 DEF EnumInv
<1>5. CASE AddLink(d)
  <2>1. ~Idle(d) /\ thr' = [thr EXCEPT ![d] = "unlock"] /\ UNCHANGED <<scanVars, gone>>
    BY <1>5 DEF AddLink
  <2>2. LoopInv' /\ FreshInv' /\ SeenInv' /\ NoThreadAfterFree' /\ CrashNeedsFailure'
    BY <2>1, ThreadKeepsLoops
  <2>3. EnumTypeOK'
    BY <1>0, <1>5 DEF AddLink, EnumTypeOK, scanVars
  <2>4. MutexInv'
    BY <1>0, <1>5 DEF AddLink, EnumTypeOK, MutexInv
  <2>5. ListInv'
    <3>1. devices' = devices \cup {d} /\ UNCHANGED <<nodes, gone, dropped, pc, left>>
      BY <1>0, <1>5 DEF AddLink, MutexInv, scanVars
    <3>2. pc \notin {"mknod", "done"}
      BY <2>1 DEF EnumInv, NoThreadAfterFree
    <3> QED
      BY <1>0, <2>1, <3>1, <3>2 DEF EnumTypeOK, ListInv
  <2> QED
    BY <2>2, <2>3, <2>4, <2>5 DEF EnumInv
<1>6. CASE Unlock(d)
  <2>1. ~Idle(d) /\ thr' = [thr EXCEPT ![d] = "dead"] /\ UNCHANGED <<scanVars, gone>>
    BY <1>6 DEF Unlock
  <2>2. LoopInv' /\ FreshInv' /\ SeenInv' /\ NoThreadAfterFree' /\ CrashNeedsFailure'
    BY <2>1, ThreadKeepsLoops
  <2>3. EnumTypeOK'
    BY <1>0, <1>6 DEF Unlock, EnumTypeOK, scanVars
  <2>4. MutexInv'
    BY <1>0, <1>6 DEF Unlock, EnumTypeOK, MutexInv
  <2>5. ListInv'
    BY <1>0, <1>6 DEF Unlock, EnumTypeOK, MutexInv, ListInv, scanVars
  <2> QED
    BY <2>2, <2>3, <2>4, <2>5 DEF EnumInv
<1> QED
  BY <1>1, <1>2, <1>3, <1>4, <1>5, <1>6, <1>7 DEF Thread
\* The steps of the calling thread, and unplugging.
LEMMA CallerKeepsInv ==
  ASSUME EnumInv, Running, Caller \/ \E d \in Devices : Unplug(d)
  PROVE  EnumInv'
<1> USE DEF Idle
<1>0. /\ EnumTypeOK /\ MutexInv /\ LoopInv /\ FreshInv /\ SeenInv /\ ListInv
      /\ NoThreadAfterFree /\ CrashNeedsFailure
  BY DEF EnumInv
<1>1. CASE Scandir
  <2>1. EnumTypeOK'
    BY <1>0, <1>1, DirsInDevices DEF Scandir, scanVars, threadVars, EnumTypeOK
  <2>2. MutexInv'
    BY <1>0, <1>1, DirsInDevices DEF Scandir, scanVars, threadVars, EnumTypeOK, MutexInv
  <2>3. LoopInv'
    BY <1>0, <1>1, DirsInDevices DEF Scandir, scanVars, threadVars, EnumTypeOK, LoopInv, FreshInv, NoThreadAfterFree
  <2>4. FreshInv'
    BY <1>0, <1>1, DirsInDevices DEF Scandir, scanVars, threadVars, EnumTypeOK, FreshInv, LoopInv, NoThreadAfterFree, SeenInv
  <2>5. SeenInv'
    BY <1>0, <1>1, DirsInDevices DEF Scandir, scanVars, threadVars, EnumTypeOK, SeenInv, LoopInv
  <2>6. ListInv'
    BY <1>0, <1>1, DirsInDevices DEF Scandir, scanVars, threadVars, EnumTypeOK, ListInv
  <2>7. NoThreadAfterFree'
    BY <1>0, <1>1, DirsInDevices DEF Scandir, scanVars, threadVars, EnumTypeOK, NoThreadAfterFree, LoopInv
  <2>8. CrashNeedsFailure'
    BY <1>0, <1>1, DirsInDevices DEF Scandir, scanVars, threadVars, EnumTypeOK, CrashNeedsFailure, LoopInv
  <2> QED
    BY <2>1, <2>2, <2>3, <2>4, <2>5, <2>6, <2>7, <2>8 DEF EnumInv
<1>2. CASE ScandirFails
  <2>1. EnumTypeOK'
    BY <1>0, <1>2, DirsInDevices DEF ScandirFails, scanVars, threadVars, EnumTypeOK
  <2>2. MutexInv'
    BY <1>0, <1>2, DirsInDevices DEF ScandirFails, scanVars, threadVars, EnumTypeOK, MutexInv
  <2>3. LoopInv'
    BY <1>0, <1>2, DirsInDevices DEF ScandirFails, scanVars, threadVars, EnumTypeOK, LoopInv, FreshInv, NoThreadAfterFree
  <2>4. FreshInv'
    BY <1>0, <1>2, DirsInDevices DEF ScandirFails, scanVars, threadVars, EnumTypeOK, FreshInv, LoopInv, NoThreadAfterFree, SeenInv
  <2>5. SeenInv'
    BY <1>0, <1>2, DirsInDevices DEF ScandirFails, scanVars, threadVars, EnumTypeOK, SeenInv, LoopInv
  <2>6. ListInv'
    BY <1>0, <1>2, DirsInDevices DEF ScandirFails, scanVars, threadVars, EnumTypeOK, ListInv
  <2>7. NoThreadAfterFree'
    BY <1>0, <1>2, DirsInDevices DEF ScandirFails, scanVars, threadVars, EnumTypeOK, NoThreadAfterFree, LoopInv
  <2>8. CrashNeedsFailure'
    BY <1>0, <1>2, DirsInDevices DEF ScandirFails, scanVars, threadVars, EnumTypeOK, CrashNeedsFailure, LoopInv
  <2> QED
    BY <2>1, <2>2, <2>3, <2>4, <2>5, <2>6, <2>7, <2>8 DEF EnumInv
<1>3. CASE CreateFails
  <2>1. EnumTypeOK'
    BY <1>0, <1>3, DirsInDevices DEF CreateFails, scanVars, threadVars, EnumTypeOK
  <2>2. MutexInv'
    BY <1>0, <1>3, DirsInDevices DEF CreateFails, scanVars, threadVars, EnumTypeOK, MutexInv
  <2>3. LoopInv'
    BY <1>0, <1>3, DirsInDevices DEF CreateFails, scanVars, threadVars, EnumTypeOK, LoopInv, FreshInv, NoThreadAfterFree
  <2>4. FreshInv'
    BY <1>0, <1>3, DirsInDevices DEF CreateFails, scanVars, threadVars, EnumTypeOK, FreshInv, LoopInv, NoThreadAfterFree, SeenInv
  <2>5. SeenInv'
    BY <1>0, <1>3, DirsInDevices DEF CreateFails, scanVars, threadVars, EnumTypeOK, SeenInv, LoopInv
  <2>6. ListInv'
    BY <1>0, <1>3, DirsInDevices DEF CreateFails, scanVars, threadVars, EnumTypeOK, ListInv
  <2>7. NoThreadAfterFree'
    BY <1>0, <1>3, DirsInDevices DEF CreateFails, scanVars, threadVars, EnumTypeOK, NoThreadAfterFree, LoopInv
  <2>8. CrashNeedsFailure'
    BY <1>0, <1>3, DirsInDevices DEF CreateFails, scanVars, threadVars, EnumTypeOK, CrashNeedsFailure, LoopInv
  <2> QED
    BY <2>1, <2>2, <2>3, <2>4, <2>5, <2>6, <2>7, <2>8 DEF EnumInv
<1>4. CASE CreateEnds
  <2>1. EnumTypeOK'
    BY <1>0, <1>4, DirsInDevices DEF CreateEnds, scanVars, threadVars, EnumTypeOK
  <2>2. MutexInv'
    BY <1>0, <1>4, DirsInDevices DEF CreateEnds, scanVars, threadVars, EnumTypeOK, MutexInv
  <2>3. LoopInv'
    BY <1>0, <1>4, DirsInDevices DEF CreateEnds, scanVars, threadVars, EnumTypeOK, LoopInv, FreshInv, NoThreadAfterFree
  <2>4. FreshInv'
    BY <1>0, <1>4, DirsInDevices DEF CreateEnds, scanVars, threadVars, EnumTypeOK, FreshInv, LoopInv, NoThreadAfterFree, SeenInv
  <2>5. SeenInv'
    BY <1>0, <1>4, DirsInDevices DEF CreateEnds, scanVars, threadVars, EnumTypeOK, SeenInv, LoopInv
  <2>6. ListInv'
    BY <1>0, <1>4, DirsInDevices DEF CreateEnds, scanVars, threadVars, EnumTypeOK, ListInv
  <2>7. NoThreadAfterFree'
    BY <1>0, <1>4, DirsInDevices DEF CreateEnds, scanVars, threadVars, EnumTypeOK, NoThreadAfterFree, LoopInv
  <2>8. CrashNeedsFailure'
    BY <1>0, <1>4, DirsInDevices DEF CreateEnds, scanVars, threadVars, EnumTypeOK, CrashNeedsFailure, LoopInv
  <2> QED
    BY <2>1, <2>2, <2>3, <2>4, <2>5, <2>6, <2>7, <2>8 DEF EnumInv
<1>5. CASE JoinNothing
  <2>1. EnumTypeOK'
    BY <1>0, <1>5, DirsInDevices DEF JoinNothing, scanVars, threadVars, EnumTypeOK
  <2>2. MutexInv'
    BY <1>0, <1>5, DirsInDevices DEF JoinNothing, scanVars, threadVars, EnumTypeOK, MutexInv
  <2>3. LoopInv'
    BY <1>0, <1>5, DirsInDevices DEF JoinNothing, scanVars, threadVars, EnumTypeOK, LoopInv, FreshInv, NoThreadAfterFree
  <2>4. FreshInv'
    BY <1>0, <1>5, DirsInDevices DEF JoinNothing, scanVars, threadVars, EnumTypeOK, FreshInv, LoopInv, NoThreadAfterFree, SeenInv
  <2>5. SeenInv'
    BY <1>0, <1>5, DirsInDevices DEF JoinNothing, scanVars, threadVars, EnumTypeOK, SeenInv, LoopInv
  <2>6. ListInv'
    BY <1>0, <1>5, DirsInDevices DEF JoinNothing, scanVars, threadVars, EnumTypeOK, ListInv
  <2>7. NoThreadAfterFree'
    BY <1>0, <1>5, DirsInDevices DEF JoinNothing, scanVars, threadVars, EnumTypeOK, NoThreadAfterFree, LoopInv
  <2>8. CrashNeedsFailure'
    BY <1>0, <1>5, DirsInDevices DEF JoinNothing, scanVars, threadVars, EnumTypeOK, CrashNeedsFailure, LoopInv
  <2> QED
    BY <2>1, <2>2, <2>3, <2>4, <2>5, <2>6, <2>7, <2>8 DEF EnumInv
<1>6. CASE JoinEnds
  <2>1. EnumTypeOK'
    BY <1>0, <1>6, DirsInDevices DEF JoinEnds, scanVars, threadVars, EnumTypeOK
  <2>2. MutexInv'
    BY <1>0, <1>6, DirsInDevices DEF JoinEnds, scanVars, threadVars, EnumTypeOK, MutexInv
  <2>3. LoopInv'
    BY <1>0, <1>6, DirsInDevices DEF JoinEnds, scanVars, threadVars, EnumTypeOK, LoopInv, FreshInv, NoThreadAfterFree
  <2>4. FreshInv'
    BY <1>0, <1>6, DirsInDevices DEF JoinEnds, scanVars, threadVars, EnumTypeOK, FreshInv, LoopInv, NoThreadAfterFree, SeenInv
  <2>5. SeenInv'
    BY <1>0, <1>6, DirsInDevices DEF JoinEnds, scanVars, threadVars, EnumTypeOK, SeenInv, LoopInv
  <2>6. ListInv'
    BY <1>0, <1>6, DirsInDevices DEF JoinEnds, scanVars, threadVars, EnumTypeOK, ListInv
  <2>7. NoThreadAfterFree'
    BY <1>0, <1>6, DirsInDevices DEF JoinEnds, scanVars, threadVars, EnumTypeOK, NoThreadAfterFree, LoopInv
  <2>8. CrashNeedsFailure'
    BY <1>0, <1>6, DirsInDevices DEF JoinEnds, scanVars, threadVars, EnumTypeOK, CrashNeedsFailure, LoopInv
  <2> QED
    BY <2>1, <2>2, <2>3, <2>4, <2>5, <2>6, <2>7, <2>8 DEF EnumInv
<1>7. CASE UseList
  <2>1. EnumTypeOK'
    BY <1>0, <1>7, DirsInDevices DEF UseList, scanVars, threadVars, EnumTypeOK
  <2>2. MutexInv'
    BY <1>0, <1>7, DirsInDevices DEF UseList, scanVars, threadVars, EnumTypeOK, MutexInv
  <2>3. LoopInv'
    BY <1>0, <1>7, DirsInDevices DEF UseList, scanVars, threadVars, EnumTypeOK, LoopInv, FreshInv, NoThreadAfterFree
  <2>4. FreshInv'
    BY <1>0, <1>7, DirsInDevices DEF UseList, scanVars, threadVars, EnumTypeOK, FreshInv, LoopInv, NoThreadAfterFree, SeenInv
  <2>5. SeenInv'
    BY <1>0, <1>7, DirsInDevices DEF UseList, scanVars, threadVars, EnumTypeOK, SeenInv, LoopInv
  <2>6. ListInv'
    BY <1>0, <1>7, DirsInDevices DEF UseList, scanVars, threadVars, EnumTypeOK, ListInv
  <2>7. NoThreadAfterFree'
    BY <1>0, <1>7, DirsInDevices DEF UseList, scanVars, threadVars, EnumTypeOK, NoThreadAfterFree, LoopInv
  <2>8. CrashNeedsFailure'
    BY <1>0, <1>7, DirsInDevices DEF UseList, scanVars, threadVars, EnumTypeOK, CrashNeedsFailure, LoopInv
  <2> QED
    BY <2>1, <2>2, <2>3, <2>4, <2>5, <2>6, <2>7, <2>8 DEF EnumInv
<1>8. CASE MakeEnds
  <2>1. EnumTypeOK'
    BY <1>0, <1>8, DirsInDevices DEF MakeEnds, scanVars, threadVars, EnumTypeOK
  <2>2. MutexInv'
    BY <1>0, <1>8, DirsInDevices DEF MakeEnds, scanVars, threadVars, EnumTypeOK, MutexInv
  <2>3. LoopInv'
    BY <1>0, <1>8, DirsInDevices DEF MakeEnds, scanVars, threadVars, EnumTypeOK, LoopInv, FreshInv, NoThreadAfterFree
  <2>4. FreshInv'
    BY <1>0, <1>8, DirsInDevices DEF MakeEnds, scanVars, threadVars, EnumTypeOK, FreshInv, LoopInv, NoThreadAfterFree, SeenInv
  <2>5. SeenInv'
    BY <1>0, <1>8, DirsInDevices DEF MakeEnds, scanVars, threadVars, EnumTypeOK, SeenInv, LoopInv
  <2>6. ListInv'
    BY <1>0, <1>8, DirsInDevices DEF MakeEnds, scanVars, threadVars, EnumTypeOK, ListInv
  <2>7. NoThreadAfterFree'
    BY <1>0, <1>8, DirsInDevices DEF MakeEnds, scanVars, threadVars, EnumTypeOK, NoThreadAfterFree, LoopInv
  <2>8. CrashNeedsFailure'
    BY <1>0, <1>8, DirsInDevices DEF MakeEnds, scanVars, threadVars, EnumTypeOK, CrashNeedsFailure, LoopInv
  <2> QED
    BY <2>1, <2>2, <2>3, <2>4, <2>5, <2>6, <2>7, <2>8 DEF EnumInv
<1>9. ASSUME NEW d \in Devices, CreateThread(d) PROVE EnumInv'
  <2>1. EnumTypeOK'
    BY <1>0, <1>9, DirsInDevices DEF CreateThread, scanVars, threadVars, EnumTypeOK
  <2>2. MutexInv'
    <3>1. /\ thr[d] = "none" /\ thr' = [thr EXCEPT ![d] = "run"]
          /\ UNCHANGED <<mutex, next, devices>>
      BY <1>0, <1>9 DEF CreateThread, LoopInv
    <3> QED
      BY <1>0, <3>1 DEF EnumTypeOK, MutexInv
  <2>3. LoopInv'
    BY <1>0, <1>9, DirsInDevices DEF CreateThread, scanVars, threadVars, EnumTypeOK, LoopInv, FreshInv, NoThreadAfterFree
  <2>4. FreshInv'
    BY <1>0, <1>9, DirsInDevices DEF CreateThread, scanVars, threadVars, EnumTypeOK, FreshInv, LoopInv, NoThreadAfterFree, SeenInv
  <2>5. SeenInv'
    BY <1>0, <1>9, DirsInDevices DEF CreateThread, scanVars, threadVars, EnumTypeOK, SeenInv, LoopInv
  <2>6. ListInv'
    BY <1>0, <1>9, DirsInDevices DEF CreateThread, scanVars, threadVars, EnumTypeOK, ListInv
  <2>7. NoThreadAfterFree'
    BY <1>0, <1>9, DirsInDevices DEF CreateThread, scanVars, threadVars, EnumTypeOK, NoThreadAfterFree, LoopInv
  <2>8. CrashNeedsFailure'
    BY <1>0, <1>9, DirsInDevices DEF CreateThread, scanVars, threadVars, EnumTypeOK, CrashNeedsFailure, LoopInv
  <2> QED
    BY <2>1, <2>2, <2>3, <2>4, <2>5, <2>6, <2>7, <2>8 DEF EnumInv
<1>10. ASSUME NEW d \in Devices, Join(d) PROVE EnumInv'
  <2>1. EnumTypeOK'
    BY <1>0, <1>10, DirsInDevices DEF Join, scanVars, threadVars, EnumTypeOK
  <2>2. MutexInv'
    BY <1>0, <1>10, DirsInDevices DEF Join, scanVars, threadVars, EnumTypeOK, MutexInv
  <2>3. LoopInv'
    BY <1>0, <1>10, DirsInDevices DEF Join, scanVars, threadVars, EnumTypeOK, LoopInv, FreshInv, NoThreadAfterFree
  <2>4. FreshInv'
    BY <1>0, <1>10, DirsInDevices DEF Join, scanVars, threadVars, EnumTypeOK, FreshInv, LoopInv, NoThreadAfterFree, SeenInv
  <2>5. SeenInv'
    BY <1>0, <1>10, DirsInDevices DEF Join, scanVars, threadVars, EnumTypeOK, SeenInv, LoopInv
  <2>6. ListInv'
    BY <1>0, <1>10, DirsInDevices DEF Join, scanVars, threadVars, EnumTypeOK, ListInv
  <2>7. NoThreadAfterFree'
    BY <1>0, <1>10, DirsInDevices DEF Join, scanVars, threadVars, EnumTypeOK, NoThreadAfterFree, LoopInv
  <2>8. CrashNeedsFailure'
    BY <1>0, <1>10, DirsInDevices DEF Join, scanVars, threadVars, EnumTypeOK, CrashNeedsFailure, LoopInv
  <2> QED
    BY <2>1, <2>2, <2>3, <2>4, <2>5, <2>6, <2>7, <2>8 DEF EnumInv
<1>11. ASSUME NEW d \in Devices, MakeNode(d) PROVE EnumInv'
  <2>1. EnumTypeOK'
    BY <1>0, <1>11, DirsInDevices DEF MakeNode, scanVars, threadVars, EnumTypeOK
  <2>2. MutexInv'
    BY <1>0, <1>11, DirsInDevices DEF MakeNode, scanVars, threadVars, EnumTypeOK, MutexInv
  <2>3. LoopInv'
    BY <1>0, <1>11, DirsInDevices DEF MakeNode, scanVars, threadVars, EnumTypeOK, LoopInv, FreshInv, NoThreadAfterFree
  <2>4. FreshInv'
    BY <1>0, <1>11, DirsInDevices DEF MakeNode, scanVars, threadVars, EnumTypeOK, FreshInv, LoopInv, NoThreadAfterFree, SeenInv
  <2>5. SeenInv'
    BY <1>0, <1>11, DirsInDevices DEF MakeNode, scanVars, threadVars, EnumTypeOK, SeenInv, LoopInv
  <2>6. ListInv'
    BY <1>0, <1>11, DirsInDevices DEF MakeNode, scanVars, threadVars, EnumTypeOK, ListInv
  <2>7. NoThreadAfterFree'
    BY <1>0, <1>11, DirsInDevices DEF MakeNode, scanVars, threadVars, EnumTypeOK, NoThreadAfterFree, LoopInv
  <2>8. CrashNeedsFailure'
    BY <1>0, <1>11, DirsInDevices DEF MakeNode, scanVars, threadVars, EnumTypeOK, CrashNeedsFailure, LoopInv
  <2> QED
    BY <2>1, <2>2, <2>3, <2>4, <2>5, <2>6, <2>7, <2>8 DEF EnumInv
<1>12. ASSUME NEW d \in Devices, Unplug(d) PROVE EnumInv'
  <2>1. EnumTypeOK'
    BY <1>0, <1>12, DirsInDevices DEF Unplug, scanVars, threadVars, EnumTypeOK
  <2>2. MutexInv'
    BY <1>0, <1>12, DirsInDevices DEF Unplug, scanVars, threadVars, EnumTypeOK, MutexInv
  <2>3. LoopInv'
    BY <1>0, <1>12, DirsInDevices DEF Unplug, scanVars, threadVars, EnumTypeOK, LoopInv, FreshInv, NoThreadAfterFree
  <2>4. FreshInv'
    BY <1>0, <1>12, DirsInDevices DEF Unplug, scanVars, threadVars, EnumTypeOK, FreshInv, LoopInv, NoThreadAfterFree, SeenInv
  <2>5. SeenInv'
    BY <1>0, <1>12, DirsInDevices DEF Unplug, scanVars, threadVars, EnumTypeOK, SeenInv, LoopInv
  <2>6. ListInv'
    BY <1>0, <1>12, DirsInDevices DEF Unplug, scanVars, threadVars, EnumTypeOK, ListInv
  <2>7. NoThreadAfterFree'
    BY <1>0, <1>12, DirsInDevices DEF Unplug, scanVars, threadVars, EnumTypeOK, NoThreadAfterFree, LoopInv
  <2>8. CrashNeedsFailure'
    BY <1>0, <1>12, DirsInDevices DEF Unplug, scanVars, threadVars, EnumTypeOK, CrashNeedsFailure, LoopInv
  <2> QED
    BY <2>1, <2>2, <2>3, <2>4, <2>5, <2>6, <2>7, <2>8 DEF EnumInv
<1> QED
  BY <1>1, <1>2, <1>3, <1>4, <1>5, <1>6, <1>7, <1>8, <1>9, <1>10, <1>11, <1>12 DEF Caller

LEMMA EnumInvHolds == EnumSpec => []EnumInv
<1>1. EnumInit => EnumInv
  <2> SUFFICES ASSUME EnumInit PROVE EnumInv
    OBVIOUS
  <2> USE DirsInDevices DEF EnumInit, Idle
  <2>1. EnumTypeOK
    <3>1. failed \in BOOLEAN /\ nodes \subseteq Devices
      OBVIOUS
    <3>2. /\ thr \in [Devices -> {"none", "run", "want", "add", "link", "unlock", "dead"}]
          /\ next \in [Devices -> SUBSET Devices]
      OBVIOUS
    <3>3. dirno \in 1..2
      OBVIOUS
    <3> QED
      BY <3>1, <3>2, <3>3, Zenon DEF EnumTypeOK
  <2>2. MutexInv /\ LoopInv /\ FreshInv
    BY DEF MutexInv, LoopInv, FreshInv
  <2>3. SeenInv /\ ListInv /\ NoThreadAfterFree /\ CrashNeedsFailure
    BY DEF SeenInv, ListInv, NoThreadAfterFree, CrashNeedsFailure
  <2> QED
    BY <2>1, <2>2, <2>3 DEF EnumInv
<1>2. EnumInv /\ [EnumNext]_enumVars => EnumInv'
  <2> SUFFICES ASSUME EnumInv, [EnumNext]_enumVars PROVE EnumInv'
    OBVIOUS
  <2>1. CASE Running /\ Caller
    BY <2>1, CallerKeepsInv
  <2>2. CASE Running /\ \E d \in Devices : Thread(d)
    BY <2>2, ThreadKeepsInv
  <2>3. CASE Running /\ \E d \in Devices : Unplug(d)
    BY <2>3, CallerKeepsInv
  <2>4. CASE UNCHANGED enumVars
    BY <2>4 DEF enumVars, scanVars, threadVars, EnumInv, EnumTypeOK, MutexInv, LoopInv,
                FreshInv, SeenInv, ListInv, NoThreadAfterFree, CrashNeedsFailure, Idle
  <2> QED
    BY <2>1, <2>2, <2>3, <2>4 DEF EnumNext
<1> QED
  BY <1>1, <1>2, PTL DEF EnumSpec

\* For any number of devices: scan_devices frees its threads' data only when none of
\* them runs any more.
THEOREM ThreadsJoined == EnumSpec => []NoThreadAfterFree
BY EnumInvHolds, PTL DEF EnumInv

\* For any number of devices: the scan crashes in pthread_join only after a
\* pthread_create that failed.
THEOREM CrashExplained == EnumSpec => []CrashNeedsFailure
BY EnumInvHolds, PTL DEF EnumInv

\* For any number of devices and any interleaving of their threads: a scan without
\* failed calls makes a node for every device of the subsystem that stays plugged.
THEOREM ScanComplete == EnumSpec => []NothingLost
<1>1. EnumInv => NothingLost
  BY DEF EnumInv, SeenInv, ListInv, NothingLost
<1> QED
  BY <1>1, EnumInvHolds, PTL
=============================================================================
