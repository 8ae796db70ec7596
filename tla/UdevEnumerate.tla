--------------------------- MODULE UdevEnumerate ---------------------------
(***************************************************************************)
(* libudev-zero/udev_enumerate.c as udevzero_scan of main.c uses it: a     *)
(* thread per entry of /sys/dev/block and /sys/dev/char looks at one       *)
(* device and adds it to the list of the enumeration, then a node is made  *)
(* for every device of the list.  Devices may be unplugged at any time.    *)
(* The order of a directory is arbitrary, so the entries that a loop has   *)
(* still to visit are a set.                                               *)
(***************************************************************************)
EXTENDS Naturals

CONSTANTS Dir,        \* the two directories scanned: sets of devices
          Subsystem,  \* the subsystem of every device, "" if it has no such link
          SubsystemMatch, SubsystemNomatch   \* the lists of the enumeration

Devices == Dir[1] \cup Dir[2]

ASSUME DirsDisjoint == Dir \in [1..2 -> SUBSET Devices] /\ Dir[1] \cap Dir[2] = {}

VARIABLES pc,       \* of the calling thread
          dirno,    \* index of the directory that is scanned
          names,    \* the entries scandir found in it
          left,     \* those that the current loop has not visited
          failed,   \* pthread_create has failed
          thr,      \* every device's thread
          next,     \* its local list_entry2->next
          mutex,    \* devices whose thread holds the mutex
          devices,  \* the list of the enumeration
          nodes,    \* device nodes that exist
          gone,     \* devices that have been unplugged
          dropped   \* devices without a list entry or a node, for want of memory or space

scanVars == <<pc, dirno, names, left, failed>>
threadVars == <<thr, next, mutex, devices>>
enumVars == <<scanVars, threadVars, nodes, gone, dropped>>

-----------------------------------------------------------------------------
(* add_device, the function of the threads *)

filter_subsystem(d) ==
  /\ Subsystem[d] \notin SubsystemNomatch
  /\ SubsystemMatch # {} => Subsystem[d] \in SubsystemMatch

\* The other filters have empty lists and let everything pass.
Selected(d) == Subsystem[d] # "" /\ filter_subsystem(d)

\* Mutant: the thread tries again until the device can be read.
LookAt_Retry(d) ==
  /\ thr[d] = "run"
  /\ thr' = [thr EXCEPT ![d] = IF d \in gone THEN "run" ELSE IF Selected(d) THEN "want" ELSE "dead"]
  /\ UNCHANGED <<scanVars, next, mutex, devices, nodes, gone, dropped>>

\* udev_device_new_from_syspath, which fails for a device that is gone, and the filters.
LookAt(d) ==
  /\ thr[d] = "run"
  /\ thr' = [thr EXCEPT ![d] = IF d \notin gone /\ Selected(d) THEN "want" ELSE "dead"]
  /\ UNCHANGED <<scanVars, next, mutex, devices, nodes, gone, dropped>>

\* It fails for want of memory too, which makes a difference for these devices.
LookAtNoMemory(d) ==
  /\ thr[d] = "run" /\ d \notin gone /\ Selected(d)
  /\ thr' = [thr EXCEPT ![d] = "dead"]
  /\ dropped' = dropped \cup {d}
  /\ UNCHANGED <<scanVars, next, mutex, devices, nodes, gone>>

\* Mutant: the list is not protected.
Lock_Free(d) ==
  /\ thr[d] = "want"
  /\ mutex' = mutex \cup {d}
  /\ thr' = [thr EXCEPT ![d] = "add"]
  /\ UNCHANGED <<scanVars, next, devices, nodes, gone, dropped>>

Lock(d) ==
  /\ thr[d] = "want" /\ mutex = {}
  /\ mutex' = {d}
  /\ thr' = [thr EXCEPT ![d] = "add"]
  /\ UNCHANGED <<scanVars, next, devices, nodes, gone, dropped>>

\* udev_list_entry_add up to list_entry2->next = list_entry->next
AddRead(d) ==
  /\ thr[d] = "add"
  /\ next' = [next EXCEPT ![d] = devices]
  /\ thr' = [thr EXCEPT ![d] = "link"]
  /\ UNCHANGED <<scanVars, mutex, devices, nodes, gone, dropped>>
AddNoMemory(d) ==
  /\ thr[d] = "add"
  /\ thr' = [thr EXCEPT ![d] = "unlock"]
  /\ dropped' = dropped \cup {d}
  /\ UNCHANGED <<scanVars, next, mutex, devices, nodes, gone>>

\* list_entry->next = list_entry2
AddLink(d) ==
  /\ thr[d] = "link"
  /\ devices' = next[d] \cup {d}
  /\ thr' = [thr EXCEPT ![d] = "unlock"]
  /\ UNCHANGED <<scanVars, next, mutex, nodes, gone, dropped>>

Unlock(d) ==
  /\ thr[d] = "unlock"
  /\ mutex' = mutex \ {d}
  /\ thr' = [thr EXCEPT ![d] = "dead"]
  /\ UNCHANGED <<scanVars, next, devices, nodes, gone, dropped>>

Thread(d) ==
  LookAt(d) \/ LookAtNoMemory(d) \/ Lock(d) \/ AddRead(d) \/ AddNoMemory(d) \/ AddLink(d) \/ Unlock(d)

-----------------------------------------------------------------------------
(* scan_devices, called for each directory *)

Scandir ==
  /\ pc = "scandir"
  /\ names' = Dir[dirno] \ gone /\ left' = names'
  /\ pc' = "create"
  /\ UNCHANGED <<dirno, failed, threadVars, nodes, gone, dropped>>

\* scandir or calloc fails.
ScandirFails ==
  /\ pc = "scandir"
  /\ pc' = "scanned" /\ failed' = TRUE
  /\ UNCHANGED <<dirno, names, left, threadVars, nodes, gone, dropped>>

CreateThread(d) ==
  /\ pc = "create" /\ d \in left
  /\ left' = left \ {d}
  /\ thr' = [thr EXCEPT ![d] = "run"]
  /\ UNCHANGED <<pc, dirno, names, failed, next, mutex, devices, nodes, gone, dropped>>

CreateFails ==
  /\ pc = "create" /\ left # {}
  /\ pc' = "join" /\ left' = names /\ failed' = TRUE
  /\ UNCHANGED <<dirno, names, threadVars, nodes, gone, dropped>>

\* Mutant: the last entry gets no thread.
CreateEnds_Short ==
  /\ pc = "create" /\ (left = {} \/ \E d \in names : left = {d})
  /\ pc' = "join" /\ left' = names
  /\ UNCHANGED <<dirno, names, failed, threadVars, nodes, gone, dropped>>

CreateEnds ==
  /\ pc = "create" /\ left = {}
  /\ pc' = "join" /\ left' = names
  /\ UNCHANGED <<dirno, names, failed, threadVars, nodes, gone, dropped>>

Join(d) ==
  /\ pc = "join" /\ d \in left /\ thr[d] = "dead"
  /\ left' = left \ {d}
  /\ UNCHANGED <<pc, dirno, names, failed, threadVars, nodes, gone, dropped>>

\* The entries behind a failed pthread_create are joined too, after the others:
\* their pthread_t is zero, which musl's pthread_join dereferences.
JoinNothing ==
  /\ pc = "join" /\ left # {} /\ \A d \in left : thr[d] = "none"
  /\ pc' = "crashed"
  /\ UNCHANGED <<dirno, names, left, failed, threadVars, nodes, gone, dropped>>

\* Mutant: the loop ends one thread early.
JoinEnds_Early ==
  /\ pc = "join" /\ (left = {} \/ \E d \in names : left = {d})
  /\ IF dirno = 1 /\ ~failed THEN dirno' = 2 /\ pc' = "scandir"
                             ELSE dirno' = dirno /\ pc' = "scanned"
  /\ UNCHANGED <<names, left, failed, threadVars, nodes, gone, dropped>>

\* The array of the threads and the mutex are freed, and udev_enumerate_scan_devices
\* goes on with the next directory or returns.
JoinEnds ==
  /\ pc = "join" /\ left = {}
  /\ IF dirno = 1 /\ ~failed THEN dirno' = 2 /\ pc' = "scandir"
                             ELSE dirno' = dirno /\ pc' = "scanned"
  /\ UNCHANGED <<names, left, failed, threadVars, nodes, gone, dropped>>

-----------------------------------------------------------------------------
(* udevzero_scan *)

\* The result of the scan is not looked at; an empty list is an error.
UseList ==
  /\ pc = "scanned"
  /\ left' = devices
  /\ pc' = IF devices = {} THEN "done" ELSE "mknod"
  /\ UNCHANGED <<dirno, names, failed, threadVars, nodes, gone, dropped>>

\* A device that is gone has no path, for which mknod fails; it may fail otherwise too.
MakeNode(d) ==
  /\ pc = "mknod" /\ d \in left
  /\ left' = left \ {d}
  /\ \/ d \notin gone /\ nodes' = nodes \cup {d} /\ UNCHANGED dropped
     \/ (d \in gone \/ d \notin nodes) /\ dropped' = dropped \cup {d} /\ UNCHANGED nodes
  /\ UNCHANGED <<pc, dirno, names, failed, threadVars, gone>>

MakeEnds ==
  /\ pc = "mknod" /\ left = {}
  /\ pc' = "done"
  /\ UNCHANGED <<dirno, names, left, failed, threadVars, nodes, gone, dropped>>

Unplug(d) ==
  /\ d \notin gone
  /\ gone' = gone \cup {d}
  /\ UNCHANGED <<scanVars, threadVars, nodes, dropped>>

-----------------------------------------------------------------------------

EnumInit ==
  /\ pc = "scandir" /\ dirno = 1 /\ names = {} /\ left = {} /\ failed = FALSE
  /\ thr = [d \in Devices |-> "none"]
  /\ next = [d \in Devices |-> {}]
  /\ mutex = {} /\ devices = {}
  /\ nodes \in SUBSET Devices
  /\ gone = {} /\ dropped = {}

\* The calling thread.
Caller ==
  \/ Scandir \/ ScandirFails \/ CreateFails \/ CreateEnds \/ JoinNothing \/ JoinEnds
  \/ UseList \/ MakeEnds
  \/ \E d \in Devices : CreateThread(d) \/ Join(d) \/ MakeNode(d)

\* A crash ends the threads with the process.
Running == pc # "crashed"

EnumNext ==
  \/ Running /\ (Caller \/ \E d \in Devices : Thread(d) \/ Unplug(d))
  \/ pc \in {"done", "crashed"} /\ UNCHANGED enumVars

\* The kernel runs every thread that can run.
EnumSpec ==
  /\ EnumInit /\ [][EnumNext]_enumVars
  /\ WF_enumVars(Running /\ Caller)
  /\ \A d \in Devices : WF_enumVars(Running /\ Thread(d))

-----------------------------------------------------------------------------
(* Properties *)

EnumTypeOK ==
  /\ pc \in {"scandir", "create", "join", "scanned", "mknod", "done", "crashed"}
  /\ dirno \in 1..2
  /\ names \subseteq Devices /\ left \subseteq Devices
  /\ failed \in BOOLEAN
  /\ thr \in [Devices -> {"none", "run", "want", "add", "link", "unlock", "dead"}]
  /\ next \in [Devices -> SUBSET Devices]
  /\ mutex \subseteq Devices /\ devices \subseteq Devices
  /\ nodes \subseteq Devices /\ gone \subseteq Devices /\ dropped \subseteq Devices

\* When scan_devices frees its array, with the mutex in it, no thread is left that
\* could use them.
NoThreadAfterFree ==
  pc \in {"scandir", "scanned", "mknod", "done"} =>
    \A d \in Devices : thr[d] \in {"none", "dead"}

\* Only a failed call makes the scan join what was never created.
CrashNeedsFailure == pc = "crashed" => failed

\* No addition to the list is lost to another thread's, and at the end every device
\* of the subsystem has its node, unless it was unplugged or a call has failed.
NothingLost ==
  pc = "done" /\ ~failed =>
    \A d \in Devices : Selected(d) /\ d \notin gone \cup dropped => d \in nodes

\* The scan ends, whatever the threads do to each other.
ScanEnds == <>(pc \in {"done", "crashed"})
=============================================================================
