------------------------------ MODULE Evinput ------------------------------
(***************************************************************************)
(* The input layer of lbml3rd (main.c): the mount points it prepares, the  *)
(* device nodes it creates under /dev, the table of evdev descriptors it   *)
(* opens there and the key events the kernel queues on each of them.       *)
(*                                                                         *)
(* The functions of main.c are operators here: udevzero_scan, do_premount  *)
(* and undo_premount map a state of the kernel to the SET of states they   *)
(* may leave it in, and evinput_init / evinput_deinit / evinput_reload are *)
(* actions.  BootManager composes them with the control flow of main().    *)
(***************************************************************************)
EXTENDS Integers, SequencesExt

CONSTANTS
  Devices,           \* input devices that may ever be plugged in
  Keys,              \* keys the devices have
  EVINPUT_MAXCOUNT,  \* size of evinput_fds[]
  QueueBound,        \* bound: events the kernel queues on one descriptor
  Faults             \* TRUE: a system call of the set-up may fail

\* main.c never compares evinput_dev_count with EVINPUT_MAXCOUNT; the model
\* describes machines whose devices fit the table.
ASSUME DevicesFit ==
  /\ IsFiniteSet(Devices)
  /\ EVINPUT_MAXCOUNT \in Nat
  /\ Cardinality(Devices) <= EVINPUT_MAXCOUNT

ASSUME EvinputBounds == QueueBound \in Nat /\ Faults \in BOOLEAN

(***************************************************************************)
(* Keys after the folding evinput_get does: ENTER and POWER are one key,   *)
(* VOLUMEUP is UP, VOLUMEDOWN is DOWN.  OTHER stands for every other code. *)
(***************************************************************************)
ASSUME KeysAssumption == Keys \subseteq {"CONFIRM", "UP", "DOWN", "C", "R", "OTHER"}

\* A queued event remembers (as history) whether it was typed while a shell
\* had the terminal, i.e. while main() was blocked in waitpid.
Events == [key : Keys, typed : {"menu", "shell"}]

\* Mount points of premountpoints[], and who mounted what is there.
Points == {"sys", "dev"}
Mounts == {"none", "host", "lbml"}

\* The file system visible at /dev, and the node of the framebuffer in it.
DevFs(m) == IF m["dev"] = "none" THEN "root" ELSE m["dev"]
FB0 == "fb0"
ASSUME FB0IsNoInput == FB0 \notin Devices
Nodes == Devices \cup {FB0}

VARIABLES
  devs,    \* input devices the kernel has now
  mnt,     \* what is mounted at /sys and /dev
  nodes,   \* device nodes in each file system that may be seen at /dev
  evfds,   \* the table evinput_fds[0 .. evinput_dev_count - 1], by device
  stale,   \* devices of the table that have been unplugged since
  queue    \* events queued by the kernel on each open descriptor

evinputVars == <<devs, mnt, nodes, evfds, stale, queue>>

\* The types of the input layer.
EvinputTypeOK ==
  /\ devs \subseteq Devices
  /\ mnt \in [Points -> Mounts]
  /\ nodes \in [{"root", "host", "lbml"} -> SUBSET Nodes]
  /\ evfds \in Seq(Devices)
  /\ stale \subseteq Devices
  /\ queue \in [Devices -> Seq(Events)]

(***************************************************************************)
(* An initramfs has nothing mounted and no nodes; on a running system /sys *)
(* and /dev are mounted and devtmpfs has a node for every device.          *)
(***************************************************************************)
EvinputInit ==
  /\ devs \in SUBSET Devices
  /\ \E who \in {"none", "host"} : mnt = [p \in Points |-> who]
  /\ nodes = [f \in {"root", "host", "lbml"} |->
                IF f = "host" THEN devs \cup {FB0} ELSE {}]
  /\ evfds = <<>>
  /\ stale = {}
  /\ queue = [d \in Devices |-> <<>>]

-----------------------------------------------------------------------------
(* Mount points: do_premount, undo_premount *)

\* One mount point: kept when something is mounted there (ismountpoint),
\* otherwise do_premkdir and mount, either of which may fail.
premount1(m, p) ==
  IF m[p] # "none" THEN {[ok |-> TRUE, mnt |-> m]}
  ELSE {[ok |-> TRUE, mnt |-> [m EXCEPT ![p] = "lbml"]]}
       \cup (IF Faults THEN {[ok |-> FALSE, mnt |-> m]} ELSE {})

\* /sys, then /dev, stopping at the first failure.
do_premount(m) ==
  UNION { IF s.ok THEN premount1(s.mnt, "dev") ELSE {s} :
            s \in premount1(m, "sys") }

\* A mount lbml made goes away unless a process holds a file on it; one the
\* host made may be busy for reasons outside the program.
umount1(who, busy) ==
  IF busy THEN {who}
  ELSE IF who = "host" THEN {"none", "host"} ELSE {"none"}

\* busy: somebody still has a descriptor open on a node of /dev.
undo_premount(m, busy) ==
  { u \in [Points -> Mounts] : /\ u["sys"] \in umount1(m["sys"], FALSE)
                               /\ u["dev"] \in umount1(m["dev"], busy) }

-----------------------------------------------------------------------------
(* udevzero_scan: mounts, then a node for every input device found *)

\* mounts and nodes after a scan from mounts m and nodes n.  A failure of a
\* set-up call, or an empty device list, returns before any mknod; a mknod
\* that fails only leaves its node out.
udevzero_scan(m, n) ==
  UNION {
    LET fresh == mntd.mnt["dev"] = "lbml" /\ m["dev"] = "none"
        n0    == IF fresh THEN [n EXCEPT !["lbml"] = {}] ELSE n
        fs    == DevFs(mntd.mnt)
        made  == IF ~mntd.ok \/ devs = {} THEN {{}}
                 ELSE IF Faults THEN SUBSET (devs \cup {FB0})
                 ELSE {devs \cup {FB0}}
    IN  { [mnt |-> mntd.mnt, nodes |-> [n0 EXCEPT ![fs] = @ \cup x]] : x \in made }
    : mntd \in do_premount(m) }

\* The event nodes of /dev/input that open() succeeds on.  Without faults
\* every node of a present device opens.
Openable(s) == s.nodes[DevFs(s.mnt)] \cap devs
OpenedFrom(s) == IF Faults THEN SUBSET Openable(s) ELSE {Openable(s)}

-----------------------------------------------------------------------------
(* evinput_init, evinput_deinit, evinput_reload *)

\* The table is filled in the order of readdir, which may be any; every
\* descriptor is new, so nothing is queued on it yet.
OpenTable(s) ==
  /\ mnt' = s.mnt
  /\ nodes' = s.nodes
  /\ \E D \in OpenedFrom(s) : evfds' \in SetToSeqs(D)
  /\ stale' = {}
  /\ queue' = [d \in Devices |-> <<>>]
  /\ UNCHANGED devs

\* A table that is still in use is closed and NOT scanned for again.
evinput_init(m, n, count, busy) ==
  IF count > 0
  THEN \E u \in undo_premount(m, busy) : OpenTable([mnt |-> u, nodes |-> n])
  ELSE \E s \in udevzero_scan(m, n) : OpenTable(s)

evinput_deinit(busy) ==
  /\ mnt' \in undo_premount(mnt, busy)
  /\ evfds' = <<>>
  /\ stale' = {}
  /\ queue' = [d \in Devices |-> <<>>]
  /\ UNCHANGED <<devs, nodes>>

\* Mutant: reload without the explicit deinit leaves it to evinput_init,
\* which closes the table but does not scan.
evinput_reload_NoDeinit(busy) ==
  evinput_init(mnt, nodes, Len(evfds), busy)

\* Mutant: the descriptors are kept, with whatever is queued on them.
evinput_reload_Skipped(busy) == UNCHANGED evinputVars

\* evinput_deinit, which empties the table, then evinput_init.
evinput_reload(busy) ==
  \E u \in undo_premount(mnt, busy) : evinput_init(u, nodes, 0, busy)

-----------------------------------------------------------------------------
(* evinput_get *)

\* The switch over the key of an event: codes outside it, KEY_R among them,
\* are dropped.
Folded(key) == IF key \in {"CONFIRM", "UP", "DOWN", "C"} THEN key ELSE "none"

\* Descriptors whose next event is a key that evinput_get returns.
Hits == { i \in DOMAIN evfds :
            /\ queue[evfds[i]] # <<>>
            /\ Folded(Head(queue[evfds[i]]).key) # "none" }

\* What the next call returns: the key of the first hit.
NextKey == IF Hits = {} THEN "none" ELSE Head(queue[evfds[Min(Hits)]]).key

\* One pass over the table ends at the first hit; the events read before it
\* are dropped, and without a hit the pass reads every descriptor once.
evinput_get(key) ==
  /\ key = NextKey
  /\ queue' = [d \in Devices |->
                 IF /\ queue[d] # <<>>
                    /\ \E i \in DOMAIN evfds :
                         evfds[i] = d /\ \A h \in Hits : i <= h
                 THEN Tail(queue[d]) ELSE queue[d]]
  /\ UNCHANGED <<devs, mnt, nodes, evfds, stale>>

-----------------------------------------------------------------------------
(* The environment: the keyboard and the bus *)

\* A key goes to every reader of the device, lbml's descriptor included.
KeyPress(d, k, typed) ==
  /\ d \in (ToSet(evfds) \cap devs) \ stale
  /\ Len(queue[d]) < QueueBound
  /\ queue' = [queue EXCEPT ![d] = Append(@, [key |-> k, typed |-> typed])]
  /\ UNCHANGED <<devs, mnt, nodes, evfds, stale>>

Plug(d) ==
  /\ d \notin devs
  /\ devs' = devs \cup {d}
  /\ nodes' = [nodes EXCEPT !["host"] = @ \cup {d}]
  /\ UNCHANGED <<mnt, evfds, stale, queue>>

\* read() on the descriptor of a device that is gone fails: nothing queued
\* there is ever read.
Unplug(d) ==
  /\ d \in devs
  /\ devs' = devs \ {d}
  /\ nodes' = [nodes EXCEPT !["host"] = @ \ {d}]
  /\ stale' = stale \cup ({d} \cap ToSet(evfds))
  /\ queue' = [queue EXCEPT ![d] = <<>>]
  /\ UNCHANGED <<mnt, evfds>>
=============================================================================
