------------------------- MODULE BootManagerProofs -------------------------
(***************************************************************************)
(* Theorems about BootManager, for every set of devices, configurations    *)
(* and shells.                                                             *)
(***************************************************************************)
EXTENDS BootManager, FiniteSetTheorems, TLAPS

-----------------------------------------------------------------------------
(* Types of the input layer *)

\* A table of distinct open devices is a sequence of devices.
LEMMA TableType ==
  ASSUME NEW D, D \subseteq Devices, NEW t \in SetToSeqs(D)
  PROVE  t \in Seq(Devices)
<1>1. IsFiniteSet(D)
  BY DevicesFit, FS_Subset
<1>2. Cardinality(D) \in Nat
  BY <1>1, FS_CardinalityType
<1>3. t \in [1..Cardinality(D) -> D]
  BY DEF SetToSeqs
<1> QED
  BY <1>2, <1>3

\* undo_premount and do_premount leave a mount, or none, at every point.
LEMMA MountTypes ==
  ASSUME NEW m \in [Points -> Mounts], NEW busy \in BOOLEAN
  PROVE  /\ undo_premount(m, busy) \subseteq [Points -> Mounts]
         /\ \A s \in do_premount(m) : s.ok \in BOOLEAN /\ s.mnt \in [Points -> Mounts]
<1>2. undo_premount(m, busy) \subseteq [Points -> Mounts]
  BY DEF undo_premount
<1>3. \A n \in [Points -> Mounts], p \in Points : \A s \in premount1(n, p) :
        s.ok \in BOOLEAN /\ s.mnt \in [Points -> Mounts]
  <2> TAKE n \in [Points -> Mounts], p \in Points
  <2> TAKE s \in premount1(n, p)
  <2>1. s \in {[ok |-> TRUE, mnt |-> n], [ok |-> FALSE, mnt |-> n],
               [ok |-> TRUE, mnt |-> [n EXCEPT ![p] = "lbml"]]}
    BY DEF premount1
  <2>2. [n EXCEPT ![p] = "lbml"] \in [Points -> Mounts]
    BY DEF Mounts
  <2>3. CASE s = [ok |-> TRUE, mnt |-> n]
    BY <2>3
  <2>4. CASE s = [ok |-> FALSE, mnt |-> n]
    BY <2>4
  <2>5. CASE s = [ok |-> TRUE, mnt |-> [n EXCEPT ![p] = "lbml"]]
    BY <2>2, <2>5
  <2> QED
    BY <2>1, <2>3, <2>4, <2>5
<1>4. \A s \in do_premount(m) : s.ok \in BOOLEAN /\ s.mnt \in [Points -> Mounts]
  BY <1>3 DEF do_premount, Points
<1> QED
  BY <1>2, <1>4

NodeTables == [{"root", "host", "lbml"} -> SUBSET Nodes]

\* udevzero_scan leaves well-typed mounts and nodes.
LEMMA ScanType ==
  ASSUME NEW m \in [Points -> Mounts], NEW n \in NodeTables, devs \subseteq Devices,
         NEW s \in udevzero_scan(m, n)
  PROVE  s.mnt \in [Points -> Mounts] /\ s.nodes \in NodeTables
<1>1. PICK d \in do_premount(m), n0 \in NodeTables, x \in SUBSET Nodes :
        s = [mnt |-> d.mnt, nodes |-> [n0 EXCEPT ![DevFs(d.mnt)] = @ \cup x]]
  BY DEF udevzero_scan, NodeTables, Nodes
<1>2. d.mnt \in [Points -> Mounts]
  BY MountTypes
<1> QED
  BY <1>1, <1>2 DEF NodeTables

\* Filling the table from well-typed mounts and nodes.
LEMMA OpenTableType ==
  ASSUME devs \subseteq Devices,
         NEW s, s.mnt \in [Points -> Mounts], s.nodes \in NodeTables, OpenTable(s)
  PROVE  EvinputTypeOK'
<1>1. PICK D \in OpenedFrom(s) : evfds' \in SetToSeqs(D)
  BY DEF OpenTable
<1>2. D \subseteq Devices
  BY <1>1 DEF OpenedFrom, Openable
<1>3. evfds' \in Seq(Devices)
  BY <1>1, <1>2, TableType
<1> QED
  BY <1>3 DEF OpenTable, EvinputTypeOK, NodeTables

\* evinput_init, in both of its ways.
LEMMA EvinputInitType ==
  ASSUME devs \subseteq Devices, NEW m \in [Points -> Mounts], NEW n \in NodeTables,
         NEW count, NEW busy \in BOOLEAN, evinput_init(m, n, count, busy)
  PROVE  EvinputTypeOK'
<1>1. CASE count > 0
  <2>1. PICK u \in undo_premount(m, busy) : OpenTable([mnt |-> u, nodes |-> n])
    BY <1>1 DEF evinput_init
  <2>2. u \in [Points -> Mounts]
    BY MountTypes
  <2> QED
    BY <2>1, <2>2, OpenTableType
<1>2. CASE ~(count > 0)
  <2>1. PICK s \in udevzero_scan(m, n) : OpenTable(s)
    BY <1>2 DEF evinput_init
  <2> QED
    BY <2>1, ScanType, OpenTableType
<1> QED
  BY <1>1, <1>2

\* evinput_deinit and evinput_reload.
LEMMA EvinputDeinitType ==
  ASSUME EvinputTypeOK, NEW busy \in BOOLEAN, evinput_deinit(busy)
  PROVE  EvinputTypeOK'
<1>1. mnt' \in [Points -> Mounts]
  BY MountTypes DEF evinput_deinit, EvinputTypeOK
<1> QED
  BY <1>1 DEF evinput_deinit, EvinputTypeOK

\* The same for the deinit and init of a reload.
LEMMA EvinputReloadType ==
  ASSUME EvinputTypeOK, NEW busy \in BOOLEAN, evinput_reload(busy)
  PROVE  EvinputTypeOK'
<1>1. PICK u \in undo_premount(mnt, busy) : evinput_init(u, nodes, 0, busy)
  BY DEF evinput_reload
<1>2. u \in [Points -> Mounts]
  BY MountTypes DEF EvinputTypeOK
<1>3. devs \subseteq Devices /\ nodes \in NodeTables
  BY DEF EvinputTypeOK, NodeTables
<1> QED
  BY <1>1, <1>2, <1>3, EvinputInitType

\* Reading events, and the environment's steps.
LEMMA EvinputGetType ==
  ASSUME EvinputTypeOK, NEW key, evinput_get(key)
  PROVE  EvinputTypeOK'
<1>1. \A q \in Seq(Events) : q # <<>> => Tail(q) \in Seq(Events)
  OBVIOUS
<1>2. queue' \in [Devices -> Seq(Events)]
  BY <1>1 DEF evinput_get, EvinputTypeOK
<1> QED
  BY <1>2 DEF evinput_get, EvinputTypeOK

\* A key, a device that comes and one that goes keep the types.
LEMMA EvinputEnvType ==
  ASSUME EvinputTypeOK, NEW d \in Devices
  PROVE  /\ \A k \in Keys, typed \in {"menu", "shell"} : KeyPress(d, k, typed) => EvinputTypeOK'
         /\ Plug(d) => EvinputTypeOK'
         /\ Unplug(d) => EvinputTypeOK'
<1>1. ASSUME NEW k \in Keys, NEW typed \in {"menu", "shell"}, KeyPress(d, k, typed)
      PROVE  EvinputTypeOK'
  <2>1. [key |-> k, typed |-> typed] \in Events
    BY DEF Events
  <2>2. queue' \in [Devices -> Seq(Events)]
    BY <1>1, <2>1 DEF KeyPress, EvinputTypeOK
  <2> QED
    BY <1>1, <2>2 DEF KeyPress, EvinputTypeOK
<1>2. ASSUME Plug(d) PROVE EvinputTypeOK'
  BY <1>2 DEF Plug, EvinputTypeOK, Nodes
<1>3. ASSUME Unplug(d) PROVE EvinputTypeOK'
  <2>1. queue' \in [Devices -> Seq(Events)]
    BY <1>3 DEF Unplug, EvinputTypeOK
  <2>2. devs' \subseteq Devices /\ stale' \subseteq Devices
    BY <1>3 DEF Unplug, EvinputTypeOK
  <2>3. nodes' \in [{"root", "host", "lbml"} -> SUBSET Nodes]
    BY <1>3 DEF Unplug, EvinputTypeOK
  <2> QED
    BY <1>3, <2>1, <2>2, <2>3 DEF Unplug, EvinputTypeOK
<1> QED
  BY <1>1, <1>2, <1>3

\* While /dev may be busy is always a truth value.
LEMMA BusyType == DevBusy \subseteq BOOLEAN
  BY DEF DevBusy

-----------------------------------------------------------------------------
(* Types of the control state *)

PCs == StartUp \cup Service \cup Entry \cup Shell \cup Deinit \cup Terminal

\* The clamp keeps the selection inside a menu that has entries.
LEMMA ClampInside ==
  ASSUME menu_entries \in Seq(EntryTypes), menu_entries # <<>>, NEW i \in Int
  PROVE  ClampSel(i) \in 0..(Len(menu_entries) - 1)
<1>1. Len(menu_entries) \in Nat /\ Len(menu_entries) > 0
  OBVIOUS
<1> QED
  BY <1>1 DEF ClampSel

\* One step of the model keeps the types of the control state.
LEMMA BootTypeStep ==
  ASSUME BootTypeOK, Next
  PROVE  BootTypeOK'
<1> USE DEF Goto, configVars, menuVars, fbVars, shellVars, set_echo_enabled, LeaveMenu
<1>a. PCs = StartUp \cup Service \cup Entry \cup Shell \cup Deinit \cup Terminal
  BY DEF PCs
<1>m. MaxEntries \in Nat \ {0} /\ IsPid1 \in BOOLEAN /\ StdinIsTty \in BOOLEAN
  BY ConfigsAssumption, BootAssumption
<1>p. printUI => shown' \in {NoMenu} \cup 0..(MaxEntries - 1)
  BY DEF printUI, BootTypeOK
<1>1. CASE InitInput \/ libfbpads_init
  <2>1. CASE InitInput
    BY <2>1 DEF InitInput, BootTypeOK, StartUp
  <2>2. CASE libfbpads_init
    BY <2>2 DEF libfbpads_init, BootTypeOK, StartUp
  <2> QED
    BY <1>1, <2>1, <2>2
<1>2. CASE parse_menu_config
  BY <1>2, ConfigsAssumption DEF parse_menu_config, BootTypeOK, StartUp
<1>3. CASE CheckDisplay
  BY <1>3 DEF CheckDisplay, BootTypeOK, StartUp, Deinit
<1>4. CASE InstallHandler \/ display_logo
  <2>1. CASE InstallHandler
    <3>1. pc' \in {"splash", "printUI"} /\ echo' \in BOOLEAN
      BY <2>1, <1>m DEF InstallHandler, BootTypeOK
    <3>2. pc' \in PCs
      BY <3>1 DEF PCs, Service
    <3> QED
      BY <2>1, <1>a, <3>1, <3>2 DEF InstallHandler, BootTypeOK
  <2>2. CASE display_logo
    BY <2>2 DEF display_logo, BootTypeOK, Service
  <2> QED
    BY <1>4, <2>1, <2>2
<1>5. CASE FirstMenu
  BY <1>5, <1>p DEF FirstMenu, BootTypeOK, Service
<1>6. CASE LoopTest \/ EmptyMenu
  <2>1. CASE LoopTest
    BY <2>1 DEF LoopTest, BootTypeOK, Service, Deinit
  <2>2. CASE EmptyMenu
    BY <2>2 DEF EmptyMenu, BootTypeOK, Service, Deinit
  <2> QED
    BY <1>6, <2>1, <2>2
<1>7. CASE Paint
  BY <1>7, <1>p DEF Paint, BootTypeOK, Service
<1>8. ASSUME NEW k \in Keys \cup {"none"}, Dispatch(k)
      PROVE  BootTypeOK'
  <2>1. menu_sel_curr' \in 0..(MaxEntries - 1) /\ sel_changed' \in BOOLEAN
    <3>1. CASE k \in {"UP", "DOWN"}
      <4>1. PICK i \in Int : menu_sel_curr' = ClampSel(i) /\ sel_changed' = TRUE
        BY <1>8, <3>1 DEF Dispatch, menu_sel_rel, BootTypeOK
      <4>2. menu_sel_curr' \in 0..(Len(menu_entries) - 1)
        BY <1>8, <4>1, ClampInside DEF Dispatch, BootTypeOK
      <4> QED
        BY <1>m, <4>1, <4>2 DEF BootTypeOK
    <3>2. CASE k \notin {"UP", "DOWN"}
      BY <1>8, <3>2 DEF Dispatch, BootTypeOK
    <3> QED
      BY <3>1, <3>2
  <2>2. pc' \in {"do_entry", "rebooting", "fork", "paint"}
    BY <1>8 DEF Dispatch
  <2>3. pc' \in PCs
    BY <2>2 DEF PCs, Entry, Service, Shell, Terminal
  <2> QED
    BY <1>8, <1>a, <2>1, <2>3 DEF Dispatch, BootTypeOK
<1>9. CASE do_entry
  <2>1. pc' \in {"exec_params", "entry_enter", "sash"} /\ echo' \in BOOLEAN
    BY <1>9, <1>m DEF do_entry, BootTypeOK
  <2> QED
    BY <1>9, <2>1 DEF do_entry, BootTypeOK, Entry
<1>10. CASE exec_params
  <2>1. pc' \in {"params_enter", "booted", "entry_enter"} /\ echo' \in BOOLEAN
    BY <1>10, <1>m DEF exec_params, BootTypeOK
  <2> QED
    BY <1>10, <2>1 DEF exec_params, BootTypeOK, Entry, Terminal
<1>11. CASE sash_execCommand
  BY <1>11 DEF sash_execCommand, BootTypeOK, Entry, Terminal, Deinit
<1>12. ASSUME NEW k \in Keys \cup {"none"}, wait_enter(k)
       PROVE  BootTypeOK'
  <2>1. pc' \in {pc, "destroy", "paint", "entry_enter"} /\ echo' \in BOOLEAN
    BY <1>12, <1>m DEF wait_enter, BootTypeOK
  <2>2. shown' \in {NoMenu} \cup 0..(MaxEntries - 1)
    BY <1>12, <1>p DEF wait_enter, BootTypeOK
  <2> QED
    BY <1>12, <2>1, <2>2 DEF wait_enter, BootTypeOK, Entry, Service, Deinit
<1>13. CASE Fork
  BY <1>13 DEF Fork, BootTypeOK, Service, Shell, ShellStates
<1>14. CASE waitpid
  BY <1>14 DEF waitpid, BootTypeOK, Shell, ShellStates
<1>15. CASE Sleep \/ Resume \/ Reload
  <2>1. CASE Sleep
    BY <2>1 DEF Sleep, BootTypeOK, Shell
  <2>2. CASE Resume
    BY <2>2 DEF Resume, BootTypeOK, Shell
  <2>3. CASE Reload
    BY <2>3 DEF Reload, BootTypeOK, Shell
  <2> QED
    BY <1>15, <2>1, <2>2, <2>3
<1>16. CASE Redraw
  BY <1>16, <1>m, <1>p DEF Redraw, BootTypeOK, Service
<1>17. CASE libfbpads_destroy \/ RestoreEcho \/ DeinitInput
  <2>1. CASE libfbpads_destroy
    BY <2>1 DEF libfbpads_destroy, BootTypeOK, Deinit
  <2>2. CASE RestoreEcho
    <3>1. pc' \in {"segv", "evinput_deinit"} /\ echo' \in BOOLEAN
      BY <2>2, <1>m DEF RestoreEcho, BootTypeOK
    <3>2. pc' \in PCs
      BY <3>1 DEF PCs, Deinit, Terminal
    <3> QED
      BY <2>2, <1>a, <3>1, <3>2 DEF RestoreEcho, BootTypeOK
  <2>3. CASE DeinitInput
    BY <2>3 DEF DeinitInput, BootTypeOK, Terminal
  <2> QED
    BY <1>17, <2>1, <2>2, <2>3
<1>18. CASE lbml_printf_Fault
  BY <1>18 DEF lbml_printf_Fault, BootTypeOK, Terminal
<1>19. CASE SIGINT_Default \/ onSIGINT
  <2>1. CASE SIGINT_Default
    BY <2>1 DEF SIGINT_Default, BootTypeOK, Terminal, Shell
  <2>2. CASE onSIGINT
    BY <2>2 DEF onSIGINT, BootTypeOK, Terminal, Shell
  <2> QED
    BY <1>19, <2>1, <2>2
<1>20. ASSUME NEW s \in ShellIds, enter_shell(s) \/ ShellOutput(s) \/ ShellExit(s) \/ ShellSignal(s)
       PROVE  BootTypeOK'
  <2>1. shells' \in [ShellIds -> ShellStates]
    BY <1>20 DEF enter_shell, ShellOutput, ShellExit, ShellSignal, Becomes, BootTypeOK, ShellStates
  <2>2. echo' \in BOOLEAN /\ shown' \in {NoMenu} \cup 0..(MaxEntries - 1)
    BY <1>20, <1>m DEF enter_shell, ShellOutput, ShellExit, ShellSignal, BootTypeOK
  <2>3. UNCHANGED <<pc, going_exit, handler, configVars, menuVars, fbVars, waited, programs,
                     abandoned>>
    BY <1>20 DEF enter_shell, ShellOutput, ShellExit, ShellSignal, shellUnchanged
  <2> QED
    BY <2>1, <2>2, <2>3 DEF BootTypeOK
<1>21. ASSUME NEW d \in Devices, Hotplug(d) \/ \E k \in Keys : Key(d, k)
       PROVE  BootTypeOK'
  BY <1>21 DEF Hotplug, Key, userUnchanged, BootTypeOK
<1>22. CASE Finished
  BY <1>22 DEF Finished, vars, BootTypeOK
<1>23. CASE RunProgram \/ ProgramOutput \/ ProgramsEnd
  <2>1. CASE RunProgram
    BY <2>1 DEF RunProgram, programUnchanged, BootTypeOK
  <2>2. CASE ProgramOutput
    <3>1. echo' \in BOOLEAN /\ shown' = NoMenu
      BY <2>2, <1>m DEF ProgramOutput, BootTypeOK
    <3> QED
      BY <2>2, <3>1 DEF ProgramOutput, programUnchanged, BootTypeOK
  <2>3. CASE ProgramsEnd
    <3>1. /\ programs' \in BOOLEAN
          /\ UNCHANGED <<pc, going_exit, handler, configVars, menuVars, fbVars, shown, echo>>
          /\ UNCHANGED <<shells, waited, abandoned>>
      BY <2>3 DEF ProgramsEnd, programUnchanged
    <3> QED
      BY <3>1 DEF BootTypeOK
  <2> QED
    BY <1>23, <2>1, <2>2, <2>3
<1> QED
  BY <1>1, <1>2, <1>3, <1>4, <1>5, <1>6, <1>7, <1>8, <1>9, <1>10, <1>11, <1>12, <1>13,
     <1>14, <1>15, <1>16, <1>17, <1>18, <1>19, <1>20, <1>21, <1>22, <1>23
     DEF Next, Main, Start, Menu, RunEntry, RunShell, Leave, Environment

\* One step of the model keeps the types of the input layer.
LEMMA EvinputTypeStep ==
  ASSUME EvinputTypeOK, Next
  PROVE  EvinputTypeOK'
<1>1. CASE InitInput
  <2>1. devs \subseteq Devices /\ mnt \in [Points -> Mounts] /\ nodes \in NodeTables
    BY DEF EvinputTypeOK, NodeTables
  <2> QED
    BY <1>1, <2>1, EvinputInitType DEF InitInput
<1>2. ASSUME NEW k, Dispatch(k) \/ wait_enter(k)
      PROVE  EvinputTypeOK'
  BY <1>2, EvinputGetType DEF Dispatch, wait_enter
<1>3. CASE Reload
  BY <1>3, BusyType, EvinputReloadType DEF Reload
<1>4. CASE DeinitInput
  BY <1>4, BusyType, EvinputDeinitType DEF DeinitInput
<1>5. ASSUME NEW d \in Devices, Hotplug(d) \/ \E k \in Keys : Key(d, k)
      PROVE  EvinputTypeOK'
  BY <1>5, EvinputEnvType DEF Hotplug, Key
<1>6. CASE UNCHANGED evinputVars
  BY <1>6 DEF evinputVars, EvinputTypeOK
<1>7. \/ InitInput \/ Reload \/ DeinitInput
      \/ \E k \in Keys \cup {"none"} : Dispatch(k) \/ wait_enter(k)
      \/ \E d \in Devices : Hotplug(d) \/ \E k \in Keys : Key(d, k)
      \/ UNCHANGED evinputVars
  <2>1. CASE Start \/ Leave
    BY <2>1 DEF Start, Leave, libfbpads_init, parse_menu_config, CheckDisplay,
       InstallHandler, display_logo, FirstMenu, libfbpads_destroy, RestoreEcho
  <2>2. CASE Menu \/ RunEntry
    BY <2>2 DEF Menu, RunEntry, LoopTest, EmptyMenu, Paint, do_entry, exec_params
  <2>3. CASE RunShell
    BY <2>3 DEF RunShell, Fork, waitpid, Sleep, Resume, Redraw
  <2>4. CASE Environment
    BY <2>4 DEF Environment, SIGINT_Default, onSIGINT, enter_shell, ShellOutput,
       ShellExit, ShellSignal, shellUnchanged, RunProgram, ProgramOutput, ProgramsEnd,
       programUnchanged
  <2>5. CASE sash_execCommand \/ lbml_printf_Fault \/ Finished
    BY <2>5 DEF sash_execCommand, lbml_printf_Fault, Finished, vars
  <2> QED
    BY <2>1, <2>2, <2>3, <2>4, <2>5 DEF Next, Main
<1> QED
  BY <1>1, <1>2, <1>3, <1>4, <1>5, <1>6, <1>7

\* main() starts from well-typed state.
LEMMA InitType == Init => TypeOK
<1> SUFFICES ASSUME Init PROVE TypeOK
  OBVIOUS
<1>1. BootTypeOK
  <2>1. shells \in [ShellIds -> ShellStates]
    BY DEF Init, ShellStates
  <2>2. MaxEntries \in Nat \ {0}
    BY ConfigsAssumption
  <2>3. menu_entries \in Seq(EntryTypes) /\ Len(menu_entries) <= MaxEntries
    BY <2>2 DEF Init
  <2>4. menu_sel_curr \in 0..(MaxEntries - 1)
    BY <2>2 DEF Init
  <2>5. pc \in StartUp /\ config_display_device \in Displays
    BY DEF Init, StartUp, Displays
  <2> QED
    BY <2>1, <2>3, <2>4, <2>5 DEF Init, BootTypeOK
<1>2. EvinputTypeOK
  <2>1. nodes \in [{"root", "host", "lbml"} -> SUBSET Nodes]
    BY DEF Init, EvinputInit, Nodes
  <2>2. mnt \in [Points -> Mounts]
    BY DEF Init, EvinputInit, Mounts
  <2> QED
    BY <2>1, <2>2 DEF Init, EvinputInit, EvinputTypeOK
<1> QED
  BY <1>1, <1>2 DEF TypeOK

\* Types are inductive: both layers together, stuttering included.
LEMMA TypeStep == TypeOK /\ [Next]_vars => TypeOK'
<1> SUFFICES ASSUME TypeOK, [Next]_vars PROVE TypeOK'
  OBVIOUS
<1>1. CASE Next
  BY <1>1, EvinputTypeStep, BootTypeStep DEF TypeOK
<1>2. CASE UNCHANGED vars
  <2>1. EvinputTypeOK'
    BY <1>2 DEF TypeOK, vars, evinputVars, EvinputTypeOK
  <2>2. BootTypeOK'
    BY <1>2 DEF TypeOK, vars, configVars, menuVars, fbVars, shellVars, BootTypeOK
  <2> QED
    BY <2>1, <2>2 DEF TypeOK
<1> QED
  BY <1>1, <1>2

\* Type correctness of the process and its input layer, for every number of
\* devices, entries and shells.  It bounds menu_sel_curr by the length of
\* menu_entries[] and the descriptor table by devices there are.
THEOREM TypeCorrect == Spec => []TypeOK
<1>1. Init => TypeOK
  BY InitType
<1>2. TypeOK /\ [Next]_vars => TypeOK'
  BY TypeStep
<1> QED
  BY <1>1, <1>2, PTL DEF Spec

\* Every action keeps the five parts of ControlInv.
LEMMA ControlStep ==
  ASSUME BootTypeOK, ControlInv, Next
  PROVE  ControlInv'
<1> USE ConfigsAssumption, BootAssumption
        DEF Goto, configVars, menuVars, fbVars, shellVars, set_echo_enabled, LeaveMenu,
            LBML_HAS_FB, StartUp, Service, Entry, Shell, Terminal, ControlInv, ShellInv,
            SelInv, ShownInv, EchoInv, ConsoleInv, LiveShells, Alive, NoMenu
<1>1. CASE InitInput
  BY <1>1 DEF InitInput, BootTypeOK
<1>2. CASE libfbpads_init
  BY <1>2 DEF libfbpads_init, BootTypeOK
<1>3. CASE parse_menu_config
  BY <1>3 DEF parse_menu_config, BootTypeOK
<1>4. CASE CheckDisplay
  BY <1>4 DEF CheckDisplay, BootTypeOK
<1>5. CASE InstallHandler
  BY <1>5 DEF InstallHandler, BootTypeOK
<1>6. CASE display_logo
  BY <1>6 DEF display_logo, BootTypeOK
<1>7. CASE FirstMenu
  BY <1>7 DEF FirstMenu, printUI, BootTypeOK
<1>8. CASE LoopTest \/ EmptyMenu
  BY <1>8 DEF LoopTest, EmptyMenu, BootTypeOK
<1>9. CASE Paint
  BY <1>9 DEF Paint, printUI, BootTypeOK
<1>10. ASSUME NEW k \in Keys \cup {"none"}, Dispatch(k) PROVE ControlInv'
  BY <1>10 DEF Dispatch, BootTypeOK, printUI, menu_sel_rel, ClampSel
<1>11. CASE do_entry
  BY <1>11 DEF do_entry, BootTypeOK
<1>12. CASE exec_params
  BY <1>12 DEF exec_params, BootTypeOK
<1>13. CASE sash_execCommand
  BY <1>13 DEF sash_execCommand, BootTypeOK
<1>14. ASSUME NEW k \in Keys \cup {"none"}, wait_enter(k) PROVE ControlInv'
  <2>1. ShellInv' /\ SelInv' /\ ConsoleInv'
    BY <1>14 DEF wait_enter
  <2>2. ShownInv'
    BY <1>14 DEF wait_enter, BootTypeOK, printUI
  <2>3. EchoInv'
    BY <1>14 DEF wait_enter
  <2> QED
    BY <2>1, <2>2, <2>3
<1>15. CASE Fork
  BY <1>15 DEF Fork, BootTypeOK
<1>16. CASE waitpid
  <2>1. SelInv' /\ ShownInv' /\ EchoInv' /\ ConsoleInv'
    BY <1>16 DEF waitpid
  <2>2. pc' \in Shell \ {"waitpid"} /\ waited' = "nobody" /\ handler'
    BY <1>16 DEF waitpid
  <2>4. ~abandoned' => ~programs'
    BY <1>16 DEF waitpid
  <2>3. ASSUME ~abandoned', NEW s \in ShellIds PROVE ~Alive(s)'
    <3>1. waited \in ShellIds /\ shells[waited] \in {"exited", "killed"}
      BY <1>16, <2>3 DEF waitpid, BootTypeOK
    <3>2. CASE s = waited
      BY <1>16, <3>1, <3>2 DEF waitpid, BootTypeOK
    <3>3. CASE s # waited
      BY <1>16, <2>3, <3>1, <3>3 DEF waitpid, BootTypeOK
    <3> QED
      BY <3>2, <3>3
  <2> QED
    BY <2>1, <2>2, <2>3, <2>4
<1>17. CASE Sleep \/ Resume \/ Reload
  BY <1>17 DEF Sleep, Resume, Reload, BootTypeOK
<1>18. CASE Redraw
  BY <1>18 DEF Redraw, printUI, BootTypeOK
<1>19. CASE libfbpads_destroy
  BY <1>19 DEF libfbpads_destroy, BootTypeOK
<1>20. CASE RestoreEcho
  BY <1>20 DEF RestoreEcho, BootTypeOK
<1>21. CASE DeinitInput
  BY <1>21 DEF DeinitInput, BootTypeOK
<1>22. CASE lbml_printf_Fault
  BY <1>22 DEF lbml_printf_Fault, PrintPoints, BootTypeOK
<1>23. CASE SIGINT_Default
  BY <1>23 DEF SIGINT_Default, BootTypeOK
<1>24. CASE onSIGINT
  BY <1>24 DEF onSIGINT, BootTypeOK
<1>25. ASSUME NEW s \in ShellIds, enter_shell(s) PROVE ControlInv'
  BY <1>25 DEF enter_shell, BootTypeOK, Becomes, shellUnchanged
<1>26. ASSUME NEW s \in ShellIds, ShellOutput(s) PROVE ControlInv'
  BY <1>26 DEF ShellOutput, BootTypeOK, Becomes, shellUnchanged
<1>27. ASSUME NEW s \in ShellIds, ShellExit(s) PROVE ControlInv'
  BY <1>27 DEF ShellExit, BootTypeOK, Becomes, shellUnchanged
<1>28. ASSUME NEW s \in ShellIds, ShellSignal(s) PROVE ControlInv'
  BY <1>28 DEF ShellSignal, BootTypeOK, Becomes, shellUnchanged
<1>29. ASSUME NEW d \in Devices, Hotplug(d) \/ \E k \in Keys : Key(d, k) PROVE ControlInv'
  BY <1>29 DEF Hotplug, Key, userUnchanged
<1>30. CASE Finished
  BY <1>30 DEF Finished, vars
<1>31. CASE RunProgram
  BY <1>31 DEF RunProgram, programUnchanged, BootTypeOK
<1>32. CASE ProgramOutput
  BY <1>32 DEF ProgramOutput, programUnchanged, BootTypeOK
<1>33. CASE ProgramsEnd
  BY <1>33 DEF ProgramsEnd, programUnchanged, BootTypeOK
<1> QED
  BY <1>1, <1>2, <1>3, <1>4, <1>5, <1>6, <1>7, <1>8, <1>9, <1>10, <1>11, <1>12, <1>13,
     <1>14, <1>15, <1>16, <1>17, <1>18, <1>19, <1>20, <1>21, <1>22, <1>23, <1>24, <1>25,
     <1>26, <1>27, <1>28, <1>29, <1>30, <1>31, <1>32, <1>33
     DEF Next, Main, Start, Menu, RunEntry, RunShell, Leave, Environment

\* main() starts with ControlInv.
LEMMA InitControl == Init => ControlInv
  BY DEF Init, ControlInv, ShellInv, SelInv, ShownInv, EchoInv, ConsoleInv, LiveShells,
     Alive, StartUp, Service, Entry, Shell

\* A stuttering step keeps it.
LEMMA ControlStutter == ControlInv /\ UNCHANGED vars => ControlInv'
  BY DEF vars, configVars, menuVars, fbVars, shellVars, LBML_HAS_FB, ControlInv, ShellInv,
     SelInv, ShownInv, EchoInv, ConsoleInv, LiveShells, Alive

\* The parts of the inductive invariant hold throughout.
THEOREM ControlCorrect == Spec => []ControlInv
<1>1. Init => ControlInv
  BY InitControl
<1>2. BootTypeOK /\ ControlInv /\ [Next]_vars => ControlInv'
  BY ControlStep, ControlStutter
<1>3. TypeOK => BootTypeOK
  BY DEF TypeOK
<1> QED
  BY <1>1, <1>2, <1>3, TypeCorrect, PTL DEF Spec

\* What the user sees is what ENTER boots: the row printUI highlighted is
\* menu_sel_curr, an entry of menu_entries[], whenever a key can be read.
THEOREM SelectionShown == Spec => []ShownIsSelected
<1>1. BootTypeOK /\ ControlInv => ShownIsSelected
  BY DEF BootTypeOK, ControlInv, SelInv, ShownInv, ShownIsSelected
<1>2. TypeOK => BootTypeOK
  BY DEF TypeOK
<1> QED
  BY <1>1, <1>2, TypeCorrect, ControlCorrect, PTL

\* The menu reads keys on a terminal that does not echo, whatever do_entry or
\* enter_shell did to it before.
THEOREM MenuSilent == Spec => []EchoOffAtMenu
<1>1. ControlInv => EchoOffAtMenu
  BY DEF ControlInv, EchoInv, EchoOffAtMenu, Service
<1> QED
  BY <1>1, ControlCorrect, PTL

\* From main()'s check of stat_libfbpads to libfbpads_destroy the console of
\* a framebuffer display exists.
THEOREM ConsoleStaysLive == Spec => []ConsoleLive
<1>1. ControlInv => ConsoleLive
  BY DEF ControlInv, ConsoleInv, ConsoleLive
<1> QED
  BY <1>1, ControlCorrect, PTL

-----------------------------------------------------------------------------
(* Keys typed into a shell *)

\* Every queued event was typed at the menu.
MenuTyped(q) == \A d \in Devices : \A i \in DOMAIN q[d] : q[d][i].typed = "menu"

\* evinput_init and evinput_reload leave nothing queued.
LEMMA ReloadEmpties ==
  ASSUME NEW busy, evinput_reload(busy)
  PROVE  MenuTyped(queue')
<1>1. queue' = [d \in Devices |-> <<>>]
  BY DEF evinput_reload, evinput_init, OpenTable
<1> QED
  BY <1>1 DEF MenuTyped

\* Every action keeps shell keys out of the queues the menu reads.
LEMMA StaleKeysStep ==
  ASSUME TypeOK, ControlInv, StaleKeysDropped, Next
  PROVE  StaleKeysDropped'
<1> USE DEF Goto
<1>q. queue \in [Devices -> Seq(Events)]
  BY DEF TypeOK, EvinputTypeOK
<1>d. StaleKeysDropped <=> (pc \notin {"waitpid", "sleep", "resume", "reload"} => MenuTyped(queue))
  BY DEF StaleKeysDropped, MenuTyped
<1>e. StaleKeysDropped' <=> (pc' \notin {"waitpid", "sleep", "resume", "reload"} => MenuTyped(queue'))
  BY DEF StaleKeysDropped, MenuTyped
<1>0. CASE queue' = [d \in Devices |-> <<>>]
  BY <1>0, <1>e DEF MenuTyped
<1>1. CASE InitInput \/ DeinitInput
  BY <1>1, <1>0 DEF InitInput, DeinitInput, evinput_init, evinput_deinit, OpenTable
<1>2. CASE Reload
  BY <1>2, <1>e, ReloadEmpties DEF Reload
<1>3. ASSUME NEW k, Dispatch(k) \/ wait_enter(k)
      PROVE  StaleKeysDropped'
  <2>1. evinput_get(k) /\ pc \notin {"waitpid", "sleep", "resume", "reload"}
    BY <1>3 DEF Dispatch, wait_enter
  <2>2. ASSUME NEW d \in Devices, NEW i \in DOMAIN queue'[d]
        PROVE  queue'[d][i].typed = "menu"
    <3>1. queue[d] \in Seq(Events)
      BY <1>q
    <3>2. \A j \in DOMAIN queue[d] : queue[d][j].typed = "menu"
      BY <1>d, <2>1 DEF MenuTyped
    <3>3. queue'[d] = queue[d] \/ (queue[d] # <<>> /\ queue'[d] = Tail(queue[d]))
      BY <2>1 DEF evinput_get
    <3>4. CASE queue'[d] = queue[d]
      BY <3>2, <3>4, <2>2
    <3>5. CASE queue[d] # <<>> /\ queue'[d] = Tail(queue[d])
      <4>1. i + 1 \in DOMAIN queue[d] /\ queue'[d][i] = queue[d][i + 1]
        BY <3>1, <3>5, <2>2
      <4> QED
        BY <3>2, <4>1
    <3> QED
      BY <3>3, <3>4, <3>5
  <2> QED
    BY <2>2, <1>e DEF MenuTyped
<1>4. ASSUME NEW d \in Devices, NEW k \in Keys, Key(d, k)
      PROVE  StaleKeysDropped'
  <2>1. CASE pc = "waitpid"
    BY <1>4, <2>1, <1>e DEF Key, userUnchanged
  <2>2. CASE pc # "waitpid"
    <3>1. queue' = [queue EXCEPT ![d] = Append(@, [key |-> k, typed |-> "menu"])]
      BY <1>4, <2>2 DEF Key, KeyPress
    <3>2. MenuTyped(queue) => MenuTyped(queue')
      <4> SUFFICES ASSUME MenuTyped(queue), NEW e \in Devices, NEW i \in DOMAIN queue'[e]
                   PROVE  queue'[e][i].typed = "menu"
        BY DEF MenuTyped
      <4>1. queue[e] \in Seq(Events) /\ \A j \in DOMAIN queue[e] : queue[e][j].typed = "menu"
        BY <1>q DEF MenuTyped
      <4>2. CASE e # d
        BY <3>1, <4>1, <4>2, <1>q
      <4>3. CASE e = d
        <5>1. queue'[e] = Append(queue[e], [key |-> k, typed |-> "menu"])
          BY <3>1, <4>3, <1>q
        <5>2. i \in 1..(Len(queue[e]) + 1)
          BY <4>1, <5>1
        <5>3. CASE i = Len(queue[e]) + 1
          BY <4>1, <5>1, <5>3
        <5>4. CASE i # Len(queue[e]) + 1
          <6>1. i \in DOMAIN queue[e] /\ queue'[e][i] = queue[e][i]
            BY <4>1, <5>1, <5>2, <5>4
          <6> QED
            BY <4>1, <6>1
        <5> QED
          BY <5>3, <5>4
      <4> QED
        BY <4>2, <4>3
    <3> QED
      BY <1>4, <3>2, <1>d, <1>e DEF Key, userUnchanged
  <2> QED
    BY <2>1, <2>2
<1>5. ASSUME NEW d \in Devices, Hotplug(d)
      PROVE  StaleKeysDropped'
  <2>1. queue' = queue \/ queue' = [queue EXCEPT ![d] = <<>>]
    BY <1>5 DEF Hotplug, Plug, Unplug
  <2>2. MenuTyped(queue) => MenuTyped(queue')
    BY <2>1, <1>q DEF MenuTyped
  <2> QED
    BY <1>5, <2>2, <1>d, <1>e DEF Hotplug, userUnchanged
<1>6. ASSUME UNCHANGED queue,
             pc \in {"waitpid", "sleep", "resume", "reload"}
               => pc' \in {"waitpid", "sleep", "resume", "reload"}
      PROVE  StaleKeysDropped'
  BY <1>6, <1>d, <1>e
<1>7. CASE sash_execCommand \/ lbml_printf_Fault \/ Finished \/ SIGINT_Default \/ onSIGINT
  BY <1>7, <1>6 DEF sash_execCommand, lbml_printf_Fault, Finished, SIGINT_Default, onSIGINT,
     PrintPoints, ControlInv, ShellInv, Shell, Terminal, vars, evinputVars
<1>8. CASE \E s \in ShellIds : enter_shell(s) \/ ShellOutput(s) \/ ShellExit(s) \/ ShellSignal(s)
  BY <1>8, <1>6 DEF enter_shell, ShellOutput, ShellExit, ShellSignal, shellUnchanged, evinputVars
<1>12. CASE RunProgram \/ ProgramOutput \/ ProgramsEnd
  BY <1>12, <1>6 DEF RunProgram, ProgramOutput, ProgramsEnd, programUnchanged, evinputVars
<1>9. CASE Fork \/ waitpid \/ Sleep \/ Resume \/ Redraw
  BY <1>9, <1>6 DEF Fork, waitpid, Sleep, Resume, Redraw, evinputVars
<1>10. CASE LoopTest \/ EmptyMenu \/ Paint \/ do_entry \/ exec_params
  BY <1>10, <1>6 DEF LoopTest, EmptyMenu, Paint, do_entry, exec_params, evinputVars
<1>11. CASE \/ libfbpads_init \/ parse_menu_config \/ CheckDisplay \/ InstallHandler
            \/ display_logo \/ FirstMenu \/ libfbpads_destroy \/ RestoreEcho
  BY <1>11, <1>6 DEF libfbpads_init, parse_menu_config, CheckDisplay, InstallHandler,
     display_logo, FirstMenu, libfbpads_destroy, RestoreEcho, evinputVars
<1> QED
  BY <1>1, <1>2, <1>3, <1>4, <1>5, <1>7, <1>8, <1>9, <1>10, <1>11, <1>12
     DEF Next, Main, Start, Menu, RunEntry, RunShell, Leave, Environment

\* No key typed into the forked shell is ever read by the menu: evinput_reload
\* stands between the two.
THEOREM ShellKeysDropped == Spec => []StaleKeysDropped
<1>1. Init => StaleKeysDropped
  BY DEF Init, EvinputInit, StaleKeysDropped
<1>2. TypeOK /\ ControlInv /\ StaleKeysDropped /\ [Next]_vars => StaleKeysDropped'
  <2>1. CASE Next
    BY <2>1, StaleKeysStep
  <2>2. CASE UNCHANGED vars
    BY <2>2 DEF vars, evinputVars, StaleKeysDropped
  <2> QED
    BY <2>1, <2>2
<1> QED
  BY <1>1, <1>2, TypeCorrect, ControlCorrect, PTL DEF Spec

-----------------------------------------------------------------------------
(* Leaving the machine clean *)

\* Only the last step of deinit reaches exit().
LEMMA OnlyDeinitExits ==
  ASSUME Next, pc # "exited", pc' = "exited"
  PROVE  DeinitInput
<1> USE DEF Goto
<1>1. CASE Start \/ Leave
  BY <1>1 DEF Start, Leave, InitInput, libfbpads_init, parse_menu_config,
     CheckDisplay, InstallHandler, display_logo, FirstMenu, libfbpads_destroy, RestoreEcho
<1>2. CASE Menu \/ RunEntry
  BY <1>2 DEF Menu, LoopTest, EmptyMenu, Paint, Dispatch, RunEntry, do_entry, exec_params,
     wait_enter
<1>3. CASE RunShell
  BY <1>3 DEF RunShell, Fork, waitpid, Sleep, Resume, Reload, Redraw
<1>4. CASE sash_execCommand \/ lbml_printf_Fault \/ Finished
  BY <1>4 DEF sash_execCommand, lbml_printf_Fault, Finished, vars
<1>5. CASE Environment
  BY <1>5 DEF Environment, SIGINT_Default, onSIGINT, enter_shell, ShellOutput, ShellExit,
     ShellSignal, shellUnchanged, RunProgram, ProgramOutput, ProgramsEnd, programUnchanged,
     Hotplug, Key, userUnchanged
<1> QED
  BY <1>1, <1>2, <1>3, <1>4, <1>5 DEF Next, Main

\* Every exit through deinit, whatever is still running: the input descriptors
\* are closed, /sys is unmounted, and /dev as well unless fb0 was left open by a
\* failed pad_init or a shell or program is alive that may hold it; the
\* terminal echoes unless something was left alive that may have changed it.
THEOREM ExitIsClean == Spec => CleanExit
<1> DEFINE Clean == pc # "exited" /\ pc' = "exited" =>
                      /\ evfds' = <<>>
                      /\ mnt'["sys"] # "lbml"
                      /\ mnt'["dev"] = "lbml" => (fbfd /\ stat_libfbpads) \/ Heirs
                      /\ StdinIsTty /\ ~abandoned => echo'
<1>1. TypeOK /\ ControlInv /\ [Next]_vars => [Clean]_vars
  <2> SUFFICES ASSUME TypeOK, ControlInv, Next, pc # "exited", pc' = "exited"
               PROVE  /\ evfds' = <<>>
                      /\ mnt'["sys"] # "lbml"
                      /\ mnt'["dev"] = "lbml" => (fbfd /\ stat_libfbpads) \/ Heirs
                      /\ StdinIsTty /\ ~abandoned => echo'
    BY DEF vars
  <2>1. DeinitInput
    BY OnlyDeinitExits
  <2>2. PICK busy \in DevBusy : evinput_deinit(busy)
    BY <2>1 DEF DeinitInput
  <2>3. evfds' = <<>> /\ mnt' \in undo_premount(mnt, busy)
    BY <2>2 DEF evinput_deinit
  <2>4. mnt'["sys"] # "lbml"
    BY <2>3 DEF undo_premount, umount1
  <2>5. ASSUME ~(fbfd /\ stat_libfbpads), ~Heirs
        PROVE  mnt'["dev"] # "lbml"
    <3>1. ~fbfd
      BY <2>1, <2>5 DEF DeinitInput, Goto, ControlInv, ConsoleInv
    <3>2. busy = FALSE
      BY <2>2, <2>5, <3>1 DEF DevBusy
    <3> QED
      BY <2>3, <3>2 DEF undo_premount, umount1
  <2>6. StdinIsTty /\ ~abandoned => echo'
    BY <2>1 DEF DeinitInput, Goto, ControlInv, EchoInv
  <2> QED
    BY <2>3, <2>4, <2>5, <2>6
<1> QED
  BY <1>1, TypeCorrect, ControlCorrect, PTL DEF Spec, CleanExit

-----------------------------------------------------------------------------
(* Coming back from the shell *)

\* A table filled from a set of devices has every one of them.
LEMMA TableComplete ==
  ASSUME NEW D, D \subseteq Devices, NEW t \in SetToSeqs(D)
  PROVE  ToSet(t) = D
<1> DEFINE I == 1..Cardinality(D)
<1>1. IsFiniteSet(D) /\ Cardinality(D) \in Nat
  BY DevicesFit, FS_Subset, FS_CardinalityType
<1>2. t \in [I -> D] /\ \A i, j \in I : i # j => t[i] # t[j]
  BY DEF SetToSeqs
<1>3. t \in Injection(I, D)
  BY <1>2 DEF Injection, IsInjective
<1>4. Cardinality(I) = Cardinality(D)
  BY <1>1, FS_Interval
<1>5. t \in Surjection(I, D)
  BY <1>1, <1>3, <1>4, FS_Injection
<1> QED
  BY <1>2, <1>5 DEF Surjection, ToSet

\* Without faults a scan makes a node for every device, on whatever is then
\* mounted at /dev.
LEMMA ScanFindsAll ==
  ASSUME ~Faults, devs \subseteq Devices, NEW m \in [Points -> Mounts], NEW n \in NodeTables,
         NEW s \in udevzero_scan(m, n)
  PROVE  Openable(s) = devs
<1>1. \A k \in [Points -> Mounts], p \in Points : \A r \in premount1(k, p) : r.ok
  BY DEF premount1
<1>2. \A d \in do_premount(m) : d.ok
  <2>1. \A r \in premount1(m, "sys") : r.ok /\ r.mnt \in [Points -> Mounts]
    BY DEF premount1, Mounts, Points
  <2> QED
    BY <1>1, <2>1 DEF do_premount, Points
<1>3. PICK d \in do_premount(m), n0 \in NodeTables, x \in SUBSET Nodes :
        /\ s = [mnt |-> d.mnt, nodes |-> [n0 EXCEPT ![DevFs(d.mnt)] = @ \cup x]]
        /\ devs # {} => x = devs \cup {FB0}
  BY <1>2 DEF udevzero_scan, NodeTables, Nodes
<1>4. d.mnt \in [Points -> Mounts]
  BY MountTypes
<1>5. DevFs(d.mnt) \in {"root", "host", "lbml"}
  BY <1>4 DEF DevFs, Mounts, Points
<1>6. s.nodes[DevFs(s.mnt)] = n0[DevFs(d.mnt)] \cup x
  BY <1>3, <1>5 DEF NodeTables
<1> QED
  BY <1>3, <1>6 DEF Openable

\* After evinput_reload the table has every device that is present, the ones
\* plugged in while the shell ran too, unless a system call failed.
THEOREM ReloadComplete == Spec => InputReloaded
<1>1. TypeOK /\ [Next]_vars => [pc = "reload" /\ pc' = "redraw" /\ ~Faults => ToSet(evfds') = devs]_vars
  <2> SUFFICES ASSUME TypeOK, Next, pc = "reload", pc' = "redraw", ~Faults
               PROVE  ToSet(evfds') = devs
    BY DEF vars
  <2>1. Reload
    <3>1. CASE Start \/ Leave
      BY <3>1 DEF Start, Leave, InitInput, libfbpads_init, parse_menu_config, CheckDisplay,
         InstallHandler, display_logo, FirstMenu, libfbpads_destroy, RestoreEcho, DeinitInput, Goto
    <3>2. CASE Menu \/ RunEntry
      BY <3>2 DEF Menu, RunEntry, LoopTest, EmptyMenu, Paint, Dispatch, do_entry, exec_params,
         wait_enter, Goto
    <3>3. CASE RunShell
      BY <3>3 DEF RunShell, Fork, waitpid, Sleep, Resume, Redraw, Goto
    <3>4. CASE sash_execCommand \/ lbml_printf_Fault \/ Finished
      BY <3>4 DEF sash_execCommand, lbml_printf_Fault, Finished, Terminal
    <3>5. CASE Environment
      BY <3>5 DEF Environment, SIGINT_Default, onSIGINT, enter_shell, ShellOutput, ShellExit,
         ShellSignal, shellUnchanged, RunProgram, ProgramOutput, ProgramsEnd, programUnchanged,
         Hotplug, Key, userUnchanged
    <3> QED
      BY <3>1, <3>2, <3>3, <3>4, <3>5 DEF Next, Main
  <2>a. PICK busy \in BOOLEAN : evinput_reload(busy)
    BY <2>1, BusyType DEF Reload
  <2>2. PICK u \in undo_premount(mnt, busy) : evinput_init(u, nodes, 0, busy)
    BY <2>a DEF evinput_reload
  <2>3. PICK s \in udevzero_scan(u, nodes) : OpenTable(s)
    BY <2>2 DEF evinput_init
  <2>4. u \in [Points -> Mounts] /\ nodes \in NodeTables /\ devs \subseteq Devices
    BY <2>2, MountTypes DEF TypeOK, EvinputTypeOK, NodeTables
  <2>5. Openable(s) = devs
    BY <2>3, <2>4, ScanFindsAll
  <2>6. evfds' \in SetToSeqs(devs)
    BY <2>3, <2>5 DEF OpenTable, OpenedFrom
  <2> QED
    BY <2>4, <2>6, TableComplete
<1> QED
  BY <1>1, TypeCorrect, PTL DEF Spec, InputReloaded
=============================================================================
