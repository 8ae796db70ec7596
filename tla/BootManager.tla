---------------------------- MODULE BootManager ----------------------------
(***************************************************************************)
(* The life of the lbml3rd process (main.c): start-up, the boot menu, the  *)
(* entries it runs, the shell it forks and the way it ends, together with  *)
(* the people and processes around it: the keyboard, Ctrl-C, the forked    *)
(* shells and the programs that shells and entries start, all of which     *)
(* share its terminal and inherit its descriptors.                         *)
(*                                                                         *)
(* pc names the point main() has reached.  Code that runs without an       *)
(* observable point inside is one action; main() is cut where a signal, a  *)
(* key or a shell can get in between.                                      *)
(***************************************************************************)
EXTENDS Evinput

CONSTANTS
  Configs,        \* outcomes of reading lbml.toml
  MaxEntries,     \* length of menu_entries[]
  ShellIds,       \* bound: forked shells that exist at one time
  IsPid1,         \* TRUE: the process is init
  StdinIsTty,     \* TRUE: tcgetattr works on the standard input
  VaListByValue   \* TRUE: a va_list passed on is a copy (aarch64, not x86_64)

EntryTypes == {"init", "kexec", "shell"}
Displays == {"term", "fb", "all"}

\* A configuration is what parse_menu_config leaves in the globals: entries
\* without a usable type are already left out.  Nothing in main.c compares
\* menu_entries_count with the length of menu_entries[].
ASSUME ConfigsAssumption ==
  /\ MaxEntries \in Nat \ {0}
  /\ \A c \in Configs :
       /\ c.entries \in Seq(EntryTypes) /\ Len(c.entries) <= MaxEntries
       /\ c.splash \in BOOLEAN
       /\ c.display \in Displays

ASSUME BootAssumption ==
  /\ IsPid1 \in BOOLEAN /\ StdinIsTty \in BOOLEAN /\ VaListByValue \in BOOLEAN
  /\ "nobody" \notin ShellIds

VARIABLES
  pc,                     \* the point main() has reached
  going_exit,             \* set by onSIGINT
  handler,                \* onSIGINT is installed
  config_display_device,
  config_show_splash,
  menu_entries,           \* the types of the entries
  menu_sel_curr,          \* 0-based, as in the code
  sel_changed,
  stat_libfbpads,         \* libfbpads_init failed
  vtc,                    \* vtc_instance (and term_instance) exist
  fbfd,                   \* the framebuffer descriptor is open
  shown,                  \* the row the screen highlights, or NoMenu
  echo,                   \* the terminal echoes, shows its cursor
  shells,                 \* the forked shells
  waited,                 \* the one waitpid waits for, or "nobody"
  programs,               \* a program started by a shell or an entry is running
  abandoned               \* history: main() went on while one of them was alive

configVars == <<config_display_device, config_show_splash, menu_entries>>
menuVars   == <<menu_sel_curr, sel_changed>>
fbVars     == <<stat_libfbpads, vtc, fbfd>>
shellVars  == <<shells, waited, programs, abandoned>>
vars == <<evinputVars, pc, going_exit, handler, configVars, menuVars, fbVars,
          shown, echo, shellVars>>

NoMenu == -1

\* The points of main(), in the order it reaches them.
StartUp  == {"evinput_init", "libfbpads_init", "parse_menu_config",
             "config_enter", "check_display", "sigaction"}
Service  == {"splash", "printUI", "loop", "get", "paint"}
Entry    == {"do_entry", "exec_params", "params_enter", "sash", "sash_enter",
             "entry_enter"}
Shell    == {"fork", "waitpid", "sleep", "resume", "reload", "redraw"}
Deinit   == {"destroy", "echo_on", "evinput_deinit"}
Terminal == {"exited", "booted", "quit", "rebooting", "killed", "segv"}

ShellStates == {"none", "starting", "running", "stopped", "exited", "killed"}
Alive(s)    == shells[s] \in {"starting", "running", "stopped"}
LiveShells  == { s \in ShellIds : Alive(s) }

\* The types of the control state of main().
BootTypeOK ==
  /\ pc \in StartUp \cup Service \cup Entry \cup Shell \cup Deinit \cup Terminal
  /\ going_exit \in BOOLEAN /\ handler \in BOOLEAN
  /\ config_display_device \in Displays /\ config_show_splash \in BOOLEAN
  /\ menu_entries \in Seq(EntryTypes) /\ Len(menu_entries) <= MaxEntries
  /\ menu_sel_curr \in 0..(MaxEntries - 1) /\ sel_changed \in BOOLEAN
  /\ stat_libfbpads \in BOOLEAN /\ vtc \in BOOLEAN /\ fbfd \in BOOLEAN
  /\ shown \in {NoMenu} \cup 0..(MaxEntries - 1) /\ echo \in BOOLEAN
  /\ shells \in [ShellIds -> ShellStates]
  /\ waited \in ShellIds \cup {"nobody"}
  /\ programs \in BOOLEAN /\ abandoned \in BOOLEAN

\* The selection is an index of menu_entries[] and every other variable of the
\* process and of its input layer is of its type.
TypeOK == EvinputTypeOK /\ BootTypeOK

Init ==
  /\ EvinputInit
  /\ pc = "evinput_init"
  /\ going_exit = FALSE /\ handler = FALSE
  /\ config_display_device = "term" /\ config_show_splash = TRUE
  /\ menu_entries = <<>>
  /\ menu_sel_curr = 0 /\ sel_changed = FALSE
  /\ stat_libfbpads = FALSE /\ vtc = FALSE /\ fbfd = FALSE
  /\ shown = NoMenu /\ echo = TRUE
  /\ shells = [s \in ShellIds |-> "none"]
  /\ waited = "nobody" /\ programs = FALSE /\ abandoned = FALSE

-----------------------------------------------------------------------------
(* Output *)

LBML_HAS_FB == config_display_device \in {"fb", "all"}

Goto(from, to) == pc = from /\ pc' = to

\* lbml_printf passes one va_list to vprintf and then to libfbpads_vprintf.
\* Where that is one object (x86_64) the second reading has undefined
\* arguments: it may print as intended or fault.  A step that prints with
\* arguments is at one of these points.
PrintPoints == {"sigaction", "splash", "printUI", "do_entry", "exec_params", "redraw"}
lbml_printf_Fault ==
  /\ config_display_device = "all" /\ ~VaListByValue
  /\ \/ pc \in PrintPoints
     \/ pc = "paint" /\ sel_changed
     \/ pc \in {"sash_enter", "entry_enter"} /\ NextKey = "CONFIRM"
  /\ pc' = "segv"
  /\ UNCHANGED <<evinputVars, going_exit, handler, configVars, menuVars,
                 fbVars, shown, echo, shellVars>>

\* The terminal attributes; without a terminal the function returns early.
\* It also prints, which is checked where the console may be gone.
set_echo_enabled(state) == echo' = IF StdinIsTty THEN state ELSE echo

\* The row that is equal to menu_sel_curr is the highlighted one.
printUI ==
  shown' = IF menu_sel_curr \in 0..(Len(menu_entries) - 1)
           THEN menu_sel_curr ELSE NoMenu

LeaveMenu == shown' = NoMenu     \* clear_screen, or a message over the menu

-----------------------------------------------------------------------------
(* Start-up: main() down to its loop *)

\* Other processes with descriptors of this one: none is opened O_CLOEXEC, so
\* every shell has them, and what a shell or an entry runs has them in turn.
Heirs == LiveShells # {} \/ programs

\* /dev stays busy while the framebuffer of this process is open, and may be
\* while there are heirs: they may have closed theirs, or got none.
DevBusy == IF fbfd THEN {TRUE} ELSE IF Heirs THEN BOOLEAN ELSE {FALSE}

InitInput ==
  /\ Goto("evinput_init", "libfbpads_init")
  /\ evinput_init(mnt, nodes, Len(evfds), FALSE)
  /\ UNCHANGED <<going_exit, handler, configVars, menuVars, fbVars, shown,
                 echo, shellVars>>

\* fb_init needs the node of fb0 and a driver behind it.  When pad_init fails
\* after it, the descriptor stays open and no console is made.
libfbpads_init ==
  /\ Goto("libfbpads_init", "parse_menu_config")
  /\ \E r \in {"ok", "fb_init", "pad_init"} :
       /\ r # "fb_init" => FB0 \in nodes[DevFs(mnt)]
       /\ stat_libfbpads' = (r # "ok")
       /\ fbfd' = (r # "fb_init")
       /\ vtc' = (r = "ok")
  /\ UNCHANGED <<evinputVars, going_exit, handler, configVars, menuVars,
                 shown, echo, shellVars>>

\* Also what main() does with the result.
parse_menu_config ==
  /\ pc = "parse_menu_config"
  /\ \/ /\ pc' = "config_enter"
        /\ UNCHANGED configVars
     \/ \E c \in Configs :
          /\ pc' = "check_display"
          /\ config_display_device' = c.display
          /\ config_show_splash' = c.splash
          /\ menu_entries' = c.entries
  /\ UNCHANGED <<evinputVars, going_exit, handler, menuVars, fbVars, shown,
                 echo, shellVars>>

\* Mutant: a display that could not be set up is used all the same.
CheckDisplay_Unchecked ==
  /\ Goto("check_display", "sigaction")
  /\ UNCHANGED <<evinputVars, going_exit, handler, configVars, menuVars,
                 fbVars, shown, echo, shellVars>>

\* if(LBML_HAS_FB() && stat_libfbpads) deinit();
CheckDisplay ==
  /\ Goto("check_display", IF LBML_HAS_FB /\ stat_libfbpads
                           THEN "destroy" ELSE "sigaction")
  /\ UNCHANGED <<evinputVars, going_exit, handler, configVars, menuVars,
                 fbVars, shown, echo, shellVars>>

\* sigaction, set_echo_enabled(0), clear_screen
InstallHandler ==
  /\ Goto("sigaction", IF config_show_splash THEN "splash" ELSE "printUI")
  /\ handler' = TRUE
  /\ set_echo_enabled(FALSE)
  /\ UNCHANGED <<evinputVars, going_exit, configVars, menuVars, fbVars,
                 shown, shellVars>>

\* Whether it is drawn whole or left at the first row after an interrupt,
\* main() goes on to the menu.
display_logo ==
  /\ Goto("splash", "printUI")
  /\ UNCHANGED <<evinputVars, going_exit, handler, configVars, menuVars,
                 fbVars, shown, echo, shellVars>>

FirstMenu ==
  /\ Goto("printUI", "loop")
  /\ printUI
  /\ UNCHANGED <<evinputVars, going_exit, handler, configVars, menuVars,
                 fbVars, echo, shellVars>>

-----------------------------------------------------------------------------
(* The loop of main() and handle_event_loop *)

\* Mutant: the loop does not look at going_exit.
LoopTest_Ignored ==
  /\ Goto("loop", "get")
  /\ UNCHANGED <<evinputVars, going_exit, handler, configVars, menuVars,
                 fbVars, shown, echo, shellVars>>

LoopTest ==
  /\ Goto("loop", IF going_exit THEN "destroy" ELSE "get")
  /\ UNCHANGED <<evinputVars, going_exit, handler, configVars, menuVars,
                 fbVars, shown, echo, shellVars>>

ClampSel(s) == IF s < 0 THEN 0
               ELSE IF s >= Len(menu_entries) THEN Len(menu_entries) - 1
               ELSE s

\* Mutant: only the lower end is clamped.
menu_sel_rel_Unclamped(dir) ==
  /\ sel_changed' = TRUE
  /\ menu_sel_curr' = IF menu_sel_curr + dir < 0 THEN 0 ELSE menu_sel_curr + dir

\* Mutant: the selection moves and nothing asks for a redraw.
menu_sel_rel_Silent(dir) ==
  /\ sel_changed' = sel_changed
  /\ menu_sel_curr' = ClampSel(menu_sel_curr + dir)

menu_sel_rel(dir) ==
  /\ sel_changed' = TRUE
  /\ menu_sel_curr' = ClampSel(menu_sel_curr + dir)

\* No entries: handle_event_loop returns before it reads any input.
EmptyMenu ==
  /\ Goto("get", "loop")
  /\ menu_entries = <<>>
  /\ UNCHANGED <<evinputVars, going_exit, handler, configVars, menuVars,
                 fbVars, shown, echo, shellVars>>

\* The switch on what evinput_get returns.  KEY_R (_deinit, reboot) is in the
\* switch although evinput_get never returns it; KEY_C goes on in Fork.
Dispatch(key) ==
  /\ pc = "get"
  /\ menu_entries # <<>>
  /\ evinput_get(key)
  /\ pc' = IF key = "CONFIRM" THEN "do_entry"
           ELSE IF key = "R" THEN "rebooting"
           ELSE IF key = "C" THEN "fork"
           ELSE "paint"
  /\ IF key \in {"UP", "DOWN"} THEN menu_sel_rel(IF key = "UP" THEN -1 ELSE 1)
     ELSE UNCHANGED menuVars
  /\ UNCHANGED <<going_exit, handler, configVars, fbVars, shown, echo, shellVars>>

\* The output half of handle_event_loop.
Paint ==
  /\ Goto("paint", "loop")
  /\ sel_changed' = FALSE
  /\ IF sel_changed THEN printUI ELSE UNCHANGED shown
  /\ UNCHANGED <<evinputVars, going_exit, handler, configVars, menu_sel_curr,
                 fbVars, echo, shellVars>>

-----------------------------------------------------------------------------
(* do_entry: what a confirmed entry does *)

\* clear_screen, reset_pointer, then the first step of the entry's type.
do_entry ==
  /\ pc = "do_entry"
  /\ LeaveMenu
  /\ LET type == menu_entries[menu_sel_curr + 1]
     IN  /\ pc' = IF type = "init" THEN "exec_params"
                  ELSE IF type = "kexec" THEN "entry_enter" ELSE "sash"
         /\ IF type = "kexec" THEN UNCHANGED echo ELSE set_echo_enabled(TRUE)
  /\ UNCHANGED <<evinputVars, going_exit, handler, configVars, menuVars,
                 fbVars, shellVars>>

\* The parameters do not parse, execv replaces the process, or it fails.
exec_params ==
  /\ pc = "exec_params"
  /\ \/ pc' = "params_enter" /\ UNCHANGED echo
     \/ pc' = "booted" /\ UNCHANGED echo
     \/ pc' = "entry_enter" /\ set_echo_enabled(FALSE)
  /\ UNCHANGED <<evinputVars, going_exit, handler, configVars, menuVars,
                 fbVars, shown, shellVars>>

\* The command runs inside this process.  0 (every built-in, and a program
\* that succeeds) ends lbml through deinit; the built-in exit leaves without
\* it unless this is init; the built-in exec replaces the process.  A program
\* may outlive the command: runCmd gives it up, or it has left a daemon.
sash_execCommand ==
  /\ pc = "sash"
  /\ \/ pc' \in {"destroy", "sash_enter", "booted"}
     \/ ~IsPid1 /\ pc' = "quit"
  /\ abandoned' = (abandoned \/ programs)
  /\ UNCHANGED <<evinputVars, going_exit, handler, configVars, menuVars,
                 fbVars, shown, echo, shells, waited, programs>>

\* Nothing but the confirm key ends the loop, going_exit does not; with what
\* the caller does next.
wait_enter(key) ==
  /\ pc \in {"config_enter", "params_enter", "sash_enter", "entry_enter"}
  /\ evinput_get(key)
  /\ pc' = IF key # "CONFIRM" THEN pc
           ELSE IF pc = "config_enter" THEN "destroy"
           ELSE IF pc = "entry_enter" THEN "paint"
           ELSE "entry_enter"
  /\ IF key = "CONFIRM" /\ pc \in {"params_enter", "sash_enter"}
     THEN set_echo_enabled(FALSE) ELSE UNCHANGED echo
  /\ IF key = "CONFIRM" /\ pc = "entry_enter" THEN printUI ELSE UNCHANGED shown
  /\ UNCHANGED <<going_exit, handler, configVars, menuVars, fbVars, shellVars>>

-----------------------------------------------------------------------------
(* The forked shell, seen from main() *)

\* fork fails when the system says so (in the model: at the bound, too).
Fork ==
  /\ pc = "fork"
  /\ \/ /\ Faults \/ LiveShells = ShellIds
        /\ pc' = "paint"
        /\ UNCHANGED shellVars
     \/ \E s \in ShellIds \ LiveShells :
          /\ pc' = "waitpid"
          /\ shells' = [shells EXCEPT ![s] = "starting"]
          /\ waited' = s
          /\ UNCHANGED <<programs, abandoned>>
  /\ UNCHANGED <<evinputVars, going_exit, handler, configVars, menuVars,
                 fbVars, shown, echo>>

\* Mutant: waitpid without WUNTRACED.
waitpid_NotUntraced ==
  /\ waited # "nobody"
  /\ pc = "waitpid"
  /\ shells[waited] \in {"exited", "killed"}
  /\ pc' = IF shells[waited] = "exited" THEN "resume" ELSE "sleep"
  /\ shells' = [shells EXCEPT ![waited] = "none"]
  /\ waited' = "nobody"
  /\ UNCHANGED <<evinputVars, going_exit, handler, configVars, menuVars,
                 fbVars, shown, echo, programs, abandoned>>

\* waitpid(fpid, &st, WUNTRACED) reports an exit, a death or a stop.
waitpid ==
  /\ pc = "waitpid"
  /\ waited # "nobody"
  /\ shells[waited] \in {"exited", "killed", "stopped"}
  /\ pc' = IF shells[waited] = "exited" THEN "resume" ELSE "sleep"
  /\ shells' = [shells EXCEPT ![waited] = IF @ = "stopped" THEN @ ELSE "none"]
  /\ abandoned' = (abandoned \/ Alive(waited) \/ programs)
  /\ waited' = "nobody"
  /\ UNCHANGED <<evinputVars, going_exit, handler, configVars, menuVars,
                 fbVars, shown, echo, programs>>

\* nano_sleep of a second, for the message about the shell.
Sleep ==
  /\ Goto("sleep", "resume")
  /\ UNCHANGED <<evinputVars, going_exit, handler, configVars, menuVars,
                 fbVars, shown, echo, shellVars>>

\* going_exit = 0: an interrupt that came during the shell is forgotten.
Resume ==
  /\ Goto("resume", "reload")
  /\ going_exit' = FALSE
  /\ UNCHANGED <<evinputVars, handler, configVars, menuVars, fbVars, shown,
                 echo, shellVars>>

Reload ==
  /\ Goto("reload", "redraw")
  /\ \E busy \in DevBusy : evinput_reload(busy)
  /\ UNCHANGED <<going_exit, handler, configVars, menuVars, fbVars, shown,
                 echo, shellVars>>

\* Mutant: back to the loop without printUI.
Redraw_NoPrint ==
  /\ Goto("redraw", "paint")
  /\ set_echo_enabled(FALSE)
  /\ UNCHANGED <<evinputVars, going_exit, handler, configVars, menuVars,
                 fbVars, shown, shellVars>>

\* Mutant: the terminal is left as the shell had it.
Redraw_KeepEcho ==
  /\ Goto("redraw", "paint")
  /\ printUI
  /\ UNCHANGED <<evinputVars, going_exit, handler, configVars, menuVars,
                 fbVars, echo, shellVars>>

Redraw ==
  /\ Goto("redraw", "paint")
  /\ set_echo_enabled(FALSE)
  /\ printUI
  /\ UNCHANGED <<evinputVars, going_exit, handler, configVars, menuVars,
                 fbVars, shellVars>>

-----------------------------------------------------------------------------
(* deinit *)

\* term_instance exists exactly when vtc_instance does.
libfbpads_destroy ==
  /\ Goto("destroy", "echo_on")
  /\ vtc' = FALSE
  /\ fbfd' = (fbfd /\ ~vtc)
  /\ UNCHANGED <<evinputVars, going_exit, handler, configVars, menuVars,
                 stat_libfbpads, shown, echo, shellVars>>

\* set_echo_enabled(1) prints to the display, which has just been destroyed:
\* vtconsole_write dereferences the null vtc_instance.
RestoreEcho ==
  /\ Goto("echo_on", IF StdinIsTty /\ LBML_HAS_FB /\ ~vtc
                     THEN "segv" ELSE "evinput_deinit")
  /\ set_echo_enabled(TRUE)
  /\ UNCHANGED <<evinputVars, going_exit, handler, configVars, menuVars,
                 fbVars, shown, shellVars>>

\* Mutant: exit without evinput_deinit.
DeinitInput_Skipped ==
  /\ Goto("evinput_deinit", "exited")
  /\ UNCHANGED <<evinputVars, going_exit, handler, configVars, menuVars,
                 fbVars, shown, echo, shellVars>>

DeinitInput ==
  /\ Goto("evinput_deinit", "exited")
  /\ \E busy \in DevBusy : evinput_deinit(busy)
  /\ UNCHANGED <<going_exit, handler, configVars, menuVars, fbVars, shown,
                 echo, shellVars>>

-----------------------------------------------------------------------------
(* Signals *)

\* Before sigaction the interrupt kills the process, unless it is init.
SIGINT_Default ==
  /\ ~handler /\ ~IsPid1
  /\ pc \notin Terminal
  /\ pc' = "killed"
  /\ UNCHANGED <<evinputVars, going_exit, handler, configVars, menuVars,
                 fbVars, shown, echo, shellVars>>

\* The handler has no SA_RESTART: a waitpid with nothing to report returns
\* EINTR, and main() goes on with the shell alive.
onSIGINT ==
  /\ handler
  /\ pc \notin Terminal
  /\ going_exit' = TRUE
  /\ IF pc = "waitpid" /\ waited # "nobody" /\ shells[waited] \in {"starting", "running"}
     THEN pc' = "sleep" /\ waited' = "nobody" /\ abandoned' = TRUE
     ELSE UNCHANGED <<pc, waited, abandoned>>
  /\ UNCHANGED <<evinputVars, handler, configVars, menuVars, fbVars, shown,
                 echo, shells, programs>>

-----------------------------------------------------------------------------
(* The shells themselves: enter_shell in the child *)

\* What is left of a shell nobody waits for is not distinguished.
Becomes(s, state) ==
  shells' = [shells EXCEPT ![s] =
               IF state \in {"exited", "killed"} /\ s # waited THEN "none" ELSE state]

shellUnchanged == <<evinputVars, pc, going_exit, handler, configVars, menuVars,
                    fbVars, waited, programs, abandoned>>

\* clear_screen, reset_pointer, set_echo_enabled(1), then sash_main.
enter_shell(s) ==
  /\ shells[s] = "starting"
  /\ Becomes(s, "running")
  /\ set_echo_enabled(TRUE)
  /\ LeaveMenu
  /\ UNCHANGED shellUnchanged

ShellOutput(s) ==
  /\ shells[s] = "running"
  /\ LeaveMenu
  /\ UNCHANGED <<shellUnchanged, echo, shells>>

\* End of input turns the echo off again, the built-in exit does not.
ShellExit(s) ==
  /\ shells[s] = "running"
  /\ Becomes(s, "exited")
  /\ set_echo_enabled(FALSE) \/ UNCHANGED echo
  /\ UNCHANGED <<shellUnchanged, shown>>

ShellSignal(s) ==
  /\ \/ Alive(s) /\ Becomes(s, "killed")
     \/ shells[s] = "running" /\ Becomes(s, "stopped")
     \/ shells[s] = "stopped" /\ Becomes(s, "running")
  /\ UNCHANGED <<shellUnchanged, shown, echo>>

-----------------------------------------------------------------------------
(* The programs that shells and entries start, until this process ends *)

programUnchanged == <<evinputVars, pc, going_exit, handler, configVars, menuVars,
                      fbVars, shells, waited, abandoned>>

RunProgram ==
  /\ pc \notin Terminal
  /\ ~programs
  /\ pc = "sash" \/ \E s \in ShellIds : shells[s] = "running"
  /\ programs' = TRUE
  /\ UNCHANGED <<programUnchanged, shown, echo>>

\* It writes to the terminal, whose attributes it may change as well.
ProgramOutput ==
  /\ pc \notin Terminal
  /\ programs
  /\ LeaveMenu
  /\ \E state \in BOOLEAN : set_echo_enabled(state)
  /\ UNCHANGED <<programUnchanged, programs>>

ProgramsEnd ==
  /\ pc \notin Terminal
  /\ programs
  /\ programs' = FALSE
  /\ UNCHANGED <<programUnchanged, shown, echo>>

-----------------------------------------------------------------------------
(* The user *)

userUnchanged == <<pc, going_exit, handler, configVars, menuVars, fbVars,
                   shown, echo, shellVars>>

Key(d, k) ==
  /\ pc \notin Terminal
  /\ KeyPress(d, k, IF pc = "waitpid" THEN "shell" ELSE "menu")
  /\ UNCHANGED userUnchanged

Hotplug(d) ==
  /\ pc \notin Terminal
  /\ Plug(d) \/ Unplug(d)
  /\ UNCHANGED userUnchanged

-----------------------------------------------------------------------------
Start  == \/ InitInput \/ libfbpads_init \/ parse_menu_config \/ CheckDisplay
          \/ InstallHandler \/ display_logo \/ FirstMenu
Menu   == \/ LoopTest \/ EmptyMenu \/ Paint
          \/ \E k \in Keys \cup {"none"} : Dispatch(k)
RunEntry == \/ do_entry \/ exec_params
            \/ \E k \in Keys \cup {"none"} : wait_enter(k)
RunShell == Fork \/ waitpid \/ Sleep \/ Resume \/ Reload \/ Redraw
Leave  == libfbpads_destroy \/ RestoreEcho \/ DeinitInput

\* What main() does by itself.  A command run by sash_execCommand may take
\* for ever, and a fault is not something to be fair to.
Main == Start \/ Menu \/ RunEntry \/ RunShell \/ Leave

Environment ==
  \/ SIGINT_Default \/ onSIGINT
  \/ \E s \in ShellIds : enter_shell(s) \/ ShellOutput(s) \/ ShellExit(s) \/ ShellSignal(s)
  \/ RunProgram \/ ProgramOutput \/ ProgramsEnd
  \/ \E d \in Devices : Hotplug(d) \/ \E k \in Keys : Key(d, k)

Finished == pc \in Terminal /\ UNCHANGED vars

Next == Main \/ sash_execCommand \/ lbml_printf_Fault \/ Environment \/ Finished

Spec == Init /\ [][Next]_vars

\* The kernel goes on running the process.
FairSpec == Spec /\ WF_vars(Main)

-----------------------------------------------------------------------------
(* Properties *)

\* What the user sees is what ENTER boots: whenever the loop can read a key,
\* the highlighted row is an entry, the one do_entry would get.  Only a shell or
\* a program left alive (its output goes to the same screen) can disturb it.
ShownIsSelected ==
  pc \in {"loop", "get"} /\ menu_entries # <<>> /\ ~abandoned
    => /\ shown = menu_sel_curr
       /\ menu_sel_curr \in 0..(Len(menu_entries) - 1)

\* Keys typed into the shell are not acted upon by the menu: once
\* handle_event_loop is back from the shell, none of them is queued.
StaleKeysDropped ==
  pc \notin {"waitpid", "sleep", "resume", "reload"}
    => \A d \in Devices : \A i \in DOMAIN queue[d] : queue[d][i].typed = "menu"

\* A display that is in use exists: past the check in main() and until
\* libfbpads_destroy, a framebuffer display has a console and a descriptor.
ConsoleLive ==
  pc \in Service \cup Entry \cup Shell /\ LBML_HAS_FB => vtc /\ fbfd

\* The menu never runs with the terminal echoing, whatever ran before it: an
\* init that could not be executed, a failed command, a shell.
EchoOffAtMenu ==
  pc \in {"loop", "get"} /\ StdinIsTty /\ ~abandoned => ~echo

\* deinit leaves the machine as lbml found it, as far as it is lbml's, on every
\* way out: no descriptor in the table, /sys unmounted, and /dev too unless a
\* process still has descriptors below it, which is this one after a failed
\* pad_init (fb0 is never closed) or an heir.  The terminal echoes, unless a
\* process that was left alive has changed it again.
CleanExit ==
  [][pc # "exited" /\ pc' = "exited" =>
       /\ evfds' = <<>>
       /\ mnt'["sys"] # "lbml"
       /\ mnt'["dev"] = "lbml" => (fbfd /\ stat_libfbpads) \/ Heirs
       /\ StdinIsTty /\ ~abandoned => echo']_vars

\* Coming back from the shell finds every input device there is, the ones
\* plugged in meanwhile too, when no system call fails.
InputReloaded ==
  [][pc = "reload" /\ pc' = "redraw" /\ ~Faults => ToSet(evfds') = devs]_vars

\* An interrupt seen at the menu ends the process.
InterruptExits ==
  (going_exit /\ (pc \in {"loop", "paint"} \/ (pc = "get" /\ menu_entries = <<>>)))
    ~> pc \in Terminal

\* A shell that ended gives the menu back, drawn with the current selection.
ShellGivesBack ==
  (pc = "waitpid" /\ waited # "nobody" /\ shells[waited] \in {"exited", "killed"})
    ~> \/ pc = "loop" /\ (menu_entries = <<>> \/ abandoned \/ shown = menu_sel_curr)
       \/ pc \in Terminal

\* A stopped shell does not hold the boot manager for ever.
StopReleases ==
  []<>~(pc = "waitpid" /\ waited # "nobody" /\ shells[waited] = "stopped")

-----------------------------------------------------------------------------
(* The inductive invariant behind ShownIsSelected, EchoOffAtMenu, ConsoleLive *)
(* and CleanExit                                                             *)

\* While nothing has been left behind, the only shell alive is waited for, and
\* programs run only while main() waits for a shell or a command; and onSIGINT
\* is in place wherever a shell can be forked.
ShellInv ==
  /\ pc \in Service \cup Entry \cup Shell => handler
  /\ pc = "waitpid" <=> waited # "nobody"
  /\ ~abandoned => LiveShells \subseteq {waited}
  /\ ~abandoned /\ programs => pc \in {"waitpid", "sash"}

\* The selection is an entry; a change of it is pending only before the paint.
SelInv ==
  /\ menu_entries = <<>> => menu_sel_curr = 0
  /\ menu_entries # <<>> => menu_sel_curr < Len(menu_entries)
  /\ sel_changed => pc \in {"paint"} \cup Terminal
  /\ pc \in StartUp => menu_sel_curr = 0

\* Where the menu is on the screen, its highlight is the selection.
ShownInv ==
  /\ pc \in {"loop", "get", "fork"} \/ (pc = "paint" /\ ~sel_changed)
  /\ menu_entries # <<>> /\ ~abandoned
  => shown = menu_sel_curr

\* Where the terminal must be silent, and where it must echo again.
EchoInv ==
  StdinIsTty /\ ~abandoned =>
    /\ pc \in Service \cup {"fork", "do_entry", "entry_enter"} => ~echo
    /\ pc \in {"evinput_deinit", "exited"} => echo

\* libfbpads_init's result is remembered, and tested before the display is used;
\* libfbpads_destroy closes fb0 unless pad_init had failed.
ConsoleInv ==
  /\ pc \in {"parse_menu_config", "config_enter", "check_display", "sigaction", "destroy"}
              \cup Service \cup Entry \cup Shell
       => (stat_libfbpads = ~vtc) /\ (vtc => fbfd)
  /\ pc \in {"sigaction"} \cup Service \cup Entry \cup Shell /\ LBML_HAS_FB => vtc
  /\ pc \in {"echo_on", "evinput_deinit"} /\ fbfd => stat_libfbpads

ControlInv == ShellInv /\ SelInv /\ ShownInv /\ EchoInv /\ ConsoleInv

-----------------------------------------------------------------------------
(* What the documentation says and the code does not do *)

\* main.c: "TODO: fix segfault when exiting".
NoSegfault == pc # "segv"

\* undo_premount undoes do_premount: what the host had mounted stays.
HostMountsKept == [][\A p \in Points : mnt[p] = "host" => mnt'[p] = "host"]_vars
=============================================================================
