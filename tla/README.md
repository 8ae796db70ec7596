# lbml3rd in TLA+

A verification project for lbml3rd, the boot manager that runs as `init` (or beside it), shows a menu
on the terminal and on the framebuffer, and starts the selected entry. The modules model the process
(`main.c`), its input layer and device scan (`libudev-zero`), its framebuffer console with the terminal,
the fonts and the glyph cache behind it (`libfbpads`), and the core of its shell (`sash`). TLC checks
them on small instances, TLAPS proves every safety property that the runs check, and the refinements, for all sizes.

## Inventory

| Part | State | Operations | Interacts with |
| --- | --- | --- | --- |
| Process life, `main`, `handle_event_loop`, `do_entry`, `deinit` (main.c) | `going_exit`, `menu_sel_curr`, `sel_changed`, the parsed configuration, the terminal's echo | start-up, loop, entries, fork of a shell, exit | everything below; Ctrl-C through `onSIGINT` |
| Input layer, `evinput_*`, `udevzero_scan`, `do_premount` (main.c) | `evinput_fds[]`, mounts of /sys and /dev, nodes under /dev, the kernel's queues | init, deinit, reload, get | called by the process; devices come and go; a shell reads the same keyboard |
| Drawing, `printUI`, `log_center`, `display_logo` (main.c) | none of its own | menu, message, logo | writes characters to the terminal and to the console |
| Console, `vtconsole` (libfbpads) | cursor, cells, attributes, escape parser | `vtconsole_write` | fed by `libfbpads_vprintf`, paints through `term` |
| Terminal, `term` (libfbpads) | a second screen buffer, cursor, region, modes, dirty rows, history | characters and control sequences, flush, scroll-back, hide and show | painted by the console's callbacks; draws on the pad |
| Glue, `libfbpads.c` | `vtc_instance`, `term_instance`, the descriptor of fb0 | init, destroy, callbacks `vtc_paint` and `vtc_cursormove` | process, console, terminal |
| Text, `font`, `isdw`, `pad` (libfbpads) | the fonts, the glyph cache, the pixels | glyph search, width search, put, fill, change of font | called by the terminal |
| libudev-zero | list of devices, filled by one thread per candidate | scan | result used by `udevzero_scan` |
| sash | aliases, source files, the child it waits for | command loop, built-ins, `runCmd` | in process (`sash_execCommand`) or forked (`enter_shell`) |
| jurt | dynamic arrays, threads | push, pop, create | `log_center` uses the array |
| musl, zlib, stb_image, toml | third-party | | |

What is hard here, and what each part has to get right:

* **One terminal, several owners.** The menu, an entry run in the process and a forked shell take
  turns with screen, echo and keyboard. Interrupts (no `SA_RESTART`), stops (`WUNTRACED`) and deaths
  end the turn at any point. After each turn the menu must be drawn, silent and must not act on keys
  meant for the shell.
* **Set-up that may fail half-way**, in the mounts, the nodes, the framebuffer or the font, and
  a `deinit` that must undo what was done, in the right order.
* **Devices that change** while the table of descriptors does not.
* **Numbers at their limits**: the selection, the console's cursor (1-based parameters, zero, the row
  below the last), the parser's stack, fixed-size tables.
* **Two screens for one picture.** Console and terminal each keep cells and a cursor, and the terminal
  draws lazily; every path that changes one has to tell the other, in the right order.
* **Searches and caches** over tables with a first and a last element, and slots that are reused.
* **Threads over one list**, on a stack frame and an array that end with the caller.
* **A shell inside the process**: a table that is allocated anew in steps, files read in portions while
  a forked child shares their offsets, an interrupt that must reach every nested file.

`PROJECT.json` lists these hazards one by one, each at its line, with the property that would catch it
or the reason why none does.

## Modules

| Module | Models | Kind |
| --- | --- | --- |
| `Evinput` | input layer: mounts, nodes, table, queues, keyboard and bus | component |
| `BootManager` | the process, composed with `Evinput`, signals, shells, user | composition |
| `VtConsole` | the console, one character a step | component |
| `MenuScreen` | the drawing functions as character sequences, composed with `VtConsole` | composition |
| `Term` | the terminal, one control sequence a step, with history and lazy drawing | component |
| `ConsoleTerm` | the console drawing through the terminal by the callbacks | composition of `VtConsole` and `Term` |
| `TableLookup` | a question and its answer from a table | abstract |
| `Font`, `Isdw` | `find_glyph`, and `find` with its two callers, one turn of the loop a step | components, implement `TableLookup` |
| `PadPicture` | a pad that draws every glyph from the font | abstract |
| `Pad` | the pad with its glyph cache | component, implements `PadPicture` |
| `UdevEnumerate` | the threaded scan and the making of nodes | component |
| `AliasMap` | aliases as a map from names to commands | abstract |
| `Sash` | command loop, source files, aliases, programs | component, implements `AliasMap` |
| `MCBootManager`, `MCMenuScreen`, `MCConsoleTerm`, `MCTerm`, `MCText`, `MCUdevEnumerate`, `MCSash` | values for TLC; `MCText` also joins the three modules of the text part | instances |
| `BootManagerProofs`, `VtConsoleProofs`, `MenuScreenProofs`, `TermProofs`, `ConsoleTermProofs`, `TextProofs` (of `Font`, `Isdw`, `Pad`), `UdevProofs`, `SashProofs` | theorems | proofs |

**Evinput.** `mnt` says who mounted what at /sys and /dev (`none`, `host`, `lbml`), `nodes` which device
nodes each file system has that may be seen at /dev, `evfds` is `evinput_fds[0 .. evinput_dev_count-1]`
by device, `queue` what the kernel has queued on each descriptor. `do_premount`, `undo_premount` and
`udevzero_scan` are operators from a state to the set of states they may leave, `evinput_init`,
`evinput_deinit`, `evinput_reload` and `evinput_get` are actions with the names of the C functions.
A queued event carries as history whether it was typed while main() was blocked in `waitpid`.
`evinput_get` returns the first hit of a pass and drops what it read before it; a key that the switch
does not list (R is commented out there) is dropped. ENTER/POWER, UP/VOLUMEUP and DOWN/VOLUMEDOWN are
one key each, because every user of the result treats them alike; events that are no key presses are
read and dropped like `OTHER`. The nondeterministic order of `readdir` is any order of the table.

**BootManager.** `pc` names the point main() has reached; code without an observable point inside is
one action, and main() is cut where a signal, a key or a shell can get in between. `Fork`, `waitpid`,
`Sleep`, `Resume`, `Reload`, `Redraw` are the statements of `case KEY_C`. `shown` is the row that the
screen highlights (or `NoMenu`), `echo` the terminal's echo, `shells` the forked processes. A shell may
start, print, exit (with or without turning the echo off), be killed, stopped and continued.
`programs` says that a program started by a shell or by an entry is alive (`RunProgram`, `ProgramOutput`, `ProgramsEnd`):
it writes to the same terminal, may outlive what started it, and has inherited the evdev descriptors, which are opened
without `O_CLOEXEC` and which `childProcess` does not close. `Heirs` are the processes that may hold them; while there
are any, /dev may be busy (`DevBusy`), but need not be, since a program may close what it inherited.
`abandoned` is history: main() went on while a shell or a program was alive. The configuration is what
`parse_menu_config` leaves in the globals. `lbml_printf_Fault` is the undefined second reading of a
`va_list` when the display is "all" and `va_list` is not passed by value. Deaths of the process by
other signals, and by memory running out, are not modelled.

**VtConsole.** One action per branch of `vtconsole_process`. A character is a string, a cell keeps
"blank or not" and its attributes. A write outside the buffer, or behind the stack of parameters
(`Overrun`), sets the history variable `wild`, after which nothing is claimed. `MaxValue` caps a
parameter, `RowsAbove` how far above the screen the cursor may go.

**MenuScreen.** The functions of main.c as the characters they print, a text being a run of "x" of its
length, cut by the 255-byte buffer of `libfbpads_vprintf`. `Consume` feeds them to `VtConsole`. The header and the
titles, which come from the configuration, have any length; the messages of `log_center` are literals of one
line that fit, and the console has less than 999 rows, so that `Decimal` needs three digits at most
(`ScreenAssumption`). `DrawLogo` takes any image up to the bound, since the scaling makes one side fit and a failed resize
(main.c:569) leaves the image too large in both. `MenuLayout` speaks of menus whose lines, after the cut, fit the width
(`MenuFits`); the other properties of all.

**Term.** `t` is the loaded terminal with the static variables that mirror it; the C functions are
operators from one such record to the next, and `PutChar`, `PutWide`, `Control`, `Csi` and `Mode` are the
bytes a program sends. Lazy drawing may start at each of them (`Starts`) and ends with `EndRead`; `Scrl` is the user's
scroll-back, `Hide` and `Unhide` a switch of terminals on one pad. `t.pad` is what has been drawn. A write outside
the arrays sets `wild`. Left out: the pseudo-terminal, resizing, UTF-8, bold and italic, true colours.

**ConsoleTerm.** Every action of `VtConsole` is joined with the sequence of calls that it makes, in the order
of the code: `vtc_paint` (move, colours, one character) and `vtc_cursormove`. Colours go through `clrmap`
as the code applies it, twice for a painted cell. The terminal of this module is the part of term.c that
the callbacks reach.

**Font, Isdw.** The bounds of the search are variables and a turn of the loop is a step, so that the run
also shows that the search ends. `TableLookup` answers in one step; the mapping hides the bounds.

**Pad.** `pad_put` finds or fills a slot (the character selects a list, whose slots are reused in turn), in the
font of the colours' bold and italic bits or else in the first; `pad_fill` paints. A bitmap is what
it was made from: font, character and colours. `PadPicture` has the same operations without a cache.

**UdevEnumerate.** The caller scans two directories, creates a thread per entry, joins them, frees the array and
makes the nodes; a thread looks at its device, takes the mutex, prepends, and releases. A call may fail
wherever the code looks at its result, for want of memory too (`LookAtNoMemory`, `AddNoMemory`), and a device may go
at any time. `dropped` is history: devices lost to a failed call.

**Sash.** `mode` tells the two uses apart: `enter_shell` (a process that reads the terminal) and
`sash_execCommand` (inside lbml3rd, the tables outlive the call). `frames` are the nested activations of
`readFile`, each with its FILE: offset of the descriptor, buffered lines, and whether it is open.
`runCmd` forks a child whose closing of the source files, which moves the shared offsets back as musl's
`fclose` does, is one step with the fork. `strays` and `zombies` are the other children of the process, which
`waitpid(-1)` may return. `aliasall` is a loop over the built-ins (`do_aliasall`), run by the start of a shell and
as a command. `struck` is history: an interrupt came during a command. Inside lbml3rd the handler is
`onSIGINT`, which does not know `intFlag`: there an interrupt unwinds nothing, and `InterruptUnwinds` speaks of
the shell process.

## Runs

| Run | Shows | Bounds |
| --- | --- | --- |
| `boot_menu` | `TypeOK`; `ShownIsSelected`: the highlighted row is the one ENTER boots; `StaleKeysDropped`; `ConsoleLive`; `EchoOffAtMenu`; `CleanExit`, of every step that ends the process; under `FairSpec` `InterruptExits`, `ShellGivesBack`, `StopReleases` | one device, one queued event (stale or fresh), one shell slot (free again after the shell ended, taken while one is left behind), programs that outlive it, menus of 0 to 2 entries (both ends of the clamp) of every type, all displays, every system call may fail; 429,000 states |
| `hotplug` | `InputReloaded` | two devices, symmetric, that come and go; nothing fails, since a failed `mknod` may lose a device; 1,710,000 states |
| `menu_screen` | `MenuLayout`: exactly the selected title is highlighted, on its row; `CallsIndependent`; `NoWildWrite`; `PrintsOnScreen` | 7 x 6 cells for a menu that needs ten rows, so that it scrolls; a buffer of 16 bytes and a second title of 9 that it cuts to 7; images larger than the screen; the program's stack of 8; 99,000 states |
| `console` | `VtTypeOK`, `CursorBelow`, `WildExplained`; with the terminal `PaintsInPlace`, `StaysMirrored`, `CursorFollows` | 2 x 2 cells, stack of 3, values up to 2, one row above the screen, history of 3 rows: every corner, wrap, scroll and way out exists. The alphabet has no SGR, which `menu_screen` uses and `VtConsoleProofs` covers; 133,000 states |
| `term_rows` | `TermTypeOK`, `ReportReturns`, `RegionOnly`, `HistoryOrder`, `WildOnlyFrom`, `PictureKept` | 3 rows of 1 column, so that a region of two rows scrolls beside a row that must not move; history of 2 rows; margins of every kind (the screen, its upper and its lower part, a reversed pair), counts below, at and above the size of the region, origin mode, scroll-back, a second terminal; 193,000 states |
| `term_lines` | `PictureKept` | 1 row of 2 columns with a wide character, insert mode, reverse video, restored cursors, drawn at once and in lazy bursts; 92,000 states |
| `text` | `FindsGlyph`, `FindEnds`, `FindsWidth`, `WidthEnds`, `CacheSound`, `CacheInvisible` | every font over six codes, every table of up to three ranges and the program's own `dwchars` and `zwchars`; a cache of 2 lists of 2 slots for more glyphs than that |
| `enumerate` | `NoThreadAfterFree`, `CrashNeedsFailure`, `NothingLost`, `ScanEnds` | four devices in two directories, two of them wanted, all failures, unplugging at any time; 402,000 states |
| `sash` | `InterruptUnwinds`, `AliasesAreMap`, `WildNeedsExec` | a table that grows in steps of 2, up to 3 nested files (one too many is refused), buffers of 2 lines under a file of 3 programs, `aliasall`, one other child; 386,000 states |
| `exit_segfault` | violation: `_deinit` prints to the destroyed console | as `boot_menu`, nothing fails |
| `host_mounts` | violation: `undo_premount` unmounts what the host mounted | as `boot_menu`, nothing fails |
| `source_twice` | violation: the lines of a sourced file are executed again | as `sash` |

Deadlock is checked in all of them; a process that ended stutters. Lazy drawing of several rows, with saved cursors, is in
no run, since with three rows it has too many states; `PictureNeverBehind` proves it for every size.

**Fairness.** `FairSpec` adds `WF_vars(Main)`: the kernel goes on running main(). Nothing is
assumed of the user, of shells or of devices, nor of a command run by `sash_execCommand`, which may
never end. `Main` is one disjunction because the process has one thread. `InterruptExits` is stated for
the points that lead to the loop's test; `wait_enter` ignores the interrupt and may wait for ever.
`FindEnds` and `WidthEnds` assume that a loop that can go on does. `ScanEnds` assumes weak fairness of the
caller and of every thread, as the scheduler gives it; strong fairness of the mutex is not needed, because
finitely many threads take it once each.

**Findings.** The violations are what the code does against its own words: the segfault on exit
(main.c:5), the host's mounts (README.md:12), and the sourced lines (sash/sash.1:450). `RestoreEcho` models the
segfault, so that the framebuffer displays reach `exited` only without a terminal on the standard input;
`CleanExit` speaks of the exits there are. It does not promise that /dev is free: after a failed `pad_init` fb0 stays open
(libfbpads.c:56), and a stopped shell or a daemon that was started from the shell keeps what it inherited (main.c:308).
It says that nothing else keeps /dev mounted, and that /sys, the table and the terminal do not suffer from either.

**Seen while modelling.** The models follow the code also where it departs from a comment, a document or
from the terminals it imitates; no run is spent on these:

* R is documented as a key (README.md:60) and commented out in main.c:346;
* CUP without a column (vtconsole.c:201) forgets the row as well, unlike the comment at vtconsole.c:180;
* term.c:1282 sets and resets a wrap mode (DECAWM) that nothing reads; IL in the last row of the region (term.c:685,
  1148) does nothing, and ED 1 (term.c:1106, 1114) leaves the row above the cursor as it is;
* libfbpads.c:17 maps a colour that is already mapped (`clrmap` twice);
* runCmd (sash.c:917) waits for any child after EINTR, while the comment at sash.c:912 speaks of the one it started;
* an `exec` that fails leaves `sourceCount` at -1 (sash.c:1226) and closed files in use;
* the branch of `readFile` for a read that was interrupted is never taken, since musl's `signal` restarts reads.

## Proofs

All theorems hold for every value of the constants that satisfies the named assumptions, which TLC
evaluates in every run: `DevicesFit` (finitely many devices, no more than the table has room for),
`EvinputBounds`, `FB0IsNoInput`, `ConfigsAssumption` (entries have one of the three types and fit
`menu_entries[]`), `BootAssumption`; `ConsoleSize`; `ScreenAssumption`; `HistorySize`; `TermSize`, `TermData`, `TermInput`; `FontsSorted` and `TablesSorted`
(rising codes, disjoint rising ranges); `CacheSize`, `PadSize`, `PadCodes`, `PadFonts`, `PadColors`;
`DirsDisjoint`; `SashSizes`, `SashWords`.

`BootManagerProofs`:

* `TypeCorrect`: first the input layer, function by function (`TableType` ... `EvinputEnvType`), then the
  control state, one step per action.
* `ControlCorrect`: the inductive invariant `ControlInv`. None of the properties is inductive:
  that the highlight is right after a shell needs that no other shell is alive (`ShellInv`), which
  needs that `waitpid` is the only point where one is waited for and that the handler is installed
  there; that the selection is an entry needs that a change is pending only before the paint (`SelInv`,
  `ShownInv`); the console is there because `stat_libfbpads` says so (`ConsoleInv`); and the echo is a
  matter of the point reached (`EchoInv`).
* `SelectionShown`, `MenuSilent`, `ConsoleStaysLive` follow from it.
* `ShellKeysDropped`: with it, since a key typed into the shell can be queued only between the fork
  and the reload, which opens new descriptors.
* `ExitIsClean`: the table is closed before the mounts are undone, fb0 is still open only where `stat_libfbpads` says that
  `pad_init` had failed (`ConsoleInv`), hence only heirs can make /dev busy; the terminal echoes again from
  `RestoreEcho` on unless a process left alive changes it (`EchoInv`).
* `ReloadComplete`: without faults the scan makes a node of every device on whatever is mounted then,
  and a table without repetitions that is as long as the set of devices has all of them.

`VtConsoleProofs`: `VtTypeCorrect` and `CursorStaysBelow` by one invariant (the cursor below the bottom is
the reason why the equality test in `vtconsole_newline` is enough), and `WildAlwaysExplained`, which
rests on the arithmetic of `x + y * width` for positions on the screen. `SetInduction`, which the next modules use, is
induction over the elements of a set of numbers; it rests on well-foundedness (`WFMin`) and needs no operator as parameter.

`MenuScreenProofs`: `DrawingNeverWild`, `CallsAlwaysIndependent` and `PutsAlwaysOnScreen` for every console, and for headers and
titles of any length, those that the buffer cuts or that wrap included; `MenuAlwaysLaidOut` for menus whose lines fit. That a cut is harmless
is not for granted: it holds because the title is the last thing in its call and the reset of the colours has a call of its own.
None of the four says anything of the console in the middle of a string, where the
cursor may be at (-1, -1), a sequence half read and a title half highlighted. The proof follows the string:

* what is known of the console between two characters is a record (`Knowing`) of the parser (state, parameters so far)
  and of the display (attributes, where the cursor is, which cells are highlighted), and `Step` says how a character that
  the program sends changes it. `StepSound`: when it is true before the character, `vtconsole_process` makes it true after;
* `Plays(a, s, b)` is a route through a string, and routes are put together as strings are (`PlaysBoth`, `SaysRun`,
  `SaysFlatten` by `SetInduction`), the buffer of `libfbpads_vprintf` included (`SaysPrintf`). Every output function has a route
  from `Free` (no sequence open, default attributes, cursor on the screen) to what it leaves: `PlaysCenter`,
  `PlaysLogo`, `SaysVisible`, and `PlaysMenu`, which counts newlines so that the scrolled rows are known;
* `ScreenInv`, the inductive invariant, is that what is still on its way has a route from what is true of the console now to
  what the last call leaves. At the end of a call the route is empty, which gives the properties of complete calls; the
  first character of the route gives `PutsAlwaysOnScreen`.

`TermProofs`: `Good` (types, the cursor on the screen, a region that is not empty) is kept by every function, from
`draw_rows` up to the interpreter of control sequences, hence `TermTypeCorrect`; `Safe` adds that nothing
was written outside, kept by every sequence but the ones `Unchecked` names (ED 1 in the first
row, SU and SD of more rows than there are), hence `TermWritesInside`. `ReportAlwaysReturns`
needs besides that origin mode keeps the cursor inside the region. `RegionKept`: `scrl_rows` and the functions that move
rows touch the region alone. `HistoryIsQueue`: what is scrolled out goes to the ring of the history in its order; the
hypothesis is that there are no wide characters or at least two columns, since on one column a wide
character wraps twice and one step appends two rows. `PictureNeverBehind`: the longest proof of the module, since
every function draws at once, lazily, or not at all; what each of them keeps (`Settled`) is that every cell of a row that is
not noted for later is shown as it is, or reversed where the cursor is.

`ConsoleTermProofs`: a terminal is calm when it draws at once, has not scrolled and its pad shows its screen. `vtc_paint` and
`vtc_cursormove` keep it calm (`CtInv`), and a step of the console is a sequence of such calls, taken by `SetInduction` on its
length. Hence `AlwaysInPlace`, `MirrorKept`, `CursorAlwaysFollows`; `ConsoleUnchanged`, that the console joined to
the terminal implements the console alone, which carries the theorems of `VtConsoleProofs` over; and `MirrorFromStart`:
a program that puts characters only while the cursor is on the console sees its buffer on the screen, until something is
written outside the buffer. The cursor may leave the screen in between, as `reset_pointer` makes it do. That main.c is such
a program is `PutsAlwaysOnScreen`, and that it never writes outside is `DrawingNeverWild`; the two modules are
joined by these statements, not by one composition.

`TextProofs`, of `Font` and `Isdw`: the bounds of each search stay in the table and enclose what is sought
(`SearchAlwaysEncloses`, `SearchKeepsRanges`: the inductive invariants, which no run checks by themselves), from which
the answers are right: `FindGlyphIsLookup`, `IsdwIsLookup`, the refinements of `TableLookup`.

`TextProofs`, of `Pad`: the invariant of the cache is that a filled slot holds the bitmap of its key, in the list that its
character selects, and that no glyph is in two slots. `CacheAlwaysSound`, `CacheWithoutDuplicates`, and
`PadIsPicture`: the cache cannot be seen.

`UdevProofs`: one thread at a time holds the mutex (`MutexInv`); what the loops of the caller have visited has had its
thread created or joined (`LoopInv`); a directory that was not scanned has no threads (`FreshInv`); every entry
that was not unplugged gets its thread (`SeenInv`) and what a thread accepted is in the list, dropped or gone
(`ListInv`). Hence `ThreadsJoined`, `CrashExplained`, `ScanComplete` for any number of devices.

`SashProofs`: `InterruptAlwaysUnwinds` from the invariant that after an interrupt the flag is set and the shell is on its
way back; `WildAlwaysNeedsExec` from `TablesInv` (the allocated size is a
multiple of `ALIAS_ALLOC` and holds the used part; until an `exec` fails `sourceCount` is the number of files being
read and all of them are open; what is buffered are lines of the file); `AliasTableIsMap`, which needs that
the names in the table are distinct: `do_alias` looks before it adds and `do_unalias` moves the later entries down.

Only model-checked: the liveness properties `InterruptExits`, `ShellGivesBack`, `StopReleases`, `FindEnds`, `WidthEnds` and
`ScanEnds`, since fairness and ENABLED are out of the prover's reach, and that there is no deadlock. The three runs that end
in a violation show what the code does on an instance, and nothing is proved about them.

## Not modelled, and the plan

Most of the source tree is third-party: musl, zlib, stb_image and toml make up the bulk of its 180,000 lines, and
are modelled only through how the program uses them. Of the program's own code these are left out:

* the commands of sash (`cmd_*`): Unix utilities, file I/O without state that the boot manager shares;
* the udev monitor, the fbpads program and the font tools, which lbml3rd does not run;
* pixels and blending, the ioctl calls of the framebuffer, file formats of fonts and images, TOML;
* wildcards and variables of the shell, its prompt and help;
* what the programs do that shells and entries start, beyond their output, the terminal's echo and the descriptors they
  inherit; they are one flag, so that how many there are is not told apart;
* the splitting of texts of several lines by `log_center`, whose callers pass literals of one line.

More than 16 input devices or 32 entries are excluded by assumption; the former is listed as a hazard.

Next, in this order:

1. `MenuConfig` and `LogCenter`: the parsing of entries with its early returns, the splitting of long
   texts against a reference definition.
2. `DynArray` and `JurtThread`: growing and shrinking of jurt's arrays, the start of its threads.
3. `BootMenu`: the abstract menu (a selection, a screen, an owner of the terminal) that `BootManager`
   implements, as a refinement.
4. Proofs: that ranking functions of `find_glyph` and `find` decrease, as the safety part of `FindEnds` and `WidthEnds`;
   the refinement of item 3.
