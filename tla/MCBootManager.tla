--------------------------- MODULE MCBootManager ---------------------------
(* Small instances of BootManager for TLC. *)
EXTENDS BootManager

Conf(entries, display, splash) ==
  [entries |-> entries, display |-> display, splash |-> splash]

\* An empty menu, every type of entry and every display; with one entry an arrow
\* key has nowhere to go.
MCConfigs ==
  { Conf(<<>>, "all", TRUE),
    Conf(<<"init", "shell">>, "term", FALSE),
    Conf(<<"kexec">>, "fb", TRUE) }

\* For the runs about input: one display, so that the devices vary instead.
MCConfigsInput == { Conf(<<"init", "shell">>, "term", FALSE) }

\* Devices differ in nothing but their names.
DeviceSymmetry == Permutations(Devices)
=============================================================================
