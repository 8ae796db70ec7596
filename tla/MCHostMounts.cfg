\* undo_premount on a machine that already runs.
SPECIFICATION Spec
CONSTANTS
  Devices = {kbd}
  kbd = kbd
  Keys = {"CONFIRM", "UP", "DOWN", "C", "R", "OTHER"}
  EVINPUT_MAXCOUNT = 16
  QueueBound = 1
  Faults = FALSE
  Configs <- MCConfigsInput
  MaxEntries = 2
  ShellIds = {sh1}
  sh1 = sh1
  IsPid1 = FALSE
  StdinIsTty = TRUE
  VaListByValue = FALSE
PROPERTIES
  HostMountsKept
