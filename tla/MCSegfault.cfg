\* The TODO at the top of main.c.
SPECIFICATION Spec
CONSTANTS
  Devices = {kbd}
  kbd = kbd
  Keys = {"CONFIRM", "UP", "DOWN", "C", "R", "OTHER"}
  EVINPUT_MAXCOUNT = 16
  QueueBound = 1
  Faults = FALSE
  Configs <- MCConfigs
  MaxEntries = 2
  ShellIds = {sh1}
  sh1 = sh1
  IsPid1 = FALSE
  StdinIsTty = TRUE
  VaListByValue = TRUE
INVARIANTS
  NoSegfault
