\* One device, the shell slots and every display: the safety properties, and what
\* must happen while the kernel keeps running main().
SPECIFICATION FairSpec
CONSTANTS
  Devices = {kbd}
  kbd = kbd
  Keys = {"CONFIRM", "UP", "DOWN", "C", "OTHER"}
  EVINPUT_MAXCOUNT = 16
  QueueBound = 1
  Faults = TRUE
  Configs <- MCConfigs
  MaxEntries = 2
  ShellIds = {sh1}
  sh1 = sh1
  IsPid1 = FALSE
  StdinIsTty = TRUE
  VaListByValue = FALSE
INVARIANTS
  TypeOK
  ShownIsSelected
  StaleKeysDropped
  ConsoleLive
  EchoOffAtMenu
PROPERTIES
  CleanExit
  InterruptExits
  ShellGivesBack
  StopReleases
