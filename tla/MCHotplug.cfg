\* Two devices that come and go: the mounts, the nodes and the table.
SPECIFICATION Spec
CONSTANTS
  Devices = {kbd, pwr}
  kbd = kbd
  pwr = pwr
  Keys = {"CONFIRM", "DOWN", "C", "R"}
  EVINPUT_MAXCOUNT = 16
  QueueBound = 1
  Faults = FALSE
  Configs <- MCConfigsInput
  MaxEntries = 2
  ShellIds = {sh1}
  sh1 = sh1
  IsPid1 = TRUE
  StdinIsTty = TRUE
  VaListByValue = TRUE
SYMMETRY DeviceSymmetry
PROPERTIES
  InputReloaded
