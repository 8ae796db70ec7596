\* Four devices, all failures and unplugging at any time.
SPECIFICATION EnumSpec
CONSTANTS
  Dir <- MCDir
  Subsystem <- MCSubsystem
  SubsystemMatch = {"input"}
  SubsystemNomatch = {}
INVARIANTS
  NoThreadAfterFree
  CrashNeedsFailure
  NothingLost
PROPERTIES
  ScanEnds
