SPECIFICATION Spec
CONSTANTS
  Missing = Missing  Empty = Empty  Torn = Torn  Down = Down  None = None
  Engines <- MCEngines
  Dirs    <- MCDirs
  Files   <- MCFiles
  MaxRuns    = 3
  MaxFaults  = 1
  MaxKills   = 1
  MaxReboots = 1
INVARIANTS OthersKept SuccessApplied EngineBehindOnlyIf RepeatChangesNothing
PROPERTIES DryRunWritesNothing
CHECK_DEADLOCK FALSE
