SPECIFICATION StartupSpec
CONSTANTS
  Missing = Missing  Refused = Refused  Unread = Unread
  FirstFiles <- MCFirstFiles
  MaxSets   = 2
  MaxRuns   = 2
  MaxFaults = 1
  NoValue = NoValue
  NoText  = ""
  Cwd     = "cwd"
  Text    <- MCText
  Globals <- MCGlobals
  Locals  <- MCLocals
  Words   <- MCWords
  MaxGlobals = 2
  MaxLocals  = 2
CONSTRAINT OptionsBounded
INVARIANTS OptInIsExplicit HookFollowsRuntime EditsRuncsBundle
PROPERTIES LastValueOfAll
CHECK_DEADLOCK FALSE
