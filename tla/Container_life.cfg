SPECIFICATION CSpec
CONSTANTS
  a0 = a0  a1 = a1
  m0 = m0  m1 = m1
  p0 = p0  p1 = p1
  junk = junk
  Empty = Empty
  ReadErr = ReadErr
  NoSpec = NoSpec
  None = None
  Accel <- MCAccel
  Ident <- MCIdent
  Junk <- MCJunk
  DevNum <- MCDevNum
  Config <- LifeConfigs
  Host <- AllHosts
  Bundle <- LifeBundles
  MaxHostChanges = 1
  MaxCreates = 2
  HookConfig <- LifeHooks
CONSTRAINT LifeBounded
CHECK_DEADLOCK FALSE
INVARIANTS CTypeOK SelectionIsBound StartedAsSelected WithinAllocation NothingAskedNothingDone
