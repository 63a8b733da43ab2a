SPECIFICATION Spec
CONSTANTS
  a0 = a0  a1 = a1
  m0 = m0  m1 = m1
  p0 = p0  p1 = p1
  junk = junk
  Empty = Empty
  ReadErr = ReadErr
  NoSpec = NoSpec
  None = None
  Accel <- MCAccel
  Ident <- MCIdent
  Junk <- MCJunk
  DevNum <- MCDevNum
  Config <- RetryConfigs
  Host <- SomeHosts
  Bundle <- RetryBundles
  MaxHostChanges = 0
  MaxCreates = 1
CHECK_DEADLOCK FALSE
INVARIANTS LastErrorHeld
