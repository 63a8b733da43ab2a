SPECIFICATION MCSpec
CONSTANTS
  a0 = a0  a1 = a1
  m0 = m0  m1 = m1
  p0 = p0  p1 = p1
  junk = junk
  Empty = Empty
  ReadErr = ReadErr
  NoSpec = NoSpec
  None = None
  Accel <- MCAccel
  Ident <- MCIdent
  Junk <- MCJunk
  DevNum <- MCDevNum
  Config <- AllConfigs
  Host <- AllHosts
  Bundle <- CreateBundles
  MaxHostChanges = 2
  MaxCreates = 3
CONSTRAINT HostsBounded
CHECK_DEADLOCK FALSE
INVARIANTS TypeOK GrantsPreserved HandedOverConfigured SelectionUsable MacMatchesSelection ErrorsVisible NoLeakedTemps
PROPERTIES RetrySelectsSame BundleContract
