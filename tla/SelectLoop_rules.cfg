SPECIFICATION Spec
CONSTANTS
  a0 = "0"  a1 = "1"  m0 = "m0"  m1 = "m1"  p0 = "p0"  p1 = "p1"  junk = "x"
  Accel <- MCAccel  Ident <- MCIdent  Junk <- MCJunk  DevNum <- MCNums
  Empty = ""  ReadErr = "unreadable"
  Nodes       <- MCNodes
  Hosts       <- AllHosts
  Inputs      <- MCInputs
INVARIANTS AllocatesByLastRule ResolvesAsDeclared
CHECK_DEADLOCK FALSE
