SPECIFICATION Spec
CONSTANTS
  a0 = a0  a1 = a1
  Writer <- MCWriter
  GaudinetCalls <- MCGaudinet
  Parts = 2
  Looks <- MCLooks
  Sources <- MCSources
  Images <- MCImages
  MaxFaults = 1
  MaxKills = 1
  MaxReplaced = 1
INVARIANTS FilesWhole SuccessIsFresh FailsForCause TempsRemoved PortsInPlace
PROPERTIES ReadersUndisturbed
CHECK_DEADLOCK FALSE
