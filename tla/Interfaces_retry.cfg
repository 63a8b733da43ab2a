SPECIFICATION Spec
CONSTANTS
  pod = pod  box = box  third = third
  NoLink = NoLink
  Netns <- Three
  Pod <- Pods
  Link <- TwoLinks
  MaxCreates = 2
  MaxFaults = 1
CONSTRAINT ContendBounded
CHECK_DEADLOCK FALSE
INVARIANTS ITypeOK StartedComplete SomeoneStarts
