SPECIFICATION Spec
CONSTANTS
  null = null  acc0 = acc0  acc1 = acc1  verb = verb
  Dev <- MCDev
  Hosts <- BoundHosts
  Calls <- MCCalls
  Policies <- MCPolicies
  QuerySize = 1
  MaxRetries = 2
  KernelLimit = 3
  MaxFaults = 1
  MaxReloads = 2
INVARIANTS PathIsContainers
CHECK_DEADLOCK FALSE
