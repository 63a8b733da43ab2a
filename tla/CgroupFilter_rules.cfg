SPECIFICATION LiveSpec
CONSTANTS
  null = null  acc0 = acc0  acc1 = acc1  verb = verb
  Dev <- MCDev
  Hosts <- MCHosts
  Calls <- MCCalls
  Policies <- MCPolicies
  QuerySize = 1
  MaxRetries = 2
  KernelLimit = 3
  MaxFaults = 1
  MaxReloads = 2
INVARIANTS NeverWider DevicesAllowed
PROPERTIES HookConcludes
CHECK_DEADLOCK FALSE
