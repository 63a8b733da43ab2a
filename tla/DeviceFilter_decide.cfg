SPECIFICATION DeviceSpec
CONSTANTS
  RuleLists <- MCRuleLists
  Programs  <- MCPrograms
  Contexts  <- MCContexts
INVARIANTS DecidesAsRules ProgramLoads
CHECK_DEADLOCK FALSE
