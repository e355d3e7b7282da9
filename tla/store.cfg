CONSTANTS
  p = p
  q = q
  a = a
  b = b
  Processes <- TwoProcesses
  NoProcess = NoProcess
  Chains <- TwoChains
  MaxSaves = 3
  MaxCrashes = 2
SYMMETRY SameName
SPECIFICATION Spec
INVARIANTS TypeOK RecordsAreWhole SavedSurvives LoadsAreFresh LoadsStayInChain TemporariesAccounted
PROPERTIES ImplementsRegister
