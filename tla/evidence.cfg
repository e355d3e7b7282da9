CONSTANTS
  u = u
  i = i
  x = x
  Cases <- ThreeCases
  Trees <- FewTrees
  MaxVersions = 2
  MaxSessions = 3
  MaxOddities = 1
SPECIFICATION Spec
INVARIANTS TypeOK AcceptedMeansPassed AcceptedCoversTree CleanRunAccepted
CHECK_DEADLOCK FALSE
