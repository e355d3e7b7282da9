CONSTANTS
  k1 = k1
  k2 = k2
  k3 = k3
  Keys <- ThreeKeys
  TTL = 2
  TTLs <- SomeTTLs
  MaxSize = 2
  MaxSets = 5
  MaxTime = 4
SYMMETRY SameKey
SPECIFICATION Spec
INVARIANTS TypeOK Bounded RecentKept
PROPERTIES AnswersAreLast
