CONSTANTS
  k1 = k1
  k2 = k2
  k3 = k3
  Keys <- ThreeKeys
  TTL = 2
  TTLs <- LiveTTLs
  MaxSize = 2
  MaxSets = 3
  MaxTime = 1
SPECIFICATION Spec
PROPERTIES EvictsEarliestExpiry
