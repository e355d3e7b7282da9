CONSTANTS
  acme = acme
  other = other
  here = here
  there = there
  Organizations <- TwoOrganizations
  Apps <- TwoApps
  Expected = here
  Window = 1
  Skew = 2
  RetrySpan = 1
  Retention = 3
  MaxEvents = 2
  MaxSecrets = 2
  MaxTime = 5
SYMMETRY SameOrganization
SPECIFICATION Spec
INVARIANTS TypeOK ActsOnce
PROPERTIES ActsAreAuthentic
