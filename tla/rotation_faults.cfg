CONSTANTS
  a = a
  b = b
  a1 = a1
  a2 = a2
  b1 = b1
  Clients <- TwoClients
  Tasks <- ThreeTasks
  Owner <- OwnerOfThree
  NoTask = NoTask
  Hazards = {"noop", "save", "dirsync", "load", "lock", "refuse", "late", "cancel", "hook", "reenter", "crash"}
  MaxRotations = 2
  MaxFaults = 1
CONSTRAINTS RetryComesFirst LastIsFresh
SYMMETRY SameWorker
SPECIFICATION Spec
INVARIANTS TypeOK RenewalsSerialized NeverAheadOfFile UnsavedIsCurrent
PROPERTIES ChecksEndCurrent FileNeverRegresses MemoryNeverRegresses ImplementsChain
