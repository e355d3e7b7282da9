CONSTANTS
  a = a
  b = b
  a1 = a1
  a2 = a2
  b1 = b1
  Clients <- TwoClients
  Tasks <- OneOfEach
  Owner <- OwnerOfOneOfEach
  NoTask = NoTask
  Hazards = {"save", "load", "lock", "refuse", "hook", "reenter"}
  MaxRotations = 1
  MaxFaults = 1
SPECIFICATION FairSpec
INVARIANTS CurrentCredentialHeld
PROPERTIES OperationsReturn WorkersConverge
