CONSTANTS
  a = a
  b = b
  a1 = a1
  a2 = a2
  b1 = b1
  Clients <- TwoClients
  Tasks <- OneOfEach
  Owner <- OwnerOfOneOfEach
  NoTask = NoTask
  Hazards = {"noop", "save"}
  MaxRotations = 2
  MaxFaults = 1
SPECIFICATION Spec
PROPERTIES FileNeverRegresses
