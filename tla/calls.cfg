CONSTANTS
  x = x
  y = y
  Calls <- TwoCalls
  Methods <- OneOfEach
  HasStore = TRUE
SYMMETRY SameCall
SPECIFICATION Spec
INVARIANTS TypeOK NeverReplayed OutcomeTellsEffect CreatedOnce
CHECK_DEADLOCK FALSE
