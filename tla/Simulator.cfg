SPECIFICATION Spec
CONSTANTS
  None = None
  w = w
  a1 = a1
  z = z
  MaxActions = 3
  Prompt = TRUE
  Problems <- MCProblems
CHECK_DEADLOCK TRUE
INVARIANTS
  BytesExact
  DestinationsReserved
  WalkIsSound
PROPERTIES
  KeepsContract
  Terminates
