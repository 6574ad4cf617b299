SPECIFICATION FixedSpec
CONSTANTS
  None = None
  w = w
  a1 = a1
  b1 = b1
  c1 = c1
  MaxActions = 3
  ActionKinds = {"fetch", "release", "evict"}
  Problems <- MCProblems
CHECK_DEADLOCK TRUE
INVARIANTS
  RangesIntact
  PlacementSound
  CertifiedNeverStuck
