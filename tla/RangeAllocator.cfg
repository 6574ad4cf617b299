SPECIFICATION Spec
CONSTANTS
  Capacity = 7
  NodeCapacity = 5
  Sizes = {1, 2, 3}
  Alignments = {1, 2}
  MaxHeld = 3
INVARIANTS
  TypeOK
  BytesPartitioned
  FreeListCoalesced
  ExhaustionIsReal
